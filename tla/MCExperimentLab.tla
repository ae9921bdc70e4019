---------------------------- MODULE MCExperimentLab ----------------------------
(***************************************************************************)
(* A batch of a baseline and an ablation cell; live requests ask for the   *)
(* baseline, which has a run of the old layout.                     *)
(***************************************************************************)
EXTENDS ExperimentLab

MCLevels         == <<"small">>
MCCompletenesses == <<"1.0">>
MCAblations      == <<"no_gnn">>
MCRequests       == {Cell("small", "1.0", "baseline", "default")}
MCExperiments    == MCRequests \cup {Cell("small", "1.0", "no_gnn", "default")}
MCLegacy         == {Cell("small", "1.0", "baseline", "default")}
=============================================================================
