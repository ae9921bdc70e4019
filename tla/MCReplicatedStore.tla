------------------------- MODULE MCReplicatedStore -------------------------
(***************************************************************************)
(* The deployment of docker-compose.ha.yml: two instances that mirror to   *)
(* each other.  One capture (pcap, then manifest), whose topology is       *)
(* rewritten by every GET /topology, and write requests that store nothing *)
(* but whose commit covers the whole scope all the same.                   *)
(***************************************************************************)
EXTENDS ReplicatedStore, TLC

CONSTANTS a, b, wa, wb

MCInstances == {a, b}
MCReplicas == a :> <<b>> @@ b :> <<a>>
MCMinReplicas == a :> 1 @@ b :> 1
MCWorkers == {wa, wb}
MCHome == wa :> a @@ wb :> b
MCFileOrder == <<"manifest", "pcap", "topology">>
MCVouches == "manifest" :> {"pcap"}
MCWrites == [capture |-> <<"pcap", "manifest">>, topology |-> <<"topology">>, other |-> <<>>]
MCNeeds == [capture |-> {}, topology |-> {"pcap", "manifest"}, other |-> {}]
MCServes == [k \in {"capture", "topology", "other"} |-> MCInstances]
\* One writer per file: the topology is asked of one instance only.
MCServesOne == [MCServes EXCEPT !.topology = {b}]
MCRewritten == {"topology"}
=============================================================================
