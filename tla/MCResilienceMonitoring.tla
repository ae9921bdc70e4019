----------------------- MODULE MCResilienceMonitoring -----------------------
(***************************************************************************)
(* Small instance: a default state rule of each kind and both sweep rules, *)
(* two scenarios, and twins whose topologies breach, hold and clear each   *)
(* rule and whose scenarios come and go.                                   *)
(***************************************************************************)
EXTENDS ResilienceMonitoring

Connectivity == [name |-> "connectivity_low", indicator |-> "connectivity_ratio",
                 op |-> "lt", threshold |-> 80, margin |-> 5, scope |-> "state"]
Reachable == [name |-> "reachable_nodes_low", indicator |-> "reachable_node_ratio",
              op |-> "lt", threshold |-> 80, margin |-> 5, scope |-> "state"]
SpofConnectivity == [name |-> "spof_connectivity", indicator |-> "connectivity_ratio",
                     op |-> "lt", threshold |-> 50, margin |-> 5, scope |-> "sweep"]
SpofNoPath == [name |-> "spof_no_alternate_path", indicator |-> "alternative_path_available",
               op |-> "is_false", threshold |-> 0, margin |-> 0, scope |-> "sweep"]

\* Sweep rules need not come last; state rules are judged first all the same.
MCRules == <<SpofConnectivity, Connectivity, SpofNoPath, Reachable>>
MCScenarios == 1..2

\* What a scenario finds: a single point of failure, a band value, no problem.
Spof == [connectivity_ratio |-> 40, alternative_path_available |-> FALSE]
Band == [connectivity_ratio |-> 52, alternative_path_available |-> TRUE]
Fine == [connectivity_ratio |-> 60, alternative_path_available |-> TRUE]

\* Largest component and number of reachable nodes, of five.
G(largest, reachable, sweep) ==
    [connectivity_ratio |-> largest, reachable_node_ratio |-> reachable, sweep |-> sweep]

\* Healthy, an outage, half recovered, recovered with scenario 1 gone, and an
\* outage with scenario 2 gone.
MCTopology == << G(5, 5, <<Fine, Spof>>), G(3, 3, <<Spof, Band>>), G(4, 5, <<Band, Band>>),
                 G(5, 4, 2 :> Spof), G(3, 5, <<Spof>>) >>
MCTwins == DOMAIN MCTopology
MCGraphs == Range(MCTopology)

\* What the theorems ask of the rules and of MaxScenarios.
ASSUME InstanceAssumption == MarginsKeepApart /\ NothingCutOff
=============================================================================
