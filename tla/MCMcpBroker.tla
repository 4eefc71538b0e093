----------------------------- MODULE MCMcpBroker -----------------------------
(* All three workflows, and two Hermes runs on the imported event; the       *)
(* second run's child may have been told the identifiers of the first's.     *)
EXTENDS McpBroker, TLC

CONSTANTS First, Second

MCAgentKinds == {"eventbrite"}
MCDisclosed == {<<Second, First>>}

\* A behaviour is about one event: the demo and its approvals, the typed one, or
\* the imported one with the agent's runs.  The three share no row.
\* The second run comes on an event that is not imported anew.
OneStory ==
    LET imported == newest > 1 \/ source # 0 \/ \E f \in Refreshers : fetched[f] # 0
        begun == {k \in {"synthetic", "manual"} : workflow[k] # NoWorkflow}
    IN  /\ Cardinality(begun) + (IF imported THEN 1 ELSE 0) <= 1
        /\ \/ newest = 1 /\ \A f \in Refreshers : fetched[f] = 0
           \/ \E r \in Runs : run[r] = NoRun

MCSymmetry == Permutations(Contents) \cup Permutations(Tabs)
=============================================================================
