---------------------------- MODULE RemoteAgent ----------------------------
(***************************************************************************)
(* What the worker and the adapter owe each other about the agent of a     *)
(* run, with everything between them left out: one launch request is sent, *)
(* it is accepted or refused, and an agent that has ended never acts       *)
(* again.  HermesLane implements this on the worker's side, with its       *)
(* crashes and redeliveries; AgentProcess on the adapter's side, where an  *)
(* agent ends in several places at once.                                   *)
(***************************************************************************)
CONSTANT Runs

VARIABLE remote   \* the life of each run's agent

\* The worker's side starts before any launch; the adapter's side when the
\* requests that may reach it are on their way.
Init == remote \in [Runs -> {"none", "sent"}]

Becomes(r, from, to) == remote[r] = from /\ remote' = [remote EXCEPT ![r] = to]

\* HermesClient._request: the launch leaves the worker.
Send(r) == Becomes(r, "none", "sent")

\* HermesAdapter.execute: the record is made and the run is the active one; or
\* the launch is turned down.
Accept(r) == Becomes(r, "sent", "alive")
Refuse(r) == Becomes(r, "sent", "refused")

\* The agent can act no more: its launch is done and nothing of it is left that
\* could start or reach a provider.
End(r) == Becomes(r, "alive", "ended")

Next == \E r \in Runs : Send(r) \/ Accept(r) \/ Refuse(r) \/ End(r)

Spec == Init /\ [][Next]_remote
=============================================================================
