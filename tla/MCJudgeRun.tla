----------------------------- MODULE MCJudgeRun -----------------------------
(* One judgement costs two of the month's three units: a second one fits      *)
(* only if the first was cheap, was released or has expired.                  *)
EXTENDS JudgeRun, TLC

MCProfile ==
    [p \in Profiles |-> [priced |-> TRUE, inPrice |-> 1, outPrice |-> 1, maxIn |-> 1,
                         maxOut |-> 1, perRun |-> 2, monthly |-> 3]]

MCSymmetry == Permutations(Requests) \cup Permutations(Packages)
=============================================================================
