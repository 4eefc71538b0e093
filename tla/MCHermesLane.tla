---------------------------- MODULE MCHermesLane ----------------------------
(* The lane with room in its month for two reservations, be it two runs or a *)
(* run and a judgement, so that money never hides what they do to each other.*)
EXTENDS HermesLane, TLC

\* A run costs two of the month's four units.
MCProfile ==
    [p \in Profiles |-> [priced |-> TRUE, inPrice |-> 1, outPrice |-> 1, maxIn |-> 1,
                         maxOut |-> 1, perRun |-> 2, monthly |-> 4]]

MCSymmetry == Permutations(Runs) \cup Permutations(Workers) \cup Permutations(Keys)
=============================================================================
