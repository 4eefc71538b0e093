------------------------------ MODULE MCBudget ------------------------------
(* Three runs, two months and two profiles whose policies disagree on the    *)
(* monthly limit, so that whichever reserves first decides the month.        *)
EXTENDS Budget, TLC

MCProfile ==
    [p \in Profiles |->
        IF p = "workflow"
          THEN [priced |-> TRUE, inPrice |-> 1, outPrice |-> 2, maxIn |-> 1,
                maxOut |-> 2, perRun |-> 3, monthly |-> 5]
          ELSE [priced |-> TRUE, inPrice |-> 3, outPrice |-> 3, maxIn |-> 1,
                maxOut |-> 1, perRun |-> 2, monthly |-> 4]]

MCSymmetry == Permutations(Runs)

=============================================================================
