-------------------------------- MODULE Arrays --------------------------------
(***************************************************************************)
(* Array.prototype.sort, for a comparison that never answers 0, and the    *)
(* for loop over an array.  They are written as a rank and as a recursive  *)
(* function, which the proofs can reason about; what the loop does with an *)
(* element is a function too, from what was gathered before it.            *)
(***************************************************************************)
EXTENDS Naturals, Sequences, FiniteSets

\* The i-th of the sorted elements is the one with exactly i - 1 before it.
Sort(s, Before(_, _)) ==
    LET Rank(j) == Cardinality({k \in DOMAIN s : Before(s[k], s[j])})
    IN  [i \in DOMAIN s |-> s[CHOOSE j \in DOMAIN s : Rank(j) = i - 1]]

ForEach(s, start, step) ==
    LET after[n \in 0..Len(s)] == IF n = 0 THEN start ELSE step[s[n]][after[n - 1]]
    IN  after[Len(s)]
=============================================================================
