------------------------------- MODULE MCEval -------------------------------
(* A small instance of Eval: two workers deployed with different prompts. *)
EXTENDS Eval, TLC

CONSTANTS w1, w2, s1, s2, r1, j1, j2, j3, p1, p2, p3

MCBuild == [w \in Workers |-> IF w = w1 THEN "old" ELSE "new"]
\* Sets from nothing; a run of a ready set with more faults, or with the set edited.
MCStarts ==
    {[ready |-> {}, budget |-> [creations |-> 2, runs |-> 0, exclusions |-> 1,
                                reindexes |-> 1, faults |-> 1]],
     [ready |-> {s1}, budget |-> [creations |-> 0, runs |-> 1, exclusions |-> 0,
                                  reindexes |-> 1, faults |-> 2]],
     [ready |-> {s1}, budget |-> [creations |-> 0, runs |-> 1, exclusions |-> 1,
                                  reindexes |-> 0, faults |-> 1]]}
MCSymmetry == Permutations(JobIds) \cup Permutations(Positions)
=============================================================================
