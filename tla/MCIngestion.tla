---------------------------- MODULE MCIngestion ----------------------------
(***************************************************************************)
(* Small instances of Ingestion for TLC.                                   *)
(***************************************************************************)
EXTENDS Ingestion, TLC

CONSTANTS w1, w2, c1, c2, j1, j2, j3, j4, j5

MCWorkers == {w1, w2}
MCOneCommit == {c1}
MCTwoCommits == {c1, c2}
MCFiveIds == {j1, j2, j3, j4, j5}

\* The second commit lost a file, so it fills fewer slots than the first.
MCChunksOf == [c \in Commits |-> IF c = c1 THEN {1, 2} ELSE {1}]

MCSymmetry == Permutations(Workers) \cup Permutations(JobIds)
=============================================================================
