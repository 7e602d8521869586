----------------------------- MODULE MCMockData -----------------------------
(* A small instance of MockData. *)
EXTENDS MockData, TLC

CONSTANTS w1, w2, u1, u2, c1, c2, i1, k1, k2, j1, j2, j3

MCAdd == [op |-> "add", record |-> None, keys |-> Keys]
MCRemove == [op |-> "remove", record |-> i1, keys |-> {}]
MCUpdate == [op |-> "update", record |-> i1, keys |-> {k1}]
MCProposals == {{MCAdd}, {MCUpdate, MCRemove}}
MCUnusable == {MCRemove}
MCSymmetry == Permutations(Workers) \cup Permutations(Users) \cup Permutations(JobIds)
                \cup Permutations(ChangeSets)
=============================================================================
