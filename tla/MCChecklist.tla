---------------------------- MODULE MCChecklist ----------------------------
(***************************************************************************)
(* Small instances of Checklist for TLC.                                   *)
(***************************************************************************)
EXTENDS Checklist, TLC

CONSTANTS w1, w2, u1, u2, c1, c2, c3, c4, i1, i2, j1, j2, j3, j4, j5

\* Proposals: a new item with a rewording, or a removal.
MCProposals ==
    {{[op |-> "add", item |-> None], [op |-> "update", item |-> i]} : i \in Items} \cup
    {{[op |-> "remove", item |-> i]} : i \in Items}

\* Proposals nobody has to tell apart.
MCOneProposal == {{}}

MCSymmetry ==
    Permutations(Workers) \cup Permutations(Users) \cup Permutations(Items)
=============================================================================
