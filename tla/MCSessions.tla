----------------------------- MODULE MCSessions -----------------------------
(***************************************************************************)
(* Small instances of Sessions for TLC.                                    *)
(***************************************************************************)
EXTENDS Sessions, TLC

CONSTANTS u1, u2, u3, e1, e2, c1, r1, r2

MCSymmetry == Permutations(Users) \cup Permutations(Emails) \cup Permutations(Requests)
=============================================================================
