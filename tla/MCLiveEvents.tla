---------------------------- MODULE MCLiveEvents ----------------------------
(* A small instance of LiveEvents: one user's stream, a notice and a change. *)
EXTENDS LiveEvents, TLC

CONSTANTS u1, u2, s1, s2, n1, n2, p1, p2

MCOwner == [s \in Streams |-> IF s = s1 THEN u1 ELSE u2]
MCRecipients == [n \in Notices |-> {u1}]
MCSymmetry == Permutations(Changes)
=============================================================================
