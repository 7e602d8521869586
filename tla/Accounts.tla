------------------------------ MODULE Accounts ------------------------------
(* What every module about notifying people is about. *)
CONSTANTS
    Users,    \* accounts
    None      \* SQL NULL, Python's None
=============================================================================
