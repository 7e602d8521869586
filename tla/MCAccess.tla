------------------------------ MODULE MCAccess ------------------------------
(* A small instance of Access. *)
EXTENDS Access

MCSystemRoles == [n \in {"owner", "viewer"} |->
                    IF n = "owner" THEN {"grant", "revoke"} ELSE {"revoke"}]
=============================================================================
