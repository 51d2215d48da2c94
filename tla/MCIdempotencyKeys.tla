-------------------------- MODULE MCIdempotencyKeys --------------------------
(***************************************************************************)
(* Small instances of IdempotencyKeys for TLC: a request, two retries with *)
(* the same content and one with other content.                            *)
(***************************************************************************)
EXTENDS IdempotencyKeys

MCRequests == { "first", "retry", "another", "other" }

MCBody == [r \in MCRequests |-> IF r = "other" THEN "b" ELSE "a"]
=============================================================================
