----------------------------- MODULE MCAuthToken -----------------------------
(* An instance of AuthToken for TLC. *)
EXTENDS AuthToken

CONSTANTS c1, c2, t1, t2, t3

MCCallers == {c1, c2}
MCTokens  == {t1, t2, t3}
=============================================================================
