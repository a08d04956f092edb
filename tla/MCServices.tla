----------------------------- MODULE MCServices -----------------------------
(* Services for TLC: one instance, one binding of either type.             *)
EXTENDS Services

CONSTANT b1
=============================================================================
