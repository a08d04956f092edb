------------------------------ MODULE MCStaging ------------------------------
(* Staging for TLC: three builds of two packages.                           *)
EXTENDS Staging
=============================================================================
