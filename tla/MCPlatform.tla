------------------------------ MODULE MCPlatform ------------------------------
(* Platform for TLC: two spaces, two routes.                                *)
EXTENDS Platform
=============================================================================
