------------------------------ MODULE MCCatalog ------------------------------
(* Catalog for TLC.                                                        *)
EXTENDS Catalog

CONSTANTS p1, o1, i1
=============================================================================
