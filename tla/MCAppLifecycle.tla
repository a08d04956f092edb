--------------------------- MODULE MCAppLifecycle ---------------------------
(* AppLifecycle for TLC.                                                   *)
EXTENDS AppLifecycle

CONSTANT d1

\* What an app is created with.
Empty == {<<"STOPPED", None>>}
Staged == {<<"STOPPED", d1>>}
Started == {<<"STARTED", d1>>}
Any == Empty \cup Staged \cup Started

\* A hash without collisions.
Distinct == [v \in Revs |-> v]
=============================================================================
