---------------------------- MODULE BuildPromise ----------------------------
(***************************************************************************)
(* What staging promises the users of one app, whoever does the work.      *)
(*                                                                         *)
(* A build is asked for with a package, it is staged or it fails, and that *)
(* is final.  Its droplet is made from that package.  A staged build may   *)
(* become the current droplet of the app.  Staged builds are removed in    *)
(* the end, but never the current droplet, and never one of the newest     *)
(* Retained others.                                                        *)
(***************************************************************************)
EXTENDS Naturals, FiniteSets

CONSTANTS
    Builds,         \* numbered in the order they are asked for
    Packages,
    Retained        \* how many staged builds are kept

VARIABLES
    state,          \* of every build, as the API shows it
    package,        \* the package every build is asked for with
    droplet,        \* the package every droplet is made from
    current         \* the build that is the current droplet, or 0

promised == <<state, package, droplet, current>>

\* The app may have droplets already.
Init ==
    /\ state \in [Builds -> {"none", "STAGED"}]
    /\ \A b \in Builds : state[b] = "none" => package[b] = 0
    /\ droplet = package
    /\ current # 0 => state[current] = "STAGED"

Create(b) ==
    /\ state[b] = "none"
    /\ \E p \in Packages : package' = [package EXCEPT ![b] = p]
    /\ state' = [state EXCEPT ![b] = "STAGING"]
    /\ UNCHANGED <<droplet, current>>

Stage(b) ==
    /\ state[b] = "STAGING"
    /\ state' = [state EXCEPT ![b] = "STAGED"]
    /\ droplet' = [droplet EXCEPT ![b] = package[b]]
    /\ UNCHANGED <<package, current>>

Fail(b) ==
    /\ state[b] = "STAGING"
    /\ state' = [state EXCEPT ![b] = "FAILED"]
    /\ UNCHANGED <<package, droplet, current>>

SetCurrent(b) ==
    /\ state[b] = "STAGED"
    /\ current' = b
    /\ UNCHANGED <<state, package, droplet>>

Newer(b) == {c \in Builds \ {current} : c > b /\ state[c] = "STAGED"}

Remove(b) ==
    /\ state[b] = "STAGED"
    /\ b # current
    /\ Cardinality(Newer(b)) >= Retained
    /\ state' = [state EXCEPT ![b] = "gone"]
    /\ UNCHANGED <<package, droplet, current>>

Next ==
    \E b \in Builds : Create(b) \/ Stage(b) \/ Fail(b) \/ SetCurrent(b) \/ Remove(b)

Spec == Init /\ [][Next]_promised
=============================================================================
