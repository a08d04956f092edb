---------------------------- MODULE NameService -----------------------------
(***************************************************************************)
(* What the name registry promises, whoever does the work: unique names    *)
(* for the objects of one type.                                            *)
(*                                                                         *)
(* An object shows only a name that is claimed for it.  A claim is made on *)
(* a free name and never passes to another object.  It ends only when the  *)
(* object that shows the name gives it up; from then on the object is      *)
(* leaving, until it shows another name or none.  A claim that an object   *)
(* fails to end stays for ever.                                            *)
(***************************************************************************)
CONSTANTS Objects, Names, None

VARIABLES
    claim,      \* the object every name is claimed for, or None
    shown,      \* the name every live object shows, or None
    leaving     \* the objects about to stop showing their names

served == <<claim, shown, leaving>>

Init ==
    /\ claim = [n \in Names |-> None]
    /\ shown = [o \in Objects |-> None]
    /\ leaving = {}

Claim(o, n) ==
    /\ claim[n] = None
    /\ claim' = [claim EXCEPT ![n] = o]
    /\ UNCHANGED <<shown, leaving>>

\* Ending the claim may fail; the object leaves the name all the same.
GiveUp(o) ==
    /\ shown[o] # None
    /\ o \notin leaving
    /\ claim[shown[o]] = o
    /\ leaving' = leaving \cup {o}
    /\ claim' \in {claim, [claim EXCEPT ![shown[o]] = None]}
    /\ UNCHANGED shown

\* A new object shows its first name, or one that leaves a name another.
Take(o, n) ==
    /\ claim[n] = o
    /\ shown[o] = None \/ o \in leaving
    /\ shown' = [shown EXCEPT ![o] = n]
    /\ leaving' = leaving \ {o}
    /\ UNCHANGED claim

Leave(o) ==
    /\ o \in leaving
    /\ shown' = [shown EXCEPT ![o] = None]
    /\ leaving' = leaving \ {o}
    /\ UNCHANGED claim

Next ==
    \E o \in Objects :
        \/ \E n \in Names : Claim(o, n) \/ Take(o, n)
        \/ GiveUp(o)
        \/ Leave(o)

Spec == Init /\ [][Next]_served
=============================================================================
