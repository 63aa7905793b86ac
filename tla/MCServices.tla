------------------------------ MODULE MCServices ------------------------------
(***************************************************************************)
(* Instances of the parts of the service that hold no trip: the            *)
(* calculations on amounts, the place searches and the users' profiles.    *)
(* They share no state but the clock of the last two, so each behaviour is *)
(* one part's and the others rest.                                         *)
(***************************************************************************)
EXTENDS Settlement, Places, Profiles, TLC

CONSTANTS c1, c2, q1, q2, s1, s2, t1, t2, t3

CONSTANT PlacesUntil  \* bound of the model: when the clock of the places stops

VARIABLE part

vars == <<part, sumVars, placeVars, profileVars>>

MCHolder == t1 :> s1 @@ t2 :> s2 @@ t3 :> s1

MCSymmetry == Permutations({c1, c2}) \cup Permutations({q1, q2})

MCInit ==
  /\ part \in {"settlement", "places", "profiles"}
  /\ SettlementInit /\ PlacesInit /\ ProfilesInit

MCNext ==
  /\ UNCHANGED part
  /\ \/ /\ part = "settlement" /\ SettlementNext
        /\ UNCHANGED <<placeVars, profiles, rows, request>>
     \/ /\ part = "places" /\ PlacesNext /\ clock' <= PlacesUntil
        /\ UNCHANGED <<sumVars, profiles, rows, request>>
     \/ /\ part = "profiles" /\ ProfilesNext
        /\ UNCHANGED <<sumVars, window, next, cache, places, call, searched, allowance>>

MCSpec == MCInit /\ [][MCNext]_vars
=============================================================================
