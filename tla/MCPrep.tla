-------------------------------- MODULE MCPrep --------------------------------
(***************************************************************************)
(* The instance of Prep that TLC checks: either the users share tasks      *)
(* without dates, or one user's tasks have dates and the trip moves.       *)
(***************************************************************************)
EXTENDS Prep, TLC

VARIABLE alone  \* bound of the model: the one user whose tasks have dates, if any

Bound ==
  IF alone = NoUser THEN days = {} /\ \A p \in Procs : req[p].date = NoDate
                    ELSE \A u \in Users \ {alone} : standing[u] = "none"

MCInit == Init /\ alone \in Users \cup {NoUser} /\ Bound

MCSpec == MCInit /\ [][Next /\ UNCHANGED alone /\ Bound']_<<vars, alone>>

Symm == Permutations(Procs) \union Permutations(Users)
=============================================================================
