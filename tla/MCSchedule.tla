------------------------------ MODULE MCSchedule ------------------------------
(***************************************************************************)
(* A small calendar for Schedule: four instants, of which the west has two *)
(* on each date and the east is one instant ahead.                         *)
(***************************************************************************)
EXTENDS Schedule, TLC

TwoZones ==
  [z \in {"west", "east"} |->
     [t \in 0..4 |-> IF z = "west" THEN t \div 2 ELSE (t + 1) \div 2]]

Dates(from, to, z) == [exact |-> FALSE, from |-> from, to |-> to, zone |-> z]
Times(from, to, z) == [exact |-> TRUE, from |-> from, to |-> to, zone |-> z]

SomeWindows ==
  {Dates(0, 1, "west"), Dates(1, 1, "west"), Dates(0, 1, "east"), Times(1, 3, "west")}

SomeSpans == {[from |-> 0, to |-> 2], [from |-> 1, to |-> 3], [from |-> 2, to |-> 3]}

Symm == Permutations(Procs)
=============================================================================
