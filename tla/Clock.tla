-------------------------------- MODULE Clock --------------------------------
(***************************************************************************)
(* The time that src/internal/places and src/internal/auth measure with    *)
(* time.Now, and the timeout of every request.                             *)
(***************************************************************************)
EXTENDS Integers

CONSTANTS
  Timeout,  \* of a request (25 s)
  MaxTime   \* bound of the model: when the clock stops

ASSUME ClockAssumption == Timeout \in Nat /\ MaxTime \in Nat

VARIABLE clock

Times == 0 .. MaxTime

Tick == clock < MaxTime /\ clock' = clock + 1

\* The request that began then was not cancelled yet.
InTime(since) == clock <= since + Timeout
=============================================================================
