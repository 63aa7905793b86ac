-------------------------------- MODULE Places --------------------------------
(***************************************************************************)
(* The place searches of src/internal/places: the searches a user may make *)
(* in a minute, the cache of their answers, the pace at which the provider *)
(* is asked, and the places kept.  The windows and the pace are in the     *)
(* process's memory, each under a mutex; the cache and the places are      *)
(* tables, so a restart keeps them.                                        *)
(*                                                                         *)
(* An answer is abstracted to the time the provider gave it.  A cache key  *)
(* is the query in lower case, prefixed for a search of destinations; the  *)
(* prefix does not keep it apart from an ordinary query that begins with   *)
(* it, so a key may be asked for in either scope.                          *)
(***************************************************************************)
EXTENDS Clock, FiniteSetsExt

CONSTANTS
  Callers,   \* requests that can be under way at a time
  Users,
  Keys,      \* of the cache
  Refs,      \* provider_place_id
  Pace,      \* between two requests to the provider (1 s)
  Patience,  \* how long a request waits for its turn (2 s)
  Window,    \* of a user's searches (a minute)
  Limit,     \* of searches in it (10)
  Lifetime,  \* of a cached answer (24 h)
  Nowhere    \* no target

ASSUME PlacesAssumption ==
  /\ Pace \in Nat \ {0} /\ Patience \in Nat /\ Window \in Nat \ {0}
  /\ Limit \in Nat \ {0} /\ Lifetime \in Nat /\ IsFiniteSet(Callers)
  /\ Keys \cap Refs = {} /\ Nowhere \notin Keys \cup Refs

VARIABLES
  window,   \* each user's searches in their current window
  next,     \* when the provider may be asked again
  cache,    \* each key's answer and expiry
  places,   \* the references that have a row
  call,     \* each request under way
  searched, \* history: how many of each user's searches of the Window up to their
            \* latest were admitted at each time
  allowance \* history: requests that the pace would allow, times the pace

placeVars == <<clock, window, next, cache, places, call, searched, allowance>>

Targets == Keys \cup Refs

\* The time of what did not happen.
Never == -1

\* A request with a target, as many requests to the provider to make, its turn at
\* the next of them and the answer so far.
Request(step, target, fetches, slot, since, asOf) ==
  [step |-> step, target |-> target, fetches |-> fetches,
   slot |-> slot, since |-> since, asOf |-> asOf]

Answered == Request("answered", Nowhere, 0, 0, 0, Never)
Idle == Request("idle", Nowhere, 0, 0, 0, Never)

\* No user has a window yet: its start is the zero time.
NoWindow == [start |-> -Window, count |-> 0]

\* No search was admitted.
NoSearch == [t \in Times |-> 0]

PlacesInit ==
  /\ clock = 0 /\ next = 0 /\ allowance = Pace
  /\ window = [u \in Users |-> NoWindow]
  /\ cache = [key \in Keys |-> [asOf |-> Never, expires |-> 0]]
  /\ places = {}
  /\ call = [c \in Callers |-> Idle]
  /\ searched = [u \in Users |-> NoSearch]

-----------------------------------------------------------------------------
\* Slip: the count starts again but the window does not.
WindowKeepsStart(u) ==
  IF clock - window[u].start >= Window THEN [window[u] EXCEPT !.count = 0] ELSE window[u]

\* The user's window now.
Current(u) ==
  IF clock - window[u].start >= Window THEN [start |-> clock, count |-> 0] ELSE window[u]

Ready(c) == call[c].step \in {"idle", "answered"}

\* A search in either scope; one of destinations asks the provider twice.
Search(c, u) ==
  /\ Ready(c)
  /\ Current(u).count < Limit
  /\ window' = [window EXCEPT ![u] = [Current(u) EXCEPT !.count = @ + 1]]
  /\ \E key \in Keys, fetches \in {1, 2} :
       call' = [call EXCEPT ![c] = Request("lookup", key, fetches, 0, clock, Never)]
  /\ searched' = [searched EXCEPT ![u] = [t \in Times |->
                    IF clock - t >= Window THEN 0 ELSE @[t] + (IF t = clock THEN 1 ELSE 0)]]
  /\ UNCHANGED <<clock, next, cache, places, allowance>>

\* A place is resolved without a look at the cache.
Resolve(c) ==
  /\ Ready(c)
  /\ \E ref \in Refs : call' = [call EXCEPT ![c] = Request("reserve", ref, 1, 0, clock, Never)]
  /\ UNCHANGED <<clock, window, next, cache, places, searched, allowance>>

\* Slip: whatever is in the cache is used.
StoredAtAll(key) == cache[key].expires > 0

\* Another answer than none was stored, and did not expire.
Usable(key) == clock < cache[key].expires

CachedSearch(c) ==
  /\ call[c].step = "lookup"
  /\ InTime(call[c].since)
  /\ LET key == call[c].target
     IN call' = [call EXCEPT ![c] = IF Usable(key) THEN Answered
                                    ELSE [@ EXCEPT !.step = "reserve"]]
  /\ UNCHANGED <<clock, window, next, cache, places, searched, allowance>>

-----------------------------------------------------------------------------
\* The request's turn: at once, or when the provider may be asked again.
Turn == IF next > clock THEN next ELSE clock

\* Slip: the next turn is counted from now.
ReserveFromNow(c) ==
  /\ call[c].step = "reserve"
  /\ InTime(call[c].since)
  /\ IF next - clock > Patience
       THEN call' = [call EXCEPT ![c] = Idle] /\ UNCHANGED next
       ELSE /\ next' = clock + Pace
            /\ call' = [call EXCEPT ![c] = [@ EXCEPT !.step = "wait", !.slot = Turn]]
  /\ UNCHANGED <<clock, window, cache, places, searched, allowance>>

\* Slip: nobody is turned away.
ReserveAlways(c) ==
  /\ call[c].step = "reserve"
  /\ InTime(call[c].since)
  /\ next' = Turn + Pace
  /\ call' = [call EXCEPT ![c] = [@ EXCEPT !.step = "wait", !.slot = Turn]]
  /\ UNCHANGED <<clock, window, cache, places, searched, allowance>>

\* A turn is reserved, or the request is refused when it would wait too long.
Reserve(c) ==
  /\ call[c].step = "reserve"
  /\ InTime(call[c].since)
  /\ IF next - clock > Patience
       THEN call' = [call EXCEPT ![c] = Idle] /\ UNCHANGED next
       ELSE /\ next' = Turn + Pace
            /\ call' = [call EXCEPT ![c] = [@ EXCEPT !.step = "wait", !.slot = Turn]]
  /\ UNCHANGED <<clock, window, cache, places, searched, allowance>>

\* The provider is asked when the turn has come; the answer to the last request
\* is as old as the one to the first.
Send(c) ==
  /\ call[c].step = "wait"
  /\ clock >= call[c].slot
  /\ InTime(call[c].since)
  /\ call' = [call EXCEPT ![c].step = IF call[c].fetches > 1 THEN "reserve" ELSE "store",
                          ![c].fetches = @ - 1,
                          ![c].asOf = IF @ = Never THEN clock ELSE @]
  /\ allowance' = allowance - Pace
  /\ UNCHANGED <<clock, window, next, cache, places, searched>>

\* The answer is stored over whatever another request stored meanwhile.
Store(c) ==
  /\ call[c].step = "store"
  /\ InTime(call[c].since)
  /\ LET target == call[c].target
         asOf == call[c].asOf
     IN /\ IF target \in Keys
             THEN /\ cache' = [cache EXCEPT ![target] = [asOf |-> asOf, expires |-> clock + Lifetime]]
                  /\ UNCHANGED places
             ELSE places' = places \cup {target} /\ UNCHANGED cache
        /\ call' = [call EXCEPT ![c] = Answered]
  /\ UNCHANGED <<clock, window, next, searched, allowance>>

\* The caller gives up, the timeout passes, or the provider or the database fails;
\* a turn is not given back.
Fail(c) ==
  /\ ~Ready(c)
  /\ call' = [call EXCEPT ![c] = Idle]
  /\ UNCHANGED <<clock, window, next, cache, places, searched, allowance>>

Wait == /\ Tick /\ allowance' = allowance + 1
        /\ UNCHANGED <<window, next, cache, places, call, searched>>

\* The process starts anew; the zero time is long past.
Restart ==
  /\ window' = [u \in Users |-> NoWindow] /\ searched' = [u \in Users |-> NoSearch]
  /\ next' = 0 /\ allowance' = Pace
  /\ call' = [c \in Callers |-> Idle]
  /\ UNCHANGED <<clock, cache, places>>

PlacesNext ==
  \/ \E c \in Callers :
       \/ \E u \in Users : Search(c, u)
       \/ Resolve(c) \/ CachedSearch(c) \/ Reserve(c) \/ Send(c) \/ Store(c) \/ Fail(c)
  \/ Wait \/ Restart

PlacesSpec == PlacesInit /\ [][PlacesNext]_placeVars

-----------------------------------------------------------------------------
(***************************************************************************)
(* Properties.                                                             *)
(***************************************************************************)
Calls == [step : {"idle", "lookup", "reserve", "wait", "store", "answered"},
          target : Targets \cup {Nowhere}, fetches : 0 .. 2,
          slot : Nat, since : Times, asOf : Times \cup {Never}]

PlacesTypeOK ==
  /\ clock \in Times /\ next \in Nat /\ allowance \in Int
  /\ window \in [Users -> [start : Int, count : 0 .. Limit]]
  /\ cache \in [Keys -> [asOf : Times \cup {Never}, expires : Nat]]
  /\ places \subseteq Refs
  /\ call \in [Callers -> Calls]
  /\ searched \in [Users -> [Times -> Nat]]

\* What is known of a request at its step.
InProgress(r) ==
  /\ r.since <= clock
  /\ r.step = "lookup" => r.target \in Keys
  /\ r.step \in {"lookup", "reserve", "wait"} => r.fetches > 0
  /\ r.step \in {"lookup", "reserve", "wait", "store"} =>
       r.target \in Targets /\ (r.asOf # Never => r.asOf \in r.since .. clock)
  /\ r.step = "store" => r.asOf # Never

\* What was stored is an answer given before its request timed out.
StoredInTime ==
  \A key \in Keys : cache[key].expires > 0 =>
    cache[key].asOf # Never /\ cache[key].expires <= cache[key].asOf + Timeout + Lifetime

\* The turns that are still to come are ahead of each other by the pace, those of
\* callers that gave up included, and no further ahead than a caller waits: so
\* turns nobody takes hold the others up for that long at most.
QueueBounded ==
  /\ next <= clock + Patience + Pace
  /\ \A c \in Callers : call[c].step = "wait" => call[c].slot + Pace <= next
  /\ \A c, d \in Callers :
       c # d /\ call[c].step = "wait" /\ call[d].step = "wait"
         => call[c].slot + Pace <= call[d].slot \/ call[d].slot + Pace <= call[c].slot

PlacesInv ==
  /\ PlacesTypeOK /\ StoredInTime /\ QueueBounded
  /\ \A c \in Callers : InProgress(call[c])

\* Since the process started the provider was asked no more often than the pace
\* allows, though requests whose turns have passed may go out together.
Paced == allowance >= 0

\* A user has fewer than twice the limit of searches admitted in any time as long
\* as the window: the windows are fixed from their first search on, so the rest of a
\* full one may be followed by a full one at once.
SlidingBound == \A u \in Users : SumFunction(searched[u]) < 2 * Limit

\* An answer is no older than a cached one may be and the request that stored it
\* took, whichever of two requests stored its answer last.
AnswersAge ==
  [][\A c \in Callers :
       call'[c].step = "answered" /\ ~Ready(c) =>
         clock - (IF call[c].step = "lookup" THEN cache[call[c].target].asOf ELSE call[c].asOf)
           <= Lifetime + Timeout]_placeVars
=============================================================================
