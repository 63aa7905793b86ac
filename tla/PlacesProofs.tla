----------------------------- MODULE PlacesProofs -----------------------------
(***************************************************************************)
(* That the provider is asked no more often than the pace allows, that no  *)
(* answer is too old and that a user's searches stay under twice the limit *)
(* of a window, for any number of requests, users and queries and any      *)
(* pace, patience, window, limit and lifetime.                             *)
(***************************************************************************)
EXTENDS Places, SumTheorems

\* The requests whose turns have come by a time.
WaitingBy(s) == {c \in Callers : call[c].step = "wait" /\ call[c].slot <= s}

\* Until any time to come the pace allows the requests whose turns come by then, and
\* one more if its turn would be among them.
Affords ==
  \A s \in Nat : s >= clock =>
    /\ allowance + (s - clock) >= Pace * Cardinality(WaitingBy(s))
    /\ s >= next => allowance + (s - clock) >= Pace * Cardinality(WaitingBy(s)) + Pace

LEMMA WaitingCounted ==
  ASSUME NEW s \in Nat
  PROVE  IsFiniteSet(WaitingBy(s)) /\ Cardinality(WaitingBy(s)) \in Nat
<1>1. WaitingBy(s) \subseteq Callers /\ IsFiniteSet(Callers)
  BY PlacesAssumption DEF WaitingBy
<1>2. IsFiniteSet(WaitingBy(s))
  BY <1>1, FS_Subset
<1>. QED BY <1>2, FS_CardinalityType

LEMMA Initially == PlacesInit => PlacesInv /\ Affords
<1>. SUFFICES ASSUME PlacesInit PROVE PlacesInv /\ Affords
  OBVIOUS
<1>. USE PlacesAssumption, ClockAssumption
<1>1. Idle \in Calls
  BY DEF Idle, Request, Calls, Times, Never
<1>2. PlacesTypeOK
  BY <1>1 DEF PlacesInit, PlacesTypeOK, Times, NoWindow, NoSearch, Never
<1>3. StoredInTime
  BY DEF PlacesInit, StoredInTime
<1>4. QueueBounded
  BY DEF PlacesInit, QueueBounded, Idle, Request
<1>5. \A c \in Callers : InProgress(call[c])
  BY DEF PlacesInit, InProgress, Idle, Request
<1>6. Affords
  <2>. SUFFICES ASSUME NEW s \in Nat
                PROVE  /\ allowance + (s - clock) >= Pace * Cardinality(WaitingBy(s)) + Pace
                       /\ allowance + (s - clock) >= Pace * Cardinality(WaitingBy(s))
    BY DEF Affords
  <2>1. WaitingBy(s) = {}
    BY DEF WaitingBy, PlacesInit, Idle, Request
  <2>2. Pace * Cardinality(WaitingBy(s)) = 0
    BY <2>1, FS_EmptySet
  <2>. QED BY <2>2 DEF PlacesInit
<1>. QED BY <1>2, <1>3, <1>4, <1>5, <1>6 DEF PlacesInv

-----------------------------------------------------------------------------
\* A step of one request that is not waiting afterwards and leaves the pace alone.
LEMMA NobodyJoins ==
  ASSUME PlacesInv, Affords, NEW c \in Callers, NEW q \in Calls, InProgress(q), q.step # "wait",
         call' = [call EXCEPT ![c] = q], UNCHANGED <<clock, next, allowance>>
  PROVE  /\ call' \in [Callers -> Calls] /\ QueueBounded'
         /\ \A d \in Callers : InProgress(call[d])'
         /\ Affords'
<1>. USE PlacesAssumption, ClockAssumption
<1>1. call' \in [Callers -> Calls] /\ \A d \in Callers : call'[d] = IF d = c THEN q ELSE call[d]
  BY DEF PlacesInv, PlacesTypeOK
<1>2. QueueBounded'
  <2>. HIDE DEF Calls
  <2>. QED BY <1>1 DEF PlacesInv, QueueBounded
<1>3. \A d \in Callers : InProgress(call[d])'
  BY <1>1 DEF PlacesInv, InProgress
<1>4. Affords'
  <2>. SUFFICES ASSUME NEW s \in Nat, s >= clock
                PROVE  /\ allowance + (s - clock) >= Pace * Cardinality(WaitingBy(s)')
                       /\ s >= next =>
                            allowance + (s - clock) >= Pace * Cardinality(WaitingBy(s)') + Pace
    BY DEF Affords
  <2>1. WaitingBy(s)' \subseteq WaitingBy(s)
    BY <1>1 DEF WaitingBy
  <2>2. Cardinality(WaitingBy(s)') <= Cardinality(WaitingBy(s))
    BY <2>1, WaitingCounted, FS_Subset
  <2>3. Cardinality(WaitingBy(s)) \in Nat /\ Cardinality(WaitingBy(s)') \in Nat
    BY <2>1, WaitingCounted, FS_Subset, FS_CardinalityType
  <2>4. Pace * Cardinality(WaitingBy(s)') <= Pace * Cardinality(WaitingBy(s))
    <3>1. ASSUME NEW i \in Nat, NEW j \in Nat, i <= j PROVE Pace * i <= Pace * j
      BY <3>1
    <3>. QED BY <2>2, <2>3, <3>1
  <2>5. /\ allowance + (s - clock) >= Pace * Cardinality(WaitingBy(s))
        /\ s >= next => allowance + (s - clock) >= Pace * Cardinality(WaitingBy(s)) + Pace
    BY DEF Affords
  <2>6. Pace * Cardinality(WaitingBy(s)) \in Int /\ Pace * Cardinality(WaitingBy(s)') \in Int
        /\ clock \in Int /\ allowance \in Int
    BY <2>3 DEF PlacesInv, PlacesTypeOK, Times
  <2>. QED BY <2>4, <2>5, <2>6
<1>. QED BY <1>1, <1>2, <1>3, <1>4

LEMMA IdleFits ==
  ASSUME PlacesInv
  PROVE  /\ Idle \in Calls /\ InProgress(Idle) /\ Idle.step = "idle"
         /\ Answered \in Calls /\ InProgress(Answered) /\ Answered.step = "answered"
BY ClockAssumption DEF Idle, Answered, Request, Calls, InProgress, PlacesInv, PlacesTypeOK, Times, Never

LEMMA Searching ==
  ASSUME PlacesInv, Affords, NEW c \in Callers, NEW u \in Users, Search(c, u)
  PROVE  PlacesInv' /\ Affords'
<1>. USE PlacesAssumption, ClockAssumption
<1>1. PICK key \in Keys, fetches \in {1, 2} :
        call' = [call EXCEPT ![c] = Request("lookup", key, fetches, 0, clock, Never)]
  BY DEF Search
<1>. DEFINE q == Request("lookup", key, fetches, 0, clock, Never)
<1>2. q \in Calls /\ InProgress(q) /\ q.step # "wait"
  BY DEF Request, Calls, Targets, InProgress, PlacesInv, PlacesTypeOK, Times, Never
<1>3. /\ call' \in [Callers -> Calls] /\ QueueBounded'
      /\ \A d \in Callers : InProgress(call[d])' /\ Affords'
  <2>. HIDE DEF q
  <2>. QED BY <1>1, <1>2, NobodyJoins DEF Search, q
<1>4. window' \in [Users -> [start : Int, count : 0 .. Limit]]
  <2>1. Current(u) \in [start : Int, count : 0 .. Limit] /\ Current(u).count < Limit
    <3>1. window[u] \in [start : Int, count : 0 .. Limit] /\ clock \in Int
      BY DEF PlacesInv, PlacesTypeOK, Times
    <3>2. Current(u) \in [start : Int, count : 0 .. Limit]
      BY <3>1, PlacesAssumption DEF Current
    <3>. QED BY <3>2 DEF Search
  <2>2. [Current(u) EXCEPT !.count = @ + 1] \in [start : Int, count : 0 .. Limit]
    BY <2>1
  <2>. QED BY <2>2 DEF Search, PlacesInv, PlacesTypeOK
<1>5. searched' \in [Users -> [Times -> Nat]]
  BY DEF Search, PlacesInv, PlacesTypeOK
<1>6. PlacesTypeOK'
  BY <1>3, <1>4, <1>5 DEF Search, PlacesInv, PlacesTypeOK
<1>7. StoredInTime'
  BY DEF Search, PlacesInv, StoredInTime
<1>. QED BY <1>3, <1>6, <1>7 DEF PlacesInv

LEMMA Resolving ==
  ASSUME PlacesInv, Affords, NEW c \in Callers, Resolve(c)
  PROVE  PlacesInv' /\ Affords'
<1>. USE PlacesAssumption, ClockAssumption
<1>1. PICK ref \in Refs : call' = [call EXCEPT ![c] = Request("reserve", ref, 1, 0, clock, Never)]
  BY DEF Resolve
<1>. DEFINE q == Request("reserve", ref, 1, 0, clock, Never)
<1>2. q \in Calls /\ InProgress(q) /\ q.step # "wait"
  BY DEF Request, Calls, Targets, InProgress, PlacesInv, PlacesTypeOK, Times, Never
<1>3. /\ call' \in [Callers -> Calls] /\ QueueBounded'
      /\ \A d \in Callers : InProgress(call[d])' /\ Affords'
  <2>. HIDE DEF q
  <2>. QED BY <1>1, <1>2, NobodyJoins DEF Resolve, q
<1>4. PlacesTypeOK' /\ StoredInTime'
  BY <1>3 DEF Resolve, PlacesInv, PlacesTypeOK, StoredInTime
<1>. QED BY <1>3, <1>4 DEF PlacesInv

LEMMA LookingUp ==
  ASSUME PlacesInv, Affords, NEW c \in Callers, CachedSearch(c)
  PROVE  PlacesInv' /\ Affords'
<1>. DEFINE old == call[c]
            q == IF Usable(old.target) THEN Answered ELSE [old EXCEPT !.step = "reserve"]
<1>1. old \in Calls /\ InProgress(old) /\ old.step = "lookup"
  BY DEF CachedSearch, PlacesInv, PlacesTypeOK
<1>2. [old EXCEPT !.step = "reserve"] \in Calls /\ InProgress([old EXCEPT !.step = "reserve"])
  <2>. DEFINE r == [old EXCEPT !.step = "reserve"]
  <2>1. old.asOf # Never => old.asOf \in old.since .. clock
    BY <1>1 DEF InProgress
  <2>2. /\ r \in Calls /\ r.step = "reserve" /\ r.target = old.target
        /\ r.fetches = old.fetches /\ r.since = old.since /\ r.asOf = old.asOf
    BY <1>1 DEF Calls
  <2>. HIDE DEF r
  <2>3. InProgress(r)
    BY <1>1, <2>1, <2>2 DEF InProgress, Targets
  <2>. QED BY <2>2, <2>3 DEF r
<1>3. q \in Calls /\ InProgress(q) /\ q.step # "wait"
  BY <1>1, <1>2, IdleFits DEF Calls
<1>4. call' = [call EXCEPT ![c] = q]
  BY DEF CachedSearch
<1>5. /\ call' \in [Callers -> Calls] /\ QueueBounded'
      /\ \A d \in Callers : InProgress(call[d])' /\ Affords'
  <2>. HIDE DEF q
  <2>. QED BY <1>3, <1>4, NobodyJoins DEF CachedSearch
<1>6. PlacesTypeOK' /\ StoredInTime'
  BY <1>5 DEF CachedSearch, PlacesInv, PlacesTypeOK, StoredInTime
<1>. QED BY <1>5, <1>6 DEF PlacesInv

LEMMA Failing ==
  ASSUME PlacesInv, Affords, NEW c \in Callers, Fail(c)
  PROVE  PlacesInv' /\ Affords'
<1>1. /\ call' \in [Callers -> Calls] /\ QueueBounded'
      /\ \A d \in Callers : InProgress(call[d])' /\ Affords'
  BY IdleFits, NobodyJoins DEF Fail
<1>2. PlacesTypeOK' /\ StoredInTime'
  BY <1>1 DEF Fail, PlacesInv, PlacesTypeOK, StoredInTime
<1>. QED BY <1>1, <1>2 DEF PlacesInv

LEMMA Storing ==
  ASSUME PlacesInv, Affords, NEW c \in Callers, Store(c)
  PROVE  PlacesInv' /\ Affords'
<1>. USE PlacesAssumption, ClockAssumption
<1>. DEFINE old == call[c]
<1>1. old \in Calls /\ InProgress(old) /\ old.step = "store"
  BY DEF Store, PlacesInv, PlacesTypeOK
<1>2. /\ old.asOf \in Times /\ old.asOf \in old.since .. clock /\ old.target \in Targets
      /\ clock <= old.since + Timeout /\ old.since \in Times /\ clock \in Times
  BY <1>1 DEF Store, InTime, InProgress, Calls, PlacesInv, PlacesTypeOK
<1>3. /\ call' \in [Callers -> Calls] /\ QueueBounded'
      /\ \A d \in Callers : InProgress(call[d])' /\ Affords'
  BY IdleFits, NobodyJoins DEF Store
<1>. DEFINE new == [asOf |-> old.asOf, expires |-> clock + Lifetime]
<1>4. new \in [asOf : Times \cup {Never}, expires : Nat] /\ new.asOf # Never
      /\ new.expires <= new.asOf + Timeout + Lifetime
  BY <1>2 DEF Times, Never
<1>5. CASE old.target \in Keys
  <2>1. cache' = [cache EXCEPT ![old.target] = new] /\ UNCHANGED places
    BY <1>5 DEF Store
  <2>2. \A key \in Keys : cache'[key] = IF key = old.target THEN new ELSE cache[key]
    BY <2>1 DEF PlacesInv, PlacesTypeOK
  <2>. HIDE DEF new
  <2>3. cache' \in [Keys -> [asOf : Times \cup {Never}, expires : Nat]]
    BY <1>4, <2>1 DEF PlacesInv, PlacesTypeOK
  <2>4. StoredInTime'
    BY <1>4, <2>2 DEF PlacesInv, StoredInTime
  <2>5. PlacesTypeOK'
    BY <1>3, <2>1, <2>3 DEF Store, PlacesInv, PlacesTypeOK
  <2>. QED BY <1>3, <2>4, <2>5 DEF PlacesInv
<1>6. CASE old.target \notin Keys
  <2>1. places' = places \cup {old.target} /\ UNCHANGED cache
    BY <1>6 DEF Store
  <2>2. PlacesTypeOK' /\ StoredInTime'
    BY <1>2, <1>3, <1>6, <2>1 DEF Store, Targets, PlacesInv, PlacesTypeOK, StoredInTime
  <2>. QED BY <1>3, <2>2 DEF PlacesInv
<1>. QED BY <1>5, <1>6

-----------------------------------------------------------------------------
\* A turn that is reserved is the last of all.
LEMMA Queueing ==
  ASSUME PlacesInv, Affords, NEW c \in Callers, call[c].step = "reserve",
         next - clock <= Patience, next' = Turn + Pace,
         call' = [call EXCEPT ![c] = [@ EXCEPT !.step = "wait", !.slot = Turn]],
         UNCHANGED <<clock, window, cache, places, searched, allowance>>
  PROVE  PlacesInv' /\ Affords'
<1>. USE PlacesAssumption, ClockAssumption
<1>. DEFINE old == call[c]
            q == [old EXCEPT !.step = "wait", !.slot = Turn]
<1>1. old \in Calls /\ InProgress(old) /\ old.step = "reserve"
  BY DEF PlacesInv, PlacesTypeOK
<1>2. /\ clock \in Nat /\ next \in Nat /\ Turn \in Nat /\ Turn >= next /\ Turn >= clock
      /\ Turn <= clock + Patience /\ Turn \in {next, clock} /\ allowance \in Int
  BY DEF Turn, PlacesInv, PlacesTypeOK, Times
<1>3. /\ q \in Calls /\ q.step = "wait" /\ q.target = old.target /\ q.slot = Turn
      /\ q.fetches = old.fetches /\ q.since = old.since /\ q.asOf = old.asOf
  BY <1>1, <1>2 DEF Calls
<1>. HIDE DEF q
<1>4. InProgress(q)
  BY <1>1, <1>3 DEF InProgress
<1>5. call' \in [Callers -> Calls] /\ \A d \in Callers : call'[d] = IF d = c THEN q ELSE call[d]
  BY <1>3 DEF PlacesInv, PlacesTypeOK, q
<1>6. \A d \in Callers : InProgress(call[d])'
  BY <1>4, <1>5 DEF PlacesInv, InProgress
<1>7. PlacesTypeOK' /\ StoredInTime'
  BY <1>2, <1>5 DEF PlacesInv, PlacesTypeOK, StoredInTime
<1>8. \A d \in Callers : call[d].step = "wait" => call[d].slot \in Nat /\ call[d].slot + Pace <= next
  BY DEF PlacesInv, PlacesTypeOK, Calls, QueueBounded
<1>9. QueueBounded'
  <2>1. next' <= clock' + Patience + Pace
    BY <1>2
  <2>2. \A d \in Callers : call'[d].step = "wait" => call'[d].slot + Pace <= next'
    BY <1>2, <1>3, <1>5, <1>8
  <2>3. ASSUME NEW d \in Callers, NEW e \in Callers, d # e, call'[d].step = "wait", call'[e].step = "wait"
        PROVE  call'[d].slot + Pace <= call'[e].slot \/ call'[e].slot + Pace <= call'[d].slot
    <3>1. CASE d = c
      BY <1>2, <1>3, <1>5, <1>8, <2>3, <3>1
    <3>2. CASE e = c
      BY <1>2, <1>3, <1>5, <1>8, <2>3, <3>2
    <3>3. CASE d # c /\ e # c
      BY <1>5, <2>3, <3>3 DEF PlacesInv, QueueBounded
    <3>. QED BY <3>1, <3>2, <3>3
  <2>. QED BY <2>1, <2>2, <2>3 DEF QueueBounded
<1>10. Affords'
  <2>. SUFFICES ASSUME NEW s \in Nat, s >= clock
                PROVE  /\ allowance + (s - clock) >= Pace * Cardinality(WaitingBy(s)')
                       /\ s >= next' =>
                            allowance + (s - clock) >= Pace * Cardinality(WaitingBy(s)') + Pace
    BY DEF Affords
  <2>1. c \notin WaitingBy(s)
    BY DEF WaitingBy
  <2>2. CASE s < Turn
    <3>1. WaitingBy(s)' = WaitingBy(s)
      BY <1>2, <1>3, <1>5, <2>2 DEF WaitingBy
    <3>. QED BY <1>2, <2>2, <3>1 DEF Affords
  <2>3. CASE s >= Turn
    <3>1. WaitingBy(s)' = WaitingBy(s) \cup {c}
      BY <1>3, <1>5, <2>3 DEF WaitingBy
    <3>2. Cardinality(WaitingBy(s)') = Cardinality(WaitingBy(s)) + 1
      BY <2>1, <3>1, WaitingCounted, FS_AddElement
    <3>3. Pace * Cardinality(WaitingBy(s)') = Pace * Cardinality(WaitingBy(s)) + Pace
      <4>1. ASSUME NEW i \in Nat PROVE Pace * (i + 1) = Pace * i + Pace
        OBVIOUS
      <4>. QED BY <3>2, <4>1, WaitingCounted
    <3>4. Pace * Cardinality(WaitingBy(s)) \in Int
      BY WaitingCounted
    <3>5. allowance + (s - clock) >= Pace * Cardinality(WaitingBy(s)) + Pace
      BY <1>2, <2>3 DEF Affords
    <3>6. ASSUME s >= next'
          PROVE  allowance + (s - clock) >= Pace * Cardinality(WaitingBy(s)) + Pace + Pace
      <4>1. s - Pace \in Nat /\ s - Pace >= clock /\ s - Pace >= next
        BY <1>2, <3>6
      <4>2. allowance + (s - Pace - clock) >= Pace * Cardinality(WaitingBy(s - Pace)) + Pace
        BY <4>1 DEF Affords
      <4>3. WaitingBy(s - Pace) = WaitingBy(s)
        BY <1>2, <1>8, <4>1 DEF WaitingBy
      <4>. QED BY <1>2, <3>4, <4>2, <4>3
    <3>. QED BY <3>3, <3>5, <3>6
  <2>. QED BY <1>2, <2>2, <2>3
<1>. QED BY <1>6, <1>7, <1>9, <1>10 DEF PlacesInv

LEMMA Reserving ==
  ASSUME PlacesInv, Affords, NEW c \in Callers, Reserve(c)
  PROVE  PlacesInv' /\ Affords'
<1>. USE PlacesAssumption
<1>1. CASE next - clock > Patience
  <2>1. call' = [call EXCEPT ![c] = Idle] /\ UNCHANGED <<clock, next, window, cache, places, searched, allowance>>
    BY <1>1 DEF Reserve
  <2>2. /\ call' \in [Callers -> Calls] /\ QueueBounded'
        /\ \A d \in Callers : InProgress(call[d])' /\ Affords'
    BY <2>1, IdleFits, NobodyJoins
  <2>3. PlacesTypeOK' /\ StoredInTime'
    BY <2>1, <2>2 DEF PlacesInv, PlacesTypeOK, StoredInTime
  <2>. QED BY <2>2, <2>3 DEF PlacesInv
<1>2. CASE ~(next - clock > Patience)
  <2>1. next - clock <= Patience
    BY <1>2 DEF PlacesInv, PlacesTypeOK, Times
  <2>. QED BY <1>2, <2>1, Queueing DEF Reserve
<1>. QED BY <1>1, <1>2

\* A request that is sent was among those that the pace allows by now.
LEMMA Sending ==
  ASSUME PlacesInv, Affords, NEW c \in Callers, Send(c)
  PROVE  PlacesInv' /\ Affords'
<1>. USE PlacesAssumption, ClockAssumption
<1>. DEFINE old == call[c]
            q == [old EXCEPT !.step = IF old.fetches > 1 THEN "reserve" ELSE "store",
                             !.fetches = old.fetches - 1,
                             !.asOf = IF old.asOf = Never THEN clock ELSE old.asOf]
<1>1. old \in Calls /\ InProgress(old) /\ old.step = "wait"
  BY DEF Send, PlacesInv, PlacesTypeOK
<1>2. old.fetches \in 1 .. 2 /\ old.slot \in Nat /\ old.slot <= clock /\ clock \in Times
      /\ old.since <= clock /\ old.since \in Times /\ allowance \in Int
  BY <1>1 DEF Send, InProgress, Calls, PlacesInv, PlacesTypeOK
<1>3. /\ q \in Calls /\ q.step \in {"reserve", "store"} /\ q.target = old.target /\ q.since = old.since
      /\ q.step = "reserve" => q.fetches > 0
      /\ q.asOf = IF old.asOf = Never THEN clock ELSE old.asOf
  <2>. DEFINE step == IF old.fetches > 1 THEN "reserve" ELSE "store"
              asOf == IF old.asOf = Never THEN clock ELSE old.asOf
              fetches == old.fetches - 1
  <2>1. /\ step \in {"reserve", "store"} /\ asOf \in Times \cup {Never} /\ fetches \in 0 .. 2
        /\ step = "reserve" => fetches > 0
    BY <1>1, <1>2 DEF Calls
  <2>2. q = [old EXCEPT !.step = step, !.fetches = fetches, !.asOf = asOf]
    OBVIOUS
  <2>. HIDE DEF step, asOf, fetches, q
  <2>3. /\ q \in Calls /\ q.step = step /\ q.fetches = fetches /\ q.asOf = asOf
        /\ q.target = old.target /\ q.since = old.since
    BY <1>1, <2>1, <2>2 DEF Calls
  <2>. QED BY <2>1, <2>3 DEF asOf
<1>4. call' = [call EXCEPT ![c] = q]
  BY DEF Send, PlacesInv, PlacesTypeOK
<1>. HIDE DEF q
<1>5. InProgress(q)
  <2>1. clock # Never /\ q.asOf # Never /\ q.asOf \in q.since .. clock
    BY <1>1, <1>2, <1>3 DEF InProgress, Times, Never
  <2>. QED BY <1>1, <1>3, <2>1 DEF InProgress
<1>6. call' \in [Callers -> Calls] /\ \A d \in Callers : call'[d] = IF d = c THEN q ELSE call[d]
  BY <1>3, <1>4 DEF PlacesInv, PlacesTypeOK
<1>7. \A d \in Callers : InProgress(call[d])'
  BY <1>5, <1>6 DEF Send, PlacesInv, InProgress
<1>8. PlacesTypeOK' /\ StoredInTime'
  BY <1>2, <1>6 DEF Send, PlacesInv, PlacesTypeOK, StoredInTime
<1>9. QueueBounded'
  <2>. HIDE DEF Calls
  <2>. QED BY <1>3, <1>6 DEF Send, PlacesInv, QueueBounded
<1>10. Affords'
  <2>. SUFFICES ASSUME NEW s \in Nat, s >= clock
                PROVE  /\ allowance - Pace + (s - clock) >= Pace * Cardinality(WaitingBy(s)')
                       /\ s >= next =>
                            allowance - Pace + (s - clock) >= Pace * Cardinality(WaitingBy(s)') + Pace
    BY DEF Affords, Send
  <2>1. c \in WaitingBy(s) /\ clock \in Nat
    BY <1>1, <1>2 DEF WaitingBy, Times
  <2>2. WaitingBy(s)' = WaitingBy(s) \ {c}
    BY <1>3, <1>6 DEF WaitingBy
  <2>3. /\ Cardinality(WaitingBy(s)') = Cardinality(WaitingBy(s)) - 1
        /\ Cardinality(WaitingBy(s)) \in Nat /\ Cardinality(WaitingBy(s)') \in Nat
    <3>1. Cardinality(WaitingBy(s)') = Cardinality(WaitingBy(s)) - 1 /\ IsFiniteSet(WaitingBy(s)')
      BY <2>1, <2>2, WaitingCounted, FS_RemoveElement
    <3>. QED BY <3>1, WaitingCounted, FS_CardinalityType
  <2>4. Pace * Cardinality(WaitingBy(s)) = Pace * Cardinality(WaitingBy(s)') + Pace
    <3>1. ASSUME NEW i \in Nat, NEW j \in Nat, j = i - 1 PROVE Pace * i = Pace * j + Pace
      BY <3>1
    <3>. QED BY <2>3, <3>1
  <2>5. /\ allowance + (s - clock) >= Pace * Cardinality(WaitingBy(s))
        /\ s >= next => allowance + (s - clock) >= Pace * Cardinality(WaitingBy(s)) + Pace
    BY DEF Affords
  <2>6. Pace * Cardinality(WaitingBy(s)) \in Int /\ Pace * Cardinality(WaitingBy(s)') \in Int
    BY <2>3
  <2>. QED BY <1>2, <2>1, <2>4, <2>5, <2>6
<1>. QED BY <1>7, <1>8, <1>9, <1>10 DEF PlacesInv

LEMMA Waiting == ASSUME PlacesInv, Affords, Wait PROVE PlacesInv' /\ Affords'
<1>. USE PlacesAssumption, ClockAssumption
<1>1. /\ clock \in Times /\ clock < MaxTime /\ clock' = clock + 1 /\ allowance' = allowance + 1
      /\ UNCHANGED <<window, next, cache, places, call, searched>> /\ allowance \in Int
  BY DEF Wait, Tick, PlacesInv, PlacesTypeOK
<1>2. PlacesTypeOK'
  BY <1>1 DEF PlacesInv, PlacesTypeOK, Times
<1>3. StoredInTime'
  BY <1>1 DEF PlacesInv, StoredInTime
<1>4. \A c \in Callers : InProgress(call[c])'
  BY <1>1 DEF PlacesInv, PlacesTypeOK, InProgress, Calls, Times
<1>5. QueueBounded'
  BY <1>1 DEF PlacesInv, PlacesTypeOK, QueueBounded, Times
<1>6. Affords'
  <2>. SUFFICES ASSUME NEW s \in Nat, s >= clock + 1
                PROVE  /\ allowance + 1 + (s - (clock + 1)) >= Pace * Cardinality(WaitingBy(s))
                       /\ s >= next =>
                            allowance + 1 + (s - (clock + 1)) >= Pace * Cardinality(WaitingBy(s)) + Pace
    BY <1>1 DEF Affords, WaitingBy
  <2>1. s >= clock /\ allowance + 1 + (s - (clock + 1)) = allowance + (s - clock)
    BY <1>1 DEF Times
  <2>. QED BY <2>1 DEF Affords
<1>. QED BY <1>2, <1>3, <1>4, <1>5, <1>6 DEF PlacesInv

LEMMA Restarting == ASSUME PlacesInv, Restart PROVE PlacesInv' /\ Affords'
<1>. USE PlacesAssumption, ClockAssumption
<1>1. /\ call' = [c \in Callers |-> Idle] /\ next' = 0 /\ allowance' = Pace
      /\ UNCHANGED <<clock, cache, places>> /\ clock \in Nat
  BY DEF Restart, PlacesInv, PlacesTypeOK, Times
<1>2. PlacesTypeOK' /\ StoredInTime'
  <2>1. window' \in [Users -> [start : Int, count : 0 .. Limit]] 
        /\ searched' \in [Users -> [Times -> Nat]]
    BY DEF Restart, NoWindow, NoSearch
  <2>. QED BY <1>1, <2>1, IdleFits DEF PlacesInv, PlacesTypeOK, StoredInTime
<1>3. QueueBounded' /\ \A c \in Callers : InProgress(call[c])'
  BY <1>1, IdleFits DEF QueueBounded, InProgress
<1>4. Affords'
  <2>. SUFFICES ASSUME NEW s \in Nat, s >= clock
                PROVE  /\ Pace + (s - clock) >= Pace * Cardinality(WaitingBy(s)') + Pace
                       /\ Pace + (s - clock) >= Pace * Cardinality(WaitingBy(s)')
    BY <1>1 DEF Affords
  <2>1. WaitingBy(s)' = {}
    BY <1>1, IdleFits DEF WaitingBy
  <2>2. Pace * Cardinality(WaitingBy(s)') = 0
    BY <2>1, FS_EmptySet
  <2>. QED BY <1>1, <2>2
<1>. QED BY <1>2, <1>3, <1>4 DEF PlacesInv

LEMMA Preserved == PlacesInv /\ Affords /\ [PlacesNext]_placeVars => PlacesInv' /\ Affords'
<1>. SUFFICES ASSUME PlacesInv, Affords, [PlacesNext]_placeVars PROVE PlacesInv' /\ Affords'
  OBVIOUS
<1>1. ASSUME NEW c \in Callers,
             \/ \E u \in Users : Search(c, u)
             \/ Resolve(c) \/ CachedSearch(c) \/ Reserve(c) \/ Send(c) \/ Store(c) \/ Fail(c)
      PROVE  PlacesInv' /\ Affords'
  BY <1>1, Searching, Resolving, LookingUp, Reserving, Sending, Storing, Failing
<1>2. CASE UNCHANGED placeVars
  BY <1>2 DEF placeVars, PlacesInv, PlacesTypeOK, InProgress, StoredInTime, QueueBounded,
              Affords, WaitingBy
<1>. QED BY <1>1, <1>2, Waiting, Restarting DEF PlacesNext

LEMMA Always == PlacesSpec => [](PlacesInv /\ Affords)
BY Initially, Preserved, PTL DEF PlacesSpec

-----------------------------------------------------------------------------
\* Turns stay a pace apart and no further ahead than a caller waits, those of callers
\* that gave up included (NominatimProvider.wait), and what is stored is in time.
THEOREM QueueStaysBounded == PlacesSpec => []PlacesInv
BY Always, PTL

\* The provider is asked no more often than the pace allows, whatever requests wait,
\* give up, fail or ask at once.
THEOREM NeverTooOften == PlacesSpec => []Paced
<1>1. PlacesInv /\ Affords => Paced
  <2>. SUFFICES ASSUME PlacesInv, Affords PROVE Paced
    OBVIOUS
  <2>. USE PlacesAssumption
  <2>1. clock \in Nat /\ allowance \in Int
    BY DEF PlacesInv, PlacesTypeOK, Times
  <2>2. allowance + (clock - clock) >= Pace * Cardinality(WaitingBy(clock))
    BY <2>1 DEF Affords
  <2>3. Pace * Cardinality(WaitingBy(clock)) \in Nat
    <3>1. ASSUME NEW i \in Nat PROVE Pace * i \in Nat
      OBVIOUS
    <3>. QED BY <2>1, <3>1, WaitingCounted
  <2>. QED BY <2>1, <2>2, <2>3 DEF Paced
<1>. QED BY <1>1, Always, PTL

\* An answer is never older than a cached one may be and the request that stored it
\* took (Service.Search, CachedSearch and CacheSearch), whoever stored last.
THEOREM AnswersNeverTooOld == PlacesSpec => AnswersAge
<1>. DEFINE Fresh ==
       \A c \in Callers :
         call'[c].step = "answered" /\ ~Ready(c) =>
           clock - (IF call[c].step = "lookup" THEN cache[call[c].target].asOf ELSE call[c].asOf)
             <= Lifetime + Timeout
<1>1. PlacesInv /\ [PlacesNext]_placeVars => [Fresh]_placeVars
  <2>. SUFFICES ASSUME PlacesInv, PlacesNext, NEW c \in Callers,
                       call'[c].step = "answered", ~Ready(c)
                PROVE  clock - (IF call[c].step = "lookup" THEN cache[call[c].target].asOf
                                ELSE call[c].asOf) <= Lifetime + Timeout
    OBVIOUS
  <2>. USE PlacesAssumption, ClockAssumption
  <2>1. call[c] \in Calls /\ InProgress(call[c]) /\ call \in [Callers -> Calls] /\ clock \in Times
    BY DEF PlacesInv, PlacesTypeOK
  <2>2. \/ CachedSearch(c) /\ Usable(call[c].target)
        \/ Store(c)
    <3>1. ASSUME NEW d \in Callers, d # c,
                 \/ \E u \in Users : Search(d, u)
                 \/ Resolve(d) \/ CachedSearch(d) \/ Reserve(d) \/ Send(d) \/ Store(d) \/ Fail(d)
          PROVE  call'[c] = call[c]
      BY <2>1, <3>1 DEF Search, Resolve, CachedSearch, Reserve, Send, Store, Fail
    <3>2. ~Wait /\ ~Restart /\ call'[c] # call[c]
      BY <2>1 DEF Wait, Restart, Ready, Idle, Request
    <3>3. \/ \E u \in Users : Search(c, u)
          \/ Resolve(c) \/ CachedSearch(c) \/ Reserve(c) \/ Send(c) \/ Store(c) \/ Fail(c)
      BY <3>1, <3>2 DEF PlacesNext
    <3>4. ~(\E u \in Users : Search(c, u)) /\ ~Resolve(c)
      BY DEF Search, Resolve
    <3>5. ~Fail(c) /\ ~Send(c)
      BY <2>1 DEF Fail, Send, Idle, Request, Calls
    <3>6. ~Reserve(c)
      <4>1. ASSUME Reserve(c) PROVE call'[c].step \in {"idle", "wait"}
        <5>1. CASE next - clock > Patience
          BY <2>1, <4>1, <5>1 DEF Reserve, Idle, Request
        <5>2. CASE ~(next - clock > Patience)
          <6>1. call'[c] = [call[c] EXCEPT !.step = "wait", !.slot = Turn]
            BY <2>1, <4>1, <5>2 DEF Reserve
          <6>. QED BY <2>1, <6>1 DEF Calls
        <5>. QED BY <5>1, <5>2
      <4>. QED BY <4>1
    <3>7. CachedSearch(c) => Usable(call[c].target)
      BY <2>1 DEF CachedSearch, Calls
    <3>. QED BY <3>3, <3>4, <3>5, <3>6, <3>7
  <2>3. CASE CachedSearch(c) /\ Usable(call[c].target)
    <3>. DEFINE key == call[c].target
    <3>1. call[c].step = "lookup" /\ key \in Keys /\ clock < cache[key].expires
      BY <2>1, <2>3 DEF CachedSearch, Usable, InProgress
    <3>2. cache[key].asOf \in Times /\ cache[key].expires \in Nat
          /\ cache[key].expires <= cache[key].asOf + Timeout + Lifetime
      BY <2>1, <3>1 DEF PlacesInv, PlacesTypeOK, StoredInTime, Times
    <3>. QED BY <2>1, <3>1, <3>2 DEF Times
  <2>4. CASE Store(c)
    <3>1. call[c].step = "store" /\ clock <= call[c].since + Timeout
      BY <2>4 DEF Store, InTime
    <3>2. call[c].asOf \in call[c].since .. clock /\ call[c].since \in Times
      BY <2>1, <3>1 DEF InProgress, Calls
    <3>. QED BY <2>1, <3>1, <3>2 DEF Times
  <2>. QED BY <2>2, <2>3, <2>4
<1>. HIDE DEF Fresh
<1>2. PlacesSpec => [][Fresh]_placeVars
  BY <1>1, QueueStaysBounded, PTL DEF PlacesSpec
<1>. QED BY <1>2 DEF AnswersAge, Fresh

-----------------------------------------------------------------------------
(***************************************************************************)
(* The searches of a user.                                                 *)
(***************************************************************************)
Earlier(start) == {t \in Times : t < start}
Since(start) == {t \in Times : t >= start}

\* The searches of the user's window are counted, the first of them at its start, and
\* those that remain of the windows before it are fewer than the limit: the first of
\* a full window is too long ago when the next one starts.
Fits(f, start, count) ==
  /\ SumFunctionOnSet(f, Earlier(start)) < Limit
  /\ SumFunctionOnSet(f, Since(start)) = count
  /\ \A t \in Times : f[t] > 0 => t < start + Window
  /\ count > 0 => start \in Times /\ f[start] > 0
  /\ count = 0 => f = NoSearch /\ start = -Window

Windowed ==
  \A u \in Users : window[u].start <= clock /\ Fits(searched[u], window[u].start, window[u].count)

\* The searches up to one that is admitted now.
WithNow(f, now) ==
  [t \in Times |-> IF now - t >= Window THEN 0 ELSE f[t] + (IF t = now THEN 1 ELSE 0)]

LEMMA TimesFinite == IsFiniteSet(Times) /\ \A S \in SUBSET Times : IsFiniteSet(S)
<1>1. IsFiniteSet(Times)
  BY ClockAssumption, FS_Interval DEF Times
<1>. QED BY <1>1, FS_Subset

LEMMA NoSearchFits == Fits(NoSearch, -Window, 0)
<1>1. \A t \in Times : NoSearch[t] = 0
  BY DEF NoSearch
<1>2. /\ SumFunctionOnSet(NoSearch, Earlier(-Window)) = 0
      /\ SumFunctionOnSet(NoSearch, Since(-Window)) = 0
  <2>1. Earlier(-Window) \in SUBSET Times /\ Since(-Window) \in SUBSET Times
    BY DEF Earlier, Since
  <2>. QED BY <1>1, <2>1, TimesFinite, SumZero
<1>. QED BY <1>1, <1>2, PlacesAssumption DEF Fits

\* Another search in the window.
LEMMA WindowGoesOn ==
  ASSUME NEW f \in [Times -> Nat], NEW now \in Times, NEW start \in Int, NEW count \in Nat,
         Fits(f, start, count), start <= now, now - start < Window
  PROVE  Fits(WithNow(f, now), start, count + 1)
<1>. DEFINE g == WithNow(f, now)
<1>. USE PlacesAssumption
<1>1. count > 0 /\ start \in Times /\ f[start] > 0 /\ now \in Since(start)
  BY DEF Fits, Times, Since
<1>2. Earlier(start) \in SUBSET Times /\ Since(start) \in SUBSET Times
  BY DEF Earlier, Since
<1>3. IsFiniteSet(Earlier(start)) /\ IsFiniteSet(Since(start))
  BY <1>2, TimesFinite
<1>4. /\ \A t \in Times : f[t] \in Nat /\ f[t] \in Int /\ g[t] \in Nat /\ g[t] \in Int
      /\ \A t \in Since(start) \ {now} : f[t] = g[t]
      /\ g[now] = f[now] + 1
      /\ \A t \in Earlier(start) : g[t] <= f[t]
      /\ \A t \in Times : g[t] > 0 => f[t] > 0 \/ t = now
      /\ g[start] > 0
  <2>1. now - start < Window /\ start <= now
    OBVIOUS
  <2>2. \A t \in Times : /\ t \in Int /\ f[t] \in Nat
                         /\ g[t] = IF now - t >= Window THEN 0 ELSE f[t] + (IF t = now THEN 1 ELSE 0)
    BY DEF WithNow, Times
  <2>3. \A t \in Since(start) \ {now} : f[t] = g[t]
    BY <2>1, <2>2 DEF Since
  <2>4. g[now] = f[now] + 1 /\ g[start] > 0
    BY <1>1, <2>1, <2>2
  <2>5. \A t \in Earlier(start) : g[t] <= f[t]
    BY <2>1, <2>2 DEF Earlier
  <2>. HIDE DEF g
  <2>. QED BY <2>2, <2>3, <2>4, <2>5
<1>. HIDE DEF g
<1>5. SumFunctionOnSet(g, Since(start)) = count + 1
  <2>1. SumFunctionOnSet(g, Since(start))
        = SumFunctionOnSet(f, Since(start)) - (IF now \in Since(start) THEN f[now] ELSE 0)
          + (IF now \in Since(start) THEN g[now] ELSE 0)
    <3>1. \A t \in Since(start) : f[t] \in Int /\ g[t] \in Int
      BY <1>2, <1>4
    <3>. QED BY <1>3, <1>4, <3>1, SumMoved
  <2>. QED BY <1>1, <1>4, <2>1 DEF Fits
<1>6. SumFunctionOnSet(g, Earlier(start)) < Limit
  <2>1. \A t \in Earlier(start) : g[t] \in Int /\ f[t] \in Int /\ g[t] <= f[t]
    BY <1>2, <1>4
  <2>2. SumFunctionOnSet(g, Earlier(start)) <= SumFunctionOnSet(f, Earlier(start))
    BY <1>3, <2>1, SumAtMost
  <2>3. SumFunctionOnSet(g, Earlier(start)) \in Int /\ SumFunctionOnSet(f, Earlier(start)) \in Int
    BY <1>3, <2>1, SumInt
  <2>. QED BY <2>2, <2>3 DEF Fits
<1>7. \A t \in Times : g[t] > 0 => t < start + Window
  BY <1>4 DEF Fits, Times
<1>. QED BY <1>1, <1>4, <1>5, <1>6, <1>7 DEF Fits, g

\* The first search of a new window: what remains of the window before it is without
\* the first search of that one.
LEMMA WindowStarts ==
  ASSUME NEW f \in [Times -> Nat], NEW now \in Times, NEW start \in Int, NEW count \in 0 .. Limit,
         Fits(f, start, count), now - start >= Window
  PROVE  Fits(WithNow(f, now), now, 1)
<1>. DEFINE g == WithNow(f, now)
            M == {t \in Times : start < t /\ t < now}
<1>. USE PlacesAssumption
<1>1. Earlier(now) \in SUBSET Times /\ Since(now) \in SUBSET Times /\ Since(start) \in SUBSET Times
  BY DEF Earlier, Since
<1>2. IsFiniteSet(Earlier(now)) /\ IsFiniteSet(Since(now)) /\ IsFiniteSet(Since(start))
  BY <1>1, TimesFinite
<1>3. /\ \A t \in Times : f[t] \in Nat /\ f[t] \in Int
      /\ \A t \in Times : t >= now => f[t] = 0
  BY DEF Fits, Times
<1>4. /\ \A t \in Times : g[t] \in Nat /\ g[t] \in Int
      /\ g[now] = 1
      /\ \A t \in Times : t > now => g[t] = 0
      /\ \A t \in Earlier(now) : g[t] <= f[t] /\ (t <= start => g[t] = 0)
  BY <1>3 DEF WithNow, Earlier, Times
<1>. HIDE DEF g
<1>5. SumFunctionOnSet(g, Since(now)) = 1
  <2>1. {now} \in SUBSET Since(now) /\ \A t \in Since(now) \ {now} : g[t] = 0
    BY <1>4 DEF Since, Times
  <2>2. \A t \in Since(now) : g[t] \in Int
    BY <1>1, <1>4
  <2>3. SumFunctionOnSet(g, Since(now)) = SumFunctionOnSet(g, {now})
    BY <1>2, <2>1, <2>2, SumWithin
  <2>4. SumFunctionOnSet(g, {now}) = g[now]
    BY <1>4, SumOne
  <2>. QED BY <1>4, <2>3, <2>4
<1>6. SumFunctionOnSet(g, Earlier(now)) < Limit
  <2>1. CASE count = 0
    <3>1. \A t \in Earlier(now) : g[t] = 0
      BY <1>1, <1>4, <2>1 DEF Fits, NoSearch
    <3>2. SumFunctionOnSet(g, Earlier(now)) = 0
      BY <1>2, <3>1, SumZero
    <3>. QED BY <3>2
  <2>2. CASE count # 0
    <3>1. start \in Times /\ f[start] \in Nat /\ f[start] > 0 /\ start \in Since(start)
      BY <1>3, <2>2 DEF Fits, Since, Times
    <3>. DEFINE L == Since(start) \ {start}
    <3>2. M \in SUBSET Earlier(now) /\ M \in SUBSET L /\ IsFiniteSet(M) /\ IsFiniteSet(L)
      <4>1. M \in SUBSET Earlier(now) /\ M \in SUBSET L /\ M \in SUBSET Times /\ L \in SUBSET Times
        BY <3>1 DEF Earlier, Since, Times
      <4>. QED BY <4>1, TimesFinite
    <3>3. /\ \A t \in M : g[t] \in Int /\ f[t] \in Int /\ g[t] <= f[t]
          /\ \A t \in Earlier(now) : g[t] \in Int
          /\ \A t \in L : f[t] \in Int
          /\ \A t \in Since(start) : f[t] \in Int
      BY <1>1, <1>3, <1>4, <3>2
    <3>4. \A t \in Earlier(now) \ M : g[t] = 0
      BY <1>4, <3>1 DEF Earlier, Times
    <3>5. \A t \in L \ M : f[t] = 0
      BY <1>3, <3>1 DEF Since, Times
    <3>. HIDE DEF M, L
    <3>6. SumFunctionOnSet(g, Earlier(now)) = SumFunctionOnSet(g, M)
      BY <1>2, <3>2, <3>3, <3>4, SumWithin
    <3>7. SumFunctionOnSet(g, M) <= SumFunctionOnSet(f, M)
      BY <3>2, <3>3, SumAtMost
    <3>8. SumFunctionOnSet(f, L) = SumFunctionOnSet(f, M)
      BY <3>2, <3>3, <3>5, SumWithin
    <3>9. SumFunctionOnSet(f, Since(start)) = f[start] + SumFunctionOnSet(f, L)
      BY <1>2, <3>1, <3>3, SumTake DEF L
    <3>10. /\ SumFunctionOnSet(g, M) \in Int /\ SumFunctionOnSet(f, M) \in Int
           /\ SumFunctionOnSet(f, L) \in Int
      BY <3>2, <3>3, SumInt
    <3>11. SumFunctionOnSet(f, Since(start)) = count
      BY DEF Fits
    <3>. QED BY <3>1, <3>6, <3>7, <3>8, <3>9, <3>10, <3>11
  <2>. QED BY <2>1, <2>2
<1>7. \A t \in Times : g[t] > 0 => t < now + Window
  BY <1>4 DEF Times
<1>. QED BY <1>4, <1>5, <1>6, <1>7 DEF Fits, g

LEMMA SearchFits ==
  ASSUME PlacesInv, Windowed, NEW c \in Callers, NEW u \in Users, Search(c, u)
  PROVE  Windowed'
<1>. DEFINE f == searched[u]
            start == window[u].start
            count == window[u].count
<1>. USE PlacesAssumption
<1>1. /\ clock \in Times /\ clock \in Int /\ f \in [Times -> Nat] /\ start \in Int
      /\ count \in 0 .. Limit /\ count \in Nat /\ start <= clock /\ Fits(f, start, count)
      /\ window[u] = [start |-> start, count |-> count]
  BY DEF PlacesInv, PlacesTypeOK, Windowed, Times
<1>2. /\ searched' = [searched EXCEPT ![u] = WithNow(f, clock)]
      /\ window' = [window EXCEPT ![u] = [Current(u) EXCEPT !.count = @ + 1]] /\ clock' = clock
  BY DEF Search, WithNow
<1>3. /\ searched'[u] = WithNow(f, clock) /\ window'[u] = [Current(u) EXCEPT !.count = @ + 1]
      /\ \A v \in Users \ {u} : searched'[v] = searched[v] /\ window'[v] = window[v]
  BY <1>2 DEF PlacesInv, PlacesTypeOK
<1>4. CASE clock - start >= Window
  <2>1. window'[u].start = clock /\ window'[u].count = 1
    BY <1>3, <1>4 DEF Current
  <2>2. Fits(WithNow(f, clock), clock, 1)
    BY <1>1, <1>4, WindowStarts
  <2>. QED BY <1>1, <1>2, <1>3, <2>1, <2>2 DEF Windowed
<1>5. CASE ~(clock - start >= Window)
  <2>1. window'[u].start = start /\ window'[u].count = count + 1
    BY <1>1, <1>3, <1>5 DEF Current
  <2>2. clock - start < Window
    BY <1>1, <1>5
  <2>3. Fits(WithNow(f, clock), start, count + 1)
    BY <1>1, <2>2, WindowGoesOn
  <2>. QED BY <1>1, <1>2, <1>3, <2>1, <2>3 DEF Windowed
<1>. QED BY <1>4, <1>5

\* A user has fewer than twice the limit of searches admitted in any time as long as
\* the window (Service.Search), whatever the limit and the window are.
THEOREM SearchesStayBounded == PlacesSpec => []SlidingBound
<1>1. PlacesInit => Windowed
  BY NoSearchFits, PlacesAssumption DEF PlacesInit, Windowed, NoWindow
<1>2. PlacesInv /\ Windowed /\ [PlacesNext]_placeVars => Windowed'
  <2>. SUFFICES ASSUME PlacesInv, Windowed, [PlacesNext]_placeVars PROVE Windowed'
    OBVIOUS
  <2>1. ASSUME NEW c \in Callers, NEW u \in Users, Search(c, u) PROVE Windowed'
    BY <2>1, SearchFits
  <2>2. CASE \/ UNCHANGED placeVars
             \/ \E c \in Callers :
                  Resolve(c) \/ CachedSearch(c) \/ Reserve(c) \/ Send(c) \/ Store(c) \/ Fail(c)
    <3>1. UNCHANGED <<clock, window, searched>>
      BY <2>2 DEF placeVars, Resolve, CachedSearch, Reserve, Send, Store, Fail
    <3>. QED BY <3>1 DEF Windowed
  <2>3. CASE Wait
    <3>1. clock \in Int /\ clock' = clock + 1 /\ window' = window /\ searched' = searched
          /\ \A u \in Users : window[u].start \in Int
      BY <2>3 DEF Wait, Tick, PlacesInv, PlacesTypeOK, Times
    <3>. QED BY <3>1 DEF Windowed
  <2>4. CASE Restart
    <3>1. \A u \in Users : window'[u] = NoWindow /\ searched'[u] = NoSearch
      BY <2>4 DEF Restart
    <3>2. clock' \in Nat
      BY <2>4 DEF Restart, PlacesInv, PlacesTypeOK, Times
    <3>. QED BY <3>1, <3>2, NoSearchFits, PlacesAssumption DEF Windowed, NoWindow
  <2>. QED BY <2>1, <2>2, <2>3, <2>4 DEF PlacesNext
<1>3. PlacesInv /\ Windowed => SlidingBound
  <2>. SUFFICES ASSUME PlacesInv, Windowed, NEW u \in Users
                PROVE  SumFunction(searched[u]) < 2 * Limit
    BY DEF SlidingBound
  <2>1. PICK f \in [Times -> Nat], start \in Int, count \in 0 .. Limit :
          f = searched[u] /\ Fits(f, start, count)
    BY DEF PlacesInv, PlacesTypeOK, Windowed
  <2>2. \A t \in Times : f[t] \in Int
    OBVIOUS
  <2>3. /\ Earlier(start) \in SUBSET Times /\ Since(start) \in SUBSET Times
        /\ Earlier(start) \union Since(start) = Times /\ Earlier(start) \intersect Since(start) = {}
    BY DEF Earlier, Since, Times
  <2>4. SumFunctionOnSet(f, Times)
        = SumFunctionOnSet(f, Earlier(start)) + SumFunctionOnSet(f, Since(start))
    BY <2>2, <2>3, TimesFinite, SumUnion
  <2>5. SumFunctionOnSet(f, Earlier(start)) \in Int /\ SumFunctionOnSet(f, Since(start)) \in Int
    BY <2>2, <2>3, TimesFinite, SumInt
  <2>6. SumFunction(f) = SumFunctionOnSet(f, Times)
    BY DEF SumFunction
  <2>. QED BY <2>1, <2>4, <2>5, <2>6, PlacesAssumption DEF Fits
<1>. QED BY <1>1, <1>2, <1>3, QueueStaysBounded, PTL DEF PlacesSpec
=============================================================================
