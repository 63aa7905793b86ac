---------------------------- MODULE ProfilesProofs ----------------------------
(***************************************************************************)
(* That a user's row is what the issuer said of them, and not long ago,    *)
(* for any number of requests, users and tokens, any timeout and any time  *)
(* that a profile is kept.                                                 *)
(***************************************************************************)
EXTENDS Profiles, FiniteSetTheorems, TLAPS

\* What a request can be.
Jobs == [step : {"idle", "lookup", "fetch", "keep", "save"},
         token : Tokens \cup {Nobody}, since : Nat, profile : Statements]

LEMMA Initially == ProfilesInit => ProfilesInv
<1>. SUFFICES ASSUME ProfilesInit PROVE ProfilesInv
  OBVIOUS
<1>. USE ProfilesAssumption, ClockAssumption
<1>1. DOMAIN profiles = {}
  BY DEF ProfilesInit
<1>2. IsFiniteSet({}) /\ Cardinality({}) = 0
  BY FS_EmptySet
<1>3. ProfilesTypeOK
  <2>1. profiles \in [DOMAIN profiles -> [profile : Statements, expires : Nat]]
    BY <1>1 DEF ProfilesInit
  <2>2. Free \in Jobs
    BY DEF Free, Job, Jobs, Nothing, Statement, Statements
  <2>3. rows \in [Subjects -> [of : Subjects \cup {Nobody}, age : Int]]
    BY DEF ProfilesInit
  <2>. QED BY <1>1, <1>2, <2>1, <2>2, <2>3 DEF ProfilesTypeOK, ProfilesInit, Jobs
<1>4. KeptAsStated /\ MemoryBounded
  BY <1>1, <1>2 DEF KeptAsStated, MemoryBounded
<1>5. \A r \in Requests : RequestAsStated(request[r])
  BY DEF ProfilesInit, RequestAsStated, Free, Job
<1>6. RowsAsStated /\ NeverStaler
  BY DEF ProfilesInit, RowsAsStated, NeverStaler
<1>. QED BY <1>3, <1>4, <1>5, <1>6 DEF ProfilesInv

\* A step that changes one request alone is right if the request is.
LEMMA OneRequest ==
  ASSUME ProfilesInv, NEW r \in Requests, NEW q \in Jobs, RequestAsStated(q),
         request' = [request EXCEPT ![r] = q], UNCHANGED <<clock, profiles, rows>>
  PROVE  ProfilesInv'
<1>1. request' \in [Requests -> Jobs] /\ \A s \in Requests : request'[s] \in {request[s], q}
  BY DEF ProfilesInv, ProfilesTypeOK, Jobs
<1>2. ProfilesTypeOK'
  BY <1>1 DEF ProfilesInv, ProfilesTypeOK, Jobs
<1>3. KeptAsStated' /\ MemoryBounded' /\ RowsAsStated' /\ NeverStaler'
  BY DEF ProfilesInv, KeptAsStated, MemoryBounded, RowsAsStated, NeverStaler
<1>4. \A s \in Requests : RequestAsStated(request[s])'
  BY <1>1 DEF ProfilesInv, RequestAsStated
<1>. QED BY <1>2, <1>3, <1>4 DEF ProfilesInv

LEMMA FreeFits == ASSUME ProfilesInv PROVE Free \in Jobs /\ RequestAsStated(Free)
BY DEF Free, Job, Jobs, Nothing, Statement, Statements, RequestAsStated, ProfilesInv, ProfilesTypeOK

LEMMA Arriving == ASSUME ProfilesInv, NEW r \in Requests, Arrive(r) PROVE ProfilesInv'
<1>. USE ProfilesAssumption
<1>1. PICK t \in Tokens :
        request' = [request EXCEPT ![r] =
          IF t \in Open THEN Job("lookup", t, clock, Nothing) ELSE Job("save", t, clock, Carried(t))]
  BY DEF Arrive
<1>. DEFINE q == IF t \in Open THEN Job("lookup", t, clock, Nothing) ELSE Job("save", t, clock, Carried(t))
<1>2. Nothing \in Statements /\ Carried(t) \in Statements /\ clock \in Nat
  BY DEF Nothing, Carried, Statement, Statements, ProfilesInv, ProfilesTypeOK
<1>3. q \in Jobs /\ RequestAsStated(q)
  BY <1>2 DEF Job, Jobs, Carried, Statement, RequestAsStated
<1>. QED BY <1>1, <1>3, OneRequest DEF Arrive

LEMMA LookingUp == ASSUME ProfilesInv, NEW r \in Requests, LookUp(r) PROVE ProfilesInv'
<1>. USE ProfilesAssumption, ClockAssumption
<1>. DEFINE old == request[r]
            t == old.token
            q == IF Kept(t) THEN [old EXCEPT !.step = "save", !.profile = profiles[t].profile]
                 ELSE [old EXCEPT !.step = "fetch"]
<1>1. old \in Jobs /\ RequestAsStated(old) /\ old.step = "lookup" /\ clock \in Nat
  BY DEF LookUp, ProfilesInv, ProfilesTypeOK, Jobs
<1>2. request' = [request EXCEPT ![r] = q]
  BY DEF LookUp
<1>3. ASSUME Kept(t)
      PROVE  /\ profiles[t] \in [profile : Statements, expires : Nat]
             /\ profiles[t].profile.of = Holder[t]
             /\ clock < profiles[t].profile.asOf + Timeout + KeepFor
  <2>1. t \in DOMAIN profiles /\ clock < profiles[t].expires
    BY <1>3 DEF Kept
  <2>2. profiles[t] \in [profile : Statements, expires : Nat]
    BY <2>1 DEF ProfilesInv, ProfilesTypeOK
  <2>3. /\ profiles[t].profile.of = Holder[t]
        /\ profiles[t].expires <= profiles[t].profile.asOf + Timeout + KeepFor
    BY <2>1 DEF ProfilesInv, KeptAsStated
  <2>. QED BY <1>1, <2>1, <2>2, <2>3 DEF Statements
<1>4. q \in Jobs /\ RequestAsStated(q)
  <2>1. CASE Kept(t)
    <3>. DEFINE p == profiles[t].profile
    <3>1. /\ p \in Statements /\ p.asOf \in Nat
          /\ p.of = Holder[t] /\ clock < p.asOf + Timeout + KeepFor
      BY <1>3, <2>1 DEF Statements
    <3>2. q = [old EXCEPT !.step = "save", !.profile = p]
      BY <2>1
    <3>. HIDE DEF p, q
    <3>3. q.step = "save" /\ q.token = t /\ q.since = old.since /\ q.profile = p /\ q \in Jobs
      BY <1>1, <3>1, <3>2 DEF Jobs
    <3>4. t \in Tokens /\ old.since <= clock /\ old.since \in Nat
      BY <1>1 DEF RequestAsStated, Jobs
    <3>5. old.since <= p.asOf + Timeout + KeepFor
      BY <1>1, <3>1, <3>4
    <3>. QED BY <3>1, <3>3, <3>4, <3>5 DEF RequestAsStated
  <2>2. CASE ~Kept(t)
    BY <1>1, <2>2 DEF Jobs, RequestAsStated
  <2>. QED BY <2>1, <2>2
<1>. QED BY <1>2, <1>4, OneRequest DEF LookUp

LEMMA Fetching == ASSUME ProfilesInv, NEW r \in Requests, Fetch(r) PROVE ProfilesInv'
<1>. DEFINE old == request[r]
<1>1. old \in Jobs /\ RequestAsStated(old) /\ old.step = "fetch" /\ clock \in Nat
  BY DEF Fetch, ProfilesInv, ProfilesTypeOK, Jobs
<1>2. PICK s \in Subjects :
        request' = IF s = Holder[old.token]
                     THEN [request EXCEPT ![r].step = "keep", ![r].profile = Statement(s, clock, TRUE)]
                     ELSE [request EXCEPT ![r] = Free]
  BY DEF Fetch
<1>. DEFINE q == [old EXCEPT !.step = "keep", !.profile = Statement(s, clock, TRUE)]
<1>3. CASE s = Holder[old.token]
  <2>1. request' = [request EXCEPT ![r] = q]
    BY <1>2, <1>3 DEF ProfilesInv, ProfilesTypeOK
  <2>2. Statement(s, clock, TRUE) \in Statements
    BY <1>1 DEF Statement, Statements
  <2>3. q \in Jobs /\ RequestAsStated(q)
    BY <1>1, <1>3, <2>2 DEF Jobs, RequestAsStated, Statement
  <2>. QED BY <2>1, <2>3, OneRequest DEF Fetch
<1>4. CASE s # Holder[old.token]
  BY <1>2, <1>4, FreeFits, OneRequest DEF Fetch
<1>. QED BY <1>3, <1>4

LEMMA GivingUp == ASSUME ProfilesInv, NEW r \in Requests, GiveUp(r) PROVE ProfilesInv'
BY FreeFits, OneRequest DEF GiveUp

\* An answer is kept under its request's token and takes no more memory than there is.
LEMMA Keeping == ASSUME ProfilesInv, NEW r \in Requests, Keep(r) PROVE ProfilesInv'
<1>. USE ProfilesAssumption, ClockAssumption
<1>. DEFINE old == request[r]
            t == old.token
            others == IF Full THEN {} ELSE DOMAIN profiles
            new == [profile |-> old.profile, expires |-> clock + KeepFor]
            q == [old EXCEPT !.step = "save"]
<1>1. old \in Jobs /\ RequestAsStated(old) /\ old.step = "keep" /\ clock \in Nat
  BY DEF Keep, ProfilesInv, ProfilesTypeOK, Jobs
<1>2. t \in Tokens /\ old.since <= clock /\ clock <= old.since + Timeout
      /\ old.profile.of = Holder[t] /\ old.profile.asOf >= old.since
      /\ old.since \in Nat /\ old.profile.asOf \in Nat
  BY <1>1 DEF Keep, InTime, RequestAsStated, Jobs, Statements
<1>3. /\ profiles' = [x \in others \cup {t} |-> IF x = t THEN new ELSE profiles[x]]
      /\ request' = [request EXCEPT ![r] = q] /\ UNCHANGED <<clock, rows>>
  BY DEF Keep, ProfilesInv, ProfilesTypeOK
<1>4. q \in Jobs /\ (RequestAsStated(q))
  BY <1>1, <1>2 DEF Jobs, RequestAsStated
<1>5. \A s \in Requests : RequestAsStated(request[s])' /\ request'[s] \in Jobs
  BY <1>3, <1>4 DEF ProfilesInv, ProfilesTypeOK, RequestAsStated, Jobs
<1>6. new \in [profile : Statements, expires : Nat]
      /\ new.profile.of = Holder[t] /\ new.expires <= new.profile.asOf + Timeout + KeepFor
  BY <1>1, <1>2 DEF Jobs
<1>7. /\ IsFiniteSet(others) /\ others \subseteq DOMAIN profiles
      /\ Cardinality(others) \in Nat /\ Cardinality(others) < Capacity
  <2>1. CASE Full
    BY <2>1, FS_EmptySet
  <2>2. CASE ~Full
    <3>1. IsFiniteSet(DOMAIN profiles)
      BY DEF ProfilesInv, ProfilesTypeOK
    <3>2. Cardinality(DOMAIN profiles) \in Nat
      BY <3>1, FS_CardinalityType
    <3>. QED BY <2>2, <3>1, <3>2 DEF Full
  <2>. QED BY <2>1, <2>2
<1>8. /\ IsFiniteSet(DOMAIN profiles') /\ MemoryBounded' /\ DOMAIN profiles' \subseteq Tokens
  <2>. HIDE DEF others
  <2>1. DOMAIN profiles' = others \cup {t}
    BY <1>3
  <2>2. /\ IsFiniteSet(others \cup {t})
        /\ Cardinality(others \cup {t}) =
             IF t \in others THEN Cardinality(others) ELSE Cardinality(others) + 1
    BY <1>7, FS_AddElement
  <2>3. Cardinality(others \cup {t}) <= Capacity
    BY <1>7, <2>2
  <2>. QED BY <1>2, <1>7, <2>1, <2>2, <2>3 DEF MemoryBounded, ProfilesInv, ProfilesTypeOK
<1>9. \A x \in DOMAIN profiles' :
        /\ profiles'[x] \in [profile : Statements, expires : Nat]
        /\ profiles'[x].profile.of = Holder[x]
        /\ profiles'[x].expires <= profiles'[x].profile.asOf + Timeout + KeepFor
  <2>. HIDE DEF others, new
  <2>. TAKE x \in DOMAIN profiles'
  <2>1. CASE x = t
    BY <1>3, <1>6, <2>1
  <2>2. CASE x # t
    <3>1. x \in DOMAIN profiles /\ profiles'[x] = profiles[x]
      BY <1>3, <1>7, <2>2
    <3>. QED BY <3>1 DEF ProfilesInv, ProfilesTypeOK, KeptAsStated
  <2>. QED BY <2>1, <2>2
<1>10. KeptAsStated'
  BY <1>9 DEF KeptAsStated
<1>11. ProfilesTypeOK'
  <2>1. profiles' \in [DOMAIN profiles' -> [profile : Statements, expires : Nat]]
    <3>. HIDE DEF others, new
    <3>1. profiles' = [x \in DOMAIN profiles' |-> profiles'[x]]
      BY <1>3
    <3>. QED BY <1>9, <3>1
  <2>2. request' \in [Requests -> Jobs]
    BY <1>3, <1>5 DEF ProfilesInv, ProfilesTypeOK, Jobs
  <2>. QED BY <1>3, <1>8, <2>1, <2>2 DEF ProfilesInv, ProfilesTypeOK, Jobs
<1>12. RowsAsStated' /\ NeverStaler'
  BY <1>3 DEF ProfilesInv, RowsAsStated, NeverStaler
<1>. QED BY <1>5, <1>8, <1>10, <1>11, <1>12 DEF ProfilesInv

\* What is written was said of the row's user, and is as old as it was when it was
\* kept and as the request that writes it.
LEMMA Saving == ASSUME ProfilesInv, NEW r \in Requests, Save(r) PROVE ProfilesInv'
<1>. USE ProfilesAssumption, ClockAssumption
<1>. DEFINE old == request[r]
            s == Holder[old.token]
            row == [of |-> old.profile.of,
                    age |-> IF old.profile.fetched THEN clock - old.profile.asOf ELSE 0]
<1>1. old \in Jobs /\ RequestAsStated(old) /\ old.step = "save" /\ clock \in Nat
  BY DEF Save, ProfilesInv, ProfilesTypeOK, Jobs
<1>2. old.token \in Tokens /\ s \in Subjects /\ old.profile.of = s
  BY <1>1 DEF RequestAsStated
<1>3. row \in [of : Subjects \cup {Nobody}, age : Int] /\ row.age <= KeepFor + 2 * Timeout
  BY <1>1, <1>2 DEF Save, InTime, RequestAsStated, Jobs, Statements
<1>4. /\ rows' = [rows EXCEPT ![s] = row] /\ UNCHANGED <<clock, profiles>>
      /\ request' = [request EXCEPT ![r] = Free]
  BY DEF Save
<1>5. \A q \in Requests : RequestAsStated(request[q])' /\ request'[q] \in Jobs
  BY <1>4, FreeFits DEF ProfilesInv, ProfilesTypeOK, RequestAsStated, Jobs
<1>6. rows' \in [Subjects -> [of : Subjects \cup {Nobody}, age : Int]]
  <2>. HIDE DEF row
  <2>. QED BY <1>2, <1>3, <1>4 DEF ProfilesInv, ProfilesTypeOK
<1>7. \A x \in Subjects : rows'[x] = IF x = s THEN row ELSE rows[x]
  BY <1>4 DEF ProfilesInv, ProfilesTypeOK
<1>8. RowsAsStated'
  BY <1>2, <1>7 DEF ProfilesInv, RowsAsStated
<1>9. NeverStaler'
  <2>. HIDE DEF row
  <2>. QED BY <1>3, <1>7 DEF ProfilesInv, NeverStaler
<1>10. ProfilesTypeOK'
  BY <1>4, <1>5, <1>6 DEF ProfilesInv, ProfilesTypeOK, Jobs
<1>11. KeptAsStated' /\ MemoryBounded'
  BY <1>4 DEF ProfilesInv, KeptAsStated, MemoryBounded
<1>. QED BY <1>5, <1>8, <1>9, <1>10, <1>11 DEF ProfilesInv

LEMMA Passing == ASSUME ProfilesInv, Pass PROVE ProfilesInv'
<1>1. clock \in Nat /\ clock' = clock + 1 /\ UNCHANGED <<profiles, rows, request>>
  BY DEF Pass, Tick, ProfilesInv, ProfilesTypeOK
<1>2. \A r \in Requests : RequestAsStated(request[r])'
  BY <1>1 DEF ProfilesInv, ProfilesTypeOK, RequestAsStated
<1>3. ProfilesTypeOK'
  BY <1>1 DEF ProfilesInv, ProfilesTypeOK
<1>4. KeptAsStated' /\ MemoryBounded' /\ RowsAsStated' /\ NeverStaler'
  BY <1>1 DEF ProfilesInv, KeptAsStated, MemoryBounded, RowsAsStated, NeverStaler
<1>. QED BY <1>2, <1>3, <1>4 DEF ProfilesInv

LEMMA Rebooting == ASSUME ProfilesInv, Reboot PROVE ProfilesInv'
<1>. USE ProfilesAssumption
<1>1. DOMAIN profiles' = {} /\ UNCHANGED <<clock, rows>>
  BY DEF Reboot
<1>2. IsFiniteSet({}) /\ Cardinality({}) = 0
  BY FS_EmptySet
<1>3. \A r \in Requests : RequestAsStated(request[r])' /\ request'[r] \in Jobs
  BY <1>1, FreeFits DEF Reboot, RequestAsStated
<1>4. ProfilesTypeOK'
  <2>1. profiles' \in [DOMAIN profiles' -> [profile : Statements, expires : Nat]]
    BY <1>1 DEF Reboot
  <2>. QED BY <1>1, <1>2, <1>3, <2>1, FreeFits DEF ProfilesInv, ProfilesTypeOK, Reboot, Jobs
<1>5. KeptAsStated' /\ MemoryBounded'
  BY <1>1, <1>2 DEF KeptAsStated, MemoryBounded
<1>6. RowsAsStated' /\ NeverStaler'
  BY <1>1 DEF ProfilesInv, RowsAsStated, NeverStaler
<1>. QED BY <1>3, <1>4, <1>5, <1>6 DEF ProfilesInv

LEMMA Preserved == ProfilesInv /\ [ProfilesNext]_profileVars => ProfilesInv'
<1>. SUFFICES ASSUME ProfilesInv, [ProfilesNext]_profileVars PROVE ProfilesInv'
  OBVIOUS
<1>1. ASSUME NEW r \in Requests,
             Arrive(r) \/ LookUp(r) \/ Fetch(r) \/ Keep(r) \/ Save(r) \/ GiveUp(r)
      PROVE  ProfilesInv'
  BY <1>1, Arriving, LookingUp, Fetching, Keeping, Saving, GivingUp
<1>2. CASE UNCHANGED profileVars
  BY <1>2 DEF profileVars, ProfilesInv, ProfilesTypeOK, KeptAsStated, RequestAsStated,
              MemoryBounded, RowsAsStated, NeverStaler
<1>. QED BY <1>1, <1>2, Passing, Rebooting DEF ProfilesNext

\* Profiles kept, rows and requests are at every step what their definitions say.
THEOREM Stated == ProfilesSpec => []ProfilesInv
BY Initially, Preserved, PTL DEF ProfilesSpec

\* No user's row is about somebody else (Middleware and userInfo.Load): an answer is
\* kept under the token it was fetched with and refused unless it names the subject.
THEOREM RowsAboutTheirUsers == ProfilesSpec => []RowsAsStated
<1>1. ProfilesInv => RowsAsStated
  BY DEF ProfilesInv
<1>. QED BY <1>1, Stated, PTL

\* Nothing older than a kept profile and two requests' timeouts is written to a row,
\* in whatever order lookups, answers and upserts overtake each other.
THEOREM RowsNeverStaler == ProfilesSpec => []NeverStaler
<1>1. ProfilesInv => NeverStaler
  BY DEF ProfilesInv
<1>. QED BY <1>1, Stated, PTL
=============================================================================
