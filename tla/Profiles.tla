------------------------------- MODULE Profiles -------------------------------
(***************************************************************************)
(* What a request's access token makes of its user's row in                *)
(* src/internal/auth: the email and whether it is verified, on which the   *)
(* acceptance of invitations depends.  A token carries them, or the issuer *)
(* is asked (userInfo) and its answer is kept in the process's memory for  *)
(* a while.  The lookup, the answer's storing and the row's upsert are     *)
(* steps of their own, so requests overtake each other.                    *)
(*                                                                         *)
(* A profile is abstracted to a statement of the issuer: whom it is about, *)
(* when it was made and whether on request.  The requests here have a      *)
(* token that CheckJWT found valid and that did not expire.                *)
(***************************************************************************)
EXTENDS Clock, FiniteSets

CONSTANTS
  Requests,  \* that can be under way at a time
  Subjects,  \* of the issuer, each a user
  Tokens,
  Holder,    \* the subject of each token
  Open,      \* the tokens with the scope openid and without an email
  Capacity,  \* tokens whose profiles are kept (256)
  KeepFor,   \* how long a profile is kept (a minute)
  Nobody     \* no token and no subject

ASSUME ProfilesAssumption ==
  /\ Holder \in [Tokens -> Subjects] /\ Open \subseteq Tokens
  /\ Capacity \in Nat \ {0} /\ KeepFor \in Nat
  /\ Nobody \notin Tokens \cup Subjects

VARIABLES
  profiles, \* token -> its holder's profile and when it expires
  rows,     \* each subject's users row: whom its profile is about and, as a history,
            \* how old what the issuer answered was when it was written
  request   \* each request under way

profileVars == <<clock, profiles, rows, request>>

Statement(of, asOf, fetched) == [of |-> of, asOf |-> asOf, fetched |-> fetched]

\* What a token carries was stated when it was issued, which may be any time ago.
Carried(t) == Statement(Holder[t], 0, FALSE)

Nothing == Statement(Nobody, 0, FALSE)

Job(step, token, since, profile) ==
  [step |-> step, token |-> token, since |-> since, profile |-> profile]

Free == Job("idle", Nobody, 0, Nothing)

ProfilesInit ==
  /\ clock = 0
  /\ profiles = <<>>
  /\ rows = [s \in Subjects |-> [of |-> Nobody, age |-> 0]]
  /\ request = [r \in Requests |-> Free]

-----------------------------------------------------------------------------
\* A request with a valid token; an openid token without an email has its holder's
\* profile looked up.
Arrive(r) ==
  /\ request[r].step = "idle"
  /\ \E t \in Tokens :
       request' = [request EXCEPT ![r] =
         IF t \in Open THEN Job("lookup", t, clock, Nothing) ELSE Job("save", t, clock, Carried(t))]
  /\ UNCHANGED <<clock, profiles, rows>>

\* Slip: a profile is used whether it expired or not.
KeptAtAll(t) == t \in DOMAIN profiles

Kept(t) == t \in DOMAIN profiles /\ clock < profiles[t].expires

LookUp(r) ==
  /\ request[r].step = "lookup"
  /\ InTime(request[r].since)
  /\ LET t == request[r].token
     IN request' = [request EXCEPT ![r] =
                      IF Kept(t) THEN [@ EXCEPT !.step = "save", !.profile = profiles[t].profile]
                      ELSE [@ EXCEPT !.step = "fetch"]]
  /\ UNCHANGED <<clock, profiles, rows>>

\* Slip: the answer is taken whoever it is about.
FetchAnybody(r) ==
  /\ request[r].step = "fetch"
  /\ InTime(request[r].since)
  /\ \E s \in Subjects :
       request' = [request EXCEPT ![r].step = "keep", ![r].profile = Statement(s, clock, TRUE)]
  /\ UNCHANGED <<clock, profiles, rows>>

\* The issuer answers, which is refused unless it is about the token's subject.
Fetch(r) ==
  /\ request[r].step = "fetch"
  /\ InTime(request[r].since)
  /\ \E s \in Subjects :
       request' = IF s = Holder[request[r].token]
                    THEN [request EXCEPT ![r].step = "keep",
                                         ![r].profile = Statement(s, clock, TRUE)]
                    ELSE [request EXCEPT ![r] = Free]
  /\ UNCHANGED <<clock, profiles, rows>>

Full == Cardinality(DOMAIN profiles) >= Capacity

\* The answer arrives and is kept, alone when as many are kept as may be.
Keep(r) ==
  /\ request[r].step = "keep"
  /\ InTime(request[r].since)
  /\ LET others == IF Full THEN {} ELSE DOMAIN profiles
         new == [profile |-> request[r].profile, expires |-> clock + KeepFor]
     IN profiles' = [t \in others \cup {request[r].token} |->
                       IF t = request[r].token THEN new ELSE profiles[t]]
  /\ request' = [request EXCEPT ![r].step = "save"]
  /\ UNCHANGED <<clock, rows>>

\* GetOrCreate writes the email and its verification over those of the row.
Save(r) ==
  /\ request[r].step = "save"
  /\ InTime(request[r].since)
  /\ LET profile == request[r].profile
     IN rows' = [rows EXCEPT ![Holder[request[r].token]] =
                   [of |-> profile.of, age |-> IF profile.fetched THEN clock - profile.asOf ELSE 0]]
  /\ request' = [request EXCEPT ![r] = Free]
  /\ UNCHANGED <<clock, profiles>>

\* The issuer or the database fails, or the timeout passes.
GiveUp(r) ==
  /\ request[r].step # "idle"
  /\ request' = [request EXCEPT ![r] = Free]
  /\ UNCHANGED <<clock, profiles, rows>>

Pass == Tick /\ UNCHANGED <<profiles, rows, request>>

\* The process starts anew, without what it had in memory.
Reboot ==
  /\ profiles' = <<>>
  /\ request' = [r \in Requests |-> Free]
  /\ UNCHANGED <<clock, rows>>

ProfilesNext ==
  \/ \E r \in Requests :
       Arrive(r) \/ LookUp(r) \/ Fetch(r) \/ Keep(r) \/ Save(r) \/ GiveUp(r)
  \/ Pass \/ Reboot

ProfilesSpec == ProfilesInit /\ [][ProfilesNext]_profileVars

-----------------------------------------------------------------------------
(***************************************************************************)
(* Properties.                                                             *)
(***************************************************************************)
Statements == [of : Subjects \cup {Nobody}, asOf : Nat, fetched : BOOLEAN]

ProfilesTypeOK ==
  /\ clock \in Nat
  /\ IsFiniteSet(DOMAIN profiles) /\ DOMAIN profiles \subseteq Tokens
  /\ profiles \in [DOMAIN profiles -> [profile : Statements, expires : Nat]]
  /\ rows \in [Subjects -> [of : Subjects \cup {Nobody}, age : Int]]
  /\ request \in [Requests -> [step : {"idle", "lookup", "fetch", "keep", "save"},
                               token : Tokens \cup {Nobody}, since : Nat, profile : Statements]]

\* A profile kept is its token's holder's, as old as a request takes at most.
KeptAsStated ==
  \A t \in DOMAIN profiles :
    /\ profiles[t].profile.of = Holder[t]
    /\ profiles[t].expires <= profiles[t].profile.asOf + Timeout + KeepFor

\* What a request has at its step.
RequestAsStated(q) ==
  /\ q.since <= clock
  /\ q.step # "idle" => q.token \in Tokens
  /\ q.step \in {"keep", "save"} => q.profile.of = Holder[q.token]
  /\ q.step = "keep" => q.profile.asOf >= q.since
  /\ q.step = "save" /\ q.profile.fetched => q.since <= q.profile.asOf + Timeout + KeepFor

\* The memory that profiles take is bounded.
MemoryBounded == Cardinality(DOMAIN profiles) <= Capacity

\* A user's row never says what was stated of somebody else, although an answer is
\* kept under the token and the row is found by its subject.
RowsAsStated ==
  \A s \in Subjects : rows[s].of \in {s, Nobody}

\* What the issuer answered is never written to a user's row later than it is kept
\* for and two requests take: the one that kept it and the one that writes it.  So an
\* older answer may go over a newer one, and a withdrawn verification come back, but
\* for no longer than that.
NeverStaler ==
  \A s \in Subjects : rows[s].age <= KeepFor + 2 * Timeout

ProfilesInv ==
  /\ ProfilesTypeOK /\ KeptAsStated /\ MemoryBounded
  /\ \A r \in Requests : RequestAsStated(request[r])
  /\ RowsAsStated /\ NeverStaler
=============================================================================
