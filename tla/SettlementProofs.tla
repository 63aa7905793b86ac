--------------------------- MODULE SettlementProofs ---------------------------
(***************************************************************************)
(* Proofs about Settlement for any number of people and any amounts: the   *)
(* checked addition is exact, a split or an allocation leaves nothing and  *)
(* adds up to the amount, everyone's part is theirs to within a unit, and  *)
(* the suggested transfers settle every balance.                           *)
(***************************************************************************)
EXTENDS Settlement, SumTheorems, NaturalsInduction

-----------------------------------------------------------------------------
(***************************************************************************)
(* Arithmetic.                                                             *)
(***************************************************************************)

\* A quotient and its remainder (EqualShare, Floor).
LEMMA DivMod ==
  ASSUME NEW x \in Nat, NEW t \in Nat \ {0}
  PROVE /\ x \div t \in Nat /\ x % t \in 0 .. t - 1
        /\ t * (x \div t) + (x % t) = x
  BY SMT

\* Products keep the order of what they multiply.
LEMMA Cancel ==
  ASSUME NEW t \in Nat \ {0}, NEW p \in Int, NEW w \in Int, t * p <= t * w
  PROVE p <= w
  BY SMT

LEMMA Sign ==
  ASSUME NEW t \in Nat \ {0}, NEW w \in Int
  PROVE (0 <= t * w => 0 <= w) /\ (t * w <= 0 => w <= 0)
  BY SMT

LEMMA Monotone ==
  ASSUME NEW a \in Nat, NEW t \in Nat, NEW w \in Nat, a <= t
  PROVE a * w <= t * w /\ a * w \in Nat
  BY SMT

LEMMA Distribute ==
  ASSUME NEW a \in Int, NEW x \in Int, NEW y \in Int
  PROVE a * (x + y) = a * x + a * y /\ a * (x - y) = a * x - a * y
  BY SMT

\* A division of Floor gives at most the share, and its remainder.
LEMMA Parts ==
  ASSUME NEW a \in Nat, NEW w \in Nat, NEW t \in Nat \ {0}, a <= t
  PROVE LET part == (a * w) \div t
            over == (a * w) % t
        IN /\ part \in 0 .. w /\ over \in 0 .. t - 1
           /\ t * part + over = a * w
<1> DEFINE part == (a * w) \div t
           over == (a * w) % t
<1>1. a * w \in Nat /\ a * w <= t * w
  BY Monotone
<1>2. part \in Nat /\ over \in 0 .. t - 1 /\ t * part + over = a * w
  BY <1>1, DivMod
<1>3. t * part \in Int /\ t * part <= t * w
  <2> HIDE DEF part, over
  <2> QED BY <1>1, <1>2
<1>4. part <= w
  <2> HIDE DEF part, over
  <2> QED BY <1>2, <1>3, Cancel
<1> QED BY <1>2, <1>4

\* checkedAdd refuses exactly the sums the integers cannot hold; the others are
\* what the machine computes.
THEOREM AdditionExact ==
  ASSUME NEW a \in Int64, NEW b \in Int64
  PROVE /\ Overflows(a, b) <=> a + b \notin Int64
        /\ ~Overflows(a, b) => Plus(a, b) = a + b
  BY SettlementAssumption DEF Overflows, Plus, Int64, MinMinor

\* The first debtor or creditor exists where there is one.
LEMMA First ==
  ASSUME NEW S \in SUBSET Nat, S # {}
  PROVE Min(S) \in S
<1> DEFINE Less == {ss \in Nat \X Nat : ss[1] < ss[2]}
<1>1. IsWellFoundedOn(Less, Nat)
  BY NatLessThanWellFounded DEF OpToRel
<1>2. PICK x \in S : \A y \in S : ~(<<y, x>> \in Less)
  <2> HIDE DEF Less
  <2> QED BY <1>1, WFMin
<1>3. ASSUME NEW y \in S PROVE x <= y
  <2>1. x \in Nat /\ y \in Nat /\ (y < x => <<y, x>> \in Less)
    OBVIOUS
  <2> QED BY <1>2, <2>1
<1> QED BY <1>3 DEF Min

-----------------------------------------------------------------------------
(***************************************************************************)
(* The invariant, one lemma per calculation.                               *)
(***************************************************************************)
LEMMA Initially == SettlementInit => SettlementInv
  BY SettlementAssumption
  DEF SettlementInit, SettlementInv, SettlementTypeOK, Fresh, SplitSoFar, AddedSoFar, Sharing,
      FloorSoFar, HandSoFar, NothingLeft, SharedFairly, Steps, People, Amounts, Nobodys, FromZero

\* The steps that begin or end a calculation.
LEMMA Asking ==
  ASSUME SettlementInv, AskEqual \/ AskExact \/ AskAllocate \/ AskSuggest \/ Answer
  PROVE SettlementInv'
<1> USE DEF SettlementInv, SettlementTypeOK, Fresh, Steps
<1>1. CASE AskEqual
  <2>1. asked' \in Nat /\ left' = asked' /\ k = 1 /\ sum' = "split"
    BY <1>1 DEF AskEqual, Amounts
  <2>2. SettlementTypeOK' /\ Fresh'
    BY <1>1, <2>1 DEF AskEqual
  <2>3. SplitSoFar'
    <3>1. asked' \div Size \in Nat /\ asked' % Size \in 0 .. Size - 1
      BY <2>1, DivMod, SettlementAssumption
    <3> QED BY <1>1, <2>1, <3>1, SettlementAssumption DEF AskEqual, SplitSoFar, Least
  <2> QED BY <2>1, <2>2, <2>3 DEF AddedSoFar, Sharing, FloorSoFar, HandSoFar, NothingLeft, SharedFairly
<1>2. CASE AskExact
  <2>1. asked' \in Nat /\ shares' \in [People -> Amounts] /\ sum' = "add_exact"
    BY <1>2 DEF AskExact, Amounts
  <2>2. SettlementTypeOK' /\ Fresh'
    BY <1>2, <2>1 DEF AskExact
  <2>3. AddedSoFar'
    BY <1>2, <2>1 DEF AskExact, AddedSoFar
  <2> QED BY <2>1, <2>2, <2>3 DEF SplitSoFar, Sharing, FloorSoFar, HandSoFar, NothingLeft, SharedFairly
<1>3. CASE AskAllocate
  <2>1. /\ asked' \in Nat /\ amount' \in Nat /\ payer' \in People
        /\ shares' \in [People -> Amounts] /\ sum' = "add_left"
    BY <1>3 DEF AskAllocate, Amounts
  <2>2. SettlementTypeOK' /\ Fresh'
    BY <1>3, <2>1 DEF AskAllocate
  <2>3. AddedSoFar'
    BY <1>3, <2>1 DEF AskAllocate, AddedSoFar
  <2> QED BY <2>1, <2>2, <2>3 DEF SplitSoFar, Sharing, FloorSoFar, HandSoFar, NothingLeft, SharedFairly
<1>4. CASE AskSuggest
  <2>1. balance' \in [People -> Int] /\ sum' = "match"
    <3>1. balance' \in [People -> Int64]
      BY <1>4 DEF AskSuggest
    <3> QED BY <1>4, <3>1, SettlementAssumption DEF AskSuggest, Int64, MinMinor
  <2>2. SettlementTypeOK' /\ Fresh'
    BY <1>4, <2>1 DEF AskSuggest
  <2> QED BY <2>1, <2>2
          DEF SplitSoFar, AddedSoFar, Sharing, FloorSoFar, HandSoFar, NothingLeft, SharedFairly
<1>5. CASE Answer
  <2>1. SettlementTypeOK' /\ Fresh'
    BY <1>5, SettlementAssumption DEF Answer, Nobodys, FromZero, People, Amounts
  <2>2. sum' = "idle"
    BY <1>5 DEF Answer
  <2> QED BY <2>1, <2>2
          DEF SplitSoFar, AddedSoFar, Sharing, FloorSoFar, HandSoFar, NothingLeft, SharedFairly
<1> QED BY <1>1, <1>2, <1>3, <1>4, <1>5

\* One person's part of an equal split.
LEMMA Splitting ==
  ASSUME SettlementInv, Split
  PROVE SettlementInv'
<1> USE DEF SettlementInv
<1> DEFINE part == asked \div Size
           more == asked % Size
<1>1. /\ SettlementTypeOK /\ sum = "split" /\ asked' = asked /\ k \in 1 .. Size
      /\ Size \in Nat \ {0} /\ asked \in Nat /\ left \in Int
  BY SettlementAssumption DEF Split, SettlementTypeOK, People
<1>2. /\ part \in Nat /\ more \in 0 .. Size - 1 /\ Size * part + more = asked
      /\ EqualShare = part + (IF k <= more THEN 1 ELSE 0)
  BY <1>1, DivMod DEF EqualShare
<1>3. /\ left = asked - (k - 1) * part - Least(k - 1, more)
      /\ \A p \in 1 .. k - 1 : result[p] = part + (IF p <= more THEN 1 ELSE 0)
  BY <1>1 DEF SplitSoFar
<1>4. /\ result' = [result EXCEPT ![k] = EqualShare]
      /\ left' = left - EqualShare
      /\ \/ k = Size /\ sum' = "split_done" /\ k' = 1
         \/ k < Size /\ sum' = "split" /\ k' = k + 1
  BY <1>1 DEF Split, Advance
<1> HIDE DEF part, more
<1>5. k * part = (k - 1) * part + part
  BY <1>1, <1>2, Distribute
<1>6. left' = asked - k * part - Least(k, more)
  <2>1. (k - 1) * part \in Int /\ k * part \in Int
    BY <1>1, <1>2
  <2> QED BY <1>1, <1>2, <1>3, <1>4, <1>5, <2>1 DEF Least
<1>7. \A p \in 1 .. k : result'[p] = part + (IF p <= more THEN 1 ELSE 0)
  <2>1. result \in [People -> Nat] /\ \A p \in 1 .. k : p \in People
    BY <1>1 DEF SettlementTypeOK, People
  <2>2. \A p \in 1 .. k : p = k \/ p \in 1 .. k - 1
    BY <1>1
  <2> QED BY <1>2, <1>3, <1>4, <2>1, <2>2
<1>8. SettlementTypeOK' /\ Fresh'
  <2>1. EqualShare \in Nat /\ left' \in Int /\ k' \in People
    BY <1>1, <1>2, <1>4 DEF People
  <2> QED BY <1>1, <1>4, <2>1 DEF Split, SettlementTypeOK, Fresh, Steps
<1>9. SplitSoFar'
  <2>1. CASE k = Size
    BY <1>1, <1>4, <1>6, <1>7, <2>1 DEF SplitSoFar, part, more
  <2>2. CASE k < Size
    <3>1. k' - 1 = k
      BY <1>1, <1>4, <2>2
    <3> QED BY <1>1, <1>4, <1>6, <1>7, <2>2, <3>1 DEF SplitSoFar, part, more
  <2> QED BY <1>1, <2>1, <2>2
<1>10. NothingLeft' /\ SharedFairly'
  <2>1. CASE k = Size
    <3>1. left' = 0
      BY <1>1, <1>2, <1>6, <2>1 DEF Least
    <3>2. ASSUME NEW p \in People PROVE Size * result'[p] - asked \in 1 - Size .. Size - 1
      <4>1. p \in 1 .. k
        BY <2>1 DEF People
      <4>2. result'[p] = part + (IF p <= more THEN 1 ELSE 0)
        BY <1>7, <4>1
      <4>3. Size * (part + 1) = Size * part + Size
        BY <1>1, <1>2, Distribute
      <4>4. Size * part \in Nat
        BY <1>1, <1>2
      <4>5. CASE p <= more
        BY <1>1, <1>2, <4>1, <4>2, <4>3, <4>4, <4>5
      <4>6. CASE ~(p <= more)
        BY <1>1, <1>2, <4>1, <4>2, <4>4, <4>6
      <4> QED BY <4>5, <4>6
    <3> QED BY <1>1, <1>4, <2>1, <3>1, <3>2 DEF NothingLeft, SharedFairly
  <2>2. CASE k # Size
    BY <1>4, <2>2 DEF NothingLeft, SharedFairly
  <2> QED BY <2>1, <2>2
<1> QED BY <1>4, <1>8, <1>9, <1>10 DEF AddedSoFar, Sharing, FloorSoFar, HandSoFar

\* One share added to the total.
LEMMA Adding ==
  ASSUME SettlementInv, Add("add_exact", "exact") \/ Add("add_left", "own")
  PROVE SettlementInv'
<1> USE DEF SettlementInv
<1>1. /\ SettlementTypeOK /\ sum \in {"add_exact", "add_left"} /\ k \in 1 .. Size
      /\ Size \in Nat \ {0} /\ MaxMinor \in Nat /\ k \in People /\ total \in 0 .. MaxMinor
      /\ shares[k] \in 0 .. MaxMinor
  BY SettlementAssumption DEF Add, SettlementTypeOK, People, Amounts
<1>2. CASE Overflows(total, shares[k])
  <2>1. sum' = "refused" /\ k' = k /\ total' = total /\ upTo' = upTo
    BY <1>2 DEF Add
  <2>2. SettlementTypeOK' /\ Fresh'
    BY <1>1, <2>1 DEF Add, SettlementTypeOK, Fresh, Steps
  <2> QED BY <2>1, <2>2
          DEF SplitSoFar, AddedSoFar, Sharing, FloorSoFar, HandSoFar, NothingLeft, SharedFairly
<1>3. CASE ~Overflows(total, shares[k])
  <2>1. total' = total + shares[k] /\ total' \in Amounts
    <3>1. total \in Int64 /\ shares[k] \in Int64
      BY <1>1 DEF Int64, MinMinor
    <3>2. total + shares[k] \in Int64
      BY <1>3, <3>1, AdditionExact
    <3>3. total' = Plus(total, shares[k])
      BY <1>3 DEF Add
    <3> QED BY <1>1, <1>3, <3>1, <3>2, <3>3, AdditionExact DEF Amounts, Int64
  <2>2. /\ upTo' = [upTo EXCEPT ![k] = upTo[k - 1] + shares[k]]
        /\ \/ k = Size /\ sum' \in {"exact", "own"} /\ k' = 1
           \/ k < Size /\ sum' = sum /\ k' = k + 1
    BY <1>1, <1>3 DEF Add, Advance
  <2>3. k - 1 \in FromZero /\ k \in FromZero /\ k # 0 /\ 0 \in FromZero /\ k' \in People
    BY <1>1, <2>2 DEF FromZero, People
  <2>4. SettlementTypeOK' /\ Fresh'
    <3>1. upTo[k - 1] + shares[k] \in Nat /\ upTo \in [FromZero -> Nat]
      <4>1. upTo \in [FromZero -> Nat]
        BY <1>1 DEF SettlementTypeOK
      <4> QED BY <1>1, <2>3, <4>1
    <3>2. upTo' \in [FromZero -> Nat] /\ upTo'[0] = upTo[0]
      BY <2>2, <2>3, <3>1
    <3> QED BY <1>1, <2>1, <2>2, <2>3, <3>2 DEF Add, SettlementTypeOK, Fresh, Steps
  <2>5. AddedSoFar'
    <3>1. /\ own = 0 /\ result = Nobodys /\ total = upTo[k - 1]
          /\ \A p \in 1 .. k - 1 : upTo[p] = upTo[p - 1] + shares[p]
      BY <1>1 DEF AddedSoFar
    <3>2. upTo'[k] = total' /\ \A p \in FromZero \ {k} : upTo'[p] = upTo[p]
      BY <1>1, <2>1, <2>2, <2>3, <3>1 DEF SettlementTypeOK
    <3>3. \A p \in 1 .. k : upTo'[p] = upTo'[p - 1] + shares[p]
      <4> TAKE p \in 1 .. k
      <4>1. p \in FromZero /\ p - 1 \in FromZero \ {k}
        BY <1>1 DEF FromZero
      <4>2. CASE p = k
        BY <1>1, <2>1, <3>1, <3>2, <4>1, <4>2
      <4>3. CASE p # k
        BY <1>1, <3>1, <3>2, <4>1, <4>3
      <4> QED BY <4>2, <4>3
    <3>4. own' = own /\ result' = result /\ shares' = shares
      BY DEF Add
    <3> QED BY <1>1, <2>2, <3>1, <3>2, <3>3, <3>4 DEF AddedSoFar, Nobodys, People
  <2> QED BY <1>1, <2>2, <2>4, <2>5 DEF SplitSoFar, Sharing, FloorSoFar, HandSoFar, NothingLeft, SharedFairly
<1> QED BY <1>2, <1>3

\* The comparison of exact shares with the amount.
LEMMA Comparing ==
  ASSUME SettlementInv, Exact
  PROVE SettlementInv'
<1>1. sum' \in {"exact_done", "refused"} /\ result' \in {result, shares}
  BY DEF Exact
<1>2. SettlementTypeOK' /\ Fresh'
  <2>1. result' \in [People -> Nat]
    BY DEF SettlementInv, SettlementTypeOK, Exact, Amounts
  <2> QED BY <1>1, <2>1 DEF SettlementInv, SettlementTypeOK, Fresh, Steps, Exact
<1> QED BY <1>1, <1>2
        DEF SplitSoFar, AddedSoFar, Sharing, FloorSoFar, HandSoFar, NothingLeft, SharedFairly, SettlementInv

\* One suggested transfer.
LEMMA Matching ==
  ASSUME SettlementInv, Match
  PROVE SettlementInv'
<1>1. sum' \in {"match", "settled"} /\ sum = "match"
  BY DEF Match
<1>2. balance' \in [People -> Int] /\ transfers' \in Seq([from : People, to : People, amount : Int])
  <2>1. SettlementTypeOK
    BY DEF SettlementInv
  <2>2. CASE Debtors = {} \/ Creditors = {}
    BY <2>1, <2>2 DEF Match, SettlementTypeOK
  <2>3. CASE ~(Debtors = {} \/ Creditors = {})
    <3> DEFINE from == Min(Debtors)
               to == Min(Creditors)
               a == Least(Magnitude(balance[from]), balance[to])
    <3>1. from \in People /\ to \in People
      <4>1. People \subseteq Nat
        BY DEF People
      <4>2. Debtors \in SUBSET Nat /\ Creditors \in SUBSET Nat
        BY <4>1 DEF Debtors, Creditors
      <4>3. from \in Debtors /\ to \in Creditors
        BY <2>3, <4>2, First
      <4> QED BY <4>3 DEF Debtors, Creditors
    <3>2. /\ balance' = [balance EXCEPT ![from] = @ + a, ![to] = @ - a]
          /\ transfers' = Append(transfers, [from |-> from, to |-> to, amount |-> a])
      BY <2>3 DEF Match
    <3> HIDE DEF from, to
    <3>3. balance \in [People -> Int] /\ balance[from] \in Int /\ balance[to] \in Int
      BY <2>1, <3>1 DEF SettlementTypeOK
    <3>4. a \in Int
      BY <3>3 DEF Least, Magnitude
    <3> HIDE DEF a
    <3>5. balance' \in [People -> Int]
      BY <3>1, <3>2, <3>3, <3>4
    <3>6. [from |-> from, to |-> to, amount |-> a] \in [from : People, to : People, amount : Int]
      BY <3>1, <3>4
    <3>7. transfers' \in Seq([from : People, to : People, amount : Int])
      BY <2>1, <3>2, <3>6 DEF SettlementTypeOK
    <3> QED BY <3>5, <3>7 DEF SettlementTypeOK
  <2> QED BY <2>2, <2>3
<1>3. SettlementTypeOK' /\ Fresh'
  BY <1>1, <1>2 DEF SettlementInv, SettlementTypeOK, Fresh, Steps, Match
<1> QED BY <1>1, <1>3
        DEF SplitSoFar, AddedSoFar, Sharing, FloorSoFar, HandSoFar, NothingLeft, SharedFairly, SettlementInv

\* The payer's own share of an allocation.
LEMMA Owning ==
  ASSUME SettlementInv, Own
  PROVE SettlementInv'
<1> DEFINE o == Least(amount, shares[payer])
<1>1. /\ SettlementTypeOK /\ Fresh /\ sum = "own" /\ Size \in Nat \ {0} /\ MaxMinor \in Nat
      /\ payer \in People /\ payer \in 1 .. Size /\ amount \in Nat /\ asked \in Nat
      /\ shares \in [People -> Amounts] /\ shares[payer] \in 0 .. MaxMinor /\ total \in 0 .. MaxMinor
      /\ upTo \in [FromZero -> Nat]
  BY SettlementAssumption DEF SettlementInv, Own, SettlementTypeOK, People, Amounts
<1>2. /\ own = 0 /\ result = Nobodys /\ k = 1 /\ total = upTo[Size]
      /\ \A p \in People : upTo[p] = upTo[p - 1] + shares[p]
  BY <1>1 DEF SettlementInv, AddedSoFar, People
<1>3. CASE amount > total
  <2>1. sum' = "refused" /\ UNCHANGED <<own, shares, amount, total, left, result>>
    BY <1>3 DEF Own
  <2>2. SettlementTypeOK' /\ Fresh'
    BY <1>1, <2>1 DEF Own, SettlementTypeOK, Fresh, Steps
  <2> QED BY <2>1, <2>2
          DEF SettlementInv, SplitSoFar, AddedSoFar, Sharing, FloorSoFar, HandSoFar, NothingLeft, SharedFairly
<1>4. CASE ~(amount > total)
  <2>1. /\ own' = o /\ result' = [result EXCEPT ![payer] = o]
        /\ shares' = [shares EXCEPT ![payer] = @ - o]
        /\ amount' = amount - o /\ total' = total - o /\ left' = amount - o
        /\ sum' = IF amount > o THEN "floor" ELSE "allocated"
        /\ UNCHANGED <<asked, payer, k, balance, transfers, upTo, rest>>
    BY <1>4 DEF Own
  <2>2. o \in 0 .. amount /\ o \in 0 .. shares[payer] /\ (amount > o => o = shares[payer])
    BY <1>1 DEF Least
  <2> HIDE DEF o
  <2>3. /\ result' \in [People -> Nat] /\ shares' \in [People -> Amounts]
        /\ amount' \in Nat /\ total' \in Amounts /\ own' \in Nat /\ left' \in Int
    <3>1. shares[payer] - o \in Amounts /\ o \in Nat /\ total - o \in Amounts
      BY <1>1, <1>4, <2>2 DEF Amounts
    <3>2. result \in [People -> Nat]
      BY <1>2 DEF Nobodys
    <3> QED BY <1>1, <2>1, <2>2, <3>1, <3>2
  <2>4. SettlementTypeOK' /\ Fresh'
    BY <1>1, <2>1, <2>3 DEF SettlementTypeOK, Fresh, Steps
  <2>5. \A p \in People : result'[p] = OwnOf(p)'
    BY <1>1, <1>2, <2>1 DEF OwnOf, Nobodys
  <2>6. CASE amount > o
    <3>1. sum' = "floor" /\ o = shares[payer] /\ k' = 1
      BY <1>2, <2>1, <2>2, <2>6
    <3>2. Sharing'
      <4>1. amount' \in 1 .. total'
        BY <1>1, <1>4, <2>1, <2>2, <2>6
      <4>2. total' = Before(Size)'
        BY <1>1, <1>2, <2>1 DEF Before
      <4>3. ASSUME NEW p \in People PROVE Before(p)' = Before(p - 1)' + shares'[p]
        <5>1. p \in 1 .. Size /\ shares[p] \in Int /\ upTo[p] = upTo[p - 1] + shares[p]
          BY <1>1, <1>2 DEF People, Amounts
        <5>2. upTo[p - 1] \in Int /\ upTo[p] \in Int
          <6>1. p - 1 \in FromZero /\ p \in FromZero
            BY <1>1, <5>1 DEF FromZero
          <6> QED BY <1>1, <6>1
        <5>3. shares'[p] = IF p = payer THEN shares[p] - o ELSE shares[p]
          BY <1>1, <2>1
        <5> QED BY <1>1, <2>1, <2>2, <5>1, <5>2, <5>3 DEF Before
      <4> QED BY <4>1, <4>2, <4>3 DEF Sharing
    <3>3. FloorSoFar'
      <4>1. rest'[0] = 0 /\ upTo'[0] = 0
        BY <2>4 DEF Fresh
      <4>2. Before(0)' = 0
        BY <1>1, <2>1, <4>1 DEF Before
      <4>3. (total * (amount - left) + rest[k - 1] = amount * Before(k - 1))'
        <5>1. k' - 1 = 0 /\ amount' - left' = 0
          BY <1>1, <2>1, <2>2, <3>1
        <5>2. amount' * 0 = 0 /\ total' * 0 = 0
          BY <1>1, <2>1, <2>2
        <5>3. rest'[k' - 1] = 0 /\ Before(k - 1)' = 0
          BY <1>1, <2>1, <4>1, <5>1 DEF Before
        <5> QED BY <5>1, <5>2, <5>3
      <4>4. (\A p \in k .. Size : result[p] = OwnOf(p))'
        BY <2>5, <3>1 DEF People
      <4>5. (\A p \in 1 .. k - 1 : Divided(p, result[p] - OwnOf(p)))'
        BY <3>1
      <4> QED BY <4>3, <4>4, <4>5 DEF FloorSoFar
    <3> QED BY <2>4, <3>1, <3>2, <3>3
            DEF SettlementInv, SplitSoFar, AddedSoFar, HandSoFar, NothingLeft, SharedFairly
  <2>7. CASE ~(amount > o)
    <3>1. sum' = "allocated" /\ left' = 0 /\ amount' = 0
      BY <1>1, <2>1, <2>2, <2>7
    <3>2. \A p \in People : result'[p] <= shares'[p] + OwnOf(p)'
      <4> TAKE p \in People
      <4>1. result'[p] = OwnOf(p)' /\ result'[p] \in Nat /\ shares'[p] \in Nat
        BY <2>3, <2>5 DEF Amounts
      <4> QED BY <4>1
    <3> QED BY <2>4, <3>1, <3>2
            DEF SettlementInv, SplitSoFar, AddedSoFar, Sharing, FloorSoFar, HandSoFar, NothingLeft, SharedFairly
  <2> QED BY <2>6, <2>7
<1> QED BY <1>3, <1>4

\* One person's proportional part, rounded down.
LEMMA Flooring ==
  ASSUME SettlementInv, Floor
  PROVE SettlementInv'
<1> DEFINE part == (amount * shares[k]) \div total
           over == (amount * shares[k]) % total
<1>1. /\ SettlementTypeOK /\ Fresh /\ sum = "floor" /\ Size \in Nat \ {0}
      /\ k \in People /\ k \in 1 .. Size /\ amount \in Nat /\ total \in Nat \ {0} /\ amount <= total
      /\ own \in Nat /\ left \in Int /\ shares[k] \in Nat /\ result \in [People -> Nat]
      /\ rest \in [FromZero -> Nat] /\ upTo \in [FromZero -> Nat]
  <2>1. SettlementTypeOK /\ Fresh /\ sum = "floor" /\ amount \in 1 .. total
    BY DEF SettlementInv, Sharing, Floor
  <2>2. /\ k \in People /\ amount \in Nat /\ own \in Nat /\ left \in Int /\ shares[k] \in Amounts
        /\ total \in Amounts /\ result \in [People -> Nat]
        /\ rest \in [FromZero -> Nat] /\ upTo \in [FromZero -> Nat]
    BY <2>1 DEF SettlementTypeOK
  <2>3. Size \in Nat \ {0} /\ k \in 1 .. Size /\ shares[k] \in Nat
    BY <2>2, SettlementAssumption DEF People, Amounts
  <2>4. total \in Nat \ {0} /\ amount <= total
    BY <2>1, <2>2, SettlementAssumption DEF Amounts
  <2> QED BY <2>1, <2>2, <2>3, <2>4
<1>2. total = Before(Size) /\ \A p \in People : Before(p) = Before(p - 1) + shares[p]
  BY <1>1 DEF SettlementInv, Sharing
<1>3. /\ total * (amount - left) + rest[k - 1] = amount * Before(k - 1)
      /\ \A p \in 1 .. k - 1 : Divided(p, result[p] - OwnOf(p))
      /\ \A p \in k .. Size : result[p] = OwnOf(p)
  BY <1>1 DEF SettlementInv, FloorSoFar
<1>4. /\ result' = [result EXCEPT ![k] = @ + part] /\ left' = left - part
      /\ rest' = [rest EXCEPT ![k] = rest[k - 1] + over]
      /\ \/ k = Size /\ sum' = "hand" /\ k' = 1
         \/ k < Size /\ sum' = "floor" /\ k' = k + 1
      /\ UNCHANGED <<asked, amount, payer, own, shares, total, balance, transfers, upTo>>
  BY <1>1 DEF Floor, Advance
<1>5. part \in 0 .. shares[k] /\ over \in 0 .. total - 1 /\ total * part + over = amount * shares[k]
  BY <1>1, Parts
<1> HIDE DEF part, over
<1>6. /\ k - 1 \in FromZero /\ k \in FromZero /\ 0 \in FromZero /\ k # 0 /\ Size \in FromZero
      /\ rest[k - 1] \in Nat /\ k' \in People
      /\ \A p \in 1 .. k - 1 : p \in People /\ p \in FromZero /\ p - 1 \in FromZero /\ p # k /\ p - 1 # k
      /\ \A p \in k + 1 .. Size : p \in People /\ p # k
  <2>1. k - 1 \in FromZero /\ k \in FromZero /\ 0 \in FromZero /\ k # 0 /\ k' \in People
    <3>1. Size \in Nat \ {0} /\ k \in 1 .. Size /\ k' \in 1 .. Size
      BY <1>1, <1>4
    <3> QED BY <3>1 DEF FromZero, People
  <2>2. \A p \in 1 .. k - 1 : p \in People /\ p \in FromZero /\ p - 1 \in FromZero /\ p # k /\ p - 1 # k
    BY <1>1 DEF FromZero, People
  <2>3. Size \in FromZero /\ \A p \in k + 1 .. Size : p \in People /\ p # k
    BY <1>1 DEF FromZero, People
  <2> QED BY <1>1, <2>1, <2>2, <2>3
<1>7. \A p \in Int : OwnOf(p)' = OwnOf(p) /\ OwnOf(p) \in Nat /\ Before(p)' = Before(p)
  BY <1>1, <1>4 DEF OwnOf, Before
<1>8. result'[k] = OwnOf(k) + part /\ \A p \in People \ {k} : result'[p] = result[p]
  <2>1. result[k] = OwnOf(k)
    BY <1>1, <1>3
  <2> QED BY <1>1, <1>4, <2>1
<1>9. rest'[k] = rest[k - 1] + over /\ \A p \in FromZero \ {k} : rest'[p] = rest[p]
  BY <1>1, <1>4, <1>6
<1>10. SettlementTypeOK' /\ Fresh'
  <2>1. result' \in [People -> Nat] /\ rest' \in [FromZero -> Nat] /\ rest'[0] = rest[0]
    BY <1>1, <1>4, <1>5, <1>6
  <2>2. left' \in Int
    BY <1>1, <1>4, <1>5
  <2> QED BY <1>1, <1>4, <1>6, <2>1, <2>2 DEF SettlementTypeOK, Fresh, Steps
<1>11. \A p \in 1 .. k : Divided(p, result[p] - OwnOf(p))'
  <2> TAKE p \in 1 .. k
  <2>1. CASE p = k
    <3>1. result'[p] - OwnOf(p)' = part
      BY <1>1, <1>5, <1>7, <1>8, <2>1
    <3>2. rest'[p] - rest'[p - 1] = over
      BY <1>1, <1>5, <1>6, <1>9, <2>1
    <3> QED BY <1>4, <1>5, <2>1, <3>1, <3>2 DEF Divided
  <2>2. CASE p # k
    <3>1. p \in 1 .. k - 1
      BY <1>1, <2>2
    <3>2. /\ result'[p] = result[p] /\ OwnOf(p)' = OwnOf(p)
          /\ rest'[p] = rest[p] /\ rest'[p - 1] = rest[p - 1]
      BY <1>6, <1>7, <1>8, <1>9, <3>1
    <3>3. Divided(p, result[p] - OwnOf(p))
      BY <1>3, <3>1
    <3> QED BY <1>4, <3>2, <3>3 DEF Divided
  <2> QED BY <2>1, <2>2
<1>12. total * (amount - left') + rest'[k] = amount * Before(k)
  <2>1. Before(k) = Before(k - 1) + shares[k] /\ Before(k - 1) \in Int
    <3>1. upTo[k - 1] \in Int /\ own \in Int
      BY <1>1, <1>6
    <3> QED BY <1>1, <1>2, <3>1 DEF Before
  <2>2. amount * Before(k) = amount * Before(k - 1) + amount * shares[k]
    BY <1>1, <2>1, Distribute
  <2>3. amount - left' = (amount - left) + part
    BY <1>1, <1>4, <1>5
  <2>4. total * (amount - left') = total * (amount - left) + total * part
    BY <1>1, <1>5, <2>3, Distribute
  <2>5. /\ total * (amount - left) \in Int /\ total * part \in Int
        /\ amount * Before(k - 1) \in Int /\ amount * shares[k] \in Int
    BY <1>1, <1>5, <2>1
  <2> QED BY <1>3, <1>5, <1>6, <1>9, <2>2, <2>4, <2>5
<1>13. Sharing'
  <2>1. \A p \in People : p \in Int /\ p - 1 \in Int
    BY DEF People
  <2>2. (\A p \in People : Before(p) = Before(p - 1) + shares[p])'
    BY <1>2, <1>4, <1>7, <2>1
  <2>3. (amount \in 1 .. total /\ total = Before(Size))'
    <3>1. amount \in 1 .. total
      BY <1>1 DEF SettlementInv, Sharing
    <3> QED BY <1>1, <1>2, <1>4, <1>7, <3>1
  <2> QED BY <2>2, <2>3 DEF Sharing
<1>14. CASE k < Size
  <2>1. sum' = "floor" /\ k' = k + 1 /\ k' - 1 = k
    BY <1>1, <1>4, <1>14
  <2>2. (total * (amount - left) + rest[k - 1] = amount * Before(k - 1))'
    <3>1. Before(k - 1)' = Before(k)
      BY <1>1, <1>4, <2>1 DEF Before
    <3> QED BY <1>4, <1>12, <2>1, <3>1
  <2>3. (\A p \in 1 .. k - 1 : Divided(p, result[p] - OwnOf(p)))'
    BY <1>11, <2>1
  <2>4. (\A p \in k .. Size : result[p] = OwnOf(p))'
    <3>1. \A p \in k + 1 .. Size : p \in k .. Size /\ p \in People \ {k} /\ p \in Int
      BY <1>1, <1>6
    <3> QED BY <1>3, <1>7, <1>8, <2>1, <3>1
  <2>5. FloorSoFar'
    BY <2>2, <2>3, <2>4 DEF FloorSoFar
  <2> QED BY <1>10, <1>13, <2>1, <2>5
          DEF SettlementInv, SplitSoFar, AddedSoFar, HandSoFar, NothingLeft, SharedFairly
<1>15. CASE k = Size
  <2>1. sum' = "hand" /\ k' = 1 /\ k' - 1 = 0
    BY <1>1, <1>4, <1>15
  <2>2. rest'[0] = 0 /\ rest'[Size] \in Nat
    BY <1>6, <1>10 DEF SettlementTypeOK, Fresh
  <2>3. total * left' = rest'[Size]
    <3>1. total * (amount - left') = total * amount - total * left' /\ total * left' \in Int
      BY <1>1, <1>4, <1>5, Distribute
    <3>2. amount * Before(k) = total * amount /\ total * amount \in Int
      BY <1>1, <1>2, <1>15
    <3> QED BY <1>12, <1>15, <2>2, <3>1, <3>2
  <2>4. left' \in Int /\ left' >= 0
    <3>1. left' \in Int
      BY <1>1, <1>4, <1>5
    <3>2. 0 <= total * left'
      BY <1>1, <2>2, <2>3
    <3>3. total \in Nat \ {0}
      BY <1>1
    <3>4. 0 <= left'
      BY ONLY <3>1, <3>2, <3>3, Sign
    <3> QED BY <3>1, <3>4
  <2>5. HandSoFar'
    <3>1. (\A p \in k .. Size : Divided(p, result[p] - OwnOf(p)))'
      BY <1>11, <1>15, <2>1
    <3>2. (total * left <= rest[Size] - rest[k - 1])'
      BY <1>4, <2>1, <2>2, <2>3
    <3>3. (\A p \in 1 .. k - 1 : Fair(p))'
      BY <2>1
    <3> QED BY <2>4, <3>1, <3>2, <3>3 DEF HandSoFar
  <2> QED BY <1>10, <1>13, <2>1, <2>5
          DEF SettlementInv, SplitSoFar, AddedSoFar, FloorSoFar, NothingLeft, SharedFairly
<1> QED BY <1>1, <1>14, <1>15

\* One of the units that are left.
LEMMA Handing ==
  ASSUME SettlementInv, Hand
  PROVE SettlementInv'
<1> DEFINE part == result[k] - OwnOf(k)
           over == rest[k] - rest[k - 1]
<1>1. /\ SettlementTypeOK /\ Fresh /\ sum = "hand" /\ k \in People /\ amount \in 1 .. total
      /\ own \in Nat /\ left \in Nat /\ shares[k] \in Amounts /\ total \in Amounts
      /\ result \in [People -> Nat] /\ rest \in [FromZero -> Nat]
  <2>1. SettlementTypeOK /\ Fresh /\ Sharing /\ HandSoFar /\ sum = "hand"
    BY DEF SettlementInv, Hand
  <2>2. /\ k \in People /\ own \in Nat /\ total \in Amounts /\ left \in Int
        /\ shares \in [People -> Amounts]
        /\ result \in [People -> Nat] /\ rest \in [FromZero -> Nat]
    BY <2>1 DEF SettlementTypeOK
  <2>3. amount \in 1 .. total /\ left >= 0
    BY <2>1 DEF Sharing, HandSoFar
  <2> QED BY <2>1, <2>2, <2>3
<1>2. /\ Size \in Nat \ {0} /\ k \in 1 .. Size /\ k - 1 \in FromZero /\ k \in FromZero
      /\ shares[k] \in Nat /\ amount \in Nat /\ total \in Nat \ {0} /\ amount <= total
  <2>1. Size \in Nat \ {0} /\ k \in 1 .. Size
    BY <1>1, SettlementAssumption DEF People
  <2>2. k - 1 \in FromZero /\ k \in FromZero
    BY <2>1 DEF FromZero
  <2>3. shares[k] \in Nat /\ amount \in Nat /\ total \in Nat \ {0} /\ amount <= total
    BY <1>1, SettlementAssumption DEF Amounts
  <2> QED BY <2>1, <2>2, <2>3
<1>3. /\ left = 0 \/ total * left <= rest[Size] - rest[k - 1]
      /\ \A p \in 1 .. k - 1 : Fair(p)
      /\ \A p \in k .. Size : Divided(p, result[p] - OwnOf(p))
  BY <1>1 DEF SettlementInv, HandSoFar
<1>4. /\ \/ left > 0 /\ Room(k) /\ result' = [result EXCEPT ![k] = @ + 1] /\ left' = left - 1
         \/ ~(left > 0 /\ Room(k)) /\ result' = result /\ left' = left
      /\ \/ k = Size /\ sum' = "allocated" /\ k' = 1
         \/ k < Size /\ sum' = "hand" /\ k' = k + 1
      /\ UNCHANGED <<asked, amount, payer, own, shares, total, balance, transfers, upTo, rest>>
  BY <1>1, <1>2 DEF Hand, Advance
<1>5. part \in 0 .. shares[k] /\ over \in 0 .. total - 1 /\ total * part + over = amount * shares[k]
  <2>1. Divided(k, result[k] - OwnOf(k))
    BY <1>2, <1>3
  <2> QED BY <2>1 DEF Divided
<1>6. OwnOf(k) \in Nat /\ result[k] = part + OwnOf(k) /\ rest[k] = rest[k - 1] + over
      /\ rest[k] \in Nat /\ rest[k - 1] \in Nat /\ rest[Size] \in Nat
  <2>1. OwnOf(k) \in Nat /\ result[k] \in Nat
    BY <1>1 DEF OwnOf
  <2>2. Size \in FromZero
    BY <1>2 DEF FromZero
  <2> QED BY <1>1, <1>2, <2>1, <2>2
<1> HIDE DEF part, over
<1>7. \A p \in Int : OwnOf(p)' = OwnOf(p) /\ OwnOf(p) \in Nat /\ Before(p)' = Before(p)
  BY <1>1, <1>4 DEF OwnOf, Before
<1>8. \A p \in People \ {k} : result'[p] = result[p]
  BY <1>1, <1>4
<1>9. SettlementTypeOK' /\ Fresh'
  <2>1. result' \in [People -> Nat] /\ left' \in Int
    BY <1>1, <1>4
  <2>2. k' \in People
    <3>1. k' \in 1 .. Size
      BY <1>2, <1>4
    <3> QED BY <3>1 DEF People
  <2> QED BY <1>1, <1>4, <2>1, <2>2 DEF SettlementTypeOK, Fresh, Steps
<1>10. Sharing'
  <2>1. Sharing
    BY DEF SettlementInv
  <2>2. \A p \in People : p \in Int /\ p - 1 \in Int
    BY DEF People
  <2>3. (\A p \in People : Before(p) = Before(p - 1) + shares[p])'
    BY <1>1, <1>4, <1>7, <2>1, <2>2 DEF Sharing
  <2>4. (amount \in 1 .. total /\ total = Before(Size))'
    BY <1>1, <1>2, <1>4, <1>7, <2>1 DEF Sharing
  <2> QED BY <2>3, <2>4 DEF Sharing
<1>12. ASSUME NEW p \in 1 .. k PROVE Fair(p)'
  <2>1. CASE p = k
    <3>1. result'[k] <= shares[k] + OwnOf(k) /\ result'[k] - OwnOf(k) \in {part, part + 1}
          /\ (result'[k] - OwnOf(k) = part + 1 => result[k] < shares[k] + OwnOf(k))
      BY <1>1, <1>2, <1>4, <1>5, <1>6 DEF Room
    <3>2. total * (part + 1) = total * part + total /\ total * part \in Int
      BY <1>2, <1>5, Distribute
    <3>3. total * (result'[k] - OwnOf(k)) - amount * shares[k] \in 1 - total .. total
      <4>1. CASE result'[k] - OwnOf(k) = part
        BY <1>2, <1>5, <3>2, <4>1
      <4>2. CASE result'[k] - OwnOf(k) = part + 1
        BY <1>2, <1>5, <3>2, <4>2
      <4> QED BY <3>1, <4>1, <4>2
    <3>4. OwnOf(p)' = OwnOf(k) /\ result'[p] = result'[k] /\ shares'[p] = shares[k]
          /\ total' = total /\ amount' = amount
      BY <1>2, <1>4, <1>7, <2>1
    <3> QED BY <3>1, <3>3, <3>4 DEF Fair
  <2>2. CASE p # k
    <3>1. p \in 1 .. k - 1 /\ p \in People \ {k} /\ p \in Int
      BY <1>2, <2>2 DEF People
    <3>2. Fair(p) /\ result'[p] = result[p] /\ OwnOf(p)' = OwnOf(p)
      BY <1>3, <1>7, <1>8, <3>1
    <3> QED BY <1>4, <3>2 DEF Fair
  <2> QED BY <2>1, <2>2
<1>13. left' \in Nat /\ (left' = 0 \/ total * left' <= rest[Size] - rest[k])
  <2>1. CASE left = 0
    BY <1>4, <2>1
  <2>2. CASE left > 0 /\ Room(k)
    <3>1. left' = left - 1 /\ left' \in Nat
      BY <1>1, <1>4, <2>2
    <3>2. total * left' = total * left - total * 1 /\ total * 1 = total /\ total * left \in Int
      BY <1>1, <1>2, <3>1, Distribute
    <3>3. total * left <= rest[Size] - rest[k - 1]
      BY <1>3, <2>2
    <3> QED BY <1>2, <1>5, <1>6, <3>1, <3>2, <3>3
  <2>3. CASE left > 0 /\ ~Room(k)
    <3>1. part = shares[k] /\ left' = left
      BY <1>2, <1>4, <1>5, <1>6, <2>3 DEF Room
    <3>2. amount * shares[k] <= total * shares[k] /\ total * shares[k] \in Int /\ amount * shares[k] \in Int
      BY <1>2, Monotone
    <3>3. over = 0
      BY <1>5, <3>1, <3>2
    <3>4. rest[k] = rest[k - 1]
      BY <1>6, <3>3
    <3> QED BY <1>1, <1>3, <2>3, <3>1, <3>4
  <2> QED BY <1>1, <2>1, <2>2, <2>3
<1>14. CASE k < Size
  <2>1. sum' = "hand" /\ k' = k + 1 /\ k' - 1 = k
    BY <1>2, <1>4, <1>14
  <2>2. (\A p \in 1 .. k - 1 : Fair(p))'
    BY <1>12, <2>1
  <2>3. (\A p \in k .. Size : Divided(p, result[p] - OwnOf(p)))'
    <3>1. ASSUME NEW p \in k + 1 .. Size PROVE Divided(p, result[p] - OwnOf(p))'
      <4>1. p \in k .. Size /\ p \in People \ {k} /\ p \in Int
        BY <1>2 DEF People
      <4>2. Divided(p, result[p] - OwnOf(p)) /\ result'[p] = result[p] /\ OwnOf(p)' = OwnOf(p)
        BY <1>3, <1>7, <1>8, <4>1
      <4> QED BY <1>4, <4>2 DEF Divided
    <3> QED BY <2>1, <3>1
  <2>4. (left >= 0 /\ (left = 0 \/ total * left <= rest[Size] - rest[k - 1]))'
    BY <1>4, <1>13, <2>1
  <2>5. HandSoFar'
    BY <2>2, <2>3, <2>4 DEF HandSoFar
  <2> QED BY <1>9, <1>10, <2>1, <2>5
          DEF SettlementInv, SplitSoFar, AddedSoFar, FloorSoFar, NothingLeft, SharedFairly
<1>15. CASE k = Size
  <2>1. sum' = "allocated"
    BY <1>2, <1>4, <1>15
  <2>2. left' = 0
    <3>1. total \in Nat \ {0} /\ left' \in Int /\ left' >= 0 /\ rest[Size] - rest[k] = 0
      BY <1>2, <1>6, <1>13, <1>15
    <3>2. CASE left' # 0
      <4>1. total * left' <= 0
        BY <1>13, <3>1, <3>2
      <4>2. left' <= 0
        BY ONLY <3>1, <4>1, Sign
      <4> QED BY <3>1, <4>2
    <3> QED BY <3>2
  <2>3. \A p \in People : Fair(p)'
    BY <1>12, <1>15 DEF People
  <2>4. SharedFairly'
    BY <2>1, <2>3 DEF SharedFairly, Fair
  <2> QED BY <1>9, <2>1, <2>2, <2>4
          DEF SettlementInv, SplitSoFar, AddedSoFar, Sharing, FloorSoFar, HandSoFar, NothingLeft
<1> QED BY <1>2, <1>14, <1>15

-----------------------------------------------------------------------------
(***************************************************************************)
(* The theorems.                                                           *)
(***************************************************************************)

\* The steps of a calculation keep what follows them: the units that nobody was
\* given yet are what the remainders of the divisions add up to, the room of the
\* people still to come.
THEOREM Calculates == SettlementSpec => []SettlementInv
<1>1. SettlementInv /\ [SettlementNext]_sumVars => SettlementInv'
  <2> SUFFICES ASSUME SettlementInv, [SettlementNext]_sumVars PROVE SettlementInv'
    OBVIOUS
  <2>1. CASE AskEqual \/ AskExact \/ AskAllocate \/ AskSuggest \/ Answer
    BY <2>1, Asking
  <2>2. CASE Split
    BY <2>2, Splitting
  <2>3. CASE Add("add_exact", "exact") \/ Add("add_left", "own")
    BY <2>3, Adding
  <2>4. CASE Exact
    BY <2>4, Comparing
  <2>5. CASE Own
    BY <2>5, Owning
  <2>6. CASE Floor
    BY <2>6, Flooring
  <2>7. CASE Hand
    BY <2>7, Handing
  <2>8. CASE Match
    BY <2>8, Matching
  <2>9. CASE UNCHANGED sumVars
    BY <2>9 DEF sumVars, SettlementInv, SettlementTypeOK, Fresh, SplitSoFar, AddedSoFar, Sharing,
                Before, FloorSoFar, Divided, OwnOf, HandSoFar, Fair, NothingLeft, SharedFairly
  <2> QED BY <2>1, <2>2, <2>3, <2>4, <2>5, <2>6, <2>7, <2>8, <2>9 DEF SettlementNext
<1> QED BY <1>1, Initially, PTL DEF SettlementSpec

\* Nothing of a cost or a payment is left over.
THEOREM LeavesNothing == SettlementSpec => []NothingLeft
<1>1. SettlementInv => NothingLeft
  BY DEF SettlementInv
<1> QED BY <1>1, Calculates, PTL

\* Everybody's part of a cost or a payment is theirs to within a unit.
THEOREM FairParts == SettlementSpec => []SharedFairly
<1>1. SettlementInv => SharedFairly
  BY DEF SettlementInv
<1> QED BY <1>1, Calculates, PTL

-----------------------------------------------------------------------------
(***************************************************************************)
(* What is given adds up.                                                  *)
(***************************************************************************)
\* What was given so far and what is left are the amount asked for; the exact
\* shares so far are the total so far.
GivenSoFar ==
  /\ sum = "add_exact" => total = SumFunctionOnSet(shares, 1 .. k - 1)
  /\ sum = "exact" => total = SumFunction(shares)
  /\ sum \in {"add_left", "own"} => amount = asked
  /\ sum = "split" => \A p \in k .. Size : result[p] = 0
  /\ sum \in {"split", "split_done", "floor", "hand", "allocated"} => SumFunction(result) + left = asked
  /\ sum = "exact_done" => SumFunction(result) = asked

LEMMA ZeroAdds == \A x \in Int : 0 + x = x
OBVIOUS

LEMMA PeopleFinite == IsFiniteSet(People) /\ Cardinality(People) = Size
BY SettlementAssumption, FS_Interval DEF People

LEMMA SumOfPeople ==
  ASSUME NEW f, NEW S, f \in [People -> S]
  PROVE  SumFunction(f) = SumFunctionOnSet(f, People)
BY DEF SumFunction

\* One person's part changes.
LEMMA GiveOne ==
  ASSUME NEW f \in [People -> Int], NEW p \in People, NEW x \in Int
  PROVE  /\ SumFunction([f EXCEPT ![p] = x]) = SumFunction(f) - f[p] + x
         /\ SumFunction(f) \in Int
<1>. DEFINE g == [f EXCEPT ![p] = x]
<1>1. g \in [People -> Int] /\ g[p] = x /\ \A q \in People \ {p} : f[q] = g[q]
  OBVIOUS
<1>2. \A q \in People : f[q] \in Int /\ g[q] \in Int
  OBVIOUS
<1>. HIDE DEF g
<1>3. SumFunctionOnSet(g, People)
      = SumFunctionOnSet(f, People) - (IF p \in People THEN f[p] ELSE 0) + (IF p \in People THEN g[p] ELSE 0)
  BY <1>1, <1>2, PeopleFinite, SumMoved
<1>4. SumFunctionOnSet(f, People) \in Int
  BY <1>2, PeopleFinite, SumInt
<1>5. SumFunction(f) = SumFunctionOnSet(f, People) /\ SumFunction(g) = SumFunctionOnSet(g, People)
  BY <1>1, SumOfPeople
<1>. QED BY <1>1, <1>3, <1>4, <1>5 DEF g

LEMMA NobodysSum == SumFunction(Nobodys) = 0
<1>1. Nobodys \in [People -> {0}] /\ \A p \in People : Nobodys[p] = 0
  BY DEF Nobodys
<1>2. SumFunctionOnSet(Nobodys, People) = 0
  BY <1>1, PeopleFinite, SumZero
<1>. QED BY <1>1, <1>2, SumOfPeople

\* The loop's person is given more, and as much less is left.
LEMMA GivesOn ==
  ASSUME SettlementTypeOK, NEW x \in Int, SumFunction(result) + left = asked,
         result' = [result EXCEPT ![k] = @ + x], left' = left - x, asked' = asked
  PROVE  SumFunction(result') + left' = asked'
<1>1. result \in [People -> Int] /\ k \in People /\ result[k] \in Int /\ left \in Int
  BY DEF SettlementTypeOK
<1>2. PICK y \in Int : y = result[k] + x
  BY <1>1
<1>3. result' = [result EXCEPT ![k] = y]
  BY <1>2
<1>4. /\ SumFunction([result EXCEPT ![k] = y]) = SumFunction(result) - result[k] + y
      /\ SumFunction(result) \in Int
  BY ONLY <1>1, <1>2, GiveOne
<1>. QED BY <1>1, <1>2, <1>3, <1>4

\* The exact shares so far, with one more of them.
LEMMA AddsOn ==
  ASSUME SettlementInv, GivenSoFar, Add("add_exact", "exact")
  PROVE  GivenSoFar'
<1>1. sum = "add_exact" /\ shares' = shares /\ total = SumFunctionOnSet(shares, 1 .. k - 1)
  BY DEF Add, GivenSoFar
<1>2. /\ k \in 1 .. Size /\ Size \in Nat /\ shares \in [1 .. Size -> Amounts] /\ total \in Amounts
      /\ shares[k] \in Amounts
  BY SettlementAssumption DEF SettlementInv, SettlementTypeOK, People
<1>3. CASE Overflows(total, shares[k])
  BY <1>1, <1>3 DEF Add, GivenSoFar
<1>4. CASE ~Overflows(total, shares[k])
  <2>1. total' = total + shares[k]
    <3>1. total \in Int64 /\ shares[k] \in Int64
      BY <1>2, SettlementAssumption DEF Amounts, Int64, MinMinor
    <3>2. total' = Plus(total, shares[k])
      BY <1>4 DEF Add
    <3>. QED BY <1>4, <3>1, <3>2, AdditionExact
  <2>2. SumFunctionOnSet(shares, 1 .. k) = shares[k] + SumFunctionOnSet(shares, 1 .. k - 1)
    <3>1. 1 .. k = (1 .. k - 1) \union {k} /\ k \notin 1 .. k - 1
      BY <1>2
    <3>2. IsFiniteSet(1 .. k - 1)
      BY <1>2, FS_Interval
    <3>3. \A p \in (1 .. k - 1) \union {k} : shares[p] \in Int
      BY <1>2 DEF Amounts
    <3>. QED BY <3>1, <3>2, <3>3, SumAdd
  <2>3. total' = SumFunctionOnSet(shares, 1 .. k)
    BY <1>1, <1>2, <2>1, <2>2 DEF Amounts
  <2>4. CASE k = Size
    <3>1. sum' = "exact"
      BY <1>4, <2>4 DEF Add, Advance
    <3>2. SumFunction(shares) = SumFunctionOnSet(shares, 1 .. k)
      BY <1>2, <2>4 DEF SumFunction
    <3>. QED BY <1>1, <2>3, <3>1, <3>2 DEF GivenSoFar
  <2>5. CASE k # Size
    <3>1. sum' = "add_exact" /\ k' = k + 1
      BY <1>1, <1>4, <2>5 DEF Add, Advance
    <3>2. k' - 1 = k
      BY <1>2, <3>1
    <3>. QED BY <1>1, <2>3, <3>1, <3>2 DEF GivenSoFar
  <2>. QED BY <2>4, <2>5
<1>. QED BY <1>3, <1>4

LEMMA SplitsOn ==
  ASSUME SettlementInv, GivenSoFar, Split
  PROVE  GivenSoFar'
<1>1. sum = "split" /\ k \in People /\ k \in 1 .. Size /\ Size \in Nat \ {0} /\ result \in [People -> Nat]
  BY SettlementAssumption DEF Split, SettlementInv, SettlementTypeOK, People
<1>2. EqualShare \in Int
  BY <1>1, DivMod DEF EqualShare, SettlementInv, SettlementTypeOK
<1>3. result[k] = 0
  BY <1>1 DEF GivenSoFar
<1>4. result' = [result EXCEPT ![k] = @ + EqualShare]
  BY <1>1, <1>2, <1>3 DEF Split
<1>5. SumFunction(result') + left' = asked'
  BY <1>1, <1>2, <1>4, GivesOn DEF Split, GivenSoFar, SettlementInv
<1>6. sum' = "split" => \A p \in k' .. Size : result'[p] = 0
  BY <1>1, <1>4 DEF Split, GivenSoFar, Advance, People
<1>7. sum' \in {"split", "split_done"}
  BY <1>1 DEF Split, Advance
<1>. QED BY <1>5, <1>6, <1>7 DEF GivenSoFar

LEMMA AllocatesOn ==
  ASSUME SettlementInv, GivenSoFar, Own \/ Floor \/ Hand
  PROVE  GivenSoFar'
<1>1. CASE Own
  <2>. DEFINE o == Least(amount, shares[payer])
  <2>1. sum = "own" /\ amount = asked /\ result = Nobodys
    BY <1>1 DEF Own, GivenSoFar, SettlementInv, AddedSoFar
  <2>2. amount \in Nat /\ payer \in People /\ o \in Int
    BY DEF SettlementInv, SettlementTypeOK, Least, Amounts
  <2>3. CASE sum' = "refused"
    BY <2>3 DEF GivenSoFar
  <2>4. CASE sum' # "refused"
    <3>1. /\ result' = [result EXCEPT ![payer] = o] /\ left' = amount - o /\ asked' = asked
          /\ sum' \in {"floor", "allocated"}
      BY <1>1, <2>4 DEF Own
    <3>2. SumFunction(result') = o
      <4>1. Nobodys \in [People -> Int] /\ Nobodys[payer] = 0
        BY <2>2 DEF Nobodys
      <4>2. SumFunction([Nobodys EXCEPT ![payer] = o]) = SumFunction(Nobodys) - Nobodys[payer] + o
        BY <2>2, <4>1, GiveOne
      <4>. QED BY <2>1, <2>2, <3>1, <4>1, <4>2, NobodysSum
    <3>. QED BY <2>1, <2>2, <3>1, <3>2 DEF GivenSoFar
  <2>. QED BY <2>3, <2>4
<1>2. CASE Floor
  <2>. DEFINE part == (amount * shares[k]) \div total
  <2>1. sum = "floor" /\ sum' \in {"floor", "hand"} /\ SumFunction(result) + left = asked
    BY <1>2 DEF Floor, GivenSoFar, Advance
  <2>2. part \in Int
    <3>1. amount \in Nat /\ shares[k] \in Nat /\ total \in Nat \ {0}
      <4>1. amount \in 1 .. total /\ total \in Amounts /\ amount \in Nat /\ shares[k] \in Amounts
        BY <2>1 DEF SettlementInv, SettlementTypeOK, Sharing
      <4>. QED BY <4>1, SettlementAssumption DEF Amounts
    <3>2. amount * shares[k] \in Nat
      BY <3>1, Monotone
    <3>. QED BY <3>1, <3>2, DivMod
  <2>3. result' = [result EXCEPT ![k] = @ + part] /\ left' = left - part /\ asked' = asked
    BY <1>2 DEF Floor
  <2>. HIDE DEF part
  <2>4. SumFunction(result') + left' = asked'
    BY <2>1, <2>2, <2>3, GivesOn DEF SettlementInv
  <2>. QED BY <2>1, <2>4 DEF GivenSoFar
<1>3. CASE Hand
  <2>1. sum = "hand" /\ sum' \in {"hand", "allocated"} /\ SumFunction(result) + left = asked
    BY <1>3 DEF Hand, GivenSoFar, Advance
  <2>2. CASE left > 0 /\ Room(k)
    <3>1. result' = [result EXCEPT ![k] = @ + 1] /\ left' = left - 1 /\ asked' = asked
      BY <1>3, <2>2 DEF Hand
    <3>2. SettlementTypeOK /\ 1 \in Int
      BY DEF SettlementInv
    <3>3. SumFunction(result') + left' = asked'
      BY ONLY <2>1, <3>1, <3>2, GivesOn
    <3>. QED BY <2>1, <3>3 DEF GivenSoFar
  <2>3. CASE ~(left > 0 /\ Room(k))
    BY <1>3, <2>1, <2>3 DEF Hand, GivenSoFar
  <2>. QED BY <2>2, <2>3
<1>. QED BY <1>1, <1>2, <1>3

\* The shares of a cost and the parts of a payment add up to the amount, however
\* many people they are for.
THEOREM NothingLost == SettlementSpec => []AllocatesAll
<1>1. SettlementInit => GivenSoFar
  BY DEF SettlementInit, GivenSoFar
<1>2. SettlementInv /\ SettlementInv' /\ GivenSoFar /\ [SettlementNext]_sumVars => GivenSoFar'
  <2>. SUFFICES ASSUME SettlementInv, SettlementInv', GivenSoFar, [SettlementNext]_sumVars
                PROVE  GivenSoFar'
    OBVIOUS
  <2>1. CASE AskEqual
    <3>1. sum' = "split" /\ left' = asked' /\ result' = Nobodys /\ k' = 1
      BY <2>1 DEF AskEqual, SettlementInv, Fresh
    <3>2. asked' \in Nat
      BY DEF SettlementInv, SettlementTypeOK
    <3>3. SumFunction(result') + left' = asked'
      <4>1. SumFunction(result') = 0
        BY ONLY <3>1, NobodysSum, Zenon
      <4>2. 0 + left' = asked'
        <5>1. left' = asked' /\ left' \in Int
          BY ONLY <3>1, <3>2
        <5>. QED BY ONLY <5>1, ZeroAdds, Zenon
      <4>. QED BY ONLY <4>1, <4>2, Zenon
    <3>4. \A p \in k' .. Size : result'[p] = 0
      BY <3>1, SettlementAssumption DEF Nobodys, People
    <3>. QED BY <3>1, <3>3, <3>4 DEF GivenSoFar
  <2>2. CASE AskExact
    <3>1. sum' = "add_exact" /\ total' = 0 /\ k' = 1
      BY <2>2 DEF AskExact, SettlementInv, Fresh
    <3>2. 1 .. k' - 1 = {}
      BY <3>1
    <3>. QED BY <3>1, <3>2, SumNone DEF GivenSoFar
  <2>3. CASE AskAllocate
    BY <2>3 DEF AskAllocate, GivenSoFar
  <2>4. CASE Add("add_exact", "exact")
    BY <2>4, AddsOn
  <2>5. CASE Add("add_left", "own")
    BY <2>5 DEF Add, Advance, GivenSoFar
  <2>6. CASE Exact
    BY <2>6 DEF Exact, GivenSoFar
  <2>7. CASE Split
    BY <2>7, SplitsOn
  <2>8. CASE Own \/ Floor \/ Hand
    BY <2>8, AllocatesOn
  <2>9. CASE AskSuggest \/ Match \/ Answer
    BY <2>9 DEF AskSuggest, Match, Answer, GivenSoFar
  <2>10. CASE UNCHANGED sumVars
    BY <2>10 DEF sumVars, GivenSoFar
  <2>. QED BY <2>1, <2>2, <2>3, <2>4, <2>5, <2>6, <2>7, <2>8, <2>9, <2>10 DEF SettlementNext
<1>3. SettlementInv /\ GivenSoFar => AllocatesAll
  <2>. SUFFICES ASSUME SettlementInv, GivenSoFar, sum \in {"split_done", "allocated"}
                PROVE  SumFunction(result) = asked
    BY DEF GivenSoFar, AllocatesAll
  <2>1. left = 0 /\ SumFunction(result) + left = asked
    BY DEF SettlementInv, NothingLeft, GivenSoFar
  <2>2. SumFunction(result) \in Int
    <3>1. result \in [People -> Int] /\ k \in People
      BY DEF SettlementInv, SettlementTypeOK
    <3>. QED BY <3>1, GiveOne
  <2>. QED BY <2>1, <2>2
<1>. QED BY <1>1, <1>2, <1>3, Calculates, PTL DEF SettlementSpec

-----------------------------------------------------------------------------
(***************************************************************************)
(* The suggested transfers settle.                                         *)
(***************************************************************************)
Unsettled == {p \in People : balance[p] # 0}

\* The balances add up to zero, and every transfer so far left one person fewer
\* to settle.
SuggestedSoFar ==
  /\ balance \in [People -> Int64]
  /\ \A n \in DOMAIN transfers : transfers[n].amount \in Amounts \ {0}
  /\ sum \in {"match", "settled"} =>
       /\ SumFunction(balance) = 0
       /\ Len(transfers) < Size
       /\ Len(transfers) + Cardinality(Unsettled) <= Size
  /\ sum \notin {"match", "settled"} => transfers = <<>>
  /\ sum = "settled" => balance = Nobodys

\* Balances that add up to zero are zero when nobody owes, or nobody is due.
LEMMA NobodyOwes ==
  ASSUME NEW f \in [People -> Int], SumFunction(f) = 0,
         (\A p \in People : f[p] >= 0) \/ (\A p \in People : f[p] <= 0),
         NEW q \in People
  PROVE  f[q] = 0
<1>. DEFINE Others == People \ {q}
<1>1. IsFiniteSet(Others)
  BY PeopleFinite, FS_Subset
<1>2. \A p \in Others : f[p] \in Int
  OBVIOUS
<1>3. SumFunctionOnSet(f, People) = f[q] + SumFunctionOnSet(f, Others)
  BY PeopleFinite, SumTake
<1>4. SumFunctionOnSet(f, People) = 0 /\ f[q] \in Int
  BY SumOfPeople
<1>. HIDE DEF Others
<1>5. SumFunctionOnSet(f, Others) \in Int
  BY <1>1, <1>2, SumInt
<1>6. CASE \A p \in People : f[p] >= 0
  <2>1. \A p \in Others : f[p] \in Nat
    BY <1>6 DEF Others
  <2>2. SumFunctionOnSet(f, Others) \in Nat
    BY <1>1, <2>1, SumNat
  <2>3. f[q] >= 0
    BY <1>6
  <2>. QED BY <1>3, <1>4, <2>2, <2>3
<1>7. CASE \A p \in People : f[p] <= 0
  <2>1. \A p \in Others : f[p] \in Int /\ Nobodys[p] \in Int /\ f[p] <= Nobodys[p] /\ Nobodys[p] = 0
    BY <1>2, <1>7 DEF Others, Nobodys
  <2>2. SumFunctionOnSet(f, Others) <= SumFunctionOnSet(Nobodys, Others)
    BY <1>1, <2>1, SumAtMost
  <2>3. SumFunctionOnSet(Nobodys, Others) = 0
    BY <1>1, <2>1, SumZero
  <2>4. f[q] <= 0
    BY <1>7
  <2>. QED BY <1>3, <1>4, <1>5, <2>2, <2>3, <2>4
<1>. QED BY <1>6, <1>7

\* What one person gets another gives.
LEMMA PassOn ==
  ASSUME NEW f \in [People -> Int], NEW g \in [People -> Int],
         NEW p \in People, NEW q \in People, p # q,
         g[p] + g[q] = f[p] + f[q], \A o \in People \ {p, q} : g[o] = f[o]
  PROVE  SumFunction(g) = SumFunction(f)
<1>. DEFINE m == [f EXCEPT ![p] = g[p]]
<1>1. g[p] \in Int /\ g[q] \in Int /\ f[p] \in Int /\ f[q] \in Int
  OBVIOUS
<1>2. SumFunction(m) = SumFunction(f) - f[p] + g[p] /\ SumFunction(f) \in Int
  BY <1>1, GiveOne
<1>3. m \in [People -> Int] /\ m[q] = f[q] /\ m[p] = g[p] /\ \A o \in People \ {q} : g[o] = m[o]
  OBVIOUS
<1>. HIDE DEF m
<1>4. SumFunction([m EXCEPT ![q] = g[q]]) = SumFunction(m) - m[q] + g[q] /\ SumFunction(m) \in Int
  BY <1>1, <1>3, GiveOne
<1>5. g = [m EXCEPT ![q] = g[q]]
  BY <1>3
<1>6. SumFunction(g) = SumFunction(m) - m[q] + g[q]
  BY ONLY <1>4, <1>5, Zenon
<1>. QED BY <1>1, <1>2, <1>3, <1>4, <1>6

\* One person fewer in a part of the people.
LEMMA OneFewer ==
  ASSUME NEW S \in SUBSET People, NEW T \in SUBSET S, NEW p \in S, p \notin T
  PROVE  /\ Cardinality(T) \in Nat /\ Cardinality(S) \in Nat /\ IsFiniteSet(S)
         /\ Cardinality(T) + 1 <= Cardinality(S)
<1>1. IsFiniteSet(S) /\ IsFiniteSet(T)
  BY PeopleFinite, FS_Subset
<1>2. Cardinality(S \ {p}) = Cardinality(S) - 1 /\ IsFiniteSet(S \ {p})
  BY <1>1, FS_RemoveElement
<1>3. T \in SUBSET (S \ {p})
  OBVIOUS
<1>4. Cardinality(T) <= Cardinality(S \ {p})
  BY <1>2, <1>3, FS_Subset
<1>. QED BY <1>1, <1>2, <1>4, FS_CardinalityType

LEMMA TwoCount ==
  ASSUME NEW S \in SUBSET People, NEW p \in S, NEW q \in S, p # q
  PROVE  Cardinality(S) \in Nat /\ Cardinality(S) >= 2
<1>1. Cardinality({q}) + 1 <= Cardinality(S) /\ Cardinality(S) \in Nat
  BY OneFewer
<1>2. Cardinality({q}) = 1
  BY FS_Singleton
<1>. QED BY <1>1, <1>2

LEMMA MatchesOn ==
  ASSUME SettlementInv, SuggestedSoFar, Match
  PROVE  SuggestedSoFar'
<1>1. /\ sum = "match" /\ balance \in [People -> Int64] /\ balance \in [People -> Int]
      /\ \A p \in People : balance[p] \in Int64 /\ balance[p] \in Int
      /\ SumFunction(balance) = 0 /\ Len(transfers) < Size
      /\ Len(transfers) + Cardinality(Unsettled) <= Size
      /\ \A n \in DOMAIN transfers : transfers[n].amount \in Amounts \ {0}
      /\ transfers \in Seq([from : People, to : People, amount : Int])
      /\ Size \in Nat /\ MaxMinor \in Nat \ {0}
  BY SettlementAssumption
  DEF Match, SuggestedSoFar, SettlementInv, SettlementTypeOK, Int64, MinMinor
<1>2. CASE Debtors = {} \/ Creditors = {}
  <2>1. sum' = "settled" /\ balance' = balance /\ transfers' = transfers /\ Unsettled' = Unsettled
    BY <1>2 DEF Match, Unsettled
  <2>2. (\A p \in People : balance[p] >= 0) \/ (\A p \in People : balance[p] <= 0)
    BY <1>1, <1>2 DEF Debtors, Creditors
  <2>3. \A q \in People : balance[q] = 0
    BY <1>1, <2>2, NobodyOwes
  <2>4. balance = Nobodys
    BY <1>1, <2>3 DEF Nobodys
  <2>. QED BY <1>1, <2>1, <2>4 DEF SuggestedSoFar
<1>3. CASE Debtors # {} /\ Creditors # {}
  <2>. DEFINE from == Min(Debtors)
              to == Min(Creditors)
              a == Least(Magnitude(balance[from]), balance[to])
  <2>1. /\ transfers' = Append(transfers, [from |-> from, to |-> to, amount |-> a])
        /\ balance' = [balance EXCEPT ![from] = @ + a, ![to] = @ - a]
        /\ sum' = "match"
    BY <1>1, <1>3 DEF Match
  <2>2. from \in Debtors /\ to \in Creditors
    <3>1. Debtors \in SUBSET Nat /\ Creditors \in SUBSET Nat
      BY DEF Debtors, Creditors, People
    <3>. QED BY <1>3, <3>1, First
  <2>. HIDE DEF from, to
  <2>3. /\ from \in People /\ to \in People /\ from # to
        /\ balance[from] \in MinMinor .. -1 /\ balance[to] \in 1 .. MaxMinor
    BY <1>1, <2>2, SettlementAssumption DEF Debtors, Creditors, Int64, MinMinor
  <2>4. /\ a \in Int /\ a \in 1 .. MaxMinor
        /\ balance[from] + a \in MinMinor .. 0 /\ balance[to] - a \in 0 .. MaxMinor
        /\ balance[from] + a = 0 \/ balance[to] - a = 0
    BY <2>3, SettlementAssumption DEF Least, Magnitude, MinMinor
  <2>. HIDE DEF a
  <2>5. balance' \in [People -> Int64]
    <3>1. balance[from] + a \in Int64 /\ balance[to] - a \in Int64
      BY <2>4, SettlementAssumption DEF Int64, MinMinor
    <3>. QED BY <1>1, <2>1, <2>3, <3>1
  <2>6. SumFunction(balance') = 0
    <3>1. PICK b : b = balance'
      OBVIOUS
    <3>2. /\ balance \in [People -> Int] /\ b \in [People -> Int]
          /\ from \in People /\ to \in People /\ from # to
      BY <1>1, <2>3, <2>5, <3>1 DEF Int64
    <3>3. /\ b[from] + b[to] = balance[from] + balance[to]
          /\ \A o \in People \ {from, to} : b[o] = balance[o]
      BY <1>1, <2>1, <2>3, <2>4, <3>1
    <3>4. SumFunction(b) = SumFunction(balance)
      BY ONLY <3>2, <3>3, PassOn
    <3>. QED BY ONLY <1>1, <3>1, <3>4, Zenon
  <2>7. /\ Len(transfers') = Len(transfers) + 1 /\ Len(transfers) \in Nat
        /\ \A n \in DOMAIN transfers' : transfers'[n].amount \in Amounts \ {0}
    <3>. DEFINE new == [from |-> from, to |-> to, amount |-> a]
    <3>1. new \in [from : People, to : People, amount : Int] /\ new.amount \in Amounts \ {0}
      BY <1>1, <2>3, <2>4 DEF Amounts
    <3>2. transfers' = Append(transfers, new)
      BY <2>1
    <3>. HIDE DEF new
    <3>3. /\ Len(transfers') = Len(transfers) + 1 /\ Len(transfers) \in Nat
          /\ DOMAIN transfers' = 1 .. Len(transfers) + 1 /\ DOMAIN transfers = 1 .. Len(transfers)
          /\ transfers'[Len(transfers) + 1] = new
          /\ \A n \in 1 .. Len(transfers) : transfers'[n] = transfers[n]
      BY <1>1, <3>1, <3>2
    <3>4. ASSUME NEW n \in DOMAIN transfers' PROVE transfers'[n].amount \in Amounts \ {0}
      <4>1. n = Len(transfers) + 1 \/ n \in 1 .. Len(transfers)
        BY <3>3
      <4>. QED BY <1>1, <3>1, <3>3, <4>1
    <3>. QED BY <3>3, <3>4
  <2>8. /\ Unsettled \in SUBSET People /\ Unsettled' \in SUBSET Unsettled
        /\ from \in Unsettled /\ to \in Unsettled
        /\ from \notin Unsettled' \/ to \notin Unsettled'
    BY <1>1, <2>1, <2>3, <2>4 DEF Unsettled, MinMinor
  <2>9. Cardinality(Unsettled) \in Nat /\ Cardinality(Unsettled) >= 2
    BY <2>3, <2>8, TwoCount
  <2>10. Cardinality(Unsettled') \in Nat /\ Cardinality(Unsettled') + 1 <= Cardinality(Unsettled)
    BY <2>8, OneFewer
  <2>11. Len(transfers') < Size /\ Len(transfers') + Cardinality(Unsettled') <= Size
    BY <1>1, <2>7, <2>9, <2>10
  <2>. QED BY <2>1, <2>5, <2>6, <2>7, <2>11 DEF SuggestedSoFar
<1>. QED BY <1>2, <1>3

\* The suggested transfers settle every balance, however many people have one,
\* are fewer than the people, and none is beyond what can be recorded.
THEOREM SuggestionsAlwaysSettle == SettlementSpec => []SuggestionsSettle
<1>1. SettlementInit => SuggestedSoFar
  BY SettlementAssumption DEF SettlementInit, SuggestedSoFar, Nobodys, Int64, MinMinor
<1>2. SettlementInv /\ SuggestedSoFar /\ [SettlementNext]_sumVars => SuggestedSoFar'
  <2>. SUFFICES ASSUME SettlementInv, SuggestedSoFar, [SettlementNext]_sumVars
                PROVE  SuggestedSoFar'
    OBVIOUS
  <2>1. CASE AskSuggest
    <3>1. /\ sum = "idle" /\ sum' = "match" /\ transfers' = <<>>
          /\ balance' \in [People -> Int64] /\ SumFunction(balance') = 0
      BY <2>1 DEF AskSuggest, SuggestedSoFar
    <3>2. Unsettled' \in SUBSET People
      BY DEF Unsettled
    <3>3. Cardinality(Unsettled') \in Nat /\ Cardinality(Unsettled') <= Size
      BY <3>2, PeopleFinite, FS_Subset, FS_CardinalityType
    <3>. QED BY <3>1, <3>3, SettlementAssumption DEF SuggestedSoFar
  <2>2. CASE Match
    BY <2>2, MatchesOn
  <2>3. CASE Answer
    BY <2>3, SettlementAssumption DEF Answer, SuggestedSoFar, Nobodys, Int64, MinMinor
  <2>4. CASE \/ AskEqual \/ Split \/ AskExact \/ Exact \/ AskAllocate \/ Own \/ Floor \/ Hand
             \/ Add("add_exact", "exact") \/ Add("add_left", "own")
    <3>1. balance' = balance /\ transfers' = transfers
      BY <2>4 DEF AskEqual, Split, AskExact, Exact, AskAllocate, Own, Floor, Hand, Add
    <3>2. sum \notin {"match", "settled"} /\ sum' \notin {"match", "settled"}
      BY <2>4 DEF AskEqual, Split, AskExact, Exact, AskAllocate, Own, Floor, Hand, Add, Advance
    <3>. QED BY <3>1, <3>2 DEF SuggestedSoFar
  <2>5. CASE UNCHANGED sumVars
    <3>1. balance' = balance /\ transfers' = transfers /\ sum' = sum /\ Unsettled' = Unsettled
      BY <2>5 DEF sumVars, Unsettled
    <3>. QED BY <3>1 DEF SuggestedSoFar
  <2>. QED BY <2>1, <2>2, <2>3, <2>4, <2>5 DEF SettlementNext
<1>3. SuggestedSoFar => SuggestionsSettle
  BY DEF SuggestedSoFar, SuggestionsSettle
<1>. QED BY <1>1, <1>2, <1>3, Calculates, PTL DEF SettlementSpec
=============================================================================
