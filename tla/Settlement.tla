------------------------------ MODULE Settlement ------------------------------
(***************************************************************************)
(* The calculations on amounts of src/internal/expenses: the equal split   *)
(* of a cost and the check of an exact one (validate), the allocation of a *)
(* payment to the shares that are left (Allocate) and the transfers that   *)
(* would settle the balances (suggest).  A calculation is a loop over the  *)
(* people concerned in ascending order of their ids, one step for each.    *)
(*                                                                         *)
(* Amounts are minor units up to MaxMinor, the largest integer, and sums   *)
(* beyond it are refused (checkedAdd).  Products are exact (big.Int).      *)
(***************************************************************************)
EXTENDS Integers, Sequences, FiniteSetsExt

CONSTANTS
  Size,      \* how many people a calculation is about
  MaxMinor   \* the largest integer

ASSUME SettlementAssumption == Size \in Nat \ {0} /\ MaxMinor \in Nat \ {0}

People == 1 .. Size
Amounts == 0 .. MaxMinor
MinMinor == -MaxMinor - 1
Int64 == MinMinor .. MaxMinor

VARIABLES
  sum,       \* the calculation under way
  asked,     \* the amount it was given
  amount,    \* what of it is shared in proportion
  payer,     \* of an allocation
  own,       \* what the payer's own share took
  shares,    \* what each may still be given, or the exact shares
  total,     \* of shares
  k,         \* the person the loop is at
  left,      \* what nobody was given yet
  result,    \* what each was given
  balance,   \* what is left of the balances to settle
  transfers, \* suggested so far
  upTo,      \* history: the total of the shares up to each person
  rest       \* history: the remainders of the divisions up to each person

sumVars == <<sum, asked, amount, payer, own, shares, total, k, left, result,
             balance, transfers, upTo, rest>>

\* Each calculation has its steps; "add" is shared by two.
Steps == {"idle", "split", "add_exact", "exact", "add_left", "own", "floor", "hand",
          "match", "split_done", "exact_done", "allocated", "settled", "refused"}

Nobodys == [p \in People |-> 0]

FromZero == 0 .. Size

SettlementInit ==
  /\ sum = "idle"
  /\ asked = 0 /\ amount = 0 /\ own = 0 /\ total = 0 /\ left = 0
  /\ payer = 1 /\ k = 1
  /\ shares = Nobodys /\ result = Nobodys /\ balance = Nobodys
  /\ transfers = <<>>
  /\ upTo = [p \in FromZero |-> 0] /\ rest = [p \in FromZero |-> 0]

-----------------------------------------------------------------------------
Least(a, b) == IF a <= b THEN a ELSE b

\* The machine's sum, which wraps around.
Plus(a, b) ==
  LET s == a + b
  IN IF s > MaxMinor THEN s - 2 * (MaxMinor + 1)
     ELSE IF s < MinMinor THEN s + 2 * (MaxMinor + 1)
     ELSE s

\* Slip: the sum itself is compared, which has wrapped around by then.
OverflowsLate(a, b) == b > 0 /\ Plus(a, b) > MaxMinor

\* checkedAdd refuses the sum.
Overflows(a, b) == \/ b > 0 /\ a > MaxMinor - b
                   \/ b < 0 /\ a < MinMinor - b

\* The loop's next person, or the step after the loop.
Advance(next) ==
  IF k = Size THEN sum' = next /\ k' = 1 ELSE sum' = sum /\ k' = k + 1

-----------------------------------------------------------------------------
(***************************************************************************)
(* The equal split of a cost: the first ones get one unit more.            *)
(***************************************************************************)
AskEqual ==
  /\ sum = "idle"
  /\ \E a \in Amounts \ {0} : asked' = a /\ left' = a
  /\ sum' = "split"
  /\ UNCHANGED <<amount, payer, own, shares, total, k, result, balance, transfers, upTo, rest>>

EqualShare == asked \div Size + (IF k <= asked % Size THEN 1 ELSE 0)

Split ==
  /\ sum = "split"
  /\ result' = [result EXCEPT ![k] = EqualShare]
  /\ left' = left - EqualShare
  /\ Advance("split_done")
  /\ UNCHANGED <<asked, amount, payer, own, shares, total, balance, transfers, upTo, rest>>

-----------------------------------------------------------------------------
(***************************************************************************)
(* Exact shares, and the shares that are left to allocate to, are added    *)
(* up first.                                                               *)
(***************************************************************************)
AskExact ==
  /\ sum = "idle"
  /\ \E a \in Amounts \ {0} : asked' = a
  /\ shares' \in [People -> Amounts]
  /\ sum' = "add_exact"
  /\ UNCHANGED <<amount, payer, own, total, k, left, result, balance, transfers, upTo, rest>>

\* A payer without a share takes part with nothing.
AskAllocate ==
  /\ sum = "idle"
  /\ \E a \in Amounts \ {0} : asked' = a /\ amount' = a
  /\ payer' \in People
  /\ shares' \in [People -> Amounts]
  /\ sum' = "add_left"
  /\ UNCHANGED <<own, total, k, left, result, balance, transfers, upTo, rest>>

Add(this, next) ==
  /\ sum = this
  /\ IF Overflows(total, shares[k])
       THEN sum' = "refused" /\ UNCHANGED <<total, k, upTo>>
       ELSE /\ total' = Plus(total, shares[k])
            /\ upTo' = [upTo EXCEPT ![k] = upTo[k - 1] + shares[k]]
            /\ Advance(next)
  /\ UNCHANGED <<asked, amount, payer, own, shares, left, result, balance, transfers, rest>>

Exact ==
  /\ sum = "exact"
  /\ IF total = asked THEN sum' = "exact_done" /\ result' = shares
                      ELSE sum' = "refused" /\ UNCHANGED result
  /\ UNCHANGED <<asked, amount, payer, own, shares, total, k, left, balance, transfers, upTo, rest>>

-----------------------------------------------------------------------------
(***************************************************************************)
(* The allocation: the payer's own share first, the others in proportion   *)
(* and rounded down, and the units that are left one to a person.          *)
(***************************************************************************)
\* Slip: the total still holds the payer's own share.
OwnStaysInTotal ==
  /\ sum = "own"
  /\ LET o == Least(amount, shares[payer])
     IN IF amount > total
          THEN sum' = "refused" /\ UNCHANGED <<own, shares, amount, left, result>>
          ELSE /\ own' = o
               /\ result' = [result EXCEPT ![payer] = o]
               /\ shares' = [shares EXCEPT ![payer] = @ - o]
               /\ amount' = amount - o
               /\ left' = amount - o
               /\ sum' = IF amount > o THEN "floor" ELSE "allocated"
  /\ UNCHANGED <<asked, payer, total, k, balance, transfers, upTo, rest>>

Own ==
  /\ sum = "own"
  /\ LET o == Least(amount, shares[payer])
     IN IF amount > total
          THEN sum' = "refused" /\ UNCHANGED <<own, shares, amount, total, left, result>>
          ELSE /\ own' = o
               /\ result' = [result EXCEPT ![payer] = o]
               /\ shares' = [shares EXCEPT ![payer] = @ - o]
               /\ amount' = amount - o
               /\ total' = total - o
               /\ left' = amount - o
               /\ sum' = IF amount > o THEN "floor" ELSE "allocated"
  /\ UNCHANGED <<asked, payer, k, balance, transfers, upTo, rest>>

Floor ==
  /\ sum = "floor"
  /\ LET part == (amount * shares[k]) \div total
     IN /\ result' = [result EXCEPT ![k] = @ + part]
        /\ left' = left - part
  /\ rest' = [rest EXCEPT ![k] = rest[k - 1] + ((amount * shares[k]) % total)]
  /\ Advance("hand")
  /\ UNCHANGED <<asked, amount, payer, own, shares, total, balance, transfers, upTo>>

\* What the payer's own share gave this person.
OwnOf(p) == IF p = payer THEN own ELSE 0

\* This person is given less than they may be.
Room(p) == result[p] < shares[p] + OwnOf(p)

Hand ==
  /\ sum = "hand"
  /\ IF left > 0 /\ Room(k)
       THEN result' = [result EXCEPT ![k] = @ + 1] /\ left' = left - 1
       ELSE UNCHANGED <<result, left>>
  /\ Advance("allocated")
  /\ UNCHANGED <<asked, amount, payer, own, shares, total, balance, transfers, upTo, rest>>

-----------------------------------------------------------------------------
(***************************************************************************)
(* The suggested transfers: the first debtor pays the first creditor the   *)
(* less of what the one owes and the other is due, until nobody owes or    *)
(* nobody is due.                                                          *)
(***************************************************************************)
\* Balances come from movements between people, so they add up to zero.
AskSuggest ==
  /\ sum = "idle"
  /\ balance' \in {b \in [People -> Int64] : SumFunction(b) = 0}
  /\ sum' = "match"
  /\ UNCHANGED <<asked, amount, payer, own, shares, total, k, left, result, transfers, upTo, rest>>

Debtors == {p \in People : balance[p] < 0}
Creditors == {p \in People : balance[p] > 0}

\* Slip: one unit is forgotten.
MagnitudeShort(v) == -(v + 1)

\* Of a negative integer, the smallest included, which has no opposite.
Magnitude(v) == -(v + 1) + 1

Match ==
  /\ sum = "match"
  /\ IF Debtors = {} \/ Creditors = {}
       THEN sum' = "settled" /\ UNCHANGED <<balance, transfers>>
       ELSE LET from == Min(Debtors)
                to == Min(Creditors)
                a == Least(Magnitude(balance[from]), balance[to])
            IN /\ transfers' = Append(transfers, [from |-> from, to |-> to, amount |-> a])
               /\ balance' = [balance EXCEPT ![from] = @ + a, ![to] = @ - a]
               /\ UNCHANGED sum
  /\ UNCHANGED <<asked, amount, payer, own, shares, total, k, left, result, upTo, rest>>

-----------------------------------------------------------------------------
Over == sum \in {"split_done", "exact_done", "allocated", "settled", "refused"}

\* The caller has its answer, and the next calculation begins anew.
Answer ==
  /\ Over
  /\ sum' = "idle"
  /\ asked' = 0 /\ amount' = 0 /\ own' = 0 /\ total' = 0 /\ left' = 0
  /\ payer' = 1 /\ k' = 1
  /\ shares' = Nobodys /\ result' = Nobodys /\ balance' = Nobodys
  /\ transfers' = <<>>
  /\ upTo' = [p \in FromZero |-> 0] /\ rest' = [p \in FromZero |-> 0]

SettlementNext ==
  \/ AskEqual \/ Split
  \/ AskExact \/ Add("add_exact", "exact") \/ Exact
  \/ AskAllocate \/ Add("add_left", "own") \/ Own \/ Floor \/ Hand
  \/ AskSuggest \/ Match
  \/ Answer

SettlementSpec == SettlementInit /\ [][SettlementNext]_sumVars

-----------------------------------------------------------------------------
(***************************************************************************)
(* Properties.                                                             *)
(***************************************************************************)
SettlementTypeOK ==
  /\ sum \in Steps
  /\ asked \in Nat /\ amount \in Nat /\ own \in Nat /\ total \in Amounts /\ left \in Int
  /\ payer \in People /\ k \in People
  /\ shares \in [People -> Amounts] /\ result \in [People -> Nat]
  /\ balance \in [People -> Int]
  /\ transfers \in Seq([from : People, to : People, amount : Int])
  /\ upTo \in [FromZero -> Nat] /\ rest \in [FromZero -> Nat]

\* Before a loop begins.
Fresh ==
  /\ upTo[0] = 0 /\ rest[0] = 0
  /\ sum = "idle" => k = 1 /\ own = 0 /\ total = 0 /\ result = Nobodys

\* Of an equal split, the people before the loop's got their part.
SplitSoFar ==
  LET part == asked \div Size
      more == asked % Size
  IN sum \in {"split", "split_done"} =>
       LET n == IF sum = "split" THEN k - 1 ELSE Size
       IN /\ left = asked - n * part - Least(n, more)
          /\ \A p \in 1 .. n : result[p] = part + (IF p <= more THEN 1 ELSE 0)

\* The totals noted while adding are those of the shares.
AddedSoFar ==
  sum \in {"add_exact", "add_left", "exact", "own"} =>
    LET n == IF sum \in {"exact", "own"} THEN Size ELSE k - 1
    IN /\ own = 0 /\ result = Nobodys /\ total = upTo[n]
       /\ sum \in {"exact", "own"} => k = 1
       /\ \A p \in 1 .. n : upTo[p] = upTo[p - 1] + shares[p]

\* What is left of the shares when the payer's own is taken, up to a person.
Before(p) == upTo[p] - (IF p >= payer THEN own ELSE 0)

\* An amount is shared in proportion to shares that add up to at least it.
Sharing ==
  sum \in {"floor", "hand"} =>
    /\ amount \in 1 .. total /\ total = Before(Size)
    /\ \A p \in People : Before(p) = Before(p - 1) + shares[p]

\* The division rounded what this person is given to part.
Divided(p, part) ==
  /\ part \in 0 .. shares[p]
  /\ rest[p] - rest[p - 1] \in 0 .. total - 1
  /\ total * part + (rest[p] - rest[p - 1]) = amount * shares[p]

\* What the divisions left so far is what their remainders add up to.
FloorSoFar ==
  sum = "floor" =>
    /\ total * (amount - left) + rest[k - 1] = amount * Before(k - 1)
    /\ \A p \in 1 .. k - 1 : Divided(p, result[p] - OwnOf(p))
    /\ \A p \in k .. Size : result[p] = OwnOf(p)

\* Nobody is given more than they had left, a unit less than their proportion
\* of the amount, or more than one unit more than it.
Fair(p) ==
  /\ result[p] <= shares[p] + OwnOf(p)
  /\ total * (result[p] - OwnOf(p)) - amount * shares[p] \in 1 - total .. total

\* The people still to come have room for what is left.
HandSoFar ==
  sum = "hand" =>
    /\ left >= 0
    /\ left = 0 \/ total * left <= rest[Size] - rest[k - 1]
    /\ \A p \in 1 .. k - 1 : Fair(p)
    /\ \A p \in k .. Size : Divided(p, result[p] - OwnOf(p))

\* A finished split or allocation leaves nothing: the loop that hands out single
\* units goes round once, and that is enough.
NothingLeft ==
  sum \in {"split_done", "allocated"} => left = 0

\* Nobody is a unit below their part or more than one above it: of a cost split
\* equally, or in proportion to the share they had left once the payer's own was
\* covered, and nobody is given more than they had left.  A whole unit above is
\* possible, for one whose part was exact.
SharedFairly ==
  /\ sum = "split_done" =>
       \A p \in People : Size * result[p] - asked \in 1 - Size .. Size - 1
  /\ sum = "allocated" =>
       \A p \in People : result[p] <= shares[p] + OwnOf(p) /\ (amount > 0 => Fair(p))

\* What follows a step so far, by induction.
SettlementInv ==
  /\ SettlementTypeOK /\ Fresh /\ SplitSoFar /\ AddedSoFar /\ Sharing
  /\ FloorSoFar /\ HandSoFar /\ NothingLeft /\ SharedFairly

\* The shares of a cost, given or made, and the allocation of a payment add up to
\* the amount to the unit.
AllocatesAll ==
  sum \in {"split_done", "exact_done", "allocated"} => SumFunction(result) = asked

\* The suggested transfers settle every balance, are fewer than the people they
\* are for, and every one of them can be recorded.
SuggestionsSettle ==
  /\ \A n \in DOMAIN transfers : transfers[n].amount \in Amounts \ {0}
  /\ sum = "settled" => balance = Nobodys /\ Len(transfers) < Size
=============================================================================
