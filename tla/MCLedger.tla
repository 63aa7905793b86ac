------------------------------- MODULE MCLedger -------------------------------
(***************************************************************************)
(* Instances of Ledger that TLC checks: who may have which role.           *)
(***************************************************************************)
EXTENDS Ledger, TLC

CONSTANTS ann, bob

\* Ann edits, the others record what is theirs.
BobRecords == [u \in Users |-> IF u = ann THEN {"editor"} ELSE {"member"}]

\* Ann edits, Bob records what is his and comes and goes.
BobMoves == [u \in Users |-> IF u = ann THEN {"editor"} ELSE {"member", "none"}]

Up(cost, payment, loan, receipt) ==
  [cost |-> cost, payment |-> payment, loan |-> loan, receipt |-> receipt]

\* Which records may be changed or deleted.
AllTwice == Up(2, 2, 2, 2)
ReceiptsTwice == Up(1, 1, 1, 2)

\* What neither an action nor a property tells apart.
Symm ==
  Permutations(Procs) \union Permutations(PaymentIds) \union Permutations(ReceiptIds \ Legacy)
  \union Permutations(Keys \ CostIds) \union Permutations(Currencies)
=============================================================================
