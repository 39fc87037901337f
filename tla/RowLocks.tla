------------------------------- MODULE RowLocks -------------------------------
(***************************************************************************)
(* The transactions of TxManager.WithTx (src/internal/repository) and the  *)
(* row locks they take.  The other modules let a transaction happen at     *)
(* once; here it takes its locks one statement at a time, waits for those  *)
(* of others, and may meet a deadlock, which PostgreSQL ends by aborting a *)
(* transaction that is part of it.                                         *)
(*                                                                         *)
(* The rows are those of one product: its own, those of its accounts and   *)
(* orders, and the delivery of each order.  Orders may share an account: an *)
(* order that expired still points at it when another one reserves it.  A  *)
(* row that only ever is locked under the lock of its order (payments), or *)
(* that a transaction locks before any other and nobody locks later        *)
(* (telegram_users), is left out, and so are transactions with a single    *)
(* lock.                                                                   *)
(***************************************************************************)
EXTENDS Naturals, Sequences

CONSTANTS
  Txns,      \* transactions
  N,         \* the product's orders are 1..N, in the order of a table scan
  M,         \* and its accounts are 1..M
  accountOf  \* orders.account_id

Orders   == 1..N
Accounts == 1..M

ASSUME LocksAssumption ==
  /\ N \in Nat \ {0}
  /\ M \in Nat \ {0}
  /\ accountOf \in [Orders -> Accounts]

VARIABLES
  kind,      \* which transaction of the program each is
  target,    \* the order or account it is about; of forceDelete, how many
             \* of the orders are there when it deletes them
  at,        \* the lock that it takes next
  ended      \* it committed or was rolled back

vars == <<kind, target, at, ended>>

-----------------------------------------------------------------------------
(* Lock modes: FOR KEY SHARE of a foreign key check, FOR NO KEY UPDATE of an *)
(* UPDATE, FOR UPDATE of a SELECT ... FOR UPDATE or a DELETE.                *)

Conflicts ==
  {{"share", "key"}, {"update"}, {"update", "key"}, {"key"}}

Share(table, i)  == [row |-> <<table, i>>, mode |-> "share"]
Update(table, i) == [row |-> <<table, i>>, mode |-> "update"]
Key(table, i)    == [row |-> <<table, i>>, mode |-> "key"]

\* MarkSold, MarkDelivered of the order and of the delivery.
Finalize(o) ==
  <<Update("account", accountOf[o]), Update("order", o), Update("delivery", o)>>

\* MarkFailed and UpdateStatus.
RecordFailure(o) == <<Update("delivery", o), Update("order", o)>>

\* CreateIfAbsent, one statement: the row, then its foreign keys.
Claim(o) == <<Key("delivery", o), Share("order", o), Share("account", accountOf[o])>>

\* Mutant: the account is released before the order is closed.
CloseAccountFirst(o) == <<Update("account", accountOf[o]), Update("order", o)>>

\* Cancel, one order of CleanupExpired, and cancelAndRelease.
Close(o) == <<Update("order", o), Update("account", accountOf[o])>>

\* applyTransition, where it closes the order; where it settles it, it takes
\* the first lock only.
Transition(o) == <<Key("order", o), Update("account", accountOf[o])>>

\* CreateOrder inserts an order of the product and takes the first account that
\* is not locked, or waits for the one that was chosen.
CreateAny(a)    == <<Share("product", 0), Key("account", a)>>
CreateChosen(a) == <<Share("product", 0), Key("account", a)>>

OrdersOf(a) == SelectSeq([o \in Orders |-> o], LAMBDA o : accountOf[o] = a)

\* AccountService.Delete: ON DELETE SET NULL of its orders, then ON DELETE
\* RESTRICT finds a delivery, if there is one, and refuses.
DeleteAccount(a) ==
  LET orders == OrdersOf(a)
  IN <<Key("account", a)>>
       \o [i \in 1..Len(orders) |-> Update("order", orders[i])]
       \o [i \in 1..Len(orders) |-> Share("delivery", orders[i])]

\* ProductService.Delete without force: ON DELETE RESTRICT finds an account, or,
\* when the accounts are gone, an order.
DeleteStocked(a) == <<Key("product", 0), Share("account", a)>>
DeleteEmptied(o) == <<Key("product", 0), Share("order", o)>>

\* Deleting the orders sets accounts.reserved_order_id to NULL and deletes the
\* deliveries, row by row; then the accounts go.  Only now does the deletion
\* meet the orders that were committed since: it is the deletion of an account
\* to them.  In the end the product.
ForceDelete(k) ==
  [o \in 1..k |-> Key("order", o)]
    \o [i \in 1..(2 * k) |-> IF i % 2 = 1 THEN Update("account", accountOf[(i + 1) \div 2])
                             ELSE Key("delivery", i \div 2)]
    \o [a \in Accounts |-> Key("account", a)]
    \o [i \in 1..(2 * (N - k)) |-> IF i % 2 = 1 THEN Update("order", k + (i + 1) \div 2)
                                   ELSE Share("delivery", k + i \div 2)]
    \o <<Key("product", 0)>>

OfOrders   == {"finalize", "recordFailure", "claim", "close", "transition", "deleteEmptied"}
OfAccounts == {"createAny", "createChosen", "deleteAccount", "deleteStocked"}
Kinds      == OfOrders \cup OfAccounts \cup {"forceDelete"}

Targets(k) ==
  IF k \in OfOrders THEN Orders ELSE IF k \in OfAccounts THEN Accounts ELSE 0..N

Locks(k, x) ==
  CASE k = "finalize"      -> Finalize(x)
    [] k = "recordFailure" -> RecordFailure(x)
    [] k = "claim"         -> Claim(x)
    [] k = "close"         -> Close(x)
    [] k = "transition"    -> Transition(x)
    [] k = "deleteEmptied" -> DeleteEmptied(x)
    [] k = "createAny"     -> CreateAny(x)
    [] k = "createChosen"  -> CreateChosen(x)
    [] k = "deleteAccount" -> DeleteAccount(x)
    [] k = "deleteStocked" -> DeleteStocked(x)
    [] k = "forceDelete"   -> ForceDelete(x)

-----------------------------------------------------------------------------
TypeOK ==
  /\ kind   \in [Txns -> Kinds]
  /\ \A t \in Txns : target[t] \in Targets(kind[t])
  /\ at     \in [Txns -> Nat \ {0}]
  /\ ended  \in [Txns -> BOOLEAN]

Init ==
  /\ kind   \in [Txns -> Kinds]
  /\ target \in [Txns -> Orders \cup Accounts \cup {0}]
  /\ \A t \in Txns : target[t] \in Targets(kind[t])
  /\ at     = [t \in Txns |-> 1]
  /\ ended  = [t \in Txns |-> FALSE]

Steps(t) == Locks(kind[t], target[t])

Running(t) == ~ended[t] /\ at[t] <= Len(Steps(t))

\* All locks are kept until the end.
Held(t) == IF ended[t] THEN {} ELSE {Steps(t)[i] : i \in 1..(at[t] - 1)}

Blocks(u, t) ==
  /\ u # t
  /\ \E h \in Held(u) : /\ h.row = Steps(t)[at[t]].row
                       /\ {h.mode, Steps(t)[at[t]].mode} \in Conflicts

\* FOR UPDATE SKIP LOCKED does not wait.
Skips(t) == kind[t] = "createAny" /\ at[t] = 2

WaitsFor(t, u) == Running(t) /\ ~Skips(t) /\ Blocks(u, t)

\* Each waits for one of them and keeps one of them waiting.
Circle(S) ==
  \A t \in S : (\E u \in S : WaitsFor(t, u)) /\ (\E u \in S : WaitsFor(u, t))

Deadlocked(t) == \E S \in SUBSET Txns : t \in S /\ Circle(S)

-----------------------------------------------------------------------------
Lock(t) ==
  /\ Running(t)
  /\ \A u \in Txns : ~Blocks(u, t)
  /\ at' = [at EXCEPT ![t] = @ + 1]
  /\ UNCHANGED <<kind, target, ended>>

End(t) ==
  /\ ended' = [ended EXCEPT ![t] = TRUE]
  /\ at'    = [at EXCEPT ![t] = 1]
  /\ UNCHANGED <<kind, target>>

\* A transition that settles commits before it gets to the account, and an
\* account is deleted where its orders have no delivery.
Commit(t) ==
  /\ ~ended[t]
  /\ \/ at[t] > Len(Steps(t))
     \/ kind[t] = "transition" /\ at[t] = 2
     \/ kind[t] = "deleteAccount" /\ at[t] > 1 + Len(OrdersOf(target[t]))
  /\ End(t)

\* Mutant: after an error the transaction keeps its locks and tries again.
TryAgain(t) == UNCHANGED <<kind, target, at, ended>>

\* fn returned an error.
Rollback(t) == End(t)

\* A statement fails.
Fails(t) == Running(t) /\ at[t] > 1 /\ Rollback(t)

\* Every account of the product is locked by others: out of stock.
NoneToTake(t) ==
  /\ Running(t) /\ Skips(t)
  /\ \E u \in Txns : Blocks(u, t)
  /\ Rollback(t)

\* After deadlock_timeout a waiting backend looks for a circle that it is in.
DetectDeadlock(t) == Running(t) /\ Deadlocked(t) /\ Rollback(t)

Next ==
  \E t \in Txns :
    Lock(t) \/ Commit(t) \/ Fails(t) \/ NoneToTake(t) \/ DetectDeadlock(t)

Fairness ==
  \A t \in Txns : WF_vars(Lock(t) \/ Commit(t) \/ NoneToTake(t) \/ DetectDeadlock(t))

Spec == Init /\ [][Next]_vars /\ Fairness

-----------------------------------------------------------------------------
\* It takes an account or a delivery before the order that this belongs to.
Crosses(t) ==
  \/ kind[t] \in {"finalize", "recordFailure", "claim", "deleteAccount"}
  \/ kind[t] = "forceDelete" /\ target[t] < N

ProductFirst(t) == kind[t] \in {"createChosen", "deleteStocked", "deleteEmptied"}

\* Transactions that wait for each other in a circle: one of them delivers, or
\* deletes an account before the orders that point at it; or a forced deletion
\* of the product meets a purchase or a deletion that has the product already.
\* Closing, settling, reserving and deleting a product otherwise never block
\* each other for good, whatever is stale in them.
CirclesAreCrossed ==
  \A S \in (SUBSET Txns) \ {{}} :
    Circle(S) =>
      \/ \E t \in S : Crosses(t)
      \/ \E t, u \in S : kind[t] = "forceDelete" /\ ProductFirst(u)

\* A job is never stuck behind a transaction that neither goes on nor gives up:
\* each commits or is rolled back, and takes its locks with it.
EveryTxnEnds == \A t \in Txns : <>ended[t]
=============================================================================
