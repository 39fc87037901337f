---------------------------- MODULE OrderService ----------------------------
(* src/internal/service/order.go *)
EXTENDS Frames

\* The reservation transaction: the order and the reservation of its account
\* appear together or not at all.  Without stock nothing is written.
CreateOrder(o, a) ==
  /\ createPc[o] = "idle"
  /\ InsertOrder(o, a)
  /\ ReserveOneAvailable(o, a)
  /\ createPc' = [createPc EXCEPT ![o] = "charge"]
  /\ UNCHANGED <<payStatus, deliveryCols, events, frame, world>>

\* The call to the gateway, outside any transaction.
CreateCharge(o) ==
  /\ createPc[o] = "charge"
  /\ charge'   = [charge EXCEPT ![o] = "pending"]
  /\ createPc' = [createPc EXCEPT ![o] = "persist"]
  /\ UNCHANGED <<tables, frame, sent, age>>

\* An error does not say that the gateway has no such transaction.
CreateChargeFails(o) ==
  /\ "charge" \in Faults
  /\ createPc[o] = "charge"
  /\ charge' \in {charge, [charge EXCEPT ![o] = "pending"]}
  /\ createPc' = [createPc EXCEPT ![o] = "rollback"]
  /\ UNCHANGED <<tables, frame, sent, age>>

PersistPayment(o) ==
  /\ createPc[o] = "persist"
  /\ CreatePayment(o)
  /\ createPc' = [createPc EXCEPT ![o] = "answered"]
  /\ UNCHANGED <<orderCols, accountCols, deliveryCols, events, frame, world>>

\* Nor does an error of the INSERT say that the row is not there.
PersistPaymentFails(o) ==
  /\ "persist" \in Faults
  /\ createPc[o] = "persist"
  /\ CreatePayment(o) \/ UNCHANGED payStatus
  /\ createPc' = [createPc EXCEPT ![o] = "rollback"]
  /\ UNCHANGED <<orderCols, accountCols, deliveryCols, events, frame, world>>

\* cancelAndRelease: neither the order's status nor the holder of the account
\* is looked at again.
CancelAndRelease(o) ==
  /\ createPc[o] = "rollback"
  /\ UpdateStatus(o, "CANCELLED")
  /\ ReleaseReservation(ordAccount[o])
  /\ createPc' = [createPc EXCEPT ![o] = "over"]
  /\ UNCHANGED <<payStatus, deliveryCols, events, frame, world>>

\* The process dies, or the best-effort clean-up fails.
AbandonCreate(o) ==
  /\ "db" \in Faults
  /\ createPc[o] \in {"charge", "persist", "rollback"}
  /\ createPc' = [createPc EXCEPT ![o] = "over"]
  /\ UNCHANGED <<tables, frame, world>>

-----------------------------------------------------------------------------
\* Cancel reads the order without a lock ...
CancelRead(p, o) ==
  /\ Accept(p, "cancel", o)
  /\ ordStatus[o] = "PENDING"
  /\ Call(p, "cancel", o)
  /\ UNCHANGED <<tables, createPc, snap, note, hook, newlyPaid, todo, world>>

\* ... and writes what it decided then.
CancelCommit(p) ==
  /\ pc[p] = "cancel"
  /\ UpdateStatus(cur[p], "CANCELLED")
  /\ SetPaymentStatus(cur[p], "CANCELLED")
  /\ ReleaseReservation(ordAccount[cur[p]])
  /\ Return(p)
  /\ UNCHANGED <<deliveryCols, events, createPc, world>>

-----------------------------------------------------------------------------
\* Mutant: the list joins the payments, so an order whose payment was never
\* persisted is not on it.
OverdueWithPayment ==
  {o \in Orders : /\ ordStatus[o] = "PENDING"
                  /\ age[o] = "overdue"
                  /\ payStatus[o] # "NONE"}

\* ListExpiredPending.
Overdue == {o \in Orders : ordStatus[o] = "PENDING" /\ age[o] = "overdue"}

CleanupStart(p) == p = "cleanup" /\ StartRun(p, Overdue)

\* One transaction per listed order.  "Re-check under no lock is fine": there
\* is no re-check.
ExpireOne(p, o) ==
  /\ p = "cleanup"
  /\ Pick(p, o)
  /\ UpdateStatus(o, "EXPIRED")
  /\ SetPaymentStatus(o, "EXPIRED")
  /\ ReleaseReservation(ordAccount[o])
  /\ UNCHANGED <<deliveryCols, events, createPc, pc, cur, snap, note, hook,
                 newlyPaid, world>>

CreateNext ==
  \E o \in Orders :
    \/ \E a \in Accounts : CreateOrder(o, a)
    \/ CreateCharge(o)
    \/ CreateChargeFails(o)
    \/ PersistPayment(o)
    \/ PersistPaymentFails(o)
    \/ CancelAndRelease(o)
    \/ AbandonCreate(o)

OrderNext(p) ==
  \/ \E o \in Orders : CancelRead(p, o) \/ ExpireOne(p, o)
  \/ CancelCommit(p)
  \/ CleanupStart(p)
=============================================================================
