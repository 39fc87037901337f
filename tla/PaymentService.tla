--------------------------- MODULE PaymentService ---------------------------
(* src/internal/service/payment.go *)
EXTENDS Frames

\* Mutant: "expire" falls through to the default.
MapWithoutExpire(s) ==
  CASE s = "settlement" -> "SETTLEMENT"
    [] s = "deny"       -> "DENIED"
    [] s = "cancel"     -> "CANCELLED"
    [] OTHER            -> "PENDING"

\* mapTransactionStatus.  "capture" is left out: it concerns card charges and
\* the store creates QRIS charges only.
MapTransactionStatus(s) ==
  CASE s = "settlement" -> "SETTLEMENT"
    [] s = "expire"     -> "EXPIRED"
    [] s = "deny"       -> "DENIED"
    [] s = "cancel"     -> "CANCELLED"
    [] OTHER            -> "PENDING"

-----------------------------------------------------------------------------
\* HandleNotification up to the event.  A notification whose event is there
\* already is acknowledged and changes nothing.
Notify(p, o, s) ==
  /\ Accept(p, "webhook", o)
  /\ s \in Notices(o)
  /\ ~IsDuplicate(o, s)
  /\ InsertEvent(o, s)
  /\ Call(p, "apply", o)
  /\ note' = [note EXCEPT ![p] = s]
  /\ hook' = [hook EXCEPT ![p] = TRUE]
  /\ UNCHANGED <<orderCols, payStatus, accountCols, deliveryCols, createPc,
                 snap, newlyPaid, todo, world>>

\* Mutant: the signature is not looked at.
NotifyUnverified(p, o, s) ==
  /\ Accept(p, "badSignature", o)
  /\ s \in Reported
  /\ ~IsDuplicate(o, s)
  /\ InsertEvent(o, s)
  /\ Call(p, "apply", o)
  /\ note' = [note EXCEPT ![p] = s]
  /\ hook' = [hook EXCEPT ![p] = TRUE]
  /\ UNCHANGED <<orderCols, payStatus, accountCols, deliveryCols, createPc,
                 snap, newlyPaid, todo, world>>

\* A notification whose signature does not verify is recorded, then refused;
\* nothing says that the gateway ever reported what it claims.
NotifyBadSignature(p, o, s) ==
  /\ Accept(p, "badSignature", o)
  /\ s \in Reported
  /\ ~IsDuplicate(o, s)
  /\ InsertEvent(o, s)
  /\ UNCHANGED <<orderCols, payStatus, accountCols, deliveryCols, createPc,
                 frame, world>>

-----------------------------------------------------------------------------
\* Mutant: any order that is not PAID yet is moved.
MayTransitionUnpaid(o) == ordStatus[o] # "PAID"

\* Mutant: the locked row is not looked at.
MayTransitionAlways(o) == ordStatus[o] # "NONE"

\* The guard of every transition, under the lock of the order's row.
MayTransition(o) == ordStatus[o] = "PENDING"

Settle(o) ==
  /\ MarkPaid(o)
  /\ SetPaymentStatus(o, "SETTLEMENT")
  /\ UNCHANGED accountCols

\* Mutant: the payment's status is written to the order.
CloseAsMapped(o, status, mapped) ==
  /\ UpdateStatus(o, mapped)
  /\ SetPaymentStatus(o, mapped)
  /\ ReleaseReservation(ordAccount[o])

Close(o, status, mapped) ==
  /\ UpdateStatus(o, status)
  /\ SetPaymentStatus(o, mapped)
  /\ ReleaseReservation(ordAccount[o])

Settles(p) == /\ MayTransition(cur[p])
              /\ MapTransactionStatus(note[p]) = "SETTLEMENT"

\* The writes of applyTransition's transaction.
Transition(o, mapped) ==
  \/ MayTransition(o) /\ mapped = "SETTLEMENT" /\ Settle(o)
  \/ MayTransition(o) /\ mapped = "EXPIRED" /\ Close(o, "EXPIRED", mapped)
  \/ /\ MayTransition(o)
     /\ mapped \in {"DENIED", "CANCELLED"}
     /\ Close(o, "CANCELLED", mapped)
  \/ /\ ~MayTransition(o) \/ mapped = "PENDING"
     /\ UNCHANGED <<orderCols, payStatus, accountCols>>

\* Mutant: only the HTTP server delivers.
TriggerFromHandler(p, paid) ==
  IF paid /\ p \in Handlers
    THEN /\ Goto(p, "load")
         /\ note'      = [note EXCEPT ![p] = "pending"]
         /\ hook'      = [hook EXCEPT ![p] = FALSE]
         /\ newlyPaid' = [newlyPaid EXCEPT ![p] = FALSE]
         /\ UNCHANGED <<snap, todo>>
    ELSE Return(p)

\* The caller of applyTransition triggers DeliverOrder when the order is newly
\* paid, and is done otherwise.
TriggerDelivery(p, paid) ==
  IF paid
    THEN /\ Goto(p, "load")
         /\ note'      = [note EXCEPT ![p] = "pending"]
         /\ hook'      = [hook EXCEPT ![p] = FALSE]
         /\ newlyPaid' = [newlyPaid EXCEPT ![p] = FALSE]
         /\ UNCHANGED <<snap, todo>>
    ELSE Return(p)

\* applyTransition called by ReconcilePending, ConfirmPayment or ForceSettle.
ApplyTransition(p) ==
  /\ pc[p] = "apply"
  /\ ~hook[p]
  /\ Transition(cur[p], MapTransactionStatus(note[p]))
  /\ TriggerDelivery(p, Settles(p))
  /\ UNCHANGED <<deliveryCols, events, createPc, world>>

\* applyTransition called by HandleNotification.
ApplyNotification(p) ==
  /\ pc[p] = "apply"
  /\ hook[p]
  /\ Transition(cur[p], MapTransactionStatus(note[p]))
  /\ Goto(p, "mark")
  /\ newlyPaid' = [newlyPaid EXCEPT ![p] = Settles(p)]
  /\ UNCHANGED <<deliveryCols, events, createPc, snap, note, hook, todo,
                 world>>

\* MarkProcessed is best effort; delivery comes after it.
MarkEvent(p) ==
  /\ pc[p] = "mark"
  /\ \/ MarkProcessed(cur[p], note[p])
     \/ "db" \in Faults /\ UNCHANGED events
  /\ TriggerDelivery(p, newlyPaid[p])
  /\ UNCHANGED <<orderCols, payStatus, accountCols, deliveryCols, createPc,
                 world>>

-----------------------------------------------------------------------------
\* ConfirmPayment looks at the order without a lock; applyTransition looks at
\* it again.
Confirm(p, o) ==
  /\ Accept(p, "confirm", o)
  /\ ordStatus[o] = "PENDING"
  /\ Call(p, "apply", o)
  /\ note' = [note EXCEPT ![p] = "settlement"]
  /\ UNCHANGED <<tables, createPc, snap, hook, newlyPaid, todo, world>>

\* ForceSettle, mounted in development only.
ForceSettle(p, o) ==
  /\ Accept(p, "forceSettle", o)
  /\ Call(p, "apply", o)
  /\ note' = [note EXCEPT ![p] = "settlement"]
  /\ UNCHANGED <<tables, createPc, snap, hook, newlyPaid, todo, world>>

-----------------------------------------------------------------------------
\* Mutant: created_at is compared the other way round.
PendingYounger == {o \in Orders : ordStatus[o] = "PENDING" /\ age[o] = "new"}

\* ListPendingOlderThan.
PendingOlder == {o \in Orders : ordStatus[o] = "PENDING" /\ age[o] # "new"}

ReconcileStart(p) == p = "reconcile" /\ StartRun(p, PendingOlder)

\* GetStatus answers with the status the transaction has now.
ReconcileOne(p, o) ==
  /\ p = "reconcile"
  /\ Pick(p, o)
  /\ charge[o] # "none"
  /\ Call(p, "apply", o)
  /\ note' = [note EXCEPT ![p] = charge[o]]
  /\ UNCHANGED <<tables, createPc, snap, hook, newlyPaid, world>>

\* GetStatus fails: the gateway has no such transaction, or does not answer.
ReconcileSkip(p, o) ==
  /\ p = "reconcile"
  /\ Pick(p, o)
  /\ charge[o] = "none" \/ "charge" \in Faults
  /\ UNCHANGED <<tables, createPc, pc, cur, snap, note, hook, newlyPaid,
                 world>>

PaymentNext(p) ==
  \/ \E o \in Orders :
       \/ \E s \in TxnStatus : Notify(p, o, s) \/ NotifyBadSignature(p, o, s)
       \/ Confirm(p, o)
       \/ ForceSettle(p, o)
       \/ ReconcileOne(p, o)
       \/ ReconcileSkip(p, o)
  \/ ApplyTransition(p)
  \/ ApplyNotification(p)
  \/ MarkEvent(p)
  \/ ReconcileStart(p)
=============================================================================
