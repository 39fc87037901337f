-------------------------- MODULE DeliveryService --------------------------
(* src/internal/service/delivery.go *)
EXTENDS Frames

\* Mutant: the status is not checked.
DeliverableAny(o) == ordAccount[o] # NoAccount

\* The state of an order in which DeliverOrder goes on.
Deliverable(o) == /\ ordAccount[o] # NoAccount
                  /\ ordStatus[o] \in {"PAID", "FAILED", "DELIVERED"}

\* DeliverOrder loads the order; its status stays in the frame.
DeliverLoad(p) ==
  /\ pc[p] = "load"
  /\ Deliverable(cur[p])
  /\ snap' = [snap EXCEPT ![p] = ordStatus[cur[p]]]
  /\ Goto(p, "claim")
  /\ UNCHANGED <<tables, createPc, note, hook, newlyPaid, todo, world>>

DeliverRefused(p) ==
  /\ pc[p] = "load"
  /\ ~Deliverable(cur[p])
  /\ Return(p)
  /\ UNCHANGED <<tables, createPc, world>>

\* Mutant: the outcome is recorded before the message is sent.
DeliverClaimEarly(p) ==
  /\ pc[p] = "claim"
  /\ dlvStatus[cur[p]] # "DELIVERED"
  /\ CreatePending(cur[p])
  /\ Goto(p, "finalize")
  /\ UNCHANGED <<orderCols, payStatus, accountCols, events, createPc, snap,
                 note, hook, newlyPaid, todo, world>>

\* The delivery row is there or is inserted, and it is not DELIVERED.
DeliverClaim(p) ==
  /\ pc[p] = "claim"
  /\ dlvStatus[cur[p]] # "DELIVERED"
  /\ CreatePending(cur[p])
  /\ Goto(p, "send")
  /\ UNCHANGED <<orderCols, payStatus, accountCols, events, createPc, snap,
                 note, hook, newlyPaid, todo, world>>

DeliverAlready(p) ==
  /\ pc[p] = "claim"
  /\ dlvStatus[cur[p]] = "DELIVERED"
  /\ Return(p)
  /\ UNCHANGED <<tables, createPc, world>>

\* The message reaches the customer.
Received(o) == sent' = [sent EXCEPT ![o] = IF @ < SendCap THEN @ + 1 ELSE @]

SendOk(p) ==
  /\ pc[p] = "send"
  /\ Received(cur[p])
  /\ Goto(p, "finalize")
  /\ UNCHANGED <<tables, createPc, snap, note, hook, newlyPaid, todo, charge,
                 age>>

\* Send returns an error: the message is lost, or only its answer is.
SendError(p) ==
  /\ pc[p] = "send"
  /\ \/ "send" \in Faults /\ UNCHANGED sent
     \/ "ambiguous" \in Faults /\ Received(cur[p])
  /\ Goto(p, "sendFailed")
  /\ UNCHANGED <<tables, createPc, snap, note, hook, newlyPaid, todo, charge,
                 age>>

\* The delivery becomes FAILED; so does an order that was PAID when it was
\* loaded.
RecordFailure(p) ==
  /\ pc[p] = "sendFailed"
  /\ MarkDeliveryFailed(cur[p])
  /\ IF snap[p] = "PAID" THEN UpdateStatus(cur[p], "FAILED")
                         ELSE UNCHANGED orderCols
  /\ Return(p)
  /\ UNCHANGED <<payStatus, accountCols, events, createPc, world>>

\* Account SOLD, order DELIVERED and delivery DELIVERED in one transaction.
Finalize(p) ==
  /\ pc[p] = "finalize"
  /\ MarkSold(ordAccount[cur[p]])
  /\ MarkOrderDelivered(cur[p])
  /\ MarkDeliveryDelivered(cur[p])
  /\ Return(p)
  /\ UNCHANGED <<payStatus, events, createPc, world>>

-----------------------------------------------------------------------------
\* The admin's redeliver request calls DeliverOrder.
Redeliver(p, o) ==
  /\ Accept(p, "redeliver", o)
  /\ Call(p, "load", o)
  /\ UNCHANGED <<tables, createPc, snap, note, hook, newlyPaid, todo, world>>

RetryStart(p) == p = "retry" /\ StartRun(p, Retriable)

RetryOne(p, o) ==
  /\ p = "retry"
  /\ Pick(p, o)
  /\ Call(p, "load", o)
  /\ UNCHANGED <<tables, createPc, snap, note, hook, newlyPaid, world>>

\* DeliverOrder from its first statement to its return.
DeliverOrder(p) ==
  \/ DeliverLoad(p)
  \/ DeliverRefused(p)
  \/ DeliverClaim(p)
  \/ DeliverAlready(p)
  \/ SendOk(p)
  \/ SendError(p)
  \/ RecordFailure(p)
  \/ Finalize(p)

DeliveryNext(p) ==
  \/ DeliverOrder(p)
  \/ RetryStart(p)
  \/ \E o \in Orders : Redeliver(p, o) \/ RetryOne(p, o)
=============================================================================
