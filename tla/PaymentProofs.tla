---------------------------- MODULE PaymentProofs ----------------------------
(***************************************************************************)
(* What a paid order and a recorded notification say about the gateway and *)
(* about each other, for every set of orders, goroutines and faults.       *)
(***************************************************************************)
EXTENDS StoreProofs

-----------------------------------------------------------------------------
(* Only orders that exist are worked on *)

Placed ==
  /\ \A p \in Procs : pc[p] \notin {"idle", "next"} => ordStatus[cur[p]] # "NONE"
  /\ \A p \in Procs : \A o \in todo[p] : ordStatus[o] # "NONE"
  /\ \A o \in Orders, s \in TxnStatus :
       ordStatus[o] = "NONE" => events[o][s] = "NONE"

\* A goroutine that begins to work on an order has found it.
Takes(p, o) == /\ ordStatus[o] # "NONE"
               /\ cur' = [cur EXCEPT ![p] = o]
               /\ \E label : pc' = [pc EXCEPT ![p] = label]

\* Creation, the clock, the customer and the gateway leave goroutines alone.
LEMMA OtherStep ==
  ASSUME CreateNext \/ WorldNext \/ UNCHANGED vars PROVE UNCHANGED frame
BY DEF CreateNext, CreateOrder, CreateCharge, CreateChargeFails,
       PersistPayment, PersistPaymentFails, CancelAndRelease, AbandonCreate,
       WorldNext, Tick, CustomerPays, GatewayCloses, vars

\* What a step of a goroutine does to its frame, as far as Placed goes.
LEMMA FrameStep ==
  ASSUME PaidInv, Placed, NEW p \in Procs, ProcNext(p)
  PROVE  /\ \/ \E o \in Orders : Takes(p, o)
            \/ /\ pc[p] \notin {"idle", "next"}
               /\ UNCHANGED cur
               /\ \E label : pc' = [pc EXCEPT ![p] = label]
            \/ /\ \E label \in {"idle", "next"} : pc' = [pc EXCEPT ![p] = label]
               /\ \A q \in Procs : q # p => cur'[q] = cur[q]
            \/ UNCHANGED <<pc, cur>>
         /\ \A q \in Procs : \A o \in todo'[q] :
              o \in Orders /\ ordStatus[o] # "NONE"
<1> USE DEF PaidInv, TypeOK, FramesTypeOK, Placed
<1>1. CASE OrderNext(p)
  <2>1. CASE \E o \in Orders : CancelRead(p, o)
    BY <2>1 DEF CancelRead, Accept, Call, Takes
  <2>2. CASE \E o \in Orders : ExpireOne(p, o)
    BY <2>2 DEF ExpireOne, Pick
  <2>3. CASE CancelCommit(p)
    BY <2>3 DEF CancelCommit, Return
  <2>4. CASE CleanupStart(p)
    BY <2>4 DEF CleanupStart, StartRun, Overdue
  <2> QED BY <1>1, <2>1, <2>2, <2>3, <2>4 DEF OrderNext
<1>2. CASE PaymentNext(p)
  <2>1. ASSUME NEW o \in Orders,
               \/ \E s \in TxnStatus : Notify(p, o, s)
               \/ Confirm(p, o) \/ ForceSettle(p, o)
        PROVE  Takes(p, o) /\ UNCHANGED todo
    BY <2>1 DEF Notify, Confirm, ForceSettle, Accept, Call, Takes
  <2>2. ASSUME NEW o \in Orders, ReconcileOne(p, o)
        PROVE  Takes(p, o) /\ \A q \in Procs : todo'[q] \subseteq todo[q]
    BY <2>2 DEF ReconcileOne, Pick, Call, Takes
  <2>3. CASE \E o \in Orders : \/ ReconcileSkip(p, o)
                               \/ \E s \in TxnStatus : NotifyBadSignature(p, o, s)
    BY <2>3 DEF ReconcileSkip, Pick, NotifyBadSignature, frame
  <2>4. ASSUME NEW paid, TriggerDelivery(p, paid), pc[p] \in {"apply", "mark"}
        PROVE  /\ \/ UNCHANGED cur /\ \E label : pc' = [pc EXCEPT ![p] = label]
                  \/ /\ \E label \in {"idle", "next"} :
                          pc' = [pc EXCEPT ![p] = label]
                     /\ \A q \in Procs : q # p => cur'[q] = cur[q]
               /\ UNCHANGED todo
    BY <2>4 DEF TriggerDelivery, Goto, Return
  <2>5. CASE ApplyTransition(p)
    BY <2>4, <2>5 DEF ApplyTransition
  <2>6. CASE MarkEvent(p)
    BY <2>4, <2>6 DEF MarkEvent
  <2>7. CASE ApplyNotification(p)
    BY <2>7 DEF ApplyNotification, Goto
  <2>8. CASE ReconcileStart(p)
    BY <2>8 DEF ReconcileStart, StartRun, PendingOlder
  <2> QED
    BY <1>2, <2>1, <2>2, <2>3, <2>5, <2>6, <2>7, <2>8 DEF PaymentNext
<1>3. CASE DeliveryNext(p)
  <2>1. CASE DeliverLoad(p) \/ DeliverClaim(p) \/ SendOk(p) \/ SendError(p)
    BY <2>1 DEF DeliverLoad, DeliverClaim, SendOk, SendError, Goto
  <2>2. CASE \/ DeliverRefused(p) \/ DeliverAlready(p) \/ RecordFailure(p)
             \/ Finalize(p)
    BY <2>2 DEF DeliverRefused, DeliverAlready, RecordFailure, Finalize, Return
  <2>3. CASE RetryStart(p)
    BY <2>3 DEF RetryStart, StartRun, Retriable, PaidBeforeDispatch
  <2>4. CASE \E o \in Orders : Redeliver(p, o)
    BY <2>4 DEF Redeliver, Accept, Call, Takes
  <2>5. ASSUME NEW o \in Orders, RetryOne(p, o)
        PROVE  Takes(p, o) /\ \A q \in Procs : todo'[q] \subseteq todo[q]
    BY <2>5 DEF RetryOne, Pick, Call, Takes
  <2> QED
    BY <1>3, <2>1, <2>2, <2>3, <2>4, <2>5 DEF DeliveryNext, DeliverOrder
<1>4. CASE EndRun(p)
  BY <1>4 DEF EndRun
<1>5. CASE Fail(p)
  BY <1>5 DEF Fail
<1>6. CASE FailOne(p)
  BY <1>6 DEF FailOne, Return
<1> QED BY <1>1, <1>2, <1>3, <1>4, <1>5, <1>6 DEF ProcNext

\* An order that exists goes on to exist, and nothing but creation makes one
\* PENDING.
LEMMA StatusStep ==
  ASSUME PaidInv, [Next]_vars, NEW o \in Orders
  PROVE  /\ ordStatus[o] # "NONE" => ordStatus'[o] # "NONE"
         /\ ordStatus'[o] = "PENDING" =>
              ordStatus[o] = "PENDING" \/ (ordStatus[o] = "NONE" /\ CreateNext)
<1> USE DEF PaidInv, TypeOK, TablesTypeOK
<1>1. CASE CreateNext
  <2>1. ASSUME NEW x \in Orders, NEW a \in Accounts, CreateOrder(x, a)
        PROVE  \/ ordStatus'[o] = ordStatus[o]
               \/ ordStatus[o] = "NONE" /\ ordStatus'[o] = "PENDING"
    <3>1. /\ ordStatus[x] = "NONE"
          /\ ordStatus' = [ordStatus EXCEPT ![x] = "PENDING"]
      BY <2>1, Zenon DEF CreateOrder, InsertOrder
    <3>2. CASE o = x
      BY <3>1, <3>2
    <3>3. CASE o # x
      BY <3>1, <3>3
    <3> QED BY <3>2, <3>3
  <2>2. ASSUME NEW x \in Orders, CancelAndRelease(x)
        PROVE  ordStatus'[o] \in {ordStatus[o], "CANCELLED"}
    BY <2>2 DEF CancelAndRelease, UpdateStatus
  <2>3. ASSUME NEW x \in Orders, \/ CreateCharge(x) \/ CreateChargeFails(x)
                                \/ PersistPayment(x) \/ PersistPaymentFails(x)
                                \/ AbandonCreate(x)
        PROVE  ordStatus' = ordStatus
    BY <2>3 DEF CreateCharge, CreateChargeFails, PersistPayment,
                PersistPaymentFails, AbandonCreate, tables, orderCols
  <2>4. CASE ordStatus'[o] \in {ordStatus[o], "CANCELLED"}
    BY <2>4
  <2>5. CASE ordStatus[o] = "NONE" /\ ordStatus'[o] = "PENDING"
    BY <1>1, <2>5
  <2> QED BY <1>1, <2>1, <2>2, <2>3, <2>4, <2>5 DEF CreateNext
<1>2. CASE WorldNext
  BY <1>2 DEF WorldNext, Tick, CustomerPays, GatewayCloses, tables
<1>3. ASSUME NEW p \in Procs, OrderNext(p)
      PROVE  ordStatus'[o] = ordStatus[o] \/ ordStatus'[o] \notin {"NONE", "PENDING"}
  BY <1>3 DEF OrderNext, CancelRead, ExpireOne, CancelCommit, UpdateStatus,
              CleanupStart, StartRun, tables
<1>4. ASSUME NEW p \in Procs, PaymentNext(p)
      PROVE  ordStatus'[o] = ordStatus[o] \/ ordStatus'[o] \notin {"NONE", "PENDING"}
  <2>1. ASSUME NEW x, NEW m, Transition(x, m)
        PROVE  ordStatus'[o] = ordStatus[o] \/ ordStatus'[o] \notin {"NONE", "PENDING"}
    BY <2>1 DEF Transition, Settle, MarkPaid, Close, UpdateStatus, orderCols
  <2>2. UNCHANGED ordStatus \/ Transition(cur[p], MapTransactionStatus(note[p]))
    BY <1>4
    DEF PaymentNext, Notify, NotifyBadSignature, Confirm, ForceSettle,
        ReconcileOne, ReconcileSkip, ApplyTransition, ApplyNotification,
        MarkEvent, ReconcileStart, StartRun, tables, orderCols
  <2> QED BY <2>1, <2>2
<1>5. ASSUME NEW p \in Procs, DeliveryNext(p)
      PROVE  ordStatus'[o] = ordStatus[o] \/ ordStatus'[o] \notin {"NONE", "PENDING"}
  BY <1>5
  DEF DeliveryNext, DeliverOrder, DeliverLoad, DeliverRefused, DeliverClaim,
      DeliverAlready, SendOk, SendError, RecordFailure, Finalize,
      MarkOrderDelivered, UpdateStatus, RetryStart, StartRun, Redeliver,
      RetryOne, tables, orderCols
<1>6. ASSUME NEW p \in Procs, EndRun(p) \/ Fail(p) \/ FailOne(p)
      PROVE  ordStatus'[o] = ordStatus[o]
  BY <1>6 DEF EndRun, Fail, FailOne, tables
<1>7. CASE UNCHANGED vars
  BY <1>7 DEF vars, tables
<1> QED BY <1>1, <1>2, <1>3, <1>4, <1>5, <1>6, <1>7 DEF Next, ProcNext

\* An event is recorded for an order that exists, and flagged as processed by
\* the goroutine that applied it.
LEMMA EventStep ==
  ASSUME PaidInv, Placed, [Next]_vars, NEW o \in Orders, NEW s \in TxnStatus
  PROVE  \/ events'[o][s] = events[o][s]
         \/ /\ ordStatus[o] # "NONE"
            /\ \/ events'[o][s] = "recorded"
               \/ /\ events'[o][s] = "processed"
                  /\ \E p \in Procs :
                       /\ pc[p] = "mark" /\ cur[p] = o /\ note[p] = s
                       /\ MarkEvent(p)
<1> USE DEF PaidInv, TypeOK, TablesTypeOK
<1>1. CASE CreateNext
  BY <1>1
  DEF CreateNext, CreateOrder, CreateCharge, CreateChargeFails, PersistPayment,
      PersistPaymentFails, CancelAndRelease, AbandonCreate, tables
<1>2. CASE WorldNext
  BY <1>2 DEF WorldNext, Tick, CustomerPays, GatewayCloses, tables
<1>3. ASSUME NEW p \in Procs, MarkEvent(p)
      PROVE  \/ events'[o][s] = events[o][s]
             \/ /\ ordStatus[o] # "NONE" /\ events'[o][s] = "processed"
                /\ pc[p] = "mark" /\ cur[p] = o /\ note[p] = s
  <2>1. pc[p] = "mark" /\ ordStatus[cur[p]] # "NONE"
    BY <1>3 DEF MarkEvent, Placed
  <2>2. \/ events' = [events EXCEPT ![cur[p]][note[p]] = "processed"]
        \/ UNCHANGED events
    BY <1>3 DEF MarkEvent, MarkProcessed
  <2>3. events[o] \in [TxnStatus -> EventState]
    OBVIOUS
  <2>4. CASE o = cur[p] /\ s = note[p]
    BY <2>1, <2>2, <2>3, <2>4
  <2>5. CASE ~(o = cur[p] /\ s = note[p])
    BY <2>2, <2>3, <2>5
  <2> QED BY <2>4, <2>5
<1>4. ASSUME NEW p \in Procs, NEW x \in Orders, NEW t \in TxnStatus,
             Notify(p, x, t) \/ NotifyBadSignature(p, x, t)
      PROVE  \/ events'[o][s] = events[o][s]
             \/ ordStatus[o] # "NONE" /\ events'[o][s] = "recorded"
  BY <1>4 DEF Notify, NotifyBadSignature, InsertEvent, Accept
<1>5. ASSUME NEW p \in Procs, PaymentNext(p), ~MarkEvent(p),
             \A x \in Orders, t \in TxnStatus :
               ~Notify(p, x, t) /\ ~NotifyBadSignature(p, x, t)
      PROVE  UNCHANGED events
  BY <1>5
  DEF PaymentNext, Confirm, ForceSettle, ReconcileOne, ReconcileSkip,
      ApplyTransition, ApplyNotification, ReconcileStart, StartRun, tables
<1>6. ASSUME NEW p \in Procs,
             OrderNext(p) \/ DeliveryNext(p) \/ EndRun(p) \/ Fail(p) \/ FailOne(p)
      PROVE  UNCHANGED events
  BY <1>6
  DEF OrderNext, CancelRead, ExpireOne, CancelCommit, CleanupStart, StartRun,
      DeliveryNext, DeliverOrder, DeliverLoad, DeliverRefused, DeliverClaim,
      DeliverAlready, SendOk, SendError, RecordFailure, Finalize, RetryStart,
      Redeliver, RetryOne, EndRun, Fail, FailOne, tables
<1>7. CASE UNCHANGED vars
  BY <1>7 DEF vars, tables
<1> QED BY <1>1, <1>2, <1>3, <1>4, <1>5, <1>6, <1>7 DEF Next, ProcNext

LEMMA PlacedInvariant == Spec => []Placed
<1>1. Init => Placed
  BY DEF Init, TablesInit, FramesInit, Placed
<1>2. PaidInv /\ Placed /\ [Next]_vars => Placed'
  <2> SUFFICES ASSUME PaidInv, Placed, [Next]_vars PROVE Placed'
    OBVIOUS
  <2>1. \A o \in Orders : ordStatus[o] # "NONE" => ordStatus'[o] # "NONE"
    BY StatusStep
  <2>2. \A o \in Orders, s \in TxnStatus :
          ordStatus'[o] = "NONE" => events'[o][s] = "NONE"
    BY <2>1, EventStep DEF Placed
  <2>3. CASE UNCHANGED frame
    BY <2>1, <2>2, <2>3 DEF Placed, PaidInv, TypeOK, FramesTypeOK, frame
  <2>4. ASSUME NEW p \in Procs, ProcNext(p) PROVE Placed'
    <3>1. \A q \in Procs :
            pc'[q] \notin {"idle", "next"} => ordStatus'[cur'[q]] # "NONE"
      BY <2>1, <2>4, FrameStep DEF Takes, Placed, PaidInv, TypeOK, FramesTypeOK
    <3> QED BY <2>1, <2>2, <2>4, <3>1, FrameStep DEF Placed
  <2> QED BY <2>3, <2>4, OtherStep DEF Next
<1> QED BY <1>1, <1>2, PaidInvariant, PTL DEF Spec

-----------------------------------------------------------------------------
(* What a goroutine is about to apply *)

\* Where the transaction status comes from that a goroutine begins to apply.
ManualRequests == Requests \cap {"confirm", "forceSettle"}

Begins(p, o) ==
  /\ pc[p] \in {"idle", "next"}
  /\ pc' = [pc EXCEPT ![p] = "apply"]
  /\ cur' = [cur EXCEPT ![p] = o]
  /\ \/ \E s \in TxnStatus : Notify(p, o, s)
     \/ note' = [note EXCEPT ![p] = charge[o]] /\ UNCHANGED hook
     \/ /\ ManualRequests # {}
        /\ note' = [note EXCEPT ![p] = "settlement"]
        /\ UNCHANGED hook

Keeps(q) == /\ pc'[q] = pc[q] /\ cur'[q] = cur[q]
            /\ note'[q] = note[q] /\ hook'[q] = hook[q]

\* hook is up only between the event and its mark.
HookInv == \A p \in Procs : hook[p] => pc[p] \in {"apply", "mark"}

LEMMA NoteStep ==
  ASSUME PaidInv, HookInv, NEW p \in Procs, ProcNext(p)
  PROVE  /\ \A q \in Procs \ {p} : Keeps(q)
         /\ \/ \E o \in Orders : Begins(p, o)
            \/ ApplyNotification(p) /\ pc'[p] = "mark"
            \/ Keeps(p)
            \/ pc'[p] \notin {"apply", "mark"} /\ ~hook'[p]
<1> USE DEF PaidInv, TypeOK, FramesTypeOK, HookInv, Keeps
<1>1. ASSUME Return(p)
      PROVE  /\ \A q \in Procs \ {p} : Keeps(q)
             /\ pc'[p] \notin {"apply", "mark"} /\ ~hook'[p]
  BY <1>1 DEF Return
<1>2. ASSUME NEW paid, TriggerDelivery(p, paid)
      PROVE  /\ \A q \in Procs \ {p} : Keeps(q)
             /\ pc'[p] \notin {"apply", "mark"} /\ ~hook'[p]
  BY <1>1, <1>2 DEF TriggerDelivery, Goto
<1>3. ASSUME NEW list, StartRun(p, list)
      PROVE  /\ \A q \in Procs \ {p} : Keeps(q)
             /\ pc'[p] \notin {"apply", "mark"} /\ ~hook'[p]
  BY <1>3 DEF StartRun
<1>4. CASE OrderNext(p)
  <2>1. CASE \E o \in Orders : CancelRead(p, o) \/ ExpireOne(p, o)
    BY <2>1 DEF CancelRead, Accept, Call, ExpireOne
  <2>2. CASE CancelCommit(p)
    BY <1>1, <2>2 DEF CancelCommit
  <2> QED BY <1>3, <1>4, <2>1, <2>2 DEF OrderNext, CleanupStart
<1>5. CASE PaymentNext(p)
  <2>1. ASSUME NEW o \in Orders, NEW s \in TxnStatus, Notify(p, o, s)
        PROVE  Begins(p, o) /\ \A q \in Procs \ {p} : Keeps(q)
    <3>1. /\ pc[p] = "idle"
          /\ pc' = [pc EXCEPT ![p] = "apply"]
          /\ cur' = [cur EXCEPT ![p] = o]
          /\ note' = [note EXCEPT ![p] = s]
          /\ hook' = [hook EXCEPT ![p] = TRUE]
      BY <2>1 DEF Notify, Accept, Call
    <3> QED BY <2>1, <3>1 DEF Begins
  <2>2. ASSUME NEW o \in Orders, Confirm(p, o) \/ ForceSettle(p, o)
        PROVE  Begins(p, o) /\ \A q \in Procs \ {p} : Keeps(q)
    BY <2>2 DEF Confirm, ForceSettle, Accept, Call, Begins, ManualRequests
  <2>3. ASSUME NEW o \in Orders, ReconcileOne(p, o)
        PROVE  Begins(p, o) /\ \A q \in Procs \ {p} : Keeps(q)
    BY <2>3 DEF ReconcileOne, Pick, Call, Begins
  <2>4. CASE \E o \in Orders : \/ ReconcileSkip(p, o)
                               \/ \E s \in TxnStatus : NotifyBadSignature(p, o, s)
    BY <2>4 DEF ReconcileSkip, NotifyBadSignature, frame
  <2>5. CASE ApplyTransition(p) \/ MarkEvent(p)
    BY <1>2, <2>5 DEF ApplyTransition, MarkEvent
  <2>6. CASE ApplyNotification(p)
    BY <2>6 DEF ApplyNotification, Goto
  <2>7. CASE ReconcileStart(p)
    BY <1>3, <2>7 DEF ReconcileStart
  <2> QED
    BY <1>5, <2>1, <2>2, <2>3, <2>4, <2>5, <2>6, <2>7 DEF PaymentNext
<1>6. CASE DeliveryNext(p)
  <2>1. CASE DeliverLoad(p) \/ DeliverClaim(p) \/ SendOk(p) \/ SendError(p)
    BY <2>1 DEF DeliverLoad, DeliverClaim, SendOk, SendError, Goto
  <2>2. CASE \/ DeliverRefused(p) \/ DeliverAlready(p) \/ RecordFailure(p)
             \/ Finalize(p)
    BY <1>1, <2>2 DEF DeliverRefused, DeliverAlready, RecordFailure, Finalize
  <2>3. CASE RetryStart(p)
    BY <1>3, <2>3 DEF RetryStart
  <2>4. CASE \E o \in Orders : Redeliver(p, o) \/ RetryOne(p, o)
    BY <2>4 DEF Redeliver, Accept, RetryOne, Pick, Call
  <2> QED BY <1>6, <2>1, <2>2, <2>3, <2>4 DEF DeliveryNext, DeliverOrder
<1>7. CASE EndRun(p) \/ Fail(p)
  BY <1>7 DEF EndRun, Fail
<1>8. CASE FailOne(p)
  BY <1>1, <1>8 DEF FailOne
<1> QED BY <1>4, <1>5, <1>6, <1>7, <1>8 DEF ProcNext

LEMMA HookInvariant == Spec => []HookInv
<1>1. Init => HookInv
  BY DEF Init, FramesInit, HookInv
<1>2. PaidInv /\ HookInv /\ [Next]_vars => HookInv'
  <2> SUFFICES ASSUME PaidInv, HookInv, [Next]_vars PROVE HookInv'
    OBVIOUS
  <2>1. CASE UNCHANGED frame
    BY <2>1 DEF HookInv, frame
  <2>2. ASSUME NEW p \in Procs, ProcNext(p), NEW q \in Procs, hook'[q]
        PROVE  pc'[q] \in {"apply", "mark"}
    BY <2>2, NoteStep DEF Begins, Keeps, HookInv, PaidInv, TypeOK, FramesTypeOK
  <2> QED BY <2>1, <2>2, OtherStep DEF Next, HookInv
<1> QED BY <1>1, <1>2, PaidInvariant, PTL DEF Spec

-----------------------------------------------------------------------------
(* Money *)

\* MoneyBehindPaid is not inductive: a goroutine applies a settlement some
\* time after the gateway reported it.  A transaction that has settled stays
\* settled, because only CreateOrder opens one, once.
MoneyInv ==
  /\ \A o \in Orders : createPc[o] \in {"idle", "charge"} => charge[o] = "none"
  /\ \A p \in Procs : pc[p] = "apply" /\ note[p] = "settlement"
                        => charge[cur[p]] = "settlement"
  /\ \A o \in Orders : paidAt[o] => charge[o] = "settlement"

LEMMA ChargeStep ==
  ASSUME TypeOK, MoneyInv, [Next]_vars, NEW o \in Orders
  PROVE  /\ createPc'[o] \in {"idle", "charge"} => charge'[o] = "none"
         /\ charge[o] = "settlement" => charge'[o] = "settlement"
<1> USE DEF TypeOK, FramesTypeOK, MoneyInv
<1>1. ASSUME NEW x \in Orders, NEW a \in Accounts, CreateOrder(x, a)
      PROVE  /\ UNCHANGED charge
             /\ createPc[x] = "idle" /\ createPc' = [createPc EXCEPT ![x] = "charge"]
  BY <1>1 DEF CreateOrder, world
<1>2. ASSUME NEW x \in Orders, CreateCharge(x) \/ CreateChargeFails(x)
      PROVE  /\ createPc[x] = "charge"
             /\ \E label \in {"persist", "rollback"} :
                  createPc' = [createPc EXCEPT ![x] = label]
             /\ charge' \in {charge, [charge EXCEPT ![x] = "pending"]}
  BY <1>2 DEF CreateCharge, CreateChargeFails
<1>3. ASSUME NEW x \in Orders,
             \/ PersistPayment(x) \/ PersistPaymentFails(x)
             \/ CancelAndRelease(x) \/ AbandonCreate(x)
      PROVE  /\ UNCHANGED charge
             /\ \E label \in {"answered", "rollback", "over"} :
                  createPc' = [createPc EXCEPT ![x] = label]
  BY <1>3 DEF PersistPayment, PersistPaymentFails, CancelAndRelease,
              AbandonCreate, world
<1>4. CASE CreateNext
  BY <1>1, <1>2, <1>3, <1>4 DEF CreateNext
<1>5. ASSUME NEW x \in Orders, Tick(x) \/ CustomerPays(x) \/ GatewayCloses(x)
      PROVE  /\ UNCHANGED createPc
             /\ \/ UNCHANGED charge
                \/ charge[x] = "pending" /\ \E s : charge' = [charge EXCEPT ![x] = s]
  BY <1>5 DEF Tick, CustomerPays, GatewayCloses
<1>6. ASSUME NEW p \in Procs, ProcNext(p) PROVE UNCHANGED <<createPc, charge>>
  BY <1>6
  DEF ProcNext, OrderNext, CancelRead, ExpireOne, CancelCommit, CleanupStart,
      StartRun, PaymentNext, Notify, NotifyBadSignature, Confirm, ForceSettle,
      ReconcileOne, ReconcileSkip, ApplyTransition, ApplyNotification,
      MarkEvent, ReconcileStart, DeliveryNext, DeliverOrder, DeliverLoad,
      DeliverRefused, DeliverClaim, DeliverAlready, SendOk, SendError,
      RecordFailure, Finalize, RetryStart, Redeliver, RetryOne, EndRun, Fail,
      FailOne, world
<1>7. CASE UNCHANGED vars
  BY <1>7 DEF vars, world
<1> QED BY <1>4, <1>5, <1>6, <1>7 DEF Next, WorldNext

\* Only a settlement that is applied makes an order paid.
LEMMA PaidStep ==
  ASSUME PaidInv, [Next]_vars, NEW o \in Orders, paidAt'[o], ~paidAt[o]
  PROVE  \E p \in Procs : pc[p] = "apply" /\ cur[p] = o /\ note[p] = "settlement"
<1> USE DEF PaidInv, TypeOK, TablesTypeOK
<1>1. ASSUME NEW p \in Procs, ApplyTransition(p) \/ ApplyNotification(p)
      PROVE  pc[p] = "apply" /\ cur[p] = o /\ note[p] = "settlement"
  <2>1. pc[p] = "apply" /\ Transition(cur[p], MapTransactionStatus(note[p]))
    BY <1>1 DEF ApplyTransition, ApplyNotification
  <2>2. MapTransactionStatus(note[p]) = "SETTLEMENT" /\ Settle(cur[p])
    BY <1>1, <2>1 DEF Transition, Close, UpdateStatus, orderCols
  <2>3. cur[p] = o
    BY <2>2 DEF Settle, MarkPaid
  <2>4. note[p] = "settlement"
    BY <2>2 DEF MapTransactionStatus, FramesTypeOK, TxnStatus
  <2> QED BY <2>1, <2>3, <2>4
<1>2. CASE CreateNext \/ WorldNext \/ UNCHANGED vars
  BY <1>2
  DEF CreateNext, CreateOrder, InsertOrder, CreateCharge, CreateChargeFails,
      PersistPayment, PersistPaymentFails, CancelAndRelease, UpdateStatus,
      AbandonCreate, WorldNext, Tick, CustomerPays, GatewayCloses, vars,
      tables, orderCols
<1>3. ASSUME NEW p \in Procs, ProcNext(p),
             ~(ApplyTransition(p) \/ ApplyNotification(p))
      PROVE  UNCHANGED paidAt
  BY <1>3
  DEF ProcNext, OrderNext, CancelRead, ExpireOne, CancelCommit, UpdateStatus,
      CleanupStart, StartRun, PaymentNext, Notify, NotifyBadSignature, Confirm,
      ForceSettle, ReconcileOne, ReconcileSkip, MarkEvent, ReconcileStart,
      DeliveryNext, DeliverOrder, DeliverLoad, DeliverRefused, DeliverClaim,
      DeliverAlready, SendOk, SendError, RecordFailure, Finalize,
      MarkOrderDelivered, RetryStart, Redeliver, RetryOne, EndRun, Fail,
      FailOne, tables, orderCols
<1> QED BY <1>1, <1>2, <1>3 DEF Next

\* Where nobody confirms by hand, an order is paid only when the gateway has
\* settled its transaction: notifications that are late, repeated or tampered
\* with, and status queries, add nothing to what the gateway said.
THEOREM PaidHasMoney == Spec => []MoneyBehindPaid
<1>1. CASE ManualRequests # {}
  <2>1. MoneyBehindPaid
    BY <1>1 DEF MoneyBehindPaid, ManualRequests
  <2> QED BY <2>1, PTL
<1>2. CASE ManualRequests = {}
  <2>1. Init => MoneyInv
    BY DEF Init, TablesInit, FramesInit, MoneyInv
  <2>2. PaidInv /\ HookInv /\ MoneyInv /\ [Next]_vars => MoneyInv'
    <3> SUFFICES ASSUME PaidInv, HookInv, MoneyInv, [Next]_vars PROVE MoneyInv'
      OBVIOUS
    <3>1. \A o \in Orders :
            /\ createPc'[o] \in {"idle", "charge"} => charge'[o] = "none"
            /\ charge[o] = "settlement" => charge'[o] = "settlement"
      BY ChargeStep DEF PaidInv
    <3>2. \A o \in Orders : paidAt'[o] => charge'[o] = "settlement"
      BY <3>1, PaidStep DEF MoneyInv, PaidInv
    <3>3. ASSUME NEW q \in Procs, pc'[q] = "apply", note'[q] = "settlement"
          PROVE  charge'[cur'[q]] = "settlement"
      <4>1. CASE Keeps(q)
        <5>1. pc[q] = "apply" /\ cur[q] \in Orders
          BY <3>3, <4>1 DEF Keeps, PaidInv
        <5> QED BY <3>1, <3>3, <4>1, <5>1 DEF Keeps, MoneyInv
      <4>2. ASSUME NEW o \in Orders, Begins(q, o)
            PROVE  charge'[cur'[q]] = "settlement"
        <5>1. cur'[q] = o
          BY <4>2 DEF Begins, PaidInv, TypeOK, FramesTypeOK
        <5>2. charge[o] = "settlement"
          BY <1>2, <3>3, <4>2
          DEF Begins, Notify, Notices, PaidInv, TypeOK, FramesTypeOK
        <5> QED BY <3>1, <5>1, <5>2
      <4>3. CASE UNCHANGED frame
        BY <4>1, <4>3 DEF frame, Keeps
      <4>4. ASSUME NEW p \in Procs, ProcNext(p)
            PROVE  Keeps(q) \/ \E o \in Orders : Begins(q, o)
        BY <3>3, <4>4, NoteStep
      <4> QED BY <4>1, <4>2, <4>3, <4>4, OtherStep DEF Next
    <3> QED BY <3>1, <3>2, <3>3 DEF MoneyInv
  <2>3. MoneyInv => MoneyBehindPaid
    BY DEF MoneyInv, MoneyBehindPaid
  <2> QED BY <2>1, <2>2, <2>3, PaidInvariant, HookInvariant, PTL DEF Spec
<1> QED BY <1>1, <1>2

-----------------------------------------------------------------------------
(* What a recorded event says about its order *)

\* The transition of a notification other than "pending" leaves no order
\* PENDING: it moves the order, or finds it moved.
LEMMA ApplyStep ==
  ASSUME PaidInv, NEW p \in Procs, ApplyNotification(p), note[p] # "pending"
  PROVE  ordStatus'[cur[p]] # "PENDING"
<1>1. cur[p] \in Orders /\ Transition(cur[p], MapTransactionStatus(note[p]))
  BY DEF ApplyNotification, PaidInv
<1>2. MapTransactionStatus(note[p]) \in {"SETTLEMENT", "EXPIRED", "DENIED", "CANCELLED"}
  BY DEF MapTransactionStatus, PaidInv, TypeOK, FramesTypeOK, TxnStatus
<1> QED
  BY <1>1, <1>2
  DEF Transition, MayTransition, Settle, MarkPaid, Close, UpdateStatus,
      orderCols, PaidInv, TypeOK, TablesTypeOK

\* ProcessedTookEffect, and that the flag is set after the transition only.
EffectInv ==
  /\ ProcessedTookEffect
  /\ \A p \in Procs : pc[p] = "mark" /\ note[p] # "pending"
                        => ordStatus[cur[p]] # "PENDING"

LEMMA EffectInvariant == Spec => []EffectInv
<1>1. Init => EffectInv
  BY DEF Init, TablesInit, FramesInit, EffectInv, ProcessedTookEffect
<1>2. PaidInv /\ HookInv /\ Placed /\ EffectInv /\ [Next]_vars => EffectInv'
  <2> SUFFICES ASSUME PaidInv, HookInv, Placed, EffectInv, [Next]_vars
               PROVE  EffectInv'
    OBVIOUS
  <2>1. \A o \in Orders : ordStatus[o] \notin {"NONE", "PENDING"}
                            => ordStatus'[o] # "PENDING"
    BY StatusStep
  <2>2. ASSUME NEW o \in Orders, NEW s \in TxnStatus \ {"pending"},
               events'[o][s] = "processed"
        PROVE  ordStatus'[o] # "PENDING"
    <3>1. CASE events[o][s] = "processed"
      BY <2>1, <3>1 DEF EffectInv, ProcessedTookEffect, Placed
    <3>2. CASE events[o][s] # "processed"
      BY <2>1, <2>2, <3>2, EventStep DEF EffectInv
    <3> QED BY <3>1, <3>2
  <2>3. ASSUME NEW q \in Procs, pc'[q] = "mark", note'[q] # "pending"
        PROVE  ordStatus'[cur'[q]] # "PENDING"
    <3>1. CASE Keeps(q)
      <4>1. pc[q] = "mark" /\ cur[q] \in Orders /\ ordStatus[cur[q]] # "NONE"
        BY <2>3, <3>1 DEF Keeps, PaidInv, Placed
      <4> QED BY <2>1, <2>3, <3>1, <4>1 DEF Keeps, EffectInv
    <3>2. CASE ApplyNotification(q)
      BY <2>3, <3>2, ApplyStep DEF ApplyNotification, Goto
    <3>3. CASE UNCHANGED frame
      BY <3>1, <3>3 DEF frame, Keeps
    <3>4. ASSUME NEW p \in Procs, ProcNext(p)
          PROVE  Keeps(q) \/ ApplyNotification(q)
      BY <2>3, <3>4, NoteStep DEF Begins, PaidInv, TypeOK, FramesTypeOK
    <3> QED BY <3>1, <3>2, <3>3, <3>4, OtherStep DEF Next
  <2> QED BY <2>2, <2>3 DEF EffectInv, ProcessedTookEffect
<1> QED
  BY <1>1, <1>2, PaidInvariant, HookInvariant, PlacedInvariant, PTL DEF Spec

\* Whatever fails between the two, and whatever cancellations, jobs and tampered
\* notifications do: an event is flagged only after it, or another, moved its
\* order (HandleNotification marks after applyTransition).
THEOREM ProcessedHasEffect == Spec => []ProcessedTookEffect
<1>1. EffectInv => ProcessedTookEffect
  BY DEF EffectInv
<1> QED BY <1>1, EffectInvariant, PTL

\* Where every recorded notification is genuine and no statement fails.
EventsAreApplied == "badSignature" \notin Requests /\ "db" \notin Faults

\* An event whose order still is PENDING is about to be applied.
InHand(o, s) == \E p \in Procs : /\ hook[p] /\ pc[p] = "apply"
                                 /\ cur[p] = o /\ note[p] = s

HandledInv ==
  \A o \in Orders, s \in TxnStatus \ {"pending"} :
    IsDuplicate(o, s) /\ ordStatus[o] = "PENDING" => InHand(o, s)

\* Without failing statements the goroutine that has an event in hand lets go
\* of it by applying it.
LEMMA HandStep ==
  ASSUME EventsAreApplied, PaidInv, HookInv, [Next]_vars,
         NEW q \in Procs, hook[q], pc[q] = "apply"
  PROVE  Keeps(q) \/ ApplyNotification(q)
<1> USE DEF PaidInv, TypeOK, FramesTypeOK
<1>1. CASE UNCHANGED frame
  BY <1>1 DEF frame, Keeps
<1>2. ASSUME NEW p \in Procs, ProcNext(p)
      PROVE  Keeps(q) \/ ApplyNotification(q)
  <2>1. CASE q # p
    BY <1>2, <2>1, NoteStep
  <2>2. CASE q = p
    <3>1. ~Fail(p) /\ ~FailOne(p)
      BY DEF EventsAreApplied, Fail, FailOne
    <3>2. ~OrderNext(p) \/ UNCHANGED frame \/ pc[p] # "apply"
      BY DEF OrderNext, CancelRead, Accept, ExpireOne, Pick, CancelCommit,
             CleanupStart, StartRun
    <3>3. DeliveryNext(p) => pc[p] # "apply"
      BY DEF DeliveryNext, DeliverOrder, DeliverLoad, DeliverRefused,
             DeliverClaim, DeliverAlready, SendOk, SendError, RecordFailure,
             Finalize, RetryStart, StartRun, Redeliver, Accept, RetryOne, Pick
    <3>4. PaymentNext(p) => \/ ApplyNotification(p) \/ UNCHANGED frame
                            \/ pc[p] # "apply" \/ ~hook[p]
      BY DEF PaymentNext, Notify, NotifyBadSignature, Confirm, ForceSettle,
             Accept, ReconcileOne, ReconcileSkip, Pick, ApplyTransition,
             MarkEvent, ReconcileStart, StartRun
    <3> QED
      BY <1>1, <1>2, <2>2, <3>1, <3>2, <3>3, <3>4 DEF ProcNext, EndRun
  <2> QED BY <2>1, <2>2
<1> QED BY <1>1, <1>2, OtherStep DEF Next

\* The notification that records an event takes it in hand, and only such an
\* event can be flagged.
LEMMA RecordStep ==
  ASSUME EventsAreApplied, PaidInv, Placed, EffectInv, [Next]_vars,
         NEW o \in Orders, NEW s \in TxnStatus \ {"pending"},
         ~IsDuplicate(o, s), IsDuplicate(o, s)', ordStatus'[o] = "PENDING"
  PROVE  InHand(o, s)'
<1> USE DEF PaidInv, TypeOK, TablesTypeOK, FramesTypeOK
<1>1. ASSUME NEW p \in Procs, NEW x \in Orders, NEW t \in TxnStatus,
             Notify(p, x, t)
      PROVE  InHand(o, s)'
  <2>1. /\ events' = [events EXCEPT ![x][t] = "recorded"]
        /\ pc'[p] = "apply" /\ cur'[p] = x /\ note'[p] = t /\ hook'[p]
    BY <1>1 DEF Notify, InsertEvent, Call
  <2>2. x = o /\ t = s
    BY <2>1 DEF IsDuplicate
  <2> QED BY <2>1, <2>2 DEF InHand
<1>2. ASSUME NEW p \in Procs, MarkEvent(p) PROVE FALSE
  <2>1. \/ events' = [events EXCEPT ![cur[p]][note[p]] = "processed"]
        \/ UNCHANGED events
    BY <1>2 DEF MarkEvent, MarkProcessed
  <2>2. cur[p] = o /\ note[p] = s
    <3>1. events'[o][s] # events[o][s] /\ events[o] \in [TxnStatus -> EventState]
      BY DEF IsDuplicate
    <3>2. CASE cur[p] # o
      BY <2>1, <3>1, <3>2
    <3>3. CASE cur[p] = o /\ note[p] # s
      BY <2>1, <3>1, <3>3
    <3> QED BY <3>2, <3>3
  <2>3. ordStatus'[o] = ordStatus[o] /\ ordStatus[o] # "PENDING"
    BY <1>2, <2>2 DEF MarkEvent, EffectInv, orderCols
  <2> QED BY <2>3
<1>3. ASSUME ~\E p \in Procs : \/ MarkEvent(p)
                               \/ \E x \in Orders, t \in TxnStatus : Notify(p, x, t)
      PROVE  UNCHANGED events
  BY <1>3
  DEF Next, CreateNext, CreateOrder, CreateCharge, CreateChargeFails,
      PersistPayment, PersistPaymentFails, CancelAndRelease, AbandonCreate,
      WorldNext, Tick, CustomerPays, GatewayCloses, ProcNext, OrderNext,
      CancelRead, ExpireOne, CancelCommit, CleanupStart, StartRun, PaymentNext,
      NotifyBadSignature, Accept, EventsAreApplied, Confirm, ForceSettle,
      ReconcileOne, ReconcileSkip, ApplyTransition, ApplyNotification,
      ReconcileStart, DeliveryNext, DeliverOrder, DeliverLoad, DeliverRefused,
      DeliverClaim, DeliverAlready, SendOk, SendError, RecordFailure, Finalize,
      RetryStart, Redeliver, RetryOne, EndRun, Fail, FailOne, vars, tables
<1> QED BY <1>1, <1>2, <1>3 DEF IsDuplicate

\* HandleNotification acknowledges a duplicate without looking at its order.
\* Where no recorded event was refused for its signature and no statement
\* fails, that is right: the order has moved, or the handler of the first copy
\* is about to move it.
THEOREM DuplicatesAreHandled ==
  EventsAreApplied => (Spec => []DuplicateIsHandled)
<1> SUFFICES ASSUME EventsAreApplied PROVE Spec => []DuplicateIsHandled
  OBVIOUS
<1>1. Init => HandledInv
  BY DEF Init, TablesInit, HandledInv, IsDuplicate
<1>2. PaidInv /\ HookInv /\ Placed /\ EffectInv /\ HandledInv /\ [Next]_vars
        => HandledInv'
  <2> SUFFICES ASSUME PaidInv, HookInv, Placed, EffectInv, HandledInv,
                      [Next]_vars,
                      NEW o \in Orders, NEW s \in TxnStatus \ {"pending"},
                      IsDuplicate(o, s)', ordStatus'[o] = "PENDING"
               PROVE  InHand(o, s)'
    BY DEF HandledInv, IsDuplicate
  <2>1. CASE ~IsDuplicate(o, s)
    BY <2>1, RecordStep
  <2>2. CASE IsDuplicate(o, s)
    <3>1. ordStatus[o] = "PENDING"
      BY <2>2, StatusStep DEF Placed, IsDuplicate
    <3>2. PICK q \in Procs : /\ hook[q] /\ pc[q] = "apply"
                             /\ cur[q] = o /\ note[q] = s
      BY <2>2, <3>1 DEF HandledInv, InHand
    <3>3. ~ApplyNotification(q)
      BY <3>2, ApplyStep
    <3>4. Keeps(q)
      BY <3>2, <3>3, HandStep
    <3> QED BY <3>2, <3>4 DEF Keeps, InHand
  <2> QED BY <2>1, <2>2
<1>3. HandledInv => DuplicateIsHandled
  BY DEF HandledInv, DuplicateIsHandled, InHand
<1> QED
  BY <1>1, <1>2, <1>3, PaidInvariant, HookInvariant, PlacedInvariant,
     EffectInvariant, PTL DEF Spec
=============================================================================
