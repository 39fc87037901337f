---------------------------- MODULE DeliveryProofs ----------------------------
(***************************************************************************)
(* Delivery: what is sent, recorded and retried, for every set of orders,  *)
(* goroutines and faults.                                                  *)
(***************************************************************************)
EXTENDS LedgerProofs, PaymentProofs

-----------------------------------------------------------------------------
(* A goroutine on its way through DeliverOrder *)

\* It has DeliverOrder to run, or is in it.
Busy(p) == \/ Delivering(p)
           \/ pc[p] = "load"
           \/ pc[p] = "mark" /\ newlyPaid[p]

Waits(q) == /\ pc'[q] = pc[q] /\ cur'[q] = cur[q]
            /\ snap'[q] = snap[q] /\ newlyPaid'[q] = newlyPaid[q]

LeavesDelivery == UNCHANGED <<deliveryCols, sent>>

\* applyTransition made the order paid; HandleNotification marks its event
\* first.
Triggers(p) == /\ LeavesDelivery
               /\ cur'[p] = cur[p]
               /\ pc'[p] \in {"load", "mark"}
               /\ \/ Busy(p) /\ pc[p] = "mark"
                  \/ /\ pc[p] = "apply"
                     /\ ordStatus[cur[p]] = "PENDING"
                     /\ paidAt'[cur[p]]

Enters(p, o) == Redeliver(p, o) \/ RetryOne(p, o)

\* What a step of a goroutine is to deliveries.
LEMMA WalkStep ==
  ASSUME PaidInv, HookInv, NEW p \in Procs, ProcNext(p)
  PROVE  /\ \A q \in Procs \ {p} : Waits(q)
         /\ \/ LeavesDelivery /\ (Waits(p) \/ ~Busy(p)')
            \/ Triggers(p)
            \/ \E o \in Orders : Enters(p, o)
            \/ DeliverLoad(p) \/ DeliverClaim(p) \/ SendOk(p) \/ SendError(p)
            \/ RecordFailure(p) \/ Finalize(p)
<1> USE DEF PaidInv, TypeOK, FramesTypeOK, Waits, Busy, Delivering,
            LeavesDelivery
<1>1. ASSUME Return(p)
      PROVE  ~Busy(p)' /\ \A q \in Procs \ {p} : Waits(q)
  BY <1>1 DEF Return
<1>2. ASSUME NEW list, StartRun(p, list)
      PROVE  LeavesDelivery /\ ~Busy(p)' /\ \A q \in Procs \ {p} : Waits(q)
  BY <1>2 DEF StartRun, tables, deliveryCols, world
<1>3. CASE OrderNext(p)
  <2>1. CASE \E o \in Orders : CancelRead(p, o)
    BY <2>1 DEF CancelRead, Call, tables, deliveryCols, world
  <2>2. CASE \E o \in Orders : ExpireOne(p, o)
    BY <2>2 DEF ExpireOne, world
  <2>3. CASE CancelCommit(p)
    BY <1>1, <2>3 DEF CancelCommit, world
  <2> QED BY <1>2, <1>3, <2>1, <2>2, <2>3 DEF OrderNext, CleanupStart
<1>4. CASE PaymentNext(p)
  <2>1. ASSUME NEW o \in Orders,
               \/ \E s \in TxnStatus : Notify(p, o, s)
               \/ Confirm(p, o) \/ ForceSettle(p, o) \/ ReconcileOne(p, o)
        PROVE  LeavesDelivery /\ ~Busy(p)' /\ \A q \in Procs \ {p} : Waits(q)
    BY <2>1 DEF Notify, Confirm, ForceSettle, ReconcileOne, Call, tables,
                deliveryCols, world
  <2>2. CASE \E o \in Orders : \/ ReconcileSkip(p, o)
                               \/ \E s \in TxnStatus : NotifyBadSignature(p, o, s)
    BY <2>2 DEF ReconcileSkip, NotifyBadSignature, frame, tables,
                deliveryCols, world
  <2>3. ASSUME Settles(p), pc[p] = "apply",
               Transition(cur[p], MapTransactionStatus(note[p]))
        PROVE  ordStatus[cur[p]] = "PENDING" /\ paidAt'[cur[p]]
    BY <2>3 DEF Settles, MayTransition, Transition, Settle, MarkPaid,
                TablesTypeOK
  <2>4. CASE ApplyTransition(p)
    <3>1. pc[p] = "apply" /\ LeavesDelivery
      BY <2>4 DEF ApplyTransition, world
    <3>2. CASE ~Settles(p)
      BY <1>1, <2>4, <3>1, <3>2 DEF ApplyTransition, TriggerDelivery
    <3>3. CASE Settles(p)
      <4>1. pc'[p] = "load" /\ cur'[p] = cur[p]
        BY <2>4, <3>3 DEF ApplyTransition, TriggerDelivery, Goto
      <4>2. \A q \in Procs \ {p} : Waits(q)
        BY <2>4, <3>3 DEF ApplyTransition, TriggerDelivery, Goto
      <4> QED BY <2>3, <2>4, <3>1, <3>3, <4>1, <4>2 DEF ApplyTransition, Triggers
    <3> QED BY <3>2, <3>3
  <2>5. CASE ApplyNotification(p)
    <3>1. /\ pc[p] = "apply" /\ LeavesDelivery
          /\ pc' = [pc EXCEPT ![p] = "mark"] /\ UNCHANGED <<cur, snap>>
          /\ newlyPaid' = [newlyPaid EXCEPT ![p] = Settles(p)]
      BY <2>5 DEF ApplyNotification, Goto, world
    <3>2. \A q \in Procs \ {p} : Waits(q)
      BY <3>1
    <3>3. CASE ~Settles(p)
      BY <3>1, <3>2, <3>3
    <3>4. CASE Settles(p)
      BY <2>3, <2>5, <3>1, <3>2, <3>4 DEF ApplyNotification, Triggers
    <3> QED BY <3>3, <3>4
  <2>6. CASE MarkEvent(p)
    <3>1. pc[p] = "mark" /\ LeavesDelivery
      BY <2>6 DEF MarkEvent, world
    <3>2. CASE ~newlyPaid[p]
      BY <1>1, <2>6, <3>1, <3>2 DEF MarkEvent, TriggerDelivery
    <3>3. CASE newlyPaid[p]
      BY <2>6, <3>1, <3>3 DEF MarkEvent, TriggerDelivery, Goto, Triggers
    <3> QED BY <3>2, <3>3
  <2> QED
    BY <1>2, <1>4, <2>1, <2>2, <2>4, <2>5, <2>6 DEF PaymentNext, ReconcileStart
<1>5. CASE DeliveryNext(p)
  <2>1. CASE DeliverLoad(p) \/ DeliverClaim(p) \/ SendOk(p) \/ SendError(p)
    BY <2>1 DEF DeliverLoad, DeliverClaim, SendOk, SendError, Goto
  <2>2. CASE RecordFailure(p) \/ Finalize(p)
    BY <1>1, <2>2 DEF RecordFailure, Finalize
  <2>3. CASE DeliverRefused(p) \/ DeliverAlready(p)
    BY <1>1, <2>3 DEF DeliverRefused, DeliverAlready, tables, deliveryCols, world
  <2>4. CASE \E o \in Orders : Enters(p, o)
    BY <2>4 DEF Enters, Redeliver, RetryOne, Call
  <2> QED
    BY <1>2, <1>5, <2>1, <2>2, <2>3, <2>4
    DEF DeliveryNext, DeliverOrder, RetryStart, Enters
<1>6. CASE EndRun(p) \/ Fail(p)
  BY <1>6 DEF EndRun, Fail, tables, deliveryCols, world
<1>7. CASE FailOne(p)
  BY <1>1, <1>7 DEF FailOne, tables, deliveryCols, world
<1> QED BY <1>3, <1>4, <1>5, <1>6, <1>7 DEF ProcNext

\* Steps outside the goroutines leave deliveries alone.
LEMMA RestStep ==
  ASSUME CreateNext \/ WorldNext \/ UNCHANGED vars
  PROVE  LeavesDelivery /\ UNCHANGED frame
<1>1. LeavesDelivery
  BY DEF CreateNext, CreateOrder, CreateCharge, CreateChargeFails,
         PersistPayment, PersistPaymentFails, CancelAndRelease, AbandonCreate,
         WorldNext, Tick, CustomerPays, GatewayCloses, vars, tables,
         deliveryCols, world, LeavesDelivery
<1> QED BY <1>1, OtherStep

-----------------------------------------------------------------------------
(* Every deployment: sold means dispatched *)

\* SoldAfterDispatch, and that the message went out before Finalize is due.
SoldInv ==
  /\ \A p \in Procs : pc[p] = "finalize" => sent[cur[p]] > 0
  /\ SoldAfterDispatch

\* What is sent or paid stays so, and a placed order keeps its account.
LEMMA LastingStep ==
  ASSUME PaidInv, StockStep, NEW o \in Orders
  PROVE  /\ sent[o] > 0 => sent'[o] > 0
         /\ paidAt[o] => paidAt'[o]
         /\ ordStatus[o] # "NONE" => ordAccount'[o] = ordAccount[o]
<1> USE DEF PaidInv, TypeOK, TablesTypeOK, FramesTypeOK
<1>1. CASE Reserves
  BY <1>1 DEF Reserves, CreateOrder, InsertOrder, world
<1>2. CASE SettlesOne
  BY <1>2 DEF SettlesOne, Settle, MarkPaid
<1>3. CASE ClosesOne \/ FailsOne \/ FinalizesOne
  BY <1>3 DEF ClosesOne, FailsOne, FinalizesOne, UpdateStatus
<1>4. CASE Dispatches
  <2>1. PICK x \in Orders : Received(x) /\ UNCHANGED orderCols
    BY <1>4 DEF Dispatches
  <2>2. sent[o] > 0 => sent'[o] > 0
    <3>1. sent[o] \in 0 .. 2 /\ sent \in [Orders -> 0 .. 2]
      BY DEF SendCap
    <3>2. sent' = [sent EXCEPT ![x] = IF sent[x] < 2 THEN sent[x] + 1 ELSE sent[x]]
      BY <2>1 DEF Received, SendCap
    <3> QED BY <3>1, <3>2
  <2> QED BY <2>1, <2>2 DEF orderCols
<1>5. CASE LeavesStock
  BY <1>5 DEF LeavesStock, orderCols
<1> QED BY <1>1, <1>2, <1>3, <1>4, <1>5 DEF StockStep

\* Only Finalize writes an account off.
LEMMA OnlyFinalizeSells ==
  ASSUME PaidInv, [Next]_vars, NEW a \in Accounts,
         accStatus'[a] = "SOLD", accStatus[a] # "SOLD"
  PROVE  \E p \in Procs : Finalize(p) /\ ordAccount[cur[p]] = a
<1> USE DEF PaidInv, TypeOK, TablesTypeOK
<1>1. ASSUME NEW p \in Procs, Finalize(p) PROVE ordAccount[cur[p]] = a
  BY <1>1 DEF Finalize, MarkSold
<1>2. CASE CreateNext \/ WorldNext \/ UNCHANGED vars
  BY <1>2
  DEF CreateNext, CreateOrder, ReserveOneAvailable, CreateCharge,
      CreateChargeFails, PersistPayment, PersistPaymentFails,
      CancelAndRelease, ReleaseReservation, AbandonCreate, WorldNext, Tick,
      CustomerPays, GatewayCloses, vars, tables, accountCols
<1>3. ASSUME NEW p \in Procs, ProcNext(p), ~Finalize(p) PROVE FALSE
  <2>1. ASSUME NEW o, NEW m, Transition(o, m) PROVE FALSE
    BY <2>1 DEF Transition, Settle, Close, ReleaseReservation, accountCols
  <2>2. ASSUME NEW x, ReleaseReservation(x) PROVE FALSE
    BY <2>2 DEF ReleaseReservation, accountCols
  <2>3. UNCHANGED accStatus
    BY <1>3, <2>1, <2>2
    DEF ProcNext, OrderNext, CancelRead, ExpireOne, CancelCommit,
        CleanupStart, StartRun, PaymentNext, Notify, NotifyBadSignature,
        Confirm, ForceSettle, ReconcileOne, ReconcileSkip, ApplyTransition,
        ApplyNotification, MarkEvent, ReconcileStart, DeliveryNext,
        DeliverOrder, DeliverLoad, DeliverRefused, DeliverClaim,
        DeliverAlready, SendOk, SendError, RecordFailure, RetryStart,
        Redeliver, RetryOne, EndRun, Fail, FailOne, tables, accountCols
  <2> QED BY <2>3
<1> QED BY <1>1, <1>2, <1>3 DEF Next

LEMMA SoldInvariant == Spec => []SoldInv
<1>1. Init => SoldInv
  BY DEF Init, TablesInit, FramesInit, SoldInv, SoldAfterDispatch
<1>2. PaidInv /\ HookInv /\ SoldInv /\ [Next]_vars => SoldInv'
  <2> SUFFICES ASSUME PaidInv, HookInv, SoldInv, [Next]_vars PROVE SoldInv'
    OBVIOUS
  <2>1. \A o \in Orders :
          /\ sent[o] > 0 => sent'[o] > 0
          /\ paidAt[o] => paidAt'[o]
          /\ ordStatus[o] # "NONE" => ordAccount'[o] = ordAccount[o]
    BY EveryStep, LastingStep
  <2>2. ASSUME NEW q \in Procs, pc'[q] = "finalize" PROVE sent'[cur'[q]] > 0
    <3>1. CASE pc[q] = "finalize" /\ cur'[q] = cur[q]
      BY <2>1, <3>1 DEF SoldInv, PaidInv
    <3>2. CASE SendOk(q)
      BY <3>2 DEF SendOk, Received, SendCap, Goto, PaidInv, TypeOK, FramesTypeOK
    <3>3. CASE UNCHANGED frame
      BY <2>2, <3>1, <3>3 DEF frame
    <3>4. ASSUME NEW p \in Procs, ProcNext(p), p # q
          PROVE  pc[q] = "finalize" /\ cur'[q] = cur[q]
      BY <2>2, <3>4, WalkStep DEF Waits
    <3>5. CASE ProcNext(q)
      BY <2>2, <3>1, <3>2, <3>5, WalkStep
      DEF Waits, Busy, Delivering, Triggers, Enters, Redeliver, RetryOne, Call,
          DeliverLoad, DeliverClaim, SendError, RecordFailure, Finalize, Goto,
          Return, PaidInv, TypeOK, FramesTypeOK
    <3> QED BY <3>1, <3>3, <3>4, <3>5, RestStep DEF Next
  <2>3. ASSUME NEW a \in Accounts, accStatus'[a] = "SOLD"
        PROVE  \E o \in Orders : ordAccount'[o] = a /\ paidAt'[o] /\ sent'[o] > 0
    <3>1. \E o \in Orders : ordAccount[o] = a /\ paidAt[o] /\ sent[o] > 0
      <4>1. CASE accStatus[a] = "SOLD"
        BY <4>1 DEF SoldInv, SoldAfterDispatch
      <4>2. CASE accStatus[a] # "SOLD"
        BY <2>3, <4>2, OnlyFinalizeSells
        DEF Finalize, SoldInv, PaidInv, Delivering
      <4> QED BY <4>1, <4>2
    <3> QED BY <2>1, <3>1 DEF PaidInv
  <2> QED BY <2>2, <2>3 DEF SoldInv, SoldAfterDispatch
<1> QED BY <1>1, <1>2, PaidInvariant, HookInvariant, PTL DEF Spec

\* Whatever interleaves, fails or is redelivered: an account is written off only
\* after the customer of a paid order for it has its credentials.
THEOREM SoldIsDispatched == Spec => []SoldAfterDispatch
<1>1. SoldInv => SoldAfterDispatch
  BY DEF SoldInv
<1> QED BY <1>1, SoldInvariant, PTL

-----------------------------------------------------------------------------
(* Where no admin redelivers: one attempt at a time *)

NobodyRedelivers == "redeliver" \notin Requests

\* A delivery is the business of one goroutine at a time: of the one that
\* settled the order until it has FAILED, and of the retry job from then on.
OneEach == \A p, q \in Procs : Busy(p) /\ Busy(q) /\ cur[p] = cur[q] => p = q

BusyRow ==
  \A p \in Procs :
    Busy(p) => /\ paidAt[cur[p]]
               /\ dlvAttempts[cur[p]] < MaxAttempts
               /\ dlvStatus[cur[p]] \in IF p = "retry" THEN {"FAILED"}
                                                       ELSE {"NONE", "PENDING"}

\* Only the retry job makes an attempt at a FAILED delivery, so what it listed
\* is still so when it gets there.
ListFresh ==
  "retry" \in Procs =>
    /\ pc["retry"] \notin {"apply", "mark"}
    /\ \A o \in todo["retry"] :
         o \in Retriable /\ \A q \in Procs : Busy(q) => cur[q] # o

Unattempted ==
  \A o \in Orders : dlvStatus[o] \in {"NONE", "PENDING"} => dlvAttempts[o] = 0

BusyInv == OneEach /\ BusyRow /\ ListFresh /\ Unattempted /\ AttemptsBounded

\* The row of a delivery changes in the hands of the goroutine that delivers.
LEMMA RowStep ==
  ASSUME PaidInv, HookInv, NEW p \in Procs, ProcNext(p), NEW o \in Orders
  PROVE  \/ /\ dlvStatus'[o] = dlvStatus[o]
            /\ dlvAttempts'[o] = dlvAttempts[o]
            /\ sent'[o] = sent[o]
         \/ /\ Delivering(p) /\ cur[p] = o
            /\ \/ DeliverClaim(p) \/ SendOk(p) \/ SendError(p)
               \/ RecordFailure(p) \/ Finalize(p)
<1> USE DEF PaidInv, TypeOK, TablesTypeOK, FramesTypeOK, Delivering
<1>1. CASE LeavesDelivery
  BY <1>1 DEF LeavesDelivery, deliveryCols
<1>2. CASE DeliverLoad(p) \/ \E x \in Orders : Enters(p, x)
  BY <1>2 DEF DeliverLoad, Enters, Redeliver, RetryOne, tables, world
<1>3. CASE DeliverClaim(p)
  BY <1>3 DEF DeliverClaim, CreatePending, world
<1>4. CASE SendOk(p) \/ SendError(p)
  BY <1>4 DEF SendOk, SendError, Received, tables
<1>5. CASE RecordFailure(p)
  BY <1>5 DEF RecordFailure, MarkDeliveryFailed, world
<1>6. CASE Finalize(p)
  BY <1>6 DEF Finalize, MarkDeliveryDelivered, world
<1> QED
  BY <1>1, <1>2, <1>3, <1>4, <1>5, <1>6, WalkStep DEF Triggers

\* How a goroutine comes to be busy with an order, and stays so.
LEMMA JoinStep ==
  ASSUME NobodyRedelivers, PaidInv, HookInv, NEW p \in Procs, ProcNext(p),
         NEW q \in Procs, Busy(q)'
  PROVE  \/ Busy(q) /\ cur'[q] = cur[q]
         \/ /\ q = p /\ pc[p] = "apply" /\ cur[p] \in Orders
            /\ cur'[p] = cur[p]
            /\ ordStatus[cur[p]] = "PENDING" /\ paidAt'[cur[p]]
            /\ LeavesDelivery
         \/ q = p /\ \E o \in Orders : RetryOne(p, o)
<1> USE DEF PaidInv, TypeOK, FramesTypeOK
<1>1. CASE Waits(q)
  BY <1>1 DEF Waits, Busy, Delivering
<1>2. CASE q = p
  <2>1. ~\E o \in Orders : Redeliver(p, o)
    BY DEF NobodyRedelivers, Redeliver, Accept
  <2>2. CASE DeliverLoad(p) \/ DeliverClaim(p) \/ SendOk(p) \/ SendError(p)
    BY <1>2, <2>2 DEF DeliverLoad, DeliverClaim, SendOk, SendError, Goto, Busy,
                      Delivering
  <2>3. CASE RecordFailure(p) \/ Finalize(p)
    BY <1>2, <2>3 DEF RecordFailure, Finalize, Return, Busy, Delivering
  <2>4. CASE Triggers(p)
    BY <1>2, <2>4 DEF Triggers
  <2> QED
    BY <1>1, <1>2, <2>1, <2>2, <2>3, <2>4, WalkStep DEF Enters
<1> QED BY <1>1, <1>2, WalkStep

\* The list of the retry job.
LEMMA ListStep ==
  ASSUME PaidInv, NEW p \in Procs, ProcNext(p), "retry" \in Procs
  PROVE  \/ todo'["retry"] \subseteq todo["retry"]
         \/ /\ todo'["retry"] = Retriable
            /\ pc["retry"] = "idle"
            /\ UNCHANGED <<tables, cur, newlyPaid, sent>>
            /\ pc' = [pc EXCEPT !["retry"] = "next"]
<1> USE DEF PaidInv, TypeOK, FramesTypeOK
<1>1. CASE RetryStart(p)
  BY <1>1 DEF RetryStart, StartRun, world
<1>2. ASSUME NEW x, Pick(p, x) PROVE todo'["retry"] \subseteq todo["retry"]
  BY <1>2 DEF Pick
<1>3. ASSUME NEW list, StartRun(p, list), p # "retry"
      PROVE  todo'["retry"] = todo["retry"]
  BY <1>3 DEF StartRun
<1>4. CASE Fail(p)
  BY <1>4 DEF Fail
<1>5. ASSUME ~RetryStart(p), ~Fail(p), ~\E x : Pick(p, x),
             p = "retry" \/ ~\E list : StartRun(p, list)
      PROVE  UNCHANGED todo
  BY <1>5
  DEF ProcNext, OrderNext, CancelRead, ExpireOne, CancelCommit,
      CleanupStart, PaymentNext, Notify, NotifyBadSignature, Confirm,
      ForceSettle, ReconcileOne, ReconcileSkip, ApplyTransition,
      ApplyNotification, MarkEvent, TriggerDelivery, ReconcileStart,
      DeliveryNext, DeliverOrder, DeliverLoad, DeliverRefused, DeliverClaim,
      DeliverAlready, SendOk, SendError, RecordFailure, Finalize, Redeliver,
      RetryOne, EndRun, FailOne, Return, frame
<1> QED BY <1>1, <1>2, <1>3, <1>4, <1>5

\* The retry job never is in applyTransition or HandleNotification.
LEMMA RetryPc ==
  ASSUME PaidInv, NEW p \in Procs, ProcNext(p), "retry" \in Procs,
         pc["retry"] \notin {"apply", "mark"}
  PROVE  pc'["retry"] \notin {"apply", "mark"}
<1> USE DEF PaidInv, TypeOK, FramesTypeOK
<1>1. "retry" \notin Handlers
  BY DeploymentAssumption DEF AllJobs
<1>2. CASE p # "retry"
  <2>1. pc'["retry"] = pc["retry"]
    BY <1>2
    DEF ProcNext, OrderNext, CancelRead, ExpireOne, CancelCommit,
        CleanupStart, StartRun, PaymentNext, Notify, NotifyBadSignature,
        Confirm, ForceSettle, ReconcileOne, ReconcileSkip, ApplyTransition,
        ApplyNotification, MarkEvent, TriggerDelivery, ReconcileStart,
        DeliveryNext, DeliverOrder, DeliverLoad, DeliverRefused, DeliverClaim,
        DeliverAlready, SendOk, SendError, RecordFailure, Finalize, RetryStart,
        Redeliver, RetryOne, EndRun, Fail, FailOne, Return, Call, Goto, frame
  <2> QED BY <2>1
<1>3. CASE p = "retry"
  <2>1. PaymentNext(p) => UNCHANGED pc
    BY <1>1, <1>3
    DEF PaymentNext, Notify, NotifyBadSignature, Accept, Confirm, ForceSettle,
        ReconcileOne, ReconcileSkip, ApplyTransition, ApplyNotification,
        MarkEvent, ReconcileStart
  <2>2. ~PaymentNext(p) => pc'[p] \notin {"apply", "mark"}
    BY <1>3
    DEF ProcNext, OrderNext, CancelRead, ExpireOne, CancelCommit,
        CleanupStart, StartRun, DeliveryNext, DeliverOrder, DeliverLoad,
        DeliverRefused, DeliverClaim, DeliverAlready, SendOk, SendError,
        RecordFailure, Finalize, RetryStart, Redeliver, RetryOne, EndRun, Fail,
        FailOne, Return, Call, Goto
  <2> QED BY <1>3, <2>1, <2>2
<1> QED BY <1>2, <1>3

LEMMA BusyStep ==
  ASSUME NobodyRedelivers, PaidInv, HookInv, BusyInv, NEW p \in Procs,
         ProcNext(p), \A o \in Orders : paidAt[o] => paidAt'[o]
  PROVE  BusyInv'
<1> USE AttemptsAssumption DEF PaidInv, TypeOK, TablesTypeOK, FramesTypeOK
<1>1. ASSUME NEW q \in Procs, Busy(q) PROVE cur[q] \in Orders
  BY <1>1 DEF Busy, Delivering
<1>2. \A o \in Orders : ordStatus[o] = "PENDING" => dlvStatus[o] = "NONE"
  BY DEF PaidBeforeDispatch
\* RetryOne takes an order off a list on which every order has FAILED.
<1>3. ASSUME NEW o \in Orders, RetryOne(p, o)
      PROVE  /\ p = "retry" /\ cur'[p] = o /\ o \in Retriable /\ paidAt[o]
             /\ o \notin todo'[p]
             /\ \A q \in Procs : Busy(q) => cur[q] # o
             /\ UNCHANGED <<dlvStatus, dlvAttempts>>
  <2>1. /\ p = "retry" /\ cur'[p] = o /\ o \in todo[p] /\ o \notin todo'[p]
        /\ UNCHANGED <<dlvStatus, dlvAttempts>>
    BY <1>3 DEF RetryOne, Pick, Call, tables
  <2>2. o \in Retriable /\ \A q \in Procs : Busy(q) => cur[q] # o
    BY <2>1 DEF BusyInv, ListFresh
  <2> QED BY <2>1, <2>2 DEF Retriable, PaidBeforeDispatch
<1>4. OneEach'
  <2> SUFFICES ASSUME NEW q \in Procs, NEW r \in Procs, Busy(q)', Busy(r)',
                      cur'[q] = cur'[r], q # r
               PROVE  FALSE
    BY DEF OneEach
  <2>1. ASSUME NEW x \in Procs, NEW y \in Procs, x # y, cur'[x] = cur'[y],
               Busy(x)', Busy(y), cur'[y] = cur[y]
        PROVE  FALSE
    <3>1. CASE Busy(x) /\ cur'[x] = cur[x]
      BY <2>1, <3>1 DEF BusyInv, OneEach
    <3>2. CASE cur'[x] = cur[x] /\ ordStatus[cur[x]] = "PENDING"
      BY <1>1, <2>1, <3>2 DEF BusyInv, BusyRow
    <3>3. CASE x = p /\ \E o \in Orders : RetryOne(p, o)
      BY <1>3, <2>1, <3>3
    <3> QED BY <2>1, <3>1, <3>2, <3>3, JoinStep
  <2> QED BY <2>1, JoinStep
<1>5. BusyRow'
  <2> SUFFICES ASSUME NEW q \in Procs, Busy(q)'
               PROVE  /\ paidAt'[cur'[q]]
                      /\ dlvAttempts'[cur'[q]] < MaxAttempts
                      /\ dlvStatus'[cur'[q]] \in IF q = "retry" THEN {"FAILED"}
                                                   ELSE {"NONE", "PENDING"}
    BY DEF BusyRow
  <2>1. CASE Busy(q) /\ cur'[q] = cur[q]
    <3>1. /\ cur[q] \in Orders /\ paidAt[cur[q]]
          /\ dlvAttempts[cur[q]] < MaxAttempts
          /\ dlvStatus[cur[q]] \in IF q = "retry" THEN {"FAILED"}
                                                  ELSE {"NONE", "PENDING"}
      BY <1>1, <2>1 DEF BusyInv, BusyRow
    <3>2. CASE /\ dlvStatus'[cur[q]] = dlvStatus[cur[q]]
               /\ dlvAttempts'[cur[q]] = dlvAttempts[cur[q]]
      BY <2>1, <3>1, <3>2
    <3>3. CASE q = p /\ (DeliverClaim(p) \/ SendOk(p) \/ SendError(p))
      BY <2>1, <3>1, <3>3
      DEF DeliverClaim, CreatePending, SendOk, SendError, tables
    <3>4. ASSUME RecordFailure(p) \/ Finalize(p), q = p PROVE FALSE
      BY <3>4 DEF RecordFailure, Finalize, Return, Busy, Delivering
    <3>5. Delivering(p) /\ cur[p] = cur[q] => q = p
      BY <2>1 DEF BusyInv, OneEach, Busy
    <3> QED BY <3>1, <3>2, <3>3, <3>4, <3>5, RowStep
  <2>2. CASE /\ q = p /\ pc[p] = "apply" /\ cur[p] \in Orders
             /\ cur'[p] = cur[p]
             /\ ordStatus[cur[p]] = "PENDING" /\ paidAt'[cur[p]]
             /\ LeavesDelivery
    <3>1. q # "retry" /\ dlvStatus[cur[p]] = "NONE" /\ dlvAttempts[cur[p]] = 0
      BY <1>2, <2>2 DEF BusyInv, ListFresh, Unattempted
    <3> QED BY <2>2, <3>1 DEF LeavesDelivery, deliveryCols
  <2>3. ASSUME NEW o \in Orders, RetryOne(p, o), q = p
        PROVE  /\ paidAt'[cur'[q]]
               /\ dlvAttempts'[cur'[q]] < MaxAttempts
               /\ dlvStatus'[cur'[q]] \in IF q = "retry" THEN {"FAILED"}
                                            ELSE {"NONE", "PENDING"}
    BY <1>3, <2>3 DEF Retriable
  <2> QED BY <2>1, <2>2, <2>3, JoinStep
<1>6. ListFresh'
  <2> SUFFICES ASSUME "retry" \in Procs PROVE ListFresh'
    BY DEF ListFresh
  <2>1. pc'["retry"] \notin {"apply", "mark"}
    BY RetryPc DEF BusyInv, ListFresh
  <2>2. ASSUME NEW o \in todo'["retry"], o \in todo["retry"]
        PROVE  o \in Retriable' /\ \A q \in Procs : Busy(q)' => cur'[q] # o
    <3>1. /\ o \in Orders /\ o \in Retriable
          /\ \A q \in Procs : Busy(q) => cur[q] # o
      BY <2>2 DEF BusyInv, ListFresh
    <3>2. o \in Retriable'
      <4>1. ~(Delivering(p) /\ cur[p] = o)
        BY <3>1 DEF Busy
      <4>2. dlvStatus'[o] = dlvStatus[o] /\ dlvAttempts'[o] = dlvAttempts[o]
        BY <3>1, <4>1, RowStep
      <4> QED BY <3>1, <4>2 DEF Retriable
    <3>3. ASSUME NEW q \in Procs, Busy(q)', cur'[q] = o PROVE FALSE
      BY <1>2, <1>3, <2>2, <3>1, <3>3, JoinStep DEF Retriable
    <3> QED BY <3>2, <3>3
  <2>3. CASE /\ todo'["retry"] = Retriable
             /\ pc["retry"] = "idle"
             /\ UNCHANGED <<tables, cur, newlyPaid, sent>>
             /\ pc' = [pc EXCEPT !["retry"] = "next"]
    <3>1. Retriable' = Retriable
      BY <2>3 DEF Retriable, tables
    <3>2. \A q \in Procs : Busy(q)' => Busy(q) /\ q # "retry" /\ cur'[q] = cur[q]
      BY <2>3 DEF Busy, Delivering
    <3>3. \A q \in Procs : Busy(q)' => cur'[q] \notin Retriable
      BY <3>2 DEF Retriable, BusyInv, BusyRow
    <3> QED BY <2>1, <2>3, <3>1, <3>3 DEF ListFresh
  <2> QED BY <2>1, <2>2, <2>3, ListStep DEF ListFresh
<1>7. Unattempted' /\ AttemptsBounded'
  <2> SUFFICES ASSUME NEW o \in Orders
               PROVE  /\ dlvStatus'[o] \in {"NONE", "PENDING"}
                           => dlvAttempts'[o] = 0
                      /\ dlvAttempts'[o] <= MaxAttempts
    BY DEF Unattempted, AttemptsBounded
  <2>1. /\ dlvStatus[o] \in {"NONE", "PENDING"} => dlvAttempts[o] = 0
        /\ dlvAttempts[o] <= MaxAttempts /\ dlvAttempts[o] \in Nat
    BY DEF BusyInv, Unattempted, AttemptsBounded, AttemptCap
  <2>2. CASE dlvStatus'[o] = dlvStatus[o] /\ dlvAttempts'[o] = dlvAttempts[o]
    BY <2>1, <2>2
  <2>3. CASE cur[p] = o /\ (DeliverClaim(p) \/ SendOk(p) \/ SendError(p))
    BY <2>1, <2>3 DEF DeliverClaim, CreatePending, SendOk, SendError, tables
  <2>4. CASE cur[p] = o /\ Delivering(p) /\ (RecordFailure(p) \/ Finalize(p))
    <3>1. dlvAttempts[o] < MaxAttempts
      BY <2>4 DEF BusyInv, BusyRow, Busy
    <3>2. /\ dlvStatus'[o] \in {"FAILED", "DELIVERED"}
          /\ dlvAttempts'[o] = CountAttempt(dlvAttempts[o])
      BY <2>4 DEF RecordFailure, MarkDeliveryFailed, Finalize,
                  MarkDeliveryDelivered
    <3> QED BY <2>1, <3>1, <3>2 DEF CountAttempt, AttemptCap
  <2> QED BY <2>2, <2>3, <2>4, RowStep
<1> QED BY <1>4, <1>5, <1>6, <1>7 DEF BusyInv

LEMMA BusyInvariant == NobodyRedelivers => (Spec => []BusyInv)
<1> SUFFICES ASSUME NobodyRedelivers PROVE Spec => []BusyInv
  OBVIOUS
<1>1. Init => BusyInv
  BY AttemptsAssumption
  DEF Init, TablesInit, FramesInit, BusyInv, OneEach, BusyRow, ListFresh,
      Unattempted, AttemptsBounded, Busy, Delivering
<1>2. PaidInv /\ HookInv /\ BusyInv /\ [Next]_vars => BusyInv'
  <2> SUFFICES ASSUME PaidInv, HookInv, BusyInv, [Next]_vars PROVE BusyInv'
    OBVIOUS
  <2>1. \A o \in Orders : paidAt[o] => paidAt'[o]
    BY EveryStep, LastingStep
  <2>2. CASE LeavesDelivery /\ UNCHANGED frame
    BY <2>1, <2>2
    DEF LeavesDelivery, frame, deliveryCols, BusyInv, OneEach, BusyRow,
        ListFresh, Unattempted, AttemptsBounded, Busy, Delivering, Retriable,
        PaidInv
  <2>3. ASSUME NEW p \in Procs, ProcNext(p) PROVE BusyInv'
    BY <2>1, <2>3, BusyStep
  <2> QED BY <2>2, <2>3, RestStep DEF Next
<1> QED BY <1>1, <1>2, PaidInvariant, HookInvariant, PTL DEF Spec

\* WORKER_MAX_DELIVERY_ATTEMPTS bounds the attempts of a delivery, the first
\* one included, whatever fails and however handlers and jobs interleave,
\* unless an admin redelivers: DeliverOrder itself does not look at the bound.
THEOREM AttemptsStayBounded == NobodyRedelivers => (Spec => []AttemptsBounded)
<1>1. BusyInv => AttemptsBounded
  BY DEF BusyInv
<1> QED BY <1>1, BusyInvariant, PTL

-----------------------------------------------------------------------------
(* Where, besides, nothing interrupts a delivery: one message at most *)

\* No statement fails between Send and Finalize, and Send's answer is true.
SendsAreCertain == Faults \cap {"db", "ambiguous"} = {}

\* A goroutine that may still send has sent nothing, and nobody else has.
UnsentYet ==
  \A p \in Procs : Busy(p) /\ pc[p] # "finalize" => sent[cur[p]] = 0

\* What is retried was not received; only a message that the job has sent and
\* not recorded yet is an exception.
FailedUnsent ==
  \A o \in Orders :
    dlvStatus[o] = "FAILED" =>
      sent[o] = 0 \/ \E p \in Procs : pc[p] = "finalize" /\ cur[p] = o

SentInv == AtMostOnceDispatch /\ UnsentYet /\ FailedUnsent

\* Without failing statements Finalize follows Send.
LEMMA FinalizeStep ==
  ASSUME SendsAreCertain, PaidInv, HookInv, NEW p \in Procs, ProcNext(p),
         NEW q \in Procs, pc[q] = "finalize"
  PROVE  Waits(q) \/ Finalize(q)
<1> USE DEF PaidInv, TypeOK, FramesTypeOK
<1>1. CASE q # p
  BY <1>1, WalkStep
<1>2. CASE q = p
  <2>1. ~Fail(p) /\ ~FailOne(p)
    BY DEF SendsAreCertain, Fail, FailOne
  <2>2. OrderNext(p) => UNCHANGED frame
    BY <1>2 DEF OrderNext, CancelRead, Accept, ExpireOne, Pick, CancelCommit,
                CleanupStart, StartRun
  <2>3. PaymentNext(p) => UNCHANGED frame
    BY <1>2 DEF PaymentNext, Notify, NotifyBadSignature, Confirm, ForceSettle,
                Accept, ReconcileOne, ReconcileSkip, Pick, ApplyTransition,
                ApplyNotification, MarkEvent, ReconcileStart, StartRun
  <2>4. DeliveryNext(p) => Finalize(p)
    BY <1>2 DEF DeliveryNext, DeliverOrder, DeliverLoad, DeliverRefused,
                DeliverClaim, DeliverAlready, SendOk, SendError, RecordFailure,
                RetryStart, StartRun, Redeliver, Accept, RetryOne, Pick
  <2>5. UNCHANGED frame => Waits(q)
    BY DEF frame, Waits
  <2> QED BY <1>2, <2>1, <2>2, <2>3, <2>4, <2>5 DEF ProcNext, EndRun
<1> QED BY <1>1, <1>2

LEMMA SentStep ==
  ASSUME NobodyRedelivers, SendsAreCertain, PaidInv, HookInv, BusyInv, SentInv,
         NEW p \in Procs, ProcNext(p)
  PROVE  SentInv'
<1> USE DEF PaidInv, TypeOK, TablesTypeOK, FramesTypeOK
<1>1. \A o \in Orders : ordStatus[o] = "PENDING" => sent[o] = 0
  <2>1. sent \in [Orders -> 0 .. 2]
    BY DEF SendCap
  <2>2. \A o \in Orders : sent[o] \in 0 .. 2
    BY <2>1
  <2>3. \A o \in Orders : sent[o] = 0 \/ sent[o] > 0
    BY <2>2
  <2> QED BY <2>3 DEF PaidBeforeDispatch
<1>2. SendError(p) => UNCHANGED sent
  BY DEF SendError, SendsAreCertain
<1>3. DeliverClaim(p) \/ RecordFailure(p) \/ Finalize(p) => UNCHANGED sent
  BY DEF DeliverClaim, RecordFailure, Finalize, world
<1>4. ASSUME SendOk(p)
      PROVE  /\ cur[p] \in Orders /\ sent[cur[p]] = 0 /\ sent'[cur[p]] = 1
             /\ pc'[p] = "finalize" /\ cur'[p] = cur[p]
  <2>1. /\ pc[p] = "send" /\ cur[p] \in Orders /\ pc'[p] = "finalize"
        /\ cur'[p] = cur[p] /\ Received(cur[p])
    BY <1>4 DEF SendOk, Goto
  <2>2. sent[cur[p]] = 0
    BY <2>1 DEF SentInv, UnsentYet, Busy, Delivering
  <2> QED BY <2>1, <2>2 DEF Received, SendCap
<1>5. AtMostOnceDispatch'
  <2> SUFFICES ASSUME NEW o \in Orders PROVE sent'[o] <= 1
    BY DEF AtMostOnceDispatch
  <2>1. sent'[o] = sent[o] \/ (SendOk(p) /\ cur[p] = o)
    BY <1>2, <1>3, RowStep
  <2> QED BY <1>4, <2>1 DEF SentInv, AtMostOnceDispatch
<1>6. UnsentYet'
  <2> SUFFICES ASSUME NEW q \in Procs, Busy(q)', pc'[q] # "finalize"
               PROVE  sent'[cur'[q]] = 0
    BY DEF UnsentYet
  <2>1. CASE Busy(q) /\ cur'[q] = cur[q]
    <3>1. cur[q] \in Orders
      BY <2>1 DEF Busy, Delivering
    <3>2. pc[q] # "finalize"
      BY FinalizeStep DEF Waits, Finalize, Return, Busy, Delivering
    <3>3. sent[cur[q]] = 0
      BY <2>1, <3>2 DEF SentInv, UnsentYet
    <3>4. SendOk(p) => cur[p] # cur[q]
      <4>1. SendOk(p) => Busy(p) /\ p # q
        BY <1>4 DEF SendOk, Busy, Delivering
      <4> QED BY <2>1, <4>1 DEF BusyInv, OneEach
    <3>5. sent'[cur[q]] = sent[cur[q]]
      BY <1>2, <1>3, <3>1, <3>4, RowStep
    <3> QED BY <2>1, <3>3, <3>5
  <2>2. CASE /\ q = p /\ cur[p] \in Orders /\ cur'[p] = cur[p]
             /\ ordStatus[cur[p]] = "PENDING" /\ LeavesDelivery
    BY <1>1, <2>2 DEF LeavesDelivery
  <2>3. ASSUME NEW o \in Orders, RetryOne(p, o), q = p
        PROVE  sent'[cur'[q]] = 0
    <3>1. /\ p = "retry" /\ cur'[p] = o /\ o \in todo[p] /\ UNCHANGED sent
      BY <2>3 DEF RetryOne, Pick, Call, world
    <3>2. dlvStatus[o] = "FAILED" /\ \A r \in Procs : Busy(r) => cur[r] # o
      BY <3>1 DEF BusyInv, ListFresh, Retriable
    <3> QED BY <2>3, <3>1, <3>2 DEF SentInv, FailedUnsent, Busy, Delivering
  <2> QED BY <2>1, <2>2, <2>3, JoinStep
<1>7. FailedUnsent'
  <2> SUFFICES ASSUME NEW o \in Orders, dlvStatus'[o] = "FAILED"
               PROVE  sent'[o] = 0 \/ \E q \in Procs : pc'[q] = "finalize" /\ cur'[q] = o
    BY DEF FailedUnsent
  <2>1. CASE Delivering(p) /\ cur[p] = o /\ ~SendOk(p)
    <3>1. ~Finalize(p)
      BY <2>1 DEF Finalize, MarkDeliveryDelivered
    <3>2. CASE pc[p] # "finalize"
      <4>1. sent[o] = 0
        BY <2>1, <3>2 DEF SentInv, UnsentYet, Busy
      <4> QED BY <1>2, <1>3, <2>1, <4>1, RowStep
    <3>3. CASE pc[p] = "finalize"
      BY <2>1, <3>1, <3>3, FinalizeStep DEF Waits
    <3> QED BY <3>2, <3>3
  <2>2. CASE SendOk(p) /\ cur[p] = o
    BY <1>4, <2>2
  <2>3. CASE ~(Delivering(p) /\ cur[p] = o)
    <3>1. dlvStatus[o] = "FAILED" /\ sent'[o] = sent[o]
      BY <2>3, RowStep
    <3>2. ASSUME NEW r \in Procs, pc[r] = "finalize", cur[r] = o
          PROVE  pc'[r] = "finalize" /\ cur'[r] = o
      <4>1. ~Finalize(r)
        BY <3>2 DEF Finalize, MarkDeliveryDelivered
      <4> QED BY <3>2, <4>1, FinalizeStep DEF Waits
    <3> QED BY <3>1, <3>2 DEF SentInv, FailedUnsent
  <2> QED BY <2>1, <2>2, <2>3
<1> QED BY <1>5, <1>6, <1>7 DEF SentInv

\* README's "dispatched at most once, even under duplicate settlement
\* webhooks", with the hypotheses it needs: no admin redelivers, no statement
\* or process fails after a message was sent, and Send never reports an error
\* for a message that arrived.  Messages that Telegram refuses, duplicates,
\* cancellations and the retry job are allowed.
THEOREM DispatchedOnce ==
  NobodyRedelivers /\ SendsAreCertain => (Spec => []AtMostOnceDispatch)
<1> SUFFICES ASSUME NobodyRedelivers, SendsAreCertain
             PROVE  Spec => []AtMostOnceDispatch
  OBVIOUS
<1>1. Init => SentInv
  BY DEF Init, TablesInit, FramesInit, SentInv, AtMostOnceDispatch, UnsentYet,
         FailedUnsent, Busy, Delivering
<1>2. PaidInv /\ HookInv /\ BusyInv /\ SentInv /\ [Next]_vars => SentInv'
  <2> SUFFICES ASSUME PaidInv, HookInv, BusyInv, SentInv, [Next]_vars
               PROVE  SentInv'
    OBVIOUS
  <2>1. CASE LeavesDelivery /\ UNCHANGED frame
    BY <2>1 DEF LeavesDelivery, frame, deliveryCols, SentInv,
                AtMostOnceDispatch, UnsentYet, FailedUnsent, Busy, Delivering
  <2>2. ASSUME NEW p \in Procs, ProcNext(p) PROVE SentInv'
    BY <2>2, SentStep
  <2> QED BY <2>1, <2>2, RestStep DEF Next
<1>3. SentInv => AtMostOnceDispatch
  BY DEF SentInv
<1> QED
  BY <1>1, <1>2, <1>3, PaidInvariant, HookInvariant, BusyInvariant, PTL
  DEF Spec

-----------------------------------------------------------------------------
(* Where, besides, orders are closed under their lock: the rows agree *)

PaidStays ==
  \A o \in Orders : paidAt[o] => ordStatus[o] \in {"PAID", "FAILED", "DELIVERED"}

\* The status DeliverOrder loaded is the one its order still has.
SnapFresh == \A p \in Procs : Delivering(p) => snap[p] = ordStatus[cur[p]]

AgreeInv == PaidStays /\ DeliveredAgree /\ SnapFresh

Fails(o) == \E p \in Procs : RecordFailure(p) /\ cur[p] = o

Finalizes(o) == \E p \in Procs : Finalize(p) /\ cur[p] = o

\* What happens to the status of an order.
LEMMA MoveStep ==
  ASSUME ClosesUnderLock, PaidInv, StockInv, [Next]_vars, NEW o \in Orders
  PROVE  \/ ordStatus'[o] = ordStatus[o]
         \/ ordStatus[o] = "NONE" /\ ordStatus'[o] = "PENDING"
         \/ ordStatus[o] = "PENDING" /\ ordStatus'[o] \in {"PAID", "EXPIRED", "CANCELLED"}
         \/ /\ ordStatus'[o] = "FAILED"
            /\ \E p \in Procs : /\ RecordFailure(p) /\ cur[p] = o
                                /\ snap[p] = "PAID"
         \/ Finalizes(o) /\ ordStatus'[o] = "DELIVERED"
<1> USE DEF PaidInv, TypeOK, TablesTypeOK
<1>1. CASE CreateNext
  <2>1. UNCHANGED ordStatus \/ \E x \in Orders, a \in Accounts : InsertOrder(x, a)
    BY <1>1
    DEF CreateNext, CreateOrder, CreateCharge, CreateChargeFails,
        PersistPayment, PersistPaymentFails, CancelAndRelease, AbandonCreate,
        StockInv, tables, orderCols
  <2> QED BY <2>1 DEF InsertOrder
<1>2. ASSUME NEW p \in Procs, OrderNext(p) PROVE UNCHANGED ordStatus
  <2>1. p # "cleanup"
    BY DeploymentAssumption DEF ClosesUnderLock, Procs, AllJobs
  <2> QED
    BY <1>2, <2>1
    DEF OrderNext, CancelRead, ExpireOne, CancelCommit, CleanupStart, StockInv,
        tables
<1>3. ASSUME NEW p \in Procs, PaymentNext(p)
      PROVE  \/ ordStatus'[o] = ordStatus[o]
             \/ /\ ordStatus[o] = "PENDING"
                /\ ordStatus'[o] \in {"PAID", "EXPIRED", "CANCELLED"}
  <2>1. ASSUME NEW x, NEW m, Transition(x, m)
        PROVE  \/ ordStatus'[o] = ordStatus[o]
               \/ /\ ordStatus[o] = "PENDING"
                  /\ ordStatus'[o] \in {"PAID", "EXPIRED", "CANCELLED"}
    BY <2>1 DEF Transition, MayTransition, Settle, MarkPaid, Close,
                UpdateStatus, orderCols
  <2>2. UNCHANGED ordStatus \/ Transition(cur[p], MapTransactionStatus(note[p]))
    BY <1>3
    DEF PaymentNext, Notify, NotifyBadSignature, Confirm, ForceSettle,
        ReconcileOne, ReconcileSkip, ApplyTransition, ApplyNotification,
        MarkEvent, ReconcileStart, StartRun, tables, orderCols
  <2> QED BY <2>1, <2>2
<1>4. ASSUME NEW p \in Procs, RecordFailure(p)
      PROVE  \/ ordStatus'[o] = ordStatus[o]
             \/ cur[p] = o /\ snap[p] = "PAID" /\ ordStatus'[o] = "FAILED"
  BY <1>4 DEF RecordFailure, UpdateStatus, orderCols
<1>5. ASSUME NEW p \in Procs, Finalize(p)
      PROVE  \/ ordStatus'[o] = ordStatus[o]
             \/ cur[p] = o /\ ordStatus'[o] = "DELIVERED"
  BY <1>5 DEF Finalize, MarkOrderDelivered, UpdateStatus
<1>6. ASSUME NEW p \in Procs, DeliveryNext(p), ~RecordFailure(p), ~Finalize(p)
      PROVE  UNCHANGED ordStatus
  BY <1>6
  DEF DeliveryNext, DeliverOrder, DeliverLoad, DeliverRefused, DeliverClaim,
      DeliverAlready, SendOk, SendError, RetryStart, StartRun, Redeliver,
      RetryOne, tables, orderCols
<1>7. ASSUME NEW p \in Procs, EndRun(p) \/ Fail(p) \/ FailOne(p)
      PROVE  UNCHANGED ordStatus
  BY <1>7 DEF EndRun, Fail, FailOne, tables
<1>8. CASE WorldNext \/ UNCHANGED vars
  BY <1>8 DEF WorldNext, Tick, CustomerPays, GatewayCloses, vars, tables
<1> QED
  BY <1>1, <1>2, <1>3, <1>4, <1>5, <1>6, <1>7, <1>8
  DEF Next, ProcNext, Finalizes

\* What happens to the status of its delivery.
LEMMA OutcomeStep ==
  ASSUME PaidInv, HookInv, [Next]_vars, NEW o \in Orders
  PROVE  \/ dlvStatus'[o] = dlvStatus[o]
         \/ dlvStatus[o] = "NONE" /\ dlvStatus'[o] = "PENDING"
         \/ Fails(o) \/ Finalizes(o)
<1>1. CASE LeavesDelivery
  BY <1>1 DEF LeavesDelivery, deliveryCols
<1>2. ASSUME NEW p \in Procs, ProcNext(p)
      PROVE  \/ dlvStatus'[o] = dlvStatus[o]
             \/ dlvStatus[o] = "NONE" /\ dlvStatus'[o] = "PENDING"
             \/ Fails(o) \/ Finalizes(o)
  BY <1>2, RowStep
  DEF DeliverClaim, CreatePending, SendOk, SendError, tables, Fails, Finalizes,
      PaidInv, TypeOK, TablesTypeOK
<1> QED BY <1>1, <1>2, RestStep DEF Next

\* A goroutine gets past the status check in DeliverLoad only.
LEMMA SnapStep ==
  ASSUME PaidInv, HookInv, NEW p \in Procs, ProcNext(p), NEW q \in Procs,
         Delivering(q)'
  PROVE  \/ Delivering(q) /\ cur'[q] = cur[q] /\ snap'[q] = snap[q]
         \/ /\ cur[q] \in Orders /\ cur'[q] = cur[q]
            /\ snap'[q] = ordStatus[cur[q]]
            /\ UNCHANGED ordStatus
<1> USE DEF PaidInv, TypeOK, FramesTypeOK, Delivering
<1>1. CASE Waits(q)
  BY <1>1 DEF Waits
<1>2. CASE q = p
  <2>1. CASE DeliverLoad(p)
    BY <1>2, <2>1 DEF DeliverLoad, Goto, tables
  <2>2. CASE DeliverClaim(p) \/ SendOk(p) \/ SendError(p)
    BY <1>2, <2>2 DEF DeliverClaim, SendOk, SendError, Goto
  <2>3. ~RecordFailure(p) /\ ~Finalize(p) /\ ~Triggers(p)
    BY <1>2 DEF RecordFailure, Finalize, Return, Triggers
  <2>4. ~\E o \in Orders : Enters(p, o)
    BY <1>2 DEF Enters, Redeliver, RetryOne, Call
  <2> QED
    BY <1>1, <1>2, <2>1, <2>2, <2>3, <2>4, WalkStep DEF Busy
<1> QED BY <1>1, <1>2, WalkStep

LEMMA AgreeStep ==
  ASSUME ClosesUnderLock, PaidInv, HookInv, StockInv, BusyInv, AgreeInv,
         [Next]_vars
  PROVE  AgreeInv'
<1> USE DEF PaidInv, TypeOK, TablesTypeOK
<1>1. \A o \in Orders : /\ paidAt[o] => paidAt'[o]
                        /\ ordStatus[o] # "NONE" => ordAccount'[o] = ordAccount[o]
  BY EveryStep, LastingStep
<1>2. \A o \in Orders : Fails(o) \/ Finalizes(o) =>
        \E p \in Procs : Delivering(p) /\ Busy(p) /\ cur[p] = o
  BY DEF Fails, Finalizes, RecordFailure, Finalize, Busy, Delivering
\* A delivery that is worked on is not DELIVERED.
<1>3. \A o \in Orders : Fails(o) \/ Finalizes(o) =>
        paidAt[o] /\ dlvStatus[o] # "DELIVERED" /\ ordStatus[o] # "DELIVERED"
  <2> SUFFICES ASSUME NEW o \in Orders, NEW p \in Procs, Busy(p), cur[p] = o
               PROVE  /\ paidAt[o] /\ dlvStatus[o] # "DELIVERED"
                      /\ ordStatus[o] # "DELIVERED"
    BY <1>2
  <2>1. paidAt[o] /\ dlvStatus[o] \in {"NONE", "PENDING", "FAILED"}
    BY DEF BusyInv, BusyRow
  <2> QED BY <2>1 DEF AgreeInv, DeliveredAgree
<1>4. PaidStays'
  <2> SUFFICES ASSUME NEW o \in Orders, paidAt'[o]
               PROVE  ordStatus'[o] \in {"PAID", "FAILED", "DELIVERED"}
    BY DEF PaidStays
  <2>1. CASE paidAt[o]
    BY <2>1, MoveStep DEF AgreeInv, PaidStays
  <2>2. CASE ~paidAt[o]
    <3>1. StockStep
      BY EveryStep
    <3> QED
      BY <2>2, <3>1
      DEF StockStep, Reserves, CreateOrder, InsertOrder, SettlesOne, Settle,
          MarkPaid, ClosesOne, UpdateStatus, Dispatches, FailsOne,
          FinalizesOne, LeavesStock, orderCols
  <2> QED BY <2>1, <2>2
<1>5. DeliveredAgree'
  <2> SUFFICES ASSUME NEW o \in Orders
               PROVE  /\ ordStatus'[o] = "DELIVERED" <=> dlvStatus'[o] = "DELIVERED"
                      /\ dlvStatus'[o] = "DELIVERED"
                           => accStatus'[ordAccount'[o]] = "SOLD"
    BY DEF DeliveredAgree
  <2>1. CASE Finalizes(o)
    <3>1. PICK p \in Procs : Finalize(p) /\ cur[p] = o
      BY <2>1 DEF Finalizes
    <3>2. ordStatus'[o] = "DELIVERED" /\ dlvStatus'[o] = "DELIVERED"
      BY <3>1 DEF Finalize, MarkOrderDelivered, UpdateStatus,
                  MarkDeliveryDelivered
    <3>3. ordAccount[o] \in Accounts /\ ordAccount'[o] = ordAccount[o]
      BY <1>3, <2>1, <3>1 DEF StockInv, Finalize, MarkOrderDelivered, UpdateStatus
    <3>4. accStatus'[ordAccount[o]] = "SOLD"
      BY <3>1, <3>3 DEF Finalize, MarkSold
    <3> QED BY <3>2, <3>3, <3>4
  <2>2. CASE Fails(o)
    <3>1. PICK p \in Procs : RecordFailure(p) /\ cur[p] = o
      BY <2>2 DEF Fails
    <3>2. dlvStatus'[o] = "FAILED"
      BY <3>1 DEF RecordFailure, MarkDeliveryFailed
    <3>3. ordStatus'[o] # "DELIVERED"
      BY <1>3, <2>2, <3>1 DEF RecordFailure, UpdateStatus, orderCols
    <3> QED BY <3>2, <3>3
  <2>3. CASE ~Finalizes(o) /\ ~Fails(o)
    <3>1. ordStatus'[o] = "DELIVERED" <=> ordStatus[o] = "DELIVERED"
      BY <2>3, MoveStep DEF Fails
    <3>2. dlvStatus'[o] = "DELIVERED" <=> dlvStatus[o] = "DELIVERED"
      BY <2>3, OutcomeStep
    <3>3. dlvStatus[o] = "DELIVERED" => accStatus'[ordAccount'[o]] = "SOLD"
      <4> SUFFICES ASSUME dlvStatus[o] = "DELIVERED"
                   PROVE  accStatus'[ordAccount'[o]] = "SOLD"
        OBVIOUS
      <4>1. paidAt[o] /\ accStatus[ordAccount[o]] = "SOLD"
        BY DEF PaidBeforeDispatch, AgreeInv, DeliveredAgree
      <4>2. ordAccount[o] \in Accounts /\ ordAccount'[o] = ordAccount[o]
        BY <1>1, <4>1 DEF StockInv
      <4> QED BY <4>1, <4>2, SoldStays
    <3> QED BY <3>1, <3>2, <3>3 DEF AgreeInv, DeliveredAgree
  <2> QED BY <2>1, <2>2, <2>3
<1>6. SnapFresh'
  <2> SUFFICES ASSUME NEW q \in Procs, Delivering(q)'
               PROVE  snap'[q] = ordStatus'[cur'[q]]
    BY DEF SnapFresh
  <2>1. CASE Delivering(q) /\ cur'[q] = cur[q] /\ snap'[q] = snap[q]
    <3>1. cur[q] \in Orders /\ paidAt[cur[q]]
      BY <2>1 DEF Delivering
    <3>2. ASSUME NEW p \in Procs, RecordFailure(p) \/ Finalize(p), cur[p] = cur[q]
          PROVE  FALSE
      <4>1. p = q
        BY <2>1, <3>2
        DEF BusyInv, OneEach, Busy, Delivering, RecordFailure, Finalize
      <4> QED
        BY <3>2, <4>1
        DEF RecordFailure, Finalize, Return, Delivering, FramesTypeOK
    <3>3. ordStatus'[cur[q]] = ordStatus[cur[q]]
      BY <3>1, <3>2, MoveStep DEF Finalizes
    <3> QED BY <2>1, <3>3 DEF AgreeInv, SnapFresh
  <2>2. CASE UNCHANGED frame
    BY <2>1, <2>2 DEF frame, Delivering
  <2>3. ASSUME NEW p \in Procs, ProcNext(p)
        PROVE  snap'[q] = ordStatus'[cur'[q]]
    BY <2>1, <2>3, SnapStep
  <2> QED BY <2>2, <2>3, RestStep DEF Next
<1> QED BY <1>4, <1>5, <1>6 DEF AgreeInv

LEMMA AgreeInvariant ==
  ClosesUnderLock /\ NobodyRedelivers => (Spec => []AgreeInv)
<1> SUFFICES ASSUME ClosesUnderLock, NobodyRedelivers PROVE Spec => []AgreeInv
  OBVIOUS
<1>1. Init => AgreeInv
  BY DEF Init, TablesInit, FramesInit, AgreeInv, PaidStays, DeliveredAgree,
         SnapFresh, Delivering
<1>2. PaidInv /\ HookInv /\ StockInv /\ BusyInv /\ AgreeInv /\ [Next]_vars
        => AgreeInv'
  BY AgreeStep
<1> QED
  BY <1>1, <1>2, PaidInvariant, HookInvariant, StockInvariant, BusyInvariant,
     PTL DEF Spec

\* The rows of a fulfilled order agree, whatever else fails: the order is
\* DELIVERED exactly when its delivery is, and then its account is SOLD.  The
\* hypotheses are needed: redeliver requests let a failure overtake a success,
\* and a closing that is not under the lock overwrites DELIVERED.
THEOREM DeliveredRowsAgree ==
  ClosesUnderLock /\ NobodyRedelivers => (Spec => []DeliveredAgree)
<1>1. AgreeInv => DeliveredAgree
  BY DEF AgreeInv
<1> QED BY <1>1, AgreeInvariant, PTL

\* README's state machine, under the same hypotheses: an order moves along its
\* arrows only.
THEOREM OrdersMoveForward ==
  ClosesUnderLock /\ NobodyRedelivers => (Spec => ForwardOnly)
<1> SUFFICES ASSUME ClosesUnderLock, NobodyRedelivers PROVE Spec => ForwardOnly
  OBVIOUS
<1>1. ASSUME PaidInv, StockInv, BusyInv, AgreeInv, [Next]_vars, NEW o \in Orders
      PROVE  \/ ordStatus'[o] = ordStatus[o]
             \/ ordStatus'[o] \in Successors[ordStatus[o]]
  <2>1. CASE Finalizes(o) /\ ordStatus'[o] = "DELIVERED"
    <3>1. paidAt[o]
      BY <1>1, <2>1 DEF Finalizes, Finalize, PaidInv, Delivering
    <3>2. ordStatus[o] \in {"PAID", "FAILED", "DELIVERED"}
      BY <1>1, <3>1 DEF AgreeInv, PaidStays
    <3> QED BY <2>1, <3>2 DEF Successors
  <2>2. ASSUME NEW p \in Procs, RecordFailure(p), cur[p] = o, snap[p] = "PAID",
               ordStatus'[o] = "FAILED"
        PROVE  ordStatus'[o] \in Successors[ordStatus[o]]
    <3>1. ordStatus[o] = "PAID"
      BY <1>1, <2>2 DEF AgreeInv, SnapFresh, Delivering, RecordFailure
    <3> QED BY <2>2, <3>1 DEF Successors
  <2> QED BY <1>1, <2>1, <2>2, MoveStep DEF Successors
<1>2. PaidInv /\ StockInv /\ BusyInv /\ AgreeInv /\ [Next]_vars =>
        [\A o \in Orders : \/ ordStatus'[o] = ordStatus[o]
                           \/ ordStatus'[o] \in Successors[ordStatus[o]]]_vars
  BY <1>1
<1> QED
  BY <1>2, PaidInvariant, StockInvariant, BusyInvariant, AgreeInvariant, PTL
  DEF Spec, ForwardOnly
=============================================================================
