---------------------------- MODULE StoreProofs ----------------------------
(***************************************************************************)
(* Theorems about Store, for every set of orders, accounts, goroutines,    *)
(* requests and faults.                                                    *)
(***************************************************************************)
EXTENDS Store, TLAPS

-----------------------------------------------------------------------------
(* What the repository's statements and a goroutine's control do to types. *)

LEMMA UpdateStatusType ==
  ASSUME TypeOK, NEW o, NEW s \in OrderStatus, UpdateStatus(o, s)
  PROVE  /\ ordStatus' \in [Orders -> OrderStatus \cup {"NONE"}]
         /\ ordAccount' \in [Orders -> Accounts \cup {NoAccount}]
         /\ paidAt' \in [Orders -> BOOLEAN]
BY DEF TypeOK, TablesTypeOK, UpdateStatus

LEMMA ReleaseType ==
  ASSUME TypeOK, NEW a, ReleaseReservation(a)
  PROVE  /\ accStatus' \in [Accounts -> AccountStatus]
         /\ accHolder' \in [Accounts -> Orders \cup {NoOrder}]
BY DEF TypeOK, TablesTypeOK, ReleaseReservation, accountCols, AccountStatus

LEMMA SetPaymentType ==
  ASSUME TypeOK, NEW o, NEW s \in PaymentStatus,
         SetPaymentStatus(o, s)
  PROVE  payStatus' \in [Orders -> PaymentStatus \cup {"NONE"}]
BY DEF TypeOK, TablesTypeOK, SetPaymentStatus

LEMMA EventType ==
  ASSUME TypeOK, NEW o, NEW s, NEW v \in EventState
  PROVE  [events EXCEPT ![o][s] = v] \in [Orders -> [TxnStatus -> EventState]]
BY DEF TypeOK, TablesTypeOK

LEMMA ReceivedType ==
  ASSUME TypeOK, NEW o, Received(o)
  PROVE  sent' \in [Orders -> 0 .. SendCap]
<1>1. \A x \in Orders : sent[x] \in 0 .. SendCap
  BY DEF TypeOK, FramesTypeOK
<1>2. \A n \in 0 .. SendCap : (IF n < SendCap THEN n + 1 ELSE n) \in 0 .. SendCap
  BY DEF SendCap
<1> QED BY <1>1, <1>2 DEF Received, TypeOK, FramesTypeOK

LEMMA AttemptType ==
  ASSUME TypeOK, NEW o, MarkDeliveryDelivered(o) \/ MarkDeliveryFailed(o)
  PROVE  /\ dlvStatus' \in [Orders -> DeliveryStatus \cup {"NONE"}]
         /\ dlvAttempts' \in [Orders -> 0 .. AttemptCap]
<1>1. \A n \in 0 .. AttemptCap : CountAttempt(n) \in 0 .. AttemptCap
  BY AttemptsAssumption DEF CountAttempt, AttemptCap
<1>2. dlvAttempts' = [dlvAttempts EXCEPT ![o] = CountAttempt(@)]
  BY DEF MarkDeliveryDelivered, MarkDeliveryFailed
<1>3. dlvStatus' \in [Orders -> DeliveryStatus \cup {"NONE"}]
  BY DEF MarkDeliveryDelivered, MarkDeliveryFailed, TypeOK, TablesTypeOK,
         DeliveryStatus
<1> QED BY <1>1, <1>2, <1>3 DEF TypeOK, TablesTypeOK

LEMMA ReturnType ==
  ASSUME TypeOK, NEW p \in Procs, Return(p)
  PROVE  /\ pc' \in [Procs -> Pcs]
         /\ cur' \in [Procs -> Orders \cup {NoOrder}]
         /\ snap' \in [Procs -> OrderStatus \cup {"NONE"}]
         /\ note' \in [Procs -> TxnStatus]
         /\ hook' \in [Procs -> BOOLEAN]
         /\ newlyPaid' \in [Procs -> BOOLEAN]
         /\ todo' \in [Procs -> SUBSET Orders]
BY DEF TypeOK, FramesTypeOK, Return, Pcs, TxnStatus

LEMMA CreateType == TypeOK /\ CreateNext => TypeOK'
<1> SUFFICES ASSUME TypeOK, NEW o \in Orders,
                    \/ \E a \in Accounts : CreateOrder(o, a)
                    \/ CreateCharge(o)
                    \/ CreateChargeFails(o)
                    \/ PersistPayment(o)
                    \/ PersistPaymentFails(o)
                    \/ CancelAndRelease(o)
                    \/ AbandonCreate(o)
             PROVE  TypeOK'
  BY DEF CreateNext
<1> USE DEF TypeOK, TablesTypeOK, FramesTypeOK, tables, orderCols, accountCols,
            deliveryCols, frame, world, OrderStatus, PaymentStatus,
            AccountStatus, DeliveryStatus, TxnStatus, CreatePcs
<1>1. CASE \E a \in Accounts : CreateOrder(o, a)
  BY <1>1 DEF CreateOrder, InsertOrder, ReserveOneAvailable
<1>2. CASE CreateCharge(o)
  BY <1>2 DEF CreateCharge
<1>3. CASE CreateChargeFails(o)
  BY <1>3 DEF CreateChargeFails
<1>4. CASE PersistPayment(o)
  BY <1>4 DEF PersistPayment, CreatePayment
<1>5. CASE PersistPaymentFails(o)
  BY <1>5 DEF PersistPaymentFails, CreatePayment
<1>6. CASE CancelAndRelease(o)
  BY <1>6, ReleaseType, UpdateStatusType DEF CancelAndRelease
<1>7. CASE AbandonCreate(o)
  BY <1>7 DEF AbandonCreate
<1> QED BY <1>1, <1>2, <1>3, <1>4, <1>5, <1>6, <1>7

LEMMA WorldType == TypeOK /\ WorldNext => TypeOK'
<1> SUFFICES ASSUME TypeOK, NEW o \in Orders,
                    Tick(o) \/ CustomerPays(o) \/ GatewayCloses(o)
             PROVE  TypeOK'
  BY DEF WorldNext
<1> USE DeploymentAssumption
    DEF TypeOK, TablesTypeOK, FramesTypeOK, tables, frame, TxnStatus, Ages
<1>1. CASE Tick(o)
  BY <1>1 DEF Tick
<1>2. CASE CustomerPays(o)
  BY <1>2 DEF CustomerPays
<1>3. CASE GatewayCloses(o)
  BY <1>3 DEF GatewayCloses
<1> QED BY <1>1, <1>2, <1>3

LEMMA OrderType == ASSUME TypeOK, NEW p \in Procs, OrderNext(p) PROVE TypeOK'
<1> USE DEF TypeOK, TablesTypeOK, FramesTypeOK, tables, orderCols, accountCols,
            deliveryCols, frame, world, Pcs
<1>1. ASSUME NEW o \in Orders, CancelRead(p, o) PROVE TypeOK'
  BY <1>1 DEF CancelRead, Call
<1>2. ASSUME NEW o \in Orders, ExpireOne(p, o) PROVE TypeOK'
  <2>1. /\ UpdateStatus(o, "EXPIRED") /\ SetPaymentStatus(o, "EXPIRED")
        /\ ReleaseReservation(ordAccount[o])
        /\ todo' = [todo EXCEPT ![p] = @ \ {o}]
        /\ UNCHANGED <<deliveryCols, events, createPc, pc, cur, snap, note,
                       hook, newlyPaid, world>>
    BY <1>2 DEF ExpireOne, Pick
  <2>2. "EXPIRED" \in OrderStatus /\ "EXPIRED" \in PaymentStatus
    BY DEF OrderStatus, PaymentStatus
  <2> QED BY <2>1, <2>2, UpdateStatusType, SetPaymentType, ReleaseType
<1>3. CASE CancelCommit(p)
  <2>1. /\ pc[p] = "cancel"
        /\ UpdateStatus(cur[p], "CANCELLED")
        /\ SetPaymentStatus(cur[p], "CANCELLED")
        /\ ReleaseReservation(ordAccount[cur[p]])
        /\ Return(p)
        /\ UNCHANGED <<deliveryCols, events, createPc, world>>
    BY <1>3 DEF CancelCommit
  <2>2. "CANCELLED" \in OrderStatus /\ "CANCELLED" \in PaymentStatus
    BY DEF OrderStatus, PaymentStatus
  <2> QED BY <2>1, <2>2, UpdateStatusType, SetPaymentType, ReleaseType,
             ReturnType
<1>4. CASE CleanupStart(p)
  BY <1>4 DEF CleanupStart, StartRun, Overdue
<1> QED BY <1>1, <1>2, <1>3, <1>4 DEF OrderNext

LEMMA TriggerType ==
  ASSUME TypeOK, NEW p \in Procs, NEW paid \in BOOLEAN,
         TriggerDelivery(p, paid)
  PROVE  /\ pc' \in [Procs -> Pcs]
         /\ cur' \in [Procs -> Orders \cup {NoOrder}]
         /\ snap' \in [Procs -> OrderStatus \cup {"NONE"}]
         /\ note' \in [Procs -> TxnStatus]
         /\ hook' \in [Procs -> BOOLEAN]
         /\ newlyPaid' \in [Procs -> BOOLEAN]
         /\ todo' \in [Procs -> SUBSET Orders]
<1>1. CASE paid
  BY <1>1 DEF TriggerDelivery, Goto, TypeOK, FramesTypeOK, Pcs, TxnStatus
<1>2. CASE ~paid
  BY <1>2, ReturnType DEF TriggerDelivery
<1> QED BY <1>1, <1>2

LEMMA TransitionType ==
  ASSUME TypeOK, NEW o, NEW m \in PaymentStatus, Transition(o, m)
  PROVE  /\ ordStatus' \in [Orders -> OrderStatus \cup {"NONE"}]
         /\ ordAccount' \in [Orders -> Accounts \cup {NoAccount}]
         /\ paidAt' \in [Orders -> BOOLEAN]
         /\ payStatus' \in [Orders -> PaymentStatus \cup {"NONE"}]
         /\ accStatus' \in [Accounts -> AccountStatus]
         /\ accHolder' \in [Accounts -> Orders \cup {NoOrder}]
<1>1. CASE m = "SETTLEMENT" /\ Settle(o)
  BY <1>1, SetPaymentType
  DEF Settle, MarkPaid, TypeOK, TablesTypeOK, OrderStatus, accountCols
<1>2. ASSUME NEW s \in {"EXPIRED", "CANCELLED"}, Close(o, s, m)
      PROVE  /\ ordStatus' \in [Orders -> OrderStatus \cup {"NONE"}]
             /\ ordAccount' \in [Orders -> Accounts \cup {NoAccount}]
             /\ paidAt' \in [Orders -> BOOLEAN]
             /\ payStatus' \in [Orders -> PaymentStatus \cup {"NONE"}]
             /\ accStatus' \in [Accounts -> AccountStatus]
             /\ accHolder' \in [Accounts -> Orders \cup {NoOrder}]
  <2>1. s \in OrderStatus
    BY <1>2 DEF OrderStatus
  <2> QED BY <1>2, <2>1, UpdateStatusType, SetPaymentType, ReleaseType DEF Close
<1>3. CASE UNCHANGED <<orderCols, payStatus, accountCols>>
  BY <1>3 DEF TypeOK, TablesTypeOK, orderCols, accountCols
<1> QED BY <1>1, <1>2, <1>3 DEF Transition

LEMMA MapType == \A s : MapTransactionStatus(s) \in PaymentStatus
BY DEF MapTransactionStatus, PaymentStatus

LEMMA PaymentType ==
  ASSUME TypeOK, NEW p \in Procs, PaymentNext(p) PROVE TypeOK'
<1> USE DeploymentAssumption
    DEF TypeOK, TablesTypeOK, FramesTypeOK, tables, orderCols, accountCols,
        deliveryCols, frame, world
<1>1. ASSUME NEW o \in Orders, NEW s \in TxnStatus, Notify(p, o, s)
      PROVE  TypeOK'
  BY <1>1 DEF Notify, InsertEvent, Call, EventState, Pcs
<1>2. ASSUME NEW o \in Orders, NEW s \in TxnStatus,
             NotifyBadSignature(p, o, s)
      PROVE  TypeOK'
  BY <1>2 DEF NotifyBadSignature, InsertEvent, EventState
<1>3. ASSUME NEW o \in Orders, Confirm(p, o) \/ ForceSettle(p, o)
      PROVE  TypeOK'
  <2>1. "settlement" \in TxnStatus /\ "apply" \in Pcs
    BY DEF TxnStatus, Pcs
  <2>2. CASE Confirm(p, o)
    BY <2>1, <2>2 DEF Confirm, Call
  <2>3. CASE ForceSettle(p, o)
    BY <2>1, <2>3 DEF ForceSettle, Call
  <2> QED BY <1>3, <2>2, <2>3
<1>4. ASSUME NEW o \in Orders, ReconcileOne(p, o) PROVE TypeOK'
  BY <1>4 DEF ReconcileOne, Pick, Call, Pcs
<1>5. ASSUME NEW o \in Orders, ReconcileSkip(p, o) PROVE TypeOK'
  BY <1>5 DEF ReconcileSkip, Pick
<1>6. CASE ApplyTransition(p)
  <2>1. Settles(p) \in BOOLEAN
    BY DEF Settles
  <2> HIDE DEF TypeOK
  <2>2. /\ ordStatus' \in [Orders -> OrderStatus \cup {"NONE"}]
        /\ ordAccount' \in [Orders -> Accounts \cup {NoAccount}]
        /\ paidAt' \in [Orders -> BOOLEAN]
        /\ payStatus' \in [Orders -> PaymentStatus \cup {"NONE"}]
        /\ accStatus' \in [Accounts -> AccountStatus]
        /\ accHolder' \in [Accounts -> Orders \cup {NoOrder}]
    BY <1>6, MapType, TransitionType DEF ApplyTransition
  <2>3. TriggerDelivery(p, Settles(p))
        /\ UNCHANGED <<deliveryCols, events, createPc, world>>
    BY <1>6 DEF ApplyTransition
  <2> QED BY <2>1, <2>2, <2>3, TriggerType DEF TypeOK
<1>7. CASE ApplyNotification(p)
  <2>1. Settles(p) \in BOOLEAN
    BY DEF Settles
  <2>2. /\ ordStatus' \in [Orders -> OrderStatus \cup {"NONE"}]
        /\ ordAccount' \in [Orders -> Accounts \cup {NoAccount}]
        /\ paidAt' \in [Orders -> BOOLEAN]
        /\ payStatus' \in [Orders -> PaymentStatus \cup {"NONE"}]
        /\ accStatus' \in [Accounts -> AccountStatus]
        /\ accHolder' \in [Accounts -> Orders \cup {NoOrder}]
    BY <1>7, MapType, TransitionType DEF ApplyNotification
  <2> QED BY <1>7, <2>1, <2>2 DEF ApplyNotification, Goto, Pcs
<1>8. CASE MarkEvent(p)
  <2>1. TriggerDelivery(p, newlyPaid[p]) /\ newlyPaid[p] \in BOOLEAN
    BY <1>8 DEF MarkEvent
  <2>2. events' \in [Orders -> [TxnStatus -> EventState]]
    <3>1. "processed" \in EventState
      BY DEF EventState
    <3>2. [events EXCEPT ![cur[p]][note[p]] = "processed"]
            \in [Orders -> [TxnStatus -> EventState]]
      BY <3>1, EventType
    <3> QED BY <1>8, <3>2 DEF MarkEvent, MarkProcessed
  <2> QED BY <1>8, <2>1, <2>2, TriggerType DEF MarkEvent
<1>9. CASE ReconcileStart(p)
  BY <1>9 DEF ReconcileStart, StartRun, PendingOlder, Pcs
<1> QED BY <1>1, <1>2, <1>3, <1>4, <1>5, <1>6, <1>7, <1>8, <1>9
        DEF PaymentNext

LEMMA DeliveryType ==
  ASSUME TypeOK, NEW p \in Procs, DeliveryNext(p) PROVE TypeOK'
<1> USE AttemptsAssumption
    DEF TypeOK, TablesTypeOK, FramesTypeOK, tables, orderCols, accountCols,
        deliveryCols, frame, world
<1>1. CASE DeliverLoad(p)
  BY <1>1 DEF DeliverLoad, Deliverable, Goto, Pcs, OrderStatus
<1>2. CASE DeliverRefused(p) \/ DeliverAlready(p)
  BY <1>2, ReturnType DEF DeliverRefused, DeliverAlready
<1>3. CASE DeliverClaim(p)
  BY <1>3 DEF DeliverClaim, CreatePending, DeliveryStatus, Goto, Pcs
<1>4. CASE SendOk(p)
  BY <1>4, ReceivedType DEF SendOk, Goto, Pcs
<1>5. CASE SendError(p)
  <2>1. sent' \in [Orders -> 0 .. SendCap]
    BY <1>5, ReceivedType DEF SendError
  <2> QED BY <1>5, <2>1 DEF SendError, Goto, Pcs
<1>6. CASE RecordFailure(p)
  <2>1. /\ dlvStatus' \in [Orders -> DeliveryStatus \cup {"NONE"}]
        /\ dlvAttempts' \in [Orders -> 0 .. AttemptCap]
    BY <1>6, AttemptType DEF RecordFailure
  <2>2. /\ ordStatus' \in [Orders -> OrderStatus \cup {"NONE"}]
        /\ ordAccount' \in [Orders -> Accounts \cup {NoAccount}]
        /\ paidAt' \in [Orders -> BOOLEAN]
    <3>1. "FAILED" \in OrderStatus
      BY DEF OrderStatus
    <3> QED BY <1>6, <3>1, UpdateStatusType DEF RecordFailure
  <2>3. Return(p) /\ UNCHANGED <<payStatus, accountCols, events, createPc,
                                 world>>
    BY <1>6 DEF RecordFailure
  <2> QED BY <2>1, <2>2, <2>3, ReturnType
<1>7. CASE Finalize(p)
  <2>1. /\ dlvStatus' \in [Orders -> DeliveryStatus \cup {"NONE"}]
        /\ dlvAttempts' \in [Orders -> 0 .. AttemptCap]
    BY <1>7, AttemptType DEF Finalize
  <2>2. /\ ordStatus' \in [Orders -> OrderStatus \cup {"NONE"}]
        /\ ordAccount' \in [Orders -> Accounts \cup {NoAccount}]
        /\ paidAt' \in [Orders -> BOOLEAN]
    <3>1. "DELIVERED" \in OrderStatus
      BY DEF OrderStatus
    <3> QED BY <1>7, <3>1, UpdateStatusType DEF Finalize, MarkOrderDelivered
  <2>3. /\ accStatus' \in [Accounts -> AccountStatus]
        /\ accHolder' \in [Accounts -> Orders \cup {NoOrder}]
    BY <1>7 DEF Finalize, MarkSold, AccountStatus
  <2>4. Return(p) /\ UNCHANGED <<payStatus, events, createPc, world>>
    BY <1>7 DEF Finalize
  <2> QED BY <2>1, <2>2, <2>3, <2>4, ReturnType
<1>8. CASE RetryStart(p)
  BY <1>8 DEF RetryStart, StartRun, Retriable, Pcs
<1>9. ASSUME NEW o \in Orders, Redeliver(p, o) \/ RetryOne(p, o)
      PROVE  TypeOK'
  <2>1. CASE Redeliver(p, o)
    BY <2>1 DEF Redeliver, Call, Pcs
  <2>2. CASE RetryOne(p, o)
    BY <2>2 DEF RetryOne, Pick, Call, Pcs
  <2> QED BY <1>9, <2>1, <2>2
<1> QED BY <1>1, <1>2, <1>3, <1>4, <1>5, <1>6, <1>7, <1>8, <1>9
        DEF DeliveryNext, DeliverOrder

LEMMA ControlType ==
  ASSUME TypeOK, NEW p \in Procs, EndRun(p) \/ Fail(p) \/ FailOne(p)
  PROVE  TypeOK'
<1> USE DEF TypeOK, TablesTypeOK, FramesTypeOK, tables, world
<1>1. CASE EndRun(p)
  BY <1>1 DEF EndRun, Pcs
<1>2. CASE Fail(p)
  BY <1>2 DEF Fail, Pcs, TxnStatus
<1>3. CASE FailOne(p)
  BY <1>3, ReturnType DEF FailOne
<1> QED BY <1>1, <1>2, <1>3

LEMMA InitType == Init => TypeOK
BY AttemptsAssumption
DEF Init, TablesInit, FramesInit, TypeOK, TablesTypeOK, FramesTypeOK,
    AccountStatus, EventState, AttemptCap, TxnStatus, CreatePcs, Pcs, SendCap,
    Ages

\* Types: whatever the orders, the accounts, the deployment and the faults,
\* every column and every local variable keeps a value the code can give it.
THEOREM TypeCorrect == Spec => []TypeOK
<1>1. Init => TypeOK
  BY InitType
<1>2. TypeOK /\ [Next]_vars => TypeOK'
  <2> SUFFICES ASSUME TypeOK, [Next]_vars PROVE TypeOK'
    OBVIOUS
  <2>1. CASE CreateNext
    BY <2>1, CreateType
  <2>2. CASE WorldNext
    BY <2>2, WorldType
  <2>3. ASSUME NEW p \in Procs, ProcNext(p) PROVE TypeOK'
    BY <2>3, OrderType, PaymentType, DeliveryType, ControlType DEF ProcNext
  <2>4. CASE UNCHANGED vars
    BY <2>4 DEF vars, tables, frame, world, TypeOK, TablesTypeOK, FramesTypeOK
  <2> QED BY <2>1, <2>2, <2>3, <2>4 DEF Next
<1> QED BY <1>1, <1>2, PTL DEF Spec

-----------------------------------------------------------------------------
(* Dispatch only after settlement *)

\* A goroutine past the status check of DeliverOrder.
Delivering(p) == pc[p] \in {"claim", "send", "finalize", "sendFailed"}

\* PaidBeforeDispatch is not inductive: what a goroutine will do to an order it
\* checked earlier depends on its frame.  Settlement is never undone
\* (paid_at is only ever set), so it is enough that the order was paid when
\* it was checked.
PaidInv ==
  /\ TypeOK
  /\ PaidBeforeDispatch
  /\ \A o \in Orders : ordStatus[o] \in {"NONE", "PENDING"} => ~paidAt[o]
  /\ \A p \in Procs : pc[p] \notin {"idle", "next"} => cur[p] \in Orders
  /\ \A p \in Procs : Delivering(p) => paidAt[cur[p]]

LEMMA CreatePaid == PaidInv /\ CreateNext => PaidInv'
<1> SUFFICES ASSUME PaidInv, CreateNext PROVE PaidInv'
  OBVIOUS
<1>1. TypeOK'
  BY CreateType DEF PaidInv
<1>2. PICK o \in Orders :
        \/ \E a \in Accounts : CreateOrder(o, a)
        \/ CreateCharge(o)
        \/ CreateChargeFails(o)
        \/ PersistPayment(o)
        \/ PersistPaymentFails(o)
        \/ CancelAndRelease(o)
        \/ AbandonCreate(o)
  BY DEF CreateNext
<1>3. UNCHANGED <<pc, cur, paidAt, dlvStatus, sent>>
  BY <1>2 DEF CreateOrder, InsertOrder, CreateCharge, CreateChargeFails,
              PersistPayment, PersistPaymentFails, CancelAndRelease,
              UpdateStatus, AbandonCreate, tables, frame, world, deliveryCols,
              orderCols
<1>4. \A x \in Orders :
        \/ ordStatus'[x] = ordStatus[x]
        \/ ordStatus[x] = "NONE" /\ ordStatus'[x] = "PENDING"
        \/ ordStatus'[x] = "CANCELLED"
  BY <1>2 DEF CreateOrder, InsertOrder, CreateCharge, CreateChargeFails,
              PersistPayment, PersistPaymentFails, CancelAndRelease,
              UpdateStatus, AbandonCreate, tables, orderCols, PaidInv,
              TypeOK, TablesTypeOK
<1> QED
  BY <1>1, <1>3, <1>4 DEF PaidInv, PaidBeforeDispatch, Delivering

LEMMA WorldPaid == PaidInv /\ WorldNext => PaidInv'
<1> SUFFICES ASSUME PaidInv, WorldNext PROVE PaidInv'
  OBVIOUS
<1>1. TypeOK'
  BY WorldType DEF PaidInv
<1>2. UNCHANGED <<ordStatus, paidAt, dlvStatus, sent, pc, cur>>
  BY DEF WorldNext, Tick, CustomerPays, GatewayCloses, tables, frame
<1> QED
  BY <1>1, <1>2 DEF PaidInv, PaidBeforeDispatch, Delivering

LEMMA OrderPaid == ASSUME PaidInv, NEW p \in Procs, OrderNext(p) PROVE PaidInv'
<1>1. TypeOK'
  BY OrderType DEF PaidInv
<1>2. UNCHANGED <<paidAt, dlvStatus, sent>>
  BY DEF OrderNext, CancelRead, ExpireOne, CancelCommit, UpdateStatus,
         CleanupStart, StartRun, tables, world, deliveryCols
<1>3. \A x \in Orders : \/ ordStatus'[x] = ordStatus[x]
                        \/ ordStatus'[x] \in {"EXPIRED", "CANCELLED"}
  BY DEF OrderNext, CancelRead, ExpireOne, CancelCommit, UpdateStatus,
         CleanupStart, StartRun, tables, PaidInv, TypeOK, TablesTypeOK
<1>4. /\ \A q \in Procs : pc'[q] \notin {"idle", "next"} => cur'[q] \in Orders
      /\ \A q \in Procs : Delivering(q)' => Delivering(q) /\ cur'[q] = cur[q]
  BY DEF OrderNext, CancelRead, Call, ExpireOne, CancelCommit, Return,
         CleanupStart, StartRun, Delivering, PaidInv, TypeOK, FramesTypeOK
<1> QED
  BY <1>1, <1>2, <1>3, <1>4 DEF PaidInv, PaidBeforeDispatch, Delivering

LEMMA PaymentPaid ==
  ASSUME PaidInv, NEW p \in Procs, PaymentNext(p) PROVE PaidInv'
<1>1. TypeOK'
  BY PaymentType DEF PaidInv
<1>2. UNCHANGED <<dlvStatus, sent>>
  BY DEF PaymentNext, Notify, NotifyBadSignature, Confirm, ForceSettle,
         ReconcileOne, ReconcileSkip, ApplyTransition, ApplyNotification,
         MarkEvent, ReconcileStart, StartRun, tables, deliveryCols, world
<1>3. \A x \in Orders :
        \/ ordStatus'[x] = ordStatus[x] /\ paidAt'[x] = paidAt[x]
        \/ ordStatus'[x] \in {"EXPIRED", "CANCELLED"} /\ paidAt'[x] = paidAt[x]
        \/ ordStatus'[x] = "PAID" /\ paidAt'[x]
  <2>1. ASSUME NEW o, NEW m, Transition(o, m)
        PROVE  \/ UNCHANGED <<ordStatus, paidAt>>
               \/ /\ ordStatus' = [ordStatus EXCEPT ![o] = "PAID"]
                  /\ paidAt' = [paidAt EXCEPT ![o] = TRUE]
               \/ /\ \E s \in {"EXPIRED", "CANCELLED"} :
                       ordStatus' = [ordStatus EXCEPT ![o] = s]
                  /\ UNCHANGED paidAt
    BY <2>1 DEF Transition, Settle, MarkPaid, Close, UpdateStatus, orderCols
  <2>2. \/ UNCHANGED <<ordStatus, paidAt>>
        \/ Transition(cur[p], MapTransactionStatus(note[p]))
    BY DEF PaymentNext, Notify, NotifyBadSignature, Confirm, ForceSettle,
           ReconcileOne, ReconcileSkip, ApplyTransition, ApplyNotification,
           MarkEvent, ReconcileStart, StartRun, tables, orderCols
  <2> QED BY <2>1, <2>2 DEF PaidInv, TypeOK, TablesTypeOK
<1>4. /\ \A q \in Procs : pc'[q] \notin {"idle", "next"} => cur'[q] \in Orders
      /\ \A q \in Procs : Delivering(q)' => Delivering(q) /\ cur'[q] = cur[q]
  <2> USE DEF PaidInv, TypeOK, FramesTypeOK, Delivering
  <2>1. CASE TriggerDelivery(p, Settles(p)) /\ pc[p] = "apply"
    BY <2>1 DEF TriggerDelivery, Goto, Return
  <2>2. CASE TriggerDelivery(p, newlyPaid[p]) /\ pc[p] = "mark"
    BY <2>2 DEF TriggerDelivery, Goto, Return
  <2>3. CASE ApplyNotification(p)
    BY <2>3 DEF ApplyNotification, Goto
  <2>4. ASSUME NEW o \in Orders, Call(p, "apply", o)
        PROVE  /\ \A q \in Procs :
                    pc'[q] \notin {"idle", "next"} => cur'[q] \in Orders
               /\ \A q \in Procs :
                    Delivering(q)' => Delivering(q) /\ cur'[q] = cur[q]
    BY <2>4 DEF Call
  <2>5. CASE UNCHANGED <<pc, cur>>
    BY <2>5
  <2>6. CASE ReconcileStart(p)
    BY <2>6 DEF ReconcileStart, StartRun
  <2> QED
    BY <2>1, <2>2, <2>3, <2>4, <2>5, <2>6
    DEF PaymentNext, Notify, NotifyBadSignature, Confirm, ForceSettle,
        ReconcileOne, ReconcileSkip, ApplyTransition, MarkEvent, frame
<1> QED
  BY <1>1, <1>2, <1>3, <1>4 DEF PaidInv, PaidBeforeDispatch, Delivering

LEMMA DeliveryPaid ==
  ASSUME PaidInv, NEW p \in Procs, DeliveryNext(p) PROVE PaidInv'
<1>1. TypeOK'
  BY DeliveryType DEF PaidInv
<1>2. UNCHANGED paidAt
  BY DEF DeliveryNext, DeliverOrder, DeliverLoad, DeliverRefused,
         DeliverClaim, DeliverAlready, SendOk, SendError, RecordFailure,
         Finalize, MarkOrderDelivered, UpdateStatus, RetryStart, StartRun,
         Redeliver, RetryOne, tables, orderCols
<1>3. \A x \in Orders :
        \/ ordStatus'[x] = ordStatus[x]
        \/ x = cur[p] /\ Delivering(p) /\ ordStatus'[x] \in {"FAILED", "DELIVERED"}
  BY DEF DeliveryNext, DeliverOrder, DeliverLoad, DeliverRefused,
         DeliverClaim, DeliverAlready, SendOk, SendError, RecordFailure,
         Finalize, MarkOrderDelivered, UpdateStatus, RetryStart, StartRun,
         Redeliver, RetryOne, tables, orderCols, PaidInv, TypeOK,
         TablesTypeOK, Delivering
<1>4. \A x \in Orders :
        dlvStatus'[x] = dlvStatus[x] \/ (x = cur[p] /\ Delivering(p))
  BY DEF DeliveryNext, DeliverOrder, DeliverLoad, DeliverRefused,
         DeliverClaim, CreatePending, DeliverAlready, SendOk, SendError,
         RecordFailure, MarkDeliveryFailed, Finalize, MarkDeliveryDelivered,
         RetryStart, StartRun, Redeliver, RetryOne, tables, deliveryCols,
         PaidInv, TypeOK, TablesTypeOK, Delivering
<1>5. \A x \in Orders : sent'[x] = sent[x] \/ (x = cur[p] /\ Delivering(p))
  BY DEF DeliveryNext, DeliverOrder, DeliverLoad, DeliverRefused,
         DeliverClaim, DeliverAlready, SendOk, SendError, Received,
         RecordFailure, Finalize, RetryStart, StartRun, Redeliver, RetryOne,
         world, PaidInv, TypeOK, FramesTypeOK, Delivering
<1>6. /\ \A q \in Procs : pc'[q] \notin {"idle", "next"} => cur'[q] \in Orders
      /\ \A q \in Procs :
           Delivering(q)' => /\ cur'[q] = cur[q]
                             /\ \/ Delivering(q)
                                \/ pc[q] = "load" /\ Deliverable(cur[q])
  <2> USE DEF PaidInv, TypeOK, FramesTypeOK, Delivering
  <2>1. CASE DeliverLoad(p)
    BY <2>1 DEF DeliverLoad, Goto
  <2>2. CASE \/ DeliverRefused(p) \/ DeliverAlready(p) \/ RecordFailure(p)
             \/ Finalize(p)
    BY <2>2 DEF DeliverRefused, DeliverAlready, RecordFailure, Finalize, Return
  <2>3. CASE DeliverClaim(p) \/ SendOk(p) \/ SendError(p)
    BY <2>3 DEF DeliverClaim, SendOk, SendError, Goto
  <2>4. CASE RetryStart(p)
    BY <2>4 DEF RetryStart, StartRun
  <2>5. CASE \E o \in Orders : Redeliver(p, o) \/ RetryOne(p, o)
    BY <2>5 DEF Redeliver, RetryOne, Call
  <2> QED BY <2>1, <2>2, <2>3, <2>4, <2>5 DEF DeliveryNext, DeliverOrder
<1>7. \A q \in Procs : Delivering(q)' => paidAt'[cur'[q]]
  <2> SUFFICES ASSUME NEW q \in Procs, Delivering(q)' PROVE paidAt[cur[q]]
    BY <1>2, <1>6
  <2>1. CASE Delivering(q)
    BY <2>1 DEF PaidInv
  <2>2. CASE pc[q] = "load" /\ Deliverable(cur[q])
    BY <2>2 DEF Deliverable, PaidInv, PaidBeforeDispatch
  <2> QED BY <1>6, <2>1, <2>2
<1> QED
  BY <1>1, <1>2, <1>3, <1>4, <1>5, <1>6, <1>7
  DEF PaidInv, PaidBeforeDispatch

LEMMA ControlPaid ==
  ASSUME PaidInv, NEW p \in Procs, EndRun(p) \/ Fail(p) \/ FailOne(p)
  PROVE  PaidInv'
<1>1. TypeOK'
  BY ControlType DEF PaidInv
<1>2. UNCHANGED <<ordStatus, paidAt, dlvStatus, sent>>
  BY DEF EndRun, Fail, FailOne, tables, world
<1>3. /\ \A q \in Procs : pc'[q] \notin {"idle", "next"} => cur'[q] \in Orders
      /\ \A q \in Procs : Delivering(q)' => Delivering(q) /\ cur'[q] = cur[q]
  BY DEF EndRun, Fail, FailOne, Return, PaidInv, TypeOK, FramesTypeOK,
         Delivering
<1> QED
  BY <1>1, <1>2, <1>3 DEF PaidInv, PaidBeforeDispatch, Delivering

LEMMA PaidInvariant == Spec => []PaidInv
<1>1. Init => PaidInv
  <2>1. Init => TypeOK
    BY InitType
  <2> QED
    BY <2>1 DEF Init, TablesInit, FramesInit, PaidInv, PaidBeforeDispatch,
                Delivering
<1>2. PaidInv /\ [Next]_vars => PaidInv'
  <2> SUFFICES ASSUME PaidInv, [Next]_vars PROVE PaidInv'
    OBVIOUS
  <2>1. CASE CreateNext
    BY <2>1, CreatePaid
  <2>2. CASE WorldNext
    BY <2>2, WorldPaid
  <2>3. ASSUME NEW p \in Procs, ProcNext(p) PROVE PaidInv'
    BY <2>3, OrderPaid, PaymentPaid, DeliveryPaid, ControlPaid DEF ProcNext
  <2>4. CASE UNCHANGED vars
    BY <2>4 DEF vars, tables, frame, world, PaidInv, PaidBeforeDispatch,
                TypeOK, TablesTypeOK, FramesTypeOK, Delivering
  <2> QED BY <2>1, <2>2, <2>3, <2>4 DEF Next
<1> QED BY <1>1, <1>2, PTL DEF Spec

\* Whatever interleaves or fails, credentials go out only for an order whose
\* settlement was committed before (DeliverOrder's status check).
THEOREM DispatchedIsPaid == Spec => []PaidBeforeDispatch
<1>1. PaidInv => PaidBeforeDispatch
  BY DEF PaidInv
<1> QED BY <1>1, PaidInvariant, PTL

\* An order is settled once, from PENDING, and is not revived: the check under
\* the row lock in applyTransition (MayTransition).
THEOREM SettledIsOnce == Spec => SettledOnce
<1>1. ASSUME PaidInv, [Next]_vars, NEW o \in Orders,
             ordStatus'[o] = "PAID", ordStatus[o] # "PAID"
      PROVE  ordStatus[o] = "PENDING" /\ ~paidAt[o]
  <2> USE DEF PaidInv, TypeOK, TablesTypeOK
  <2>1. CASE CreateNext
    BY <1>1, <2>1
    DEF CreateNext, CreateOrder, InsertOrder, CreateCharge, CreateChargeFails,
        PersistPayment, PersistPaymentFails, CancelAndRelease, UpdateStatus,
        AbandonCreate, tables, orderCols
  <2>2. CASE WorldNext
    BY <1>1, <2>2 DEF WorldNext, Tick, CustomerPays, GatewayCloses, tables
  <2>3. ASSUME NEW p \in Procs, OrderNext(p)
        PROVE  ordStatus[o] = "PENDING" /\ ~paidAt[o]
    BY <1>1, <2>3
    DEF OrderNext, CancelRead, ExpireOne, CancelCommit, UpdateStatus,
        CleanupStart, StartRun, tables
  <2>4. ASSUME NEW p \in Procs, PaymentNext(p)
        PROVE  ordStatus[o] = "PENDING" /\ ~paidAt[o]
    <3>1. ASSUME NEW x, NEW m, Transition(x, m)
          PROVE  x = o /\ MayTransition(o)
      BY <1>1, <3>1
      DEF Transition, Settle, MarkPaid, Close, UpdateStatus, orderCols
    <3>2. UNCHANGED ordStatus \/ Transition(cur[p], MapTransactionStatus(note[p]))
      BY <2>4
      DEF PaymentNext, Notify, NotifyBadSignature, Confirm, ForceSettle,
          ReconcileOne, ReconcileSkip, ApplyTransition, ApplyNotification,
          MarkEvent, ReconcileStart, StartRun, tables, orderCols
    <3> QED BY <1>1, <3>1, <3>2 DEF MayTransition
  <2>5. ASSUME NEW p \in Procs, DeliveryNext(p)
        PROVE  ordStatus[o] = "PENDING" /\ ~paidAt[o]
    BY <1>1, <2>5
    DEF DeliveryNext, DeliverOrder, DeliverLoad, DeliverRefused, DeliverClaim,
        DeliverAlready, SendOk, SendError, RecordFailure, Finalize,
        MarkOrderDelivered, UpdateStatus, RetryStart, StartRun, Redeliver,
        RetryOne, tables, orderCols
  <2>6. ASSUME NEW p \in Procs, EndRun(p) \/ Fail(p) \/ FailOne(p)
        PROVE  ordStatus[o] = "PENDING" /\ ~paidAt[o]
    BY <1>1, <2>6 DEF EndRun, Fail, FailOne, tables
  <2>7. CASE UNCHANGED vars
    BY <1>1, <2>7 DEF vars, tables
  <2> QED BY <1>1, <2>1, <2>2, <2>3, <2>4, <2>5, <2>6, <2>7 DEF Next, ProcNext
<1>2. PaidInv /\ [Next]_vars =>
        [\A o \in Orders :
           ordStatus'[o] = "PAID" /\ ordStatus[o] # "PAID"
             => ordStatus[o] = "PENDING" /\ ~paidAt[o]]_vars
  BY <1>1
<1> QED BY <1>2, PaidInvariant, PTL DEF Spec, SettledOnce

-----------------------------------------------------------------------------
(* No account is sold twice where orders are closed under their lock *)

\* OrderKeepsAccount, and what makes it inductive: nobody is about to write a
\* decision taken without the lock, and a paid order is never closed.
StockInv ==
  /\ \A o \in Orders :
       ordStatus[o] = "PENDING" \/ paidAt[o]
         => /\ ordAccount[o] \in Accounts
            /\ accHolder[ordAccount[o]] = o
            /\ accStatus[ordAccount[o]] \in {"RESERVED", "SOLD"}
  /\ \A o \in Orders : createPc[o] # "rollback"
  /\ \A p \in Procs : pc[p] # "cancel"

LEMMA CreateStock ==
  ASSUME ClosesUnderLock, PaidInv, StockInv, CreateNext PROVE StockInv'
<1> USE DEF ClosesUnderLock, StockInv, PaidInv, TypeOK, TablesTypeOK,
            FramesTypeOK
<1>1. PICK o \in Orders :
        \/ \E a \in Accounts : CreateOrder(o, a)
        \/ CreateCharge(o)
        \/ PersistPayment(o)
        \/ AbandonCreate(o)
  BY DEF CreateNext, CreateChargeFails, PersistPaymentFails, CancelAndRelease
<1>2. ASSUME NEW a \in Accounts, CreateOrder(o, a) PROVE StockInv'
  <2>1. /\ ordStatus' = [ordStatus EXCEPT ![o] = "PENDING"]
        /\ ordAccount' = [ordAccount EXCEPT ![o] = a]
        /\ accStatus[a] = "AVAILABLE"
        /\ accStatus' = [accStatus EXCEPT ![a] = "RESERVED"]
        /\ accHolder' = [accHolder EXCEPT ![a] = o]
        /\ createPc' = [createPc EXCEPT ![o] = "charge"]
        /\ UNCHANGED <<paidAt, pc>>
    BY <1>2 DEF CreateOrder, InsertOrder, ReserveOneAvailable, frame
  <2>2. ASSUME NEW x \in Orders, (ordStatus[x] = "PENDING" \/ paidAt[x])'
        PROVE  /\ ordAccount'[x] \in Accounts
               /\ accHolder'[ordAccount'[x]] = x
               /\ accStatus'[ordAccount'[x]] \in {"RESERVED", "SOLD"}
    <3>1. CASE x = o
      BY <2>1, <3>1
    <3>2. CASE x # o
      BY <2>1, <2>2, <3>2
    <3> QED BY <3>1, <3>2
  <2> QED BY <2>1, <2>2
<1>3. CASE CreateCharge(o) \/ PersistPayment(o) \/ AbandonCreate(o)
  BY <1>3 DEF CreateCharge, PersistPayment, AbandonCreate, tables, orderCols,
              accountCols, frame
<1> QED BY <1>1, <1>2, <1>3

\* A step that closes a PENDING order gives back the account that order holds,
\* so no other open or paid order loses its own.
LEMMA CloseStock ==
  ASSUME PaidInv, StockInv, NEW o \in Orders, ordStatus[o] = "PENDING",
         NEW s \in {"EXPIRED", "CANCELLED"}, NEW m, Close(o, s, m)
  PROVE  \A x \in Orders :
           ordStatus'[x] = "PENDING" \/ paidAt'[x]
             => /\ ordAccount'[x] \in Accounts
                /\ accHolder'[ordAccount'[x]] = x
                /\ accStatus'[ordAccount'[x]] \in {"RESERVED", "SOLD"}
<1> USE DEF StockInv, PaidInv, TypeOK, TablesTypeOK
<1>1. /\ ordStatus' = [ordStatus EXCEPT ![o] = s]
      /\ UNCHANGED <<ordAccount, paidAt>>
      /\ ordAccount[o] \in Accounts /\ accHolder[ordAccount[o]] = o
  BY DEF Close, UpdateStatus
<1>2. \A a \in Accounts : a # ordAccount[o]
        => accStatus'[a] = accStatus[a] /\ accHolder'[a] = accHolder[a]
  BY DEF Close, ReleaseReservation, accountCols
<1>3. ~paidAt[o]
  OBVIOUS
<1> QED BY <1>1, <1>2, <1>3

LEMMA ProcStock ==
  ASSUME ClosesUnderLock, PaidInv, StockInv, NEW p \in Procs, ProcNext(p)
  PROVE  StockInv'
<1> USE DEF PaidInv, TypeOK, TablesTypeOK, FramesTypeOK
<1>1. CASE OrderNext(p)
  <2>1. p # "cleanup"
    BY DeploymentAssumption DEF ClosesUnderLock, Procs, AllJobs
  <2>2. pc[p] # "cancel" /\ "cancel" \notin Requests
    BY DEF StockInv, ClosesUnderLock
  <2> QED
    BY <1>1, <2>1, <2>2
    DEF OrderNext, CancelRead, Accept, ExpireOne, CancelCommit, CleanupStart
<1>2. CASE PaymentNext(p)
  <2>1. UNCHANGED createPc /\ \A q \in Procs : pc'[q] # "cancel"
    BY <1>2
    DEF PaymentNext, Notify, NotifyBadSignature, Confirm, ForceSettle,
        ReconcileOne, ReconcileSkip, ApplyTransition, ApplyNotification,
        MarkEvent, ReconcileStart, StartRun, TriggerDelivery, Goto, Call,
        Return, StockInv, frame
  <2>2. \/ UNCHANGED <<orderCols, accountCols>>
        \/ cur[p] \in Orders /\ Transition(cur[p], MapTransactionStatus(note[p]))
    BY <1>2
    DEF PaymentNext, Notify, NotifyBadSignature, Confirm, ForceSettle,
        ReconcileOne, ReconcileSkip, ApplyTransition, ApplyNotification,
        MarkEvent, ReconcileStart, StartRun, tables, orderCols, accountCols
  <2>3. ASSUME NEW o \in Orders, NEW m, Transition(o, m)
        PROVE  \A x \in Orders :
                 ordStatus'[x] = "PENDING" \/ paidAt'[x]
                   => /\ ordAccount'[x] \in Accounts
                      /\ accHolder'[ordAccount'[x]] = x
                      /\ accStatus'[ordAccount'[x]] \in {"RESERVED", "SOLD"}
    <3>1. CASE MayTransition(o) /\ Settle(o)
      BY <3>1 DEF MayTransition, Settle, MarkPaid, StockInv, accountCols
    <3>2. ASSUME MayTransition(o),
                 Close(o, "EXPIRED", m) \/ Close(o, "CANCELLED", m)
          PROVE  \A x \in Orders :
                   ordStatus'[x] = "PENDING" \/ paidAt'[x]
                     => /\ ordAccount'[x] \in Accounts
                        /\ accHolder'[ordAccount'[x]] = x
                        /\ accStatus'[ordAccount'[x]] \in {"RESERVED", "SOLD"}
      BY <3>2, CloseStock DEF MayTransition
    <3>3. CASE UNCHANGED <<orderCols, payStatus, accountCols>>
      BY <3>3 DEF StockInv, orderCols, accountCols
    <3> QED BY <2>3, <3>1, <3>2, <3>3 DEF Transition
  <2> QED BY <2>1, <2>2, <2>3 DEF StockInv, orderCols, accountCols
<1>3. CASE DeliveryNext(p)
  <2>1. UNCHANGED <<createPc, ordAccount, paidAt, accHolder>>
    BY <1>3
    DEF DeliveryNext, DeliverOrder, DeliverLoad, DeliverRefused, DeliverClaim,
        DeliverAlready, SendOk, SendError, RecordFailure, Finalize, MarkSold,
        MarkOrderDelivered, UpdateStatus, RetryStart, StartRun, Redeliver,
        RetryOne, tables, orderCols, accountCols
  <2>2. \A q \in Procs : pc'[q] # "cancel"
    BY <1>3
    DEF DeliveryNext, DeliverOrder, DeliverLoad, DeliverRefused, DeliverClaim,
        DeliverAlready, SendOk, SendError, RecordFailure, Finalize, RetryStart,
        StartRun, Redeliver, RetryOne, Goto, Call, Return, StockInv
  <2>3. \A x \in Orders : ordStatus'[x] = "PENDING" => ordStatus[x] = "PENDING"
    BY <1>3
    DEF DeliveryNext, DeliverOrder, DeliverLoad, DeliverRefused, DeliverClaim,
        DeliverAlready, SendOk, SendError, RecordFailure, Finalize,
        MarkOrderDelivered, UpdateStatus, RetryStart, StartRun, Redeliver,
        RetryOne, tables, orderCols
  <2>4. \A a \in Accounts : accStatus'[a] = accStatus[a] \/ accStatus'[a] = "SOLD"
    BY <1>3
    DEF DeliveryNext, DeliverOrder, DeliverLoad, DeliverRefused, DeliverClaim,
        DeliverAlready, SendOk, SendError, RecordFailure, Finalize, MarkSold,
        RetryStart, StartRun, Redeliver, RetryOne, tables, accountCols
  <2> QED BY <2>1, <2>2, <2>3, <2>4 DEF StockInv
<1>4. CASE EndRun(p) \/ Fail(p) \/ FailOne(p)
  BY <1>4 DEF EndRun, Fail, FailOne, Return, StockInv, tables
<1> QED BY <1>1, <1>2, <1>3, <1>4 DEF ProcNext

LEMMA StockInvariant == ClosesUnderLock => (Spec => []StockInv)
<1> SUFFICES ASSUME ClosesUnderLock PROVE Spec => []StockInv
  OBVIOUS
<1>1. Init => StockInv
  BY DEF Init, TablesInit, FramesInit, StockInv
<1>2. PaidInv /\ StockInv /\ [Next]_vars => StockInv'
  <2> SUFFICES ASSUME PaidInv, StockInv, [Next]_vars PROVE StockInv'
    OBVIOUS
  <2>1. CASE CreateNext
    BY <2>1, CreateStock
  <2>2. CASE WorldNext
    BY <2>2 DEF WorldNext, Tick, CustomerPays, GatewayCloses, StockInv, tables,
                frame
  <2>3. ASSUME NEW p \in Procs, ProcNext(p) PROVE StockInv'
    BY <2>3, ProcStock
  <2>4. CASE UNCHANGED vars
    BY <2>4 DEF vars, tables, frame, StockInv
  <2> QED BY <2>1, <2>2, <2>3, <2>4 DEF Next
<1> QED BY <1>1, <1>2, PaidInvariant, PTL DEF Spec

\* An order that waits for its payment or was paid keeps its account, where
\* orders are closed under their lock.
THEOREM OrderKeepsItsAccount == ClosesUnderLock => (Spec => []OrderKeepsAccount)
<1>1. StockInv => OrderKeepsAccount
  BY DEF StockInv, OrderKeepsAccount
<1> QED BY <1>1, StockInvariant, PTL

\* The documented guarantee, with the hypothesis it needs: no two customers
\* get the same account, where orders are closed under their lock.
THEOREM NoAccountSoldTwice == ClosesUnderLock => (Spec => []NoDoubleSell)
<1>1. PaidInv /\ StockInv => NoDoubleSell
  BY DEF PaidInv, PaidBeforeDispatch, StockInv, NoDoubleSell
<1> QED BY <1>1, PaidInvariant, StockInvariant, PTL
=============================================================================
