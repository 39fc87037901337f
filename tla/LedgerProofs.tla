---------------------------- MODULE LedgerProofs ----------------------------
(***************************************************************************)
(* The store implements the ledger where orders are closed under their     *)
(* row's lock, and what the two directions of a reservation say of each    *)
(* other in every deployment.                                              *)
(***************************************************************************)
EXTENDS StoreLedger, StoreProofs

\* The kinds of step, by what they do to orders, accounts and dispatches.
Reserves == \E o \in Orders, a \in Accounts :
              CreateOrder(o, a)

SettlesOne == \E o \in Orders :
                MayTransition(o) /\ Settle(o) /\ UNCHANGED sent

ClosesOne == \E o \in Orders, s \in {"EXPIRED", "CANCELLED"} :
               /\ UpdateStatus(o, s)
               /\ ReleaseReservation(ordAccount[o])
               /\ UNCHANGED sent
               /\ ClosesUnderLock /\ StockInv => MayTransition(o)

Dispatches == \E o \in Orders :
                paidAt[o] /\ Received(o) /\ UNCHANGED <<orderCols, accountCols>>

FailsOne == \E o \in Orders :
              /\ paidAt[o]
              /\ UpdateStatus(o, "FAILED")
              /\ UNCHANGED <<accountCols, sent>>

FinalizesOne == \E o \in Orders :
                  /\ paidAt[o]
                  /\ UpdateStatus(o, "DELIVERED")
                  /\ MarkSold(ordAccount[o])
                  /\ UNCHANGED sent

LeavesStock == UNCHANGED <<orderCols, accountCols, sent>>

StockStep == \/ Reserves \/ SettlesOne \/ ClosesOne \/ Dispatches
             \/ FailsOne \/ FinalizesOne \/ LeavesStock

LEMMA CreateStep == ASSUME CreateNext PROVE StockStep
<1>1. PICK o \in Orders :
        \/ \E a \in Accounts : CreateOrder(o, a)
        \/ CreateCharge(o)
        \/ CreateChargeFails(o)
        \/ PersistPayment(o)
        \/ PersistPaymentFails(o)
        \/ CancelAndRelease(o)
        \/ AbandonCreate(o)
  BY DEF CreateNext
<1>2. CASE \E a \in Accounts : CreateOrder(o, a)
  BY <1>2 DEF StockStep, Reserves
<1>3. CASE CancelAndRelease(o)
  BY <1>3 DEF CancelAndRelease, StockStep, ClosesOne, StockInv, world
<1>4. CASE \/ CreateCharge(o) \/ CreateChargeFails(o) \/ PersistPayment(o)
           \/ PersistPaymentFails(o) \/ AbandonCreate(o)
  BY <1>4 DEF CreateCharge, CreateChargeFails, PersistPayment,
              PersistPaymentFails, AbandonCreate, StockStep, LeavesStock,
              tables, orderCols, accountCols, world
<1> QED BY <1>1, <1>2, <1>3, <1>4

LEMMA OrderStep ==
  ASSUME PaidInv, NEW p \in Procs, OrderNext(p) PROVE StockStep
<1>1. CASE CancelCommit(p)
  <2>1. cur[p] \in Orders
    BY <1>1 DEF CancelCommit, PaidInv
  <2> QED
    BY <1>1, <2>1 DEF CancelCommit, StockStep, ClosesOne, StockInv, world
<1>2. ASSUME NEW o \in Orders, ExpireOne(p, o) PROVE StockStep
  <2>1. ~ClosesUnderLock
    BY <1>2, DeploymentAssumption DEF ExpireOne, ClosesUnderLock, Procs, AllJobs
  <2> QED
    BY <1>2, <2>1 DEF ExpireOne, StockStep, ClosesOne, world
<1>3. CASE CleanupStart(p) \/ \E o \in Orders : CancelRead(p, o)
  BY <1>3 DEF CleanupStart, StartRun, CancelRead, StockStep, LeavesStock,
              tables, orderCols, accountCols, world
<1> QED BY <1>1, <1>2, <1>3 DEF OrderNext

LEMMA PaymentStep ==
  ASSUME PaidInv, NEW p \in Procs, PaymentNext(p) PROVE StockStep
<1>1. ASSUME NEW o \in Orders, NEW m, Transition(o, m), UNCHANGED sent
      PROVE  StockStep
  BY <1>1 DEF Transition, Close, StockStep, SettlesOne, ClosesOne, LeavesStock
<1>2. CASE ApplyTransition(p) \/ ApplyNotification(p)
  <2>1. cur[p] \in Orders
    BY <1>2 DEF ApplyTransition, ApplyNotification, PaidInv
  <2>2. Transition(cur[p], MapTransactionStatus(note[p])) /\ UNCHANGED sent
    BY <1>2 DEF ApplyTransition, ApplyNotification, world
  <2> QED BY <1>1, <2>1, <2>2
<1>3. CASE ~(ApplyTransition(p) \/ ApplyNotification(p))
  BY <1>3 DEF PaymentNext, Notify, NotifyBadSignature, Confirm, ForceSettle,
              ReconcileOne, ReconcileSkip, MarkEvent, ReconcileStart, StartRun,
              StockStep, LeavesStock, tables, orderCols, accountCols, world
<1> QED BY <1>2, <1>3

LEMMA DeliveryStep ==
  ASSUME PaidInv, NEW p \in Procs, DeliveryNext(p) PROVE StockStep
<1>1. pc[p] \in {"send", "sendFailed", "finalize"}
        => cur[p] \in Orders /\ paidAt[cur[p]]
  BY DEF PaidInv, Delivering
<1>2. CASE SendOk(p) \/ SendError(p)
  BY <1>1, <1>2 DEF SendOk, SendError, StockStep, Dispatches, LeavesStock,
                    tables, orderCols, accountCols
<1>3. CASE RecordFailure(p)
  BY <1>1, <1>3 DEF RecordFailure, StockStep, FailsOne, LeavesStock, world
<1>4. CASE Finalize(p)
  BY <1>1, <1>4 DEF Finalize, MarkOrderDelivered, StockStep, FinalizesOne, world
<1>5. CASE \/ DeliverLoad(p) \/ DeliverRefused(p) \/ DeliverClaim(p)
           \/ DeliverAlready(p) \/ RetryStart(p)
           \/ \E o \in Orders : Redeliver(p, o) \/ RetryOne(p, o)
  BY <1>5 DEF DeliverLoad, DeliverRefused, DeliverClaim, DeliverAlready,
              RetryStart, StartRun, Redeliver, RetryOne, StockStep,
              LeavesStock, tables, orderCols, accountCols, world
<1> QED BY <1>2, <1>3, <1>4, <1>5 DEF DeliveryNext, DeliverOrder

LEMMA EveryStep == ASSUME PaidInv, [Next]_vars PROVE StockStep
<1>1. CASE CreateNext
  BY <1>1, CreateStep
<1>2. CASE WorldNext
  BY <1>2 DEF WorldNext, Tick, CustomerPays, GatewayCloses, StockStep,
              LeavesStock, tables, orderCols, accountCols
<1>3. ASSUME NEW p \in Procs, ProcNext(p) PROVE StockStep
  <2>1. CASE EndRun(p) \/ Fail(p) \/ FailOne(p)
    BY <2>1 DEF EndRun, Fail, FailOne, StockStep, LeavesStock, tables,
                orderCols, accountCols, world
  <2> QED BY <1>3, <2>1, OrderStep, PaymentStep, DeliveryStep DEF ProcNext
<1>4. CASE UNCHANGED vars
  BY <1>4 DEF vars, tables, world, StockStep, LeavesStock, orderCols,
              accountCols
<1> QED BY <1>1, <1>2, <1>3, <1>4 DEF Next

-----------------------------------------------------------------------------
(* Every deployment *)

LEMMA SoldStays ==
  ASSUME PaidInv, [Next]_vars, NEW a \in Accounts, accStatus[a] = "SOLD"
  PROVE  accStatus'[a] = "SOLD"
BY EveryStep
DEF StockStep, Reserves, CreateOrder, ReserveOneAvailable, SettlesOne, Settle,
    ClosesOne, ReleaseReservation, Dispatches, FailsOne, FinalizesOne, MarkSold,
    LeavesStock, accountCols, PaidInv, TypeOK, TablesTypeOK

\* A sold account never comes back into stock: every release is conditional on
\* RESERVED and every reservation on AVAILABLE.
THEOREM SoldIsForever == Spec => SoldForever
<1>1. PaidInv /\ [Next]_vars =>
        [\A a \in Accounts : accStatus[a] = "SOLD" => accStatus'[a] = "SOLD"]_vars
  BY SoldStays
<1> QED BY <1>1, PaidInvariant, PTL DEF Spec, SoldForever

\* HolderLinked, and the fact that an order without a row has no account yet.
LinkInv ==
  /\ HolderLinked
  /\ \A o \in Orders : ordStatus[o] = "NONE" => ordAccount[o] = NoAccount

LEMMA LinkStep == ASSUME PaidInv, LinkInv, StockStep PROVE LinkInv'
<1> USE NullAssumption
    DEF LinkInv, HolderLinked, PaidInv, TypeOK, TablesTypeOK
<1>1. CASE Reserves
  <2>1. PICK o \in Orders, a \in Accounts : CreateOrder(o, a)
    BY <1>1 DEF Reserves
  <2>2. \A b \in Accounts : accHolder[b] # o
    BY <2>1 DEF CreateOrder, InsertOrder
  <2> QED
    BY <2>1, <2>2 DEF CreateOrder, InsertOrder, ReserveOneAvailable
<1>2. CASE SettlesOne
  BY <1>2 DEF SettlesOne, Settle, MarkPaid, accountCols
<1>3. CASE ClosesOne
  <2>1. PICK o \in Orders, s \in {"EXPIRED", "CANCELLED"} :
          UpdateStatus(o, s) /\ ReleaseReservation(ordAccount[o])
    BY <1>3 DEF ClosesOne
  <2>2. \A x \in Orders : ordStatus'[x] = "NONE" => ordStatus[x] = "NONE"
    BY <2>1 DEF UpdateStatus
  <2>3. \A a \in Accounts :
          \/ accStatus'[a] = accStatus[a] /\ accHolder'[a] = accHolder[a]
          \/ accStatus'[a] = "AVAILABLE" /\ accHolder'[a] = NoOrder
    BY <2>1 DEF ReleaseReservation, accountCols
  <2> QED BY <2>1, <2>2, <2>3 DEF UpdateStatus
<1>4. CASE Dispatches \/ LeavesStock
  BY <1>4 DEF Dispatches, LeavesStock, orderCols, accountCols
<1>5. CASE FailsOne
  BY <1>5 DEF FailsOne, UpdateStatus, accountCols
<1>6. CASE FinalizesOne
  BY <1>6 DEF FinalizesOne, UpdateStatus, MarkSold
<1> QED BY <1>1, <1>2, <1>3, <1>4, <1>5, <1>6 DEF StockStep

LEMMA LinkInvariant == Spec => []LinkInv
<1>1. Init => LinkInv
  BY DEF Init, TablesInit, LinkInv, HolderLinked
<1>2. PaidInv /\ LinkInv /\ [Next]_vars => LinkInv'
  BY EveryStep, LinkStep
<1> QED BY <1>1, <1>2, PaidInvariant, PTL DEF Spec

\* Whatever interleaves or fails, reserved_order_id names an order that is
\* linked back, and is set exactly where the status says so.
THEOREM HoldersAreLinked == Spec => []HolderLinked
<1>1. LinkInv => HolderLinked
  BY DEF LinkInv
<1> QED BY <1>1, LinkInvariant, PTL

-----------------------------------------------------------------------------
(* Deployments that close orders under their lock *)

\* The account of an order that can still be paid is not sold, so that closing
\* the order does release it.
OpenReserved ==
  \A o \in Orders :
    ordStatus[o] = "PENDING" => accStatus[ordAccount[o]] = "RESERVED"

LEMMA OpenStep ==
  ASSUME ClosesUnderLock, PaidInv, StockInv, OpenReserved, StockStep
  PROVE  OpenReserved'
<1> USE DEF OpenReserved, StockInv, PaidInv, TypeOK, TablesTypeOK
<1>1. CASE Reserves
  BY <1>1 DEF Reserves, CreateOrder, InsertOrder, ReserveOneAvailable
<1>2. CASE SettlesOne
  BY <1>2 DEF SettlesOne, Settle, MarkPaid, accountCols
<1>3. CASE ClosesOne
  <2>1. PICK o \in Orders, s \in {"EXPIRED", "CANCELLED"} :
          /\ UpdateStatus(o, s)
          /\ ReleaseReservation(ordAccount[o])
          /\ MayTransition(o)
    BY <1>3 DEF ClosesOne
  <2>2. \A x \in Orders : ordStatus'[x] = "PENDING"
          => ordStatus[x] = "PENDING" /\ ordAccount[x] # ordAccount[o]
    BY <2>1 DEF UpdateStatus, MayTransition
  <2> QED
    BY <2>1, <2>2 DEF UpdateStatus, ReleaseReservation, accountCols
<1>4. CASE Dispatches \/ LeavesStock
  BY <1>4 DEF Dispatches, LeavesStock, orderCols, accountCols
<1>5. CASE FailsOne
  BY <1>5 DEF FailsOne, UpdateStatus, accountCols
<1>6. CASE FinalizesOne
  <2>1. PICK o \in Orders : /\ paidAt[o]
                            /\ UpdateStatus(o, "DELIVERED")
                            /\ MarkSold(ordAccount[o])
    BY <1>6 DEF FinalizesOne
  <2>2. \A x \in Orders : ordStatus'[x] = "PENDING"
          => ordStatus[x] = "PENDING" /\ ordAccount[x] # ordAccount[o]
    BY <2>1 DEF UpdateStatus
  <2> QED BY <2>1, <2>2 DEF UpdateStatus, MarkSold
<1> QED BY <1>1, <1>2, <1>3, <1>4, <1>5, <1>6 DEF StockStep

LEMMA OpenInvariant == ClosesUnderLock => (Spec => []OpenReserved)
<1> SUFFICES ASSUME ClosesUnderLock PROVE Spec => []OpenReserved
  OBVIOUS
<1>1. Init => OpenReserved
  BY DEF Init, TablesInit, OpenReserved
<1>2. PaidInv /\ StockInv /\ OpenReserved /\ [Next]_vars => OpenReserved'
  BY EveryStep, OpenStep
<1> QED BY <1>1, <1>2, PaidInvariant, StockInvariant, PTL DEF Spec

-----------------------------------------------------------------------------
(* The refinement *)

\* What an order's phase is while it waits, once it is paid, and otherwise.
LEMMA PhaseNow ==
  ASSUME PaidInv, NEW o \in Orders
  PROVE  /\ ordStatus[o] = "NONE" => Phase(o) = "none"
         /\ ordStatus[o] = "PENDING" => Phase(o) = "open"
         /\ paidAt[o] => Phase(o) = "paid"
BY DEF PaidInv, TypeOK, TablesTypeOK, Phase

LEMMA ReserveRefines ==
  ASSUME PaidInv, LinkInv, Reserves PROVE L!Next
<1>1. PICK o \in Orders, a \in Accounts : CreateOrder(o, a)
  BY DEF Reserves
<1>2. /\ ordStatus[o] = "NONE" /\ ~paidAt[o]
      /\ ordStatus' = [ordStatus EXCEPT ![o] = "PENDING"]
      /\ accStatus[a] = "AVAILABLE"
      /\ accHolder' = [accHolder EXCEPT ![a] = o]
      /\ UNCHANGED <<paidAt, sent>>
  BY <1>1 DEF CreateOrder, InsertOrder, ReserveOneAvailable, world, PaidInv
<1>3. Phase(o) = "none" /\ accHolder[a] = NoOrder
  BY <1>2, PhaseNow DEF LinkInv, HolderLinked
<1>4. [x \in Orders |-> Phase(x)]'
        = [[x \in Orders |-> Phase(x)] EXCEPT ![o] = "open"]
  BY <1>2 DEF Phase, PaidInv, TypeOK, TablesTypeOK
<1>5. L!Place(o, a)
  BY <1>2, <1>3, <1>4 DEF L!Place
<1> QED BY <1>5 DEF L!Next

LEMMA SettleRefines == ASSUME PaidInv, SettlesOne PROVE L!Next
<1>1. PICK o \in Orders : MayTransition(o) /\ Settle(o) /\ UNCHANGED sent
  BY DEF SettlesOne
<1>2. /\ ordStatus[o] = "PENDING"
      /\ ordStatus' = [ordStatus EXCEPT ![o] = "PAID"]
      /\ paidAt' = [paidAt EXCEPT ![o] = TRUE]
      /\ UNCHANGED <<accHolder, sent>>
  BY <1>1 DEF MayTransition, Settle, MarkPaid, accountCols
<1>3. Phase(o) = "open"
  BY <1>2, PhaseNow
<1>4. [x \in Orders |-> Phase(x)]'
        = [[x \in Orders |-> Phase(x)] EXCEPT ![o] = "paid"]
  BY <1>2 DEF Phase, PaidInv, TypeOK, TablesTypeOK
<1>5. L!Settle(o)
  BY <1>2, <1>3, <1>4 DEF L!Settle
<1> QED BY <1>5 DEF L!Next

LEMMA CloseRefines ==
  ASSUME ClosesUnderLock, PaidInv, StockInv, LinkInv, OpenReserved, ClosesOne
  PROVE  L!Next
<1>1. PICK o \in Orders, s \in {"EXPIRED", "CANCELLED"} :
        /\ UpdateStatus(o, s)
        /\ ReleaseReservation(ordAccount[o])
        /\ UNCHANGED sent
        /\ MayTransition(o)
  BY DEF ClosesOne
<1>2. /\ ordStatus[o] = "PENDING" /\ ~paidAt[o]
      /\ ordStatus' = [ordStatus EXCEPT ![o] = s]
      /\ UNCHANGED paidAt
  BY <1>1 DEF MayTransition, UpdateStatus, PaidInv
<1>3. accHolder' = [accHolder EXCEPT ![ordAccount[o]] = NoOrder]
  BY <1>1, <1>2 DEF ReleaseReservation, OpenReserved
<1>4. \A a \in Accounts : accHolder[a] = o <=> a = ordAccount[o]
  BY <1>2, NullAssumption DEF StockInv, LinkInv, HolderLinked
<1>5. accHolder' =
        [a \in Accounts |-> IF accHolder[a] = o THEN NoOrder ELSE accHolder[a]]
  <2>1. accHolder \in [Accounts -> Orders \cup {NoOrder}]
    BY DEF PaidInv, TypeOK, TablesTypeOK
  <2>2. \A a \in Accounts :
          accHolder'[a] = IF accHolder[a] = o THEN NoOrder ELSE accHolder[a]
    BY <1>3, <1>4, <2>1
  <2>3. accHolder' = [a \in Accounts |-> accHolder'[a]]
    BY <1>3, <2>1
  <2> QED BY <2>2, <2>3
<1>6. Phase(o) = "open"
  BY <1>2, PhaseNow
<1>7. [x \in Orders |-> Phase(x)]'
        = [[x \in Orders |-> Phase(x)] EXCEPT ![o] = "closed"]
  BY <1>2 DEF Phase, PaidInv, TypeOK, TablesTypeOK
<1>8. L!Close(o)
  BY <1>1, <1>5, <1>6, <1>7 DEF L!Close
<1> QED BY <1>8 DEF L!Next

LEMMA DispatchRefines ==
  ASSUME PaidInv, StockInv, Dispatches PROVE L!Next
<1>1. PICK o \in Orders :
        paidAt[o] /\ Received(o) /\ UNCHANGED <<orderCols, accountCols>>
  BY DEF Dispatches
<1>2. UNCHANGED <<ordStatus, paidAt, accHolder>>
  BY <1>1 DEF orderCols, accountCols
<1>3. Phase(o) = "paid"
  BY <1>1, PhaseNow
<1>4. [x \in Orders |-> Phase(x)]' = [x \in Orders |-> Phase(x)]
  BY <1>2 DEF Phase
<1>5. \E a \in Accounts : accHolder[a] = o
  BY <1>1 DEF StockInv
<1>6. {x \in Orders : sent'[x] > 0} = {x \in Orders : sent[x] > 0} \cup {o}
  <2>1. \A x \in Orders : sent[x] \in 0 .. SendCap
    BY DEF PaidInv, TypeOK, FramesTypeOK
  <2>2. sent'[o] > 0 /\ \A x \in Orders : x # o => sent'[x] = sent[x]
    BY <1>1, <2>1 DEF Received, SendCap, PaidInv, TypeOK, FramesTypeOK
  <2> QED BY <2>2
<1>7. L!Dispatch(o)
  BY <1>2, <1>3, <1>4, <1>5, <1>6 DEF L!Dispatch
<1> QED BY <1>7 DEF L!Next

\* An outcome of delivery is news to the order, not to the ledger.
LEMMA OutcomeStutters ==
  ASSUME PaidInv, FailsOne \/ FinalizesOne \/ LeavesStock
  PROVE  UNCHANGED L!ledger
<1>1. UNCHANGED <<paidAt, accHolder, sent>>
  BY DEF FailsOne, FinalizesOne, LeavesStock, UpdateStatus, MarkSold,
         orderCols, accountCols
<1>2. \A x \in Orders :
        \/ ordStatus'[x] = ordStatus[x]
        \/ paidAt[x] /\ ordStatus'[x] \in {"FAILED", "DELIVERED"}
  BY DEF FailsOne, FinalizesOne, LeavesStock, UpdateStatus, orderCols,
         PaidInv, TypeOK, TablesTypeOK
<1>3. \A x \in Orders : Phase(x)' = Phase(x)
  BY <1>1, <1>2 DEF Phase, PaidInv
<1> QED BY <1>1, <1>3 DEF L!ledger

\* Where orders are closed under their row's lock, the store implements the
\* ledger: handlers and jobs, duplicates and failed messages included, an
\* account changes hands as if the orders were served one at a time.
THEOREM StoreKeepsLedger == ClosesUnderLock => (Spec => KeepsLedger)
<1> SUFFICES ASSUME ClosesUnderLock PROVE Spec => KeepsLedger
  OBVIOUS
<1>1. Init => L!Init
  BY DEF Init, TablesInit, FramesInit, L!Init, Phase
<1>2. PaidInv /\ StockInv /\ LinkInv /\ OpenReserved /\ [Next]_vars
        => [L!Next]_(L!ledger)
  BY EveryStep, ReserveRefines, SettleRefines, CloseRefines, DispatchRefines,
     OutcomeStutters DEF StockStep
<1> QED
  BY <1>1, <1>2, PaidInvariant, StockInvariant, LinkInvariant, OpenInvariant,
     PTL DEF Spec, KeepsLedger, L!Spec
=============================================================================
