------------------------------- MODULE Store -------------------------------
(***************************************************************************)
(* The store: buyers, the HTTP server's handlers and the worker's jobs,    *)
(* all of them sharing the tables.                                         *)
(***************************************************************************)
EXTENDS OrderService, PaymentService, DeliveryService

Init == TablesInit /\ FramesInit

WorldNext == \E o \in Orders : Tick(o) \/ CustomerPays(o) \/ GatewayCloses(o)

ProcNext(p) ==
  \/ OrderNext(p)
  \/ PaymentNext(p)
  \/ DeliveryNext(p)
  \/ EndRun(p)
  \/ Fail(p)
  \/ FailOne(p)

Next == CreateNext \/ WorldNext \/ \E p \in Procs : ProcNext(p)

Spec == Init /\ [][Next]_vars

-----------------------------------------------------------------------------
(***************************************************************************)
(* Fairness.  A goroutine that has a statement to run runs it, a ticker    *)
(* fires again and time passes; whether requests or notifications arrive,  *)
(* whether anybody pays and what fails is left open.                       *)
(***************************************************************************)
Service(p) ==
  \/ \E o \in Orders : ExpireOne(p, o) \/ ReconcileOne(p, o)
                         \/ ReconcileSkip(p, o) \/ RetryOne(p, o)
  \/ CancelCommit(p)
  \/ ApplyTransition(p)
  \/ ApplyNotification(p)
  \/ MarkEvent(p)
  \/ DeliverOrder(p)
  \/ CleanupStart(p) \/ ReconcileStart(p) \/ RetryStart(p) \/ EndRun(p)

FairSpec ==
  /\ Spec
  /\ \A p \in Procs : WF_vars(Service(p))
  /\ \A o \in Orders : WF_vars(Tick(o))

-----------------------------------------------------------------------------
(* The type invariant. *)
TypeOK == TablesTypeOK /\ FramesTypeOK

(***************************************************************************)
(* What holds in every deployment, whatever fails.                         *)
(***************************************************************************)

\* Credentials leave the store, and a delivery or a final state of fulfilment
\* is recorded, only for an order whose settlement was committed before:
\* DeliverOrder's check of a status that may be stale by the time of Send is
\* enough for that.
PaidBeforeDispatch ==
  \A o \in Orders :
    \/ sent[o] > 0
    \/ dlvStatus[o] # "NONE"
    \/ ordStatus[o] \in {"PAID", "FAILED", "DELIVERED"}
    => paidAt[o]

\* Where nobody confirms payments by hand, an order is paid only if the
\* gateway has settled its transaction: no duplicate, late or tampered
\* notification and no status query taken early makes one paid.
MoneyBehindPaid ==
  \A o \in Orders :
    paidAt[o] /\ Requests \cap {"confirm", "forceSettle"} = {}
      => charge[o] = "settlement"

\* The two directions of the reservation agree: the holder written in an
\* account's row is an order that is linked to that account; a free account
\* has none and a reserved one has one.
HolderLinked ==
  \A a \in Accounts :
    /\ accHolder[a] # NoOrder => ordAccount[accHolder[a]] = a
    /\ accStatus[a] = "AVAILABLE" => accHolder[a] = NoOrder
    /\ accStatus[a] = "RESERVED" => accHolder[a] # NoOrder

\* An account is written off as sold only after the customer of a paid order
\* for it got its credentials, whichever goroutine finalizes.
SoldAfterDispatch ==
  \A a \in Accounts :
    accStatus[a] = "SOLD" =>
      \E o \in Orders : ordAccount[o] = a /\ paidAt[o] /\ sent[o] > 0

\* A closing or settling notification that is flagged as processed did take
\* effect, or found that another one had: its order is no longer PENDING.
ProcessedTookEffect ==
  \A o \in Orders, s \in TxnStatus \ {"pending"} :
    events[o][s] = "processed" => ordStatus[o] # "PENDING"

\* A sold account never comes back into stock, though cleanup, cancellation
\* and rollback release accounts they read about long ago.
SoldForever ==
  [][\A a \in Accounts : accStatus[a] = "SOLD" => accStatus'[a] = "SOLD"]_vars

\* An order becomes PAID at most once, and only from PENDING: a settlement
\* that comes after the order was closed does not revive it.
SettledOnce ==
  [][\A o \in Orders :
       ordStatus'[o] = "PAID" /\ ordStatus[o] # "PAID"
         => ordStatus[o] = "PENDING" /\ ~paidAt[o]]_vars

(***************************************************************************)
(* A deployment in which every goroutine that closes an order looks at it  *)
(* under the lock of its row: no cancel request, no cleanup job, and no    *)
(* CreateOrder that rolls back.                                            *)
(***************************************************************************)
ClosesUnderLock ==
  /\ "cancel" \notin Requests
  /\ "cleanup" \notin Jobs
  /\ Faults \cap {"charge", "persist"} = {}

(***************************************************************************)
(* What the documentation promises.  It holds in the deployments named in  *)
(* the README, and not in every deployment.                                *)
(***************************************************************************)

\* README.md, "No double-selling": two customers never get the credentials of
\* the same account.
NoDoubleSell ==
  \A o1, o2 \in Orders :
    sent[o1] > 0 /\ sent[o2] > 0 /\ ordAccount[o1] = ordAccount[o2] => o1 = o2

\* order.go, "we never take payment for unfulfillable stock": an order that
\* waits for its payment, or was paid, holds its account until that is sold.
\* NoDoubleSell rests on it.
OrderKeepsAccount ==
  \A o \in Orders :
    ordStatus[o] = "PENDING" \/ paidAt[o]
      => /\ accHolder[ordAccount[o]] = o
         /\ accStatus[ordAccount[o]] \in {"RESERVED", "SOLD"}

\* README.md, "dispatched at most once, even under duplicate settlement
\* webhooks".
AtMostOnceDispatch == \A o \in Orders : sent[o] <= 1

\* The three rows of a fulfilled order agree: the order is DELIVERED exactly
\* when its delivery is, and then its account is SOLD.
DeliveredAgree ==
  \A o \in Orders :
    /\ ordStatus[o] = "DELIVERED" <=> dlvStatus[o] = "DELIVERED"
    /\ dlvStatus[o] = "DELIVERED" => accStatus[ordAccount[o]] = "SOLD"

\* config.go: the worker stops retrying after MaxDeliveryAttempts attempts.
AttemptsBounded == \A o \in Orders : dlvAttempts[o] <= MaxAttempts

\* payment.go, "Duplicate webhook; already handled": when an event makes later
\* copies of its notification duplicates, and no handler still works on it,
\* its order is no longer PENDING.
DuplicateIsHandled ==
  \A o \in Orders, s \in TxnStatus \ {"pending"} :
    IsDuplicate(o, s) /\ (\A p \in Procs : hook[p] => cur[p] # o)
      => ordStatus[o] # "PENDING"

\* README.md's order state machine, for each status the set of its successors.
Successors ==
  [NONE |-> {"PENDING"}, PENDING |-> {"PAID", "EXPIRED", "CANCELLED"},
   PAID |-> {"DELIVERED", "FAILED"}, FAILED |-> {"DELIVERED"},
   DELIVERED |-> {}, EXPIRED |-> {}, CANCELLED |-> {}]

\* README.md, "state transitions are forward-only".
ForwardOnly ==
  [][\A o \in Orders : \/ ordStatus'[o] = ordStatus[o]
                       \/ ordStatus'[o] \in Successors[ordStatus[o]]]_vars

(***************************************************************************)
(* Liveness, under FairSpec.                                               *)
(***************************************************************************)

\* Every settlement leads to an attempt at delivery that ends: the order does
\* not stay PAID.
PaidIsAttempted ==
  \A o \in Orders : ordStatus[o] = "PAID" ~> ordStatus[o] # "PAID"

\* A failed delivery is retried until it succeeds or its attempts are used up.
RetriesConclude ==
  \A o \in Orders :
    dlvStatus[o] = "FAILED" ~>
      dlvStatus[o] = "DELIVERED" \/ dlvAttempts[o] >= MaxAttempts

\* README.md, "a poller as a safety-net for missed notifications": an order
\* whose transaction settled becomes paid though no notification arrives.
SettlementHonoured ==
  \A o \in Orders : charge[o] = "settlement" ~> paidAt[o]

\* An order nobody pays does not hold its account for ever.
OverdueIsClosed ==
  \A o \in Orders :
    ordStatus[o] = "PENDING" ~> ordStatus[o] # "PENDING"
=============================================================================
