------------------------------- MODULE Tables -------------------------------
(***************************************************************************)
(* The PostgreSQL tables behind the store, and the statements the          *)
(* repository layer runs on them (src/internal/repository).                *)
(*                                                                         *)
(* One operator stands for one repository method.  Each is an action       *)
(* conjunct: it says what the method writes and nothing about who calls    *)
(* it.  The services conjoin several of them when they run inside one      *)
(* TxManager.WithTx, because such a transaction commits or rolls back as a *)
(* whole.                                                                  *)
(*                                                                         *)
(* Rows are never deleted here, so a row that was not inserted yet is the  *)
(* status "NONE".  Order ids and order references are one and the same:    *)
(* order_ref is UNIQUE.                                                    *)
(***************************************************************************)
EXTENDS Naturals, FiniteSets

CONSTANTS
  Orders,        \* orders that may be created
  Accounts,      \* digital accounts of the one product in stock
  NoOrder,       \* SQL NULL in a column that references orders
  NoAccount,     \* SQL NULL in a column that references accounts
  MaxAttempts    \* WORKER_MAX_DELIVERY_ATTEMPTS

ASSUME NullAssumption == NoOrder \notin Orders /\ NoAccount \notin Accounts
ASSUME AttemptsAssumption == MaxAttempts \in Nat \ {0}

VARIABLES
  ordStatus,     \* orders.status
  ordAccount,    \* orders.account_id
  paidAt,        \* orders.paid_at is set
  payStatus,     \* payments.status of the order's one payment
  accStatus,     \* accounts.status
  accHolder,     \* accounts.reserved_order_id
  dlvStatus,     \* deliveries.status of the order's one delivery
  dlvAttempts,   \* deliveries.attempts
  events         \* payment_events, by order and event_status

orderCols    == <<ordStatus, ordAccount, paidAt>>
accountCols  == <<accStatus, accHolder>>
deliveryCols == <<dlvStatus, dlvAttempts>>
tables       == <<ordStatus, ordAccount, paidAt, payStatus, accStatus,
                  accHolder, dlvStatus, dlvAttempts, events>>

OrderStatus   == {"PENDING", "PAID", "DELIVERED", "EXPIRED", "CANCELLED",
                  "FAILED"}
PaymentStatus == {"PENDING", "SETTLEMENT", "EXPIRED", "DENIED", "CANCELLED"}
AccountStatus == {"AVAILABLE", "RESERVED", "SOLD"}
DeliveryStatus == {"PENDING", "DELIVERED", "FAILED"}

\* What a gateway calls the states of a transaction.
TxnStatus  == {"pending", "settlement", "expire", "deny", "cancel"}
EventState == {"NONE", "recorded", "processed"}

\* attempts is compared with MaxAttempts only, so it is counted up to one
\* past it: AttemptCap is a bound of the model, not of the column.
AttemptCap == MaxAttempts + 1

TablesTypeOK ==
  /\ ordStatus   \in [Orders -> OrderStatus \cup {"NONE"}]
  /\ ordAccount  \in [Orders -> Accounts \cup {NoAccount}]
  /\ paidAt      \in [Orders -> BOOLEAN]
  /\ payStatus   \in [Orders -> PaymentStatus \cup {"NONE"}]
  /\ accStatus   \in [Accounts -> AccountStatus]
  /\ accHolder   \in [Accounts -> Orders \cup {NoOrder}]
  /\ dlvStatus   \in [Orders -> DeliveryStatus \cup {"NONE"}]
  /\ dlvAttempts \in [Orders -> 0 .. AttemptCap]
  /\ events      \in [Orders -> [TxnStatus -> EventState]]

TablesInit ==
  /\ ordStatus   = [o \in Orders |-> "NONE"]
  /\ ordAccount  = [o \in Orders |-> NoAccount]
  /\ paidAt      = [o \in Orders |-> FALSE]
  /\ payStatus   = [o \in Orders |-> "NONE"]
  /\ accStatus   = [a \in Accounts |-> "AVAILABLE"]
  /\ accHolder   = [a \in Accounts |-> NoOrder]
  /\ dlvStatus   = [o \in Orders |-> "NONE"]
  /\ dlvAttempts = [o \in Orders |-> 0]
  /\ events      = [o \in Orders |-> [s \in TxnStatus |-> "NONE"]]

-----------------------------------------------------------------------------
(* orders *)

\* OrderRepository.Create followed, in the same transaction, by SetAccount.
InsertOrder(o, a) ==
  /\ ordStatus[o] = "NONE"
  /\ ordStatus'  = [ordStatus EXCEPT ![o] = "PENDING"]
  /\ ordAccount' = [ordAccount EXCEPT ![o] = a]
  /\ UNCHANGED paidAt

\* "Sets a new status unconditionally (callers enforce transition rules)."
UpdateStatus(o, s) ==
  /\ ordStatus' = [ordStatus EXCEPT ![o] = s]
  /\ UNCHANGED <<ordAccount, paidAt>>

MarkPaid(o) ==
  /\ ordStatus' = [ordStatus EXCEPT ![o] = "PAID"]
  /\ paidAt'    = [paidAt EXCEPT ![o] = TRUE]
  /\ UNCHANGED ordAccount

MarkOrderDelivered(o) == UpdateStatus(o, "DELIVERED")

-----------------------------------------------------------------------------
(* accounts *)

\* Mutant: the row is updated without the status check of the SELECT.
ReserveTaken(o, a) ==
  /\ accStatus' = [accStatus EXCEPT ![a] = "RESERVED"]
  /\ accHolder' = [accHolder EXCEPT ![a] = o]

\* The three Reserve* methods: SELECT ... FOR UPDATE of a row whose status is
\* AVAILABLE, then the UPDATE of that row.
ReserveOneAvailable(o, a) ==
  /\ accStatus[a] = "AVAILABLE"
  /\ accStatus' = [accStatus EXCEPT ![a] = "RESERVED"]
  /\ accHolder' = [accHolder EXCEPT ![a] = o]

\* Mutant: without AND status = 'RESERVED'.
ReleaseAny(a) ==
  /\ accStatus' = [accStatus EXCEPT ![a] = "AVAILABLE"]
  /\ accHolder' = [accHolder EXCEPT ![a] = NoOrder]

\* Mutant: reserved_order_id is not cleared.
ReleaseStatusOnly(a) ==
  IF accStatus[a] = "RESERVED"
    THEN /\ accStatus' = [accStatus EXCEPT ![a] = "AVAILABLE"]
         /\ UNCHANGED accHolder
    ELSE UNCHANGED accountCols

\* UPDATE ... WHERE id = a AND status = 'RESERVED': whose reservation it is
\* does not matter.
ReleaseReservation(a) ==
  IF accStatus[a] = "RESERVED"
    THEN /\ accStatus' = [accStatus EXCEPT ![a] = "AVAILABLE"]
         /\ accHolder' = [accHolder EXCEPT ![a] = NoOrder]
    ELSE UNCHANGED accountCols

\* Mutant: only an AVAILABLE account is marked.
MarkSoldAvailable(a) ==
  /\ accStatus' = [accStatus EXCEPT ![a] = IF @ = "AVAILABLE"
                                            THEN "SOLD" ELSE @]
  /\ UNCHANGED accHolder

\* UPDATE ... WHERE id = a, whatever the status; reserved_order_id is kept.
MarkSold(a) ==
  /\ accStatus' = [accStatus EXCEPT ![a] = "SOLD"]
  /\ UNCHANGED accHolder

-----------------------------------------------------------------------------
(* payments *)

CreatePayment(o) == payStatus' = [payStatus EXCEPT ![o] = "PENDING"]

\* GetByOrderID and, when the row is there, SetStatus.
SetPaymentStatus(o, s) ==
  payStatus' = IF payStatus[o] = "NONE"
                 THEN payStatus ELSE [payStatus EXCEPT ![o] = s]

-----------------------------------------------------------------------------
(* deliveries *)

\* INSERT ... ON CONFLICT (order_id) DO NOTHING.
CreatePending(o) ==
  /\ dlvStatus' = [dlvStatus EXCEPT ![o] = IF @ = "NONE" THEN "PENDING" ELSE @]
  /\ UNCHANGED dlvAttempts

CountAttempt(n) == IF n < AttemptCap THEN n + 1 ELSE n

MarkDeliveryDelivered(o) ==
  /\ dlvStatus'   = [dlvStatus EXCEPT ![o] = "DELIVERED"]
  /\ dlvAttempts' = [dlvAttempts EXCEPT ![o] = CountAttempt(@)]

MarkDeliveryFailed(o) ==
  /\ dlvStatus'   = [dlvStatus EXCEPT ![o] = "FAILED"]
  /\ dlvAttempts' = [dlvAttempts EXCEPT ![o] = CountAttempt(@)]

\* Mutants: a delivery in progress is listed; the last attempt is allowed once
\* more; it is not allowed at all.
RetriableUnfinished ==
  {o \in Orders : dlvStatus[o] \in {"PENDING", "FAILED"}
                    /\ dlvAttempts[o] < MaxAttempts}
RetriableOnceMore ==
  {o \in Orders : dlvStatus[o] = "FAILED" /\ dlvAttempts[o] <= MaxAttempts}
RetriableOnceLess ==
  {o \in Orders : dlvStatus[o] = "FAILED" /\ dlvAttempts[o] + 1 < MaxAttempts}

\* ListRetriable: what a retry run picks up.
Retriable == {o \in Orders : dlvStatus[o] = "FAILED"
                               /\ dlvAttempts[o] < MaxAttempts}

-----------------------------------------------------------------------------
(* payment_events *)

\* The unique key (gateway_txn_id, event_status) has this event already; an
\* order has one gateway transaction, so the order stands for its id.
IsDuplicate(o, s) == events[o][s] # "NONE"

\* Mutant: the event is inserted as processed.
InsertProcessed(o, s) == events' = [events EXCEPT ![o][s] = "processed"]

InsertEvent(o, s)   == events' = [events EXCEPT ![o][s] = "recorded"]
MarkProcessed(o, s) == events' = [events EXCEPT ![o][s] = "processed"]
=============================================================================
