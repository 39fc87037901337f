------------------------------- MODULE Frames -------------------------------
(***************************************************************************)
(* The goroutines that run the services, and the world around the store.   *)
(*                                                                         *)
(* A goroutine is an HTTP handler of cmd/api (it serves one request, then  *)
(* another) or one of the three jobs of cmd/worker, each of which the      *)
(* scheduler runs in a goroutine of its own.  CreateOrder is a request as  *)
(* well, but every order has exactly one, so its frame is kept by order    *)
(* (createPc) and needs no handler.                                        *)
(*                                                                         *)
(* A frame holds what the Go code keeps in local variables between two     *)
(* database statements or transactions: that is where it goes stale.       *)
(***************************************************************************)
EXTENDS Tables

CONSTANTS
  Handlers,      \* goroutines of the HTTP server
  Jobs,          \* the jobs this deployment runs
  Requests,      \* the requests this deployment receives
  Faults,        \* what may go wrong
  Reported       \* transaction statuses the gateway ever reports

AllJobs     == {"reconcile", "cleanup", "retry"}
AllRequests == {"webhook", "badSignature", "confirm", "forceSettle",
                "cancel", "redeliver"}
\* "charge": a call to the gateway returns an error.  "persist": the payment
\* of a new order cannot be stored.  "db": any other statement or transaction
\* fails, or the process dies.  "send": Telegram refuses the message.
\* "ambiguous": Send returns an error for a message that was delivered.
AllFaults   == {"charge", "persist", "db", "send", "ambiguous"}

ASSUME DeploymentAssumption ==
  /\ Jobs \subseteq AllJobs
  /\ Requests \subseteq AllRequests
  /\ Faults \subseteq AllFaults
  /\ Reported \subseteq TxnStatus
  /\ Handlers \cap AllJobs = {}

Procs == Handlers \cup Jobs

VARIABLES
  createPc,      \* where the CreateOrder call of each order is
  pc,            \* the next statement of each goroutine
  cur,           \* the order it works on
  snap,          \* order.Status as DeliverOrder loaded it
  note,          \* the transaction status it is about to apply
  hook,          \* it is in HandleNotification: MarkProcessed is still due
  newlyPaid,     \* what applyTransition returned
  todo,          \* the rest of the list a job read when its run began
  charge,        \* the gateway's status of the order's transaction
  sent,          \* messages with credentials the customer got, up to SendCap
  age            \* how old a PENDING order is

frame  == <<pc, cur, snap, note, hook, newlyPaid, todo>>
world  == <<charge, sent, age>>
vars   == <<tables, createPc, frame, world>>

\* Two messages already are one too many: sent counts 0, 1 and "more".
SendCap == 2

\* "old" is past WORKER_POLL_MIN_AGE, "overdue" is past expires_at too; the
\* defaults are 2 and 15 minutes.
Ages == {"new", "old", "overdue"}

\* "answered": the buyer has the QR code; "over": CreateOrder returned an error
\* or died.
CreatePcs == {"idle", "charge", "persist", "rollback", "answered", "over"}
Pcs == {"idle", "next", "apply", "mark", "load", "claim", "send",
        "finalize", "sendFailed", "cancel"}

FramesTypeOK ==
  /\ createPc  \in [Orders -> CreatePcs]
  /\ pc        \in [Procs -> Pcs]
  /\ cur       \in [Procs -> Orders \cup {NoOrder}]
  /\ snap      \in [Procs -> OrderStatus \cup {"NONE"}]
  /\ note      \in [Procs -> TxnStatus]
  /\ hook      \in [Procs -> BOOLEAN]
  /\ newlyPaid \in [Procs -> BOOLEAN]
  /\ todo      \in [Procs -> SUBSET Orders]
  /\ charge    \in [Orders -> TxnStatus \cup {"none"}]
  /\ sent      \in [Orders -> 0 .. SendCap]
  /\ age       \in [Orders -> Ages]

FramesInit ==
  /\ createPc  = [o \in Orders |-> "idle"]
  /\ pc        = [p \in Procs |-> "idle"]
  /\ cur       = [p \in Procs |-> NoOrder]
  /\ snap      = [p \in Procs |-> "NONE"]
  /\ note      = [p \in Procs |-> "pending"]
  /\ hook      = [p \in Procs |-> FALSE]
  /\ newlyPaid = [p \in Procs |-> FALSE]
  /\ todo      = [p \in Procs |-> {}]
  /\ charge    = [o \in Orders |-> "none"]
  /\ sent      = [o \in Orders |-> 0]
  /\ age       = [o \in Orders |-> "new"]

-----------------------------------------------------------------------------
(* Control of a goroutine *)

\* A handler takes a request about an order that exists (404 otherwise).
Accept(p, request, o) ==
  /\ p \in Handlers
  /\ pc[p] = "idle"
  /\ request \in Requests
  /\ ordStatus[o] # "NONE"

Call(p, label, o) ==
  /\ pc'  = [pc EXCEPT ![p] = label]
  /\ cur' = [cur EXCEPT ![p] = o]

Goto(p, label) ==
  /\ pc' = [pc EXCEPT ![p] = label]
  /\ UNCHANGED cur

\* The service call returns: a handler answers its request, a job goes on
\* with its list.  The locals die.
Return(p) ==
  /\ pc'        = [pc EXCEPT ![p] = IF p \in Jobs THEN "next" ELSE "idle"]
  /\ cur'       = [cur EXCEPT ![p] = NoOrder]
  /\ snap'      = [snap EXCEPT ![p] = "NONE"]
  /\ note'      = [note EXCEPT ![p] = "pending"]
  /\ hook'      = [hook EXCEPT ![p] = FALSE]
  /\ newlyPaid' = [newlyPaid EXCEPT ![p] = FALSE]
  /\ UNCHANGED todo

\* Scheduler.exec: a run of the job starts by listing its orders.  A run that
\* lists nothing changes nothing and is not a step.
StartRun(p, list) ==
  /\ p \in Jobs
  /\ pc[p] = "idle"
  /\ list # {}
  /\ pc'   = [pc EXCEPT ![p] = "next"]
  /\ todo' = [todo EXCEPT ![p] = list]
  /\ UNCHANGED <<tables, createPc, cur, snap, note, hook, newlyPaid, world>>

\* The next order of the list.
Pick(p, o) ==
  /\ pc[p] = "next"
  /\ o \in todo[p]
  /\ todo' = [todo EXCEPT ![p] = @ \ {o}]

\* The list is done; the ticker starts the next run.
EndRun(p) ==
  /\ p \in Jobs
  /\ pc[p] = "next"
  /\ todo[p] = {}
  /\ pc' = [pc EXCEPT ![p] = "idle"]
  /\ UNCHANGED <<tables, createPc, cur, snap, note, hook, newlyPaid, todo,
                 world>>

\* A statement fails or the context is cancelled, and the service returns the
\* error; or the process dies, and a job loses its list with it.
Fail(p) ==
  /\ "db" \in Faults
  /\ pc[p] # "idle"
  /\ pc'        = [pc EXCEPT ![p] = "idle"]
  /\ cur'       = [cur EXCEPT ![p] = NoOrder]
  /\ snap'      = [snap EXCEPT ![p] = "NONE"]
  /\ note'      = [note EXCEPT ![p] = "pending"]
  /\ hook'      = [hook EXCEPT ![p] = FALSE]
  /\ newlyPaid' = [newlyPaid EXCEPT ![p] = FALSE]
  /\ todo'      = [todo EXCEPT ![p] = {}]
  /\ UNCHANGED <<tables, createPc, world>>

\* The error concerns one order of a job's list: the loop continues.
FailOne(p) ==
  /\ "db" \in Faults
  /\ p \in Jobs
  /\ pc[p] \notin {"idle", "next"}
  /\ Return(p)
  /\ UNCHANGED <<tables, createPc, world>>

-----------------------------------------------------------------------------
(* The world *)

\* The clock passes the next threshold of an order that still is PENDING (the
\* age of any other order is never read).
Tick(o) ==
  /\ ordStatus[o] = "PENDING"
  /\ age[o] # "overdue"
  /\ age' = [age EXCEPT ![o] = IF @ = "new" THEN "old" ELSE "overdue"]
  /\ UNCHANGED <<tables, createPc, frame, charge, sent>>

\* The customer pays the QR code that CreateOrder's answer carried.  A gateway
\* that reports no settlement (temanqris) goes on calling it pending.
CustomerPays(o) ==
  /\ "settlement" \in Reported
  /\ charge[o] = "pending"
  /\ createPc[o] = "answered"
  /\ charge' = [charge EXCEPT ![o] = "settlement"]
  /\ UNCHANGED <<tables, createPc, frame, sent, age>>

\* The gateway gives the transaction up.
GatewayCloses(o) ==
  /\ charge[o] = "pending"
  /\ \E s \in Reported \ {"pending", "settlement"} :
       charge' = [charge EXCEPT ![o] = s]
  /\ UNCHANGED <<tables, createPc, frame, sent, age>>

\* The notifications the gateway has sent so far.  They stay in the set: each
\* may arrive never, late, out of order and more than once.
Notices(o) == {s \in Reported : s = charge[o]
                                 \/ (s = "pending" /\ charge[o] # "none")}
=============================================================================
