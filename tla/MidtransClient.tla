---------------------------- MODULE MidtransClient ----------------------------
(***************************************************************************)
(* CreateCharge over HTTP, with the retries of do():                       *)
(* src/internal/payment/midtrans.go.                                       *)
(*                                                                         *)
(* A POST may get lost before or after the gateway has handled it, and the *)
(* client cannot tell the two apart; one that it has given up on may still *)
(* be under way.  The gateway keeps one transaction per order reference    *)
(* and refuses a second one with status 406.                               *)
(***************************************************************************)
EXTENDS Naturals

CONSTANT Orders  \* the orders, each with its reference

VARIABLES
  txn,      \* the gateway's transaction of the order
  call,     \* where CreateCharge is: between attempts, with a POST out, with an
            \* answer of the gateway, or over
  attempt,  \* do()'s counter
  late      \* orders of which a POST that was given up is still under way

clientVars == <<txn, call, attempt, late>>

\* const maxAttempts.
MaxAttempts == 3

Answers == {"201", "406", "400", "401", "5xx"}
Calls   == {"idle", "ready", "out", "charged", "failed"} \cup Answers
Txns    == {"none", "pending", "settled", "closed"}

ClientTypeOK ==
  /\ txn     \in [Orders -> Txns]
  /\ call    \in [Orders -> Calls]
  /\ attempt \in [Orders -> 0..MaxAttempts]
  /\ late    \subseteq Orders

ClientInit ==
  /\ txn     = [o \in Orders |-> "none"]
  /\ call    = [o \in Orders |-> "idle"]
  /\ attempt = [o \in Orders |-> 0]
  /\ late    = {}

ClientStarts(o) ==
  /\ call[o] = "idle"
  /\ call' = [call EXCEPT ![o] = "ready"]
  /\ UNCHANGED <<txn, attempt, late>>

\* Mutant: the loop does not count.
PostAgain(o) ==
  /\ call[o] = "ready" /\ attempt[o] < MaxAttempts
  /\ call' = [call EXCEPT ![o] = "out"]
  /\ UNCHANGED <<txn, attempt, late>>

\* One round of the loop in do() begins.
Post(o) ==
  /\ call[o] = "ready" /\ attempt[o] < MaxAttempts
  /\ attempt' = [attempt EXCEPT ![o] = @ + 1]
  /\ call'    = [call EXCEPT ![o] = "out"]
  /\ UNCHANGED <<txn, late>>

-----------------------------------------------------------------------------
(* The gateway *)

Open(o) == txn' = [txn EXCEPT ![o] = "pending"]

\* The order is charged, refused, or met with an error of the server, which may
\* come after the transaction was stored.
GatewayAnswers(o) ==
  /\ call[o] = "out"
  /\ \/ /\ txn[o] = "none"
        /\ Open(o)
        /\ \E answer \in {"201", "5xx"} : call' = [call EXCEPT ![o] = answer]
     \/ /\ txn[o] = "none"
        /\ UNCHANGED txn
        /\ \E answer \in {"400", "401", "5xx"} : call' = [call EXCEPT ![o] = answer]
     \/ /\ txn[o] # "none"
        /\ UNCHANGED txn
        /\ \E answer \in {"406", "5xx"} : call' = [call EXCEPT ![o] = answer]
  /\ UNCHANGED <<attempt, late>>

\* A POST that the client gave up arrives after all.
GatewayHandlesLate(o) ==
  /\ o \in late
  /\ late' = late \ {o}
  /\ IF txn[o] = "none" THEN Open(o) ELSE UNCHANGED txn
  /\ UNCHANGED <<call, attempt>>

\* custom_expiry has passed.
GatewayCloses(o) ==
  /\ txn[o] = "pending"
  /\ txn' = [txn EXCEPT ![o] = "closed"]
  /\ UNCHANGED <<call, attempt, late>>

-----------------------------------------------------------------------------
(* The client *)

\* The POST or its answer is lost, or the client's fifteen seconds are over.
ConnectionFails(o) ==
  /\ call[o] \in {"out"} \cup Answers
  /\ late' = IF call[o] = "out" THEN late \cup {o} ELSE late
  /\ call' = [call EXCEPT ![o] = "ready"]
  /\ UNCHANGED <<txn, attempt>>

RetryOnServerError(o) ==
  /\ call[o] = "5xx"
  /\ call' = [call EXCEPT ![o] = "ready"]
  /\ UNCHANGED <<txn, attempt, late>>

GiveUp(o) ==
  /\ call[o] = "ready" /\ attempt[o] = MaxAttempts
  /\ call' = [call EXCEPT ![o] = "failed"]
  /\ UNCHANGED <<txn, attempt, late>>

\* Mutant: the status code in the body is not looked at.
ReadAnyBody(o) ==
  /\ call[o] \in {"201", "400", "401", "406"}
  /\ call' = [call EXCEPT ![o] = IF @ = "401" THEN "failed" ELSE "charged"]
  /\ UNCHANGED <<txn, attempt, late>>

\* Any other answer ends the loop, and only 201 (or 200) is a charge.
ReadAnswer(o) ==
  /\ call[o] \in {"201", "400", "401", "406"}
  /\ call' = [call EXCEPT ![o] = IF @ = "201" THEN "charged" ELSE "failed"]
  /\ UNCHANGED <<txn, attempt, late>>

ClientSteps(o) ==
  Post(o) \/ ConnectionFails(o) \/ RetryOnServerError(o) \/ GiveUp(o) \/ ReadAnswer(o)

GatewaySteps(o) == GatewayAnswers(o) \/ GatewayHandlesLate(o)
=============================================================================
