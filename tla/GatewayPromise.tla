---------------------------- MODULE GatewayPromise ----------------------------
(***************************************************************************)
(* What the rest of the store relies on in a payment.Gateway, whichever it *)
(* is: a charge that is reported made is there, one that is reported       *)
(* failed may be there too, and only the customer of a charge that was     *)
(* reported made can pay it.  Store builds on this: its CreateCharge and   *)
(* CreateChargeFails are the steps of this module.                         *)
(***************************************************************************)
CONSTANT Orders

VARIABLES
  txn,      \* the transaction of the order: "none", "pending", "settled", "closed"
  outcome   \* what CreateCharge reported: "none" yet, "charged" or "failed"

Init ==
  /\ txn     = [o \in Orders |-> "none"]
  /\ outcome = [o \in Orders |-> "none"]

\* A request reaches the gateway, also after CreateCharge gave it up.
Begin(o) ==
  /\ txn[o] = "none"
  /\ outcome[o] # "charged"
  /\ txn' = [txn EXCEPT ![o] = "pending"]
  /\ UNCHANGED outcome

Charged(o) ==
  /\ outcome[o] = "none"
  /\ outcome' = [outcome EXCEPT ![o] = "charged"]
  /\ txn'     = [txn EXCEPT ![o] = IF @ = "none" THEN "pending" ELSE @]

Failed(o) ==
  /\ outcome[o] = "none"
  /\ outcome' = [outcome EXCEPT ![o] = "failed"]
  /\ UNCHANGED txn

Settle(o) ==
  /\ txn[o] = "pending" /\ outcome[o] = "charged"
  /\ txn' = [txn EXCEPT ![o] = "settled"]
  /\ UNCHANGED outcome

Close(o) ==
  /\ txn[o] = "pending"
  /\ txn' = [txn EXCEPT ![o] = "closed"]
  /\ UNCHANGED outcome

Next == \E o \in Orders : Begin(o) \/ Charged(o) \/ Failed(o) \/ Settle(o) \/ Close(o)

Spec == Init /\ [][Next]_<<txn, outcome>>
=============================================================================
