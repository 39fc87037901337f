------------------------------- MODULE Ledger -------------------------------
(***************************************************************************)
(* What the store promises about its stock, with no database, goroutine or *)
(* gateway in sight: an order that may still be paid owns an account, a    *)
(* paid one owns it for good, and only the owner's customer ever gets to   *)
(* see the credentials.                                                    *)
(***************************************************************************)
CONSTANTS Orders, Accounts, NoOrder

VARIABLES
  phase,         \* of each order: none, open, paid or closed
  owner,         \* the order an account is set aside for, or NoOrder
  got            \* the orders whose customers got credentials

ledger == <<phase, owner, got>>

Init ==
  /\ phase = [o \in Orders |-> "none"]
  /\ owner = [a \in Accounts |-> NoOrder]
  /\ got   = {}

Place(o, a) ==
  /\ phase[o] = "none"
  /\ owner[a] = NoOrder
  /\ phase' = [phase EXCEPT ![o] = "open"]
  /\ owner' = [owner EXCEPT ![a] = o]
  /\ UNCHANGED got

Settle(o) ==
  /\ phase[o] = "open"
  /\ phase' = [phase EXCEPT ![o] = "paid"]
  /\ UNCHANGED <<owner, got>>

\* Closing frees the account the order owns and no other.
Close(o) ==
  /\ phase[o] = "open"
  /\ phase' = [phase EXCEPT ![o] = "closed"]
  /\ owner' = [a \in Accounts |-> IF owner[a] = o THEN NoOrder ELSE owner[a]]
  /\ UNCHANGED got

\* Sending the same credentials to the same customer again is no new fact.
Dispatch(o) ==
  /\ phase[o] = "paid"
  /\ \E a \in Accounts : owner[a] = o
  /\ got' = got \cup {o}
  /\ UNCHANGED <<phase, owner>>

Next ==
  \E o \in Orders :
    \/ \E a \in Accounts : Place(o, a)
    \/ Settle(o)
    \/ Close(o)
    \/ Dispatch(o)

Spec == Init /\ [][Next]_ledger
=============================================================================
