---------------------------- MODULE StoreLedger ----------------------------
(* The store as an implementation of the ledger. *)
EXTENDS Store

\* paid_at is never cleared, so it tells a paid order from one that was closed
\* whatever the status has become since.
Phase(o) ==
  CASE ordStatus[o] = "NONE" -> "none"
    [] paidAt[o] -> "paid"
    [] ordStatus[o] = "PENDING" /\ ~paidAt[o] -> "open"
    [] OTHER -> "closed"

L == INSTANCE Ledger WITH
       phase <- [o \in Orders |-> Phase(o)],
       owner <- accHolder,
       got   <- {o \in Orders : sent[o] > 0}

\* Where orders are closed under their row's lock, every step of the store is
\* a step of the ledger or none at all: reserved_order_id changes hands as the
\* ledger says, however handlers and jobs interleave.
KeepsLedger == L!Spec
=============================================================================
