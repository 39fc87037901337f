----------------------------- MODULE MCRowLocks -----------------------------
(* The small instance of RowLocks that TLC checks. *)
EXTENDS RowLocks

\* All orders point at one account: all but the last had expired when it was
\* reserved again.
AllOfOne == [o \in Orders |-> 1]

\* Transactions are interchangeable.  SYMMETRY would do for the invariant, but
\* not for the liveness property; so here they are numbered, and of the initial
\* states that are the same but for their numbers, TLC gets one.
KindsInTurn ==
  <<"finalize", "recordFailure", "claim", "close", "transition", "createAny",
    "createChosen", "deleteAccount", "deleteStocked", "deleteEmptied",
    "forceDelete">>

Rank(t) ==
  (CHOOSE i \in DOMAIN KindsInTurn : KindsInTurn[i] = kind[t]) * (N + M + 1) + target[t]

MCInit == Init /\ \A t, u \in Txns : t < u => Rank(t) <= Rank(u)

MCSpec == MCInit /\ [][Next]_vars /\ Fairness
=============================================================================
