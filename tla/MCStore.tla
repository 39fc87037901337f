------------------------------ MODULE MCStore ------------------------------
(* The small instances of Store that TLC checks. *)
EXTENDS StoreLedger, TLC

\* Orders, accounts and handlers are interchangeable.  Used in safety runs
\* only.
Symmetry == Permutations(Orders) \cup Permutations(Accounts)
              \cup Permutations(Handlers)
=============================================================================
