----------------------------- MODULE MCInventory -----------------------------
(* The small instance of Inventory that TLC checks. *)
EXTENDS Inventory, TLC

\* Orders and admins are interchangeable.
Symmetry == Permutations(Orders) \cup Permutations(Admins)
=============================================================================
