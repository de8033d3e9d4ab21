---------------------------- MODULE MCInventory ----------------------------
(* Small instances of Inventory.                                           *)
EXTENDS Inventory, TLC

(* TLC stops at an item of which nothing is promised any more, and when    *)
(* typed-in quantities have left the sum of the movements far behind.      *)
MCBound ==
  \A k \in Items : /\ k \notin cut \cup lost
                   /\ k \notin byHand \cap stale
                   /\ booked[k].sum \in -1..(MaxStock + 1)

MCDesks == Permutations(Desks)
=============================================================================
