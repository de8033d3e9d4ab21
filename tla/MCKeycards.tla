----------------------------- MODULE MCKeycards -----------------------------
(* Small instances of Keycards: one night, so every stay overlaps.         *)
EXTENDS Keycards, TLC

(* While keycards are disabled one request at a time will do: nothing that *)
(* begins then touches a card.  And once a request on the one stay was cut *)
(* short: little is promised of its cards from then on.                    *)
MCCrowd ==
  \/ enabled /\ cut # Bookings
  \/ Cardinality({d \in Desks : req[d].at # "idle"}) <= 1

MCDesks == Permutations(Desks)
=============================================================================
