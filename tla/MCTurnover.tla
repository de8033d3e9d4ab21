----------------------------- MODULE MCTurnover -----------------------------
(* Small instances of Turnover.                                            *)
EXTENDS Turnover, Integers, FiniteSets, TLC

MCSymmetry == Permutations(Tasks) \cup Permutations(Keepers) \cup Permutations(Scanners)
              \cup Permutations(Stays) \cup Permutations(Rooms)

(* Calls and scans in flight.                                              *)
MCBusy == Cardinality({k \in Keepers : call[k] # Idle})
            + Cardinality({w \in Scanners : scan[w] # NoScan})

(* Two at once, whichever they are, while the guests stay in their rooms,  *)
(* and the other rooms are left alone by then; one at once when a guest    *)
(* has changed room, and both rooms in the round of guests and cleaning.   *)
MCBound ==
  /\ MCBusy <= 2
  /\ moved = {} => \A r \in Rooms \ {stay[g].room : g \in Stays} :
                     room[r] = "AVAILABLE" /\ \A t \in Tasks : Exists(t) => task[t].room # r
  /\ moved # {} => MCBusy <= 1 /\ \A r \in Rooms : room[r] \notin {"RESERVED", "MAINTENANCE"}
=============================================================================
