---------------------------- MODULE MCFrontDesk ----------------------------
(* Small instances of FrontDesk.                                           *)
EXTENDS FrontDesk, TLC

(* Two stays that touch without overlapping.                               *)
MCTwoStays == {<<0, 1>>, <<1, 2>>}

MCMoves == {[room |-> r, from |-> Keep, to |-> Keep] : r \in Rooms}

(* Extend the first night into the second; shorten to the first.           *)
MCExtend == {[room |-> Keep, from |-> Keep, to |-> 2]}
MCPatches == MCMoves \cup MCExtend \cup {[room |-> Keep, from |-> 0, to |-> 1]}

MCDesks == Permutations(Desks)
=============================================================================
