---------------------------- MODULE MCPosOrders ----------------------------
(* Small instances of PosOrders.                                           *)
EXTENDS PosOrders, Functions, TLC

(* All items on one order.                                                 *)
MCOneOrder == [i \in Items |-> CHOOSE o \in Orders : TRUE]

(* Every item costs 1 apiece, takes one unit apiece; no tax.               *)
MCSum(f) == SumFunction(f)

(* Nothing is promised once every order is lost: TLC goes no further.      *)
MCPromised == \E o \in Orders : Sound(o)

MCDesks == Permutations(Desks)
=============================================================================
