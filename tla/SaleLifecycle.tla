--------------------------- MODULE SaleLifecycle ---------------------------
(***************************************************************************)
(* What the till promises of an order: its sum changes while it is open    *)
(* only, it is billed once for that sum, paid once for what was billed,    *)
(* and never billed once it is void.  An order spoilt by a request that    *)
(* wrote on stale reads, or stopped midway, is lost: nothing is promised   *)
(* of it.  PosOrders is the program; it implements this module.            *)
(***************************************************************************)
EXTENDS Integers

CONSTANT Orders

VARIABLES phase,    \* where each order is in its life
          due,      \* what the guest owes for it
          bills,    \* the folio charges and invoices made for it
          payments  \* the payments taken for it

vars == <<phase, due, bills, payments>>

Init ==
  /\ phase = [o \in Orders |-> "none"]
  /\ due = [o \in Orders |-> 0]
  /\ bills = [o \in Orders |-> <<>>]
  /\ payments = [o \in Orders |-> <<>>]

Moves(o, from, to) == phase[o] = from /\ phase' = [phase EXCEPT ![o] = to]

(* A change to order o leaves what f says of the others alone.             *)
Spares(o, old, new) == \A p \in Orders \ {o} : new[p] = old[p]

Open(o) ==
  /\ Moves(o, "none", "open")
  /\ Spares(o, due, due')
  /\ UNCHANGED <<bills, payments>>

Amend(o) ==
  /\ phase[o] = "open"
  /\ Spares(o, due, due')
  /\ UNCHANGED <<phase, bills, payments>>

Bill(o) ==
  /\ Moves(o, "open", "billed")
  /\ bills' = [bills EXCEPT ![o] = <<due[o]>>]
  /\ UNCHANGED <<due, payments>>

Pay(o) ==
  /\ Moves(o, "billed", "paid")
  /\ payments' = [payments EXCEPT ![o] = bills[o]]
  /\ UNCHANGED <<due, bills>>

Void(o) ==
  /\ Moves(o, "open", "void")
  /\ UNCHANGED <<due, bills, payments>>

Lose(o) ==
  /\ phase' = [phase EXCEPT ![o] = "lost"]
  /\ Spares(o, due, due')
  /\ Spares(o, bills, bills')
  /\ Spares(o, payments, payments')

Next ==
  \E o \in Orders :
    Open(o) \/ Amend(o) \/ Bill(o) \/ Pay(o) \/ Void(o) \/ Lose(o)

Spec == Init /\ [][Next]_vars
=============================================================================
