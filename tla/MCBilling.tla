----------------------------- MODULE MCBilling -----------------------------
(* Small instances of Billing.                                             *)
EXTENDS Billing, TLC

(* The bookings spread over the hotels.                                    *)
MCOneHotel == [b \in Bookings |-> CHOOSE h \in Hotels : TRUE]
MCTwoHotels == CHOOSE f \in [Bookings -> Hotels] :
                 \A h \in Hotels : \E b \in Bookings : f[b] = h

(* A second invoice is for stays whose price and charges are as booked,    *)
(* and of the same sum as the first; a payment larger than the least, and  *)
(* one over the balance, are made while there is one invoice and the price *)
(* and charges are as booked.                                              *)
MCMaking == {d \in Desks : \/ req[d].at \in {"number", "create"}
                           \/ req[d].fresh /\ ~ Committed(req[d])}
MCSums == {invoice[i].total : i \in Issued} \cup {req[d].total : d \in MCMaking}
MCSeveral == Cardinality(Issued) + Cardinality(MCMaking) > 1
MCLarge == \/ \E d \in Desks : req[d].amount > Min(Amounts)
           \/ \E i \in Issued : invoice[i].paid > invoice[i].total
MCBound ==
  /\ MCSeveral \/ MCLarge
       => \A b \in Bookings : b \notin repriced /\ stay[b].charges = 0
  /\ MCSeveral => MCSums \subseteq {Max(Prices)} /\ ~ MCLarge

MCDesks == Permutations(Desks)
=============================================================================
