------------------------- MODULE MCFacilityBookings -------------------------
(* Small instances of FacilityBookings.                                    *)
EXTENDS FacilityBookings, TLC

\* Updates of time and status, or of the invoiceId alone.
MCEdits == {[Nothing EXCEPT !.status = s, !.span = t] :
              s \in Statuses \cup {Keep}, t \in Spans \cup {Keep}}
           \cup {[Nothing EXCEPT !.invoiceId = i] : i \in BOOLEAN}

\* One booking is followed on while the exemptions cover the other, and a
\* booking is billed one way: on the folio or by an invoice.
MCBound ==
  /\ raced \cup around # Bookings
  /\ \A b \in Bookings : Made(b) => book[b].posts = 0 \/ ~ Invoiced(b)

\* The hours are model values and every hour can be booked: they may be
\* permuted as well.
MCSymmetry == Permutations(Bookings) \cup Permutations(Clerks) \cup Permutations(Hours)
=============================================================================
