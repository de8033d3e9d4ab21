--------------------------- MODULE KeycardsProofs ---------------------------
(***************************************************************************)
(* Theorems about Keycards, for any number of rooms, bookings, cards and   *)
(* overlapping requests.                                                   *)
(***************************************************************************)
EXTENDS Keycards, TLAPS

(* The default row, card and request are values of their types.            *)
LEMMA IdleTypes == NoRow \in Row /\ NoCard \in CardRow /\ Idle \in Request
<1>1. /\ (CHOOSE r \in Rooms : TRUE) \in Rooms
      /\ (CHOOSE b \in Bookings : TRUE) \in Bookings
      /\ (CHOOSE c \in Cards : TRUE) \in Cards
      /\ (CHOOSE g \in Guests : TRUE) \in Guests
  BY RowsAssumption, KeycardAssumption
<1>2. NoRow \in Row
  BY <1>1, RowsAssumption DEF NoRow, Row, ReservationStatus, Night
<1>3. NoCard \in CardRow
  BY <1>1 DEF NoCard, CardRow, CardStatus
<1>4. Idle \in Request
  BY <1>1, <1>3 DEF Idle, Request, AllOps, Stages, CardRow, CardStatus
<1> QED
  BY <1>2, <1>3, <1>4

(* The atomic operations of StayLifecycle keep the reservation table typed. *)
LEMMA StayTypes ==
  ASSUME rsv \in [Bookings -> Row], NEW b \in Bookings,
         \/ \E r \in Rooms, f, t \in Night : Desk!Book(b, r, f, t)
         \/ \E r \in Rooms, f, t \in Night : Desk!Amend(b, r, f, t)
         \/ Desk!CheckIn(b) \/ Desk!CheckOut(b)
         \/ Desk!Cancel(b) \/ Desk!NoShow(b)
  PROVE  rsv' \in [Bookings -> Row]
<1>1. ASSUME NEW r \in Rooms, NEW f \in Night, NEW t \in Night, Desk!Book(b, r, f, t)
      PROVE  rsv' \in [Bookings -> Row]
  <2>1. rsv' = [rsv EXCEPT ![b] = [status |-> "CONFIRMED", room |-> r,
                                   from |-> f, to |-> t]]
    BY <1>1 DEF Desk!Book
  <2>2. [status |-> "CONFIRMED", room |-> r, from |-> f, to |-> t] \in Row
    BY DEF Row, ReservationStatus
  <2> QED
    BY <2>1, <2>2
<1>2. ASSUME NEW r \in Rooms, NEW f \in Night, NEW t \in Night, Desk!Amend(b, r, f, t)
      PROVE  rsv' \in [Bookings -> Row]
  <2>1. rsv' = [rsv EXCEPT ![b] = [rsv[b] EXCEPT !.room = r, !.from = f, !.to = t]]
    BY <1>2 DEF Desk!Amend
  <2>2. [rsv[b] EXCEPT !.room = r, !.from = f, !.to = t] \in Row
    BY DEF Row
  <2> QED
    BY <2>1, <2>2
<1>3. ASSUME NEW s \in ReservationStatus, Desk!SetStatus(b, s)
      PROVE  rsv' \in [Bookings -> Row]
  BY <1>3 DEF Desk!SetStatus, Row
<1>4. {"CHECKED_IN", "CHECKED_OUT", "CANCELLED", "NO_SHOW"} \subseteq ReservationStatus
  BY DEF ReservationStatus
<1> QED
  BY <1>1, <1>2, <1>3, <1>4
     DEF Desk!CheckIn, Desk!CheckOut, Desk!Cancel, Desk!NoShow

LEMMA TypeInit == Init => TypeOK
  BY IdleTypes, KeycardAssumption DEF Init, TypeOK

(* The end of a request by an error.                                       *)
LEMMA ThrowType ==
  ASSUME TypeOK, NEW d \in Desks, Throw(d)
  PROVE  req' \in [Desks -> Request] /\ cut' \subseteq Bookings
  BY IdleTypes DEF Throw, Finish, TypeOK, Request

(* A step that moves one request only.                                     *)
LEMMA SlotType ==
  ASSUME TypeOK, NEW d \in Desks, NEW q \in Request,
         req' = [req EXCEPT ![d] = q]
  PROVE  req' \in [Desks -> Request]
  BY DEF TypeOK

LEMMA IssueTypes ==
  ASSUME TypeOK, NEW d \in Desks, IssueStep(d)
  PROVE  TypeOK'
<1> USE DEF TypeOK, Outdated, SetCard, Goto, Finish
<1>q. req[d] \in Request
  OBVIOUS
<1>1. CASE FindExisting(d)
  <2> DEFINE found == LiveFor(req[d].b, req[d].guest)
             q2 == [req[d] EXCEPT !.at = "create", !.seen = found]
  <2>1. found \subseteq Cards
    BY DEF LiveFor, LiveOf, CardsOf
  <2> HIDE DEF found
  <2>2. q2 \in Request
    BY <2>1, <1>q DEF Request, Stages
  <2>3. \/ req' = [req EXCEPT ![d] = q2] /\ UNCHANGED cut
        \/ Throw(d)
    BY <1>1 DEF FindExisting, found
  <2>4. UNCHANGED <<rsv, card, lock, enabled, stale>>
    BY <1>1 DEF FindExisting
  <2>5. req' \in [Desks -> Request] /\ cut' \subseteq Bookings
    BY <2>2, <2>3, ThrowType
  <2> QED
    BY <2>4, <2>5
<1>2. ASSUME NEW c \in Cards, CreatePending(d, c)
      PROVE  TypeOK'
  <2> DEFINE row == [status |-> "PENDING", b |-> req[d].b, room |-> req[d].room,
                     guest |-> req[d].guest, inHouse |-> req[d].inHouse]
             q2 == [req[d] EXCEPT !.at = "provision", !.c = c]
  <2>1. row \in CardRow
    BY <1>q DEF CardRow, CardStatus, Request
  <2>2. q2 \in Request
    BY <1>q DEF Request, Stages
  <2>3. /\ card' = [card EXCEPT ![c] = row] /\ req' = [req EXCEPT ![d] = q2]
        /\ (stale' = stale \cup {c} \/ stale' = stale)
        /\ UNCHANGED <<rsv, lock, enabled, cut>>
    BY <1>2 DEF CreatePending
  <2> HIDE DEF row, q2
  <2> QED
    BY <2>1, <2>2, <2>3, SlotType
<1>3. CASE \/ Provision(d) \/ ProvisionFails(d) \/ ProvisionAnswerLost(d)
           \/ ActivateFails(d) \/ RollBack(d) \/ RollBackFails(d)
  <2>1. \A s \in Stages : [req[d] EXCEPT !.at = s] \in Request
    BY <1>q DEF Request
  <2>2. \E s \in Stages : req' = [req EXCEPT ![d] = [req[d] EXCEPT !.at = s]]
    BY <1>3 DEF Provision, ProvisionFails, ProvisionAnswerLost, ActivateFails,
                RollBack, RollBackFails, Stages
  <2>3. req[d].c \in Cards /\ req[d].b \in Bookings
    BY <1>q DEF Request
  <2>4. lock' \subseteq Cards /\ cut' \subseteq Bookings /\ UNCHANGED <<rsv, card, enabled, stale>>
    BY <1>3, <2>3 DEF Provision, ProvisionFails, ProvisionAnswerLost,
                      ActivateFails, RollBack, RollBackFails
  <2> QED
    BY <2>1, <2>2, <2>4
<1>4. CASE Activate(d)
  <2>1. NextInMove(req[d]) \in Request
    BY <1>q, IdleTypes DEF NextInMove, Request, Stages
  <2>2. req' \in [Desks -> Request]
    BY <1>4, <2>1, IdleTypes DEF Activate
  <2>3. req[d].c \in Cards
    BY <1>q DEF Request
  <2>4. card' \in [Cards -> CardRow] /\ stale' \subseteq Cards
    BY <1>4, <2>3 DEF Activate, CardRow, CardStatus
  <2> QED
    BY <1>4, <2>2, <2>4 DEF Activate
<1>5. CASE MarkFailed(d)
  BY <1>5, <1>q, IdleTypes DEF MarkFailed, Request, CardRow, CardStatus
<1> QED
  BY <1>1, <1>2, <1>3, <1>4, <1>5 DEF IssueStep

LEMMA RevokeTypes ==
  ASSUME TypeOK, NEW d \in Desks, RevokeStep(d)
  PROVE  TypeOK'
<1> USE DEF TypeOK, Outdated, SetCard, Goto, Finish
<1>q. req[d] \in Request
  OBVIOUS
<1>1. CASE RevokeAtLock(d)
  BY <1>1, <1>q DEF RevokeAtLock, Request, Stages
<1>2. CASE WriteInactive(d)
  <2>1. [req[d] EXCEPT !.at = "reissue"] \in Request
    BY <1>q DEF Request, Stages
  <2>2. req' \in [Desks -> Request]
    BY <1>2, <2>1, IdleTypes DEF WriteInactive
  <2>3. req[d].c \in Cards
    BY <1>q DEF Request
  <2>4. card' \in [Cards -> CardRow] /\ stale' \subseteq Cards
    BY <1>2, <2>3 DEF WriteInactive, CardRow, CardStatus
  <2> QED
    BY <1>2, <2>2, <2>4 DEF WriteInactive
<1>3. CASE FindLive(d)
  <2> DEFINE active == ActiveOf(req[d].b)
  <2>1. active \subseteq Cards
    BY DEF ActiveOf, CardsOf
  <2> DEFINE stage == IF active = {} THEN "closeAll" ELSE "lockAll"
             q2 == [req[d] EXCEPT !.seen = active, !.todo = active, !.at = stage]
  <2>2. stage \in Stages
    BY DEF Stages
  <2> HIDE DEF active, stage
  <2>3. q2 \in Request
    BY <2>1, <2>2, <1>q DEF Request
  <2>4. \/ req' = [req EXCEPT ![d] = q2] /\ UNCHANGED cut
        \/ Throw(d)
    BY <1>3 DEF FindLive, active, stage
  <2>5. UNCHANGED <<rsv, card, lock, enabled, stale>>
    BY <1>3 DEF FindLive
  <2>6. req' \in [Desks -> Request] /\ cut' \subseteq Bookings
    BY <2>3, <2>4, ThrowType
  <2> QED
    BY <2>5, <2>6
<1>4. ASSUME NEW c \in Cards, RevokeNextAtLock(d, c)
      PROVE  TypeOK'
  <2> DEFINE left == req[d].todo \ {c}
             stage == IF left = {} THEN "closeAll" ELSE req[d].at
             q2 == [req[d] EXCEPT !.todo = left, !.at = stage]
  <2>1. left \subseteq Cards /\ stage \in Stages
    BY <1>q DEF Request, Stages
  <2>2. /\ req' = [req EXCEPT ![d] = q2] /\ lock' = lock \ {c}
        /\ UNCHANGED <<rsv, card, enabled, stale, cut>>
    BY <1>4 DEF RevokeNextAtLock
  <2> HIDE DEF left, stage
  <2>3. q2 \in Request
    BY <2>1, <1>q DEF Request
  <2> HIDE DEF q2
  <2> QED
    BY <2>2, <2>3, SlotType
<1>5. CASE CloseAll(d)
  BY <1>5, <1>q, IdleTypes DEF CloseAll, CardRow, CardStatus, LiveOf, CardsOf
<1> QED
  BY <1>1, <1>2, <1>3, <1>4, <1>5 DEF RevokeStep

LEMMA MoveTypes ==
  ASSUME TypeOK, NEW d \in Desks, MoveStep(d)
  PROVE  TypeOK'
<1> USE DEF TypeOK
<1>q. req[d] \in Request
  OBVIOUS
<1>1. CASE CommitMove(d)
  <2>1. /\ req[d].b \in Bookings /\ req[d].room \in Rooms
        /\ rsv[req[d].b].from \in Night /\ rsv[req[d].b].to \in Night
    BY <1>q DEF Request, Row
  <2>2. rsv' \in [Bookings -> Row]
    BY <1>1, <2>1, StayTypes DEF CommitMove
  <2>3. CardsToMove(req[d].b) \subseteq Cards
    BY DEF CardsToMove, LiveOf, CardsOf
  <2>4. NextInMove(req[d]) \in Request
    BY <1>q, IdleTypes DEF NextInMove, Request, Stages
  <2> QED
    BY <1>1, <2>2, <2>3, <2>4 DEF CommitMove
<1>2. ASSUME NEW c \in Cards, NextCard(d, c)
      PROVE  TypeOK'
  BY <1>2, <1>q, ThrowType DEF NextCard, StageFor, Request, Stages, CardRow
<1>3. CASE Reissue(d)
  BY <1>3, <1>q, ThrowType DEF Reissue, Request, Stages
<1> QED
  BY <1>1, <1>2, <1>3 DEF MoveStep

LEMMA BeginTypes ==
  ASSUME TypeOK, NEW d \in Desks, Begin(d)
  PROVE  TypeOK'
<1> USE DEF TypeOK
<1>i. Idle \in Request
  BY IdleTypes
<1>1. ASSUME NEW b \in Bookings, NEW g \in Guests, BeginIssue(d, b, g)
      PROVE  TypeOK'
  <2> DEFINE in == rsv[b].status = "CHECKED_IN"
             q == [Idle EXCEPT !.op = "issue", !.at = "existing", !.b = b,
                               !.guest = g, !.room = rsv[b].room, !.inHouse = in]
  <2>1. rsv[b].room \in Rooms /\ in \in BOOLEAN
    BY DEF Row
  <2>2. req' = [req EXCEPT ![d] = q] /\ UNCHANGED <<rsv, card, lock, enabled, stale, cut>>
    BY <1>1 DEF BeginIssue
  <2> HIDE DEF in
  <2>3. q \in Request
    BY <2>1, <1>i DEF Request, Stages, AllOps
  <2> HIDE DEF q
  <2> QED
    BY <2>2, <2>3, SlotType
<1>2. ASSUME NEW c \in Cards, NEW op \in {"revoke", "reportLost"}, BeginRevoke(d, c, op)
      PROVE  TypeOK'
  <2> DEFINE stage == StageFor(c)
             q == [Idle EXCEPT !.op = op, !.at = stage, !.b = card[c].b,
                               !.c = c, !.was = card[c].status]
  <2>1. card[c].b \in Bookings /\ card[c].status \in CardStatus
    BY DEF CardRow
  <2>2. stage \in Stages /\ op \in AllOps
    BY DEF StageFor, Stages, AllOps
  <2>3. req' = [req EXCEPT ![d] = q] /\ UNCHANGED <<rsv, card, lock, enabled, stale, cut>>
    BY <1>2 DEF BeginRevoke
  <2> HIDE DEF stage
  <2>4. q \in Request
    BY <2>1, <2>2, <1>i DEF Request
  <2> HIDE DEF q
  <2> QED
    BY <2>3, <2>4, SlotType
<1>3. ASSUME NEW b \in Bookings, BeginRevokeAll(d, b)
      PROVE  TypeOK'
  <2> DEFINE q == [Idle EXCEPT !.op = "revokeAll", !.at = "findLive", !.b = b]
  <2>1. q \in Request
    BY <1>i DEF Request, Stages, AllOps
  <2>2. req' = [req EXCEPT ![d] = q] /\ UNCHANGED <<rsv, card, lock, enabled, stale, cut>>
    BY <1>3 DEF BeginRevokeAll
  <2> HIDE DEF q
  <2> QED
    BY <2>1, <2>2, SlotType
<1>4. ASSUME NEW b \in Bookings, NEW op \in {"checkOut", "cancel"}, Depart(d, b, op)
      PROVE  TypeOK'
  <2> DEFINE q == [Idle EXCEPT !.op = op, !.at = "findLive", !.b = b]
  <2>1. q \in Request
    BY <1>i DEF Request, Stages, AllOps
  <2>2. /\ req' = [req EXCEPT ![d] = q]
        /\ Desk!CheckOut(b) \/ Desk!Cancel(b)
        /\ UNCHANGED <<card, lock, enabled, stale, cut>>
    BY <1>4 DEF Depart
  <2>3. rsv' \in [Bookings -> Row]
    BY <2>2, StayTypes
  <2> HIDE DEF q
  <2> QED
    BY <2>1, <2>2, <2>3, SlotType
<1>5. ASSUME NEW b \in Bookings, NEW r \in Rooms, BeginMove(d, b, r)
      PROVE  TypeOK'
  <2> DEFINE cards == CardsToMove(b)
             q == [Idle EXCEPT !.op = "move", !.at = "commit", !.b = b,
                               !.room = r, !.seen = cards, !.todo = cards]
  <2>1. cards \subseteq Cards
    BY DEF CardsToMove, LiveOf, CardsOf
  <2>2. req' = [req EXCEPT ![d] = q] /\ UNCHANGED <<rsv, card, lock, enabled, stale, cut>>
    BY <1>5 DEF BeginMove
  <2> HIDE DEF cards
  <2>3. q \in Request
    BY <2>1, <1>i DEF Request, Stages, AllOps
  <2> HIDE DEF q
  <2> QED
    BY <2>2, <2>3, SlotType
<1> QED
  BY <1>1, <1>2, <1>3, <1>4, <1>5 DEF Begin

LEMMA TypeStep == TypeOK /\ [Next]_vars => TypeOK'
<1> SUFFICES ASSUME TypeOK, [Next]_vars
             PROVE  TypeOK'
  OBVIOUS
<1>1. ASSUME NEW d \in Desks, Abort(d)
      PROVE  TypeOK'
  BY <1>1, ThrowType DEF Abort, TypeOK
<1>2. ASSUME NEW b \in Bookings, StayMoves(b)
      PROVE  TypeOK'
  BY <1>2, StayTypes DEF StayMoves, TypeOK
<1>3. CASE SetFeature
  BY <1>3, KeycardAssumption DEF SetFeature, TypeOK
<1>4. CASE UNCHANGED vars
  BY <1>4 DEF vars, TypeOK
<1> QED
  BY <1>1, <1>2, <1>3, <1>4, BeginTypes, IssueTypes, RevokeTypes, MoveTypes
     DEF Next, Proceed

(* Every row and every request keeps the shape the code gives it.          *)
THEOREM TypeCorrect == Spec => []TypeOK
  BY TypeInit, TypeStep, PTL DEF Spec
-----------------------------------------------------------------------------
(***************************************************************************)
(* Row and lock agree.  What a handler knows about the card it holds:      *)
(* while a card is being issued nobody has seen its row ACTIVE, so nobody  *)
(* revokes its key, and the key is at the lock exactly between Provision   *)
(* and RollBack; a request that saw a row ACTIVE has withdrawn the key     *)
(* before it writes the row.                                               *)
(***************************************************************************)
CardStages    == {"provision", "activate", "rollback", "fail", "lock", "write"}
IssueStages   == {"provision", "activate", "rollback", "fail"}
SweepStages   == {"lockAll", "closeAll"}
SpecialStages == CardStages \cup SweepStages

(* The request holds a card of its own booking.                            *)
RowBound ==
  \A d \in Desks :
    req[d].at \in CardStages =>
      card[req[d].c].status # "FREE" /\ card[req[d].c].b = req[d].b

KeyHasRow == \A c \in lock : card[c].status # "FREE"

(* A card is issued by one request.                                        *)
OneIssuer ==
  \A d, e \in Desks :
    /\ d # e
    /\ req[d].at \in IssueStages
    /\ req[e].at \in IssueStages
    => req[d].c # req[e].c

(* Request q read card c as ACTIVE.                                        *)
SawActive(q, c) ==
  \/ q.at \in {"lock", "write"} /\ q.was = "ACTIVE" /\ q.c = c
  \/ q.at \in SweepStages /\ c \in q.seen

NotYetActive ==
  \A d \in Desks :
    req[d].at \in IssueStages =>
      /\ card[req[d].c].status # "ACTIVE"
      /\ \A e \in Desks : ~ SawActive(req[e], req[d].c)

KeyAtLock ==
  \A d \in Desks :
    /\ req[d].at = "provision" => req[d].c \notin lock
    /\ req[d].at = "activate" => req[d].c \in lock
    /\ req[d].at = "fail" => req[d].c \notin lock \/ req[d].b \in cut

KeyWithdrawn ==
  \A d \in Desks :
    /\ req[d].at = "lock" => req[d].was = "ACTIVE"
    /\ req[d].at = "write" =>
         req[d].was \in Live /\ (req[d].was = "ACTIVE" => req[d].c \notin lock)

SweepWithdrawn ==
  \A d \in Desks :
    req[d].at \in SweepStages =>
      /\ req[d].todo \subseteq req[d].seen
      /\ \A c \in req[d].seen : card[c].status # "FREE" /\ card[c].b = req[d].b
      /\ \A c \in req[d].seen \ req[d].todo : c \notin lock
      /\ req[d].at = "closeAll" => req[d].todo = {}

KeyInv ==
  /\ RowBound
  /\ KeyHasRow
  /\ OneIssuer
  /\ NotYetActive
  /\ KeyAtLock
  /\ KeyWithdrawn
  /\ SweepWithdrawn
  /\ NoKeyWithoutCard
  /\ ActiveCardOpens

(* Nothing is issued and nothing is asked for at the start.                *)
LEMMA KeyInit == Init => KeyInv
<1> SUFFICES ASSUME Init PROVE KeyInv
  OBVIOUS
<1>1. /\ \A d \in Desks : req[d].at = "idle"
      /\ \A c \in Cards : card[c].status = "FREE"
      /\ lock = {}
  <2>1. Idle.at = "idle" /\ NoCard.status = "FREE"
    BY DEF Idle, NoCard
  <2> QED
    BY <2>1 DEF Init
<1>2. RowBound /\ KeyHasRow /\ OneIssuer /\ NotYetActive
  BY <1>1
     DEF RowBound, KeyHasRow, OneIssuer, NotYetActive, CardStages, IssueStages
<1>3. KeyAtLock /\ KeyWithdrawn /\ SweepWithdrawn
  BY <1>1 DEF KeyAtLock, KeyWithdrawn, SweepWithdrawn, SweepStages
<1>4. NoKeyWithoutCard /\ ActiveCardOpens
  BY <1>1 DEF NoKeyWithoutCard, ActiveCardOpens
<1> QED
  BY <1>2, <1>3, <1>4 DEF KeyInv

(* A step that leaves rows and lock alone, and takes one request to a      *)
(* stage at which it holds no card, from such a stage or by an error that  *)
(* marks its booking.                                                      *)
LEMMA QuietStep ==
  ASSUME TypeOK, KeyInv, NEW d \in Desks,
         card' = card, lock' = lock, stale \subseteq stale', cut \subseteq cut',
         \A e \in Desks : e # d => req'[e] = req[e],
         req'[d].at \notin SpecialStages,
         req[d].at \in SpecialStages \ {"lock"} => req[d].b \in cut'
  PROVE  KeyInv'
<1> USE DEF KeyInv, CardStages, IssueStages, SweepStages, SpecialStages
<1>1. RowBound'
  BY DEF RowBound
<1>2. KeyHasRow'
  BY DEF KeyHasRow
<1>3. OneIssuer'
  BY DEF OneIssuer
<1>4. NotYetActive'
  BY DEF NotYetActive, SawActive
<1>5. KeyAtLock'
  BY DEF KeyAtLock
<1>6. KeyWithdrawn' /\ SweepWithdrawn'
  BY DEF KeyWithdrawn, SweepWithdrawn
<1>7. NoKeyWithoutCard'
  BY DEF NoKeyWithoutCard, Sound, RowBound
<1>8. ActiveCardOpens'
  BY DEF ActiveCardOpens, Sound, Withdrawing, RowBound, SweepWithdrawn
<1> QED
  BY <1>1, <1>2, <1>3, <1>4, <1>5, <1>6, <1>7, <1>8

(* A new card has a row and no key.                                        *)
LEMMA CreatePendingKeeps ==
  ASSUME TypeOK, KeyInv, NEW d \in Desks, NEW c \in Cards, CreatePending(d, c)
  PROVE  KeyInv'
<1> USE DEF KeyInv, CardStages, IssueStages, SweepStages
<1>1. /\ card[c].status = "FREE"
      /\ card'[c].status = "PENDING" /\ card'[c].b = req[d].b
      /\ \A x \in Cards : x # c => card'[x] = card[x]
  BY DEF CreatePending, TypeOK
<1>2. /\ req'[d].at = "provision" /\ req'[d].c = c /\ req'[d].b = req[d].b
      /\ req[d].at = "create" /\ req[d].b \in Bookings
      /\ \A e \in Desks : e # d => req'[e] = req[e]
  BY DEF CreatePending, TypeOK, Request
<1>3. lock' = lock /\ cut' = cut /\ stale \subseteq stale' /\ lock \subseteq Cards
  BY DEF CreatePending, Outdated, TypeOK
<1>4. \A e \in Desks : /\ req[e].at \in CardStages => req[e].c # c /\ req[e].c \in Cards
                       /\ req[e].at \in SweepStages => c \notin req[e].seen /\ req[e].seen \subseteq Cards
  BY <1>1 DEF RowBound, SweepWithdrawn, TypeOK, Request
<1>5. RowBound'
  BY <1>1, <1>2, <1>3, <1>4 DEF RowBound
<1>6. KeyHasRow'
  BY <1>1, <1>2, <1>3, <1>4 DEF KeyHasRow, RowBound
<1>7. OneIssuer'
  BY <1>1, <1>2, <1>3, <1>4 DEF OneIssuer, RowBound
<1>8. NotYetActive'
  BY <1>1, <1>2, <1>3, <1>4
     DEF NotYetActive, SawActive, OneIssuer, RowBound, SweepWithdrawn,
         KeyWithdrawn
<1>9. KeyAtLock'
  BY <1>1, <1>2, <1>3, <1>4
     DEF KeyAtLock, KeyHasRow, KeyWithdrawn, OneIssuer, RowBound, NotYetActive,
         SawActive
<1>10. KeyWithdrawn'
  BY <1>1, <1>2, <1>3, <1>4
     DEF KeyWithdrawn, NotYetActive, SawActive, RowBound, Live
<1>11. SweepWithdrawn'
  BY <1>1, <1>2, <1>3, <1>4
     DEF SweepWithdrawn, NotYetActive, SawActive, RowBound
<1>12. NoKeyWithoutCard'
  BY <1>1, <1>2, <1>3, <1>4 DEF NoKeyWithoutCard, Sound, RowBound, KeyHasRow
<1>13. ActiveCardOpens'
  BY <1>1, <1>2, <1>3, <1>4
     DEF ActiveCardOpens, Sound, Withdrawing, RowBound, SweepWithdrawn,
         NotYetActive
<1> QED
  BY <1>5, <1>6, <1>7, <1>8, <1>9, <1>10, <1>11, <1>12, <1>13

(* The key goes to the lock while the row is PENDING.                      *)
LEMMA ProvisionKeeps ==
  ASSUME TypeOK, KeyInv, NEW d \in Desks, Provision(d)
  PROVE  KeyInv'
<1> USE DEF KeyInv, CardStages, IssueStages, SweepStages
<1>1. /\ req[d].at = "provision"
      /\ req'[d].at = "activate"
      /\ req'[d].c = req[d].c /\ req'[d].b = req[d].b
      /\ req[d].c \in Cards /\ req[d].b \in Bookings
      /\ \A e \in Desks : e # d => req'[e] = req[e]
  BY DEF Provision, Goto, TypeOK, Request
<1>2. /\ card' = card /\ lock' = lock \cup {req[d].c}
      /\ stale' = stale /\ cut' = cut /\ lock \subseteq Cards
  BY DEF Provision, TypeOK
<1>3. RowBound'
  BY <1>1, <1>2 DEF RowBound
<1>4. KeyHasRow'
  BY <1>1, <1>2 DEF KeyHasRow, RowBound
<1>5. OneIssuer'
  BY <1>1, <1>2 DEF OneIssuer, RowBound
<1>6. NotYetActive'
  BY <1>1, <1>2
     DEF NotYetActive, SawActive, OneIssuer, RowBound, SweepWithdrawn,
         KeyWithdrawn
<1>7. KeyAtLock'
  BY <1>1, <1>2
     DEF KeyAtLock, KeyHasRow, KeyWithdrawn, OneIssuer, RowBound, NotYetActive,
         SawActive
<1>8. KeyWithdrawn'
  BY <1>1, <1>2 DEF KeyWithdrawn, NotYetActive, SawActive, RowBound, Live
<1>9. SweepWithdrawn'
  BY <1>1, <1>2 DEF SweepWithdrawn, NotYetActive, SawActive, RowBound
<1>10. NoKeyWithoutCard'
  BY <1>1, <1>2 DEF NoKeyWithoutCard, Sound, RowBound, KeyHasRow
<1>11. ActiveCardOpens'
  BY <1>1, <1>2
     DEF ActiveCardOpens, Sound, Withdrawing, RowBound, SweepWithdrawn,
         NotYetActive
<1> QED
  BY <1>3, <1>4, <1>5, <1>6, <1>7, <1>8, <1>9, <1>10, <1>11

(* The key is at the lock, the row will say FAILED, the stay is marked.     *)
LEMMA ProvisionAnswerLostKeeps ==
  ASSUME TypeOK, KeyInv, NEW d \in Desks, ProvisionAnswerLost(d)
  PROVE  KeyInv'
<1> USE DEF KeyInv, CardStages, IssueStages, SweepStages
<1>1. /\ req[d].at = "provision"
      /\ req'[d].at = "fail"
      /\ req'[d].c = req[d].c /\ req'[d].b = req[d].b
      /\ req[d].c \in Cards /\ req[d].b \in Bookings
      /\ \A e \in Desks : e # d => req'[e] = req[e]
  BY DEF ProvisionAnswerLost, Goto, TypeOK, Request
<1>2. /\ card' = card /\ lock' = lock \cup {req[d].c}
      /\ stale' = stale /\ cut' = cut \cup {req[d].b} /\ lock \subseteq Cards
  BY DEF ProvisionAnswerLost, TypeOK
<1>3. RowBound'
  BY <1>1, <1>2 DEF RowBound
<1>4. KeyHasRow'
  BY <1>1, <1>2 DEF KeyHasRow, RowBound
<1>5. OneIssuer'
  BY <1>1, <1>2 DEF OneIssuer, RowBound
<1>6. NotYetActive'
  BY <1>1, <1>2
     DEF NotYetActive, SawActive, OneIssuer, RowBound, SweepWithdrawn,
         KeyWithdrawn
<1>7. KeyAtLock'
  BY <1>1, <1>2
     DEF KeyAtLock, KeyHasRow, KeyWithdrawn, OneIssuer, RowBound, NotYetActive,
         SawActive
<1>8. KeyWithdrawn'
  BY <1>1, <1>2 DEF KeyWithdrawn, NotYetActive, SawActive, RowBound, Live
<1>9. SweepWithdrawn'
  BY <1>1, <1>2 DEF SweepWithdrawn, NotYetActive, SawActive, RowBound
<1>10. NoKeyWithoutCard'
  BY <1>1, <1>2 DEF NoKeyWithoutCard, Sound, RowBound, KeyHasRow
<1>11. ActiveCardOpens'
  BY <1>1, <1>2
     DEF ActiveCardOpens, Sound, Withdrawing, RowBound, SweepWithdrawn,
         NotYetActive
<1> QED
  BY <1>3, <1>4, <1>5, <1>6, <1>7, <1>8, <1>9, <1>10, <1>11

(* No key was handed out.                                                  *)
LEMMA ProvisionFailsKeeps ==
  ASSUME TypeOK, KeyInv, NEW d \in Desks, ProvisionFails(d)
  PROVE  KeyInv'
<1> USE DEF KeyInv, CardStages, IssueStages, SweepStages
<1>1. /\ req[d].at = "provision"
      /\ req'[d].at = "fail"
      /\ req'[d].c = req[d].c /\ req'[d].b = req[d].b
      /\ req[d].c \in Cards /\ req[d].b \in Bookings
      /\ \A e \in Desks : e # d => req'[e] = req[e]
  BY DEF ProvisionFails, Goto, TypeOK, Request
<1>2. /\ card' = card /\ lock' = lock
      /\ stale' = stale /\ cut' = cut /\ lock \subseteq Cards
  BY DEF ProvisionFails, TypeOK
<1>3. RowBound'
  BY <1>1, <1>2 DEF RowBound
<1>4. KeyHasRow'
  BY <1>1, <1>2 DEF KeyHasRow, RowBound
<1>5. OneIssuer'
  BY <1>1, <1>2 DEF OneIssuer, RowBound
<1>6. NotYetActive'
  BY <1>1, <1>2
     DEF NotYetActive, SawActive, OneIssuer, RowBound, SweepWithdrawn,
         KeyWithdrawn
<1>7. KeyAtLock'
  BY <1>1, <1>2
     DEF KeyAtLock, KeyHasRow, KeyWithdrawn, OneIssuer, RowBound, NotYetActive,
         SawActive
<1>8. KeyWithdrawn'
  BY <1>1, <1>2 DEF KeyWithdrawn, NotYetActive, SawActive, RowBound, Live
<1>9. SweepWithdrawn'
  BY <1>1, <1>2 DEF SweepWithdrawn, NotYetActive, SawActive, RowBound
<1>10. NoKeyWithoutCard'
  BY <1>1, <1>2 DEF NoKeyWithoutCard, Sound, RowBound, KeyHasRow
<1>11. ActiveCardOpens'
  BY <1>1, <1>2
     DEF ActiveCardOpens, Sound, Withdrawing, RowBound, SweepWithdrawn,
         NotYetActive
<1> QED
  BY <1>3, <1>4, <1>5, <1>6, <1>7, <1>8, <1>9, <1>10, <1>11

(* The key is still to be taken back.                                      *)
LEMMA ActivateFailsKeeps ==
  ASSUME TypeOK, KeyInv, NEW d \in Desks, ActivateFails(d)
  PROVE  KeyInv'
<1> USE DEF KeyInv, CardStages, IssueStages, SweepStages
<1>1. /\ req[d].at = "activate"
      /\ req'[d].at = "rollback"
      /\ req'[d].c = req[d].c /\ req'[d].b = req[d].b
      /\ req[d].c \in Cards /\ req[d].b \in Bookings
      /\ \A e \in Desks : e # d => req'[e] = req[e]
  BY DEF ActivateFails, Goto, TypeOK, Request
<1>2. /\ card' = card /\ lock' = lock
      /\ stale' = stale /\ cut' = cut /\ lock \subseteq Cards
  BY DEF ActivateFails, TypeOK
<1>3. RowBound'
  BY <1>1, <1>2 DEF RowBound
<1>4. KeyHasRow'
  BY <1>1, <1>2 DEF KeyHasRow, RowBound
<1>5. OneIssuer'
  BY <1>1, <1>2 DEF OneIssuer, RowBound
<1>6. NotYetActive'
  BY <1>1, <1>2
     DEF NotYetActive, SawActive, OneIssuer, RowBound, SweepWithdrawn,
         KeyWithdrawn
<1>7. KeyAtLock'
  BY <1>1, <1>2
     DEF KeyAtLock, KeyHasRow, KeyWithdrawn, OneIssuer, RowBound, NotYetActive,
         SawActive
<1>8. KeyWithdrawn'
  BY <1>1, <1>2 DEF KeyWithdrawn, NotYetActive, SawActive, RowBound, Live
<1>9. SweepWithdrawn'
  BY <1>1, <1>2 DEF SweepWithdrawn, NotYetActive, SawActive, RowBound
<1>10. NoKeyWithoutCard'
  BY <1>1, <1>2 DEF NoKeyWithoutCard, Sound, RowBound, KeyHasRow
<1>11. ActiveCardOpens'
  BY <1>1, <1>2
     DEF ActiveCardOpens, Sound, Withdrawing, RowBound, SweepWithdrawn,
         NotYetActive
<1> QED
  BY <1>3, <1>4, <1>5, <1>6, <1>7, <1>8, <1>9, <1>10, <1>11

(* The key is taken back before the row is marked FAILED.                  *)
LEMMA RollBackKeeps ==
  ASSUME TypeOK, KeyInv, NEW d \in Desks, RollBack(d)
  PROVE  KeyInv'
<1> USE DEF KeyInv, CardStages, IssueStages, SweepStages
<1>1. /\ req[d].at = "rollback"
      /\ req'[d].at = "fail"
      /\ req'[d].c = req[d].c /\ req'[d].b = req[d].b
      /\ req[d].c \in Cards /\ req[d].b \in Bookings
      /\ \A e \in Desks : e # d => req'[e] = req[e]
  BY DEF RollBack, Goto, TypeOK, Request
<1>2. /\ card' = card /\ lock' = lock \ {req[d].c}
      /\ stale' = stale /\ cut' = cut /\ lock \subseteq Cards
  BY DEF RollBack, TypeOK
<1>3. RowBound'
  BY <1>1, <1>2 DEF RowBound
<1>4. KeyHasRow'
  BY <1>1, <1>2 DEF KeyHasRow, RowBound
<1>5. OneIssuer'
  BY <1>1, <1>2 DEF OneIssuer, RowBound
<1>6. NotYetActive'
  BY <1>1, <1>2
     DEF NotYetActive, SawActive, OneIssuer, RowBound, SweepWithdrawn,
         KeyWithdrawn
<1>7. KeyAtLock'
  BY <1>1, <1>2
     DEF KeyAtLock, KeyHasRow, KeyWithdrawn, OneIssuer, RowBound, NotYetActive,
         SawActive
<1>8. KeyWithdrawn'
  BY <1>1, <1>2 DEF KeyWithdrawn, NotYetActive, SawActive, RowBound, Live
<1>9. SweepWithdrawn'
  BY <1>1, <1>2 DEF SweepWithdrawn, NotYetActive, SawActive, RowBound
<1>10. NoKeyWithoutCard'
  BY <1>1, <1>2 DEF NoKeyWithoutCard, Sound, RowBound, KeyHasRow
<1>11. ActiveCardOpens'
  BY <1>1, <1>2
     DEF ActiveCardOpens, Sound, Withdrawing, RowBound, SweepWithdrawn,
         NotYetActive
<1> QED
  BY <1>3, <1>4, <1>5, <1>6, <1>7, <1>8, <1>9, <1>10, <1>11

(* A key that could not be taken back is recorded in cut.                  *)
LEMMA RollBackFailsKeeps ==
  ASSUME TypeOK, KeyInv, NEW d \in Desks, RollBackFails(d)
  PROVE  KeyInv'
<1> USE DEF KeyInv, CardStages, IssueStages, SweepStages
<1>1. /\ req[d].at = "rollback"
      /\ req'[d].at = "fail"
      /\ req'[d].c = req[d].c /\ req'[d].b = req[d].b
      /\ req[d].c \in Cards /\ req[d].b \in Bookings
      /\ \A e \in Desks : e # d => req'[e] = req[e]
  BY DEF RollBackFails, Goto, TypeOK, Request
<1>2. /\ card' = card /\ lock' = lock
      /\ stale' = stale /\ cut' = cut \cup {req[d].b} /\ lock \subseteq Cards
  BY DEF RollBackFails, TypeOK
<1>3. RowBound'
  BY <1>1, <1>2 DEF RowBound
<1>4. KeyHasRow'
  BY <1>1, <1>2 DEF KeyHasRow, RowBound
<1>5. OneIssuer'
  BY <1>1, <1>2 DEF OneIssuer, RowBound
<1>6. NotYetActive'
  BY <1>1, <1>2
     DEF NotYetActive, SawActive, OneIssuer, RowBound, SweepWithdrawn,
         KeyWithdrawn
<1>7. KeyAtLock'
  BY <1>1, <1>2
     DEF KeyAtLock, KeyHasRow, KeyWithdrawn, OneIssuer, RowBound, NotYetActive,
         SawActive
<1>8. KeyWithdrawn'
  BY <1>1, <1>2 DEF KeyWithdrawn, NotYetActive, SawActive, RowBound, Live
<1>9. SweepWithdrawn'
  BY <1>1, <1>2 DEF SweepWithdrawn, NotYetActive, SawActive, RowBound
<1>10. NoKeyWithoutCard'
  BY <1>1, <1>2 DEF NoKeyWithoutCard, Sound, RowBound, KeyHasRow
<1>11. ActiveCardOpens'
  BY <1>1, <1>2
     DEF ActiveCardOpens, Sound, Withdrawing, RowBound, SweepWithdrawn,
         NotYetActive
<1> QED
  BY <1>3, <1>4, <1>5, <1>6, <1>7, <1>8, <1>9, <1>10, <1>11

(* The key is withdrawn before the row is written.                         *)
LEMMA RevokeAtLockKeeps ==
  ASSUME TypeOK, KeyInv, NEW d \in Desks, RevokeAtLock(d)
  PROVE  KeyInv'
<1> USE DEF KeyInv, CardStages, IssueStages, SweepStages
<1>1. /\ req[d].at = "lock"
      /\ req'[d].at = "write"
      /\ req'[d].c = req[d].c /\ req'[d].b = req[d].b
      /\ req[d].c \in Cards /\ req[d].b \in Bookings
      /\ \A e \in Desks : e # d => req'[e] = req[e]
  BY DEF RevokeAtLock, Goto, TypeOK, Request
<1>2. /\ card' = card /\ lock' = lock \ {req[d].c} /\ req'[d].was = req[d].was
      /\ stale' = stale /\ cut' = cut /\ lock \subseteq Cards
  BY DEF RevokeAtLock, TypeOK, Goto, Request
<1>3. RowBound'
  BY <1>1, <1>2 DEF RowBound
<1>4. KeyHasRow'
  BY <1>1, <1>2 DEF KeyHasRow, RowBound
<1>5. OneIssuer'
  BY <1>1, <1>2 DEF OneIssuer, RowBound
<1>6. NotYetActive'
  BY <1>1, <1>2
     DEF NotYetActive, SawActive, OneIssuer, RowBound, SweepWithdrawn,
         KeyWithdrawn
<1>7. KeyAtLock'
  BY <1>1, <1>2
     DEF KeyAtLock, KeyHasRow, KeyWithdrawn, OneIssuer, RowBound, NotYetActive,
         SawActive
<1>8. KeyWithdrawn'
  BY <1>1, <1>2 DEF KeyWithdrawn, NotYetActive, SawActive, RowBound, Live
<1>9. SweepWithdrawn'
  BY <1>1, <1>2 DEF SweepWithdrawn, NotYetActive, SawActive, RowBound
<1>10. NoKeyWithoutCard'
  BY <1>1, <1>2 DEF NoKeyWithoutCard, Sound, RowBound, KeyHasRow
<1>11. ActiveCardOpens'
  BY <1>1, <1>2
     DEF ActiveCardOpens, Sound, Withdrawing, RowBound, SweepWithdrawn,
         NotYetActive
<1> QED
  BY <1>3, <1>4, <1>5, <1>6, <1>7, <1>8, <1>9, <1>10, <1>11

(* The row becomes ACTIVE while the key is at the lock.                    *)
LEMMA ActivateKeeps ==
  ASSUME TypeOK, KeyInv, NEW d \in Desks, Activate(d)
  PROVE  KeyInv'
<1> USE DEF KeyInv, SpecialStages, CardStages, IssueStages, SweepStages
<1>1. /\ req[d].at = "activate"
      /\ req'[d].at \notin SpecialStages
      /\ req[d].c \in Cards /\ req[d].b \in Bookings
      /\ \A e \in Desks : e # d => req'[e] = req[e]
  BY DEF Activate, SpecialStages, NextInMove, Idle, Finish, TypeOK, Request
<1>2. /\ card'[req[d].c].status = "ACTIVE"
      /\ card'[req[d].c].b = card[req[d].c].b
      /\ \A x \in Cards : x # req[d].c => card'[x] = card[x]
  BY <1>1 DEF Activate, SetCard, TypeOK, CardRow
<1>3. /\ lock' = lock /\ cut \subseteq cut' /\ stale \subseteq stale' /\ lock \subseteq Cards
      /\ (card[req[d].c].status # "PENDING" => req[d].c \in stale')
  BY <1>1 DEF Activate, Outdated, TypeOK
<1>4. \A e \in Desks : req[e].c \in Cards /\ req[e].seen \subseteq Cards
  BY DEF TypeOK, Request
<1>5. RowBound'
  BY <1>1, <1>2, <1>3, <1>4 DEF RowBound
<1>6. KeyHasRow'
  BY <1>1, <1>2, <1>3, <1>4 DEF KeyHasRow, RowBound
<1>7. OneIssuer'
  BY <1>1, <1>2, <1>3, <1>4 DEF OneIssuer, RowBound
<1>8. NotYetActive'
  BY <1>1, <1>2, <1>3, <1>4 DEF NotYetActive, SawActive, OneIssuer
<1>9. KeyAtLock'
  BY <1>1, <1>2, <1>3, <1>4
     DEF KeyAtLock, KeyHasRow, KeyWithdrawn, OneIssuer, RowBound, NotYetActive,
         SawActive
<1>10. KeyWithdrawn'
  BY <1>1, <1>2, <1>3, <1>4
     DEF KeyWithdrawn, NotYetActive, SawActive, RowBound, Live
<1>11. SweepWithdrawn'
  BY <1>1, <1>2, <1>3, <1>4
     DEF SweepWithdrawn, NotYetActive, SawActive, RowBound
<1>12. NoKeyWithoutCard'
  BY <1>1, <1>2, <1>3, <1>4 DEF NoKeyWithoutCard, Sound, RowBound, KeyHasRow
<1>13. ActiveCardOpens'
  BY <1>1, <1>2, <1>3, <1>4 DEF ActiveCardOpens, Sound, Withdrawing, KeyAtLock
<1> QED
  BY <1>5, <1>6, <1>7, <1>8, <1>9, <1>10, <1>11, <1>12, <1>13

(* The row is marked FAILED when no key is left.                           *)
LEMMA MarkFailedKeeps ==
  ASSUME TypeOK, KeyInv, NEW d \in Desks, MarkFailed(d)
  PROVE  KeyInv'
<1> USE DEF KeyInv, SpecialStages, CardStages, IssueStages, SweepStages
<1>1. /\ req[d].at = "fail"
      /\ req'[d].at \notin SpecialStages
      /\ req[d].c \in Cards /\ req[d].b \in Bookings
      /\ \A e \in Desks : e # d => req'[e] = req[e]
  BY DEF MarkFailed, SpecialStages, NextInMove, Idle, Finish, TypeOK, Request
<1>2. /\ card'[req[d].c].status = "FAILED"
      /\ card'[req[d].c].b = card[req[d].c].b
      /\ \A x \in Cards : x # req[d].c => card'[x] = card[x]
  BY <1>1 DEF MarkFailed, SetCard, TypeOK, CardRow
<1>3. /\ lock' = lock /\ cut \subseteq cut' /\ stale \subseteq stale' /\ lock \subseteq Cards
      /\ TRUE
  BY <1>1 DEF MarkFailed, Outdated, TypeOK
<1>4. \A e \in Desks : req[e].c \in Cards /\ req[e].seen \subseteq Cards
  BY DEF TypeOK, Request
<1>5. RowBound'
  BY <1>1, <1>2, <1>3, <1>4 DEF RowBound
<1>6. KeyHasRow'
  BY <1>1, <1>2, <1>3, <1>4 DEF KeyHasRow, RowBound
<1>7. OneIssuer'
  BY <1>1, <1>2, <1>3, <1>4 DEF OneIssuer, RowBound
<1>8. NotYetActive'
  BY <1>1, <1>2, <1>3, <1>4
     DEF NotYetActive, SawActive, OneIssuer, RowBound, SweepWithdrawn,
         KeyWithdrawn
<1>9. KeyAtLock'
  BY <1>1, <1>2, <1>3, <1>4
     DEF KeyAtLock, KeyHasRow, KeyWithdrawn, OneIssuer, RowBound, NotYetActive,
         SawActive
<1>10. KeyWithdrawn'
  BY <1>1, <1>2, <1>3, <1>4
     DEF KeyWithdrawn, NotYetActive, SawActive, RowBound, Live
<1>11. SweepWithdrawn'
  BY <1>1, <1>2, <1>3, <1>4
     DEF SweepWithdrawn, NotYetActive, SawActive, RowBound
<1>12. NoKeyWithoutCard'
  BY <1>1, <1>2, <1>3, <1>4 DEF NoKeyWithoutCard, Sound, RowBound, KeyAtLock
<1>13. ActiveCardOpens'
  BY <1>1, <1>2, <1>3, <1>4
     DEF ActiveCardOpens, Sound, Withdrawing, RowBound, SweepWithdrawn,
         NotYetActive
<1> QED
  BY <1>5, <1>6, <1>7, <1>8, <1>9, <1>10, <1>11, <1>12, <1>13

(* A row is written REVOKED or LOST when no key is left.                   *)
LEMMA WriteInactiveKeeps ==
  ASSUME TypeOK, KeyInv, NEW d \in Desks, WriteInactive(d)
  PROVE  KeyInv'
<1> USE DEF KeyInv, SpecialStages, CardStages, IssueStages, SweepStages
<1>1. /\ req[d].at = "write"
      /\ req'[d].at \notin SpecialStages
      /\ req[d].c \in Cards /\ req[d].b \in Bookings
      /\ \A e \in Desks : e # d => req'[e] = req[e]
  BY DEF WriteInactive, SpecialStages, NextInMove, Idle, Finish, TypeOK, Request
<1>2. /\ card'[req[d].c].status \in {"REVOKED", "LOST"}
      /\ card'[req[d].c].b = card[req[d].c].b
      /\ \A x \in Cards : x # req[d].c => card'[x] = card[x]
  BY <1>1 DEF WriteInactive, SetCard, TypeOK, CardRow
<1>3. /\ lock' = lock /\ cut \subseteq cut' /\ stale \subseteq stale' /\ lock \subseteq Cards
      /\ (card[req[d].c].status # req[d].was => req[d].c \in stale')
  BY <1>1 DEF WriteInactive, Outdated, TypeOK
<1>4. \A e \in Desks : req[e].c \in Cards /\ req[e].seen \subseteq Cards
  BY DEF TypeOK, Request
<1>5. RowBound'
  BY <1>1, <1>2, <1>3, <1>4 DEF RowBound
<1>6. KeyHasRow'
  BY <1>1, <1>2, <1>3, <1>4 DEF KeyHasRow, RowBound
<1>7. OneIssuer'
  BY <1>1, <1>2, <1>3, <1>4 DEF OneIssuer, RowBound
<1>8. NotYetActive'
  BY <1>1, <1>2, <1>3, <1>4
     DEF NotYetActive, SawActive, OneIssuer, RowBound, SweepWithdrawn,
         KeyWithdrawn
<1>9. KeyAtLock'
  BY <1>1, <1>2, <1>3, <1>4
     DEF KeyAtLock, KeyHasRow, KeyWithdrawn, OneIssuer, RowBound, NotYetActive,
         SawActive
<1>10. KeyWithdrawn'
  BY <1>1, <1>2, <1>3, <1>4
     DEF KeyWithdrawn, NotYetActive, SawActive, RowBound, Live
<1>11. SweepWithdrawn'
  BY <1>1, <1>2, <1>3, <1>4
     DEF SweepWithdrawn, NotYetActive, SawActive, RowBound
<1>12. NoKeyWithoutCard'
  BY <1>1, <1>2, <1>3, <1>4
     DEF NoKeyWithoutCard, Sound, RowBound, KeyWithdrawn, Live
<1>13. ActiveCardOpens'
  BY <1>1, <1>2, <1>3, <1>4
     DEF ActiveCardOpens, Sound, Withdrawing, RowBound, SweepWithdrawn,
         NotYetActive
<1> QED
  BY <1>5, <1>6, <1>7, <1>8, <1>9, <1>10, <1>11, <1>12, <1>13

(* A request takes hold of a live card of its booking.                     *)
LEMMA HoldCardKeeps ==
  ASSUME TypeOK, KeyInv, NEW d \in Desks, NEW c \in Cards,
         card' = card, lock' = lock, stale' = stale, cut' = cut,
         \A e \in Desks : e # d => req'[e] = req[e],
         req[d].at \notin SpecialStages, card[c].status \in Live,
         req'[d].at = StageFor(c), req'[d].c = c, req'[d].b = card[c].b,
         req'[d].was = card[c].status
  PROVE  KeyInv'
<1> USE DEF KeyInv, SpecialStages, CardStages, IssueStages, SweepStages
<1>1. /\ req'[d].at \in {"lock", "write"}
      /\ req'[d].at = "lock" <=> req'[d].was = "ACTIVE"
  BY DEF StageFor
<1>2. RowBound'
  BY <1>1 DEF RowBound, Live
<1>3. KeyHasRow'
  BY <1>1 DEF KeyHasRow, RowBound
<1>4. OneIssuer'
  BY <1>1 DEF OneIssuer, RowBound
<1>5. NotYetActive'
  BY <1>1
     DEF NotYetActive, SawActive, OneIssuer, RowBound, SweepWithdrawn,
         KeyWithdrawn
<1>6. KeyAtLock'
  BY <1>1
     DEF KeyAtLock, KeyHasRow, KeyWithdrawn, OneIssuer, RowBound, NotYetActive,
         SawActive
<1>7. KeyWithdrawn'
  BY <1>1 DEF KeyWithdrawn, Live
<1>8. SweepWithdrawn'
  BY <1>1 DEF SweepWithdrawn, NotYetActive, SawActive, RowBound
<1>9. NoKeyWithoutCard'
  BY <1>1 DEF NoKeyWithoutCard, Sound, RowBound, KeyHasRow
<1>10. ActiveCardOpens'
  BY <1>1
     DEF ActiveCardOpens, Sound, Withdrawing, RowBound, SweepWithdrawn,
         NotYetActive
<1> QED
  BY <1>2, <1>3, <1>4, <1>5, <1>6, <1>7, <1>8, <1>9, <1>10

(* What findMany and the disabled feature leave a sweep with.              *)
LEMMA FindLiveReads ==
  ASSUME TypeOK, NEW d \in Desks, FindLive(d)
  PROVE  /\ req[d].at = "findLive"
         /\ UNCHANGED <<rsv, card, lock, enabled, stale>>
         /\ \/ Throw(d)
            \/ /\ UNCHANGED cut
               /\ \E q : req' = [req EXCEPT ![d] = q]
               /\ req'[d].b = req[d].b
               /\ req'[d].at \in {"lockAll", "closeAll"}
               /\ req'[d].at = "closeAll" => req'[d].todo = {}
               /\ req'[d].todo = req'[d].seen
               /\ \A c \in req'[d].seen :
                    c \in Cards /\ card[c].status = "ACTIVE" /\ card[c].b = req[d].b
<1> DEFINE active == ActiveOf(req[d].b)
<1>1. \A c \in active : c \in Cards /\ card[c].status = "ACTIVE" /\ card[c].b = req[d].b
  BY DEF ActiveOf, CardsOf
<1> DEFINE stage == IF active = {} THEN "closeAll" ELSE "lockAll"
           q2 == [req[d] EXCEPT !.seen = active, !.todo = active, !.at = stage]
<1>2. stage \in {"lockAll", "closeAll"} /\ (stage = "closeAll" => active = {})
  OBVIOUS
<1> HIDE DEF active, stage
<1>3. \/ req' = [req EXCEPT ![d] = q2] /\ UNCHANGED cut
      \/ Throw(d)
  BY DEF FindLive, active, stage
<1>4. UNCHANGED <<rsv, card, lock, enabled, stale>> /\ req[d].at = "findLive"
  BY DEF FindLive
<1>5. ASSUME req' = [req EXCEPT ![d] = q2]
      PROVE  /\ req'[d].at = stage /\ req'[d].seen = active
             /\ req'[d].todo = active /\ req'[d].b = req[d].b
  BY <1>5 DEF TypeOK, Request
<1>6. CASE Throw(d)
  BY <1>3, <1>4, <1>6
<1>7. CASE req' = [req EXCEPT ![d] = q2] /\ UNCHANGED cut
  <2>1. \E q : req' = [req EXCEPT ![d] = q]
    BY <1>7
  <2> QED
    BY <1>1, <1>2, <1>3, <1>4, <1>5, <1>7, <2>1
<1> QED
  BY <1>3, <1>6, <1>7

(* A sweep takes hold of the ACTIVE cards of its booking.                  *)
LEMMA SweepBeginsKeeps ==
  ASSUME TypeOK, KeyInv, NEW d \in Desks,
         card' = card, lock' = lock, stale' = stale, cut' = cut,
         \A e \in Desks : e # d => req'[e] = req[e],
         req[d].at \notin SpecialStages,
         req'[d].at \in SweepStages, req'[d].todo = req'[d].seen,
         req'[d].at = "closeAll" => req'[d].todo = {},
         \A c \in req'[d].seen : c \in Cards /\ card[c].status = "ACTIVE" /\ card[c].b = req'[d].b
  PROVE  KeyInv'
<1> USE DEF KeyInv, SpecialStages, CardStages, IssueStages, SweepStages
<1>1. RowBound'
  BY DEF RowBound
<1>2. KeyHasRow'
  BY DEF KeyHasRow, RowBound
<1>3. OneIssuer'
  BY DEF OneIssuer, RowBound
<1>4. NotYetActive'
  BY DEF NotYetActive, SawActive, OneIssuer, RowBound, SweepWithdrawn,
         KeyWithdrawn
<1>5. KeyAtLock'
  BY DEF KeyAtLock, KeyHasRow, KeyWithdrawn, OneIssuer, RowBound, NotYetActive,
         SawActive
<1>6. KeyWithdrawn'
  BY DEF KeyWithdrawn, NotYetActive, SawActive, RowBound, Live
<1>7. SweepWithdrawn'
  BY DEF SweepWithdrawn, NotYetActive, SawActive, RowBound
<1>8. NoKeyWithoutCard'
  BY DEF NoKeyWithoutCard, Sound, RowBound, KeyHasRow
<1>9. ActiveCardOpens'
  BY DEF ActiveCardOpens, Sound, Withdrawing, RowBound, SweepWithdrawn,
         NotYetActive
<1> QED
  BY <1>1, <1>2, <1>3, <1>4, <1>5, <1>6, <1>7, <1>8, <1>9

(* The key of one more card of the sweep is withdrawn.                     *)
LEMMA RevokeNextAtLockKeeps ==
  ASSUME TypeOK, KeyInv, NEW d \in Desks, NEW c \in Cards, RevokeNextAtLock(d, c)
  PROVE  KeyInv'
<1> USE DEF KeyInv, SpecialStages, CardStages, IssueStages, SweepStages
<1>1. /\ req[d].at = "lockAll" /\ c \in req[d].todo /\ c \in req[d].seen
      /\ req'[d].at \in SweepStages /\ req'[d].seen = req[d].seen
      /\ req'[d].todo = req[d].todo \ {c} /\ req'[d].b = req[d].b
      /\ req'[d].at = "closeAll" => req'[d].todo = {}
      /\ \A e \in Desks : e # d => req'[e] = req[e]
  BY DEF RevokeNextAtLock, SweepWithdrawn, TypeOK, Request
<1>2. card' = card /\ lock' = lock \ {c} /\ stale' = stale /\ cut' = cut
  BY DEF RevokeNextAtLock
<1>3. RowBound'
  BY <1>1, <1>2 DEF RowBound
<1>4. KeyHasRow'
  BY <1>1, <1>2 DEF KeyHasRow, RowBound
<1>5. OneIssuer'
  BY <1>1, <1>2 DEF OneIssuer, RowBound
<1>6. NotYetActive'
  BY <1>1, <1>2
     DEF NotYetActive, SawActive, OneIssuer, RowBound, SweepWithdrawn,
         KeyWithdrawn
<1>7. KeyAtLock'
  BY <1>1, <1>2
     DEF KeyAtLock, KeyHasRow, KeyWithdrawn, OneIssuer, RowBound, NotYetActive,
         SawActive
<1>8. KeyWithdrawn'
  BY <1>1, <1>2 DEF KeyWithdrawn, NotYetActive, SawActive, RowBound, Live
<1>9. SweepWithdrawn'
  BY <1>1, <1>2 DEF SweepWithdrawn, NotYetActive, SawActive, RowBound
<1>10. NoKeyWithoutCard'
  BY <1>1, <1>2 DEF NoKeyWithoutCard, Sound, RowBound, KeyHasRow
<1>11. ActiveCardOpens'
  BY <1>1, <1>2
     DEF ActiveCardOpens, Sound, Withdrawing, RowBound, SweepWithdrawn,
         NotYetActive
<1> QED
  BY <1>3, <1>4, <1>5, <1>6, <1>7, <1>8, <1>9, <1>10, <1>11

(* The rows of a sweep are written when their keys are gone.               *)
LEMMA CloseAllKeeps ==
  ASSUME TypeOK, KeyInv, NEW d \in Desks, CloseAll(d)
  PROVE  KeyInv'
<1> USE DEF KeyInv, SpecialStages, CardStages, IssueStages, SweepStages
<1>1. /\ req[d].at = "closeAll" /\ req[d].todo = {}
      /\ req'[d].at \notin SpecialStages
      /\ \A e \in Desks : e # d => req'[e] = req[e]
  BY DEF CloseAll, SpecialStages, SweepWithdrawn, Finish, Idle, TypeOK, Request
<1>2. \A c \in Cards :
        \/ /\ c \notin LiveOf(req[d].b)
           /\ card'[c] = card[c]
        \/ /\ c \in LiveOf(req[d].b)
           /\ card'[c].status = "REVOKED" /\ card'[c].b = card[c].b
  BY DEF CloseAll, TypeOK, CardRow
<1>3. /\ lock' = lock /\ cut' = cut /\ stale \subseteq stale' /\ lock \subseteq Cards
      /\ \A c \in LiveOf(req[d].b) \ stale' : card[c].status = "ACTIVE" => c \in req[d].seen
  BY DEF CloseAll, TypeOK
<1>4. /\ \A c \in LiveOf(req[d].b) : card[c].status \in Live
      /\ \A c \in Cards : card[c].status = "ACTIVE" /\ card[c].b = req[d].b => c \in LiveOf(req[d].b)
  BY DEF LiveOf, CardsOf, Live
<1>5. \A e \in Desks : /\ req[e].c \in Cards /\ req[e].seen \subseteq Cards
                       /\ e # d => req'[e] = req[e]
  BY <1>1 DEF TypeOK, Request
<1>6. RowBound'
  BY <1>1, <1>2, <1>3, <1>4, <1>5 DEF RowBound
<1>7. KeyHasRow'
  BY <1>1, <1>2, <1>3, <1>4, <1>5 DEF KeyHasRow, RowBound
<1>8. OneIssuer'
  BY <1>1, <1>2, <1>3, <1>4, <1>5 DEF OneIssuer, RowBound
<1>9. NotYetActive'
  BY <1>1, <1>2, <1>3, <1>4, <1>5
     DEF NotYetActive, SawActive, OneIssuer, RowBound, SweepWithdrawn,
         KeyWithdrawn
<1>10. KeyAtLock'
  BY <1>1, <1>2, <1>3, <1>4, <1>5
     DEF KeyAtLock, KeyHasRow, KeyWithdrawn, OneIssuer, RowBound, NotYetActive,
         SawActive
<1>11. KeyWithdrawn'
  BY <1>1, <1>2, <1>3, <1>4, <1>5
     DEF KeyWithdrawn, NotYetActive, SawActive, RowBound, Live
<1>12. SweepWithdrawn'
  BY <1>1, <1>2, <1>3, <1>4, <1>5
     DEF SweepWithdrawn, NotYetActive, SawActive, RowBound
<1>13. NoKeyWithoutCard'
  BY <1>1, <1>2, <1>3, <1>4, <1>5
     DEF NoKeyWithoutCard, Sound, SweepWithdrawn, Live
<1>14. ActiveCardOpens'
  BY <1>1, <1>2, <1>3, <1>4, <1>5
     DEF ActiveCardOpens, Sound, Withdrawing, RowBound, SweepWithdrawn,
         NotYetActive
<1> QED
  BY <1>6, <1>7, <1>8, <1>9, <1>10, <1>11, <1>12, <1>13, <1>14

(* A row keeps its booking from the day it is created.                     *)
LEMMA RowsStay ==
  ASSUME TypeOK, [Next]_vars, NEW c \in Cards, card[c].status # "FREE"
  PROVE  card'[c].status # "FREE" /\ card'[c].b = card[c].b
<1>1. CASE card' = card
  BY <1>1
<1>2. CASE \E d \in Desks, x \in Cards : CreatePending(d, x)
  BY <1>2 DEF CreatePending, TypeOK
<1>3. CASE \E d \in Desks : Activate(d) \/ MarkFailed(d) \/ WriteInactive(d)
  BY <1>3 DEF Activate, MarkFailed, WriteInactive, SetCard, TypeOK, CardRow
<1>4. CASE \E d \in Desks : CloseAll(d)
  BY <1>4 DEF CloseAll, TypeOK, CardRow
<1>5. ASSUME NEW d \in Desks, Begin(d) PROVE card' = card
  <2>1. ASSUME NEW b \in Bookings, NEW g \in Guests, BeginIssue(d, b, g) PROVE card' = card
    BY <2>1 DEF BeginIssue
  <2>2. ASSUME NEW x \in Cards, NEW op \in {"revoke", "reportLost"}, BeginRevoke(d, x, op)
        PROVE  card' = card
    BY <2>2 DEF BeginRevoke
  <2>3. ASSUME NEW b \in Bookings, BeginRevokeAll(d, b) PROVE card' = card
    BY <2>3 DEF BeginRevokeAll
  <2>4. ASSUME NEW b \in Bookings, NEW op \in {"checkOut", "cancel"}, Depart(d, b, op)
        PROVE  card' = card
    BY <2>4 DEF Depart
  <2>5. ASSUME NEW b \in Bookings, NEW r \in Rooms, BeginMove(d, b, r) PROVE card' = card
    BY <2>5 DEF BeginMove
  <2> QED
    BY <1>5, <2>1, <2>2, <2>3, <2>4, <2>5 DEF Begin
<1>6. ASSUME NEW d \in Desks, MoveStep(d) PROVE card' = card
  <2>1. CASE CommitMove(d)
    BY <2>1 DEF CommitMove
  <2>2. ASSUME NEW x \in Cards, NextCard(d, x) PROVE card' = card
    BY <2>2 DEF NextCard
  <2>3. CASE Reissue(d)
    BY <2>3 DEF Reissue
  <2> QED
    BY <1>6, <2>1, <2>2, <2>3 DEF MoveStep
<1>7. CASE \E d \in Desks : Abort(d)
  BY <1>1, <1>7 DEF Abort
<1>8. CASE SetFeature \/ (\E b \in Bookings : StayMoves(b)) \/ UNCHANGED vars
  BY <1>1, <1>8 DEF SetFeature, StayMoves, vars
<1>9. CASE \E d \in Desks : IssueStep(d)
  BY <1>1, <1>2, <1>3, <1>9
     DEF IssueStep, FindExisting, Provision, ProvisionFails,
         ProvisionAnswerLost, ActivateFails, RollBack, RollBackFails
<1>10. CASE \E d \in Desks : RevokeStep(d)
  <2>1. ASSUME NEW d \in Desks, FindLive(d) PROVE card' = card
    BY <2>1, FindLiveReads
  <2>2. ASSUME NEW d \in Desks, NEW x \in Cards, RevokeNextAtLock(d, x) PROVE card' = card
    BY <2>2 DEF RevokeNextAtLock
  <2> QED
    BY <1>1, <1>3, <1>4, <1>10, <2>1, <2>2 DEF RevokeStep, RevokeAtLock
<1> QED
  BY <1>1, <1>5, <1>6, <1>7, <1>8, <1>9, <1>10 DEF Next, Proceed

(* A step of one request leaves the others where they are.                 *)
LEMMA OneRequestMoves ==
  ASSUME TypeOK, NEW d \in Desks, NEW e \in Desks, e # d,
         Begin(e) \/ Proceed(e) \/ Abort(e)
  PROVE  req'[d] = req[d]
<1> DEFINE Moves == \E q : req' = [req EXCEPT ![e] = q]
<1> SUFFICES Moves
  BY DEF TypeOK
<1>0. Throw(e) => Moves
  BY DEF Throw, Finish
<1>1. CASE Begin(e)
  <2>1. ASSUME NEW b \in Bookings, NEW g \in Guests, BeginIssue(e, b, g) PROVE Moves
    BY <2>1 DEF BeginIssue
  <2>2. ASSUME NEW c \in Cards, NEW op \in {"revoke", "reportLost"}, BeginRevoke(e, c, op)
        PROVE  Moves
    BY <2>2 DEF BeginRevoke
  <2>3. ASSUME NEW b \in Bookings, BeginRevokeAll(e, b) PROVE Moves
    BY <2>3 DEF BeginRevokeAll
  <2>4. ASSUME NEW b \in Bookings, NEW op \in {"checkOut", "cancel"}, Depart(e, b, op)
        PROVE  Moves
    BY <2>4 DEF Depart
  <2>5. ASSUME NEW b \in Bookings, NEW r \in Rooms, BeginMove(e, b, r) PROVE Moves
    BY <2>5 DEF BeginMove
  <2> QED
    BY <1>1, <2>1, <2>2, <2>3, <2>4, <2>5 DEF Begin
<1>2. CASE IssueStep(e)
  <2>1. CASE FindExisting(e)
    BY <1>0, <2>1 DEF FindExisting
  <2>2. ASSUME NEW c \in Cards, CreatePending(e, c) PROVE Moves
    BY <2>2 DEF CreatePending
  <2>3. CASE Activate(e)
    BY <2>3 DEF Activate
  <2>4. CASE MarkFailed(e)
    BY <2>4 DEF MarkFailed, Finish
  <2> QED
    BY <1>2, <2>1, <2>2, <2>3, <2>4
       DEF IssueStep, Provision, ProvisionFails, ProvisionAnswerLost,
           ActivateFails, RollBack, RollBackFails, Goto
<1>3. CASE RevokeStep(e)
  <2>1. CASE FindLive(e)
    BY <1>0, <2>1, FindLiveReads
  <2>2. ASSUME NEW c \in Cards, RevokeNextAtLock(e, c) PROVE Moves
    BY <2>2 DEF RevokeNextAtLock
  <2>3. CASE CloseAll(e)
    BY <2>3 DEF CloseAll, Finish
  <2>4. CASE WriteInactive(e)
    BY <2>4 DEF WriteInactive
  <2> QED
    BY <1>3, <2>1, <2>2, <2>3, <2>4 DEF RevokeStep, RevokeAtLock, Goto
<1>4. CASE MoveStep(e)
  <2>1. CASE CommitMove(e)
    BY <2>1 DEF CommitMove
  <2>2. ASSUME NEW c \in Cards, NextCard(e, c) PROVE Moves
    BY <1>0, <2>2 DEF NextCard
  <2>3. CASE Reissue(e)
    BY <1>0, <2>3 DEF Reissue
  <2> QED
    BY <1>4, <2>1, <2>2, <2>3 DEF MoveStep
<1>5. CASE Abort(e)
  BY <1>0, <1>5 DEF Abort
<1> QED
  BY <1>1, <1>2, <1>3, <1>4, <1>5 DEF Proceed

(* The cards a request still has to handle are cards of its booking.       *)
TodoBound ==
  \A d \in Desks : \A c \in req[d].todo :
    card[c].status # "FREE" /\ card[c].b = req[d].b

(* A request's work list shrinks, or is read afresh for its booking.       *)
LEMMA TodoShrinks ==
  ASSUME TypeOK, [Next]_vars, NEW d \in Desks
  PROVE  \/ req'[d].b = req[d].b /\ req'[d].todo \subseteq req[d].todo
         \/ req'[d].todo \subseteq CardsOf(req'[d].b)
<1> DEFINE Shrinks(e) ==
             \/ req'[e].b = req[e].b /\ req'[e].todo \subseteq req[e].todo
             \/ req'[e].todo \subseteq CardsOf(req'[e].b)
<1> SUFFICES Shrinks(d)
  OBVIOUS
<1>1. CASE req'[d] = req[d]
  BY <1>1
<1>2. Idle.todo = {}
  BY DEF Idle
<1>3. CASE Begin(d)
  <2>1. ASSUME NEW b \in Bookings, NEW r \in Rooms, BeginMove(d, b, r)
        PROVE  Shrinks(d)
    BY <2>1, IdleTypes DEF BeginMove, CardsToMove, LiveOf, TypeOK, Request, Idle
  <2>2. CASE ~ \E b \in Bookings, r \in Rooms : BeginMove(d, b, r)
    <3> USE IdleTypes DEF TypeOK, Request
    <3>1. ASSUME NEW b \in Bookings, NEW g \in Guests, BeginIssue(d, b, g)
          PROVE  req'[d].todo = {}
      BY <1>2, <3>1 DEF BeginIssue
    <3>2. ASSUME NEW c \in Cards, NEW op \in {"revoke", "reportLost"}, BeginRevoke(d, c, op)
          PROVE  req'[d].todo = {}
      BY <1>2, <3>2 DEF BeginRevoke
    <3>3. ASSUME NEW b \in Bookings, BeginRevokeAll(d, b)
          PROVE  req'[d].todo = {}
      BY <1>2, <3>3 DEF BeginRevokeAll
    <3>4. ASSUME NEW b \in Bookings, NEW op \in {"checkOut", "cancel"}, Depart(d, b, op)
          PROVE  req'[d].todo = {}
      BY <1>2, <3>4 DEF Depart
    <3> QED
      BY <1>3, <2>2, <3>1, <3>2, <3>3, <3>4 DEF Begin
  <2> QED
    BY <2>1, <2>2
<1>4t. Throw(d) => Shrinks(d)
  BY <1>2 DEF Throw, Finish, TypeOK
<1>4. CASE Abort(d)
  BY <1>4, <1>4t DEF Abort
<1>5. CASE IssueStep(d)
  <2> USE DEF TypeOK, Request
  <2>1. CASE FindExisting(d)
    BY <1>4t, <2>1 DEF FindExisting
  <2>2. ASSUME NEW c \in Cards, CreatePending(d, c) PROVE Shrinks(d)
    BY <2>2 DEF CreatePending
  <2>3. CASE Activate(d)
    BY <1>2, <2>3 DEF Activate, NextInMove
  <2>4. CASE MarkFailed(d)
    BY <1>2, <2>4 DEF MarkFailed, Finish
  <2> QED
    BY <1>5, <2>1, <2>2, <2>3, <2>4
       DEF IssueStep, Provision, ProvisionFails, ProvisionAnswerLost,
           ActivateFails, RollBack, RollBackFails, Goto
<1>6. CASE RevokeStep(d)
  <2> USE DEF TypeOK, Request
  <2>1. CASE FindLive(d)
    BY <1>4t, <2>1, FindLiveReads DEF CardsOf
  <2>2. ASSUME NEW c \in Cards, RevokeNextAtLock(d, c) PROVE Shrinks(d)
    BY <2>2 DEF RevokeNextAtLock
  <2>3. CASE CloseAll(d)
    BY <1>2, <2>3 DEF CloseAll, Finish
  <2>4. CASE WriteInactive(d)
    BY <1>2, <2>4 DEF WriteInactive
  <2> QED
    BY <1>6, <2>1, <2>2, <2>3, <2>4 DEF RevokeStep, RevokeAtLock, Goto
<1>7. CASE MoveStep(d)
  <2> USE DEF TypeOK, Request
  <2>1. CASE CommitMove(d)
    BY <1>2, <2>1 DEF CommitMove, NextInMove
  <2>2. ASSUME NEW c \in Cards, NextCard(d, c) PROVE Shrinks(d)
    BY <1>4t, <2>2 DEF NextCard
  <2>3. CASE Reissue(d)
    BY <1>4t, <2>3 DEF Reissue
  <2> QED
    BY <1>7, <2>1, <2>2, <2>3 DEF MoveStep
<1>8. ASSUME NEW e \in Desks, e # d, Begin(e) \/ Proceed(e) \/ Abort(e)
      PROVE  req'[d] = req[d]
  BY <1>8, OneRequestMoves
<1>9. CASE SetFeature \/ (\E b \in Bookings : StayMoves(b)) \/ UNCHANGED vars
  BY <1>1, <1>9 DEF SetFeature, StayMoves, vars
<1> QED
  BY <1>1, <1>3, <1>4, <1>5, <1>6, <1>7, <1>8, <1>9 DEF Next, Proceed

(* So TodoBound is kept.                                                   *)
LEMMA TodoStep == TypeOK /\ TodoBound /\ [Next]_vars => TodoBound'
<1> SUFFICES ASSUME TypeOK, TodoBound, [Next]_vars,
                    NEW d \in Desks, NEW c \in req'[d].todo
             PROVE  card'[c].status # "FREE" /\ card'[c].b = req'[d].b
  BY DEF TodoBound
<1>1. c \in Cards /\ card[c].status # "FREE" /\ card[c].b = req'[d].b
  BY TodoShrinks DEF TodoBound, CardsOf, TypeOK, Request
<1> QED
  BY <1>1, RowsStay

(* A handler that throws leaves rows and keys as they are, and records its *)
(* booking if it had begun to change them.                                 *)
LEMMA ThrowKeeps ==
  ASSUME TypeOK, KeyInv, NEW d \in Desks, Throw(d), UNCHANGED <<card, lock, stale>>
  PROVE  KeyInv'
<1>1. req' = [req EXCEPT ![d] = Idle] /\ cut \subseteq cut'
  BY DEF Throw, Finish
<1>2. req'[d].at \notin SpecialStages
  BY <1>1 DEF TypeOK, Idle, SpecialStages, CardStages, SweepStages
<1>3. req[d].at \in SpecialStages \ {"lock"} => req[d].b \in cut'
  BY DEF Throw, HasEffects, SpecialStages, CardStages, SweepStages
<1>4. \A e \in Desks : e # d => req'[e] = req[e]
  BY <1>1 DEF TypeOK
<1> QED
  BY <1>1, <1>2, <1>3, <1>4, QuietStep

(* A request that begins holds a card only if it is a revocation.          *)
LEMMA BeginKeeps ==
  ASSUME TypeOK, KeyInv, NEW d \in Desks, Begin(d)
  PROVE  KeyInv'
<1> USE DEF TypeOK, Request
<1>1. \A e \in Desks : e # d => req'[e] = req[e]
  BY OneRequestMoves
<1> DEFINE Quietly == /\ card' = card /\ lock' = lock /\ stale' = stale
                      /\ cut' = cut /\ req[d].at = "idle"
                      /\ req'[d].at \notin SpecialStages
<1>2. Quietly => KeyInv'
  BY <1>1, QuietStep DEF SpecialStages, CardStages, SweepStages
<1> USE IdleTypes DEF Free, SpecialStages, CardStages, SweepStages
<1>3. ASSUME NEW b \in Bookings, NEW g \in Guests, BeginIssue(d, b, g)
      PROVE  KeyInv'
  BY <1>2, <1>3 DEF BeginIssue
<1>4. ASSUME NEW b \in Bookings, BeginRevokeAll(d, b)
      PROVE  KeyInv'
  BY <1>2, <1>4 DEF BeginRevokeAll
<1>5. ASSUME NEW b \in Bookings, NEW op \in {"checkOut", "cancel"}, Depart(d, b, op)
      PROVE  KeyInv'
  BY <1>2, <1>5 DEF Depart
<1>6. ASSUME NEW b \in Bookings, NEW r \in Rooms, BeginMove(d, b, r)
      PROVE  KeyInv'
  BY <1>2, <1>6 DEF BeginMove
<1>7. ASSUME NEW c \in Cards, NEW op \in {"revoke", "reportLost"}, BeginRevoke(d, c, op)
      PROVE  KeyInv'
  <2>1. /\ card' = card /\ lock' = lock /\ stale' = stale /\ cut' = cut
        /\ req[d].at \notin SpecialStages /\ card[c].status \in Live
    BY <1>7 DEF BeginRevoke
  <2>2. /\ req'[d].at = StageFor(c) /\ req'[d].c = c /\ req'[d].b = card[c].b
        /\ req'[d].was = card[c].status
    BY <1>7 DEF BeginRevoke
  <2> QED
    BY <1>1, <2>1, <2>2, HoldCardKeeps
<1> QED
  BY <1>3, <1>4, <1>5, <1>6, <1>7 DEF Begin

(* The steps of an issue.                                                  *)
LEMMA IssueKeeps ==
  ASSUME TypeOK, KeyInv, NEW d \in Desks, IssueStep(d)
  PROVE  KeyInv'
<1>1. CASE FindExisting(d)
  <2>1. CASE Throw(d)
    BY <1>1, <2>1, ThrowKeeps DEF FindExisting
  <2>2. CASE ~ Throw(d)
    <3>1. /\ card' = card /\ lock' = lock /\ stale' = stale /\ cut' = cut
          /\ req[d].at = "existing" /\ req'[d].at = "create"
      BY <1>1, <2>2 DEF FindExisting, TypeOK, Request
    <3>2. \A e \in Desks : e # d => req'[e] = req[e]
      BY OneRequestMoves DEF Proceed
    <3> QED
      BY <3>1, <3>2, QuietStep DEF SpecialStages, CardStages, SweepStages
  <2> QED
    BY <2>1, <2>2
<1> QED
  BY <1>1, CreatePendingKeeps, ProvisionKeeps, ProvisionFailsKeeps,
     ProvisionAnswerLostKeeps, ActivateKeeps, ActivateFailsKeeps, RollBackKeeps,
     RollBackFailsKeeps, MarkFailedKeeps
     DEF IssueStep

(* The steps of a revocation.                                              *)
LEMMA RevokeKeeps ==
  ASSUME TypeOK, KeyInv, NEW d \in Desks, RevokeStep(d)
  PROVE  KeyInv'
<1>1. CASE FindLive(d)
  <2>1. CASE Throw(d)
    BY <1>1, <2>1, ThrowKeeps, FindLiveReads
  <2>2. CASE ~ Throw(d)
    <3>1. \A e \in Desks : e # d => req'[e] = req[e]
      BY OneRequestMoves DEF Proceed
    <3> QED
      BY <1>1, <2>2, <3>1, FindLiveReads, SweepBeginsKeeps
         DEF SpecialStages, CardStages, SweepStages
  <2> QED
    BY <2>1, <2>2
<1> QED
  BY <1>1, RevokeAtLockKeeps, WriteInactiveKeeps, RevokeNextAtLockKeeps,
     CloseAllKeeps DEF RevokeStep

(* The steps of a room move.                                               *)
LEMMA MoveKeeps ==
  ASSUME TypeOK, TodoBound, KeyInv, NEW d \in Desks, MoveStep(d)
  PROVE  KeyInv'
<1>0. \A e \in Desks : e # d => req'[e] = req[e]
  BY OneRequestMoves DEF Proceed
<1>1. CASE CommitMove(d)
  <2>1. /\ card' = card /\ lock' = lock /\ cut' = cut /\ stale \subseteq stale'
        /\ req[d].at = "commit" /\ req'[d] = NextInMove(req[d])
    BY <1>1 DEF CommitMove, TypeOK
  <2>2. NextInMove(req[d]).at \in {"idle", "next"}
    BY DEF NextInMove, Idle, TypeOK, Request
  <2> QED
    BY <1>0, <2>1, <2>2, QuietStep DEF SpecialStages, CardStages, SweepStages
<1>2. ASSUME NEW c \in Cards, NextCard(d, c)
      PROVE  KeyInv'
  <2>1. card' = card /\ lock' = lock /\ stale' = stale /\ req[d].at = "next"
    BY <1>2 DEF NextCard
  <2>2. CASE Throw(d)
    BY <2>1, <2>2, ThrowKeeps
  <2>3. CASE ~ Throw(d)
    <3>1. /\ cut' = cut /\ card[c].status \in Live /\ c \in req[d].todo
          /\ req'[d].at = StageFor(c) /\ req'[d].c = c /\ req'[d].b = req[d].b
          /\ req'[d].was = card[c].status
      BY <1>2, <2>3 DEF NextCard, TypeOK, Request
    <3>2. card[c].b = req[d].b
      BY <3>1 DEF TodoBound
    <3> QED
      BY <1>0, <2>1, <3>1, <3>2, HoldCardKeeps
         DEF SpecialStages, CardStages, SweepStages
  <2> QED
    BY <2>2, <2>3
<1>3. CASE Reissue(d)
  <2>1. card' = card /\ lock' = lock /\ stale' = stale /\ req[d].at = "reissue"
    BY <1>3 DEF Reissue
  <2>2. CASE Throw(d)
    BY <2>1, <2>2, ThrowKeeps
  <2>3. CASE ~ Throw(d)
    <3>1. cut' = cut /\ req'[d].at = "existing"
      BY <1>3, <2>3 DEF Reissue, TypeOK, Request
    <3> QED
      BY <1>0, <2>1, <3>1, QuietStep DEF SpecialStages, CardStages, SweepStages
  <2> QED
    BY <2>2, <2>3
<1> QED
  BY <1>1, <1>2, <1>3 DEF MoveStep

(* KeyInv is inductive, relative to the types and to TodoBound.            *)
LEMMA KeyStep == TypeOK /\ TodoBound /\ KeyInv /\ [Next]_vars => KeyInv'
<1> SUFFICES ASSUME TypeOK, TodoBound, KeyInv, [Next]_vars
             PROVE  KeyInv'
  OBVIOUS
<1>1. CASE UNCHANGED <<card, lock, req, stale, cut>>
  BY <1>1
     DEF KeyInv, RowBound, KeyHasRow, OneIssuer, NotYetActive, SawActive,
         KeyAtLock, KeyWithdrawn, SweepWithdrawn, NoKeyWithoutCard,
         ActiveCardOpens, Sound, Withdrawing
<1>2. ASSUME NEW b \in Bookings, StayMoves(b)
      PROVE  UNCHANGED <<card, lock, req, stale, cut>>
  BY <1>2 DEF StayMoves
<1>3. CASE SetFeature \/ UNCHANGED vars
  BY <1>1, <1>3 DEF SetFeature, vars
<1>4. ASSUME NEW d \in Desks, Abort(d)
      PROVE  KeyInv'
  BY <1>4, ThrowKeeps DEF Abort
<1> QED
  BY <1>1, <1>2, <1>3, <1>4, BeginKeeps, IssueKeeps, RevokeKeeps, MoveKeeps
     DEF Next, Proceed

(* The invariant of a keycard and its key.                                 *)
LEMMA KeysAndRows == Spec => [](TypeOK /\ TodoBound /\ KeyInv)
<1>1. Init => TypeOK /\ TodoBound /\ KeyInv
  BY TypeInit, KeyInit DEF Init, TodoBound, Idle
<1>2. TypeOK /\ TodoBound /\ KeyInv /\ [Next]_vars => (TypeOK /\ TodoBound /\ KeyInv)'
  BY TypeStep, TodoStep, KeyStep
<1> QED
  BY <1>1, <1>2, PTL DEF Spec

(* Whatever requests overlap and whichever of them fail, a door opens only *)
(* for a card whose row is ACTIVE or whose issue is between the provider   *)
(* and the row, apart from the cards and bookings stale and cut record.    *)
THEOREM NoOrphanKey == Spec => []NoKeyWithoutCard
<1>1. KeyInv => NoKeyWithoutCard
  BY DEF KeyInv
<1> QED
  BY <1>1, KeysAndRows, PTL

(* And a card shown as ACTIVE opens its door, unless its withdrawal is     *)
(* under way.                                                              *)
THEOREM ActiveCardIsHonoured == Spec => []ActiveCardOpens
<1>1. KeyInv => ActiveCardOpens
  BY DEF KeyInv
<1> QED
  BY <1>1, KeysAndRows, PTL
-----------------------------------------------------------------------------
(***************************************************************************)
(* Who writes what.                                                        *)
(***************************************************************************)
(* The steps that write keycard rows.                                      *)
LEMMA CardWrites ==
  ASSUME TypeOK, [Next]_vars, card' # card
  PROVE  \E d \in Desks : \/ \E x \in Cards : CreatePending(d, x)
                          \/ Activate(d) \/ MarkFailed(d) \/ WriteInactive(d)
                          \/ CloseAll(d)
<1>1. ASSUME NEW d \in Desks, Begin(d) PROVE card' = card
  <2>1. ASSUME NEW b \in Bookings, NEW g \in Guests, BeginIssue(d, b, g) PROVE card' = card
    BY <2>1 DEF BeginIssue
  <2>2. ASSUME NEW x \in Cards, NEW op \in {"revoke", "reportLost"}, BeginRevoke(d, x, op)
        PROVE  card' = card
    BY <2>2 DEF BeginRevoke
  <2>3. ASSUME NEW b \in Bookings, BeginRevokeAll(d, b) PROVE card' = card
    BY <2>3 DEF BeginRevokeAll
  <2>4. ASSUME NEW b \in Bookings, NEW op \in {"checkOut", "cancel"}, Depart(d, b, op)
        PROVE  card' = card
    BY <2>4 DEF Depart
  <2>5. ASSUME NEW b \in Bookings, NEW r \in Rooms, BeginMove(d, b, r) PROVE card' = card
    BY <2>5 DEF BeginMove
  <2> QED
    BY <1>1, <2>1, <2>2, <2>3, <2>4, <2>5 DEF Begin
<1>2. ASSUME NEW d \in Desks, MoveStep(d) PROVE card' = card
  <2>1. CASE CommitMove(d)
    BY <2>1 DEF CommitMove
  <2>2. ASSUME NEW x \in Cards, NextCard(d, x) PROVE card' = card
    BY <2>2 DEF NextCard
  <2>3. CASE Reissue(d)
    BY <2>3 DEF Reissue
  <2> QED
    BY <1>2, <2>1, <2>2, <2>3 DEF MoveStep
<1>3. ASSUME NEW d \in Desks, Abort(d) PROVE card' = card
  BY <1>3 DEF Abort
<1>4. ~ SetFeature /\ (~ \E b \in Bookings : StayMoves(b)) /\ ~ UNCHANGED vars
  BY DEF SetFeature, StayMoves, vars
<1>5. ASSUME NEW d \in Desks, RevokeStep(d) PROVE WriteInactive(d) \/ CloseAll(d)
  <2>1. CASE FindLive(d)
    BY <2>1, FindLiveReads
  <2>2. ASSUME NEW x \in Cards, RevokeNextAtLock(d, x) PROVE card' = card
    BY <2>2 DEF RevokeNextAtLock
  <2> QED
    BY <1>5, <2>1, <2>2 DEF RevokeStep, RevokeAtLock
<1>6. ASSUME NEW d \in Desks, IssueStep(d)
      PROVE  (\E x \in Cards : CreatePending(d, x)) \/ Activate(d) \/ MarkFailed(d)
  BY <1>6 DEF IssueStep, FindExisting, Provision, ProvisionFails,
              ProvisionAnswerLost, ActivateFails, RollBack, RollBackFails
<1> QED
  BY <1>1, <1>2, <1>3, <1>4, <1>5, <1>6 DEF Next, Proceed

(* A card keeps its stay, room and guest, and is live unmarked only if it  *)
(* was live, or is being created.                                          *)
LEMMA CardChanges ==
  ASSUME TypeOK, [Next]_vars, NEW c \in Cards, ~ \E d \in Desks : CreatePending(d, c)
  PROVE  /\ card'[c].b = card[c].b
         /\ card'[c].room = card[c].room
         /\ card'[c].guest = card[c].guest
         /\ card'[c].inHouse = card[c].inHouse
         /\ card'[c].status \in Live /\ c \notin stale' => card[c].status \in Live
<1>c. card[c] \in CardRow /\ \A d \in Desks : req[d].c \in Cards
  BY DEF TypeOK, Request
<1>1. CASE card' = card
  BY <1>1
<1>2. ASSUME NEW d \in Desks, NEW x \in Cards, CreatePending(d, x) PROVE card'[c] = card[c]
  BY <1>2 DEF CreatePending, TypeOK
<1>3. ASSUME NEW d \in Desks, NEW s, SetCard(req[d].c, s),
             s \in Live => card[req[d].c].status \in Live \/ req[d].c \in stale'
      PROVE  /\ card'[c].b = card[c].b
             /\ card'[c].room = card[c].room
             /\ card'[c].guest = card[c].guest
             /\ card'[c].inHouse = card[c].inHouse
             /\ card'[c].status \in Live /\ c \notin stale' => card[c].status \in Live
  <2>1. CASE c = req[d].c
    <3>1. card'[c] = [card[c] EXCEPT !.status = s]
      BY <1>3, <2>1 DEF SetCard, TypeOK
    <3> QED
      BY <1>c, <1>3, <2>1, <3>1 DEF CardRow
  <2>2. CASE c # req[d].c
    BY <1>3, <2>2 DEF SetCard, TypeOK
  <2> QED
    BY <2>1, <2>2
<1>4. ASSUME NEW d \in Desks, Activate(d)
      PROVE  /\ SetCard(req[d].c, "ACTIVE")
             /\ card[req[d].c].status \in Live \/ req[d].c \in stale'
  BY <1>4 DEF Activate, Outdated, Live
<1>5. ASSUME NEW d \in Desks, MarkFailed(d) \/ WriteInactive(d)
      PROVE  \E s : SetCard(req[d].c, s) /\ s \notin Live
  BY <1>5 DEF MarkFailed, WriteInactive, Live
<1>6. ASSUME NEW d \in Desks, CloseAll(d)
      PROVE  card'[c] = card[c] \/ card'[c] = [card[c] EXCEPT !.status = "REVOKED"]
  BY <1>6 DEF CloseAll
<1>7. card'[c] = [card[c] EXCEPT !.status = "REVOKED"] =>
        /\ card'[c].b = card[c].b
        /\ card'[c].room = card[c].room
        /\ card'[c].guest = card[c].guest
        /\ card'[c].inHouse = card[c].inHouse
        /\ card'[c].status \notin Live
  BY <1>c DEF CardRow, Live
<1> QED
  BY <1>1, <1>2, <1>3, <1>4, <1>5, <1>6, <1>7, CardWrites

(* What is marked stays marked.                                            *)
LEMMA HistoryGrows ==
  ASSUME TypeOK, [Next]_vars
  PROVE  stale \subseteq stale' /\ cut \subseteq cut'
<1>t. ASSUME NEW d \in Desks, Throw(d) PROVE cut \subseteq cut'
  BY <1>t DEF Throw
<1>1. ASSUME NEW d \in Desks, Begin(d) PROVE UNCHANGED <<stale, cut>>
  <2>1. ASSUME NEW b \in Bookings, NEW g \in Guests, BeginIssue(d, b, g)
        PROVE  UNCHANGED <<stale, cut>>
    BY <2>1 DEF BeginIssue
  <2>2. ASSUME NEW x \in Cards, NEW op \in {"revoke", "reportLost"}, BeginRevoke(d, x, op)
        PROVE  UNCHANGED <<stale, cut>>
    BY <2>2 DEF BeginRevoke
  <2>3. ASSUME NEW b \in Bookings, BeginRevokeAll(d, b) PROVE UNCHANGED <<stale, cut>>
    BY <2>3 DEF BeginRevokeAll
  <2>4. ASSUME NEW b \in Bookings, NEW op \in {"checkOut", "cancel"}, Depart(d, b, op)
        PROVE  UNCHANGED <<stale, cut>>
    BY <2>4 DEF Depart
  <2>5. ASSUME NEW b \in Bookings, NEW r \in Rooms, BeginMove(d, b, r)
        PROVE  UNCHANGED <<stale, cut>>
    BY <2>5 DEF BeginMove
  <2> QED
    BY <1>1, <2>1, <2>2, <2>3, <2>4, <2>5 DEF Begin
<1>2. ASSUME NEW d \in Desks, MoveStep(d) PROVE stale \subseteq stale' /\ cut \subseteq cut'
  <2>1. CASE CommitMove(d)
    BY <2>1 DEF CommitMove
  <2>2. ASSUME NEW x \in Cards, NextCard(d, x)
        PROVE  stale \subseteq stale' /\ cut \subseteq cut'
    BY <1>t, <2>2 DEF NextCard
  <2>3. CASE Reissue(d)
    BY <1>t, <2>3 DEF Reissue
  <2> QED
    BY <1>2, <2>1, <2>2, <2>3 DEF MoveStep
<1>3. ASSUME NEW d \in Desks, RevokeStep(d) PROVE stale \subseteq stale' /\ cut \subseteq cut'
  <2>1. CASE FindLive(d)
    BY <1>t, <2>1, FindLiveReads
  <2>2. CASE CloseAll(d)
    BY <2>2 DEF CloseAll
  <2>3. ASSUME NEW x \in Cards, RevokeNextAtLock(d, x) PROVE UNCHANGED <<stale, cut>>
    BY <2>3 DEF RevokeNextAtLock
  <2> QED
    BY <1>3, <2>1, <2>2, <2>3 DEF RevokeStep, RevokeAtLock, WriteInactive, Outdated
<1>4. ASSUME NEW d \in Desks, IssueStep(d) PROVE stale \subseteq stale' /\ cut \subseteq cut'
  <2>1. CASE FindExisting(d)
    BY <1>t, <2>1 DEF FindExisting
  <2>2. ASSUME NEW x \in Cards, CreatePending(d, x) PROVE stale \subseteq stale' /\ cut' = cut
    BY <2>2 DEF CreatePending, Outdated
  <2> QED
    BY <1>4, <2>1, <2>2
       DEF IssueStep, Provision, ProvisionFails, ProvisionAnswerLost, Activate,
           ActivateFails, RollBack, RollBackFails, MarkFailed, Outdated
<1>5. ASSUME NEW d \in Desks, Abort(d) PROVE stale \subseteq stale' /\ cut \subseteq cut'
  BY <1>t, <1>5 DEF Abort
<1>6. SetFeature \/ (\E b \in Bookings : StayMoves(b)) \/ UNCHANGED vars
        => UNCHANGED <<stale, cut>>
  BY DEF SetFeature, StayMoves, vars
<1> QED
  BY <1>1, <1>2, <1>3, <1>4, <1>5, <1>6 DEF Next, Proceed

(* How a step changes a reservation row: a departure, a room move, or an   *)
(* operation on a booking that is not in the house yet.                    *)
LEMMA StayChanges ==
  ASSUME TypeOK, [Next]_vars, NEW b \in Bookings, rsv'[b] # rsv[b]
  PROVE  \/ \E d \in Desks, op \in {"checkOut", "cancel"} : Depart(d, b, op)
         \/ \E d \in Desks : /\ CommitMove(d) /\ req[d].b = b
                             /\ rsv'[b].status = rsv[b].status
                             /\ rsv'[b].room = req[d].room
         \/ /\ rsv[b].status \in {"FREE", "PENDING", "CONFIRMED"}
            /\ rsv'[b].status \in {"PENDING", "CONFIRMED", "CHECKED_IN", "NO_SHOW"}
            /\ UNCHANGED <<card, req, stale, cut>>
<1>r. \A x \in Bookings : rsv[x] \in Row
  BY DEF TypeOK
<1>1. ASSUME NEW d \in Desks, NEW x \in Bookings, NEW op \in {"checkOut", "cancel"}, Depart(d, x, op)
      PROVE  x = b
  BY <1>1 DEF Depart, Desk!CheckOut, Desk!Cancel, Desk!SetStatus, TypeOK
<1>2. ASSUME NEW d \in Desks, CommitMove(d)
      PROVE  /\ req[d].b = b /\ rsv'[b].status = rsv[b].status
             /\ rsv'[b].room = req[d].room
  <2>1. rsv' = [rsv EXCEPT ![req[d].b] = [rsv[req[d].b] EXCEPT !.room = req[d].room,
                   !.from = rsv[req[d].b].from, !.to = rsv[req[d].b].to]]
    BY <1>2 DEF CommitMove, Desk!Amend
  <2>2. req[d].b = b
    BY <2>1 DEF TypeOK
  <2> QED
    BY <1>r, <2>1, <2>2 DEF TypeOK, Row
<1>3. ASSUME NEW x \in Bookings, StayMoves(x)
      PROVE  /\ rsv[b].status \in {"FREE", "PENDING", "CONFIRMED"}
             /\ rsv'[b].status \in {"PENDING", "CONFIRMED", "CHECKED_IN", "NO_SHOW"}
             /\ UNCHANGED <<card, req, stale, cut>>
  <2>1. ASSUME NEW r \in Rooms, NEW f \in Night, NEW t \in Night, Desk!Book(x, r, f, t)
        PROVE  rsv[b].status = "FREE" /\ rsv'[b].status = "CONFIRMED"
    BY <2>1 DEF Desk!Book, TypeOK
  <2>2. ASSUME NEW r \in Rooms, NEW f \in Night, NEW t \in Night, Desk!Amend(x, r, f, t),
               rsv[x].status \in Open
        PROVE  rsv[b].status \in Open /\ rsv'[b].status = rsv[b].status
    <3>1. rsv' = [rsv EXCEPT ![x] = [rsv[x] EXCEPT !.room = r, !.from = f, !.to = t]]
      BY <2>2 DEF Desk!Amend
    <3>2. x = b
      BY <3>1 DEF TypeOK
    <3> QED
      BY <1>r, <2>2, <3>1, <3>2 DEF TypeOK, Row
  <2>3. ASSUME NEW s, Desk!SetStatus(x, s)
        PROVE  x = b /\ rsv'[b].status = s
    <3>1. rsv' = [rsv EXCEPT ![x] = [rsv[x] EXCEPT !.status = s]]
      BY <2>3 DEF Desk!SetStatus
    <3>2. x = b
      BY <3>1 DEF TypeOK
    <3> QED
      BY <1>r, <3>1, <3>2 DEF TypeOK, Row
  <2>4. CASE Desk!CheckIn(x) \/ Desk!NoShow(x)
    BY <1>3, <2>3, <2>4
       DEF StayMoves, Desk!CheckIn, Desk!NoShow, Desk!CheckInAllowed, Desk!NoShowAllowed, Desk!Open
  <2>5. UNCHANGED <<card, req, stale, cut>>
    BY <1>3 DEF StayMoves
  <2> QED
    BY <1>3, <2>1, <2>2, <2>4, <2>5 DEF StayMoves, Open
<1>4. ASSUME NEW d \in Desks, Begin(d)
      PROVE  \E x \in Bookings, op \in {"checkOut", "cancel"} : Depart(d, x, op)
  <2>1. ASSUME NEW x \in Bookings, NEW g \in Guests, BeginIssue(d, x, g) PROVE FALSE
    BY <2>1 DEF BeginIssue
  <2>2. ASSUME NEW c \in Cards, NEW op \in {"revoke", "reportLost"}, BeginRevoke(d, c, op)
        PROVE  FALSE
    BY <2>2 DEF BeginRevoke
  <2>3. ASSUME NEW x \in Bookings, BeginRevokeAll(d, x) PROVE FALSE
    BY <2>3 DEF BeginRevokeAll
  <2>4. ASSUME NEW x \in Bookings, NEW r \in Rooms, BeginMove(d, x, r) PROVE FALSE
    BY <2>4 DEF BeginMove
  <2> QED
    BY <1>4, <2>1, <2>2, <2>3, <2>4 DEF Begin
<1>5. ASSUME NEW d \in Desks, Proceed(d) PROVE CommitMove(d)
  <2>1. ASSUME FindLive(d) PROVE FALSE
    BY <2>1, FindLiveReads
  <2>2. ASSUME NEW x \in Cards, RevokeNextAtLock(d, x) PROVE FALSE
    BY <2>2 DEF RevokeNextAtLock
  <2>3. ASSUME NEW x \in Cards, CreatePending(d, x) PROVE FALSE
    BY <2>3 DEF CreatePending
  <2>4. ASSUME NEW x \in Cards, NextCard(d, x) PROVE FALSE
    BY <2>4 DEF NextCard
  <2>5. ASSUME IssueStep(d) PROVE FALSE
    BY <2>3, <2>5
       DEF IssueStep, FindExisting, Provision, ProvisionFails, ProvisionAnswerLost, Activate,
           ActivateFails, RollBack, RollBackFails, MarkFailed
  <2>6. ASSUME RevokeStep(d) PROVE FALSE
    BY <2>1, <2>2, <2>6 DEF RevokeStep, RevokeAtLock, WriteInactive, CloseAll
  <2> QED
    BY <1>5, <2>4, <2>5, <2>6 DEF Proceed, MoveStep, Reissue
<1>6. ~ (\E d \in Desks : Abort(d)) /\ ~ SetFeature /\ ~ UNCHANGED vars
  BY DEF Abort, SetFeature, vars
<1> QED
  BY <1>1, <1>2, <1>3, <1>4, <1>5, <1>6 DEF Next

-----------------------------------------------------------------------------
(***************************************************************************)
(* What handlers carry along.  An issue that goes on to insert its card    *)
(* found no live one; a room move keeps to its own stages, and until it    *)
(* commits it has every card it read still to handle.                      *)
(***************************************************************************)
ShapeOK(q) ==
  /\ q.at = "create" => q.seen = {}
  /\ q.op = "move" => q.at \notin {"findLive", "lockAll", "closeAll"}
  /\ q.at \in {"commit", "next", "reissue"} => q.op = "move"
  /\ q.at = "commit" => q.todo = q.seen

Shapes == \A d \in Desks : ShapeOK(req[d])

(* A request is about a checked-in stay if it was, or has just read so.    *)
InHouseKept(p, q) ==
  q.inHouse => (p.inHouse /\ q.b = p.b) \/ rsv[q.b].status = "CHECKED_IN"

LEMMA HandlerSteps ==
  ASSUME TypeOK, Shapes, [Next]_vars, NEW d \in Desks
  PROVE  ShapeOK(req'[d]) /\ InHouseKept(req[d], req'[d])
<1> DEFINE Good == ShapeOK(req'[d]) /\ InHouseKept(req[d], req'[d])
<1> SUFFICES Good
  OBVIOUS
<1>q. req[d] \in Request /\ ShapeOK(req[d]) /\ Idle \in Request
  BY IdleTypes DEF TypeOK, Shapes
<1>1. CASE req'[d] = req[d]
  BY <1>1, <1>q DEF InHouseKept
<1>2. Idle.at = "idle" /\ Idle.op = "issue" /\ Idle.inHouse = FALSE
  BY DEF Idle
<1>i. CASE req'[d] = Idle
  BY <1>i, <1>2 DEF ShapeOK, InHouseKept
<1>t. Throw(d) => Good
  BY <1>i DEF Throw, Finish, TypeOK
<1>m. ASSUME NEW q, req' = [req EXCEPT ![d] = q] PROVE req'[d] = q
  BY <1>m DEF TypeOK
<1>3. CASE Begin(d)
  <2>1. ASSUME NEW b \in Bookings, NEW g \in Guests, BeginIssue(d, b, g) PROVE Good
    BY <1>q, <1>2, <2>1 DEF BeginIssue, ShapeOK, InHouseKept, Request, TypeOK
  <2>2. ASSUME NEW c \in Cards, NEW op \in {"revoke", "reportLost"}, BeginRevoke(d, c, op)
        PROVE  Good
    BY <1>q, <1>2, <2>2 DEF BeginRevoke, StageFor, ShapeOK, InHouseKept, Request, TypeOK
  <2>3. ASSUME NEW b \in Bookings, BeginRevokeAll(d, b) PROVE Good
    BY <1>q, <1>2, <2>3 DEF BeginRevokeAll, ShapeOK, InHouseKept, Request, TypeOK
  <2>4. ASSUME NEW b \in Bookings, NEW op \in {"checkOut", "cancel"}, Depart(d, b, op)
        PROVE  Good
    BY <1>q, <1>2, <2>4 DEF Depart, ShapeOK, InHouseKept, Request, TypeOK
  <2>5. ASSUME NEW b \in Bookings, NEW r \in Rooms, BeginMove(d, b, r) PROVE Good
    BY <1>q, <1>2, <2>5 DEF BeginMove, ShapeOK, InHouseKept, Request, TypeOK
  <2> QED
    BY <1>3, <2>1, <2>2, <2>3, <2>4, <2>5 DEF Begin
<1>4. CASE Abort(d)
  BY <1>t, <1>4 DEF Abort
<1>g. ASSUME NEW s \in {"activate", "fail", "rollback", "write"}, Goto(d, s) PROVE Good
  BY <1>q, <1>g DEF Goto, ShapeOK, InHouseKept, Request, TypeOK
<1>n. NextInMove(req[d]) = Idle \/ (/\ NextInMove(req[d]).at = "next"
                                   /\ NextInMove(req[d]).op = req[d].op
                                   /\ NextInMove(req[d]).b = req[d].b
                                   /\ NextInMove(req[d]).inHouse = req[d].inHouse)
  BY <1>q DEF NextInMove, Request
<1>5. CASE IssueStep(d)
  <2>1. CASE FindExisting(d)
    BY <1>q, <1>t, <2>1 DEF FindExisting, ShapeOK, InHouseKept, Request, TypeOK
  <2>2. ASSUME NEW c \in Cards, CreatePending(d, c) PROVE Good
    BY <1>q, <2>2 DEF CreatePending, ShapeOK, InHouseKept, Request, TypeOK
  <2>3. CASE Activate(d)
    BY <1>i, <1>n, <2>3 DEF Activate, ShapeOK, InHouseKept, TypeOK
  <2>4. CASE MarkFailed(d)
    BY <1>i, <2>4 DEF MarkFailed, Finish, TypeOK
  <2> QED
    BY <1>5, <1>g, <2>1, <2>2, <2>3, <2>4
       DEF IssueStep, Provision, ProvisionFails, ProvisionAnswerLost,
           ActivateFails, RollBack, RollBackFails
<1>6. CASE RevokeStep(d)
  <2>1. CASE FindLive(d)
    <3> DEFINE active == ActiveOf(req[d].b)
               stage == IF active = {} THEN "closeAll" ELSE "lockAll"
               q2 == [req[d] EXCEPT !.seen = active, !.todo = active, !.at = stage]
    <3>1. req[d].at = "findLive" /\ (req' = [req EXCEPT ![d] = q2] \/ Throw(d))
      BY <2>1 DEF FindLive
    <3>2. stage \in {"closeAll", "lockAll"}
      OBVIOUS
    <3> HIDE DEF active, stage
    <3>3. q2.at = stage /\ q2.op = req[d].op /\ q2.b = req[d].b /\ q2.inHouse = req[d].inHouse
      BY <1>q DEF Request
    <3> HIDE DEF q2
    <3> QED
      BY <1>q, <1>t, <1>m, <3>1, <3>2, <3>3 DEF ShapeOK, InHouseKept
  <2>2. ASSUME NEW c \in Cards, RevokeNextAtLock(d, c) PROVE Good
    BY <1>q, <2>2 DEF RevokeNextAtLock, ShapeOK, InHouseKept, Request, TypeOK
  <2>3. CASE CloseAll(d)
    BY <1>i, <2>3 DEF CloseAll, Finish, TypeOK
  <2>4. CASE WriteInactive(d)
    BY <1>q, <1>i, <2>4 DEF WriteInactive, ShapeOK, InHouseKept, Request, TypeOK
  <2>5. CASE RevokeAtLock(d)
    BY <1>g, <2>5 DEF RevokeAtLock
  <2> QED
    BY <1>6, <2>1, <2>2, <2>3, <2>4, <2>5 DEF RevokeStep
<1>7. CASE MoveStep(d)
  <2>1. CASE CommitMove(d)
    BY <1>q, <1>i, <1>n, <2>1 DEF CommitMove, ShapeOK, InHouseKept, TypeOK
  <2>2. ASSUME NEW c \in Cards, NextCard(d, c) PROVE Good
    BY <1>q, <1>t, <2>2 DEF NextCard, StageFor, ShapeOK, InHouseKept, Request, TypeOK
  <2>3. CASE Reissue(d)
    BY <1>q, <1>t, <2>3 DEF Reissue, ShapeOK, InHouseKept, Request, TypeOK
  <2> QED
    BY <1>7, <2>1, <2>2, <2>3 DEF MoveStep
<1>8. ASSUME NEW e \in Desks, e # d, Begin(e) \/ Proceed(e) \/ Abort(e)
      PROVE  req'[d] = req[d]
  BY <1>8, OneRequestMoves
<1>9. CASE SetFeature \/ (\E b \in Bookings : StayMoves(b)) \/ UNCHANGED vars
  BY <1>1, <1>9 DEF SetFeature, StayMoves, vars
<1> QED
  BY <1>1, <1>3, <1>4, <1>5, <1>6, <1>7, <1>8, <1>9 DEF Next, Proceed

LEMMA ShapeStep == TypeOK /\ Shapes /\ [Next]_vars => Shapes'
  BY HandlerSteps DEF Shapes, ShapeOK

(* Cards issued in the house, and requests that will issue one, belong to  *)
(* stays that have been checked in.                                        *)
Arrived(b) == rsv[b].status \in {"CHECKED_IN", "CHECKED_OUT"}

InHouseArrived ==
  /\ \A c \in Cards : card[c].inHouse => Arrived(card[c].b)
  /\ \A d \in Desks : req[d].inHouse => Arrived(req[d].b)

LEMMA ArrivedStays ==
  ASSUME TypeOK, [Next]_vars, NEW b \in Bookings, Arrived(b)
  PROVE  /\ rsv'[b].status \in {"CHECKED_IN", "CHECKED_OUT"}
         /\ rsv'[b].status = "CHECKED_IN" => rsv[b].status = "CHECKED_IN"
<1>r. rsv[b] \in Row
  BY DEF TypeOK
<1>1. CASE rsv'[b] = rsv[b]
  BY <1>1 DEF Arrived
<1>2. ASSUME NEW d \in Desks, NEW op \in {"checkOut", "cancel"}, Depart(d, b, op)
      PROVE  rsv'[b].status = "CHECKED_OUT"
  <2>1. rsv' = [rsv EXCEPT ![b] = [rsv[b] EXCEPT !.status = "CHECKED_OUT"]]
    BY <1>2 DEF Depart, Arrived, Desk!CheckOut, Desk!Cancel, Desk!CancelAllowed, Desk!SetStatus
  <2> QED
    BY <1>r, <2>1 DEF TypeOK, Row
<1> QED
  BY <1>1, <1>2, StayChanges DEF Arrived

LEMMA InHouseStep ==
  ASSUME TypeOK, Shapes, InHouseArrived, [Next]_vars
  PROVE  InHouseArrived'
<1>1. \A b \in Bookings : Arrived(b) => Arrived(b)'
  BY ArrivedStays DEF Arrived
<1>2. ASSUME NEW c \in Cards, card'[c].inHouse
      PROVE  Arrived(card[c].b)'
  <2>1. ASSUME NEW d \in Desks, CreatePending(d, c)
        PROVE  Arrived(card[c].b)'
    <3>1. card'[c].b = req[d].b /\ card'[c].inHouse = req[d].inHouse /\ rsv' = rsv
      BY <2>1 DEF CreatePending, TypeOK
    <3>2. Arrived(req[d].b)
      BY <1>2, <3>1 DEF InHouseArrived
    <3> QED
      BY <3>1, <3>2 DEF Arrived
  <2>2. CASE ~ \E d \in Desks : CreatePending(d, c)
    <3>1. card'[c].b = card[c].b /\ card[c].inHouse /\ card[c].b \in Bookings
      BY <1>2, <2>2, CardChanges DEF TypeOK, CardRow
    <3>2. Arrived(card[c].b)
      BY <3>1 DEF InHouseArrived
    <3>3. rsv'[card[c].b].status \in {"CHECKED_IN", "CHECKED_OUT"}
      BY <3>1, <3>2, ArrivedStays
    <3> QED
      BY <3>1, <3>3 DEF Arrived
  <2> QED
    BY <2>1, <2>2
<1>3. ASSUME NEW d \in Desks, req'[d].inHouse
      PROVE  Arrived(req[d].b)'
  <2>1. \/ req[d].inHouse /\ req'[d].b = req[d].b
        \/ rsv[req'[d].b].status = "CHECKED_IN"
    BY <1>3, HandlerSteps DEF InHouseKept
  <2>2. req'[d].b \in Bookings
    BY TypeStep DEF TypeOK, Request
  <2>3. rsv[req'[d].b].status \in {"CHECKED_IN", "CHECKED_OUT"}
    BY <2>1 DEF InHouseArrived, Arrived
  <2>4. rsv'[req'[d].b].status \in {"CHECKED_IN", "CHECKED_OUT"}
    BY <2>2, <2>3, ArrivedStays DEF Arrived
  <2> QED
    BY <2>4 DEF Arrived
<1> QED
  BY <1>2, <1>3 DEF InHouseArrived

-----------------------------------------------------------------------------
(***************************************************************************)
(* One live card.                                                          *)
(***************************************************************************)
LEMMA OneLiveStep ==
  ASSUME TypeOK, Shapes, OneLiveCardPerGuest, [Next]_vars
  PROVE  OneLiveCardPerGuest'
<1> SUFFICES ASSUME NEW b \in Bookings, NEW g \in Guests,
                    NEW c1 \in Cards, NEW c2 \in Cards, c1 # c2,
                    c1 \notin stale', c2 \notin stale',
                    card'[c1].status \in Live, card'[c1].b = b, card'[c1].guest = g,
                    card'[c2].status \in Live, card'[c2].b = b, card'[c2].guest = g
             PROVE  FALSE
  BY DEF OneLiveCardPerGuest, LiveFor, LiveOf, CardsOf
<1>s. c1 \notin stale /\ c2 \notin stale
  BY HistoryGrows
<1>1. ASSUME NEW c \in {c1, c2}, ~ \E d \in Desks : CreatePending(d, c)
      PROVE  c \in LiveFor(b, g) \ stale
  <2>1. /\ card[c].b = b /\ card[c].guest = g /\ card[c].status \in Live
    BY <1>1, CardChanges
  <2> QED
    BY <1>s, <2>1 DEF LiveFor, LiveOf, CardsOf, Live
<1>2. ASSUME NEW d \in Desks, NEW x \in {c1, c2}, NEW y \in {c1, c2}, x # y,
             CreatePending(d, x)
      PROVE  FALSE
  <2>1. card'[y] = card[y] /\ card'[x].b = req[d].b /\ card'[x].guest = req[d].guest
    BY <1>2 DEF CreatePending, TypeOK
  <2>2. LiveFor(req[d].b, req[d].guest) = {}
    BY <1>2 DEF CreatePending, Outdated, Shapes, ShapeOK
  <2>3. y \in LiveFor(b, g)
    BY <2>1 DEF LiveFor, LiveOf, CardsOf, Live
  <2> QED
    BY <2>1, <2>2, <2>3
<1> QED
  BY <1>1, <1>2 DEF OneLiveCardPerGuest

-----------------------------------------------------------------------------
(***************************************************************************)
(* Departures.  A stay that has departed still has unmarked live cards     *)
(* only while the check-out or cancellation is on its way to them.         *)
(***************************************************************************)
Sweeping(q, b) ==
  /\ q.b = b
  /\ q.op \in {"checkOut", "cancel"}
  /\ q.at \in {"findLive", "lockAll", "closeAll"}

DepartedSwept ==
  \A b \in Bookings \ cut :
    Departed(b) => LiveOf(b) \subseteq stale \/ \E d \in Desks : Sweeping(req[d], b)

(* It gets there, or its booking is marked as cut.                         *)
LEMMA SweepingKept ==
  ASSUME TypeOK, [Next]_vars, NEW d \in Desks, NEW b \in Bookings \ cut',
         Sweeping(req[d], b)
  PROVE  Sweeping(req'[d], b) \/ \A c \in Cards : card'[c].b = b => card'[c].status \notin Live
<1>q. req[d] \in Request
  BY DEF TypeOK
<1>1. CASE req'[d] = req[d]
  BY <1>1
<1>t. ~ Throw(d)
  BY DEF Throw, HasEffects, Sweeping
<1>2. ASSUME FindLive(d) PROVE Sweeping(req'[d], b)
  <2> DEFINE active == ActiveOf(req[d].b)
             stage == IF active = {} THEN "closeAll" ELSE "lockAll"
             q2 == [req[d] EXCEPT !.seen = active, !.todo = active, !.at = stage]
  <2>1. req' = [req EXCEPT ![d] = q2]
    BY <1>2, <1>t DEF FindLive
  <2>2. stage \in {"closeAll", "lockAll"}
    OBVIOUS
  <2> HIDE DEF active, stage
  <2>3. q2.at = stage /\ q2.op = req[d].op /\ q2.b = req[d].b
    BY <1>q DEF Request
  <2>4. req'[d] = q2
    BY <2>1 DEF TypeOK
  <2> HIDE DEF q2
  <2> QED
    BY <2>2, <2>3, <2>4 DEF Sweeping
<1>3. ASSUME NEW c \in Cards, RevokeNextAtLock(d, c) PROVE Sweeping(req'[d], b)
  BY <1>q, <1>3 DEF RevokeNextAtLock, Sweeping, Request, TypeOK
<1>4. ASSUME CloseAll(d)
      PROVE  \A c \in Cards : card'[c].b = b => card'[c].status \notin Live
  <2>1. req[d].b = b /\ card' = [c \in Cards |-> IF c \in LiveOf(b)
                                                THEN [card[c] EXCEPT !.status = "REVOKED"]
                                                ELSE card[c]]
    BY <1>4 DEF CloseAll, Sweeping
  <2> TAKE c \in Cards
  <2>2. card[c] \in CardRow
    BY DEF TypeOK
  <2>3. CASE c \in LiveOf(b)
    BY <2>1, <2>2, <2>3 DEF CardRow, Live
  <2>4. CASE c \notin LiveOf(b)
    BY <2>1, <2>2, <2>4 DEF LiveOf, CardsOf, Live
  <2> QED
    BY <2>3, <2>4
<1>5. ASSUME Begin(d) PROVE FALSE
  BY <1>5 DEF Begin, BeginIssue, BeginRevoke, BeginRevokeAll, Depart, BeginMove, Free, Sweeping
<1>6. ASSUME Abort(d) PROVE FALSE
  BY <1>t, <1>6 DEF Abort
<1>7. ASSUME IssueStep(d) PROVE FALSE
  BY <1>7 DEF IssueStep, FindExisting, CreatePending, Provision, ProvisionFails,
     ProvisionAnswerLost, Activate, ActivateFails, RollBack, RollBackFails, MarkFailed, Sweeping
<1>8. ASSUME MoveStep(d) PROVE FALSE
  BY <1>8 DEF MoveStep, CommitMove, NextCard, Reissue, Sweeping
<1>9. ASSUME NEW e \in Desks, e # d, Begin(e) \/ Proceed(e) \/ Abort(e)
      PROVE  req'[d] = req[d]
  BY <1>9, OneRequestMoves
<1>10. CASE SetFeature \/ (\E x \in Bookings : StayMoves(x)) \/ UNCHANGED vars
  BY <1>1, <1>10 DEF SetFeature, StayMoves, vars
<1>11. CASE RevokeStep(d)
  BY <1>2, <1>3, <1>4, <1>11 DEF RevokeStep, RevokeAtLock, WriteInactive, Sweeping
<1> QED
  BY <1>1, <1>5, <1>6, <1>7, <1>8, <1>9, <1>10, <1>11 DEF Next, Proceed

LEMMA SweptStep ==
  ASSUME TypeOK, DepartedSwept, [Next]_vars
  PROVE  DepartedSwept'
<1> SUFFICES ASSUME NEW b \in Bookings \ cut',
                    rsv'[b].status \in {"CHECKED_OUT", "CANCELLED"},
                    \A d \in Desks : ~ Sweeping(req'[d], b),
                    NEW c \in Cards, card'[c].status \in Live, card'[c].b = b,
                    c \notin stale'
             PROVE  FALSE
  BY DEF DepartedSwept, Departed, LiveOf, CardsOf, Sweeping
<1>h. b \notin cut /\ c \notin stale
  BY HistoryGrows
<1>1. ASSUME NEW d \in Desks, NEW op \in {"checkOut", "cancel"}, Depart(d, b, op)
      PROVE  FALSE
  <2> DEFINE q == [Idle EXCEPT !.op = op, !.at = "findLive", !.b = b]
  <2>1. req'[d] = q
    BY <1>1 DEF Depart, TypeOK
  <2>2. Sweeping(q, b)
    BY IdleTypes DEF Request, Sweeping
  <2> QED
    BY <2>1, <2>2
<1>2. Departed(b)
  BY <1>1, StayChanges DEF Departed
<1>3. ASSUME NEW d \in Desks, CreatePending(d, c)
      PROVE  FALSE
  <2>1. card'[c].b = req[d].b
    BY <1>3 DEF CreatePending, TypeOK
  <2>2. Issuable(req[d].b)
    BY <1>3 DEF CreatePending, Outdated
  <2> QED
    BY <1>2, <2>1, <2>2 DEF Departed, Issuable
<1>4. c \in LiveOf(b)
  <2>1. card[c].b = b /\ card[c].status \in Live
    BY <1>3, CardChanges
  <2> QED
    BY <2>1 DEF LiveOf, CardsOf, Live
<1>5. PICK d \in Desks : Sweeping(req[d], b)
  BY <1>h, <1>2, <1>4 DEF DepartedSwept
<1> QED
  BY <1>5, SweepingKept
-----------------------------------------------------------------------------
(***************************************************************************)
(* Room moves.  A live card issued in the house is in the guest's room, or *)
(* a room move has it on its list or in its hands.                         *)
(***************************************************************************)
Replacing(q, c) ==
  /\ q.op = "move" /\ q.at \notin {"idle", "commit"}
  /\ c \in q.todo \/ (q.c = c /\ q.at \in {"lock", "write"})

Follow ==
  \A c \in Cards :
    /\ card[c].status \in Live
    /\ card[c].inHouse
    /\ Sound(c)
    /\ rsv[card[c].b].status = "CHECKED_IN"
    => \/ card[c].room = rsv[card[c].b].room
       \/ \E d \in Desks : Replacing(req[d], c)

(* A move that will replace a card does so, or its booking is marked as    *)
(* cut.                                                                    *)
LEMMA ReplacingKept ==
  ASSUME TypeOK, TodoBound, RowBound, Shapes, [Next]_vars,
         NEW d \in Desks, NEW c \in Cards, Replacing(req[d], c),
         card[c].b \notin cut', card'[c].status \in Live
  PROVE  Replacing(req'[d], c)
<1>q. req[d] \in Request /\ ShapeOK(req[d])
  BY DEF TypeOK, Shapes
<1>1. CASE req'[d] = req[d]
  BY <1>1
<1>b. req[d].b \notin cut'
  BY DEF TodoBound, RowBound, CardStages, Replacing
<1>t. ~ Throw(d)
  BY <1>b DEF Throw, HasEffects, Replacing
<1>m. ASSUME NEW q, req' = [req EXCEPT ![d] = q] PROVE req'[d] = q
  BY <1>m DEF TypeOK
<1>w. ASSUME NEW s, req'[d] = [req[d] EXCEPT !.at = s]
      PROVE  /\ req'[d].op = req[d].op /\ req'[d].todo = req[d].todo
             /\ req'[d].c = req[d].c /\ req'[d].at = s
  BY <1>q, <1>w DEF Request
<1>g. ASSUME NEW s \in {"activate", "fail", "rollback", "write"}, Goto(d, s),
             req[d].at # "write", req[d].at = "lock" => s = "write"
      PROVE  Replacing(req'[d], c)
  <2>1. req'[d] = [req[d] EXCEPT !.at = s]
    BY <1>g DEF Goto, TypeOK
  <2> QED
    BY <1>g, <1>w, <2>1 DEF Replacing
<1>2. ASSUME Begin(d) \/ Abort(d) PROVE FALSE
  BY <1>t, <1>2
     DEF Begin, BeginIssue, BeginRevoke, BeginRevokeAll, Depart, BeginMove, Free, Abort, Replacing
<1>3. CASE IssueStep(d)
  <2>1. CASE FindExisting(d)
    BY <1>q, <1>t, <2>1 DEF FindExisting, Replacing, Request, TypeOK
  <2>2. ASSUME NEW x \in Cards, CreatePending(d, x) PROVE Replacing(req'[d], c)
    BY <1>q, <2>2 DEF CreatePending, Replacing, Request, TypeOK
  <2>3. CASE Activate(d)
    <3>1. req'[d] = NextInMove(req[d]) /\ c \in req[d].todo
      BY <2>3 DEF Activate, Replacing, TypeOK
    <3>2. req'[d] = [req[d] EXCEPT !.at = "next"]
      BY <3>1 DEF NextInMove
    <3> QED
      BY <1>w, <3>1, <3>2 DEF Replacing
  <2>4. ASSUME MarkFailed(d) PROVE FALSE
    BY <1>b, <2>4 DEF MarkFailed, Replacing
  <2> QED
    BY <1>3, <1>g, <2>1, <2>2, <2>3, <2>4
       DEF IssueStep, Provision, ProvisionFails, ProvisionAnswerLost,
           ActivateFails, RollBack, RollBackFails
<1>4. CASE RevokeStep(d)
  <2>1. ASSUME FindLive(d) \/ CloseAll(d) \/ \E x \in Cards : RevokeNextAtLock(d, x)
        PROVE  FALSE
    BY <1>q, <2>1 DEF FindLive, CloseAll, RevokeNextAtLock, Replacing, ShapeOK
  <2>2. CASE WriteInactive(d)
    <3>1. req'[d] = [req[d] EXCEPT !.at = "reissue"]
      BY <2>2 DEF WriteInactive, Replacing, TypeOK
    <3>2. req[d].c # c
      BY <2>2 DEF WriteInactive, SetCard, Live, TypeOK, CardRow
    <3> QED
      BY <1>w, <3>1, <3>2 DEF Replacing
  <2>3. CASE RevokeAtLock(d)
    BY <1>g, <2>3 DEF RevokeAtLock
  <2> QED
    BY <1>4, <2>1, <2>2, <2>3 DEF RevokeStep
<1>5. CASE MoveStep(d)
  <2>1. ASSUME CommitMove(d) PROVE FALSE
    BY <2>1 DEF CommitMove, Replacing
  <2>2. ASSUME NEW x \in Cards, NextCard(d, x) PROVE Replacing(req'[d], c)
    <3> DEFINE q == [req[d] EXCEPT !.c = x, !.was = card[x].status, !.guest = card[x].guest,
                                   !.todo = @ \ {x}, !.at = StageFor(x)]
    <3>1. req'[d] = q /\ c \in req[d].todo
      BY <1>t, <2>2 DEF NextCard, Replacing, TypeOK
    <3>2. q.op = req[d].op /\ q.c = x /\ q.todo = req[d].todo \ {x} /\ q.at \in {"lock", "write"}
      BY <1>q DEF Request, StageFor
    <3> HIDE DEF q
    <3> QED
      BY <3>1, <3>2 DEF Replacing
  <2>3. CASE Reissue(d)
    BY <1>q, <1>t, <2>3 DEF Reissue, Replacing, Request, TypeOK
  <2> QED
    BY <1>5, <2>1, <2>2, <2>3 DEF MoveStep
<1>6. ASSUME NEW e \in Desks, e # d, Begin(e) \/ Proceed(e) \/ Abort(e)
      PROVE  req'[d] = req[d]
  BY <1>6, OneRequestMoves
<1>7. CASE SetFeature \/ (\E b \in Bookings : StayMoves(b)) \/ UNCHANGED vars
  BY <1>1, <1>7 DEF SetFeature, StayMoves, vars
<1> QED
  BY <1>1, <1>2, <1>3, <1>4, <1>5, <1>6, <1>7 DEF Next, Proceed

LEMMA FollowStep ==
  ASSUME TypeOK, TodoBound, RowBound, Shapes, InHouseArrived, Follow, [Next]_vars
  PROVE  Follow'
<1> SUFFICES ASSUME NEW c \in Cards,
                    card'[c].status \in Live, card'[c].inHouse,
                    c \notin stale', card'[c].b \notin cut',
                    rsv'[card'[c].b].status = "CHECKED_IN",
                    card'[c].room # rsv'[card'[c].b].room
             PROVE  \E d \in Desks : Replacing(req'[d], c)
  BY DEF Follow, Sound, Replacing
<1>h. c \notin stale /\ card'[c].b \notin cut
  BY HistoryGrows
<1>1. ASSUME NEW d \in Desks, CreatePending(d, c) PROVE FALSE
  <2>1. card'[c].b = req[d].b /\ card'[c].room = req[d].room /\ rsv' = rsv
    BY <1>1 DEF CreatePending, TypeOK
  <2>2. rsv[req[d].b].room = req[d].room
    BY <1>1 DEF CreatePending, Outdated
  <2> QED
    BY <2>1, <2>2
<1>2. /\ card'[c].b = card[c].b /\ card'[c].room = card[c].room
      /\ card[c].inHouse /\ card[c].status \in Live
  BY <1>1, CardChanges
<1> DEFINE b == card[c].b
<1>b. b \in Bookings
  BY DEF TypeOK, CardRow
<1>3. Arrived(b)
  BY <1>2 DEF InHouseArrived
<1>4. rsv[b].status = "CHECKED_IN"
  BY <1>2, <1>3, <1>b, ArrivedStays
<1>5. CASE \E d \in Desks : Replacing(req[d], c)
  BY <1>2, <1>5, ReplacingKept
<1>6. CASE ~ \E d \in Desks : Replacing(req[d], c)
  <2>1. card[c].room = rsv[b].room
    BY <1>h, <1>2, <1>4, <1>6 DEF Follow, Sound
  <2>2. rsv'[b] # rsv[b]
    BY <1>2, <2>1
  <2>3. ASSUME NEW d \in Desks, NEW op \in {"checkOut", "cancel"}, Depart(d, b, op)
        PROVE  rsv'[b].status # "CHECKED_IN"
    <3>1. rsv[b] \in Row
      BY <1>b DEF TypeOK
    <3>2. rsv' = [rsv EXCEPT ![b] = [rsv[b] EXCEPT !.status = "CHECKED_OUT"]]
      BY <1>4, <2>3
         DEF Depart, Desk!CheckOut, Desk!Cancel, Desk!CancelAllowed, Desk!SetStatus
    <3> QED
      BY <1>b, <3>1, <3>2 DEF TypeOK, Row
  <2>4. PICK d \in Desks : CommitMove(d) /\ req[d].b = b
    BY <1>2, <1>4, <1>b, <2>2, <2>3, StayChanges
  <2>q. req[d] \in Request /\ ShapeOK(req[d])
    BY DEF TypeOK, Shapes
  <2>5. c \in CardsToMove(b)
    BY <1>2, <2>1 DEF CardsToMove, LiveOf, CardsOf, Live
  <2>6. c \in req[d].todo /\ req[d].op = "move"
    BY <1>h, <2>4, <2>5, <2>q DEF CommitMove, ShapeOK
  <2>7. req'[d] = [req[d] EXCEPT !.at = "next"]
    BY <2>4, <2>6 DEF CommitMove, NextInMove, TypeOK
  <2>8. /\ req'[d].op = req[d].op /\ req'[d].todo = req[d].todo /\ req'[d].at = "next"
    BY <2>7, <2>q DEF Request
  <2> QED
    BY <2>6, <2>8 DEF Replacing
<1> QED
  BY <1>5, <1>6

-----------------------------------------------------------------------------
(* The invariant of cards and stays.                                       *)
StayInv ==
  /\ Shapes
  /\ InHouseArrived
  /\ OneLiveCardPerGuest
  /\ DepartedSwept
  /\ Follow

LEMMA StayInit == Init => StayInv
<1> SUFFICES ASSUME Init PROVE StayInv
  OBVIOUS
<1>1. /\ Idle.at = "idle" /\ Idle.op = "issue" /\ ~ Idle.inHouse
      /\ NoCard.status = "FREE" /\ ~ NoCard.inHouse /\ NoRow.status = "FREE"
  BY DEF Idle, NoCard, NoRow
<1>2. /\ \A d \in Desks : req[d] = Idle
      /\ \A c \in Cards : card[c] = NoCard
      /\ \A b \in Bookings : rsv[b] = NoRow
  BY DEF Init
<1>3. Shapes /\ InHouseArrived
  BY <1>1, <1>2 DEF Shapes, ShapeOK, InHouseArrived
<1>4. OneLiveCardPerGuest
  BY <1>1, <1>2 DEF OneLiveCardPerGuest, LiveFor, LiveOf, CardsOf
<1>5. DepartedSwept
  BY <1>1, <1>2 DEF DepartedSwept, Departed
<1>6. Follow
  BY <1>1, <1>2 DEF Follow, Live
<1> QED
  BY <1>3, <1>4, <1>5, <1>6 DEF StayInv

LEMMA CardsAndStays == Spec => [](TypeOK /\ StayInv)
<1>1. TypeOK /\ TodoBound /\ KeyInv /\ StayInv /\ [Next]_vars => StayInv'
  BY ShapeStep, InHouseStep, OneLiveStep, SweptStep, FollowStep DEF StayInv, KeyInv
<1> QED
  BY <1>1, StayInit, KeysAndRows, PTL DEF Spec

(* A guest of a stay never has two live cards: whichever issues, retries   *)
(* and re-issues of a room move overlap, a second card is one that was     *)
(* written on an outdated look at the others, which stale records.         *)
THEOREM GuestHasOneLiveCard == Spec => []OneLiveCardPerGuest
<1>1. StayInv => OneLiveCardPerGuest
  BY DEF StayInv
<1> QED
  BY <1>1, CardsAndStays, PTL

(* Once its requests are answered, a stay that was checked out or          *)
(* cancelled has no live card but those whose issue it overtook, or its    *)
(* booking is one whose revocation failed, which cut records.              *)
THEOREM DepartedStaysKeepNoCard == Spec => []DepartedStayHasNoCard
<1>1. ASSUME DepartedSwept PROVE DepartedStayHasNoCard
  <2> SUFFICES ASSUME NEW b \in Bookings \ cut, Departed(b), Quiet(b)
               PROVE  LiveOf(b) \subseteq stale
    BY DEF DepartedStayHasNoCard
  <2>1. \A d \in Desks : ~ Sweeping(req[d], b)
    BY DEF Quiet, Sweeping
  <2> QED
    BY <1>1, <2>1 DEF DepartedSwept
<1>2. StayInv => DepartedStayHasNoCard
  BY <1>1 DEF StayInv
<1> QED
  BY <1>2, CardsAndStays, PTL

(* An ACTIVE card issued in the house is in the room of its guest, or a    *)
(* room move has yet to replace it, however that move interleaves with     *)
(* other moves, issues and revocations.                                    *)
THEOREM CardsFollowTheGuest == Spec => []CardsFollowGuest
<1>1. Follow => CardsFollowGuest
  BY DEF Follow, CardsFollowGuest, Live, Replacing
<1>2. StayInv => CardsFollowGuest
  BY <1>1 DEF StayInv
<1> QED
  BY <1>2, CardsAndStays, PTL
=============================================================================
