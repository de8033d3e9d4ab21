------------------------------ MODULE Keycards ------------------------------
(***************************************************************************)
(* keycards.service.ts and the reservation endpoints that call it.  A card *)
(* lives in two places: its row, and its access token at the lock          *)
(* provider, an external system reached by a call that may fail.  Each     *)
(* handler works through both, one await at a time, and handlers overlap.  *)
(*                                                                         *)
(* Reservations move by the atomic operations of StayLifecycle: the races  *)
(* on the reservation row itself are FrontDesk's subject.                  *)
(***************************************************************************)
EXTENDS ReservationRows, FiniteSets

CONSTANTS Cards,     \* keycard ids the hotel can create
          Guests,    \* guests a card is issued to (null is one of them)
          Desks,     \* request slots: how many requests may overlap
          Ops,       \* the endpoints called
          Feature    \* values keycardAuthEnabled takes

AllOps == {"issue", "revoke", "reportLost", "revokeAll",
           "checkOut", "cancel", "move"}

ASSUME KeycardAssumption ==
  /\ Cards # {}
  /\ Guests # {}
  /\ Ops \subseteq AllOps
  /\ Feature \subseteq BOOLEAN /\ Feature # {}

VARIABLES
  rsv,      \* reservation rows
  card,     \* keycard rows
  lock,     \* the cards whose access token the lock provider accepts
  enabled,  \* hotel.keycardAuthEnabled
  req,      \* requests in flight
  stale,    \* history: cards written, or passed over, on outdated reads
  cut       \* history: bookings of a request that failed or stopped midway

vars == <<rsv, card, lock, enabled, req, stale, cut>>

Desk == INSTANCE StayLifecycle

(***************************************************************************)
(* Rows.  The code never writes EXPIRED; "FREE" is an id with no row yet.  *)
(***************************************************************************)
CardStatus == {"FREE", "PENDING", "ACTIVE", "FAILED", "REVOKED", "LOST"}
Live       == {"PENDING", "ACTIVE"}

CardRow == [status : CardStatus, b : Bookings, room : Rooms, guest : Guests,
            inHouse : BOOLEAN]   \* issued to a checked-in stay

NoCard == [status |-> "FREE", b |-> CHOOSE b \in Bookings : TRUE,
           room |-> CHOOSE r \in Rooms : TRUE,
           guest |-> CHOOSE g \in Guests : TRUE, inHouse |-> FALSE]

CardsOf(b) == {c \in Cards : card[c].status # "FREE" /\ card[c].b = b}
LiveOf(b)  == {c \in CardsOf(b) : card[c].status \in Live}
ActiveOf(b) == {c \in CardsOf(b) : card[c].status = "ACTIVE"}

(* The cards that block another issue for the same guest of the stay.      *)
LiveFor(b, g) == {c \in LiveOf(b) : card[c].guest = g}

(* KEYCARD_ACTIVE_RESERVATION_STATUSES.                                    *)
Issuable(b) == rsv[b].status \in {"CONFIRMED", "CHECKED_IN"}

(***************************************************************************)
(* Requests.  seen is the set of cards a query returned, was the status of *)
(* the card at hand when it was read, todo the cards still to handle.      *)
(***************************************************************************)
Stages == {"idle", "existing", "create", "provision", "activate", "rollback",
           "fail", "lock", "write", "findLive", "lockAll", "closeAll",
           "commit", "next", "reissue"}

Request == [op : AllOps, at : Stages, b : Bookings, guest : Guests,
            room : Rooms, inHouse : BOOLEAN, c : Cards, was : CardStatus,
            seen : SUBSET Cards, todo : SUBSET Cards]

Idle == [op |-> "issue", at |-> "idle", b |-> NoCard.b, guest |-> NoCard.guest,
         room |-> NoCard.room, inHouse |-> FALSE,
         c |-> CHOOSE c \in Cards : TRUE, was |-> "FREE",
         seen |-> {}, todo |-> {}]

Free(d)    == req[d].at = "idle"
Goto(d, s) == req' = [req EXCEPT ![d].at = s]
Finish(d)  == req' = [req EXCEPT ![d] = Idle]

(* The request has changed something, or serves a departure or a move that *)
(* is already written.                                                     *)
HasEffects(q) ==
  \/ q.op \in {"checkOut", "cancel"}
  \/ q.op = "move" /\ q.at # "commit"
  \/ q.at \in {"provision", "activate", "rollback", "fail", "write",
               "lockAll", "closeAll"}

(* The handler throws: nothing it did before is undone.                    *)
Throw(d) ==
  /\ Finish(d)
  /\ cut' = IF HasEffects(req[d]) THEN cut \cup {req[d].b} ELSE cut

(* After a revoke or an issue that the room move loop called.              *)
NextInMove(q) == IF q.todo = {} THEN Idle ELSE [q EXCEPT !.at = "next"]

SetCard(c, s) == card' = [card EXCEPT ![c].status = s]

Outdated(c, really) == stale' = IF really THEN stale \cup {c} ELSE stale

(***************************************************************************)
(* issue(): the reservation, the guest's live cards, a PENDING row, the    *)
(* provider, then the row made ACTIVE.                                     *)
(***************************************************************************)
BeginIssue(d, b, g) ==
  /\ "issue" \in Ops
  /\ Free(d)
  /\ enabled
  /\ Issuable(b)
  /\ req' = [req EXCEPT ![d] =
               [Idle EXCEPT !.op = "issue", !.at = "existing", !.b = b,
                            !.guest = g, !.room = rsv[b].room,
                            !.inHouse = rsv[b].status = "CHECKED_IN"]]
  /\ UNCHANGED <<rsv, card, lock, enabled, stale, cut>>

(* Faulty variant: a card still being issued does not count.               *)
FindExistingActiveOnly(d) ==
  LET q == req[d]
      found == LiveFor(q.b, q.guest)
  IN  /\ q.at = "existing"
      /\ IF \A c \in found : card[c].status # "ACTIVE"
         THEN /\ req' = [req EXCEPT ![d].at = "create", ![d].seen = found]
              /\ UNCHANGED cut
         ELSE Throw(d)
      /\ UNCHANGED <<rsv, card, lock, enabled, stale>>

FindExisting(d) ==
  LET q == req[d]
      found == LiveFor(q.b, q.guest)
  IN  /\ q.at = "existing"
      /\ IF found = {}
         THEN /\ req' = [req EXCEPT ![d].at = "create", ![d].seen = found]
              /\ UNCHANGED cut
         ELSE Throw(d)
      /\ UNCHANGED <<rsv, card, lock, enabled, stale>>

CreatePending(d, c) ==
  LET q == req[d]
  IN  /\ q.at = "create"
      /\ card[c].status = "FREE"
      /\ card' = [card EXCEPT ![c] =
                    [status |-> "PENDING", b |-> q.b, room |-> q.room,
                     guest |-> q.guest, inHouse |-> q.inHouse]]
      /\ req' = [req EXCEPT ![d].at = "provision", ![d].c = c]
      /\ Outdated(c, \/ LiveFor(q.b, q.guest) # q.seen
                     \/ ~ Issuable(q.b)
                     \/ rsv[q.b].room # q.room)
      /\ UNCHANGED <<rsv, lock, enabled, cut>>

Provision(d) ==
  /\ req[d].at = "provision"
  /\ lock' = lock \cup {req[d].c}
  /\ Goto(d, "activate")
  /\ UNCHANGED <<rsv, card, enabled, stale, cut>>

(* Faulty variant: the error of the provider is swallowed.                 *)
ProvisionErrorSwallowed(d) ==
  /\ req[d].at = "provision"
  /\ Goto(d, "activate")
  /\ UNCHANGED <<rsv, card, lock, enabled, stale, cut>>

ProvisionFails(d) ==
  /\ req[d].at = "provision"
  /\ Goto(d, "fail")
  /\ UNCHANGED <<rsv, card, lock, enabled, stale, cut>>

(* The provider has installed the key, but its answer is lost.             *)
ProvisionAnswerLost(d) ==
  /\ req[d].at = "provision"
  /\ lock' = lock \cup {req[d].c}
  /\ Goto(d, "fail")
  /\ cut' = cut \cup {req[d].b}
  /\ UNCHANGED <<rsv, card, enabled, stale>>

(* Faulty variant: the access result is written as the status.             *)
ActivateAsGranted(d) ==
  LET q == req[d]
  IN  /\ q.at = "activate"
      /\ SetCard(q.c, "GRANTED")
      /\ req' = [req EXCEPT ![d] =
                   IF q.op = "move" THEN NextInMove(q) ELSE Idle]
      /\ Outdated(q.c, card[q.c].status # "PENDING")
      /\ UNCHANGED <<rsv, lock, enabled, cut>>

(* The row becomes ACTIVE whatever its status is by now.                   *)
Activate(d) ==
  LET q == req[d]
  IN  /\ q.at = "activate"
      /\ SetCard(q.c, "ACTIVE")
      /\ req' = [req EXCEPT ![d] =
                   IF q.op = "move" THEN NextInMove(q) ELSE Idle]
      /\ Outdated(q.c, card[q.c].status # "PENDING")
      /\ UNCHANGED <<rsv, lock, enabled, cut>>

ActivateFails(d) ==
  /\ req[d].at = "activate"
  /\ Goto(d, "rollback")
  /\ UNCHANGED <<rsv, card, lock, enabled, stale, cut>>

RollBack(d) ==
  /\ req[d].at = "rollback"
  /\ lock' = lock \ {req[d].c}
  /\ Goto(d, "fail")
  /\ UNCHANGED <<rsv, card, enabled, stale, cut>>

(* A failed rollback is swallowed: "best-effort".                          *)
RollBackFails(d) ==
  /\ req[d].at = "rollback"
  /\ Goto(d, "fail")
  /\ cut' = cut \cup {req[d].b}
  /\ UNCHANGED <<rsv, card, lock, enabled, stale>>

MarkFailed(d) ==
  LET q == req[d]
  IN  /\ q.at = "fail"
      /\ SetCard(q.c, "FAILED")
      /\ Finish(d)
      /\ cut' = IF q.op = "move" THEN cut \cup {q.b} ELSE cut
      /\ Outdated(q.c, card[q.c].status # "PENDING")
      /\ UNCHANGED <<rsv, lock, enabled>>

(***************************************************************************)
(* revoke() and reportLost(): the provider is asked only if the row was    *)
(* ACTIVE when read.                                                       *)
(***************************************************************************)
StageFor(c) == IF card[c].status = "ACTIVE" THEN "lock" ELSE "write"

BeginRevoke(d, c, op) ==
  /\ op \in Ops \cap {"revoke", "reportLost"}
  /\ Free(d)
  /\ enabled
  /\ card[c].status \in Live
  /\ req' = [req EXCEPT ![d] =
               [Idle EXCEPT !.op = op, !.at = StageFor(c), !.b = card[c].b,
                            !.c = c, !.was = card[c].status]]
  /\ UNCHANGED <<rsv, card, lock, enabled, stale, cut>>

(* Faulty variant: the provider is not asked.                              *)
RevokeAtLockSkipped(d) ==
  /\ req[d].at = "lock"
  /\ Goto(d, "write")
  /\ UNCHANGED <<rsv, card, lock, enabled, stale, cut>>

RevokeAtLock(d) ==
  /\ req[d].at = "lock"
  /\ lock' = lock \ {req[d].c}
  /\ Goto(d, "write")
  /\ UNCHANGED <<rsv, card, enabled, stale, cut>>

WriteInactive(d) ==
  LET q == req[d]
  IN  /\ q.at = "write"
      /\ SetCard(q.c, IF q.op = "reportLost" THEN "LOST" ELSE "REVOKED")
      /\ req' = [req EXCEPT ![d] =
                   IF q.op = "move" THEN [q EXCEPT !.at = "reissue"] ELSE Idle]
      /\ Outdated(q.c, card[q.c].status # q.was)
      /\ UNCHANGED <<rsv, lock, enabled, cut>>

(***************************************************************************)
(* revokeAllForReservation(), called by itself or at the end of checkOut() *)
(* and cancel(): the live cards, the provider for each ACTIVE one, then    *)
(* one updateMany over the cards that are live by then.                    *)
(***************************************************************************)
BeginRevokeAll(d, b) ==
  /\ "revokeAll" \in Ops
  /\ Free(d)
  /\ enabled
  /\ rsv[b].status # "FREE"
  /\ req' = [req EXCEPT ![d] =
               [Idle EXCEPT !.op = "revokeAll", !.at = "findLive", !.b = b]]
  /\ UNCHANGED <<rsv, card, lock, enabled, stale, cut>>

Depart(d, b, op) ==
  /\ op \in Ops
  /\ Free(d)
  /\ \/ op = "checkOut" /\ Desk!CheckOut(b)
     \/ op = "cancel" /\ Desk!Cancel(b)
  /\ req' = [req EXCEPT ![d] =
               [Idle EXCEPT !.op = op, !.at = "findLive", !.b = b]]
  /\ UNCHANGED <<card, lock, enabled, stale, cut>>

(* assertFeatureEnabled, which throws, and findMany.                       *)
FindLive(d) ==
  LET active == ActiveOf(req[d].b)
      next   == IF active = {} THEN "closeAll" ELSE "lockAll"
  IN  /\ req[d].at = "findLive"
      /\ IF enabled
         THEN /\ req' = [req EXCEPT ![d].seen = active, ![d].todo = active,
                                    ![d].at = next]
              /\ UNCHANGED cut
         ELSE Throw(d)
      /\ UNCHANGED <<rsv, card, lock, enabled, stale>>

RevokeNextAtLock(d, c) ==
  LET left == req[d].todo \ {c}
  IN  /\ req[d].at = "lockAll"
      /\ c \in req[d].todo
      /\ lock' = lock \ {c}
      /\ req' = [req EXCEPT ![d].todo = left,
                            ![d].at = IF left = {} THEN "closeAll" ELSE @]
      /\ UNCHANGED <<rsv, card, enabled, stale, cut>>

(* Faulty variant: only ACTIVE rows are updated.                           *)
CloseAllActiveOnly(d) ==
  LET q == req[d]
      closing == {c \in LiveOf(q.b) : card[c].status = "ACTIVE"}
  IN  /\ q.at = "closeAll"
      /\ card' = [c \in Cards |->
                    IF c \in closing THEN [card[c] EXCEPT !.status = "REVOKED"]
                                     ELSE card[c]]
      /\ stale' = stale \cup (closing \ q.seen)
      /\ Finish(d)
      /\ UNCHANGED <<rsv, lock, enabled, cut>>

CloseAll(d) ==
  LET q == req[d]
      closing == LiveOf(q.b)
  IN  /\ q.at = "closeAll"
      /\ card' = [c \in Cards |->
                    IF c \in closing THEN [card[c] EXCEPT !.status = "REVOKED"]
                                     ELSE card[c]]
      /\ stale' = stale \cup
           {c \in closing : card[c].status = "ACTIVE" /\ c \notin q.seen}
      /\ Finish(d)
      /\ UNCHANGED <<rsv, lock, enabled, cut>>

(***************************************************************************)
(* update() moving a checked-in guest: the live cards of the room are read *)
(* before the transaction; after it each is revoked and issued again.      *)
(***************************************************************************)
CardsToMove(b) == {c \in LiveOf(b) : card[c].room = rsv[b].room}

(* Faulty variant: the cards of the new room are looked up.                *)
BeginMoveWrongRoom(d, b, r) ==
  /\ "move" \in Ops
  /\ Free(d)
  /\ rsv[b].status = "CHECKED_IN"
  /\ r # rsv[b].room
  /\ req' = [req EXCEPT ![d] =
               [Idle EXCEPT !.op = "move", !.at = "commit", !.b = b, !.room = r,
                            !.seen = CardsToMove(b),
                            !.todo = {c \in LiveOf(b) : card[c].room = r}]]
  /\ UNCHANGED <<rsv, card, lock, enabled, stale, cut>>

BeginMove(d, b, r) ==
  /\ "move" \in Ops
  /\ Free(d)
  /\ rsv[b].status = "CHECKED_IN"
  /\ r # rsv[b].room
  /\ req' = [req EXCEPT ![d] =
               [Idle EXCEPT !.op = "move", !.at = "commit", !.b = b, !.room = r,
                            !.seen = CardsToMove(b), !.todo = CardsToMove(b)]]
  /\ UNCHANGED <<rsv, card, lock, enabled, stale, cut>>

CommitMove(d) ==
  LET q == req[d]
  IN  /\ q.at = "commit"
      /\ Desk!Amend(q.b, q.room, rsv[q.b].from, rsv[q.b].to)
      /\ stale' = stale \cup (CardsToMove(q.b) \ q.seen)
      /\ req' = [req EXCEPT ![d] = NextInMove(q)]
      /\ UNCHANGED <<card, lock, enabled, cut>>

(* revoke() reads the card again, and throws if it is inactive by now.     *)
NextCard(d, c) ==
  /\ req[d].at = "next"
  /\ c \in req[d].todo
  /\ IF enabled /\ card[c].status \in Live
     THEN /\ req' = [req EXCEPT ![d].c = c, ![d].was = card[c].status,
                                ![d].guest = card[c].guest,
                                ![d].todo = @ \ {c}, ![d].at = StageFor(c)]
          /\ UNCHANGED cut
     ELSE Throw(d)
  /\ UNCHANGED <<rsv, card, lock, enabled, stale>>

Reissue(d) ==
  LET q == req[d]
  IN  /\ q.at = "reissue"
      /\ IF enabled /\ Issuable(q.b) /\ rsv[q.b].room = q.room
         THEN /\ req' = [req EXCEPT ![d].at = "existing",
                           ![d].inHouse = rsv[q.b].status = "CHECKED_IN"]
              /\ UNCHANGED cut
         ELSE Throw(d)
      /\ UNCHANGED <<rsv, card, lock, enabled, stale>>

(***************************************************************************)
(* Requests that stop, the rest of the reservation's life, and the flag.   *)
(***************************************************************************)
(* A query or a provider call fails and the handler throws, an issue's     *)
(* validity window is refused, or the process restarts.                    *)
Abort(d) ==
  /\ ~ Free(d)
  /\ Throw(d)
  /\ UNCHANGED <<rsv, card, lock, enabled, stale>>

(* A booking, a check-in, a no-show, or a change to an open booking: none  *)
(* of them touches the keycards.                                           *)
StayMoves(b) ==
  /\ \/ \E r \in Rooms, f, t \in Night : Desk!Book(b, r, f, t)
     \/ /\ rsv[b].status \in Open
        /\ \E r \in Rooms, f, t \in Night : Desk!Amend(b, r, f, t)
     \/ Desk!CheckIn(b)
     \/ Desk!NoShow(b)
  /\ UNCHANGED <<card, lock, enabled, req, stale, cut>>

SetFeature ==
  /\ enabled' \in Feature
  /\ UNCHANGED <<rsv, card, lock, req, stale, cut>>

-----------------------------------------------------------------------------
Init ==
  /\ rsv = [b \in Bookings |-> NoRow]
  /\ card = [c \in Cards |-> NoCard]
  /\ lock = {}
  /\ enabled \in Feature
  /\ req = [d \in Desks |-> Idle]
  /\ stale = {}
  /\ cut = {}

Begin(d) ==
  \/ \E b \in Bookings, g \in Guests : BeginIssue(d, b, g)
  \/ \E c \in Cards, op \in {"revoke", "reportLost"} : BeginRevoke(d, c, op)
  \/ \E b \in Bookings : BeginRevokeAll(d, b)
  \/ \E b \in Bookings, op \in {"checkOut", "cancel"} : Depart(d, b, op)
  \/ \E b \in Bookings, r \in Rooms : BeginMove(d, b, r)

IssueStep(d) ==
  \/ FindExisting(d)
  \/ \E c \in Cards : CreatePending(d, c)
  \/ Provision(d) \/ ProvisionFails(d) \/ ProvisionAnswerLost(d)
  \/ Activate(d) \/ ActivateFails(d)
  \/ RollBack(d) \/ RollBackFails(d)
  \/ MarkFailed(d)

RevokeStep(d) ==
  \/ RevokeAtLock(d)
  \/ WriteInactive(d)
  \/ FindLive(d)
  \/ \E c \in Cards : RevokeNextAtLock(d, c)
  \/ CloseAll(d)

MoveStep(d) ==
  \/ CommitMove(d)
  \/ \E c \in Cards : NextCard(d, c)
  \/ Reissue(d)

Proceed(d) == IssueStep(d) \/ RevokeStep(d) \/ MoveStep(d)

Next ==
  \/ \E d \in Desks : Begin(d) \/ Proceed(d) \/ Abort(d)
  \/ \E b \in Bookings : StayMoves(b)
  \/ SetFeature

Spec == Init /\ [][Next]_vars

-----------------------------------------------------------------------------
(* Every row and every request has the shape the code gives it.            *)
TypeOK ==
  /\ rsv \in [Bookings -> Row]
  /\ card \in [Cards -> CardRow]
  /\ lock \subseteq Cards
  /\ enabled \in BOOLEAN
  /\ req \in [Desks -> Request]
  /\ stale \subseteq Cards
  /\ cut \subseteq Bookings

Sound(c) == c \notin stale /\ card[c].b \notin cut

(* A door opens only for a card whose row is ACTIVE, or whose issue is     *)
(* between the provider and the row: issue() provisions before it          *)
(* activates, every revocation asks the lock before it writes, and a       *)
(* failed activation takes the key back.                                   *)
NoKeyWithoutCard ==
  \A c \in lock :
    Sound(c) =>
      \/ card[c].status = "ACTIVE"
      \/ \E d \in Desks : req[d].c = c /\ req[d].at \in {"activate", "rollback"}

Withdrawing(q, c) ==
  \/ q.at = "write" /\ q.c = c
  \/ q.at \in {"lockAll", "closeAll"} /\ c \in q.seen \ q.todo

(* A card shown as ACTIVE opens its door, unless a request has already     *)
(* withdrawn it at the lock and is about to say so.                        *)
ActiveCardOpens ==
  \A c \in Cards :
    card[c].status = "ACTIVE" /\ Sound(c) =>
      c \in lock \/ \E d \in Desks : Withdrawing(req[d], c)

Quiet(b) == \A d \in Desks : req[d].at # "idle" => req[d].b # b

Departed(b) == rsv[b].status \in {"CHECKED_OUT", "CANCELLED"}

(* A stay that was checked out or cancelled keeps no card, PENDING or      *)
(* ACTIVE, once its requests are answered, save cards whose issue was      *)
(* overtaken: check-out writes the row first and revokes later.            *)
DepartedStayHasNoCard ==
  \A b \in Bookings \ cut :
    Departed(b) /\ Quiet(b) => LiveOf(b) \subseteq stale

(* A guest of a stay never has two live cards, unless one was issued on an *)
(* outdated look at the others: the check and the insert are two awaits,   *)
(* and a retried or re-issued card goes through both.                      *)
OneLiveCardPerGuest ==
  \A b \in Bookings, g \in Guests :
    \A c1, c2 \in LiveFor(b, g) \ stale : c1 = c2

(* The cards of a guest in the house follow the guest: after a room move   *)
(* no card issued in the house still belongs to the old room, except while *)
(* the move is replacing it.                                               *)
CardsFollowGuest ==
  \A c \in Cards :
    /\ card[c].status = "ACTIVE"
    /\ card[c].inHouse
    /\ Sound(c)
    /\ rsv[card[c].b].status = "CHECKED_IN"
    => \/ card[c].room = rsv[card[c].b].room
       \/ \E d \in Desks : /\ req[d].op = "move"
                           /\ \/ c \in req[d].todo
                              \/ req[d].c = c /\ req[d].at \in {"lock", "write"}
=============================================================================
