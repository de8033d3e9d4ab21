--------------------------- MODULE TurnoverProofs ---------------------------
(***************************************************************************)
(* Turnover's invariants, for any number of rooms, stays, tasks,           *)
(* housekeepers and scans.                                                 *)
(***************************************************************************)
EXTENDS Turnover, TLAPS

(* A call works on a task that exists, in that task's room.                *)
CallsKnowTheirRoom ==
  \A k \in Keepers :
    call[k] # Idle => Exists(call[k].task) /\ task[call[k].task].room = call[k].room

Looking(r) == \E k \in Keepers : /\ call[k] # Idle
                                 /\ call[k].room = r
                                 /\ call[k].look # "done"

(* Stronger than DirtyRoomHasWork: the open task is one nobody is closing, *)
(* for a task that is being closed may be gone after the next step.        *)
Forgotten == neglected \cup byHand

Minded(r) == \/ r \in Forgotten
             \/ OpenIn(r) \ Closing # {}
             \/ Looking(r)

DirtyIsMinded == \A r \in Rooms : room[r] = "DIRTY" => Minded(r)

(* While scans run one at a time, the stay a scan is about to ask for has  *)
(* no open task in the room at hand.                                       *)
Alone == \A v, w \in Scanners : scan[v] # NoScan /\ scan[w] # NoScan => v = w
LooksBefore ==
  \A w \in Scanners, g \in Stays, r \in Rooms :
    scan[w].about = <<g, r>> => PrepOpen(g, r) = {}
NoTwins == \A g \in Stays, r \in Rooms : \A t, u \in PrepOpen(g, r) : t = u

Unique == ~ disturbed => Alone /\ LooksBefore /\ NoTwins

(* The scans know a stay that did not move, and its tasks name it, in the  *)
(* room it checked into.                                                   *)
HasRoom(g, r) == g \in moved \/ (stay[g].status # "CONFIRMED" /\ stay[g].room = r)

Followed ==
  /\ \A t \in Tasks, g \in Stays :
       Exists(t) /\ task[t].about = g => HasRoom(g, task[t].room)
  /\ \A w \in Scanners, g \in Stays, r \in Rooms :
       <<g, r>> \in scan[w].todo \/ scan[w].about = <<g, r>> => HasRoom(g, r)

Inv == TypeOK /\ CallsKnowTheirRoom /\ DirtyIsMinded /\ Unique /\ Followed

-----------------------------------------------------------------------------
(* A call that is under way has the shape markDone() gives it.             *)
LEMMA CallType ==
  ASSUME TypeOK, NEW k \in Keepers, call[k] # Idle
  PROVE  /\ call[k] \in Call
         /\ call[k].task \in Tasks /\ call[k].room \in Rooms
BY DEF TypeOK, Call

LEMMA NoStayIsNoDue ==
  ASSUME NEW g \in Stays, NEW r \in Rooms
  PROVE  NoStay # <<g, r>>
BY TurnoverAssumption DEF Due

LEMMA TaskType ==
  ASSUME TypeOK, NEW t \in Tasks, Exists(t)
  PROVE  task[t] \in TaskRow /\ task[t].room \in Rooms
BY DEF TypeOK, TaskRow, Exists

(* A task that is not there yet is closed by nobody.                       *)
LEMMA NewIsFree ==
  ASSUME TypeOK, CallsKnowTheirRoom, NEW t \in Tasks, ~ Exists(t)
  PROVE  t \notin Closing
<1>1. ASSUME NEW k \in Keepers PROVE call[k].task # t
  BY CallType, TurnoverAssumption DEF CallsKnowTheirRoom, Idle
<1> QED BY <1>1 DEF Closing

(* Answering leaves the other calls alone and opens no new one.            *)
LEMMA AnswerIs ==
  ASSUME TypeOK, NEW k \in Keepers, call[k] # Idle,
         NEW c \in Call, Answer(k, c), c.task = call[k].task, c.room = call[k].room
  PROVE  /\ call' \in [Keepers -> Call \cup {Idle}]
         /\ call'[k] = c \/ (call'[k] = Idle /\ c.look = "done")
         /\ \A j \in Keepers : j # k => call'[j] = call[j]
         /\ Closing' \ {NoTask} \subseteq Closing
<1>1. call' = [call EXCEPT ![k] = IF c.closed /\ c.look = "done" THEN Idle ELSE c]
  BY DEF Answer
<1>2. /\ call' \in [Keepers -> Call \cup {Idle}]
      /\ call'[k] = c \/ (call'[k] = Idle /\ c.look = "done")
      /\ \A j \in Keepers : j # k => call'[j] = call[j]
  BY <1>1 DEF TypeOK
<1>3. ASSUME NEW j \in Keepers PROVE call'[j].task \in Closing \cup {NoTask}
  BY <1>2 DEF Closing, Idle
<1> QED BY <1>2, <1>3 DEF Closing

-----------------------------------------------------------------------------
LEMMA InitInv == Init => Inv
<1> SUFFICES ASSUME Init PROVE Inv
  OBVIOUS
<1>1. TypeOK
  BY DEF Init, TypeOK, RoomStatus, StayRow, Scan, NoScan
<1>2. CallsKnowTheirRoom /\ DirtyIsMinded
  BY DEF Init, CallsKnowTheirRoom, DirtyIsMinded
<1>3. Unique
  BY TurnoverAssumption
     DEF Init, Unique, Alone, LooksBefore, NoTwins, PrepOpen, OpenIn, Exists, NoScan, Due
<1>4. Followed
  BY TurnoverAssumption DEF Init, Followed, Exists, NoScan, Due
<1> QED BY <1>1, <1>2, <1>3, <1>4 DEF Inv

-----------------------------------------------------------------------------
LEMMA StepTypes ==
  ASSUME TypeOK, CallsKnowTheirRoom, Next
  PROVE  TypeOK'
<1>1. ASSUME NEW g \in Stays, Desk(g) PROVE TypeOK'
  <2>1. ASSUME NEW r \in Rooms, Move(g, r) PROVE TypeOK'
    BY <2>1 DEF Move, NeglectIf, TypeOK, StayRow, RoomStatus
  <2> QED BY <1>1, <2>1 DEF Desk, CheckIn, CheckOut, NeglectIf, past, TypeOK, StayRow, RoomStatus
<1>2. ASSUME NEW r \in Rooms, NEW status \in RoomStatus, SetRoom(r, status) PROVE TypeOK'
  BY <1>2 DEF SetRoom, NeglectIf, TypeOK
<1>3. ASSUME NEW t \in Tasks, NEW r \in Rooms, Create(t, r) PROVE TypeOK'
  BY <1>3 DEF Create, Add, Remember, TypeOK, TaskRow, TaskStatus
<1>4. ASSUME NEW ts \in SUBSET Tasks, NEW put \in [ts -> Rooms], BulkCreate(ts, put)
      PROVE  TypeOK'
  <2>1. task' \in [Tasks -> TaskRow \cup {NoTask}]
    <3>1. ASSUME NEW t \in Tasks
          PROVE  (IF t \in ts
                  THEN [room |-> put[t], status |-> "PENDING", about |-> NoStay]
                  ELSE task[t]) \in TaskRow \cup {NoTask}
      BY DEF TypeOK, TaskRow, TaskStatus
    <3> QED BY <1>4, <3>1 DEF BulkCreate
  <2>2. neglected' \subseteq Rooms /\ byHand' \subseteq Rooms
    BY <1>4 DEF BulkCreate, Remember, TypeOK
  <2> QED BY <1>4, <2>1, <2>2 DEF BulkCreate, TypeOK
<1>5. ASSUME NEW t \in Tasks, NEW status \in TaskStatus, Update(t, status) PROVE TypeOK'
  <2>1. task[t] \in TaskRow /\ task[t].room \in Rooms
    BY <1>5, TaskType DEF Update
  <2>2. task' \in [Tasks -> TaskRow \cup {NoTask}]
    BY <1>5, <2>1 DEF Update, TypeOK, TaskRow
  <2>3. neglected' \subseteq Rooms /\ byHand' \subseteq Rooms
    BY <1>5, <2>1 DEF Update, Remember, TypeOK
  <2>4. disturbed' \in BOOLEAN
    BY <1>5, ZenonT(20) DEF Update, TypeOK
  <2> QED BY <1>5, <2>2, <2>3, <2>4 DEF Update, TypeOK
<1>6. ASSUME NEW k \in Keepers, Keep(k) PROVE TypeOK'
  <2>1. ASSUME NEW t \in Tasks, MarkDone(k, t) PROVE TypeOK'
    <3>1. task[t].room \in Rooms
      BY <2>1, TaskType DEF MarkDone
    <3> QED BY <2>1, <3>1 DEF MarkDone, hotel, past, TypeOK, Call
  <2>2. CASE CloseTask(k)
    <3>1. call[k] \in Call /\ call[k].task \in Tasks
      BY <2>2, CallType DEF CloseTask
    <3>2. task[call[k].task] \in TaskRow
      BY <2>2, <3>1, TaskType DEF CloseTask, CallsKnowTheirRoom
    <3>3. task' \in [Tasks -> TaskRow \cup {NoTask}]
      BY <2>2, <3>1, <3>2 DEF CloseTask, TypeOK, TaskRow, TaskStatus
    <3>4. call' \in [Keepers -> Call \cup {Idle}]
      BY <2>2, <3>1 DEF CloseTask, Answer, TypeOK, Call
    <3> QED BY <2>2, <3>3, <3>4 DEF CloseTask, past, TypeOK
  <2>3. CASE Count(k)
    <3>1. call[k] \in Call /\ call[k].room \in Rooms
      BY <2>3, CallType DEF Count
    <3>2. call' \in [Keepers -> Call \cup {Idle}]
      BY <2>3, <3>1 DEF Count, Answer, TypeOK, Call
    <3> QED BY <2>3, <3>1, <3>2 DEF Count, NeglectIf, hotel, past, TypeOK
  <2>4. CASE Release(k)
    <3>1. call[k] \in Call /\ call[k].room \in Rooms
      BY <2>4, CallType DEF Release
    <3>2. call' \in [Keepers -> Call \cup {Idle}]
      BY <2>4, <3>1 DEF Release, Answer, TypeOK, Call
    <3> QED BY <2>4, <3>1, <3>2 DEF Release, past, TypeOK, RoomStatus
  <2>5. CASE CallDies(k)
    BY <2>5, CallType DEF CallDies, hotel, past, TypeOK
  <2> QED BY <1>6, <2>1, <2>2, <2>3, <2>4, <2>5 DEF Keep
<1>7. ASSUME NEW w \in Scanners, CheckoutScan(w) PROVE TypeOK'
  <2>1. ASSUME NEW due \in SUBSET Stays, ScanBegins(w, due) PROVE TypeOK'
    <3>1. disturbed' \in BOOLEAN
      BY <2>1, ZenonT(20) DEF ScanBegins, TypeOK
    <3>2. {<<g, stay[g].room>> : g \in due} \subseteq Due
      BY DEF TypeOK, StayRow, Due
    <3> QED BY <2>1, <3>1, <3>2 DEF ScanBegins, hotel, past, TypeOK, Scan
  <2>2. ASSUME NEW d \in scan[w].todo, Find(w, d) PROVE TypeOK'
    BY <2>2 DEF Find, hotel, past, TypeOK, Scan
  <2>3. ASSUME NEW t \in Tasks, Ensure(w, t) PROVE TypeOK'
    <3>1. PICK g \in Stays, r \in Rooms : Add(t, r, g) /\ scan[w] \in Scan
      BY <2>3 DEF Ensure, TypeOK, Scan, Due
    <3>3. /\ task' \in [Tasks -> TaskRow \cup {NoTask}]
          /\ neglected' \subseteq Rooms /\ byHand' \subseteq Rooms
      BY <2>3, <3>1 DEF Add, Remember, TypeOK, TaskRow, TaskStatus
    <3>4. scan' \in [Scanners -> Scan]
      BY <2>3, <3>1 DEF Ensure, TypeOK, Scan
    <3> QED BY <2>3, <3>3, <3>4 DEF Ensure, TypeOK
  <2>4. CASE ScanFails(w)
    BY <2>4 DEF ScanFails, hotel, past, TypeOK, Scan, NoScan
  <2> QED BY <1>7, <2>1, <2>2, <2>3, <2>4 DEF CheckoutScan
<1> QED BY <1>1, <1>2, <1>3, <1>4, <1>5, <1>6, <1>7 DEF Next

(* No step moves a task to another room or takes its row away.             *)
LEMMA TasksStay ==
  ASSUME TypeOK, CallsKnowTheirRoom, Next, NEW t \in Tasks, Exists(t)
  PROVE  Exists(t)' /\ task'[t].room = task[t].room /\ task'[t].about = task[t].about
<1>1. task[t] \in TaskRow /\ task \in [Tasks -> TaskRow \cup {NoTask}]
  BY TaskType DEF TypeOK
<1>2. CASE UNCHANGED task
  BY <1>2 DEF Exists
<1>3. ASSUME NEW u \in Tasks, NEW r \in Rooms, NEW g \in Stays \cup {NoStay}, Add(u, r, g)
      PROVE  Exists(t)' /\ task'[t] = task[t]
  BY <1>1, <1>3 DEF Add, Exists
<1>4. ASSUME NEW ts \in SUBSET Tasks, NEW put \in [ts -> Rooms], BulkCreate(ts, put)
      PROVE  Exists(t)' /\ task'[t] = task[t]
  BY <1>1, <1>4 DEF BulkCreate, Exists
<1>5. ASSUME NEW u \in Tasks, NEW status \in TaskStatus,
             task' = [task EXCEPT ![u].status = status]
      PROVE  /\ Exists(t)'
             /\ task'[t].room = task[t].room /\ task'[t].about = task[t].about
  <2>1. task'[t] \in TaskRow
    BY <1>1, <1>5 DEF TaskRow
  <2> QED BY <1>1, <1>5, <2>1, TurnoverAssumption DEF TaskRow, Exists
<1>6. ASSUME NEW k \in Keepers, CloseTask(k)
      PROVE  \E u \in Tasks : task' = [task EXCEPT ![u].status = "DONE"]
  BY <1>6, CallType DEF CloseTask
<1>7. ASSUME NEW w \in Scanners, NEW u \in Tasks, Ensure(w, u)
      PROVE  \E g \in Stays, r \in Rooms : Add(u, r, g)
  BY <1>7 DEF Ensure, TypeOK, Scan, Due
<1>8. ASSUME NEW k \in Keepers, Keep(k)
      PROVE  UNCHANGED task \/ CloseTask(k)
  BY <1>8 DEF Keep, MarkDone, Count, Release, CallDies, hotel
<1>9. ASSUME NEW w \in Scanners, CheckoutScan(w)
      PROVE  UNCHANGED task \/ \E u \in Tasks : Ensure(w, u)
  BY <1>9 DEF CheckoutScan, ScanBegins, Find, ScanFails, hotel
<1>10. ASSUME NEW u \in Tasks, NEW r \in Rooms, Create(u, r)
       PROVE  Add(u, r, NoStay)
  BY <1>10 DEF Create
<1>11. ASSUME NEW u \in Tasks, NEW status \in TaskStatus, Update(u, status)
       PROVE  task' = [task EXCEPT ![u].status = status]
  BY <1>11 DEF Update
<1>12. \/ UNCHANGED task
       \/ \E u \in Tasks, r \in Rooms, g \in Stays \cup {NoStay} : Add(u, r, g)
       \/ \E ts \in SUBSET Tasks : \E put \in [ts -> Rooms] : BulkCreate(ts, put)
       \/ \E u \in Tasks, status \in TaskStatus : task' = [task EXCEPT ![u].status = status]
  <2>1. CASE \E g \in Stays : Desk(g)
    BY <2>1 DEF Desk, CheckIn, Move, CheckOut
  <2>2. CASE \E r \in Rooms, status \in RoomStatus : SetRoom(r, status)
    BY <2>2 DEF SetRoom
  <2>3. CASE \E k \in Keepers : Keep(k)
    BY <2>3, <1>6, <1>8 DEF TaskStatus
  <2> QED BY <2>1, <2>2, <2>3, <1>7, <1>9, <1>10, <1>11 DEF Next
<1> QED BY <1>2, <1>3, <1>4, <1>5, <1>12

-----------------------------------------------------------------------------
LEMMA StepCalls ==
  ASSUME TypeOK, CallsKnowTheirRoom, Next
  PROVE  CallsKnowTheirRoom'
<1> DEFINE Knows(k) == Exists(call[k].task) /\ task[call[k].task].room = call[k].room
<1>1. ASSUME NEW k \in Keepers, call'[k] = call[k], call[k] # Idle
      PROVE  Knows(k)'
  <2>1. PICK t \in Tasks : t = call[k].task /\ Exists(t) /\ task[t].room = call[k].room
    BY <1>1, CallType DEF CallsKnowTheirRoom
  <2>2. Exists(t)' /\ task'[t].room = task[t].room
    BY <2>1, TasksStay
  <2> QED BY <1>1, <2>1, <2>2 DEF Exists
<1>2. ASSUME NEW k \in Keepers, NEW j \in Keepers, Keep(k), call'[j] # Idle
      PROVE  Knows(j)'
  <2>1. CASE j # k
    <3>1. call'[j] = call[j]
      BY <1>2, <2>1 DEF Keep, MarkDone, CloseTask, Count, Release, CallDies, Answer, TypeOK
    <3> QED BY <1>1, <1>2, <3>1
  <2>2. ASSUME j = k, NEW t \in Tasks, MarkDone(k, t) PROVE Knows(j)'
    BY <2>2 DEF MarkDone, hotel, past, TypeOK, Exists
  <2>3. CASE j = k /\ (CloseTask(k) \/ Count(k) \/ Release(k))
    <3>1. /\ call[k] # Idle
          /\ call'[k].task = call[k].task /\ call'[k].room = call[k].room
      BY <1>2, <2>3 DEF CloseTask, Count, Release, Answer, TypeOK, Call
    <3>2. PICK t \in Tasks : t = call[k].task /\ Exists(t) /\ task[t].room = call[k].room
      BY <3>1, CallType DEF CallsKnowTheirRoom
    <3>3. Exists(t)' /\ task'[t].room = task[t].room
      BY <3>2, TasksStay
    <3> QED BY <2>3, <3>1, <3>2, <3>3 DEF Exists
  <2>4. CASE j = k /\ CallDies(k)
    BY <1>2, <2>4 DEF CallDies, TypeOK
  <2> QED BY <1>2, <2>1, <2>2, <2>3, <2>4 DEF Keep
<1>3. UNCHANGED call \/ \E k \in Keepers : Keep(k)
  BY DEF Next, Desk, CheckIn, Move, CheckOut, SetRoom, Create, BulkCreate, Update,
         CheckoutScan, ScanBegins, Find, Ensure, ScanFails
<1> QED BY <1>1, <1>2, <1>3 DEF CallsKnowTheirRoom

-----------------------------------------------------------------------------
(* What keeps room r minded: nobody stops looking at it, and a task of it  *)
(* that is open and not being closed stays so.                             *)
LEMMA StaysMinded ==
  ASSUME TypeOK, CallsKnowTheirRoom, Next, NEW r \in Rooms, Minded(r),
         Forgotten \subseteq Forgotten' \/ r \notin Forgotten,
         UNCHANGED call,
         \A t \in OpenIn(r) \ Closing : task'[t].status \in Open
  PROVE  Minded(r)'
<1>1. CASE r \in Forgotten
  BY <1>1 DEF Minded
<1>2. ASSUME NEW t \in OpenIn(r) \ Closing PROVE t \in (OpenIn(r) \ Closing)'
  BY TasksStay DEF OpenIn, Closing
<1>3. Looking(r) => Looking(r)'
  BY DEF Looking
<1> QED BY <1>1, <1>2, <1>3 DEF Minded

(* A new task of a room minds it, for nobody can be closing it yet.        *)
LEMMA AddMinds ==
  ASSUME TypeOK, CallsKnowTheirRoom, UNCHANGED call, NEW t \in Tasks, NEW r \in Rooms,
         ~ Exists(t), task' \in [Tasks -> TaskRow \cup {NoTask}],
         Exists(t)', task'[t].room = r, task'[t].status = "PENDING"
  PROVE  Minded(r)'
BY NewIsFree DEF Minded, OpenIn, Open, Closing

(* Closing a task leaves its room to whoever was counting or had counted.  *)
LEMMA CloseMinds ==
  ASSUME TypeOK, CallsKnowTheirRoom, Next, NEW k \in Keepers, CloseTask(k),
         NEW r \in Rooms, Minded(r)
  PROVE  Minded(r)'
<1>1. /\ call[k] \in Call /\ call[k].task \in Tasks /\ call[k].task \in Closing
      /\ call[k] # Idle
      /\ Answer(k, [call[k] EXCEPT !.closed = TRUE])
      /\ task' = [task EXCEPT ![call[k].task].status = "DONE"]
      /\ UNCHANGED Forgotten
  BY CallType DEF CloseTask, Closing, Forgotten, past
<1> DEFINE c == [call[k] EXCEPT !.closed = TRUE]
<1>2. c \in Call /\ c.task = call[k].task /\ c.room = call[k].room /\ c.look = call[k].look
  BY <1>1 DEF Call
<1> HIDE DEF c
<1>3. /\ call'[k] = c \/ (call'[k] = Idle /\ c.look = "done")
      /\ \A j \in Keepers : j # k => call'[j] = call[j]
      /\ Closing' \ {NoTask} \subseteq Closing
  BY <1>1, <1>2, AnswerIs DEF c
<1>4. CASE r \in Forgotten
  BY <1>1, <1>4 DEF Minded
<1>5. ASSUME NEW t \in OpenIn(r) \ Closing PROVE t \in (OpenIn(r) \ Closing)'
  <2>1. task'[t] = task[t]
    BY <1>1, <1>5 DEF TypeOK, OpenIn
  <2> QED BY <1>3, <1>5, <2>1, TasksStay, TurnoverAssumption DEF OpenIn, Exists
<1>6. CASE Looking(r)
  <2>1. PICK j \in Keepers : call[j] # Idle /\ call[j].room = r /\ call[j].look # "done"
    BY <1>6 DEF Looking
  <2>2. call'[j] # Idle /\ call'[j].room = r /\ call'[j].look # "done"
    BY <1>2, <1>3, <2>1 DEF Call, Idle
  <2> QED BY <2>2 DEF Minded, Looking
<1> QED BY <1>4, <1>5, <1>6 DEF Minded

(* Counting passes the room on to the release, or to a task that nobody is *)
(* closing.                                                                *)
LEMMA CountMinds ==
  ASSUME TypeOK, CallsKnowTheirRoom, Next, NEW k \in Keepers, Count(k),
         NEW r \in Rooms, Minded(r)
  PROVE  Minded(r)'
<1> DEFINE others == OpenIn(call[k].room) \ {call[k].task}
           c == [call[k] EXCEPT !.look = IF others = {} THEN "release" ELSE "done"]
<1>1. /\ call[k] \in Call /\ call[k].task \in Closing /\ call[k] # Idle
      /\ call[k].room \in Rooms
      /\ Answer(k, c)
      /\ NeglectIf(call[k].room, others \cap Closing # {})
      /\ UNCHANGED <<task, byHand>>
  BY CallType DEF Count, Closing, hotel
<1>2. /\ c \in Call /\ c.task = call[k].task /\ c.room = call[k].room
      /\ c.look = IF others = {} THEN "release" ELSE "done"
  BY <1>1 DEF Call
<1> HIDE DEF c
<1>3. /\ call'[k] = c \/ (call'[k] = Idle /\ c.look = "done")
      /\ \A j \in Keepers : j # k => call'[j] = call[j]
      /\ Closing' \ {NoTask} \subseteq Closing
  BY <1>1, <1>2, AnswerIs
<1>4. /\ Forgotten \subseteq Forgotten'
      /\ others \cap Closing # {} => call[k].room \in Forgotten'
  BY <1>1 DEF NeglectIf, Forgotten
<1>5. CASE r \in Forgotten
  BY <1>4, <1>5 DEF Minded
<1>6. ASSUME NEW t \in OpenIn(r) \ Closing PROVE Minded(r)'
  BY <1>1, <1>3, <1>6, TurnoverAssumption DEF Minded, OpenIn, Exists
<1>7. CASE Looking(r) /\ r # call[k].room
  BY <1>3, <1>7 DEF Looking, Minded
<1>8. CASE r = call[k].room /\ others = {}
  <2>1. call'[k] # Idle /\ call'[k].room = r /\ call'[k].look # "done"
    BY <1>2, <1>3, <1>8 DEF Call, Idle
  <2> QED BY <2>1 DEF Minded, Looking
<1>9. CASE r = call[k].room /\ others # {}
  BY <1>4, <1>6, <1>9 DEF Minded
<1> QED BY <1>5, <1>6, <1>7, <1>8, <1>9 DEF Minded

(* The calls' other steps: a task of one's own to close, a room that is    *)
(* released, a call that dies.                                             *)
LEMMA KeepMinds ==
  ASSUME TypeOK, CallsKnowTheirRoom, DirtyIsMinded, Next, NEW k \in Keepers, Keep(k)
  PROVE  DirtyIsMinded'
<1> SUFFICES ASSUME NEW r \in Rooms, room'[r] = "DIRTY" PROVE Minded(r)'
  BY DEF DirtyIsMinded
<1>1. room[r] = "DIRTY" /\ (Release(k) => r # call[k].room)
  BY CallType DEF Keep, MarkDone, CloseTask, Count, Release, CallDies, hotel, past, TypeOK
<1>2. Minded(r)
  BY <1>1 DEF DirtyIsMinded
<1>3. ASSUME NEW t \in Tasks, MarkDone(k, t) PROVE Minded(r)'
  <2>1. /\ call' = [call EXCEPT ![k] = [task |-> t, room |-> task[t].room,
                                        closed |-> FALSE, look |-> "count"]]
        /\ call[k] = Idle
        /\ UNCHANGED <<task, Forgotten>>
    BY <1>3 DEF MarkDone, hotel, past, Forgotten
  <2>2. call'[k] # Idle /\ call'[k].room = task[t].room /\ call'[k].look # "done"
    BY <2>1 DEF TypeOK, Idle
  <2>3. CASE task[t].room = r
    BY <2>2, <2>3 DEF Minded, Looking
  <2>4. ASSUME task[t].room # r, NEW u \in OpenIn(r) \ Closing PROVE Minded(r)'
    <3>1. u # t
      BY <2>4 DEF OpenIn
    <3>2. u \notin Closing'
      BY <2>1, <2>4, <3>1 DEF Closing, TypeOK
    <3>3. u \in OpenIn(r)'
      BY <2>1, <2>4 DEF OpenIn, Exists
    <3> QED BY <3>2, <3>3 DEF Minded
  <2>5. Looking(r) => Looking(r)'
    BY <2>1 DEF Looking, TypeOK
  <2> QED BY <1>2, <2>1, <2>3, <2>4, <2>5 DEF Minded
<1>4. CASE Release(k)
  <2>1. call[k] \in Call /\ call[k] # Idle /\ UNCHANGED <<task, Forgotten>>
    BY <1>4, CallType DEF Release, past, Forgotten
  <2> DEFINE c == [call[k] EXCEPT !.look = "done"]
  <2>2. c \in Call /\ c.task = call[k].task /\ c.room = call[k].room /\ Answer(k, c)
    BY <1>4, <2>1 DEF Call, Release
  <2> HIDE DEF c
  <2>3. /\ \A j \in Keepers : j # k => call'[j] = call[j]
        /\ Closing' \ {NoTask} \subseteq Closing
    BY <2>1, <2>2, AnswerIs
  <2>4. ASSUME NEW t \in OpenIn(r) \ Closing PROVE Minded(r)'
    BY <2>1, <2>3, <2>4, TurnoverAssumption DEF Minded, OpenIn, Exists
  <2>5. Looking(r) => Looking(r)'
    BY <1>1, <1>4, <2>3 DEF Looking
  <2> QED BY <1>2, <2>1, <2>4, <2>5 DEF Minded
<1>5. CASE CallDies(k)
  <2>1. /\ call' = [call EXCEPT ![k] = Idle] /\ UNCHANGED task
        /\ Forgotten' = Forgotten \cup {call[k].room}
    BY <1>5 DEF CallDies, hotel, Forgotten
  <2>2. \A t \in Tasks : t \in Closing' => t \in Closing
    BY <2>1, TurnoverAssumption DEF Closing, Idle, TypeOK
  <2>3. ASSUME NEW t \in OpenIn(r) \ Closing PROVE Minded(r)'
    BY <2>1, <2>2, <2>3 DEF Minded, OpenIn, Exists
  <2>4. Looking(r) => Minded(r)'
    BY <2>1 DEF Looking, Minded, TypeOK
  <2> QED BY <1>2, <2>1, <2>3, <2>4 DEF Minded
<1> QED BY <1>2, <1>3, <1>4, <1>5, CloseMinds, CountMinds DEF Keep

(* What the desk, the rooms' page and changes by hand leave unminded is    *)
(* recorded as forgotten.                                                  *)
LEMMA HandMinds ==
  ASSUME TypeOK, CallsKnowTheirRoom, DirtyIsMinded, Next,
         UNCHANGED call,
         \/ \E g \in Stays : Desk(g)
         \/ \E r \in Rooms, status \in RoomStatus : SetRoom(r, status)
         \/ \E t \in Tasks, status \in TaskStatus : Update(t, status)
  PROVE  DirtyIsMinded'
<1> SUFFICES ASSUME NEW r \in Rooms, room'[r] = "DIRTY" PROVE Minded(r)'
  BY DEF DirtyIsMinded
<1>1. ASSUME NEW q \in Rooms, NeglectIf(q, Unminded(q, {})), UNCHANGED <<task, byHand>>,
             r # q => room[r] = "DIRTY"
      PROVE  Minded(r)'
  <2>1. Forgotten \subseteq Forgotten'
    BY <1>1 DEF NeglectIf, Forgotten
  <2>2. CASE Minded(r)
    BY <1>1, <2>1, <2>2, StaysMinded DEF OpenIn
  <2>3. CASE r = q /\ ~ Minded(r)
    <3>1. OpenIn(r) \subseteq Closing
      BY <2>3 DEF Minded
    <3>2. r \in Forgotten'
      BY <1>1, <2>3, <3>1 DEF NeglectIf, Unminded, Forgotten
    <3> QED BY <3>2 DEF Minded
  <2> QED BY <1>1, <2>2, <2>3 DEF DirtyIsMinded
<1>2. ASSUME NEW g \in Stays, Desk(g) PROVE Minded(r)'
  <2>1. stay[g].room \in Rooms /\ UNCHANGED task
    BY <1>2 DEF TypeOK, StayRow, Desk, CheckIn, Move, CheckOut
  <2>2. CASE CheckIn(g)
    <3>1. room[r] = "DIRTY" /\ UNCHANGED Forgotten
      BY <2>1, <2>2 DEF CheckIn, TypeOK, past, Forgotten
    <3> QED BY <2>1, <3>1, StaysMinded DEF DirtyIsMinded, OpenIn
  <2>3. CASE CheckOut(g)
    <3>1. r # stay[g].room => room[r] = "DIRTY"
      BY <2>1, <2>3 DEF CheckOut, TypeOK
    <3>2. NeglectIf(stay[g].room, Unminded(stay[g].room, {}))
      BY <2>3 DEF CheckOut
    <3>3. UNCHANGED byHand
      BY <2>3 DEF CheckOut
    <3> QED BY <1>1, <2>1, <3>1, <3>2, <3>3
  <2>4. ASSUME NEW q \in Rooms, Move(g, q) PROVE Minded(r)'
    <3> DEFINE from == stay[g].room
    <3>1. /\ q # from /\ room[q] # "MAINTENANCE" /\ UNCHANGED byHand
          /\ room' = [room EXCEPT ![from] = IF stay[g].status = "CHECKED_IN"
                                            THEN "DIRTY" ELSE "AVAILABLE",
                                  ![q] = IF stay[g].status = "CHECKED_IN"
                                         THEN "OCCUPIED" ELSE "RESERVED"]
          /\ NeglectIf(from, stay[g].status = "CHECKED_IN" /\ Unminded(from, {}))
      BY <2>4 DEF Move
    <3>2. r # q /\ (r # from => room[r] = "DIRTY")
          /\ (r = from => stay[g].status = "CHECKED_IN")
      BY <2>1, <3>1 DEF TypeOK
    <3>3. CASE stay[g].status = "CHECKED_IN"
      <4>1. NeglectIf(from, Unminded(from, {}))
        BY <3>1, <3>3 DEF NeglectIf
      <4> QED BY <1>1, <2>1, <3>1, <3>2, <4>1
    <3>4. CASE stay[g].status # "CHECKED_IN"
      <4>1. room[r] = "DIRTY" /\ UNCHANGED Forgotten
        BY <3>1, <3>2, <3>4 DEF NeglectIf, Forgotten
      <4> QED BY <2>1, <4>1, StaysMinded DEF DirtyIsMinded, OpenIn
    <3> QED BY <3>3, <3>4
  <2> QED BY <1>2, <2>2, <2>3, <2>4 DEF Desk
<1>3. ASSUME NEW q \in Rooms, NEW status \in RoomStatus, SetRoom(q, status)
      PROVE  Minded(r)'
  BY <1>1, <1>3 DEF SetRoom, TypeOK
<1>4. ASSUME NEW t \in Tasks, NEW status \in TaskStatus, Update(t, status)
      PROVE  Minded(r)'
  <2>1. /\ task[t] \in TaskRow /\ Exists(t) /\ room[r] = "DIRTY"
        /\ task' = [task EXCEPT ![t].status = status]
    BY <1>4, TaskType DEF Update
  <2>2. task'[t].status = status /\ \A u \in Tasks : u # t => task'[u] = task[u]
    BY <2>1 DEF TypeOK, TaskRow
  <2>3. Minded(r)
    BY <2>1 DEF DirtyIsMinded
  <2>4. CASE status \in Open
    <3>1. Forgotten' = Forgotten \ {task[u].room : u \in {t} \ Closing}
      BY <1>4, <2>4 DEF Update, Remember, Forgotten
    <3>2. CASE r \in Forgotten /\ r \notin Forgotten'
      <4>1. task[t].room = r /\ t \notin Closing
        BY <3>1, <3>2
      <4>2. t \in (OpenIn(r) \ Closing)'
        BY <2>1, <2>2, <2>4, <4>1, TasksStay DEF OpenIn, Closing
      <4> QED BY <4>2 DEF Minded
    <3>3. CASE r \notin Forgotten
      BY <2>2, <2>3, <2>4, <3>3, StaysMinded DEF OpenIn
    <3> QED BY <3>2, <3>3 DEF Minded
  <2>5. CASE status \notin Open
    <3>1. /\ Forgotten \subseteq Forgotten'
          /\ Unminded(task[t].room, {t}) => task[t].room \in Forgotten'
      BY <1>4, <2>5 DEF Update, Forgotten
    <3>3. CASE t \notin OpenIn(r) \ Closing \/ Looking(r) \/ r \in Forgotten
      <4>1. Looking(r) => Looking(r)'
        BY DEF Looking
      <4>2. ASSUME NEW u \in OpenIn(r) \ Closing, u # t PROVE u \in (OpenIn(r) \ Closing)'
        BY <2>2, <4>2 DEF OpenIn, Closing, Exists
      <4> QED BY <2>3, <3>1, <3>3, <4>1, <4>2 DEF Minded
    <3>4. ASSUME t \in OpenIn(r) \ Closing,
                 NEW u \in OpenIn(r) \ Closing, u # t
          PROVE  Minded(r)'
      <4>1. u \in (OpenIn(r) \ Closing)'
        BY <2>2, <3>4 DEF OpenIn, Closing, Exists
      <4> QED BY <4>1 DEF Minded
    <3>5. CASE OpenIn(r) \ Closing = {t}
      <4>1. task[t].room = r /\ OpenIn(r) \ {t} \subseteq Closing
        BY <3>5 DEF OpenIn
      <4> QED BY <3>1, <4>1 DEF Unminded, Minded
    <3> QED BY <3>3, <3>4, <3>5
  <2> QED BY <2>4, <2>5
<1> QED BY <1>2, <1>3, <1>4

(* New tasks, by hand or by a scan, mind their room and no other's less.   *)
LEMMA NewMinds ==
  ASSUME TypeOK, CallsKnowTheirRoom, DirtyIsMinded, Next,
         UNCHANGED <<room, call>>,
         NEW ts \in SUBSET Tasks, NEW put \in [ts -> Rooms],
         \A t \in ts : ~ Exists(t),
         \A t \in ts : /\ Exists(t)'
                       /\ task'[t].room = put[t] /\ task'[t].status = "PENDING",
         \A t \in Tasks \ ts : task'[t] = task[t],
         Forgotten \ {put[t] : t \in ts} \subseteq Forgotten'
  PROVE  DirtyIsMinded'
<1> SUFFICES ASSUME NEW r \in Rooms, room'[r] = "DIRTY" PROVE Minded(r)'
  BY DEF DirtyIsMinded
<1>1. ASSUME NEW t \in ts, put[t] = r PROVE Minded(r)'
  <2>1. t \notin Closing /\ Closing' = Closing
    BY <1>1, NewIsFree DEF Closing
  <2>2. t \in (OpenIn(r) \ Closing)'
    BY <1>1, <2>1 DEF OpenIn, Open
  <2> QED BY <2>2 DEF Minded
<1>2. CASE r \in Forgotten /\ \A t \in ts : put[t] # r
  BY <1>2 DEF Minded
<1>3. CASE r \notin Forgotten
  <2>1. \A t \in OpenIn(r) \ Closing : task'[t].status \in Open
    BY DEF OpenIn
  <2> QED BY <1>3, <2>1, StaysMinded DEF DirtyIsMinded
<1> QED BY <1>1, <1>2, <1>3

LEMMA StepMinds ==
  ASSUME TypeOK, CallsKnowTheirRoom, DirtyIsMinded, Next
  PROVE  DirtyIsMinded'
<1>1. ASSUME NEW t \in Tasks, NEW r \in Rooms, NEW g \in Stays \cup {NoStay},
             Add(t, r, g), UNCHANGED <<room, call>>
      PROVE  DirtyIsMinded'
  <2> DEFINE put == [u \in {t} |-> r]
  <2>1. put \in [{t} -> Rooms] /\ put[t] = r /\ {put[u] : u \in {t}} = {r}
    OBVIOUS
  <2>2. /\ ~ Exists(t) /\ Exists(t)'
        /\ task'[t].room = r /\ task'[t].status = "PENDING"
        /\ \A u \in Tasks \ {t} : task'[u] = task[u]
        /\ Forgotten' = Forgotten \ {r}
    <3>1. [room |-> r, status |-> "PENDING", about |-> g] \in TaskRow
      BY DEF TaskRow, TaskStatus
    <3> QED BY <1>1, <3>1, TurnoverAssumption DEF Add, Exists, TypeOK, Remember, Forgotten
  <2> HIDE DEF put
  <2> QED BY <1>1, <2>1, <2>2, NewMinds
<1>2. ASSUME NEW t \in Tasks, NEW r \in Rooms, Create(t, r) PROVE DirtyIsMinded'
  BY <1>1, <1>2 DEF Create
<1>3. ASSUME NEW ts \in SUBSET Tasks, NEW put \in [ts -> Rooms], BulkCreate(ts, put)
      PROVE  DirtyIsMinded'
  <2>1. \A t \in ts : /\ Exists(t)'
                      /\ task'[t].room = put[t] /\ task'[t].status = "PENDING"
    <3>1. \A t \in ts : [room |-> put[t], status |-> "PENDING", about |-> NoStay] \in TaskRow
      BY DEF TaskRow, TaskStatus
    <3> QED BY <1>3, <3>1, TurnoverAssumption DEF BulkCreate, Exists
  <2>2. /\ \A t \in ts : ~ Exists(t)
        /\ \A t \in Tasks \ ts : task'[t] = task[t]
        /\ Forgotten' = Forgotten \ {put[t] : t \in ts}
        /\ UNCHANGED <<room, call>>
    BY <1>3 DEF BulkCreate, TypeOK, Remember, Forgotten
  <2> QED BY <2>1, <2>2, NewMinds
<1>4. ASSUME NEW w \in Scanners, CheckoutScan(w) PROVE DirtyIsMinded'
  <2>1. ASSUME NEW t \in Tasks, Ensure(w, t) PROVE DirtyIsMinded'
    <3>1. PICK g \in Stays, r \in Rooms : Add(t, r, g) /\ UNCHANGED <<room, call>>
      BY <2>1 DEF Ensure, TypeOK, Scan, Due
    <3> QED BY <1>1, <3>1
  <2>2. CASE UNCHANGED <<room, task, call, Forgotten>>
    BY <2>2 DEF DirtyIsMinded, Minded, OpenIn, Exists, Closing, Looking
  <2> QED BY <1>4, <2>1, <2>2 DEF CheckoutScan, ScanBegins, Find, ScanFails, hotel, past, Forgotten
<1>5. ASSUME NEW g \in Stays, Desk(g) PROVE DirtyIsMinded'
  BY <1>5, HandMinds DEF Desk, CheckIn, Move, CheckOut
<1>6. ASSUME NEW r \in Rooms, NEW status \in RoomStatus, SetRoom(r, status)
      PROVE  DirtyIsMinded'
  <2>1. UNCHANGED call
    BY <1>6 DEF SetRoom
  <2> QED BY <1>6, <2>1, HandMinds
<1>7. ASSUME NEW t \in Tasks, NEW status \in TaskStatus, Update(t, status)
      PROVE  DirtyIsMinded'
  <2>1. UNCHANGED call
    BY <1>7 DEF Update
  <2> QED BY <1>7, <2>1, HandMinds
<1> QED BY <1>2, <1>3, <1>4, <1>5, <1>6, <1>7, KeepMinds DEF Next

-----------------------------------------------------------------------------
(* A step that adds no task about a stay and opens none again leaves no    *)
(* more open tasks about a stay than there were.                           *)
LEMMA FewerOpen ==
  ASSUME TypeOK, CallsKnowTheirRoom, Next, NEW g \in Stays, NEW r \in Rooms,
         \A t \in Tasks : ~ Exists(t) /\ Exists(t)' => task'[t].about # g,
         \A t \in Tasks : Exists(t) /\ task'[t].status \in Open => task[t].status \in Open
  PROVE  PrepOpen(g, r)' \subseteq PrepOpen(g, r)
<1>1. ASSUME NEW t \in PrepOpen(g, r)' PROVE t \in PrepOpen(g, r)
  <2>1. t \in Tasks /\ Exists(t)' /\ task'[t].about = g /\ task'[t].status \in Open
        /\ task'[t].room = r
    BY <1>1 DEF PrepOpen, OpenIn
  <2>2. Exists(t) /\ task[t].status \in Open
    BY <2>1
  <2>3. task[t].about = g /\ task[t].room = r
    BY <2>1, <2>2, TasksStay
  <2> QED BY <2>1, <2>2, <2>3 DEF PrepOpen, OpenIn
<1> QED BY <1>1

(* What each kind of step adds and opens.                                  *)
LEMMA QuietSteps ==
  ASSUME TypeOK, CallsKnowTheirRoom, Next, ~ disturbed', NEW g \in Stays, NEW r \in Rooms,
         \A w \in Scanners, t \in Tasks : Ensure(w, t) => scan[w].about # <<g, r>>
  PROVE  PrepOpen(g, r)' \subseteq PrepOpen(g, r)
<1>1. ASSUME UNCHANGED task PROVE PrepOpen(g, r)' \subseteq PrepOpen(g, r)
  BY <1>1 DEF PrepOpen, OpenIn, Exists
<1>2. ASSUME NEW h \in Stays, Desk(h) PROVE PrepOpen(g, r)' \subseteq PrepOpen(g, r)
  BY <1>1, <1>2 DEF Desk, CheckIn, Move, CheckOut
<1>3. ASSUME NEW q \in Rooms, NEW status \in RoomStatus, SetRoom(q, status)
      PROVE  PrepOpen(g, r)' \subseteq PrepOpen(g, r)
  BY <1>1, <1>3 DEF SetRoom
<1>4. ASSUME NEW t \in Tasks, NEW q \in Rooms, NEW h \in Stays \cup {NoStay},
             Add(t, q, h), h # g \/ q # r
      PROVE  PrepOpen(g, r)' \subseteq PrepOpen(g, r)
  <2>1. /\ task'[t].about = h /\ task'[t].room = q
        /\ \A u \in Tasks : u # t => task'[u] = task[u]
    BY <1>4 DEF Add, TypeOK
  <2>2. t \notin PrepOpen(g, r)'
    BY <1>4, <2>1 DEF PrepOpen, OpenIn
  <2> QED BY <2>1, <2>2 DEF PrepOpen, OpenIn, Exists
<1>5. ASSUME NEW t \in Tasks, NEW q \in Rooms, Create(t, q)
      PROVE  PrepOpen(g, r)' \subseteq PrepOpen(g, r)
  BY <1>4, <1>5, TurnoverAssumption DEF Create
<1>6. ASSUME NEW ts \in SUBSET Tasks, NEW put \in [ts -> Rooms], BulkCreate(ts, put)
      PROVE  PrepOpen(g, r)' \subseteq PrepOpen(g, r)
  <2>1. \A t \in Tasks : IF t \in ts THEN ~ Exists(t) /\ task'[t].about = NoStay
                                     ELSE task'[t] = task[t]
    BY <1>6 DEF BulkCreate
  <2>2. \A t \in Tasks : ~ Exists(t) /\ Exists(t)' => task'[t].about # g
    BY <2>1, TurnoverAssumption DEF Exists
  <2>3. \A t \in Tasks : Exists(t) /\ task'[t].status \in Open => task[t].status \in Open
    BY <2>1
  <2> QED BY <2>2, <2>3, FewerOpen
<1>7. ASSUME NEW t \in Tasks, NEW status \in TaskStatus, Exists(t),
             task' = [task EXCEPT ![t].status = status],
             status \in Open => task[t].status \in Open
      PROVE  PrepOpen(g, r)' \subseteq PrepOpen(g, r)
  <2>1. task'[t].status = status /\ \A u \in Tasks : u # t => task'[u] = task[u]
    BY <1>7, TaskType DEF TypeOK, TaskRow
  <2>2. \A u \in Tasks : ~ (~ Exists(u) /\ Exists(u)')
    BY <1>7, <2>1 DEF Exists
  <2> QED BY <1>7, <2>1, <2>2, FewerOpen
<1>8. ASSUME NEW t \in Tasks, NEW status \in TaskStatus, Update(t, status)
      PROVE  PrepOpen(g, r)' \subseteq PrepOpen(g, r)
  BY <1>7, <1>8 DEF Update
<1>9. ASSUME NEW k \in Keepers, Keep(k)
      PROVE  PrepOpen(g, r)' \subseteq PrepOpen(g, r)
  <2>1. CASE CloseTask(k)
    <3>1. PICK t \in Tasks : t = call[k].task /\ Exists(t)
      BY <2>1, CallType DEF CloseTask, CallsKnowTheirRoom
    <3>2. task' = [task EXCEPT ![t].status = "DONE"]
      BY <2>1, <3>1 DEF CloseTask
    <3> QED BY <1>7, <3>1, <3>2 DEF TaskStatus, Open
  <2> QED BY <1>1, <1>9, <2>1 DEF Keep, MarkDone, Count, Release, CallDies, hotel
<1>10. ASSUME NEW w \in Scanners, CheckoutScan(w)
       PROVE  PrepOpen(g, r)' \subseteq PrepOpen(g, r)
  <2>1. ASSUME NEW t \in Tasks, Ensure(w, t) PROVE PrepOpen(g, r)' \subseteq PrepOpen(g, r)
    <3>1. PICK h \in Stays, q \in Rooms : scan[w].about = <<h, q>> /\ Add(t, q, h)
      BY <2>1 DEF Ensure, TypeOK, Scan, Due
    <3>2. h # g \/ q # r
      BY <2>1, <3>1
    <3> QED BY <1>4, <3>1, <3>2
  <2> QED BY <1>1, <1>10, <2>1 DEF CheckoutScan, ScanBegins, Find, ScanFails, hotel
<1> QED BY <1>2, <1>3, <1>5, <1>6, <1>8, <1>9, <1>10 DEF Next

LEMMA StepUnique ==
  ASSUME TypeOK, CallsKnowTheirRoom, Unique, Next
  PROVE  Unique'
<1> SUFFICES ASSUME ~ disturbed' PROVE Alone' /\ LooksBefore' /\ NoTwins'
  BY DEF Unique
<1>1. ~ disturbed
  BY DEF Next, Desk, CheckIn, Move, CheckOut, SetRoom, Create, BulkCreate, Update, Keep,
         MarkDone, CloseTask, Count, Release, CallDies, CheckoutScan, ScanBegins,
         Find, Ensure, ScanFails
<1>2. Alone /\ LooksBefore /\ NoTwins
  BY <1>1 DEF Unique
<1>3. ASSUME NEW w \in Scanners, NEW t \in Tasks, Ensure(w, t)
      PROVE  Alone' /\ LooksBefore' /\ NoTwins'
  <2>0. PICK g \in Stays, r \in Rooms : scan[w].about = <<g, r>>
    BY <1>3 DEF Ensure, TypeOK, Scan, Due
  <2>1. /\ scan[w].about # NoStay /\ scan[w] # NoScan
        /\ scan' = [scan EXCEPT ![w].about = NoStay]
    BY <1>3 DEF Ensure, NoScan
  <2>2. \A v \in Scanners : v # w => scan[v] = NoScan /\ scan'[v] = NoScan
    BY <1>2, <2>1 DEF Alone, TypeOK
  <2>3. Alone'
    BY <2>2 DEF Alone
  <2>4. LooksBefore'
    <3>1. \A v \in Scanners : scan'[v].about = NoStay
      BY <2>1, <2>2 DEF NoScan, TypeOK, Scan
    <3> QED BY <3>1, NoStayIsNoDue DEF LooksBefore
  <2>5. \A v \in Scanners, u \in Tasks : Ensure(v, u) => v = w
    BY <2>2 DEF Ensure, NoScan
  <2>6. ASSUME NEW h \in Stays, NEW q \in Rooms, <<h, q>> # <<g, r>>
        PROVE  PrepOpen(h, q)' \subseteq PrepOpen(h, q)
    BY <2>0, <2>5, <2>6, QuietSteps
  <2>7. \A u \in Tasks : u # t => task'[u] = task[u]
    BY <1>3 DEF Ensure, Add, TypeOK
  <2>8. \A u \in PrepOpen(g, r)' : u = t
    <3>1. PrepOpen(g, r)' \subseteq PrepOpen(g, r) \cup {t}
      BY <2>7 DEF PrepOpen, OpenIn, Exists
    <3>2. PrepOpen(g, r) = {}
      BY <1>2, <2>0 DEF LooksBefore
    <3> QED BY <3>1, <3>2
  <2>9. ASSUME NEW h \in Stays, NEW q \in Rooms, NEW u \in PrepOpen(h, q)', NEW v \in PrepOpen(h, q)'
        PROVE  u = v
    <3>1. CASE <<h, q>> = <<g, r>>
      BY <2>8, <2>9, <3>1
    <3>2. CASE <<h, q>> # <<g, r>>
      BY <1>2, <2>6, <2>9, <3>2 DEF NoTwins
    <3> QED BY <3>1, <3>2
  <2> QED BY <2>3, <2>4, <2>9 DEF NoTwins
<1>4. ASSUME \A w \in Scanners, t \in Tasks : ~ Ensure(w, t)
      PROVE  NoTwins'
  BY <1>2, <1>4, QuietSteps DEF NoTwins
<1>5. ASSUME \A w \in Scanners, t \in Tasks : ~ Ensure(w, t)
      PROVE  Alone' /\ LooksBefore'
  <2>1. \A g \in Stays, r \in Rooms : PrepOpen(g, r) = {} => PrepOpen(g, r)' = {}
    BY <1>5, QuietSteps
  <2>2. CASE UNCHANGED scan
    BY <1>2, <2>1, <2>2 DEF Alone, LooksBefore
  <2>3. ASSUME NEW w \in Scanners, NEW s \in Scan, scan' = [scan EXCEPT ![w] = s],
               scan[w] = NoScan /\ s # NoScan => \A v \in Scanners : scan[v] = NoScan,
               \A g \in Stays, r \in Rooms : s.about = <<g, r>> => PrepOpen(g, r) = {}
        PROVE  Alone' /\ LooksBefore'
    <3>1. scan'[w] = s /\ \A v \in Scanners : v # w => scan'[v] = scan[v]
      BY <2>3 DEF TypeOK
    <3>2. Alone'
      BY <1>2, <2>3, <3>1 DEF Alone
    <3>3. LooksBefore'
      BY <1>2, <2>1, <2>3, <3>1 DEF LooksBefore
    <3> QED BY <3>2, <3>3
  <2>4. ASSUME NEW w \in Scanners, CheckoutScan(w) PROVE Alone' /\ LooksBefore'
    <3>1. ASSUME NEW due \in SUBSET Stays, ScanBegins(w, due) PROVE Alone' /\ LooksBefore'
      <4> DEFINE s == [scan[w] EXCEPT !.todo = {<<g, stay[g].room>> : g \in due}]
      <4>1. s \in Scan /\ scan' = [scan EXCEPT ![w] = s] /\ s.about = NoStay
        BY <3>1 DEF ScanBegins, TypeOK, Scan, NoScan, Due, StayRow
      <4>2. \A v \in Scanners : scan[v] = NoScan
        BY <3>1, <1>1 DEF ScanBegins
      <4> HIDE DEF s
      <4>3. \A g \in Stays, r \in Rooms : s.about # <<g, r>>
        BY <4>1, TurnoverAssumption DEF Due
      <4> QED BY <2>3, <4>1, <4>2, <4>3
    <3>2. ASSUME NEW d \in scan[w].todo, Find(w, d) PROVE Alone' /\ LooksBefore'
      <4> DEFINE s == [todo |-> scan[w].todo \ {d},
                       about |-> IF PrepOpen(d[1], d[2]) = {} THEN d ELSE NoStay]
      <4>1. s \in Scan /\ scan' = [scan EXCEPT ![w] = s] /\ scan[w] # NoScan
        BY <3>2 DEF Find, TypeOK, Scan, NoScan
      <4>2. \A g \in Stays, r \in Rooms : s.about = <<g, r>> => PrepOpen(g, r) = {}
        BY TurnoverAssumption DEF Due
      <4> HIDE DEF s
      <4> QED BY <2>3, <4>1, <4>2
    <3>3. CASE ScanFails(w)
      <4>1. NoScan \in Scan /\ scan[w] # NoScan /\ scan' = [scan EXCEPT ![w] = NoScan]
        BY <3>3 DEF ScanFails, NoScan, Scan
      <4>2. \A g \in Stays, r \in Rooms : NoScan.about # <<g, r>>
        BY NoStayIsNoDue DEF NoScan
      <4> QED BY <2>3, <4>1, <4>2
    <3> QED BY <1>5, <2>4, <3>1, <3>2, <3>3 DEF CheckoutScan
  <2> QED BY <2>2, <2>4 DEF Next, Desk, CheckIn, Move, CheckOut, SetRoom, Create,
                            BulkCreate, Update, Keep, MarkDone, CloseTask, Count, Release, CallDies
<1> QED BY <1>3, <1>4, <1>5

-----------------------------------------------------------------------------
(* A step that leaves a stay's room, or records that it moved, leaves what *)
(* was known of it.                                                        *)
LEMMA RoomKept ==
  ASSUME TypeOK, Next, NEW g \in Stays, NEW r \in Rooms, HasRoom(g, r)
  PROVE  HasRoom(g, r)'
<1>1. ASSUME UNCHANGED <<stay, moved>> PROVE HasRoom(g, r)'
  BY <1>1 DEF HasRoom
<1>2. ASSUME NEW h \in Stays, CheckIn(h) PROVE HasRoom(g, r)'
  BY <1>2 DEF CheckIn, past, HasRoom, TypeOK, StayRow
<1>3. ASSUME NEW h \in Stays, CheckOut(h) PROVE HasRoom(g, r)'
  BY <1>3 DEF CheckOut, HasRoom, TypeOK, StayRow
<1>4. ASSUME NEW h \in Stays, NEW q \in Rooms, Move(h, q) PROVE HasRoom(g, r)'
  BY <1>4 DEF Move, HasRoom, TypeOK, StayRow
<1> QED BY <1>1, <1>2, <1>3, <1>4
        DEF Next, Desk, SetRoom, Create, BulkCreate, Update, Keep, MarkDone, CloseTask, Count,
            Release, CallDies, CheckoutScan, ScanBegins, Find, Ensure, ScanFails, hotel, past

(* A new task about a stay is the scan's.                                  *)
LEMMA NewAbout ==
  ASSUME TypeOK, CallsKnowTheirRoom, Next,
         NEW t \in Tasks, ~ Exists(t), Exists(t)',
         NEW g \in Stays, task'[t].about = g
  PROVE  \E w \in Scanners : Ensure(w, t)
<1>1. task'[t] # task[t]
  BY DEF Exists
<1>2. ASSUME NEW u \in Tasks, NEW q \in Rooms, Create(u, q) PROVE FALSE
  BY <1>1, <1>2, TurnoverAssumption DEF Create, Add, TypeOK
<1>3. ASSUME NEW ts \in SUBSET Tasks, NEW put \in [ts -> Rooms], BulkCreate(ts, put)
      PROVE  FALSE
  BY <1>1, <1>3, TurnoverAssumption DEF BulkCreate
<1>4. ASSUME NEW u \in Tasks, NEW status \in TaskStatus, Update(u, status)
      PROVE  FALSE
  BY <1>1, <1>4 DEF Update, TypeOK
<1>5. ASSUME NEW k \in Keepers, Keep(k) PROVE FALSE
  <2>1. CASE CloseTask(k)
    <3>1. call[k].task # t
      BY <2>1 DEF CloseTask, CallsKnowTheirRoom
    <3> QED BY <1>1, <2>1, <3>1 DEF CloseTask, TypeOK
  <2> QED BY <1>1, <1>5, <2>1 DEF Keep, MarkDone, Count, Release, CallDies, hotel
<1>6. ASSUME NEW w \in Scanners, NEW u \in Tasks, Ensure(w, u) PROVE u = t
  BY <1>1, <1>6 DEF Ensure, Add, TypeOK
<1>7. ASSUME NEW w \in Scanners, CheckoutScan(w) PROVE Ensure(w, t)
  BY <1>1, <1>6, <1>7 DEF CheckoutScan, ScanBegins, Find, ScanFails, hotel
<1>8. ~ UNCHANGED task
  BY <1>1
<1> QED BY <1>2, <1>3, <1>4, <1>5, <1>7, <1>8 DEF Next, Desk, CheckIn, Move, CheckOut, SetRoom

LEMMA StepFollowed ==
  ASSUME TypeOK, CallsKnowTheirRoom, Followed, Next
  PROVE  Followed'
<1>1. ASSUME NEW t \in Tasks, NEW g \in Stays, Exists(t)', task'[t].about = g
      PROVE  HasRoom(g, task[t].room)'
  <2>1. CASE Exists(t)
    <3>1. task'[t].room = task[t].room /\ task[t].about = g /\ task[t].room \in Rooms
      BY <1>1, <2>1, TasksStay, TaskType
    <3>2. HasRoom(g, task[t].room)
      BY <2>1, <3>1 DEF Followed
    <3>3. PICK r \in Rooms : r = task[t].room
      BY <3>1
    <3>4. HasRoom(g, r)'
      BY <3>2, <3>3, RoomKept
    <3> QED BY <3>1, <3>3, <3>4 DEF HasRoom
  <2>2. CASE ~ Exists(t)
    <3>1. PICK w \in Scanners : Ensure(w, t)
      BY <1>1, <2>2, NewAbout
    <3>2. PICK h \in Stays, r \in Rooms : scan[w].about = <<h, r>> /\ Add(t, r, h)
      BY <3>1 DEF Ensure, TypeOK, Scan, Due
    <3>3. task'[t].room = r /\ task'[t].about = h
      BY <3>2 DEF Add, TypeOK
    <3>4. HasRoom(h, r)'
      BY <3>2, RoomKept DEF Followed
    <3> QED BY <1>1, <3>3, <3>4 DEF HasRoom
  <2> QED BY <2>1, <2>2
<1>2. ASSUME NEW w \in Scanners, NEW g \in Stays, NEW r \in Rooms,
             <<g, r>> \in scan'[w].todo \/ scan'[w].about = <<g, r>>
      PROVE  HasRoom(g, r)'
  <2>1. CASE <<g, r>> \in scan[w].todo \/ scan[w].about = <<g, r>>
    BY <2>1, RoomKept DEF Followed
  <2>2. ASSUME NEW v \in Scanners, NEW due \in SUBSET Stays, ScanBegins(v, due)
        PROVE  HasRoom(g, r)'
    <3>1. CASE v # w
      BY <1>2, <2>1, <2>2, <3>1 DEF ScanBegins, TypeOK
    <3>2. CASE v = w
      <4>1. scan'[w].todo = {<<h, stay[h].room>> : h \in due} /\ scan'[w].about = NoStay
        BY <2>2, <3>2 DEF ScanBegins, TypeOK, NoScan, Scan
      <4>2. g \in due /\ r = stay[g].room
        BY <1>2, <4>1, NoStayIsNoDue
      <4>3. HasRoom(g, r)
        BY <2>2, <4>2 DEF ScanBegins, HasRoom
      <4> QED BY <4>3, RoomKept
    <3> QED BY <3>1, <3>2
  <2>3. ASSUME NEW v \in Scanners, NEW d \in scan[v].todo, Find(v, d)
        PROVE  HasRoom(g, r)'
    <3>1. CASE v # w
      BY <1>2, <2>1, <2>3, <3>1 DEF Find, TypeOK
    <3>2. CASE v = w
      <4>1. /\ scan'[w].todo \subseteq scan[w].todo
            /\ scan'[w].about = d \/ scan'[w].about = NoStay
        BY <2>3, <3>2 DEF Find, TypeOK, Scan
      <4>2. <<g, r>> \in scan[w].todo
        BY <1>2, <2>3, <3>2, <4>1, NoStayIsNoDue
      <4> QED BY <2>1, <4>2
    <3> QED BY <3>1, <3>2
  <2>4. ASSUME NEW v \in Scanners, NEW t \in Tasks, Ensure(v, t)
        PROVE  HasRoom(g, r)'
    <3>1. scan'[w].todo = scan[w].todo
          /\ (scan'[w].about = scan[w].about \/ scan'[w].about = NoStay)
      BY <2>4 DEF Ensure, TypeOK, Scan
    <3> QED BY <1>2, <2>1, <3>1, NoStayIsNoDue
  <2>5. ASSUME NEW v \in Scanners, ScanFails(v) PROVE HasRoom(g, r)'
    <3>1. scan'[w] = scan[w] \/ scan'[w] = NoScan
      BY <2>5 DEF ScanFails, TypeOK
    <3>2. scan'[w] # NoScan
      BY <1>2, NoStayIsNoDue DEF NoScan
    <3> QED BY <1>2, <2>1, <3>1, <3>2
  <2>6. ASSUME UNCHANGED scan PROVE HasRoom(g, r)'
    BY <1>2, <2>1, <2>6
  <2> QED BY <2>2, <2>3, <2>4, <2>5, <2>6
          DEF Next, Desk, CheckIn, Move, CheckOut, SetRoom, Create, BulkCreate, Update,
              Keep, MarkDone, CloseTask, Count, Release, CallDies, CheckoutScan
<1> QED BY <1>1, <1>2 DEF Followed

-----------------------------------------------------------------------------
THEOREM Invariant == Spec => []Inv
<1>1. ASSUME Inv, [Next]_vars PROVE Inv'
  <2>1. CASE Next
    BY <1>1, <2>1, StepTypes, StepCalls, StepMinds, StepUnique, StepFollowed DEF Inv
  <2>2. CASE UNCHANGED vars
    <3>1. UNCHANGED <<room, stay, task, call, scan, neglected, byHand, moved, disturbed>>
      BY <2>2 DEF vars, hotel, past
    <3>2. (TypeOK /\ CallsKnowTheirRoom /\ DirtyIsMinded)'
      BY <1>1, <3>1 DEF Inv, TypeOK, CallsKnowTheirRoom, DirtyIsMinded, Minded, Forgotten,
                        OpenIn, Exists, Closing, Looking
    <3>3. Unique'
      BY <1>1, <3>1 DEF Inv, Unique, Alone, LooksBefore, NoTwins, PrepOpen, OpenIn, Exists
    <3>4. Followed'
      BY <1>1, <3>1 DEF Inv, Followed, HasRoom, Exists
    <3> QED BY <3>2, <3>3, <3>4 DEF Inv
  <2> QED BY <1>1, <2>1, <2>2
<1> QED BY <1>1, InitInv, PTL DEF Spec

(* Every row and request has the shape the code gives it, for any number   *)
(* of rooms, stays, tasks, housekeepers and scans.                         *)
THEOREM Types == Spec => []TypeOK
<1>1. Inv => TypeOK
  BY DEF Inv
<1> QED BY <1>1, Invariant, PTL

(* A dirty room is never forgotten without one of the named reasons,       *)
(* however many housekeepers close its tasks at once.                      *)
THEOREM DirtyIsWorkedOn == Spec => []DirtyRoomHasWork
<1>1. Inv => DirtyRoomHasWork
  BY DEF Inv, DirtyIsMinded, Minded, Looking, Forgotten, DirtyRoomHasWork
<1> QED BY <1>1, Invariant, PTL

(* While scans do not overlap and no closed task is opened again, a stay   *)
(* has one open check-out task in a room, however often scans fail and     *)
(* start again, and tasks in two rooms only if it moved while checked in.  *)
THEOREM TasksAreUnique == Spec => []NoTwinTasks
<1>1. Inv => NoTwinTasks
  <2> SUFFICES ASSUME Inv, ~ disturbed, NEW g \in Stays, NEW r \in Rooms, NEW q \in Rooms,
                      NEW t \in PrepOpen(g, r), NEW u \in PrepOpen(g, q),
                      t # u
               PROVE  r # q /\ g \in moved
    BY DEF NoTwinTasks
  <2>1. r # q
    BY DEF Inv, Unique, NoTwins
  <2>2. HasRoom(g, r) /\ HasRoom(g, q)
    BY DEF Inv, Followed, PrepOpen, OpenIn
  <2> QED BY <2>1, <2>2 DEF HasRoom
<1> QED BY <1>1, Invariant, PTL
=============================================================================
