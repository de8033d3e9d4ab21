----------------------------- MODULE ScansProofs -----------------------------
(***************************************************************************)
(* DailyScans' invariants, for any number of jobs, hotels, days,           *)
(* heartbeats and overlapping scans.                                       *)
(***************************************************************************)
EXTENDS DailyScans, NaturalsInduction, WellFoundedInduction, TLAPS

Busy(w)   == scan[w].at # "idle"
AtHand(w) == <<scan[w].job, scan[w].h, scan[w].day>>

(* Nothing is stamped or scanned for a day that has not come.              *)
NotAhead ==
  /\ \A j \in Jobs, h \in Hotels : cron[j][h].last <= day
  /\ \A w \in Workers : Busy(w) => scan[w].day <= day

(* A heartbeat's scan is of a timed job, and the hotels it has before it   *)
(* had no stamp of the day when it began.                                  *)
ReadUnstamped ==
  \A w \in Workers : Busy(w) /\ ~ scan[w].forced =>
    /\ scan[w].job \in Timed
    /\ \A h \in scan[w].todo : scan[w].rows[h].last < scan[w].day

(* A scan comes to a hotel once.                                           *)
HandTaken == \A w \in Workers : Busy(w) => scan[w].h \notin scan[w].todo

(* A scan holds the settings a hotel chose, if it chose none meanwhile.    *)
ReadChosen ==
  \A w \in Workers, j \in Jobs, h \in Hotels :
    Holds(scan[w], j, h) /\ <<j, h>> \notin unsafe =>
      /\ scan[w].rows[h].enabled = chosen[j][h].enabled
      /\ scan[w].rows[h].runAt = chosen[j][h].runAt

(* What has been alerted is stamped, or about to be.                       *)
ToldIsStamped ==
  \A j \in Jobs, h \in Hotels, d \in Days :
    <<j, h, d>> \in told \ raced =>
      \/ cron[j][h].last >= d
      \/ \E w \in Workers : scan[w].at = "stamp" /\ AtHand(w) = <<j, h, d>>

(* A scan is alone at its hotel that day, and nothing has been alerted.    *)
AloneAtHand ==
  \A w \in Workers : Busy(w) /\ AtHand(w) \notin raced =>
    /\ scan[w].at = "query" => AtHand(w) \notin told
    /\ \A v \in Workers : Busy(v) /\ AtHand(v) = AtHand(w) => v = w

Inv == /\ TypeOK /\ NotAhead /\ ReadUnstamped /\ HandTaken /\ ReadChosen
       /\ ToldIsStamped /\ AloneAtHand /\ SettingsStand /\ OneAlertADay

-----------------------------------------------------------------------------
LEMMA LeastHotel ==
  ASSUME NEW S \in SUBSET Hotels, S # {}
  PROVE  Min(S) \in S
<1>1. PICK x \in S : \A y \in S : <<y, x>> \notin OpToRel(<, Nat)
  <2>1. S \subseteq Nat
    BY DEF Hotels
  <2> QED BY <2>1, NatLessThanWellFounded, WFMin
<1>2. ASSUME NEW y \in S PROVE x <= y
  <2>1. x \in Nat /\ y \in Nat
    BY DEF Hotels
  <2>2. CASE y < x
    <3>1. <<y, x>> \in OpToRel(<, Nat)
      BY <2>1, <2>2 DEF OpToRel
    <3> QED BY <1>1, <3>1
  <2> QED BY <2>1, <2>2
<1> QED BY <1>2 DEF Min

LEMMA ConstantTypes ==
  /\ Preset \in Setting /\ NoRow \in CronRow /\ NoScan \in Scan
  /\ NoScan.at = "idle" /\ NoRow.last = 0
  /\ 1 \in Days /\ 1 \in Hotels /\ 0 \in Times
<1>1. Preset \in Setting
  BY ScanAssumption DEF Preset, Setting
<1>2. NoRow \in CronRow /\ NoRow.last = 0
  BY <1>1 DEF NoRow, CronRow, Setting
<1>3. 1 \in Days /\ 1 \in Hotels /\ 0 \in Times
  BY ScanAssumption DEF Days, Hotels, Times
<1>4. NoScan \in Scan /\ NoScan.at = "idle"
  BY <1>2, <1>3, ScanAssumption DEF NoScan, Scan
<1> QED BY <1>1, <1>2, <1>3, <1>4

(* The scan is over, or comes to one of the hotels it has before it.       *)
LEMMA MovesOn ==
  ASSUME NEW s \in Scan
  PROVE  LET n == MoveOn(s)
         IN  /\ n \in Scan
             /\ \/ n = NoScan
                \/ /\ n.at = "query" /\ n.h \in s.todo /\ n.todo = s.todo \ {n.h}
                   /\ n.job = s.job /\ n.forced = s.forced /\ n.day = s.day
                   /\ n.rows = s.rows
<1>1. CASE s.todo = {}
  BY <1>1, ConstantTypes DEF MoveOn
<1>2. CASE s.todo # {}
  <2>1. Min(s.todo) \in s.todo /\ s.todo \subseteq Hotels
    BY <1>2, LeastHotel DEF Scan
  <2> QED BY <1>2, <2>1 DEF MoveOn, Scan
<1> QED BY <1>1, <1>2

-----------------------------------------------------------------------------
LEMMA InitInv == Init => Inv
<1> SUFFICES ASSUME Init PROVE Inv
  OBVIOUS
<1>1. TypeOK
  BY ConstantTypes, ScanAssumption DEF Init, TypeOK
<1>2. \A w \in Workers : ~ Busy(w)
  BY ConstantTypes DEF Init, Busy
<1>3. NotAhead
  BY <1>2, ConstantTypes DEF Init, NotAhead
<1>4. ReadUnstamped /\ HandTaken /\ ReadChosen /\ AloneAtHand
  BY <1>2 DEF ReadUnstamped, HandTaken, ReadChosen, Holds, AloneAtHand, Busy
<1>5. ToldIsStamped /\ OneAlertADay
  BY DEF Init, ToldIsStamped, OneAlertADay
<1>6. SettingsStand
  BY DEF Init, SettingsStand, NoRow
<1> QED BY <1>1, <1>3, <1>4, <1>5, <1>6 DEF Inv

LEMMA ScanTypes ==
  ASSUME TypeOK, NEW w \in Workers
  PROVE  /\ scan[w] \in Scan
         /\ scan[w].job \in Jobs /\ scan[w].h \in Hotels /\ scan[w].day \in Days
         /\ scan[w].todo \subseteq Hotels /\ scan[w].day \in Nat
         /\ \A h \in Hotels : scan[w].rows[h] \in CronRow
BY DEF TypeOK, Scan, Days

LEMMA RowTypes ==
  ASSUME TypeOK, NEW j \in Jobs, NEW h \in Hotels
  PROVE  cron[j][h] \in CronRow /\ cron[j][h].last \in Nat /\ day \in Nat
BY DEF TypeOK, CronRow, Days

-----------------------------------------------------------------------------
(* An arrival that is not contested finds nothing alerted, and whoever     *)
(* arrives where another is contests it.                                   *)
LEMMA ArrivesAlone ==
  ASSUME Inv, NEW w \in Workers, NEW s \in Scan, NEW lost,
         ~ s.forced => \A h \in s.todo : s.rows[h].last < s.day,
         Busy(w) => \A h \in s.todo : AtHand(w) # <<s.job, h, s.day>>,
         Arrive(w, MoveOn(s), lost), UNCHANGED told
  PROVE  AloneAtHand'
<1> DEFINE n == MoveOn(s)
           there == <<n.job, n.h, n.day>>
<1>1. /\ scan'[w] = n /\ \A v \in Workers : v # w => scan'[v] = scan[v]
      /\ raced \subseteq raced'
      /\ n.at # "idle" /\ Contested(w, n) => there \in raced'
  BY DEF Arrive, Inv, TypeOK
<1>2. /\ n \in Scan
      /\ \/ n = NoScan
         \/ /\ n.at = "query" /\ n.h \in s.todo
            /\ n.job = s.job /\ n.forced = s.forced /\ n.day = s.day /\ n.rows = s.rows
  BY MovesOn
<1>3. n.at # "idle" =>
        /\ n.h \in s.todo /\ n.job = s.job /\ n.forced = s.forced /\ n.day = s.day
        /\ n.rows = s.rows
        /\ n.job \in Jobs /\ n.h \in Hotels /\ n.day \in Days
  BY <1>2, ConstantTypes DEF Scan
<1> HIDE DEF n
<1>4. ASSUME NEW v \in Workers, v # w, Busy(v), n.at # "idle", AtHand(v) = there
      PROVE  there \in raced'
  BY <1>1, <1>4 DEF Contested, Busy, AtHand
<1>5. ASSUME n.at # "idle", there \notin raced'
      PROVE  there \notin told
  <2>1. ~ n.forced /\ cron[n.job][n.h].last = n.rows[n.h].last
    BY <1>1, <1>5 DEF Contested
  <2>2. cron[n.job][n.h].last < n.day
    BY <1>3, <1>5, <2>1
  <2>3. ASSUME NEW v \in Workers, scan[v].at = "stamp", AtHand(v) = there PROVE FALSE
    <3>1. v # w
      BY <1>3, <1>5, <2>3 DEF Busy
    <3> QED BY <1>4, <1>5, <2>3, <3>1 DEF Busy
  <2>4. ~ cron[n.job][n.h].last >= n.day
    BY <1>3, <1>5, <2>2, RowTypes DEF Inv, Days
  <2>5. there \notin raced
    BY <1>1, <1>5
  <2> QED BY <1>3, <1>5, <2>3, <2>4, <2>5 DEF Inv, ToldIsStamped
<1>6. SUFFICES ASSUME NEW v \in Workers, Busy(v)', AtHand(v)' \notin raced'
               PROVE  /\ scan'[v].at = "query" => AtHand(v)' \notin told
                      /\ \A u \in Workers : Busy(u)' /\ AtHand(u)' = AtHand(v)' => u = v
  BY DEF AloneAtHand
<1>7. CASE v = w
  <2>1. n.at # "idle" /\ AtHand(v)' = there
    BY <1>1, <1>6, <1>7 DEF Busy, AtHand
  <2>2. ASSUME NEW u \in Workers, Busy(u)', AtHand(u)' = there PROVE u = w
    BY <1>1, <1>4, <1>6, <2>1, <2>2 DEF Busy, AtHand
  <2> QED BY <1>5, <1>6, <1>7, <2>1, <2>2
<1>8. CASE v # w
  <2>1. scan'[v] = scan[v] /\ Busy(v) /\ AtHand(v)' = AtHand(v) /\ AtHand(v) \notin raced
    BY <1>1, <1>6, <1>8 DEF Busy, AtHand
  <2>2. ASSUME NEW u \in Workers, Busy(u)', AtHand(u)' = AtHand(v) PROVE u = v
    <3>1. CASE u = w
      <4>1. n.at # "idle" /\ AtHand(v) = there
        BY <1>1, <2>2, <3>1 DEF Busy, AtHand
      <4> QED BY <1>4, <1>6, <1>8, <2>1, <4>1
    <3>2. CASE u # w
      <4>1. Busy(u) /\ AtHand(u) = AtHand(v)
        BY <1>1, <2>2, <3>2 DEF Busy, AtHand
      <4> QED BY <2>1, <4>1 DEF Inv, AloneAtHand
    <3> QED BY <3>1, <3>2
  <2> QED BY <2>1, <2>2 DEF Inv, AloneAtHand
<1> QED BY <1>7, <1>8

(* What a scan has read, and its type, as it moves on.                     *)
LEMMA ArrivesWithRows ==
  ASSUME Inv, NEW w \in Workers, NEW s \in Scan, NEW lost \in SUBSET (Jobs \X Hotels \X Days),
         ~ s.forced => s.job \in Timed /\ \A h \in s.todo : s.rows[h].last < s.day,
         s.day <= day,
         \A h \in s.todo : <<s.job, h>> \notin unsafe =>
           /\ s.rows[h].enabled = chosen[s.job][h].enabled
           /\ s.rows[h].runAt = chosen[s.job][h].runAt,
         Arrive(w, MoveOn(s), lost), UNCHANGED <<clock, choices>>
  PROVE  /\ scan' \in [Workers -> Scan] /\ raced' \subseteq Jobs \X Hotels \X Days
         /\ \A v \in Workers : Busy(v)' => scan'[v].day <= day'
         /\ ReadUnstamped' /\ HandTaken' /\ ReadChosen'
<1> DEFINE n == MoveOn(s)
<1>1. /\ scan' = [scan EXCEPT ![w] = n]
      /\ raced' = raced \cup lost \cup
           (IF n.at # "idle" /\ Contested(w, n) THEN {<<n.job, n.h, n.day>>} ELSE {})
  BY DEF Arrive
<1>2. /\ n \in Scan
      /\ n.at # "idle" =>
           /\ n.h \in s.todo /\ n.todo = s.todo \ {n.h}
           /\ n.job = s.job /\ n.forced = s.forced /\ n.day = s.day /\ n.rows = s.rows
  BY MovesOn, ConstantTypes
<1> HIDE DEF n
<1>3. scan'[w] = n /\ \A v \in Workers : v # w => scan'[v] = scan[v]
  BY <1>1 DEF Inv, TypeOK
<1>4. <<n.job, n.h, n.day>> \in Jobs \X Hotels \X Days
  BY <1>2 DEF Scan
<1>5. scan' \in [Workers -> Scan] /\ raced' \subseteq Jobs \X Hotels \X Days
  BY <1>1, <1>2, <1>4 DEF Inv, TypeOK
<1>6. \A v \in Workers : Busy(v)' => scan'[v].day <= day'
  BY <1>2, <1>3 DEF Inv, NotAhead, Busy, clock
<1>7. ReadUnstamped' /\ HandTaken'
  BY <1>2, <1>3 DEF Inv, ReadUnstamped, HandTaken, Busy
<1>8. ReadChosen'
  BY <1>2, <1>3 DEF Inv, ReadChosen, Holds, choices
<1> QED BY <1>5, <1>6, <1>7, <1>8

-----------------------------------------------------------------------------
LEMMA TickInv == ASSUME Inv, Tick PROVE Inv'
<1>1. UNCHANGED <<cron, scan, told, again, raced, chosen, changed, unsafe, upsets>>
  BY DEF Tick, alerts, choices
<1>2. day' \in Days /\ time' \in Times /\ day <= day'
  BY ScanAssumption DEF Tick, Inv, TypeOK, Days, Times
<1>3. TypeOK'
  <2>1. waiting' \subseteq Timed /\ missed' \subseteq Jobs \X Days
    BY ScanAssumption DEF Tick, Inv, TypeOK
  <2> QED BY <1>1, <1>2, <2>1 DEF Inv, TypeOK
<1>4. NotAhead'
  <2>1. \A j \in Jobs, h \in Hotels : cron[j][h].last <= day'
    BY <1>2, RowTypes DEF Inv, NotAhead, Days
  <2>2. \A w \in Workers : Busy(w) => scan[w].day <= day'
    BY <1>2, ScanTypes DEF Inv, NotAhead, TypeOK, Days
  <2> QED BY <1>1, <2>1, <2>2 DEF NotAhead, Busy
<1>5. (ReadUnstamped /\ HandTaken /\ ReadChosen /\ SettingsStand /\ OneAlertADay)'
  BY <1>1 DEF Inv, ReadUnstamped, HandTaken, ReadChosen, Holds, SettingsStand,
              OneAlertADay, Busy
<1>6. (ToldIsStamped /\ AloneAtHand)'
  BY <1>1 DEF Inv, ToldIsStamped, AloneAtHand, AtHand, Busy
<1> QED BY <1>3, <1>4, <1>5, <1>6 DEF Inv

(* A scan begins: what it has before it is due by the rows it has read, or *)
(* ordered.                                                                *)
LEMMA BeginInv ==
  ASSUME Inv, NEW w \in Workers, NEW j \in Jobs, NEW hotels \in SUBSET Hotels,
         NEW forced \in BOOLEAN,
         ~ forced => j \in Timed /\ \A h \in hotels : cron[j][h].last # day,
         Begin(w, j, hotels, forced), waiting' \subseteq Timed, upsets' \in 0..MaxUpsets
  PROVE  Inv'
<1> DEFINE s == [NoScan EXCEPT !.job = j, !.forced = forced, !.day = day,
                               !.rows = cron[j], !.todo = hotels]
<1>1. /\ Arrive(w, MoveOn(s), {}) /\ ~ Busy(w)
      /\ UNCHANGED <<clock, cron, told, again, missed, choices>>
  BY DEF Begin, Busy
<1>2. /\ s \in Scan /\ s.job = j /\ s.forced = forced /\ s.day = day
      /\ s.rows = cron[j] /\ s.todo = hotels
  <2>1. cron[j] \in [Hotels -> CronRow] /\ day \in Days
    BY DEF Inv, TypeOK
  <2> QED BY <2>1, ConstantTypes DEF Scan
<1>3. ~ s.forced => s.job \in Timed /\ \A h \in s.todo : s.rows[h].last < s.day
  BY <1>2, RowTypes DEF Inv, NotAhead
<1>4. \A h \in s.todo : <<s.job, h>> \notin unsafe =>
        /\ s.rows[h].enabled = chosen[s.job][h].enabled
        /\ s.rows[h].runAt = chosen[s.job][h].runAt
  BY <1>2 DEF Inv, SettingsStand
<1>5. s.day <= day
  BY <1>2 DEF Inv, TypeOK, Days
<1> HIDE DEF s
<1>6. AloneAtHand'
  BY <1>1, <1>2, <1>3, ArrivesAlone
<1>7. /\ scan' \in [Workers -> Scan] /\ raced' \subseteq Jobs \X Hotels \X Days
      /\ \A v \in Workers : Busy(v)' => scan'[v].day <= day'
      /\ ReadUnstamped' /\ HandTaken' /\ ReadChosen'
  BY <1>1, <1>2, <1>3, <1>4, <1>5, ArrivesWithRows
<1>8. TypeOK' /\ NotAhead'
  BY <1>1, <1>7 DEF Inv, TypeOK, NotAhead, clock, choices
<1>9. ToldIsStamped'
  <2>1. raced \subseteq raced' /\ \A v \in Workers : v # w => scan'[v] = scan[v]
    BY <1>1 DEF Arrive, Inv, TypeOK
  <2>2. ASSUME NEW v \in Workers, scan[v].at = "stamp"
        PROVE  scan'[v].at = "stamp" /\ AtHand(v)' = AtHand(v)
    BY <1>1, <2>1, <2>2 DEF Busy, AtHand
  <2> QED BY <1>1, <2>1, <2>2 DEF Inv, ToldIsStamped
<1>10. (SettingsStand /\ OneAlertADay)'
  BY <1>1 DEF Inv, SettingsStand, OneAlertADay, Arrive, choices
<1> QED BY <1>6, <1>7, <1>8, <1>9, <1>10 DEF Inv

(* The query is answered: an alert, nothing, or an error that is caught.   *)
LEMMA AnswerInv ==
  ASSUME Inv, NEW w \in Workers, scan[w].at = "query", Goto(w, "stamp"),
         UNCHANGED <<clock, waiting, cron, raced, missed, choices, upsets>>,
         \/ UNCHANGED <<told, again>>
         \/ /\ told' = told \cup {AtHand(w)}
            /\ again' = again \cup (told \cap {AtHand(w)})
  PROVE  Inv'
<1>1. /\ scan'[w] = [scan[w] EXCEPT !.at = "stamp"] /\ scan'[w] \in Scan
      /\ scan' \in [Workers -> Scan]
      /\ \A v \in Workers : v # w => scan'[v] = scan[v]
  <2> DEFINE n == [scan[w] EXCEPT !.at = "stamp"]
  <2>1. n \in Scan
    BY ScanTypes DEF Inv, Scan
  <2>2. scan \in [Workers -> Scan] /\ scan' = [scan EXCEPT ![w] = n]
    BY DEF Goto, Inv, TypeOK
  <2> HIDE DEF n
  <2>3. /\ scan'[w] = n /\ scan' \in [Workers -> Scan]
        /\ \A v \in Workers : v # w => scan'[v] = scan[v]
    BY <2>1, <2>2
  <2> QED BY <2>1, <2>3 DEF n
<1>2. /\ \A v \in Workers : /\ Busy(v)' <=> Busy(v)
                            /\ AtHand(v)' = AtHand(v)
                            /\ scan'[v].at = scan[v].at \/ (v = w /\ scan'[v].at = "stamp")
                            /\ scan'[v].todo = scan[v].todo /\ scan'[v].rows = scan[v].rows
                            /\ scan'[v].day = scan[v].day /\ scan'[v].job = scan[v].job
                            /\ scan'[v].forced = scan[v].forced /\ scan'[v].h = scan[v].h
  BY <1>1, ScanTypes DEF Busy, AtHand, Scan, Inv
<1>3. AtHand(w) \in Jobs \X Hotels \X Days /\ Busy(w)
  BY ScanTypes DEF AtHand, Inv, Busy
<1>4. TypeOK'
  BY <1>1, <1>3 DEF Inv, TypeOK, clock, choices
<1>5. (NotAhead /\ ReadUnstamped /\ HandTaken)'
  BY <1>2 DEF Inv, NotAhead, ReadUnstamped, HandTaken, clock
<1>6. ReadChosen'
  BY <1>2 DEF Inv, ReadChosen, Holds, Busy, choices
<1>7. ToldIsStamped'
  <2>1. \A x \in told' : x \in told \/ x = AtHand(w)
    OBVIOUS
  <2>2. scan'[w].at = "stamp"
    BY <1>1, ScanTypes DEF Scan, Inv
  <2> QED BY <1>2, <2>1, <2>2 DEF Inv, ToldIsStamped
<1>8. AloneAtHand'
  <2> SUFFICES ASSUME NEW v \in Workers, Busy(v)', AtHand(v)' \notin raced'
               PROVE  /\ scan'[v].at = "query" => AtHand(v)' \notin told'
                      /\ \A u \in Workers : Busy(u)' /\ AtHand(u)' = AtHand(v)' => u = v
    BY DEF AloneAtHand
  <2>1. Busy(v) /\ AtHand(v) \notin raced /\ AtHand(v)' = AtHand(v)
    BY <1>2
  <2>2. \A u \in Workers : Busy(u)' /\ AtHand(u)' = AtHand(v)' => u = v
    BY <1>2, <2>1 DEF Inv, AloneAtHand
  <2>3. ASSUME scan'[v].at = "query" PROVE AtHand(v) \notin told'
    <3>1. v # w /\ scan[v].at = "query"
      BY <1>1, <1>2, <2>3, ScanTypes DEF Scan, Inv
    <3>2. AtHand(v) # AtHand(w)
      BY <1>3, <2>1, <3>1 DEF Inv, AloneAtHand
    <3>3. AtHand(v) \notin told
      BY <2>1, <3>1 DEF Inv, AloneAtHand
    <3> QED BY <3>2, <3>3
  <2> QED BY <2>1, <2>2, <2>3
<1>9. OneAlertADay'
  BY <1>3 DEF Inv, AloneAtHand, OneAlertADay
<1>10. SettingsStand'
  BY DEF Inv, SettingsStand, choices
<1> QED BY <1>4, <1>5, <1>6, <1>7, <1>8, <1>9, <1>10 DEF Inv

LEMMA StampInv == ASSUME Inv, NEW w \in Workers, Stamp(w) PROVE Inv'
<1> DEFINE s == scan[w]
           lost == {<<s.job, s.h, d>> : d \in s.day + 1 .. cron[s.job][s.h].last}
           row == [s.rows[s.h] EXCEPT !.last = s.day]
<1>1. /\ s \in Scan /\ s.job \in Jobs /\ s.h \in Hotels /\ s.day \in Days /\ s.day <= day
      /\ s.rows[s.h] \in CronRow /\ s.todo \subseteq Hotels /\ s.h \notin s.todo
      /\ ~ s.forced => s.job \in Timed /\ \A h \in s.todo : s.rows[h].last < s.day
      /\ Busy(w) /\ s.at = "stamp"
  BY ScanTypes DEF Inv, NotAhead, HandTaken, ReadUnstamped, Stamp, Busy
<1>2. /\ cron' = [cron EXCEPT ![s.job][s.h] = row]
      /\ Arrive(w, MoveOn(s), lost)
      /\ UNCHANGED <<clock, waiting, told, again, missed, choices, upsets>>
  BY DEF Stamp
<1>3. row \in CronRow /\ row.last = s.day
      /\ row.enabled = s.rows[s.h].enabled /\ row.runAt = s.rows[s.h].runAt
  BY <1>1 DEF CronRow
<1>4. lost \subseteq Jobs \X Hotels \X Days
  <2>1. cron[s.job][s.h].last \in {0} \cup Days /\ s.day \in Days
    BY <1>1, RowTypes DEF Inv, CronRow
  <2>2. ASSUME NEW d \in s.day + 1 .. cron[s.job][s.h].last PROVE d \in Days
    BY <2>1, ScanAssumption DEF Days
  <2> QED BY <1>1, <2>2
<1>5. \A h \in s.todo \cup {s.h} : <<s.job, h>> \notin unsafe =>
        /\ s.rows[h].enabled = chosen[s.job][h].enabled
        /\ s.rows[h].runAt = chosen[s.job][h].runAt
  BY <1>1 DEF Inv, ReadChosen, Holds, Busy
<1>6. /\ cron' \in [Jobs -> [Hotels -> CronRow]]
      /\ cron'[s.job][s.h] = row
      /\ \A j \in Jobs, h \in Hotels :
           <<j, h>> # <<s.job, s.h>> => cron'[j][h] = cron[j][h]
  BY <1>1, <1>2, <1>3 DEF Inv, TypeOK
<1>7. /\ lost \subseteq raced' /\ raced \subseteq raced'
      /\ \A v \in Workers : v # w => scan'[v] = scan[v]
  BY <1>2 DEF Arrive, Inv, TypeOK
<1>8. AloneAtHand'
  <2>1. \A h \in s.todo : AtHand(w) # <<s.job, h, s.day>>
    BY <1>1 DEF AtHand
  <2> QED BY <1>1, <1>2, <2>1, ArrivesAlone
<1>9. /\ scan' \in [Workers -> Scan] /\ raced' \subseteq Jobs \X Hotels \X Days
      /\ \A v \in Workers : Busy(v)' => scan'[v].day <= day'
      /\ ReadUnstamped' /\ HandTaken' /\ ReadChosen'
  BY <1>1, <1>2, <1>4, <1>5, ArrivesWithRows
<1>10. TypeOK'
  <2>1. cron' \in [Jobs -> [Hotels -> CronRow]]
    BY <1>6
  <2>2. UNCHANGED <<day, time, waiting, told, again, missed, chosen, changed, unsafe, upsets>>
    BY <1>2 DEF clock, choices
  <2> QED BY <1>9, <2>1, <2>2 DEF Inv, TypeOK
<1>11. NotAhead'
  <2>1. \A j \in Jobs, h \in Hotels : cron'[j][h].last <= day
    BY <1>1, <1>3, <1>6 DEF Inv, NotAhead
  <2> QED BY <1>2, <1>9, <2>1 DEF NotAhead, clock
<1>12. ToldIsStamped'
  <2> SUFFICES ASSUME NEW j \in Jobs, NEW h \in Hotels, NEW d \in Days,
                      <<j, h, d>> \in told \ raced',
                      ~ cron'[j][h].last >= d
               PROVE  \E v \in Workers : scan'[v].at = "stamp" /\ AtHand(v)' = <<j, h, d>>
    BY <1>2 DEF ToldIsStamped
  <2>1. <<j, h, d>> \notin lost /\ <<j, h, d>> \in told \ raced
    BY <1>7
  <2>2. AtHand(w) # <<j, h, d>> /\ ~ cron[j][h].last >= d
    <3>1. CASE <<j, h>> # <<s.job, s.h>>
      BY <1>6, <3>1 DEF AtHand
    <3>2. CASE <<j, h>> = <<s.job, s.h>>
      <4>1. j = s.job /\ h = s.h
        BY <3>2
      <4>2. s.day \in Nat /\ d \in Nat /\ cron[j][h].last \in Nat
        BY <1>1, RowTypes DEF Inv, Days
      <4>3. s.day < d
        <5>1. cron'[j][h].last = s.day
          BY <1>3, <1>6, <4>1
        <5> HIDE DEF s
        <5> QED BY <4>2, <5>1
      <4>4. ~ cron[j][h].last >= d
        BY <2>1, <4>1, <4>2, <4>3
      <4> QED BY <4>2, <4>3, <4>4 DEF AtHand
    <3> QED BY <3>1, <3>2
  <2>3. PICK v \in Workers : scan[v].at = "stamp" /\ AtHand(v) = <<j, h, d>>
    BY <2>1, <2>2 DEF Inv, ToldIsStamped
  <2> QED BY <1>7, <2>2, <2>3 DEF AtHand
<1>13. SettingsStand'
  <2>1. ASSUME NEW j \in Jobs, NEW h \in Hotels, <<j, h>> \notin unsafe
        PROVE  /\ cron'[j][h].enabled = chosen[j][h].enabled
               /\ cron'[j][h].runAt = chosen[j][h].runAt
    <3>1. CASE j = s.job /\ h = s.h
      BY <1>3, <1>5, <1>6, <2>1, <3>1
    <3>2. CASE <<j, h>> # <<s.job, s.h>>
      BY <1>6, <2>1, <3>2 DEF Inv, SettingsStand
    <3> QED BY <3>1, <3>2
  <2> QED BY <1>2, <2>1 DEF SettingsStand, choices
<1>14. OneAlertADay'
  BY <1>2, <1>7 DEF Inv, OneAlertADay
<1> QED BY <1>8, <1>9, <1>10, <1>11, <1>12, <1>13, <1>14 DEF Inv

LEMMA DiesInv ==
  ASSUME Inv, NEW w \in Workers, NEW restarted \in BOOLEAN, ScanDies(w, restarted)
  PROVE  Inv'
<1>1. /\ scan' = [scan EXCEPT ![w] = NoScan] /\ scan' \in [Workers -> Scan]
      /\ scan'[w] = NoScan /\ ~ Busy(w)'
      /\ \A v \in Workers : v # w => scan'[v] = scan[v]
      /\ raced' = raced \cup {AtHand(w)} /\ Busy(w)
      /\ UNCHANGED <<day, time, cron, told, again, chosen, changed, unsafe>>
  BY ConstantTypes DEF ScanDies, Inv, TypeOK, AtHand, Busy, clock, choices
<1>2. AtHand(w) \in Jobs \X Hotels \X Days /\ <<scan[w].job, scan[w].day>> \in Jobs \X Days
  BY ScanTypes DEF AtHand, Inv
<1>3. TypeOK'
  <2>1. missed' \subseteq Jobs \X Days
    BY <1>2 DEF ScanDies, Inv, TypeOK
  <2>2. upsets' \in 0..MaxUpsets
    BY ScanAssumption DEF ScanDies, Upset, Inv, TypeOK
  <2>3. raced' \subseteq Jobs \X Hotels \X Days
    BY <1>1, <1>2 DEF Inv, TypeOK
  <2>4. waiting' \subseteq Timed
    BY <1>1 DEF ScanDies, Inv, TypeOK, ReadUnstamped
  <2> QED BY <1>1, <2>1, <2>2, <2>3, <2>4 DEF Inv, TypeOK
<1>4. (NotAhead /\ ReadUnstamped /\ HandTaken)'
  BY <1>1 DEF Inv, NotAhead, ReadUnstamped, HandTaken, Busy
<1>5. (ReadChosen /\ SettingsStand /\ OneAlertADay)'
  BY <1>1 DEF Inv, ReadChosen, Holds, SettingsStand, OneAlertADay, Busy
<1>6. ToldIsStamped'
  <2>1. ASSUME NEW v \in Workers, scan[v].at = "stamp", AtHand(v) \notin raced'
        PROVE  scan'[v].at = "stamp" /\ AtHand(v)' = AtHand(v)
    BY <1>1, <2>1 DEF AtHand
  <2> QED BY <1>1, <2>1 DEF Inv, ToldIsStamped
<1>7. AloneAtHand'
  BY <1>1 DEF Inv, AloneAtHand, AtHand, Busy
<1> QED BY <1>3, <1>4, <1>5, <1>6, <1>7 DEF Inv

LEMMA SaveInv ==
  ASSUME Inv, NEW j \in Jobs, NEW h \in Hotels, NEW set \in Setting, SaveSettings(j, h, set)
  PROVE  Inv'
<1> DEFINE row == [cron[j][h] EXCEPT !.enabled = set.enabled, !.runAt = set.runAt]
<1>1. /\ cron' = [cron EXCEPT ![j][h] = row]
      /\ chosen' = [chosen EXCEPT ![j][h] = set]
      /\ UNCHANGED <<day, time, waiting, scan, told, again, raced, missed>>
  <2>1. cron' = [cron EXCEPT ![j][h].enabled = set.enabled, ![j][h].runAt = set.runAt]
    BY DEF SaveSettings
  <2>2. cron' = [cron EXCEPT ![j][h] = row]
    BY <2>1 DEF Inv, TypeOK
  <2> QED BY <2>2 DEF SaveSettings, clock, alerts
<1>2. /\ row \in CronRow /\ row.last = cron[j][h].last
      /\ row.enabled = set.enabled /\ row.runAt = set.runAt
  BY RowTypes DEF Inv, CronRow, Setting
<1> HIDE DEF row
<1>3. /\ cron' \in [Jobs -> [Hotels -> CronRow]] /\ chosen' \in [Jobs -> [Hotels -> Setting]]
      /\ cron'[j][h] = row /\ chosen'[j][h] = set
      /\ \A i \in Jobs, k \in Hotels : <<i, k>> # <<j, h>> =>
           cron'[i][k] = cron[i][k] /\ chosen'[i][k] = chosen[i][k]
  BY <1>1, <1>2 DEF Inv, TypeOK
<1>4. /\ unsafe \subseteq unsafe' /\ unsafe' \subseteq Jobs \X Hotels
      /\ \A w \in Workers : Holds(scan[w], j, h) => <<j, h>> \in unsafe'
  BY DEF SaveSettings, Inv, TypeOK
<1>5. TypeOK'
  <2>1. changed' \subseteq Jobs \X Hotels \X Days
    BY DEF SaveSettings, Inv, TypeOK
  <2>2. upsets' \in 0..MaxUpsets
    BY ScanAssumption DEF SaveSettings, Upset, Inv, TypeOK
  <2> QED BY <1>1, <1>3, <1>4, <2>1, <2>2 DEF Inv, TypeOK
<1>6. \A i \in Jobs, k \in Hotels : cron'[i][k].last = cron[i][k].last
  BY <1>2, <1>3
<1>7. (NotAhead /\ ReadUnstamped /\ HandTaken /\ ToldIsStamped /\ AloneAtHand /\ OneAlertADay)'
  BY <1>1, <1>6 DEF Inv, NotAhead, ReadUnstamped, HandTaken, ToldIsStamped, AloneAtHand,
                    OneAlertADay, AtHand, Busy
<1>8. ReadChosen'
  <2>1. ASSUME NEW w \in Workers, NEW i \in Jobs, NEW k \in Hotels,
               Holds(scan[w], i, k), <<i, k>> \notin unsafe'
        PROVE  /\ scan[w].rows[k].enabled = chosen'[i][k].enabled
               /\ scan[w].rows[k].runAt = chosen'[i][k].runAt
    <3>1. <<i, k>> # <<j, h>> /\ <<i, k>> \notin unsafe
      BY <1>4, <2>1
    <3>2. chosen'[i][k] = chosen[i][k]
      BY <1>3, <3>1
    <3> QED BY <2>1, <3>1, <3>2 DEF Inv, ReadChosen
  <2>2. UNCHANGED scan
    BY <1>1
  <2> QED BY <2>1, <2>2 DEF ReadChosen, Holds
<1>9. SettingsStand'
  BY <1>2, <1>3, <1>4 DEF Inv, SettingsStand
<1> QED BY <1>5, <1>7, <1>8, <1>9 DEF Inv

-----------------------------------------------------------------------------
THEOREM Invariant == Spec => []Inv
<1>1. ASSUME Inv, [Next]_vars PROVE Inv'
  <2>1. ASSUME NEW w \in Workers, NEW j \in Jobs, Heartbeat(w, j) PROVE Inv'
    <3>1. Begin(w, j, {h \in Hotels : Due(j, h)}, FALSE) /\ UNCHANGED upsets
      BY <2>1 DEF Heartbeat
    <3>2. j \in Timed /\ \A h \in {i \in Hotels : Due(j, i)} : cron[j][h].last # day
      BY <1>1, <2>1 DEF Due, Heartbeat, Inv, TypeOK
    <3>3. waiting' \subseteq Timed /\ upsets' \in 0..MaxUpsets
      BY <1>1, <2>1 DEF Heartbeat, Inv, TypeOK
    <3> QED BY <1>1, <3>1, <3>2, <3>3, BeginInv
  <2>2. ASSUME NEW w \in Workers, NEW j \in Jobs, NEW h \in Hotels, RunNow(w, j, h)
        PROVE  Inv'
    <3>1. Begin(w, j, {h}, TRUE) /\ UNCHANGED waiting
      BY <2>2 DEF RunNow
    <3>2. waiting' \subseteq Timed /\ upsets' \in 0..MaxUpsets
      BY <1>1, <2>2, ScanAssumption DEF RunNow, Upset, Inv, TypeOK
    <3> QED BY <1>1, <3>1, <3>2, BeginInv
  <2>3. ASSUME NEW w \in Workers, Proceed(w) PROVE Inv'
    <3>1. CASE Alert(w)
      BY <1>1, <3>1, AnswerInv DEF Alert, AtHand
    <3>2. CASE NothingToReport(w) \/ HotelFails(w)
      BY <1>1, <3>2, AnswerInv DEF NothingToReport, HotelFails, alerts
    <3>3. CASE Stamp(w)
      BY <1>1, <3>3, StampInv
    <3> QED BY <2>3, <3>1, <3>2, <3>3 DEF Proceed
  <2>4. CASE UNCHANGED vars
    <3>1. UNCHANGED <<day, time, waiting, cron, scan, told, again, raced, missed, chosen,
                      changed, unsafe, upsets>>
      BY <2>4 DEF vars, clock, alerts, choices
    <3>2. (TypeOK /\ NotAhead /\ ReadUnstamped /\ HandTaken)'
      BY <1>1, <3>1 DEF Inv, TypeOK, NotAhead, ReadUnstamped, HandTaken, Busy
    <3>3. (ReadChosen /\ SettingsStand /\ OneAlertADay)'
      BY <1>1, <3>1 DEF Inv, ReadChosen, Holds, SettingsStand, OneAlertADay
    <3>4. (ToldIsStamped /\ AloneAtHand)'
      BY <1>1, <3>1 DEF Inv, ToldIsStamped, AloneAtHand, AtHand, Busy
    <3> QED BY <3>2, <3>3, <3>4 DEF Inv
  <2> QED BY <1>1, <2>1, <2>2, <2>3, <2>4, TickInv, DiesInv, SaveInv DEF Next, Start
<1> QED BY <1>1, InitInv, PTL DEF Spec

(* Every row, scan and history has the shape the code gives it, for any    *)
(* number of jobs, hotels, days and overlapping scans.                     *)
THEOREM Types == Spec => []TypeOK
<1>1. Inv => TypeOK
  BY DEF Inv
<1> QED BY <1>1, Invariant, PTL

(* No hotel is alerted twice a day unless scans raced at it, however many  *)
(* heartbeats overlap or scans run into the next days.                     *)
THEOREM AlertedOnce == Spec => []OneAlertADay
<1>1. Inv => OneAlertADay
  BY DEF Inv
<1> QED BY <1>1, Invariant, PTL

(* Writing back what a scan has read loses no hotel's settings but those   *)
(* saved while a scan had them.                                            *)
THEOREM SettingsKept == Spec => []SettingsStand
<1>1. Inv => SettingsStand
  BY DEF Inv
<1> QED BY <1>1, Invariant, PTL
=============================================================================
