----------------------------- MODULE DailyScans -----------------------------
(***************************************************************************)
(* The daily jobs of the hotels (check-outs due, no-shows, maintenance,    *)
(* absences, digests...).  A queue starts each job every five minutes; the *)
(* job reads every hotel's row for it once, then works through the hotels  *)
(* one by one, skips those not due, and stamps the row of each hotel it    *)
(* handled so that no later heartbeat handles it again that day.  Scans    *)
(* overlap: a heartbeat with the one before, both with a run a manager     *)
(* asked for.  The jobs differ in what they report, not in this protocol.  *)
(* (The tasks the check-out scan leaves are Turnover's.)                   *)
(*                                                                         *)
(* A day has Beats heartbeats, which are its times; one time zone.         *)
(***************************************************************************)
EXTENDS Integers, FiniteSetsExt

CONSTANTS Jobs,
          Timed,      \* the jobs with a heartbeat
          NHotels,    \* hotels, numbered in the order they were created
          LastDay, Beats,
          RunAts,     \* the first heartbeat after the time a hotel set;
                      \* Beats if the day has none any more
          Workers,    \* scans that may overlap
          MaxUpsets   \* bound: runs asked for, settings saved and scans
                      \* that die, together

Hotels == 1..NHotels
Days   == 1..LastDay
Times  == 0..(Beats - 1)

ASSUME ScanAssumption ==
  /\ Jobs # {} /\ Timed \subseteq Jobs
  /\ NHotels \in Nat \ {0} /\ LastDay \in Nat \ {0} /\ Beats \in Nat \ {0}
  /\ RunAts \subseteq 0..Beats /\ RunAts # {}
  /\ MaxUpsets \in Nat

VARIABLES
  day, time,  \* the clock
  waiting,    \* the jobs whose heartbeat waits in the queue
  cron,       \* hotelCronSetting rows
  scan,       \* scans in flight
  told,       \* history: <<job, hotel, day>> alerted
  again,      \* history: <<job, hotel, day>> alerted once more
  raced,      \* history: <<job, hotel, day>> handled twice, or left unstamped
  missed,     \* history: <<job, day>> whose scan came late or died
  chosen,     \* history: the settings each hotel saved last
  changed,    \* history: <<job, hotel, day>> whose settings were saved
  unsafe,     \* history: <<job, hotel>> whose settings were saved in a scan
  upsets

clock   == <<day, time>>
alerts  == <<told, again, raced>>
choices == <<chosen, changed, unsafe>>
vars == <<clock, waiting, cron, scan, alerts, missed, choices, upsets>>

Setting == [enabled : BOOLEAN, runAt : RunAts]
CronRow == [enabled : BOOLEAN, runAt : RunAts,
            last : {0} \cup Days]   \* day of lastTriggeredAt; 0 is null

(* day is that of the reference, rows what the scan read of the hotels, h  *)
(* the hotel at hand and todo the due ones after it.                       *)
Scan == [at : {"idle", "query", "stamp"}, job : Jobs, forced : BOOLEAN,
         day : Days, rows : [Hotels -> CronRow],
         todo : SUBSET Hotels, h : Hotels]

Preset  == [enabled |-> TRUE, runAt |-> CHOOSE t \in RunAts : TRUE]
NoRow   == [enabled |-> Preset.enabled, runAt |-> Preset.runAt, last |-> 0]

NoScan == [at |-> "idle", job |-> CHOOSE j \in Jobs : TRUE, forced |-> FALSE,
           day |-> 1, rows |-> [h \in Hotels |-> NoRow],
           todo |-> {}, h |-> 1]

Upset == upsets < MaxUpsets /\ upsets' = upsets + 1

(***************************************************************************)
(* The clock and the queue.  A repeatable job waits in the queue once,     *)
(* however many of its heartbeats nobody picked up.                        *)
(***************************************************************************)
Tick ==
  /\ \/ time + 1 \in Times /\ time' = time + 1 /\ day' = day
     \/ time + 1 \notin Times /\ day < LastDay /\ time' = 0 /\ day' = day + 1
  /\ waiting' = Timed
  /\ missed' = missed \cup {<<j, day>> : j \in waiting}
  /\ UNCHANGED <<cron, scan, alerts, choices, upsets>>

(***************************************************************************)
(* The loop over the hotels.  Whether one is due is decided from the rows  *)
(* and the time the scan began with, so it is decided there for them all.  *)
(***************************************************************************)
(* Faulty variant: the stamp of an earlier heartbeat is not looked at.     *)
DueThoughStamped(j, h) == cron[j][h].enabled /\ time >= cron[j][h].runAt

Due(j, h) ==
  /\ cron[j][h].enabled
  /\ time >= cron[j][h].runAt
  /\ cron[j][h].last # day

MoveOn(s) ==
  IF s.todo = {} THEN NoScan
  ELSE [s EXCEPT !.at = "query", !.h = Min(s.todo), !.todo = @ \ {Min(s.todo)}]

(* Scan w comes to a hotel that was stamped since it was read, or that     *)
(* another scan is handling, or by order.                                  *)
Contested(w, s) ==
  \/ s.forced
  \/ cron[s.job][s.h].last # s.rows[s.h].last
  \/ \E v \in Workers \ {w} :
       scan[v].at # "idle" /\ scan[v].job = s.job /\ scan[v].h = s.h /\ scan[v].day = s.day

Arrive(w, s, lost) ==
  /\ scan' = [scan EXCEPT ![w] = s]
  /\ raced' = raced \cup lost \cup
       (IF s.at # "idle" /\ Contested(w, s) THEN {<<s.job, s.h, s.day>>} ELSE {})

Begin(w, j, hotels, forced) ==
  /\ scan[w].at = "idle"
  /\ w = CHOOSE v \in Workers : scan[v].at = "idle"
  /\ Arrive(w, MoveOn([NoScan EXCEPT !.job = j, !.forced = forced, !.day = day,
                                     !.rows = cron[j], !.todo = hotels]), {})
  /\ UNCHANGED <<clock, cron, told, again, missed, choices>>

(* The @Process handlers of the queues.                                    *)
Heartbeat(w, j) ==
  /\ j \in waiting
  /\ waiting' = waiting \ {j}
  /\ Begin(w, j, {h \in Hotels : Due(j, h)}, FALSE)
  /\ UNCHANGED upsets

(* runCronJob(): one hotel, whatever its settings.                         *)
RunNow(w, j, h) ==
  /\ Begin(w, j, {h}, TRUE)
  /\ Upset
  /\ UNCHANGED waiting

(***************************************************************************)
(* One hotel: the query, the alert if there are rows to report, the stamp. *)
(***************************************************************************)
Goto(w, s) == scan' = [scan EXCEPT ![w].at = s]

(* notifications.dispatch().                                               *)
Alert(w) ==
  LET s == scan[w]
  IN  /\ s.at = "query"
      /\ told' = told \cup {<<s.job, s.h, s.day>>}
      /\ again' = again \cup (told \cap {<<s.job, s.h, s.day>>})
      /\ Goto(w, "stamp")
      /\ UNCHANGED <<clock, waiting, cron, raced, missed, choices, upsets>>

NothingToReport(w) ==
  /\ scan[w].at = "query"
  /\ Goto(w, "stamp")
  /\ UNCHANGED <<clock, waiting, cron, alerts, missed, choices, upsets>>

(* Faulty variant: an error in one hotel ends the scan.                    *)
HotelFailsAllStop(w) ==
  /\ scan[w].at = "query"
  /\ scan' = [scan EXCEPT ![w] = NoScan]
  /\ UNCHANGED <<clock, waiting, cron, alerts, missed, choices, upsets>>

(* An error in one hotel is caught, and stamped as well.                   *)
HotelFails(w) ==
  /\ scan[w].at = "query"
  /\ Goto(w, "stamp")
  /\ UNCHANGED <<clock, waiting, cron, alerts, missed, choices, upsets>>

(* Faulty variant: the stamp puts the row back to the default settings.    *)
StampPreset(w) ==
  LET s == scan[w]
      last == cron[s.job][s.h].last
  IN  /\ s.at = "stamp"
      /\ cron' = [cron EXCEPT ![s.job][s.h] = [NoRow EXCEPT !.last = s.day]]
      /\ Arrive(w, MoveOn(s), {<<s.job, s.h, d>> : d \in s.day + 1 .. last})
      /\ UNCHANGED <<clock, waiting, told, again, missed, choices, upsets>>

(* Faulty variant: the stamp bears the date of tomorrow.                   *)
StampTomorrow(w) ==
  LET s == scan[w]
  IN  /\ s.at = "stamp"
      /\ cron' = [cron EXCEPT ![s.job][s.h] = [s.rows[s.h] EXCEPT !.last = s.day + 1]]
      /\ Arrive(w, MoveOn(s), {})
      /\ UNCHANGED <<clock, waiting, told, again, missed, choices, upsets>>

(* recordCronJobSuccess() and recordCronJobFailure(): the day of the       *)
(* reference and, again, the settings the scan had read.  A scan of        *)
(* yesterday that ends late takes the later stamp away.                    *)
Stamp(w) ==
  LET s == scan[w]
      last == cron[s.job][s.h].last
  IN  /\ s.at = "stamp"
      /\ cron' = [cron EXCEPT ![s.job][s.h] = [s.rows[s.h] EXCEPT !.last = s.day]]
      /\ Arrive(w, MoveOn(s), {<<s.job, s.h, d>> : d \in s.day + 1 .. last})
      /\ UNCHANGED <<clock, waiting, told, again, missed, choices, upsets>>

(* The stamp cannot be written, or the process dies: the scan ends here.   *)
(* The queue may start a job again whose worker died.                      *)
ScanDies(w, restarted) ==
  LET s == scan[w]
  IN  /\ s.at # "idle"
      /\ restarted => ~ s.forced
      /\ Upset
      /\ waiting' = IF restarted THEN waiting \cup {s.job} ELSE waiting
      /\ raced' = raced \cup {<<s.job, s.h, s.day>>}
      /\ missed' = missed \cup {<<s.job, s.day>>}
      /\ scan' = [scan EXCEPT ![w] = NoScan]
      /\ UNCHANGED <<clock, cron, told, again, choices>>

(***************************************************************************)
(* updateProfile(): the hotel's settings for a job, when they change.      *)
(***************************************************************************)
Holds(s, j, h) == s.at # "idle" /\ s.job = j /\ h \in s.todo \cup {s.h}

SaveSettings(j, h, set) ==
  /\ set # chosen[j][h]
  /\ Upset
  /\ cron' = [cron EXCEPT ![j][h].enabled = set.enabled, ![j][h].runAt = set.runAt]
  /\ chosen' = [chosen EXCEPT ![j][h] = set]
  /\ changed' = changed \cup {<<j, h, day>>}
  /\ unsafe' = IF \E w \in Workers : Holds(scan[w], j, h)
               THEN unsafe \cup {<<j, h>>} ELSE unsafe
  /\ UNCHANGED <<clock, waiting, scan, alerts, missed>>

-----------------------------------------------------------------------------
Init ==
  /\ day = 1 /\ time = 0
  /\ waiting = Timed
  /\ cron = [j \in Jobs |-> [h \in Hotels |-> NoRow]]
  /\ scan = [w \in Workers |-> NoScan]
  /\ told = {} /\ again = {} /\ raced = {} /\ missed = {}
  /\ chosen = [j \in Jobs |-> [h \in Hotels |-> Preset]]
  /\ changed = {} /\ unsafe = {}
  /\ upsets = 0

Start(w) ==
  \/ \E j \in Jobs : Heartbeat(w, j)
  \/ \E j \in Jobs, h \in Hotels : RunNow(w, j, h)

Proceed(w) == Alert(w) \/ NothingToReport(w) \/ HotelFails(w) \/ Stamp(w)

Next ==
  \/ Tick
  \/ \E w \in Workers : \/ Start(w) \/ Proceed(w)
                        \/ \E restarted \in BOOLEAN : ScanDies(w, restarted)
  \/ \E j \in Jobs, h \in Hotels, set \in Setting : SaveSettings(j, h, set)

Spec == Init /\ [][Next]_vars

(* Time passes, and so do the jobs: one that waits is handed to a free     *)
(* worker, and an await of a scan is answered or fails.                    *)
Work == \E w \in Workers : Proceed(w) \/ \E j \in Jobs : Heartbeat(w, j)

FairSpec == Spec /\ WF_vars(Tick) /\ WF_vars(Work)

-----------------------------------------------------------------------------
(* Every row, scan and history has the shape the code gives it.            *)
TypeOK ==
  /\ day \in Days /\ time \in Times
  /\ waiting \subseteq Timed
  /\ cron \in [Jobs -> [Hotels -> CronRow]]
  /\ scan \in [Workers -> Scan]
  /\ {told, again, raced, changed} \subseteq SUBSET (Jobs \X Hotels \X Days)
  /\ missed \subseteq Jobs \X Days
  /\ chosen \in [Jobs -> [Hotels -> Setting]]
  /\ unsafe \subseteq Jobs \X Hotels
  /\ upsets \in 0..MaxUpsets

(* A hotel gets one alert of a job a day, also when heartbeats overlap, a  *)
(* hotel fails or a scan runs past midnight: a second one takes a run by   *)
(* order, two scans at the hotel at once, a stamp taken away by a scan of  *)
(* the day before, or a scan that died at the hotel.                       *)
OneAlertADay == again \subseteq raced

(* The settings a hotel saved stand, though every scan writes them back,   *)
(* unless it saved them while a scan that had read the row was under way.  *)
SettingsStand ==
  \A j \in Jobs, h \in Hotels :
    <<j, h>> \notin unsafe =>
      /\ cron[j][h].enabled = chosen[j][h].enabled
      /\ cron[j][h].runAt = chosen[j][h].runAt

(* Each day a job reaches each hotel that wants it before the day's last   *)
(* heartbeat, though the job's part for another hotel fails, unless the    *)
(* day's scan came late or died, or the hotel changed its mind.            *)
Served(j, h, d) ==
  \/ ~ chosen[j][h].enabled \/ chosen[j][h].runAt = Beats
  \/ cron[j][h].last >= d
  \/ <<j, d>> \in missed
  \/ <<j, h, d>> \in changed \cup raced
  \/ <<j, h>> \in unsafe

Reached(j) == \A d \in Days : day = d ~> \A h \in Hotels : Served(j, h, d)

EveryHotelReached == \A j \in Timed : Reached(j)
=============================================================================
