------------------------------ MODULE ReportExports ------------------------------
(* One saved report, one schedule of it, and the exports in the queue:         *)
(* saved-report.service.ts, report-schedule.service.ts,                        *)
(* schedule-dispatcher.processor.ts and report-export.processor.ts.  No code   *)
(* sets the first nextRunAt or queues the dispatcher's tick: both are external *)
(* here.                                                                       *)
EXTENDS Integers, FiniteSets

CONSTANTS
  Jobs,      \* bound: export jobs
  Attempts,  \* what triggerExport asks BullMQ for
  Ticks,     \* slots for dispatcher ticks in flight
  Faults     \* {"abort"}: a query or S3 throws; {"crash"}: the process dies

VARIABLES
  report,    \* SavedReport
  schedule,  \* ReportSchedule: isActive, and nextRunAt
  tick,      \* the ticks in flight
  job,       \* export jobs: state, attempts left, and whether someone is to be told
  objects,   \* S3 objects, by job
  ready,     \* REPORT_READY notifications, by job
  dueTimes,  \* history: nextRunAt came, this many times
  queued,    \* history: exports queued by the schedule
  overlap,   \* history: two ticks overlapped, or one did not end
  stalled,   \* history: jobs that ran again after a crash
  lost       \* history: jobs whose report was stored although the call threw

vars == <<report, schedule, tick, job, objects, ready, dueTimes, queued, overlap, stalled, lost>>

NoSchedule == [active |-> FALSE, next |-> "none"]
NoJob      == [state |-> "none", left |-> 0, tell |-> FALSE]
Full       == Cardinality(Jobs)

TypeOK ==
  /\ report \in {"none", "saved", "deleted"}
  /\ schedule \in [active : BOOLEAN, next : {"none", "unset", "later", "due"}]
  /\ tick \in [Ticks -> {"idle", "listed", "read", "added"}]
  /\ job \in [Jobs -> [state : {"none", "waiting", "loaded", "queried", "stored", "told",
                                "done", "failed"},
                       left : 0..Attempts, tell : BOOLEAN]]
  /\ objects \in [Jobs -> 0..Attempts + 1] /\ ready \in [Jobs -> 0..2]
  /\ dueTimes \in 0..Full /\ queued \in 0..Full
  /\ overlap \in BOOLEAN /\ stalled \subseteq Jobs /\ lost \subseteq Jobs

Init ==
  /\ report = "none" /\ schedule = NoSchedule
  /\ tick = [t \in Ticks |-> "idle"] /\ job = [j \in Jobs |-> NoJob]
  /\ objects = [j \in Jobs |-> 0] /\ ready = [j \in Jobs |-> 0]
  /\ dueTimes = 0 /\ queued = 0 /\ overlap = FALSE /\ stalled = {} /\ lost = {}

exports == <<job, objects, ready, stalled, lost>>
ticks   == <<tick, dueTimes, queued, overlap>>

-------------------------------------------------------------------------------
(* Saved reports and schedules                                                *)

save ==
  /\ report = "none" /\ report' = "saved"
  /\ UNCHANGED <<schedule, ticks, exports>>

\* Two awaits and no transaction: the schedules go first.
DeleteSchedules ==
  /\ report = "saved" /\ schedule.next # "none"
  /\ schedule' = NoSchedule
  /\ UNCHANGED <<report, ticks, exports>>

DeleteReport ==
  /\ report = "saved" /\ schedule.next = "none"
  /\ report' = "deleted"
  /\ UNCHANGED <<schedule, ticks, exports>>

create ==
  /\ report = "saved" /\ schedule.next = "none"
  /\ schedule' = [active |-> TRUE, next |-> "unset"]
  /\ UNCHANGED <<report, ticks, exports>>

toggleActive ==
  /\ schedule.next # "none"
  /\ schedule' = [schedule EXCEPT !.active = ~@]
  /\ UNCHANGED <<report, ticks, exports>>

\* External: nextRunAt is set or comes.
ComesDue ==
  /\ schedule.next \in {"unset", "later"} /\ dueTimes < Full
  /\ schedule' = [schedule EXCEPT !.next = "due"] /\ dueTimes' = dueTimes + 1
  /\ UNCHANGED <<report, tick, queued, overlap, exports>>

-------------------------------------------------------------------------------
(* The dispatcher                                                             *)

Step(t, here, next) == tick[t] = here /\ tick' = [tick EXCEPT ![t] = next]

\* findDueSchedules
TickList(t) ==
  /\ schedule.active /\ schedule.next = "due" /\ Step(t, "idle", "listed")
  /\ overlap' = (overlap \/ \E u \in Ticks : tick[u] # "idle")
  /\ UNCHANGED <<report, schedule, dueTimes, queued, exports>>

\* enqueueBySchedule reads the schedule again, but not whether it is still due.
TickRead(t) ==
  /\ Step(t, "listed", IF schedule.active THEN "read" ELSE "idle")
  /\ UNCHANGED <<report, schedule, dueTimes, queued, overlap, exports>>

Add(attempts, tell) ==
  \E j \in Jobs :
    /\ job[j] = NoJob
    /\ job' = [job EXCEPT ![j] = [state |-> "waiting", left |-> attempts, tell |-> tell]]
    /\ UNCHANGED <<objects, ready, stalled, lost>>

\* Without attempts BullMQ tries once; recipientId is optional.
TickAdd(t) ==
  /\ Step(t, "read", "added")
  /\ \E tell \in BOOLEAN : Add(1, tell)
  /\ queued' = queued + 1
  /\ UNCHANGED <<report, schedule, dueTimes, overlap>>

\* Mutant: nextRunAt is left in the past.
TickForgets(t) ==
  /\ Step(t, "added", "idle")
  /\ UNCHANGED <<report, schedule, dueTimes, queued, overlap, exports>>

\* The update fails if the schedule is gone.
TickUpdate(t) ==
  /\ Step(t, "added", "idle")
  /\ schedule' = IF schedule.next = "none" THEN schedule ELSE [schedule EXCEPT !.next = "later"]
  /\ UNCHANGED <<report, dueTimes, queued, overlap, exports>>

\* allSettled logs what one schedule throws.
TickAbort(t) ==
  /\ "abort" \in Faults /\ tick[t] # "idle" /\ Step(t, tick[t], "idle")
  /\ overlap' = TRUE
  /\ UNCHANGED <<report, schedule, dueTimes, queued, exports>>

-------------------------------------------------------------------------------
(* The exports                                                                *)

triggerExport ==
  /\ report = "saved" /\ Add(Attempts, TRUE)
  /\ UNCHANGED <<report, schedule, ticks>>

Moves(j, here, next) == job[j].state = here /\ job' = [job EXCEPT ![j].state = next]
Others == UNCHANGED <<report, schedule, ticks>>

\* After 5 seconds or more it is tried again, if attempts are left.
Fails(j) ==
  /\ job' = [job EXCEPT ![j].left = @ - 1,
                        ![j].state = IF job[j].left > 1 THEN "waiting" ELSE "failed"]
  /\ UNCHANGED <<ready, stalled>> /\ Others

Load(j) ==
  /\ report = "saved" /\ Moves(j, "waiting", "loaded")
  /\ UNCHANGED <<objects, ready, stalled, lost>> /\ Others

LoadFails(j) ==
  /\ job[j].state = "waiting" /\ report = "deleted" /\ Fails(j)
  /\ UNCHANGED <<objects, lost>>

\* ReportQueryService.run and formatReport
RunQuery(j) ==
  /\ Moves(j, "loaded", "queried")
  /\ UNCHANGED <<objects, ready, stalled, lost>> /\ Others

QueryFails(j) ==
  /\ "abort" \in Faults /\ job[j].state = "loaded" /\ Fails(j)
  /\ UNCHANGED <<objects, lost>>

\* The key has the time in it, to the second: every try stores under its own.
Put(j) == objects' = [objects EXCEPT ![j] = @ + 1]

Store(j) ==
  /\ Moves(j, "queried", "stored") /\ Put(j)
  /\ UNCHANGED <<ready, stalled, lost>> /\ Others

\* putObject throws; the report may be there all the same.
StoreFails(j) ==
  /\ "abort" \in Faults /\ job[j].state = "queried" /\ Fails(j)
  /\ \/ UNCHANGED <<objects, lost>>
     \/ Put(j) /\ lost' = lost \cup {j}

\* Mutant: a failure to notify fails the job.
NotifyThrows(j) ==
  /\ job[j].state = "stored" /\ UNCHANGED <<objects, lost>>
  /\ \/ /\ Moves(j, "stored", "told")
        /\ ready' = [ready EXCEPT ![j] = @ + (IF job[j].tell THEN 1 ELSE 0)]
        /\ UNCHANGED stalled /\ Others
     \/ "abort" \in Faults /\ Fails(j)

\* A notification that cannot be stored does not fail the job.
Notify(j) ==
  /\ Moves(j, "stored", "told")
  /\ \/ ready' = [ready EXCEPT ![j] = @ + (IF job[j].tell THEN 1 ELSE 0)]
     \/ "abort" \in Faults /\ UNCHANGED ready
  /\ UNCHANGED <<objects, stalled, lost>> /\ Others

\* External: BullMQ learns that the job is done.
Complete(j) ==
  /\ Moves(j, "told", "done")
  /\ UNCHANGED <<objects, ready, stalled, lost>> /\ Others

\* The worker dies, and BullMQ gives the stalled job to another one, once.
Crash(j) ==
  /\ "crash" \in Faults /\ job[j].state \in {"loaded", "queried", "stored", "told"}
  /\ j \notin stalled /\ stalled' = stalled \cup {j}
  /\ job' = [job EXCEPT ![j].state = "waiting"]
  /\ UNCHANGED <<objects, ready, lost>> /\ Others

Next ==
  \/ save \/ DeleteSchedules \/ DeleteReport \/ create \/ toggleActive \/ ComesDue
  \/ triggerExport
  \/ \E t \in Ticks : TickList(t) \/ TickRead(t) \/ TickAdd(t) \/ TickUpdate(t) \/ TickAbort(t)
  \/ \E j \in Jobs : \/ Load(j) \/ LoadFails(j) \/ RunQuery(j) \/ QueryFails(j) \/ Store(j)
                     \/ StoreFails(j) \/ Notify(j) \/ Complete(j) \/ Crash(j)

Spec == Init /\ [][Next]_vars

-------------------------------------------------------------------------------
\* However often a step of it fails and is tried again, an export stores one report;
\* only if the answer to storing it was lost, up to one for each attempt, and one
\* more if its worker died.  It tells its recipient once at most, or twice if its
\* worker died, and never before a report is stored.  An export that is done has
\* stored one, and one that failed has told nobody, unless its worker died.  Unless
\* ticks overlapped or one did not end, the schedule queues one export at most for
\* each time that it came due.
DeliveredOnce ==
  /\ \A j \in Jobs :
       LET again == IF j \in stalled THEN 1 ELSE 0 IN
       /\ ready[j] <= objects[j] /\ ready[j] <= 1 + again
       /\ objects[j] <= (IF j \in lost THEN Attempts ELSE 1) + again
       /\ job[j].state = "done" => objects[j] >= 1
       /\ job[j].state = "failed" => /\ ready[j] <= again
                                     /\ j \notin lost \cup stalled => objects[j] = 0
  /\ ~overlap => queued <= dueTimes
===============================================================================
