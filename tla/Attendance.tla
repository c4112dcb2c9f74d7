------------------------------ MODULE Attendance -------------------------------
(* One employee's attendance records: clocking in and out, corrections, and    *)
(* the three reports of exceptions: attendance.service.ts.                     *)
(*                                                                             *)
(* A day has the moments 1..EndOfDay; a clock shows the moment of the write,   *)
(* and a call reads the record before it, and writes by id or by upsert.       *)
EXTENDS Integers

CONSTANTS
  LastDay,     \* bound: the days are 1..LastDay
  DaysOff,     \* weekends, and the holidays of the default calendar
  EndOfDay,    \* bound: the moments of a day
  ShiftStart,  \* after this moment a clock-in is late; 09:00 in the code
  HalfDay,     \* less work than this is half a day; 240 minutes in the code
  Correctable, \* bound: the statuses a correction may state, among Statuses
  Calls        \* slots for API calls in flight; each is used again and again

VARIABLES
  today, clock,  \* the day and the moment
  log,           \* AttendanceLog, by day
  call,          \* the calls in flight
  partial,       \* history: the days of which only one end was corrected
  disturbed      \* history: two calls overlapped, or a day ended during one

vars == <<today, clock, log, call, partial, disturbed>>

Days     == 1..LastDay
Moments  == 1..EndOfDay
Null     == 0
Statuses == {"PRESENT", "LATE", "HALF_DAY"}
NoRow    == [in |-> Null, out |-> Null, worked |-> 0, status |-> "PRESENT", manual |-> FALSE]
NoCall   == [do |-> "idle", day |-> 0, in |-> Null, out |-> Null, status |-> "PRESENT"]

TypeOK ==
  /\ today \in Days /\ clock \in Moments
  /\ log \in [Days -> [in : {Null} \cup Moments, out : {Null} \cup Moments, worked : Int,
                       status : Statuses, manual : BOOLEAN]]
  /\ call \in [Calls -> [do : {"idle", "in", "out", "correct", "state"}, day : {0} \cup Days,
                         in : {Null} \cup Moments, out : {Null} \cup Moments, status : Statuses]]
  /\ partial \subseteq Days /\ disturbed \in BOOLEAN

Init ==
  /\ today = 1 /\ clock = 1
  /\ log = [d \in Days |-> NoRow]
  /\ call = [c \in Calls |-> NoCall] /\ partial = {} /\ disturbed = FALSE

Busy == \E c \in Calls : call[c] # NoCall

Start(c, next) ==
  /\ call[c] = NoCall
  /\ call' = [call EXCEPT ![c] = next]
  /\ disturbed' = (disturbed \/ Busy)
  /\ UNCHANGED <<today, clock, log, partial>>

Finish(c) == call' = [call EXCEPT ![c] = NoCall]

Arrival(m)        == IF m > ShiftStart THEN "LATE" ELSE "PRESENT"
Departure(w, old) == IF w < HalfDay THEN "HALF_DAY" ELSE old

-------------------------------------------------------------------------------
\* clockIn: a second one returns the first.
ClockInCheck(c) ==
  /\ log[today].in = Null
  /\ Start(c, [NoCall EXCEPT !.do = "in", !.day = today])

ClockInWrite(c) ==
  /\ call[c].do = "in"
  /\ log' = [log EXCEPT ![call[c].day].in = clock, ![call[c].day].status = Arrival(clock)]
  /\ Finish(c)
  /\ UNCHANGED <<today, clock, partial, disturbed>>

\* Mutant: a second clock-out is not refused.
ClockOutAgain(c) ==
  /\ log[today].in # Null
  /\ Start(c, [do |-> "out", day |-> today, in |-> log[today].in, out |-> log[today].out,
               status |-> log[today].status])

ClockOutCheck(c) ==
  /\ log[today].in # Null /\ log[today].out = Null
  /\ Start(c, [do |-> "out", day |-> today, in |-> log[today].in, out |-> Null,
               status |-> log[today].status])

\* Mutant: the minutes are stored, the status is left.
ClockOutKeepsStatus(c) ==
  /\ call[c].do = "out"
  /\ log' = [log EXCEPT ![call[c].day].out = clock, ![call[c].day].worked = clock - call[c].in]
  /\ Finish(c)
  /\ UNCHANGED <<today, clock, partial, disturbed>>

\* Minutes and status come from the record that was read.
ClockOutWrite(c) ==
  /\ call[c].do = "out"
  /\ LET w == clock - call[c].in IN
       log' = [log EXCEPT ![call[c].day].out = clock, ![call[c].day].worked = w,
                          ![call[c].day].status = Departure(w, call[c].status)]
  /\ Finish(c)
  /\ UNCHANGED <<today, clock, partial, disturbed>>

\* correctRecord, of any record: either end, or both, and the status may be given.
CorrectCheck(c, d, in, out, given) ==
  /\ log[d].in # Null
  /\ Start(c, [do |-> IF given = "none" THEN "correct" ELSE "state", day |-> d, in |-> in,
               out |-> out, status |-> IF given = "none" THEN log[d].status ELSE given])

\* The minutes are recalculated when both ends are given, the status also when
\* the clock-in alone is.
CorrectWrite(c) ==
  /\ call[c].do \in {"correct", "state"}
  /\ LET d == call[c].day  in == call[c].in  out == call[c].out  w == out - in IN
       /\ log' = [log EXCEPT ![d] =
            [in     |-> IF in = Null THEN @.in ELSE in,
             out    |-> IF out = Null THEN @.out ELSE out,
             worked |-> IF in # Null /\ out # Null THEN w ELSE @.worked,
             status |-> IF call[c].do = "state" THEN call[c].status
                        ELSE IF in = Null THEN @.status
                        ELSE IF out = Null THEN Arrival(in)
                        ELSE Departure(w, IF call[c].status = "LATE" THEN "LATE" ELSE "PRESENT"),
             manual |-> TRUE]]
       /\ partial' = IF in # Null /\ out # Null THEN partial \ {d}
                     ELSE IF in # Null \/ out # Null THEN partial \cup {d} ELSE partial
  /\ Finish(c)
  /\ UNCHANGED <<today, clock, disturbed>>

Tick ==
  /\ IF clock < EndOfDay THEN clock' = clock + 1 /\ UNCHANGED today
     ELSE today < LastDay /\ today' = today + 1 /\ clock' = 1
  /\ disturbed' = (disturbed \/ (Busy /\ clock' = 1))
  /\ UNCHANGED <<log, call, partial>>

Next ==
  \/ \E c \in Calls :
       \/ ClockInCheck(c) \/ ClockInWrite(c) \/ ClockOutCheck(c) \/ ClockOutWrite(c)
       \/ \E d \in Days, in, out \in {Null} \cup Moments, given \in Correctable \cup {"none"} :
            CorrectCheck(c, d, in, out, given)
       \/ CorrectWrite(c)
  \/ Tick

Spec == Init /\ [][Next]_vars

-------------------------------------------------------------------------------
(* getExceptions over the days 1..last, as three queries                      *)

Late(last)         == {d \in 1..last : log[d].status = "LATE"}
MissingPunch(last) == {d \in 1..last : d < today /\ log[d].in # Null /\ log[d].out = Null}
Absent(last)       == {d \in (1..last) \ DaysOff : log[d] = NoRow}

\* Unless calls overlapped: every past working day is reported as absent, or as a
\* missing punch, or was clocked out, and is one of these only; and a day that was
\* clocked out, and of which no single end was corrected, has the minutes between
\* its two ends; uncorrected, it is half a day if they are too few, and late only
\* if it began late.
AttendanceAddsUp ==
  ~disturbed =>
    /\ \A d \in (1..(today - 1)) \ DaysOff :
         LET is == {"absent" : x \in Absent(LastDay) \cap {d}}
                     \cup {"punch" : x \in MissingPunch(LastDay) \cap {d}}
         IN  IF log[d].out # Null THEN is = {} ELSE is \in {{"absent"}, {"punch"}}
    /\ \A d \in Days \ partial :
         log[d].out # Null =>
           /\ log[d].worked = log[d].out - log[d].in
           /\ ~log[d].manual => /\ log[d].status = "HALF_DAY" <=> log[d].worked < HalfDay
                                /\ d \in Late(LastDay) => log[d].in > ShiftStart
===============================================================================
