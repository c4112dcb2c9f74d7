-------------------------------- MODULE Learning --------------------------------
(* The sequence of one learning path and one employee's enrolments:            *)
(* course-enrollment.service.ts, learning-path.service.ts and                  *)
(* training-assignment.service.ts.  Whether a course or the path is published  *)
(* makes no difference to any of them.                                         *)
EXTENDS Integers, FiniteSets

CONSTANTS
  Courses,
  Percents,   \* bound: what progress is reported as; 100 completes a course
  Calls       \* slots for calls in flight; each is used again and again

VARIABLES
  order,      \* LearningPathCourse: the course at each sequenceOrder of the path
  enrolled,   \* CourseEnrollment: progressPercent, and status as far as it differs
  call,       \* the calls in flight
  behind,     \* history: the courses that had to be completed at each enrolment
  lost,       \* history: stored progress was lowered, or a course announced again
  announced,  \* history: the courses of which course.completed was emitted
  overlap     \* history: two calls overlapped

vars == <<order, enrolled, call, behind, lost, announced, overlap>>

Nothing == "nothing"
NoRow   == [status |-> "NONE", percent |-> 0]
NoCall  == [do |-> "idle", on |-> Nothing, new |-> NoRow]
Places  == 0..Cardinality(Courses)

TypeOK ==
  /\ order \in [Places -> Courses \cup {Nothing}]
  /\ enrolled \in [Courses -> [status : {"NONE", "NOT_STARTED", "IN_PROGRESS", "COMPLETED"},
                               percent : {0, 100} \cup Percents]]
  /\ call \in [Calls -> [do : {"idle", "enroll", "progress", "complete"},
                         on : Courses \cup {Nothing},
                         new : [status : {"NONE", "IN_PROGRESS", "COMPLETED"},
                                percent : {0, 100} \cup Percents]]]
  /\ behind \in [Courses -> SUBSET Courses] /\ lost \in BOOLEAN
  /\ announced \subseteq Courses /\ overlap \in BOOLEAN

Init ==
  /\ order = [n \in Places |-> Nothing]
  /\ enrolled = [k \in Courses |-> NoRow]
  /\ call = [c \in Calls |-> NoCall]
  /\ behind = [k \in Courses |-> {}] /\ lost = FALSE
  /\ announced = {} /\ overlap = FALSE

enrolments == <<enrolled, call, behind, lost, announced, overlap>>

Start(c, do, on, new) ==
  /\ call[c] = NoCall
  /\ call' = [call EXCEPT ![c] = [do |-> do, on |-> on, new |-> new]]
  /\ overlap' = (overlap \/ \E b \in Calls : call[b] # NoCall)
  /\ UNCHANGED <<order, enrolled, lost, announced>>

Finish(c) == call' = [call EXCEPT ![c] = NoCall]

-------------------------------------------------------------------------------
(* The path                                                                   *)

InPath(k) == \E n \in Places : order[n] = k

\* addCourseToSequence: a place that is taken is refused by the unique index, a course
\* that has another place is not.
addCourseToSequence(k, n) ==
  /\ order[n] = Nothing
  /\ order' = [order EXCEPT ![n] = k]
  /\ UNCHANGED enrolments

removeCourseFromSequence(k, force) ==
  /\ InPath(k)
  /\ force \/ enrolled[k].status \notin {"NOT_STARTED", "IN_PROGRESS"}
  /\ order' = [n \in Places |-> IF order[n] = k THEN Nothing ELSE order[n]]
  /\ UNCHANGED enrolments

\* One transaction moves the courses of the list, one after the other, to the places
\* 1, 2, ...; a course with two places, or a place still taken, ends it.  Bound: the
\* list names a course once.
reorderSequence(list) ==
  /\ \A i, j \in DOMAIN list : list[i] = list[j] => i = j
  /\ \A i \in DOMAIN list : InPath(list[i]) =>
       /\ \A m, n \in Places : order[m] = list[i] /\ order[n] = list[i] => m = n
       /\ order[i] = Nothing \/ \E j \in 1..i : order[i] = list[j]
  /\ order' = [n \in Places |->
                 IF n \in DOMAIN list /\ (\E i \in DOMAIN list : i = n /\ InPath(list[i]))
                 THEN list[n]
                 ELSE IF \E i \in DOMAIN list : order[n] = list[i] THEN Nothing ELSE order[n]]
  /\ UNCHANGED enrolments

-------------------------------------------------------------------------------
(* Enrolments                                                                 *)

\* The courses that the lock of place n asks for; place 1 and lower ones have none.
Before(n) ==
  {k \in Courses : n > 1 /\ \E m \in Places : m < n /\ order[m] = k}

\* The lock that findFirst finds: of any of the course's places.
Locks(k) ==
  IF InPath(k) THEN {Before(n) : n \in {m \in Places : order[m] = k}} ELSE {{}}

\* Mutant: the courses before this one need not be completed.
EnrollUnlocked(c, k) ==
  \E before \in Locks(k) :
    /\ enrolled[k] = NoRow /\ behind' = [behind EXCEPT ![k] = before]
    /\ Start(c, "enroll", k, NoRow)

EnrollCheck(c, k) ==
  \E before \in Locks(k) :
    /\ enrolled[k] = NoRow
    /\ \A j \in before : enrolled[j].status = "COMPLETED"
    /\ behind' = [behind EXCEPT ![k] = before]
    /\ Start(c, "enroll", k, NoRow)

\* The unique index refuses a second row.
EnrollWrite(c) ==
  /\ call[c].do = "enroll"
  /\ enrolled' = [enrolled EXCEPT ![call[c].on].status = IF @ = "NONE" THEN "NOT_STARTED" ELSE @]
  /\ Finish(c)
  /\ UNCHANGED <<order, behind, lost, announced, overlap>>

\* bulkAssign: one transaction, and no course need be completed before.
bulkAssign(k) ==
  /\ enrolled[k] = NoRow
  /\ enrolled' = [enrolled EXCEPT ![k].status = "NOT_STARTED"]
  /\ UNCHANGED <<order, call, behind, lost, announced, overlap>>

\* computeEnrollmentTransition
Transition(row, p) ==
  IF row.status \in {"NONE", "COMPLETED"} \/ p < row.percent THEN {}
  ELSE {[status |-> IF p = 100 THEN "COMPLETED" ELSE "IN_PROGRESS", percent |-> p]}

ProgressCheck(c, k, p) ==
  \E new \in Transition(enrolled[k], p) : Start(c, "progress", k, new) /\ UNCHANGED behind

\* A course that reaches 100 in this way is not announced.
ProgressWrite(c) ==
  /\ call[c].do = "progress"
  /\ LET k == call[c].on IN
       /\ enrolled' = [enrolled EXCEPT ![k] = call[c].new]
       /\ lost' = (lost \/ call[c].new.percent < enrolled[k].percent)
  /\ Finish(c)
  /\ UNCHANGED <<order, behind, announced, overlap>>

CompleteCheck(c, k) ==
  /\ enrolled[k].status \in {"NOT_STARTED", "IN_PROGRESS"}
  /\ Start(c, "complete", k, [status |-> "COMPLETED", percent |-> 100])
  /\ UNCHANGED behind

CompleteWrite(c) ==
  /\ call[c].do = "complete"
  /\ LET k == call[c].on IN
       /\ enrolled' = [enrolled EXCEPT ![k] = call[c].new]
       /\ announced' = announced \cup {k}
       /\ lost' = (lost \/ k \in announced)
  /\ Finish(c)
  /\ UNCHANGED <<order, behind, overlap>>

Next ==
  \/ \E k \in Courses :
       \/ bulkAssign(k)
       \/ \E n \in Places : addCourseToSequence(k, n)
       \/ \E force \in BOOLEAN : removeCourseFromSequence(k, force)
       \/ \E c \in Calls : \/ EnrollCheck(c, k) \/ CompleteCheck(c, k)
                           \/ \E p \in Percents : ProgressCheck(c, k, p)
  \/ \E n \in Places : \E list \in [1..n -> Courses] : reorderSequence(list)
  \/ \E c \in Calls : EnrollWrite(c) \/ ProgressWrite(c) \/ CompleteWrite(c)

Spec == Init /\ [][Next]_vars

-------------------------------------------------------------------------------
\* Even if calls overlap, the courses that are completed are those at 100 percent.
\* Unless they did, no progress is ever lost, the courses that had to be completed
\* before an enrolment still are, and each course is announced once at most, and
\* only if it is completed.
DoneMeansAllDone ==
  /\ \A k \in Courses : enrolled[k].status = "COMPLETED" <=> enrolled[k].percent = 100
  /\ ~overlap => ~lost /\ \A k \in Courses :
       /\ \A j \in behind[k] : enrolled[j].status = "COMPLETED"
       /\ k \in announced => enrolled[k].status = "COMPLETED"
===============================================================================
