--------------------------------- MODULE Equity ---------------------------------
(* One equity grant and its vesting events: equity-grant.service.ts,           *)
(* compensation-math.ts and vesting-cron.processor.ts.  Nothing schedules the  *)
(* vesting run and nothing locks it, so that one may start at any time, beside *)
(* others.                                                                     *)
EXTENDS Integers, FiniteSets, FiniteSetsExt, Functions

CONSTANTS
  Plans,   \* [units, cliff, periods] that a grant may have
  Calls,   \* slots for vesting runs under way; each is used again and again
  Faults   \* {"abort"}: an await throws or the process dies

VARIABLES
  grant,    \* EquityGrant
  vesting,  \* its VestingEvent rows, by period
  today,    \* periods that have passed
  run,      \* events each vesting run has still to process, and the vestedUnits it read
  bunched,  \* history: a vesting run found two events of the grant due at once
  overlap   \* history: a vesting run started while another was under way

vars == <<grant, vesting, today, run, bunched, overlap>>

NoRun     == [left |-> {}, read |-> 0]
NoEvent   == [units |-> 0, status |-> "none"]
MaxPeriod == Max({p.periods : p \in Plans})
Periods   == 1..MaxPeriod

TypeOK ==
  /\ grant \in [plan : Plans, vested : Nat, status : {"ACTIVE", "FULLY_VESTED", "CANCELLED"}]
  /\ vesting \in [Periods -> [units : Nat, status : {"none", "PENDING", "PROCESSED", "SKIPPED"}]]
  /\ today \in 0..MaxPeriod /\ bunched \in BOOLEAN /\ overlap \in BOOLEAN
  /\ run \in [Calls -> [left : SUBSET Periods, read : Nat]]

\* computeVestingSchedule: nothing before the cliff, then all of it, and in the last
\* period what rounding left over.  A period without units has no event.
Schedule(plan) ==
  LET per      == plan.units \div plan.periods
      due(p)   == per + IF p = plan.periods THEN plan.units % plan.periods ELSE 0
      at(p)    == IF p < plan.cliff THEN 0
                  ELSE IF p = Max({1, plan.cliff}) THEN per * (p - 1) + due(p) ELSE due(p)
      event(p) == p = Max({1, plan.cliff}) \/ at(p) > 0
  IN [p \in Periods |-> IF p > plan.periods \/ p < plan.cliff \/ ~event(p) THEN NoEvent
                        ELSE [units |-> at(p), status |-> "PENDING"]]

createGrant(plan) ==
  /\ grant = [plan |-> plan, vested |-> 0, status |-> "ACTIVE"]
  /\ vesting = Schedule(plan)

\* External: time passes.
TimePasses ==
  /\ today < MaxPeriod /\ today' = today + 1
  /\ UNCHANGED <<grant, vesting, run, bunched, overlap>>

Pending == {p \in Periods : vesting[p].status = "PENDING"}

\* processDueVestingEvents reads the events and the grant beside them in one statement
\* (relationJoins, schema.prisma:3), and the grant never again.
RunStarts(c) ==
  LET due == {p \in Pending : p <= today} IN
  /\ run[c] = NoRun /\ due # {}
  /\ run' = [run EXCEPT ![c] = [left |-> due, read |-> grant.vested]]
  /\ bunched' = (bunched \/ Cardinality(due) > 1)
  /\ overlap' = (overlap \/ \E b \in Calls : run[b] # NoRun)
  /\ UNCHANGED <<grant, vesting, today>>

Processed(c, p) ==
  /\ p \in run[c].left
  /\ run' = [run EXCEPT ![c] = IF run[c].left = {p} THEN NoRun
                               ELSE [left |-> run[c].left \ {p}, read |-> run[c].read]]
  /\ vesting' = [vesting EXCEPT ![p].status = "PROCESSED"]
  /\ UNCHANGED <<today, bunched, overlap>>

\* Mutant: the run adds the units once more for each event.
ProcessTwice(c, p) ==
  /\ Processed(c, p)
  /\ grant' = [grant EXCEPT !.vested = run[c].read + 2 * vesting[p].units]

\* One transaction per event, by its id: another run, or cancelGrant, may have had it.
ProcessEvent(c, p) ==
  /\ Processed(c, p)
  /\ LET vested == run[c].read + vesting[p].units IN
       grant' = [grant EXCEPT !.vested = vested,
                              !.status = IF vested >= grant.plan.units THEN "FULLY_VESTED" ELSE @]

RunFails(c) ==
  /\ "abort" \in Faults /\ run[c] # NoRun /\ run' = [run EXCEPT ![c] = NoRun]
  /\ UNCHANGED <<grant, vesting, today, bunched, overlap>>

\* A cancelled grant skips what is pending, but not what a run has already listed.
cancelGrant ==
  /\ grant.status # "CANCELLED"
  /\ grant' = [grant EXCEPT !.status = "CANCELLED"]
  /\ vesting' = [p \in Periods |-> IF p \in Pending THEN [vesting[p] EXCEPT !.status = "SKIPPED"]
                                   ELSE vesting[p]]
  /\ UNCHANGED <<today, run, bunched, overlap>>

Init ==
  /\ \E plan \in Plans : createGrant(plan)
  /\ today = 0 /\ run = [c \in Calls |-> NoRun] /\ bunched = FALSE /\ overlap = FALSE

Next ==
  \/ TimePasses \/ cancelGrant
  \/ \E c \in Calls : RunStarts(c) \/ RunFails(c) \/ \E p \in Periods : ProcessEvent(c, p)

Spec == Init /\ [][Next]_vars

-------------------------------------------------------------------------------
\* The events of a grant give all of its units, unless its cliff lies beyond its end:
\* then it has none.  However runs overlap, find several events at once, fail or meet
\* cancelGrant, the grant never counts more units than those of the processed events,
\* and is fully vested only when they make up the whole grant.  As long as no run has
\* overlapped another or found two events, it counts exactly those units, and is not
\* ACTIVE once they make up the whole.
UnitsVestAsScheduled ==
  LET Units(S) == SumFunctionOnSet([p \in Periods |-> vesting[p].units], S)
      done     == {p \in Periods : vesting[p].status = "PROCESSED"}
  IN /\ Units(Periods) = IF grant.plan.cliff <= grant.plan.periods THEN grant.plan.units ELSE 0
     /\ grant.vested <= Units(done)
     /\ grant.status = "FULLY_VESTED" => Units(done) = grant.plan.units
     /\ ~bunched /\ ~overlap =>
          /\ grant.vested = Units(done)
          /\ done # {} /\ Units(done) = grant.plan.units => grant.status # "ACTIVE"
===============================================================================
