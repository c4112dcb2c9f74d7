------------------------------ MODULE Compensation ------------------------------
(* One bonus cycle with its allocations: compensation-cycle.service.ts.  No    *)
(* code creates an allocation, so that is external here.                       *)
EXTENDS Integers, FiniteSetsExt, Functions

CONSTANTS
  Allocations, Amounts,  \* bound: what is proposed and approved
  totalBudget,
  Calls,                 \* slots for calls in flight; each is used again and again
  Faults                 \* {"abort"}: an await throws or the process dies

VARIABLES
  cycle,    \* CompensationCycle: status, and allocatedTotal
  alloc,    \* CompensationAllocation rows
  call,     \* the calls in flight
  bonus,    \* history: bonus.disbursed events, by allocation
  overlap   \* history: two calls overlapped, or disburse did not commit

vars == <<cycle, alloc, call, bonus, overlap>>

NoCall == [do |-> "idle", on |-> 0, with |-> {}]

TypeOK ==
  /\ cycle \in [status : {"PLANNING", "OPEN", "APPROVAL", "DISBURSED", "CANCELLED"}, total : Nat]
  /\ alloc \in [Allocations -> [status : {"none", "PROPOSED", "APPROVED", "REJECTED", "DISBURSED"},
                                proposed : {0} \cup Amounts]]
  /\ call \in [Calls -> [do : {"idle", "open", "lock", "approve", "disburse", "cancel"},
                         on : Allocations \cup Nat, with : SUBSET Allocations]]
  /\ bonus \in [Allocations -> 0..2] /\ overlap \in BOOLEAN

Check(c, ok, do, on, with) ==
  /\ call[c] = NoCall /\ ok
  /\ call' = [call EXCEPT ![c] = [do |-> do, on |-> on, with |-> with]]
  /\ overlap' = (overlap \/ \E b \in Calls : call[b] # NoCall)
  /\ UNCHANGED <<cycle, alloc, bonus>>

Finish(c, do) ==
  /\ call[c].do = do
  /\ call' = [call EXCEPT ![c] = NoCall]

With(status) == {a \in Allocations : alloc[a].status = status}

\* External: allocations appear before the cycle is locked.
Propose(a, n) ==
  /\ cycle.status \in {"PLANNING", "OPEN"} /\ alloc[a].status = "none"
  /\ alloc' = [alloc EXCEPT ![a] = [status |-> "PROPOSED", proposed |-> n]]
  /\ overlap' = (overlap \/ \E b \in Calls : call[b] # NoCall)
  /\ UNCHANGED <<cycle, call, bonus>>

OpenCheck(c) == Check(c, cycle.status = "PLANNING", "open", 0, {})

\* Only what is still PROPOSED counts; what was approved before does not.
LockCheck(c) ==
  LET proposed == SumFunctionOnSet([a \in Allocations |-> alloc[a].proposed], With("PROPOSED"))
  IN Check(c, cycle.status = "OPEN" /\ proposed <= totalBudget, "lock", proposed, {})

ApproveCheck(c, a) == Check(c, alloc[a].status = "PROPOSED", "approve", a, {})

\* rejectAllocation checks nothing, and one read and one write need no slot.
Reject(a) ==
  /\ alloc[a].status # "none"
  /\ alloc' = [alloc EXCEPT ![a].status = "REJECTED"]
  /\ overlap' = (overlap \/ \E b \in Calls : call[b] # NoCall)
  /\ UNCHANGED <<cycle, call, bonus>>

\* Mutant: allocations that nobody decided are passed over.
DisburseUndecided(c) == Check(c, cycle.status = "APPROVAL", "disburse", 0, With("APPROVED"))

DisburseCheck(c) ==
  Check(c, cycle.status = "APPROVAL" /\ With("PROPOSED") = {}, "disburse", 0, With("APPROVED"))

CancelCheck(c) == Check(c, cycle.status \notin {"DISBURSED", "CANCELLED"}, "cancel", 0, {})

StatusWrite(c) ==
  \/ /\ Finish(c, "open") /\ cycle' = [cycle EXCEPT !.status = "OPEN"]
     /\ UNCHANGED <<alloc, bonus, overlap>>
  \/ /\ Finish(c, "lock") /\ cycle' = [status |-> "APPROVAL", total |-> call[c].on]
     /\ UNCHANGED <<alloc, bonus, overlap>>
  \/ /\ Finish(c, "cancel") /\ cycle' = [cycle EXCEPT !.status = "CANCELLED"]
     /\ UNCHANGED <<alloc, bonus, overlap>>
  \/ /\ Finish(c, "approve") /\ alloc' = [alloc EXCEPT ![call[c].on].status = "APPROVED"]
     /\ UNCHANGED <<cycle, bonus, overlap>>

Emitted(S) == [a \in Allocations |-> IF a \in S THEN Min({2, bonus[a] + 1}) ELSE bonus[a]]

\* One transaction; each event is emitted before it commits.
Disburse(c) ==
  /\ Finish(c, "disburse")
  /\ cycle' = [cycle EXCEPT !.status = "DISBURSED"]
  /\ alloc' = [a \in Allocations |-> IF a \in call[c].with
                                     THEN [alloc[a] EXCEPT !.status = "DISBURSED"] ELSE alloc[a]]
  /\ bonus' = Emitted(call[c].with)
  /\ UNCHANGED overlap

Abort(c) ==
  /\ "abort" \in Faults /\ call[c] # NoCall /\ Finish(c, call[c].do)
  /\ IF call[c].do = "disburse"
     THEN \E S \in SUBSET call[c].with : bonus' = Emitted(S) /\ overlap' = TRUE
     ELSE UNCHANGED <<bonus, overlap>>
  /\ UNCHANGED <<cycle, alloc>>

-------------------------------------------------------------------------------
Init ==
  /\ cycle = [status |-> "PLANNING", total |-> 0]
  /\ alloc = [a \in Allocations |-> [status |-> "none", proposed |-> 0]]
  /\ call = [c \in Calls |-> NoCall]
  /\ bonus = [a \in Allocations |-> 0] /\ overlap = FALSE

Next ==
  \/ \E a \in Allocations, n \in Amounts : Propose(a, n)
  \/ \E a \in Allocations : Reject(a)
  \/ \E c \in Calls : \/ OpenCheck(c) \/ LockCheck(c) \/ DisburseCheck(c) \/ CancelCheck(c)
                      \/ StatusWrite(c) \/ Disburse(c) \/ Abort(c)
                      \/ \E a \in Allocations : ApproveCheck(c, a)

Spec == Init /\ [][Next]_vars

-------------------------------------------------------------------------------
\* Unless calls overlapped or a transaction failed after its events were emitted, a
\* cycle that is disbursed leaves no allocation undecided or unpaid, and no bonus is
\* announced before or twice.
DoneMeansAllDone ==
  ~overlap => /\ cycle.status = "DISBURSED" => With("PROPOSED") \cup With("APPROVED") = {}
              /\ \A a \in Allocations :
                   /\ bonus[a] <= IF cycle.status = "DISBURSED" THEN 1 ELSE 0
                   /\ alloc[a].status = "DISBURSED" => bonus[a] = 1
===============================================================================
