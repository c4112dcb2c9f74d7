------------------------------ MODULE SalarySetup ------------------------------
(* Salary components, the structures made of them, and the salaries of one     *)
(* employee that name a structure: salary-component.service.ts,                *)
(* salary-structure.service.ts and employee-salary.service.ts.  A call checks  *)
(* first and writes after an await, by id.                                     *)
EXTENDS Naturals, Sequences, FiniteSets

CONSTANTS
  Components, Structures,
  Calls,        \* slots for API calls in flight; each is used again and again
  LastDay,      \* bound: a salary takes effect on one of 1..LastDay
  MaxSalaries,  \* bound: salaries assigned
  Faults        \* {"abort"}: an await throws or the process dies

VARIABLES
  component,   \* SalaryComponent rows
  structure,   \* SalaryStructure rows with their SalaryStructureComponent rows
  salary,      \* EmployeeSalary rows of the employee, in the order of their creation
  inCycle,     \* structures named by an entry of a payroll cycle not REVERSED
  call,        \* the calls in flight
  overlap,     \* history: two calls have overlapped
  backdated,   \* history: a salary was assigned to a day not after all before it
  unvalidated  \* history: structures whose components were never looked up

vars == <<component, structure, salary, inCycle, call, overlap, backdated, unvalidated>>

Days   == 1..LastDay
Open   == LastDay + 1   \* effectiveTo: null
NoCall == [do |-> "idle", of |-> 0, with |-> {}, day |-> 0]
Ids    == Components \cup Structures \cup (0..MaxSalaries)

TypeOK ==
  /\ component \in [Components -> {"none", "active", "inactive"}]
  /\ structure \in [Structures -> [state : {"none", "active", "inactive"},
                                   has : SUBSET Components]]
  /\ salary \in Seq([structure : Structures, from : Days, to : 0..Open,
                     status : {"DRAFT", "APPROVED"}])
  /\ inCycle \subseteq Structures /\ unvalidated \subseteq Structures
  /\ call \in [Calls -> [do : {"idle", "dropComponent", "create", "replace", "drop", "clone",
                               "assign", "approve"},
                         of : Ids, with : SUBSET Components, day : {0} \cup Days]]
  /\ overlap \in BOOLEAN /\ backdated \in BOOLEAN

Init ==
  /\ component = [k \in Components |-> "none"]
  /\ structure = [s \in Structures |-> [state |-> "none", has |-> {}]]
  /\ salary = <<>> /\ inCycle = {} /\ unvalidated = {}
  /\ call = [c \in Calls |-> NoCall] /\ overlap = FALSE /\ backdated = FALSE

\* The checks of a call; a refused call changes nothing and is left out.
Check(c, ok, do, of, with, day) ==
  /\ call[c] = NoCall /\ ok
  /\ call' = [call EXCEPT ![c] = [do |-> do, of |-> of, with |-> with, day |-> day]]
  /\ overlap' = (overlap \/ \E b \in Calls : call[b] # NoCall)
  /\ UNCHANGED <<component, structure, salary, inCycle, backdated, unvalidated>>

Finish(c, do) ==
  /\ call[c].do = do
  /\ call' = [call EXCEPT ![c] = NoCall]
  /\ UNCHANGED overlap

-------------------------------------------------------------------------------
(* Components                                                                 *)

CreateComponent(k) ==
  /\ component[k] = "none"
  /\ component' = [component EXCEPT ![k] = "active"]
  /\ UNCHANGED <<structure, salary, inCycle, call, overlap, backdated, unvalidated>>

\* softDelete: refused while an active structure has the component.
DropComponentCheck(c, k) ==
  Check(c, component[k] # "none"
             /\ \A s \in Structures : structure[s].state = "active" => k \notin structure[s].has,
        "dropComponent", k, {}, 0)

DropComponentWrite(c) ==
  /\ Finish(c, "dropComponent")
  /\ component' = [component EXCEPT ![call[c].of] = "inactive"]
  /\ UNCHANGED <<structure, salary, inCycle, backdated, unvalidated>>

-------------------------------------------------------------------------------
(* Structures                                                                 *)

Free(s) == structure[s].state = "none"

CreateCheck(c, s, with) ==
  Check(c, Free(s) /\ \A k \in with : component[k] = "active", "create", s, with, 0)

\* clone: the source may be inactive, and its components are copied as read.
CloneCheck(c, s, source) ==
  Check(c, Free(s) /\ ~Free(source), "clone", s, structure[source].has, 0)

\* One transaction; the row is new, whatever other calls did meanwhile.
CreateWrite(c) ==
  \E do \in {"create", "clone"} :
    /\ Finish(c, do)
    /\ LET s == call[c].of IN
         /\ Free(s)
         /\ structure' = [structure EXCEPT ![s] = [state |-> "active", has |-> call[c].with]]
         /\ unvalidated' = IF do = "clone" THEN unvalidated \cup {s} ELSE unvalidated
    /\ UNCHANGED <<component, salary, inCycle, backdated>>

\* update: any components at all, unless a payroll cycle uses the structure.
ReplaceCheck(c, s, with) ==
  Check(c, ~Free(s) /\ s \notin inCycle /\ \A k \in with : component[k] # "none",
        "replace", s, with, 0)

ReplaceWrite(c) ==
  /\ Finish(c, "replace")
  /\ structure' = [structure EXCEPT ![call[c].of].has = call[c].with]
  /\ unvalidated' = unvalidated \cup {call[c].of}
  /\ UNCHANGED <<component, salary, inCycle, backdated>>

OpenSalaries(s) == {i \in DOMAIN salary : salary[i].structure = s /\ salary[i].to = Open}

\* Mutant: a structure is deleted under the employees that have it.
DropHeld(c, s) == Check(c, ~Free(s), "drop", s, {}, 0)

DropCheck(c, s) == Check(c, ~Free(s) /\ OpenSalaries(s) = {}, "drop", s, {}, 0)

DropWrite(c) ==
  /\ Finish(c, "drop")
  /\ structure' = [structure EXCEPT ![call[c].of].state = "inactive"]
  /\ UNCHANGED <<component, salary, inCycle, backdated, unvalidated>>

-------------------------------------------------------------------------------
(* Salaries                                                                   *)

AssignCheck(c, s, d) ==
  Check(c, structure[s].state = "active" /\ Len(salary) < MaxSalaries, "assign", s, {}, d)

Closed(d) == [i \in DOMAIN salary |->
                IF salary[i].to = Open THEN [salary[i] EXCEPT !.to = d - 1] ELSE salary[i]]

Assigned(c) == [structure |-> call[c].of, from |-> call[c].day, to |-> Open,
                status |-> "DRAFT"]

\* Mutant: only a draft is closed by its successor.
AssignBesideApproved(c) ==
  /\ Finish(c, "assign") /\ Len(salary) < MaxSalaries
  /\ salary' = Append([i \in DOMAIN salary |->
                  IF salary[i].status = "DRAFT" THEN Closed(call[c].day)[i] ELSE salary[i]],
                  Assigned(c))
  /\ UNCHANGED <<component, structure, inCycle, backdated, unvalidated>>

\* assign, and revise: every open salary ends the day before.
AssignWrite(c) ==
  /\ Finish(c, "assign") /\ Len(salary) < MaxSalaries
  /\ salary' = Append(Closed(call[c].day), Assigned(c))
  /\ backdated' = (backdated \/ \E i \in DOMAIN salary : salary[i].from >= call[c].day)
  /\ UNCHANGED <<component, structure, inCycle, unvalidated>>

ApproveCheck(c, i) == Check(c, salary[i].status = "DRAFT", "approve", i, {}, 0)

ApproveWrite(c) ==
  /\ Finish(c, "approve")
  /\ salary' = [salary EXCEPT ![call[c].of].status = "APPROVED"]
  /\ UNCHANGED <<component, structure, inCycle, backdated, unvalidated>>

\* A payroll run stores an entry with the structure of a current salary, and a
\* cycle is reversed.
PayrollRuns(i) ==
  /\ salary[i].status = "APPROVED"
  /\ inCycle' = inCycle \cup {salary[i].structure}
  /\ UNCHANGED <<component, structure, salary, call, overlap, backdated, unvalidated>>

PayrollReversed ==
  /\ inCycle # {} /\ inCycle' = {}
  /\ UNCHANGED <<component, structure, salary, call, overlap, backdated, unvalidated>>

Abort(c) ==
  /\ "abort" \in Faults /\ call[c] # NoCall
  /\ Finish(c, call[c].do)
  /\ UNCHANGED <<component, structure, salary, inCycle, backdated, unvalidated>>

Next ==
  \/ \E k \in Components : CreateComponent(k) \/ \E c \in Calls : DropComponentCheck(c, k)
  \/ \E c \in Calls :
       \/ DropComponentWrite(c) \/ CreateWrite(c) \/ ReplaceWrite(c) \/ DropWrite(c)
       \/ AssignWrite(c) \/ ApproveWrite(c) \/ Abort(c)
       \/ \E s \in Structures :
            \/ \E with \in SUBSET Components : CreateCheck(c, s, with) \/ ReplaceCheck(c, s, with)
            \/ \E source \in Structures : CloneCheck(c, s, source)
            \/ DropCheck(c, s)
            \/ \E d \in Days : AssignCheck(c, s, d)
       \/ \E i \in DOMAIN salary : ApproveCheck(c, i)
  \/ \E i \in DOMAIN salary : PayrollRuns(i)
  \/ PayrollReversed

Spec == Init /\ [][Next]_vars

-------------------------------------------------------------------------------
\* getCurrentSalary: the approved salaries of a day; the first found is returned.
CurrentSalaries(d) ==
  {i \in DOMAIN salary : salary[i].status = "APPROVED" /\ d \in salary[i].from..salary[i].to}

\* Even if calls overlap no salary names a structure that never was; and unless
\* they did, one salary at most is open and its structure is active, an active
\* structure whose components were looked up has active ones only, and, when no
\* salary was backdated, a day has one current salary at most.
SalariesAreSound ==
  /\ \A i \in DOMAIN salary : ~Free(salary[i].structure)
  /\ ~overlap =>
       /\ Cardinality({i \in DOMAIN salary : salary[i].to = Open}) <= 1
       /\ \A s \in Structures : OpenSalaries(s) # {} => structure[s].state = "active"
       /\ \A s \in Structures \ unvalidated :
            structure[s].state = "active" =>
              \A k \in structure[s].has : component[k] = "active"
       /\ ~backdated => \A d \in Days : Cardinality(CurrentSalaries(d)) <= 1
===============================================================================
