------------------------------- MODULE Directory --------------------------------
(* What employees are filed under, and what is filed under an employee:        *)
(* departments, which form a tree; locations, job titles and pay grades; and   *)
(* the addresses, contacts and bank accounts of an employee.  org.service.ts,  *)
(* and the second half of employees.service.ts.  Rows are deleted by a mark.   *)
EXTENDS Naturals, FiniteSets

CONSTANTS
  Departments,
  Records,    \* records under one employee, or entries of a catalogue
  Calls       \* slots for API calls in flight; each is used again and again

VARIABLES
  dept,       \* Department: none, live or deleted
  parent,     \* Department.parentId
  owner,      \* the employee a record is under (a catalogue's company): is it live?
  record,     \* records: none, live or deleted
  call,       \* the calls in flight
  disturbed   \* history: two calls have overlapped

vars == <<dept, parent, owner, record, call, disturbed>>

Nothing == "nothing"
NoCall  == [do |-> "idle", on |-> Nothing, under |-> Nothing]
States  == {"none", "live", "deleted"}

TypeOK ==
  /\ dept \in [Departments -> States] /\ parent \in [Departments -> Departments \cup {Nothing}]
  /\ owner \in BOOLEAN /\ record \in [Records -> States]
  /\ call \in [Calls -> [do : {"idle", "create", "move", "delete", "insert", "change", "drop"},
                         on : Departments \cup Records \cup {Nothing},
                         under : Departments \cup {Nothing}]]
  /\ disturbed \in BOOLEAN

Init ==
  /\ dept = [d \in Departments |-> "none"] /\ parent = [d \in Departments |-> Nothing]
  /\ owner = TRUE /\ record = [r \in Records |-> "none"]
  /\ call = [c \in Calls |-> NoCall] /\ disturbed = FALSE

\* The rows above a department, itself included; the query follows parentId
\* whether rows are deleted or not.
Ancestors(d) ==
  LET up[n \in 0..Cardinality(Departments)] ==
        IF n = 0 THEN {d} ELSE up[n - 1] \cup ({parent[a] : a \in up[n - 1]} \ {Nothing})
  IN  up[Cardinality(Departments)]

Start(c, do, on, under) ==
  /\ call[c] = NoCall
  /\ call' = [call EXCEPT ![c] = [do |-> do, on |-> on, under |-> under]]
  /\ disturbed' = (disturbed \/ \E b \in Calls : call[b] # NoCall)
  /\ UNCHANGED <<dept, parent, owner, record>>

Finish(c) == call' = [call EXCEPT ![c] = NoCall]

-------------------------------------------------------------------------------
(* Departments                                                                *)

\* getDepartment(parentId)
CreateCheck(c, d, p) ==
  /\ dept[d] = "none" /\ \A b \in Calls : call[b].on # d
  /\ p # Nothing => dept[p] = "live"
  /\ Start(c, "create", d, p)

\* Mutant: only the department itself is refused as its parent.
MoveAnywhere(c, d, p) ==
  /\ dept[d] = "live" /\ p # d /\ (p # Nothing => dept[p] # "none")
  /\ Start(c, "move", d, p)

\* updateDepartment: no cycle; a parent that is deleted is not refused.
MoveCheck(c, d, p) ==
  /\ dept[d] = "live" /\ (p # Nothing => dept[p] # "none")
  /\ p # Nothing => d \notin Ancestors(p)
  /\ Start(c, "move", d, p)

DeleteCheck(c, d) ==
  /\ dept[d] = "live" /\ ~\E k \in Departments : parent[k] = d /\ dept[k] = "live"
  /\ Start(c, "delete", d, Nothing)

DepartmentWrite(c) ==
  /\ call[c].do \in {"create", "move", "delete"}
  /\ LET d == call[c].on IN
       /\ dept' = [dept EXCEPT ![d] = IF call[c].do = "move" THEN @
                                      ELSE IF call[c].do = "create" THEN "live" ELSE "deleted"]
       /\ parent' = IF call[c].do = "delete" THEN parent
                    ELSE [parent EXCEPT ![d] = call[c].under]
  /\ Finish(c)
  /\ UNCHANGED <<owner, record, disturbed>>

-------------------------------------------------------------------------------
(* Records                                                                    *)

RecordCheck(c, r, do) ==
  /\ owner
  /\ record[r] = IF do = "insert" THEN "none" ELSE "live"
  /\ Start(c, do, r, Nothing)

RecordWrite(c) ==
  /\ call[c].do \in {"insert", "change", "drop"}
  /\ record' = [record EXCEPT ![call[c].on] = IF call[c].do = "drop" THEN "deleted" ELSE "live"]
  /\ Finish(c)
  /\ UNCHANGED <<dept, parent, owner, disturbed>>

\* The employee is deleted, and his records with him out of reach.
OwnerLeaves ==
  /\ owner /\ owner' = FALSE
  /\ UNCHANGED <<dept, parent, record, call, disturbed>>

Next ==
  \/ \E c \in Calls :
       \/ \E d \in Departments :
            \/ \E p \in Departments \cup {Nothing} : CreateCheck(c, d, p) \/ MoveCheck(c, d, p)
            \/ DeleteCheck(c, d)
       \/ \E r \in Records, do \in {"insert", "change", "drop"} : RecordCheck(c, r, do)
       \/ DepartmentWrite(c) \/ RecordWrite(c)
  \/ OwnerLeaves

Spec == Init /\ [][Next]_vars

-------------------------------------------------------------------------------
\* As long as no calls overlap, no department is above itself: the recursive
\* queries over the tree end, and moving a department can be checked at all.
DepartmentsFormATree ==
  ~disturbed => \A d \in Departments : parent[d] # Nothing => d \notin Ancestors(parent[d])
===============================================================================
