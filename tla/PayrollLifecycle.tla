--------------------------- MODULE PayrollLifecycle ---------------------------
(* What one monthly payroll cycle promises its company: each operation of     *)
(* apps/api/src/modules/payroll happens at once and in the documented order.  *)
(* PayrollCycle.tla is the detailed system.  It implements this specification *)
(* only when requests do not overlap (see MCPayrollSerial.cfg).               *)
CONSTANT Employees

CycleStatus ==
  {"NONE", "DRAFT", "PROCESSING", "COMPUTED", "APPROVED", "DISBURSED", "REVERSED"}
EntryStatus == {"NONE", "COMPUTED", "HELD", "APPROVED", "DISBURSED", "REVERSED"}

VARIABLES
  status,   \* PayrollCycle.status, NONE before the row exists
  entry,    \* PayrollEntry.status of each employee, NONE without a row
  counted   \* the employees the stored totals add up

vars == <<status, entry, counted>>

Move(old, new) == [e \in Employees |-> IF entry[e] \in old THEN new ELSE entry[e]]

Init == /\ status = "NONE"
        /\ entry = [e \in Employees |-> "NONE"]
        /\ counted = {}

Create == /\ status = "NONE"
          /\ status' = "DRAFT"
          /\ UNCHANGED <<entry, counted>>

Run == /\ status = "DRAFT"
       /\ status' = "PROCESSING"
       /\ UNCHANGED <<entry, counted>>

\* The run is stored: everybody paid gets one entry, and the totals cover them.
Compute(paid) ==
  /\ status = "PROCESSING"
  /\ status' = "COMPUTED"
  /\ entry' = [e \in Employees |-> IF e \in paid THEN "COMPUTED" ELSE entry[e]]
  /\ counted' = paid

\* The run is given up and nothing of it stays behind.
Revert == /\ status = "PROCESSING"
          /\ status' = "DRAFT"
          /\ UNCHANGED <<entry, counted>>

Approve == /\ status = "COMPUTED"
           /\ status' = "APPROVED"
           /\ entry' = Move({"COMPUTED"}, "APPROVED")
           /\ UNCHANGED counted

Disburse == /\ status = "APPROVED"
            /\ status' = "DISBURSED"
            /\ entry' = Move({"APPROVED"}, "DISBURSED")
            /\ UNCHANGED counted

Reverse == /\ status \in {"APPROVED", "DISBURSED"}
           /\ status' = "REVERSED"
           /\ entry' = Move(EntryStatus \ {"NONE"}, "REVERSED")
           /\ UNCHANGED counted

Next == \/ Create \/ Run \/ Revert \/ Approve \/ Disburse \/ Reverse
        \/ \E paid \in SUBSET Employees : Compute(paid)

Spec == Init /\ [][Next]_vars

\* Cycle, entries and totals tell the same story: there are no entries before the
\* cycle is computed; from then on exactly the employees in the totals have an
\* entry, and it carries the cycle's status.
CycleEntriesAgree ==
  /\ status \in {"NONE", "DRAFT", "PROCESSING"} => counted = {}
  /\ entry = [e \in Employees |-> IF e \in counted THEN status ELSE "NONE"]
===============================================================================
