---------------------------- MODULE MCPayrollCycle ----------------------------
(* Instances of PayrollCycle for TLC.                                         *)
EXTENDS PayrollCycle, TLC

CONSTANTS e1, e2, q1, q2, q3, q4, q5

OneEmployee  == {e1}
TwoEmployees == {e1, e2}

\* Enough for create, run, approve, disburse, reverse, or for a racing call
\* before each of the last four.
FiveCalls == {q1, q2, q3, q4, q5}
FourCalls == {q1, q2, q3, q4}

NoFaults     == {}
AllFaults    == FaultKinds
\* Without ack_lost: a committed run whose client sees an error goes to DRAFT.
SerialFaults == FaultKinds \ {"ack_lost"}

Symmetry == Permutations(Requests) \cup Permutations(Employees)
===============================================================================
