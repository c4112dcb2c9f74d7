------------------------------- MODULE MCPeople -------------------------------
(* A small instance of People for TLC.                                         *)
EXTENDS People, TLC

CONSTANTS
  e1, e2, d1, d2, d3, r1, k1, k2, k3, s1, s2, s3, p1, p2, c1, c2

OneCall  == {c1}
TwoCalls == {c1, c2}
AnyFault == {"abort", "audit"}

OneEmployee  == {e1}
TwoEmployees == {e1, e2}
\* A row, an invalid one, and one with the number of the first.
ThreeRows    == <<1, 0, 1>>

ThreeDepartments == {d1, d2, d3}
OneRecord        == {r1}

NoDaysOff == {}
Present   == {"PRESENT"}

OneComponent  == {k1}
TwoStructures == {s1, s2}

ThreeCodes   == {k1, k2, k3}
OneDeduction == {k3}
OneContribution == {k2}
NoneOrForty  == {0, 40}
TwoDays      == {1, 2}
DayTwo       == {2}

TwoTasks     == {k1, k2}
TwoPeople    == {p1, p2}
HalfAndWhole == {50, 100}
OnlyTwo      == {2}
\* A cliff inside the plan, none, and one beyond its end.
ThreePlans   == {[units |-> 7, cliff |-> 2, periods |-> 3],
                 [units |-> 2, cliff |-> 0, periods |-> 3],
                 [units |-> 3, cliff |-> 3, periods |-> 2]}
OneSection   == {s3}
ThreeLevels  == {1, 2, 5}

\* Bound: behaviours are followed no further once calls about employees overlapped or
\* stopped half-way and update changed a row as well, or calls about salaries
\* overlapped and a second salary was assigned.
Disturbance ==
  /\ scope = "employees" => ~disturbed \/ patched = {}
  /\ scope = "salaries" => ~overlap \/ Len(salary) <= 1

Symmetry == Permutations(Calls) \cup Permutations(Structures)
===============================================================================
