------------------------------- MODULE MCRecords ------------------------------
(* A small instance of Records for TLC.                                       *)
EXTENDS Records, TLC

CONSTANTS
  u1, r1, admin, read, write, t1, t2, i1, p1, d1, s1, s2, e1, e2, j1, j2, k1, k2,
  q1, q2, c1, c2

OneCall  == {c1}
TwoCalls == {c1, c2}
AnyFault == {"abort", "mail", "crash"}

TwoTokens == {t1, t2}
OneInvite == {i1}
OneReset  == {p1}

OneUser      == {u1}
TwoRoles     == {admin, r1}
OnlyAdmin    == {admin}
ReadAndWrite == {read, write}

OneDocument     == {d1}
TwoRequests     == {s1, s2}
OneEmployee     == {e1}
TwoEvents       == {e1, e2}
TwoJobs         == {j1, j2}
TwoTicks        == {k1, k2}
TwoRequisitions == {q1, q2}

\* Bound: behaviours are followed no further once ticks overlapped and an export lost
\* the answer to its upload or its worker: the one concerns the rows of the queue, the
\* other what a job makes of its row.
Disturbance == scope = "exports" => ~overlap \/ stalled \cup lost = {}

Symmetry == Permutations(Calls) \cup Permutations(Jobs) \cup Permutations(Ticks)
===============================================================================
