-------------------------- MODULE LeaveRequestsProofs --------------------------
(* Theorems about LeaveRequests, for any finite set of employees, any years,  *)
(* months, requests and credits, any number of calls and instances, any       *)
(* interleaving of them and any faults.                                       *)
EXTENDS LeaveRequests, FiniteSetTheorems, WellFoundedInduction, TLAPS

-------------------------------------------------------------------------------
(* Minima, maxima and sequences                                               *)

\* The next operation of a transaction: a set of naturals has a least member.
LEMMA MinOfNaturals ==
  ASSUME NEW S \in SUBSET Nat, S # {}
  PROVE  Min(S) \in S
<1>1. PICK m \in S : \A k \in S : ~(<<k, m>> \in OpToRel(<, Nat))
  BY WFMin, NatLessThanWellFounded
<1>2. \A k \in S : m <= k
  <2>1. \A k \in S : ~(k < m)
    BY <1>1, Zenon DEF OpToRel
  <2> QED
    BY <2>1
<1> QED
  BY <1>2 DEF Min

\* Math.max and Math.min of two numbers.
LEMMA MinMaxOfTwo ==
  ASSUME NEW a \in Int, NEW b \in Int
  PROVE  /\ Max({a, b}) \in {a, b} /\ Max({a, b}) >= a /\ Max({a, b}) >= b
         /\ Min({a, b}) \in {a, b} /\ Min({a, b}) <= a /\ Min({a, b}) <= b
<1>1. \E x \in {a, b} : \A y \in {a, b} : x >= y
  BY a >= b \/ b >= a
<1>2. \E x \in {a, b} : \A y \in {a, b} : x <= y
  BY a >= b \/ b >= a
<1> QED
  BY <1>1, <1>2 DEF Max, Min

\* Every employee is listed once.
LEMMA EmployeesListed ==
  /\ EmployeeSeq \in [1..Cardinality(Employees) -> Employees]
  /\ \A i, j \in DOMAIN EmployeeSeq : EmployeeSeq[i] = EmployeeSeq[j] => i = j
  /\ DOMAIN EmployeeSeq \subseteq Nat
<1>1. IsFiniteSet(Employees)
  BY LeaveAssumption DEF LeaveAssumption
<1>2. Cardinality(Employees) \in Nat /\ ExistsBijection(1..Cardinality(Employees), Employees)
  BY <1>1, FS_CardinalityType
<1>3. \E f \in [1..Cardinality(Employees) -> Employees] : IsInjective(f)
  BY <1>2 DEF ExistsBijection, Bijection, Injection
<1>4. EmployeeSeq \in [1..Cardinality(Employees) -> Employees] /\ IsInjective(EmployeeSeq)
  BY <1>3 DEF EmployeeSeq, SetToSeq
<1> QED
  BY <1>2, <1>4 DEF IsInjective

-------------------------------------------------------------------------------
(* Types                                                                      *)

Kinds   == {"none", "apply", "APPROVED", "REJECTED", "CANCELLED", "accrual"}
Ops     == [do : {"deduct", "restore", "credit", "carry"}, row : Rows, days : Nat]
Todos   == UNION {[D -> Ops] : D \in SUBSET Nat}
Pends   == UNION {[D -> Draft] : D \in SUBSET Rows}
CallType ==
  [at : {"idle", "count", "create", "lock", "tx", "write", "done"}, kind : Kinds,
   of : Requests \cup Periods \cup {0}, seen : Statuses, todo : Todos,
   split : [Years -> Nat], snap : Draft, pend : Pends]

LEMMA EmptyTodo == << >> \in Todos /\ DOMAIN << >> = {}
<1>1. << >> \in [{} -> Ops]
  OBVIOUS
<1> QED
  BY <1>1 DEF Todos

LEMMA EmptyPend == << >> \in Pends
<1>1. << >> \in [{} -> Draft]
  OBVIOUS
<1> QED
  BY <1>1 DEF Pends

\* An operation is done: the others stay.
LEMMA WithoutOp ==
  ASSUME NEW todo \in Todos, NEW k
  PROVE  /\ Without(todo, k) \in Todos
         /\ DOMAIN Without(todo, k) = DOMAIN todo \ {k}
         /\ \A i \in DOMAIN todo \ {k} : Without(todo, k)[i] = todo[i]
<1>1. PICK D \in SUBSET Nat : todo \in [D -> Ops]
  BY DEF Todos
<1>2. Without(todo, k) = [i \in D \ {k} |-> todo[i]]
  BY <1>1 DEF Without, Restrict
<1>3. Without(todo, k) \in [D \ {k} -> Ops]
  BY <1>1, <1>2
<1> QED
  BY <1>1, <1>2, <1>3 DEF Todos

\* An operation is resolved: the others stay.
LEMMA ResolvedOp ==
  ASSUME NEW todo \in Todos, NEW k \in DOMAIN todo, NEW op \in Ops
  PROVE  /\ [todo EXCEPT ![k] = op] \in Todos
         /\ DOMAIN [todo EXCEPT ![k] = op] = DOMAIN todo
         /\ \A i \in DOMAIN todo : [todo EXCEPT ![k] = op][i] = IF i = k THEN op ELSE todo[i]
<1>1. PICK D \in SUBSET Nat : todo \in [D -> Ops]
  BY DEF Todos
<1>2. [todo EXCEPT ![k] = op] \in [D -> Ops]
  BY <1>1
<1> QED
  BY <1>1, <1>2 DEF Todos

\* The next operation is one of those left.
LEMMA NextOpIsLeft ==
  ASSUME NEW c, call[c].todo \in Todos, DOMAIN call[c].todo # {}
  PROVE  NextOp(c) \in DOMAIN call[c].todo /\ call[c].todo[NextOp(c)] \in Ops
<1>1. PICK D \in SUBSET Nat : call[c].todo \in [D -> Ops]
  BY DEF Todos
<1>2. NextOp(c) \in D
  BY <1>1, MinOfNaturals DEF NextOp
<1> QED
  BY <1>1, <1>2

\* A row is written by a transaction: its other rows stay.
LEMMA PendedRow ==
  ASSUME NEW pend \in Pends, NEW row \in Rows, NEW new \in Draft
  PROVE  /\ WithRow(pend, row, new) \in Pends
         /\ DOMAIN WithRow(pend, row, new) = DOMAIN pend \cup {row}
         /\ \A x \in DOMAIN pend \cup {row} :
              WithRow(pend, row, new)[x] = IF x = row THEN new ELSE pend[x]
<1>1. PICK D \in SUBSET Rows : pend \in [D -> Draft]
  BY DEF Pends
<1>2. WithRow(pend, row, new) \in [D \cup {row} -> Draft]
  BY <1>1 DEF WithRow
<1> QED
  BY <1>1, <1>2 DEF Pends, WithRow

\* What a transaction sees of a row is a row.
LEMMA SeesDraft ==
  ASSUME bal \in [Rows -> Row], NEW c, call[c].pend \in Pends, NEW row \in Rows
  PROVE  Sees(c, row) \in Draft
<1>1. PICK D \in SUBSET Rows : call[c].pend \in [D -> Draft]
  BY DEF Pends
<1>2. bal[row] \in Row /\ Row \subseteq Draft
  BY DEF Row, Draft
<1> QED
  BY <1>1, <1>2 DEF Sees

-------------------------------------------------------------------------------
(* What an update makes of a row.  s is the row as it was read, c as it is.   *)

\* A row a reader may rely on: neither the days used nor the balance exceed what was
\* credited to it, and nothing is in a row that does not exist.
Sound(row) ==
  /\ row \in Row
  /\ row.used <= row.cf + row.entitled
  /\ row.balance <= row.cf + row.entitled
  /\ ~row.exists => row = NoRow

\* Nothing that was credited is ever taken back.
Grown(old, new) ==
  /\ old.exists => new.exists
  /\ old.cf <= new.cf
  /\ old.entitled <= new.entitled

LEMMA CapBounds ==
  ASSUME NEW b \in Int
  PROVE  Cap(b) \in Int /\ Cap(b) <= b /\ (b >= 0 => Cap(b) >= 0)
BY LeaveAssumption DEF LeaveAssumption, Cap

\* The columns of a row.
Shows(row, exists, cf, entitled, used, balance) ==
  /\ row \in Draft
  /\ row.exists = exists /\ row.cf = cf /\ row.entitled = entitled
  /\ row.used = used /\ row.balance = balance

\* An update of two columns, or an insert.
LEMMA RowColumns ==
  ASSUME NEW c \in Draft, NEW a \in Nat, NEW b \in Int
  PROVE  /\ Shows([c EXCEPT !.used = a, !.balance = b], c.exists, c.cf, c.entitled, a, b)
         /\ Shows([c EXCEPT !.entitled = a, !.balance = b], c.exists, c.cf, a, c.used, b)
         /\ Shows([c EXCEPT !.cf = a, !.balance = b], c.exists, a, c.entitled, c.used, b)
         /\ Shows([NoRow EXCEPT !.exists = TRUE, !.entitled = a, !.balance = b], TRUE, 0, a, 0, b)
         /\ Shows([NoRow EXCEPT !.exists = TRUE, !.cf = a, !.balance = b], TRUE, a, 0, 0, b)
<1>1. Shows([c EXCEPT !.used = a, !.balance = b], c.exists, c.cf, c.entitled, a, b)
  BY DEF Draft, Shows
<1>2. Shows([c EXCEPT !.entitled = a, !.balance = b], c.exists, c.cf, a, c.used, b)
  BY DEF Draft, Shows
<1>3. Shows([c EXCEPT !.cf = a, !.balance = b], c.exists, a, c.entitled, c.used, b)
  BY DEF Draft, Shows
<1>4. Shows([NoRow EXCEPT !.exists = TRUE, !.entitled = a, !.balance = b], TRUE, 0, a, 0, b)
  BY DEF NoRow, Draft, Shows
<1>5. Shows([NoRow EXCEPT !.exists = TRUE, !.cf = a, !.balance = b], TRUE, a, 0, 0, b)
  BY DEF NoRow, Draft, Shows
<1> QED
  BY <1>1, <1>2, <1>3, <1>4, <1>5

LEMMA DeductedRow ==
  ASSUME NEW op \in Ops, NEW s \in Draft, NEW c \in Draft, op.do = "deduct"
  PROVE  Shows(Updated(op, s, c), c.exists, c.cf, c.entitled, s.used + op.days,
               s.cf + s.entitled - s.used - op.days)
<1> DEFINE used == s.used + op.days
           days == Left(s) - op.days
<1>1. used \in Nat /\ days \in Int
  BY DEF Ops, Draft, Left
<1>2. Updated(op, s, c) = [c EXCEPT !.used = used, !.balance = days]
  BY Zenon DEF Updated, Deducted
<1> HIDE DEF used, days
<1>3. Shows([c EXCEPT !.used = used, !.balance = days], c.exists, c.cf, c.entitled, used, days)
  BY <1>1, RowColumns, Zenon
<1>4. days = s.cf + s.entitled - s.used - op.days
  BY DEF days, Left, Ops, Draft
<1>5. used = s.used + op.days
  BY DEF used
<1> QED
  BY <1>2, <1>3, <1>4, <1>5

LEMMA RestoredRow ==
  ASSUME NEW op \in Ops, NEW s \in Draft, NEW c \in Draft, op.do = "restore", s.exists
  PROVE  \E used \in Nat :
           /\ used <= s.used
           /\ Shows(Updated(op, s, c), c.exists, c.cf, c.entitled, used, s.cf + s.entitled - used)
<1> DEFINE rest == s.used - op.days
           used == Max({0, rest})
           days == s.cf + s.entitled - used
<1>1. 0 \in Int /\ s.used \in Nat /\ rest \in Int /\ rest <= s.used /\ s.cf + s.entitled \in Nat
  BY DEF Ops, Draft
<1>2. used \in Nat /\ used <= s.used
  <2> HIDE DEF rest
  <2>1. used \in {0, rest} /\ used >= 0
    BY <1>1, MinMaxOfTwo, Zenon
  <2> QED
    BY <1>1, <2>1
<1>3. Updated(op, s, c) = [c EXCEPT !.used = used, !.balance = days]
  <2>1. Updated(op, s, c) = Restored(s, c, op.days)
    BY DEF Updated
  <2> QED
    BY <2>1, Zenon DEF Restored
<1> HIDE DEF rest, used
<1>4. days \in Int
  BY <1>2 DEF Draft
<1> HIDE DEF days
<1>5. Shows([c EXCEPT !.used = used, !.balance = days], c.exists, c.cf, c.entitled, used, days)
  BY <1>2, <1>4, RowColumns, Zenon
<1> QED
  BY <1>2, <1>3, <1>5 DEF days

LEMMA CreditedRow ==
  ASSUME NEW op \in Ops, NEW s \in Draft, NEW c \in Draft, op.do = "credit"
  PROVE  IF s.exists
         THEN Shows(Updated(op, s, c), c.exists, c.cf, s.entitled + op.days, c.used,
                    Cap(s.cf + s.entitled - s.used + op.days))
         ELSE Shows(Updated(op, s, c), TRUE, 0, op.days, 0, Cap(op.days))
<1>1. op.days \in Nat /\ s.entitled + op.days \in Nat
      /\ s.cf + s.entitled - s.used + op.days \in Int
  BY DEF Ops, Draft
<1>2. CASE s.exists
  <2> DEFINE entitled == s.entitled + op.days
             days     == Cap(s.cf + s.entitled - s.used + op.days)
  <2>1. entitled \in Nat /\ days \in Int
    BY <1>1, CapBounds
  <2>2. Updated(op, s, c) = [c EXCEPT !.entitled = entitled, !.balance = days]
    BY <1>2 DEF Updated, Credited, Left
  <2> HIDE DEF entitled, days
  <2>3. Shows([c EXCEPT !.entitled = entitled, !.balance = days], c.exists, c.cf, entitled, c.used, days)
    BY <2>1, RowColumns, Zenon
  <2> QED
    BY <1>2, <2>2, <2>3 DEF entitled, days
<1>3. CASE ~s.exists
  <2> DEFINE entitled == op.days
             days     == Cap(op.days)
  <2>1. entitled \in Nat /\ days \in Int
    BY <1>1, CapBounds
  <2>2. Updated(op, s, c) = [NoRow EXCEPT !.exists = TRUE, !.entitled = entitled, !.balance = days]
    BY <1>3 DEF Updated, Credited
  <2> HIDE DEF entitled, days
  <2>3. Shows([NoRow EXCEPT !.exists = TRUE, !.entitled = entitled, !.balance = days],
              TRUE, 0, entitled, 0, days)
    BY <2>1, RowColumns, Zenon
  <2> QED
    BY <1>3, <2>2, <2>3, Zenon DEF entitled, days
<1> QED
  BY <1>2, <1>3, Zenon

LEMMA CarriedRow ==
  ASSUME NEW op \in Ops, NEW s \in Draft, NEW c \in Draft, op.do = "carry"
  PROVE  IF s.exists
         THEN Shows(Updated(op, s, c), c.exists, op.days, c.entitled, c.used,
                    op.days + s.entitled - s.used)
         ELSE Shows(Updated(op, s, c), TRUE, op.days, 0, 0, op.days)
<1>1. op.days \in Nat /\ op.days + s.entitled - s.used \in Int
  BY DEF Ops, Draft
<1> DEFINE cf == op.days
           days == op.days + s.entitled - s.used
<1>2. CASE s.exists
  <2>1. Updated(op, s, c) = [c EXCEPT !.cf = cf, !.balance = days]
    BY <1>2 DEF Updated, Carried
  <2>2. cf \in Nat /\ days \in Int
    BY <1>1
  <2> HIDE DEF cf, days
  <2>3. Shows([c EXCEPT !.cf = cf, !.balance = days], c.exists, cf, c.entitled, c.used, days)
    BY <2>2, RowColumns, Zenon
  <2> QED
    BY <1>2, <2>1, <2>3 DEF cf, days
<1>3. CASE ~s.exists
  <2>1. Updated(op, s, c) = [NoRow EXCEPT !.exists = TRUE, !.cf = cf, !.balance = cf]
    BY <1>3 DEF Updated, Carried
  <2>2. cf \in Nat /\ cf \in Int
    BY <1>1
  <2> HIDE DEF cf
  <2>3. Shows([NoRow EXCEPT !.exists = TRUE, !.cf = cf, !.balance = cf], TRUE, cf, 0, 0, cf)
    BY <2>2, RowColumns, Zenon
  <2> QED
    BY <1>3, <2>1, <2>3, Zenon DEF cf
<1> QED
  BY <1>2, <1>3, Zenon

\* Whatever was read, the result is a row, of a run to be rolled back perhaps.
LEMMA UpdatedType ==
  ASSUME NEW op \in Ops, NEW s \in Draft, NEW c \in Draft
  PROVE  Updated(op, s, c) \in Draft
<1>1. op.do \in {"deduct", "restore", "credit", "carry"}
  BY DEF Ops
<1>2. CASE op.do = "deduct"
  BY <1>2, DeductedRow DEF Shows
<1>3. CASE op.do = "restore" /\ s.exists
  BY <1>3, RestoredRow DEF Shows
<1>4. CASE op.do = "restore" /\ ~s.exists
  BY <1>4 DEF Updated
<1>5. CASE op.do = "credit"
  BY <1>5, CreditedRow DEF Shows
<1>6. CASE op.do = "carry"
  BY <1>6, CarriedRow DEF Shows
<1> QED
  BY <1>1, <1>2, <1>3, <1>4, <1>5, <1>6

\* A row with these columns is sound.
LEMMA SoundRow ==
  ASSUME NEW row, NEW cf \in Nat, NEW entitled \in Nat, NEW used \in Nat, NEW balance \in Nat,
         Shows(row, TRUE, cf, entitled, used, balance),
         used <= cf + entitled, balance <= cf + entitled
  PROVE  Sound(row)
BY DEF Sound, Shows, Row, Draft

\* deductBalance and restoreBalance leave a sound row, even if what they read is stale:
\* credits only grow, and they checked the days against those they had read.
LEMMA RequestRow ==
  ASSUME NEW op \in Ops, op.do \in {"deduct", "restore"}, NEW s, NEW c,
         Sound(s), Sound(c), Grown(s, c), ~Refused(op, s, c)
  PROVE  LET new == Updated(op, s, c) IN
         Sound(new) /\ new.cf = c.cf /\ new.entitled = c.entitled /\ (c.exists => new.exists)
<1>0. s \in Draft /\ c \in Draft
  BY DEF Sound, Row, Draft
<1>1. /\ op.days \in Nat /\ s.used \in Nat /\ s.cf \in Nat /\ s.entitled \in Nat
      /\ c.cf \in Nat /\ c.entitled \in Nat /\ c.exists \in BOOLEAN
      /\ s.used <= s.cf + s.entitled /\ s.cf <= c.cf /\ s.entitled <= c.entitled
      /\ s.exists => c.exists
  BY DEF Ops, Sound, Row, Grown
<1>2. CASE op.do = "deduct"
  <2>1. c.exists = TRUE /\ op.days <= s.cf + s.entitled - s.used
    BY <1>1, <1>2 DEF Refused, Left
  <2> DEFINE used == s.used + op.days
             days == s.cf + s.entitled - s.used - op.days
  <2>2. used \in Nat /\ days \in Nat /\ used <= c.cf + c.entitled /\ days <= c.cf + c.entitled
    BY <1>1, <2>1
  <2>3. Shows(Updated(op, s, c), TRUE, c.cf, c.entitled, used, days)
    BY <1>0, <1>2, <2>1, DeductedRow
  <2> HIDE DEF used, days
  <2>4. Sound(Updated(op, s, c))
    BY <1>1, <2>2, <2>3, SoundRow
  <2> QED
    BY <2>3, <2>4 DEF Shows
<1>3. CASE op.do = "restore" /\ s.exists
  <2>1. PICK used \in Nat :
          /\ used <= s.used
          /\ Shows(Updated(op, s, c), c.exists, c.cf, c.entitled, used, s.cf + s.entitled - used)
    BY <1>0, <1>3, RestoredRow
  <2>2. c.exists = TRUE
    BY <1>1, <1>3
  <2> DEFINE days == s.cf + s.entitled - used
  <2>3. days \in Nat /\ days <= c.cf + c.entitled /\ used <= c.cf + c.entitled
    BY <1>1, <2>1
  <2>4. Shows(Updated(op, s, c), TRUE, c.cf, c.entitled, used, days)
    BY <2>1, <2>2
  <2> HIDE DEF days
  <2>5. Sound(Updated(op, s, c))
    BY <1>1, <2>3, <2>4, SoundRow
  <2> QED
    BY <2>4, <2>5 DEF Shows
<1>4. CASE op.do = "restore" /\ ~s.exists
  BY <1>4 DEF Updated
<1> QED
  BY <1>2, <1>3, <1>4

\* A credit keeps the carried days and adds to the rest.  The credited columns it read
\* are still those of the row: only the accrual writes them.
LEMMA CreditRow ==
  ASSUME NEW op \in Ops, op.do = "credit", NEW s, NEW c, Sound(s), Sound(c),
         Grown(s, c), s.cf = c.cf, s.entitled = c.entitled, ~Refused(op, s, c)
  PROVE  LET new == Updated(op, s, c) IN
         Sound(new) /\ new.cf = c.cf /\ Grown(c, new)
<1>0. s \in Draft /\ c \in Draft
  BY DEF Sound, Row, Draft
<1>1. /\ op.days \in Nat /\ s.used \in Nat /\ c.used \in Nat /\ s.cf \in Nat /\ s.entitled \in Nat
      /\ c.exists \in BOOLEAN /\ s.used <= s.cf + s.entitled /\ c.used <= c.cf + c.entitled
      /\ s.exists => c.exists
  BY DEF Ops, Sound, Row, Grown
<1>2. CASE s.exists
  <2> DEFINE entitled == s.entitled + op.days
             days     == Cap(s.cf + s.entitled - s.used + op.days)
  <2>1. c.exists = TRUE
    BY <1>1, <1>2
  <2>2. Shows(Updated(op, s, c), TRUE, c.cf, entitled, c.used, days)
    BY <1>0, <1>2, <2>1, CreditedRow
  <2>3. s.cf + s.entitled - s.used + op.days \in Nat
        /\ s.cf + s.entitled - s.used + op.days <= s.cf + (s.entitled + op.days)
    BY <1>1
  <2>4. days \in Nat /\ days <= c.cf + entitled
    BY <1>1, <2>3, CapBounds
  <2>5. c.cf \in Nat /\ entitled \in Nat /\ c.used <= c.cf + entitled /\ c.entitled <= entitled
    BY <1>1
  <2> HIDE DEF entitled, days
  <2>6. Sound(Updated(op, s, c))
    BY <1>1, <2>2, <2>4, <2>5, SoundRow
  <2> QED
    BY <2>2, <2>5, <2>6 DEF Shows, Grown
<1>3. CASE ~s.exists
  <2> DEFINE days == Cap(op.days)
  <2>1. Shows(Updated(op, s, c), TRUE, 0, op.days, 0, days)
    BY <1>0, <1>3, CreditedRow
  <2>2. c = NoRow
    BY <1>3 DEF Refused, Sound
  <2>3. 0 \in Nat /\ days \in Nat /\ days <= 0 + op.days /\ 0 <= 0 + op.days
    BY <1>1, CapBounds
  <2> HIDE DEF days
  <2>4. Sound(Updated(op, s, c))
    BY <1>1, <2>1, <2>3, SoundRow
  <2> QED
    BY <1>1, <2>1, <2>2, <2>4 DEF Shows, Grown, NoRow
<1> QED
  BY <1>2, <1>3

\* The days carried over come first to a row that has none.
LEMMA CarryRow ==
  ASSUME NEW op \in Ops, op.do = "carry", NEW s, NEW c, Sound(s), Sound(c),
         Grown(s, c), s.cf = c.cf, s.entitled = c.entitled, c.cf = 0, ~Refused(op, s, c)
  PROVE  LET new == Updated(op, s, c) IN Sound(new) /\ Grown(c, new)
<1>0. s \in Draft /\ c \in Draft
  BY DEF Sound, Row, Draft
<1>1. /\ op.days \in Nat /\ s.used \in Nat /\ c.used \in Nat /\ c.entitled \in Nat
      /\ c.exists \in BOOLEAN /\ s.used <= s.entitled /\ c.used <= c.entitled
      /\ s.exists => c.exists
  BY DEF Ops, Sound, Row, Grown
<1>2. CASE s.exists
  <2> DEFINE days == op.days + s.entitled - s.used
  <2>1. c.exists = TRUE
    BY <1>1, <1>2
  <2>2. Shows(Updated(op, s, c), TRUE, op.days, c.entitled, c.used, days)
    BY <1>0, <1>2, <2>1, CarriedRow
  <2>3. days \in Nat /\ days <= op.days + c.entitled /\ c.used <= op.days + c.entitled
    BY <1>1
  <2> HIDE DEF days
  <2>4. Sound(Updated(op, s, c))
    BY <1>1, <2>2, <2>3, SoundRow
  <2> QED
    BY <1>1, <2>2, <2>4 DEF Shows, Grown
<1>3. CASE ~s.exists
  <2>1. Shows(Updated(op, s, c), TRUE, op.days, 0, 0, op.days)
    BY <1>0, <1>3, CarriedRow
  <2>2. c = NoRow
    BY <1>3 DEF Refused, Sound
  <2>3. 0 \in Nat /\ op.days <= op.days + 0 /\ 0 <= op.days + 0
    BY <1>1
  <2>4. Sound(Updated(op, s, c))
    BY <1>1, <2>1, <2>3, SoundRow
  <2> QED
    BY <1>1, <2>1, <2>2, <2>4 DEF Shows, Grown, NoRow
<1> QED
  BY <1>2, <1>3

-------------------------------------------------------------------------------
(* The inductive invariant.  k is the state of a call, b the balance rows, l   *)
(* the logged periods and p the month.                                        *)

\* A run whose period another run has logged: it will roll back.
Doomed(k, l) == k.kind = "accrual" /\ k.of \in l

Sight(k, b, row) == IF row \in DOMAIN k.pend THEN k.pend[row] ELSE b[row]

RequestCallOK(k) ==
  /\ k.kind # "accrual"
  /\ k.at \notin {"idle", "done"} => k.of \in Requests
  /\ k.at \in {"lock", "tx", "write"} => k.kind \in {"APPROVED", "REJECTED", "CANCELLED"}
  /\ \A i \in DOMAIN k.todo : k.todo[i].do \in {"deduct", "restore"}

\* A cron job is at the month it has begun in, and carries to each row once.
AccrualCallOK(k, p) ==
  /\ k.at \in {"idle", "tx", "write"}
  /\ k.at # "idle" => k.kind = "accrual" /\ k.of = p /\ p \in Periods
  /\ \A i \in DOMAIN k.todo :
       \/ k.todo[i].do = "credit" /\ k.todo[i].row[2] = YearOf[p]
       \/ k.todo[i].do = "carry" /\ p \in Decembers /\ k.todo[i].row[2] = YearOf[p] + 1
  /\ \A i, j \in DOMAIN k.todo :
       /\ i # j /\ k.todo[i].do = "carry" /\ k.todo[j].do = "carry"
       => k.todo[i].row # k.todo[j].row

CallOK(c, k, p) ==
  /\ k.at \notin {"tx", "write"} => DOMAIN k.todo = {} /\ DOMAIN k.pend = {}
  /\ k.at = "write" => DOMAIN k.todo # {}
  /\ c \in Calls => RequestCallOK(k)
  /\ c \in Crons => AccrualCallOK(k, p)

\* A row that is written and not committed: credits come from cron jobs only, carried
\* days only at the end of a year.
RowPending(c, b, p, row, new) ==
  /\ Sound(new) /\ Grown(b[row], new)
  /\ c \in Calls => new.entitled = b[row].entitled
  /\ new.cf # b[row].cf => c \in Crons /\ p \in Decembers /\ row[2] = YearOf[p] + 1

PendOK(c, k, b, p) == \A row \in DOMAIN k.pend : RowPending(c, b, p, row, k.pend[row])

\* The row an operation has read: what it shows of credits still holds, for a cron job
\* to the day.
ReadFor(c, s, now) ==
  /\ Sound(s) /\ Grown(s, now)
  /\ c \in Crons => s.cf = now.cf /\ s.entitled = now.entitled

SnapOK(c, k, b) ==
  k.at = "write" => ReadFor(c, k.snap, Sight(k, b, k.todo[Min(DOMAIN k.todo)].row))

\* Nothing has been carried to a row that a cron job will carry to.
FreshOK(c, k, b) ==
  c \in Crons => \A i \in DOMAIN k.todo :
                   k.todo[i].do = "carry" => Sight(k, b, k.todo[i].row).cf = 0

ActorOK(c, k, b, l, p) ==
  /\ CallOK(c, k, p)
  /\ ~Doomed(k, l) => PendOK(c, k, b, p) /\ SnapOK(c, k, b) /\ FreshOK(c, k, b)

StoreTyped ==
  /\ status \in [Requests -> Statuses]
  /\ bal \in [Rows -> Row]
  /\ log \in SUBSET Periods
  /\ period \in Periods \cup {0}
  /\ moved \in SUBSET {r \in Requests : Days[r][StartYear(r)] > 1}
  /\ fired \in SUBSET Crons
  /\ taken \in [Requests -> [Years -> Nat]]

Typed == StoreTyped /\ call \in [Actors -> CallType]

RowsLocked == \A c \in Actors : \A d \in Actors \ {c} :
                DOMAIN call[c].pend \cap DOMAIN call[d].pend = {}

RowsSound == \A row \in Rows : Sound(bal[row])

NotCarriedYet ==
  \A p \in Decembers : p \notin log => \A e \in Employees : bal[<<e, YearOf[p] + 1>>].cf = 0

IInv ==
  /\ Typed
  /\ RowsLocked
  /\ RowsSound
  /\ NotCarriedYet
  /\ \A c \in Actors : ActorOK(c, call[c], bal, log, period)

-------------------------------------------------------------------------------
(* What a call may become                                                     *)

LEMMA PeriodsArePositive == 0 \notin Periods
BY LeaveAssumption DEF LeaveAssumption

LEMMA CallsAreNotCrons == Calls \cap Crons = {}
BY LeaveAssumption DEF LeaveAssumption

LEMMA ZeroDays == NoDays \in [Years -> Nat]
BY DEF NoDays

LEMMA NoRowIsDraft == NoRow \in Row /\ NoRow \in Draft
BY DEF NoRow, Row, Draft

\* A call that holds no row has nothing to answer for.
LEMMA QuietCall ==
  ASSUME NEW c, NEW k \in CallType, NEW b, NEW l, NEW p,
         CallOK(c, k, p), k.at \notin {"tx", "write"}
  PROVE  ActorOK(c, k, b, l, p)
BY DEF ActorOK, CallOK, PendOK, SnapOK, FreshOK

Ended(c) == [IdleCall EXCEPT !.at = IF c \in Crons THEN "idle" ELSE "done"]

LEMMA IdleFields ==
  /\ IdleCall \in CallType
  /\ IdleCall.kind = "none" /\ IdleCall.todo = << >> /\ IdleCall.pend = << >>
  /\ IdleCall.at = "idle"
<1>1. "NONE" \in Statuses /\ "none" \in Kinds
  BY DEF Statuses, Kinds
<1> QED
  BY <1>1, ZeroDays, NoRowIsDraft, EmptyTodo, EmptyPend DEF IdleCall, CallType

LEMMA EndedCall ==
  ASSUME NEW c \in Actors, NEW b, NEW l, NEW p
  PROVE  Ended(c) \in CallType /\ DOMAIN Ended(c).pend = {} /\ ActorOK(c, Ended(c), b, l, p)
<1>1. /\ Ended(c) \in CallType
      /\ Ended(c).kind = "none" /\ Ended(c).todo = << >> /\ Ended(c).pend = << >>
      /\ c \in Crons => Ended(c).at = "idle"
      /\ c \notin Crons => Ended(c).at = "done"
  BY IdleFields DEF Ended, CallType
<1>2. DOMAIN Ended(c).todo = {} /\ DOMAIN Ended(c).pend = {}
  BY <1>1, EmptyTodo
<1>3. CallOK(c, Ended(c), p)
  BY <1>1, <1>2, CallsAreNotCrons DEF CallOK, RequestCallOK, AccrualCallOK
<1>4. Ended(c).at \notin {"tx", "write"}
  BY <1>1
<1> QED
  BY <1>1, <1>2, <1>3, <1>4, QuietCall

\* A step of one call that leaves the balance rows alone.
LEMMA CallStep ==
  ASSUME IInv, NEW c \in Actors, NEW new \in CallType,
         call' = [call EXCEPT ![c] = new], bal' = bal, log' = log, period' = period,
         StoreTyped', ActorOK(c, new, bal, log, period),
         \A d \in Actors \ {c} : DOMAIN new.pend \cap DOMAIN call[d].pend = {}
  PROVE  IInv'
<1>1. call \in [Actors -> CallType]
  BY DEF IInv, Typed
<1>2. call'[c] = new /\ \A d \in Actors \ {c} : call'[d] = call[d]
  BY <1>1
<1>3. Typed'
  BY <1>1 DEF Typed
<1>4. RowsLocked'
  BY <1>2 DEF IInv, RowsLocked
<1>5. \A d \in Actors : ActorOK(d, call'[d], bal', log', period')
  BY <1>2 DEF IInv
<1>6. RowsSound' /\ NotCarriedYet'
  BY DEF IInv, RowsSound, NotCarriedYet
<1> QED
  BY <1>3, <1>4, <1>5, <1>6 DEF IInv

\* A call that ends leaves the rows alone.
LEMMA EndStep ==
  ASSUME IInv, NEW c \in Actors, End(c), bal' = bal, log' = log, period' = period, StoreTyped'
  PROVE  IInv'
BY CallStep, EndedCall DEF End, Becomes, Ended

\* A step of the checks before a transaction.
LEMMA QuietStep ==
  ASSUME IInv, NEW c \in Calls, NEW new \in CallType,
         call[c].at \notin {"tx", "write"}, new.at \notin {"tx", "write"},
         new.todo = call[c].todo, new.pend = call[c].pend, RequestCallOK(new),
         call' = [call EXCEPT ![c] = new], UNCHANGED <<store, world>>
  PROVE  IInv'
<1>1. c \in Actors /\ c \notin Crons
  BY CallsAreNotCrons DEF Actors
<1>2. CallOK(c, call[c], period)
  BY <1>1 DEF IInv, ActorOK
<1>3. DOMAIN new.todo = {} /\ DOMAIN new.pend = {} /\ CallOK(c, new, period)
  BY <1>1, <1>2 DEF CallOK
<1>4. ActorOK(c, new, bal, log, period)
  BY <1>3, QuietCall
<1>5. StoreTyped' /\ bal' = bal /\ log' = log /\ period' = period
  BY DEF IInv, Typed, StoreTyped, store, world
<1> QED
  BY <1>1, <1>3, <1>4, <1>5, CallStep

-------------------------------------------------------------------------------
(* The checks                                                                 *)

LEMMA ApplyCheckStep ==
  ASSUME IInv, NEW c \in Calls, NEW r \in Requests, ApplyCheck(c, r)
  PROVE  IInv'
<1> DEFINE new == [call[c] EXCEPT !.at = "count", !.kind = "apply", !.of = r]
<1>1. call[c] \in CallType /\ CallOK(c, call[c], period)
  BY DEF IInv, Typed, ActorOK, Actors
<1>2. call[c].at = "idle" /\ call' = [call EXCEPT ![c] = new] /\ UNCHANGED <<store, world>>
  BY DEF ApplyCheck, Start, Becomes
<1>3. /\ new \in CallType
      /\ new.at = "count" /\ new.kind = "apply" /\ new.of = r
      /\ new.todo = call[c].todo /\ new.pend = call[c].pend
  BY <1>1 DEF CallType, Kinds
<1> HIDE DEF new
<1>4. RequestCallOK(new)
  BY <1>1, <1>2, <1>3 DEF CallOK, RequestCallOK
<1> QED
  BY <1>2, <1>3, <1>4, QuietStep

LEMMA ApplyCountStep ==
  ASSUME IInv, NEW c \in Actors, ApplyCount(c)
  PROVE  IInv'
<1>1. call[c] \in CallType /\ CallOK(c, call[c], period) /\ call[c].at = "count"
      /\ UNCHANGED <<store, world>>
  BY DEF IInv, Typed, ActorOK, ApplyCount
<1>2. c \in Calls
  BY <1>1 DEF Actors, CallOK, AccrualCallOK
<1>3. CASE End(c)
  BY <1>1, <1>3, EndStep DEF store, world, IInv, Typed, StoreTyped
<1>4. CASE Becomes(c, [call[c] EXCEPT !.at = "create"])
  <2> DEFINE new == [call[c] EXCEPT !.at = "create"]
  <2>1. /\ new \in CallType /\ new.at = "create" /\ new.kind = call[c].kind /\ new.of = call[c].of
        /\ new.todo = call[c].todo /\ new.pend = call[c].pend
    BY <1>1 DEF CallType
  <2>2. call' = [call EXCEPT ![c] = new]
    BY <1>4 DEF Becomes
  <2> HIDE DEF new
  <2>3. RequestCallOK(new)
    BY <1>1, <1>2, <2>1 DEF CallOK, RequestCallOK
  <2> QED
    BY <1>1, <1>2, <2>1, <2>2, <2>3, QuietStep
<1> QED
  BY <1>3, <1>4 DEF ApplyCount

LEMMA ApplyCreateStep ==
  ASSUME IInv, NEW c \in Actors, ApplyCreate(c)
  PROVE  IInv'
<1>1. End(c) /\ bal' = bal /\ log' = log /\ period' = period /\ taken' = taken
      /\ moved' = moved /\ fired' = fired
      /\ status' = [status EXCEPT ![call[c].of] = "PENDING"]
  BY DEF ApplyCreate, world
<1>2. StoreTyped'
  BY <1>1 DEF IInv, Typed, StoreTyped, Statuses
<1> QED
  BY <1>1, <1>2, EndStep

LEMMA ReviewStep ==
  ASSUME IInv, NEW c \in Calls, NEW r \in Requests,
         NEW kind \in {"APPROVED", "REJECTED", "CANCELLED"}, NEW allowed, Review(c, r, kind, allowed)
  PROVE  IInv'
<1> DEFINE new == [call[c] EXCEPT !.at = "lock", !.kind = kind, !.of = r, !.seen = status[r]]
<1>1. call[c] \in CallType /\ CallOK(c, call[c], period) /\ status[r] \in Statuses
  BY DEF IInv, Typed, StoreTyped, ActorOK, Actors
<1>2. call[c].at = "idle" /\ call' = [call EXCEPT ![c] = new] /\ UNCHANGED <<store, world>>
  BY DEF Review, Start, Becomes
<1>3. /\ new \in CallType
      /\ new.at = "lock" /\ new.kind = kind /\ new.of = r
      /\ new.todo = call[c].todo /\ new.pend = call[c].pend
  BY <1>1 DEF CallType, Kinds
<1> HIDE DEF new
<1>4. RequestCallOK(new)
  BY <1>1, <1>2, <1>3 DEF CallOK, RequestCallOK
<1> QED
  BY <1>2, <1>3, <1>4, QuietStep

LEMMA AbortStep ==
  ASSUME IInv, NEW c \in Actors, Abort(c)
  PROVE  IInv'
BY EndStep DEF Abort, store, world, IInv, Typed, StoreTyped

-------------------------------------------------------------------------------
(* The beginning of a transaction                                             *)

\* The days of a request are naturals, whatever holidays have been added under it.
LEMMA DaysNowType ==
  ASSUME IInv, NEW r \in Requests
  PROVE  DaysNow(r) \in [Years -> Nat]
<1>1. Days \in [Requests -> [Years -> Nat]]
  BY LeaveAssumption DEF LeaveAssumption
<1>2. r \in moved => Days[r][StartYear(r)] > 1
  BY DEF IInv, Typed, StoreTyped
<1>3. Days[r][StartYear(r)] - 1 \in Nat \/ StartYear(r) \notin Years \/ r \notin moved
  BY <1>1, <1>2
<1>4. \A y \in Years : Days[r][y] + 1 \in Nat
  BY <1>1
<1> QED
  BY <1>1, <1>3, <1>4 DEF DaysNow

LEMMA RequestOpsType ==
  ASSUME NEW do \in {"deduct", "restore"}, NEW r \in Requests, NEW split \in [Years -> Nat]
  PROVE  /\ RequestOps(do, r, split) \in Todos
         /\ \A i \in DOMAIN RequestOps(do, r, split) : RequestOps(do, r, split)[i].do = do
<1>1. Owner[r] \in Employees /\ Years \subseteq Nat
  BY LeaveAssumption DEF LeaveAssumption
<1> DEFINE D == {z \in Years : split[z] > 0}
<1>2. ASSUME NEW y \in D
      PROVE  [do |-> do, row |-> <<Owner[r], y>>, days |-> split[y]] \in Ops
  <2>1. <<Owner[r], y>> \in Rows
    BY <1>1 DEF Rows
  <2> QED
    BY <2>1 DEF Ops
<1>3. RequestOps(do, r, split) \in [D -> Ops]
  BY <1>2 DEF RequestOps
<1>4. \A i \in D : RequestOps(do, r, split)[i].do = do
  BY DEF RequestOps
<1>5. D \in SUBSET Nat
  BY <1>1
<1> HIDE DEF D
<1> QED
  BY <1>3, <1>4, <1>5 DEF Todos

\* A transaction that has done nothing yet.
LEMMA FreshRequest ==
  ASSUME NEW c \in Calls, NEW k \in CallType, NEW b, NEW l, NEW p,
         RequestCallOK(k), k.at = "tx", DOMAIN k.pend = {}
  PROVE  ActorOK(c, k, b, l, p)
BY CallsAreNotCrons DEF ActorOK, CallOK, PendOK, SnapOK, FreshOK

LEMMA LockRequestStep ==
  ASSUME IInv, NEW c \in Actors, LockRequest(c)
  PROVE  IInv'
<1> DEFINE r   == call[c].of
           ops == ReviewOps(c)
           new == [call[c] EXCEPT !.at = "tx", !.todo = ops, !.split = DaysNow(r)]
<1>1. call[c] \in CallType /\ CallOK(c, call[c], period) /\ call[c].at = "lock"
      /\ UNCHANGED <<store, world>>
  BY DEF IInv, Typed, ActorOK, LockRequest
<1>2. c \in Calls
  BY <1>1 DEF Actors, CallOK, AccrualCallOK
<1>3. /\ r \in Requests /\ call[c].kind \in {"APPROVED", "REJECTED", "CANCELLED"}
      /\ DOMAIN call[c].pend = {}
  BY <1>1, <1>2 DEF CallOK, RequestCallOK
<1>4. DaysNow(r) \in [Years -> Nat]
  BY <1>3, DaysNowType
<1>5. ops \in Todos /\ \A i \in DOMAIN ops : ops[i].do \in {"deduct", "restore"}
  <2>1. CASE call[c].kind = "APPROVED"
    <3>1. ops = RequestOps("deduct", r, DaysNow(r))
      BY <2>1, Zenon DEF ReviewOps
    <3> QED
      BY <1>3, <1>4, <3>1, RequestOpsType
  <2>2. CASE call[c].kind = "CANCELLED" /\ call[c].seen = "APPROVED"
    <3>1. ops = RequestOps("restore", r, DaysNow(r))
      BY <2>2, Zenon DEF ReviewOps
    <3> QED
      BY <1>3, <1>4, <3>1, RequestOpsType
  <2>3. CASE call[c].kind # "APPROVED" /\ ~(call[c].kind = "CANCELLED" /\ call[c].seen = "APPROVED")
    <3>1. ops = << >>
      BY <2>3, Zenon DEF ReviewOps
    <3> QED
      BY <3>1, EmptyTodo
  <2> QED
    BY <2>1, <2>2, <2>3
<1>6. call' = [call EXCEPT ![c] = new]
  BY DEF LockRequest, Becomes
<1> HIDE DEF ops
<1>7. /\ new \in CallType /\ new.at = "tx" /\ new.kind = call[c].kind /\ new.of = r
      /\ new.todo = ops /\ new.pend = call[c].pend
  BY <1>1, <1>4, <1>5 DEF CallType
<1> HIDE DEF new
<1>8. RequestCallOK(new)
  BY <1>3, <1>5, <1>7 DEF RequestCallOK
<1>9. ActorOK(c, new, bal, log, period)
  BY <1>2, <1>3, <1>7, <1>8, FreshRequest
<1>10. StoreTyped' /\ bal' = bal /\ log' = log /\ period' = period
  BY <1>1 DEF IInv, Typed, StoreTyped, store, world
<1> QED
  BY <1>3, <1>6, <1>7, <1>9, <1>10, CallStep

\* The number of an operation tells the employee, and whether it credits or carries.
LEMMA Halves ==
  ASSUME NEW i \in Nat
  PROVE  /\ 2 * i \in Nat /\ (2 * i) \div 2 = i /\ (2 * i) % 2 = 0
         /\ 2 * i + 1 \in Nat /\ (2 * i + 1) \div 2 = i /\ (2 * i + 1) % 2 = 1
OBVIOUS

LEMMA AccrualOpsType ==
  ASSUME NEW p \in Periods
  PROVE  LET ops == AccrualOps(p) IN
         /\ ops \in Todos
         /\ \A k \in DOMAIN ops :
              \/ ops[k].do = "credit" /\ ops[k].row[2] = YearOf[p]
              \/ ops[k].do = "carry" /\ p \in Decembers /\ ops[k].row[2] = YearOf[p] + 1
         /\ \A j, k \in DOMAIN ops :
              j # k /\ ops[j].do = "carry" /\ ops[k].do = "carry" => ops[j].row # ops[k].row
<1> DEFINE E == EmployeeSeq
           credited == {i \in DOMAIN E : Credit[E[i]][p] > 0}
           creditOf == [e \in Employees |-> [do |-> "credit", row |-> <<e, YearOf[p]>>,
                                             days |-> Credit[e][p]]]
           carryOf  == [e \in Employees |-> [do |-> "carry", row |-> <<e, YearOf[p] + 1>>,
                                             days |-> 0]]
           evens    == {2 * i : i \in credited}
           odds     == IF p \in Decembers THEN {2 * i + 1 : i \in credited} ELSE {}
           op(k)    == IF k % 2 = 0 THEN creditOf[E[k \div 2]] ELSE carryOf[E[k \div 2]]
<1>1. /\ credited \subseteq Nat
      /\ \A i \in credited : E[i] \in Employees
      /\ \A i, j \in credited : E[i] = E[j] => i = j
  BY EmployeesListed
<1>2. AccrualOps(p) = [k \in evens \cup odds |-> op(k)]
  BY Zenon DEF AccrualOps
<1>3. ASSUME NEW e \in Employees
      PROVE  /\ creditOf[e] \in Ops /\ creditOf[e].do = "credit" /\ creditOf[e].row[2] = YearOf[p]
             /\ p \in Decembers => carryOf[e] \in Ops
             /\ carryOf[e].do = "carry" /\ carryOf[e].row = <<e, YearOf[p] + 1>>
  <2>1. YearOf[p] \in Years /\ Credit[e][p] \in Nat /\ (p \in Decembers => YearOf[p] + 1 \in Years)
    BY LeaveAssumption DEF LeaveAssumption
  <2>2. <<e, YearOf[p]>> \in Rows /\ (p \in Decembers => <<e, YearOf[p] + 1>> \in Rows)
    BY <2>1 DEF Rows
  <2> QED
    BY <2>1, <2>2 DEF Ops
<1> HIDE DEF credited, creditOf, carryOf, E
<1>4. ASSUME NEW k \in evens
      PROVE  \E i \in credited : k = 2 * i /\ k \in Nat /\ op(k) = creditOf[E[i]]
  <2>1. PICK i \in credited : k = 2 * i
    OBVIOUS
  <2>2. k \in Nat /\ k \div 2 = i /\ k % 2 = 0
    BY <1>1, <2>1, Halves
  <2> QED
    BY <2>1, <2>2
<1>5. ASSUME NEW k \in odds
      PROVE  /\ p \in Decembers
             /\ \E i \in credited : k = 2 * i + 1 /\ k \in Nat /\ op(k) = carryOf[E[i]]
  <2>1. p \in Decembers /\ odds = {2 * i + 1 : i \in credited}
    OBVIOUS
  <2>2. PICK i \in credited : k = 2 * i + 1
    BY <2>1
  <2>3. k \in Nat /\ k \div 2 = i /\ k % 2 = 1
    BY <1>1, <2>2, Halves
  <2>4. op(k) = carryOf[E[i]]
    BY <2>3
  <2> QED
    BY <2>1, <2>2, <2>3, <2>4
<1> HIDE DEF evens, odds, op
<1>6. \A k \in evens \cup odds : op(k) \in Ops /\ k \in Nat
  BY <1>1, <1>3, <1>4, <1>5
<1>7. \A k \in evens \cup odds :
              \/ op(k).do = "credit" /\ op(k).row[2] = YearOf[p]
              \/ op(k).do = "carry" /\ p \in Decembers /\ op(k).row[2] = YearOf[p] + 1
  BY <1>1, <1>3, <1>4, <1>5
<1>8. ASSUME NEW j \in evens \cup odds, NEW k \in evens \cup odds,
             j # k, op(j).do = "carry", op(k).do = "carry"
      PROVE  op(j).row # op(k).row
  <2>1. j \in odds /\ k \in odds
    BY <1>1, <1>3, <1>4, <1>8
  <2>2. PICK i \in credited : j = 2 * i + 1 /\ op(j) = carryOf[E[i]]
    BY <1>5, <2>1
  <2>3. PICK h \in credited : k = 2 * h + 1 /\ op(k) = carryOf[E[h]]
    BY <1>5, <2>1
  <2>4. E[i] # E[h]
    BY <1>1, <1>8, <2>2, <2>3
  <2>5. op(j).row = <<E[i], YearOf[p] + 1>> /\ op(k).row = <<E[h], YearOf[p] + 1>>
    BY <1>1, <1>3, <2>2, <2>3
  <2> QED
    BY <2>4, <2>5
<1>9. AccrualOps(p) \in [evens \cup odds -> Ops]
  BY <1>2, <1>6
<1>10. evens \cup odds \in SUBSET Nat
  BY <1>6
<1>11. AccrualOps(p) \in Todos
  BY <1>9, <1>10 DEF Todos
<1>12. DOMAIN AccrualOps(p) = evens \cup odds
       /\ \A k \in evens \cup odds : AccrualOps(p)[k] = op(k)
  BY <1>2
<1> HIDE DEF op, evens, odds
<1> QED
  BY <1>7, <1>8, <1>11, <1>12

LEMMA AccrualStartStep ==
  ASSUME IInv, NEW c \in Crons, AccrualStart(c)
  PROVE  IInv'
<1>1. /\ call[c] \in CallType /\ CallOK(c, call[c], period) /\ call[c].at = "idle"
      /\ period \in Periods /\ fired' = fired \cup {c}
      /\ UNCHANGED <<store, period, moved>> /\ c \in Actors
  BY DEF IInv, Typed, ActorOK, Actors, AccrualStart, Start
<1>2. StoreTyped' /\ bal' = bal /\ log' = log /\ period' = period
  BY <1>1 DEF IInv, Typed, StoreTyped, store
<1>3. CASE period \in log
  <2>1. call' = [call EXCEPT ![c] = call[c]]
    BY <1>3 DEF AccrualStart, IInv, Typed
  <2>2. DOMAIN call[c].pend = {} /\ ActorOK(c, call[c], bal, log, period)
    BY <1>1 DEF IInv, CallOK
  <2> QED
    BY <1>1, <1>2, <2>1, <2>2, CallStep
<1>4. CASE period \notin log
  <2> DEFINE ops == AccrualOps(period)
             new == [call[c] EXCEPT !.at = "tx", !.kind = "accrual", !.of = period, !.todo = ops]
  <2>1. call' = [call EXCEPT ![c] = new]
    BY <1>4 DEF AccrualStart, Becomes
  <2>2. /\ ops \in Todos
        /\ \A k \in DOMAIN ops :
              \/ ops[k].do = "credit" /\ ops[k].row[2] = YearOf[period]
              \/ ops[k].do = "carry" /\ period \in Decembers /\ ops[k].row[2] = YearOf[period] + 1
        /\ \A j, k \in DOMAIN ops :
              j # k /\ ops[j].do = "carry" /\ ops[k].do = "carry" => ops[j].row # ops[k].row
    BY <1>1, AccrualOpsType
  <2> HIDE DEF ops
  <2>3. /\ new \in CallType /\ new.at = "tx" /\ new.kind = "accrual" /\ new.of = period
        /\ new.todo = ops /\ new.pend = call[c].pend
    BY <1>1, <2>2 DEF CallType, Kinds
  <2> HIDE DEF new
  <2>4. DOMAIN new.pend = {}
    BY <1>1, <2>3 DEF CallOK
  <2>5. AccrualCallOK(new, period)
    BY <1>1, <2>2, <2>3 DEF AccrualCallOK
  <2>6. CallOK(c, new, period)
    BY <2>3, <2>5, CallsAreNotCrons DEF CallOK
  <2>7. ASSUME NEW k \in DOMAIN ops, ops[k].do = "carry"
        PROVE  Sight(new, bal, ops[k].row).cf = 0
    <3>1. ops[k] \in Ops /\ period \in Decembers /\ ops[k].row[2] = YearOf[period] + 1
      BY <2>2, <2>7 DEF Todos
    <3>2. \E e \in Employees : ops[k].row = <<e, YearOf[period] + 1>>
      BY <3>1 DEF Ops, Rows
    <3>3. bal[ops[k].row].cf = 0
      BY <1>4, <3>1, <3>2 DEF IInv, NotCarriedYet
    <3> QED
      BY <2>4, <3>3 DEF Sight
  <2>8. ActorOK(c, new, bal, log, period)
    BY <2>3, <2>4, <2>6, <2>7 DEF ActorOK, PendOK, SnapOK, FreshOK
  <2> QED
    BY <1>1, <1>2, <2>1, <2>3, <2>4, <2>8, CallStep
<1> QED
  BY <1>3, <1>4

-------------------------------------------------------------------------------
(* The operations of a transaction                                            *)

\* An operation is resolved to what the rows read then ask for; it stays the same
\* operation on the same row.
LEMMA ResolvedType ==
  ASSUME IInv, NEW c \in Actors, NEW op \in Ops, call[c].pend \in Pends,
         op.do = "carry" => op.row[2] - 1 \in Years
  PROVE  /\ Resolved(c, op).do = op.do /\ Resolved(c, op).row = op.row
         /\ ~(op.do = "carry" /\ Resolved(c, op).days <= 0) => Resolved(c, op) \in Ops
<1>1. CASE op.do # "carry"
  BY <1>1 DEF Resolved
<1>2. CASE op.do = "carry"
  <2> DEFINE before == <<op.row[1], op.row[2] - 1>>
             days   == Min({Sees(c, before).balance, MaxCarry})
  <2>1. before \in Rows
    BY <1>2 DEF Ops, Rows
  <2>2. Sees(c, before) \in Draft
    BY <2>1, SeesDraft DEF IInv, Typed, StoreTyped
  <2>3. days \in Int
    <3>1. Sees(c, before).balance \in Int
      BY <2>2 DEF Draft
    <3>2. MaxCarry \in Int
      BY LeaveAssumption DEF LeaveAssumption
    <3> HIDE DEF before
    <3> QED
      BY <3>1, <3>2, MinMaxOfTwo
  <2>4. Resolved(c, op) = [op EXCEPT !.days = days]
    BY <1>2 DEF Resolved
  <2> HIDE DEF days
  <2>5. /\ [op EXCEPT !.days = days].do = op.do /\ [op EXCEPT !.days = days].row = op.row
        /\ [op EXCEPT !.days = days].days = days
    BY DEF Ops
  <2>6. ASSUME ~(days <= 0) PROVE [op EXCEPT !.days = days] \in Ops
    BY <2>3, <2>6 DEF Ops
  <2> QED
    BY <1>2, <2>4, <2>5, <2>6
<1> QED
  BY <1>1, <1>2

\* The year before a row that is carried to.
LEMMA YearBefore ==
  ASSUME NEW c \in Actors, NEW p, CallOK(c, call[c], p), NEW i \in DOMAIN call[c].todo,
         call[c].todo[i].do = "carry"
  PROVE  call[c].todo[i].row[2] - 1 \in Years
<1>1. c \in Crons
  BY DEF Actors, CallOK, RequestCallOK
<1>2. call[c].todo[i].row[2] = YearOf[p] + 1 /\ p \in Decembers
  BY <1>1 DEF CallOK, AccrualCallOK
<1>3. YearOf[p] \in Years /\ YearOf[p] \in Nat
  BY <1>2, LeaveAssumption DEF LeaveAssumption
<1> QED
  BY <1>2, <1>3

\* An operation that has nothing to carry is left out.
LEMMA SkippedOp ==
  ASSUME NEW c \in Actors, NEW k \in CallType, NEW k2 \in CallType, NEW b, NEW l, NEW p, NEW i,
         ActorOK(c, k, b, l, p), k.at = "tx",
         k2.at = "tx", k2.kind = k.kind, k2.of = k.of, k2.pend = k.pend,
         k2.todo = Without(k.todo, i)
  PROVE  ActorOK(c, k2, b, l, p)
<1>1. /\ k.todo \in Todos
      /\ DOMAIN k2.todo \subseteq DOMAIN k.todo
      /\ \A j \in DOMAIN k2.todo : k2.todo[j] = k.todo[j]
  <2>1. k.todo \in Todos
    BY DEF CallType
  <2>2. /\ DOMAIN Without(k.todo, i) = DOMAIN k.todo \ {i}
        /\ \A j \in DOMAIN k.todo \ {i} : Without(k.todo, i)[j] = k.todo[j]
    BY <2>1, WithoutOp
  <2> QED
    BY <2>1, <2>2
<1>2. CallOK(c, k2, p)
  BY <1>1 DEF ActorOK, CallOK, RequestCallOK, AccrualCallOK
<1>3. Doomed(k2, l) = Doomed(k, l)
  BY DEF Doomed
<1>4. PendOK(c, k, b, p) => PendOK(c, k2, b, p)
  BY DEF PendOK
<1>5. SnapOK(c, k2, b)
  BY DEF SnapOK
<1>6. FreshOK(c, k, b) => FreshOK(c, k2, b)
  BY <1>1 DEF FreshOK, Sight
<1> QED
  BY <1>2, <1>3, <1>4, <1>5, <1>6 DEF ActorOK

\* What a transaction that is not doomed sees is sound.
LEMMA SightSound ==
  ASSUME RowsSound, NEW c, NEW k, NEW p, PendOK(c, k, bal, p), NEW row \in Rows
  PROVE  /\ Sound(Sight(k, bal, row)) /\ Grown(bal[row], Sight(k, bal, row))
         /\ c \in Calls => Sight(k, bal, row).entitled = bal[row].entitled
         /\ Sight(k, bal, row).cf # bal[row].cf
              => c \in Crons /\ p \in Decembers /\ row[2] = YearOf[p] + 1
<1>1. CASE row \in DOMAIN k.pend
  BY <1>1 DEF PendOK, RowPending, Sight
<1>2. CASE row \notin DOMAIN k.pend
  <2>1. Sound(bal[row])
    BY DEF RowsSound
  <2>2. Grown(bal[row], bal[row])
    BY <2>1 DEF Grown, Sound, Row
  <2> QED
    BY <1>2, <2>1, <2>2 DEF Sight
<1> QED
  BY <1>1, <1>2

\* The row is read.
LEMMA ReadOp ==
  ASSUME RowsSound, NEW c \in Actors, NEW k \in CallType, NEW k2 \in CallType, NEW l, NEW p,
         NEW op \in Ops, ActorOK(c, k, bal, l, p), k.at = "tx", DOMAIN k.todo # {},
         op.do = k.todo[Min(DOMAIN k.todo)].do, op.row = k.todo[Min(DOMAIN k.todo)].row,
         k2.at = "write", k2.kind = k.kind, k2.of = k.of, k2.pend = k.pend,
         k2.todo = [k.todo EXCEPT ![Min(DOMAIN k.todo)] = op], k2.snap = Sight(k, bal, op.row)
  PROVE  ActorOK(c, k2, bal, l, p)
<1> DEFINE i == Min(DOMAIN k.todo)
<1>1. k.todo \in Todos /\ i \in DOMAIN k.todo
  <2>1. k.todo \in Todos
    BY DEF CallType
  <2>2. DOMAIN k.todo \in SUBSET Nat
    BY <2>1 DEF Todos
  <2> QED
    BY <2>1, <2>2, MinOfNaturals
<1> HIDE DEF i
<1>2. /\ DOMAIN k2.todo = DOMAIN k.todo /\ k2.todo[i] = op
      /\ \A j \in DOMAIN k.todo : k2.todo[j].do = k.todo[j].do /\ k2.todo[j].row = k.todo[j].row
  BY <1>1, ResolvedOp DEF i
<1>3. CallOK(c, k2, p)
  <2>1. CallOK(c, k, p)
    BY DEF ActorOK
  <2>2. c \in Calls => RequestCallOK(k2)
    BY <1>2, <2>1 DEF CallOK, RequestCallOK
  <2>3. c \in Crons => AccrualCallOK(k2, p)
    BY <1>2, <2>1 DEF CallOK, AccrualCallOK
  <2> QED
    BY <1>2, <2>1, <2>2, <2>3 DEF CallOK
<1>4. Doomed(k2, l) = Doomed(k, l)
  BY DEF Doomed
<1>5. \A row : Sight(k2, bal, row) = Sight(k, bal, row)
  BY DEF Sight
<1>6. FreshOK(c, k, bal) => FreshOK(c, k2, bal)
  BY <1>2, <1>5 DEF FreshOK
<1>7. PendOK(c, k, bal, p) => PendOK(c, k2, bal, p)
  BY DEF PendOK
<1>8. PendOK(c, k, bal, p) => SnapOK(c, k2, bal)
  <2>1. op.row \in Rows
    BY DEF Ops
  <2>2. Min(DOMAIN k2.todo) = i
    BY <1>2 DEF i
  <2>3. SUFFICES ASSUME PendOK(c, k, bal, p)
                 PROVE  ReadFor(c, Sight(k, bal, op.row), Sight(k, bal, op.row))
    BY <1>2, <1>5, <2>2 DEF SnapOK
  <2>4. Sound(Sight(k, bal, op.row))
    BY <2>1, <2>3, SightSound
  <2>5. Grown(Sight(k, bal, op.row), Sight(k, bal, op.row))
    BY <2>4 DEF Sound, Grown, Row
  <2> QED
    BY <2>4, <2>5 DEF ReadFor
<1> QED
  BY <1>3, <1>4, <1>6, <1>7, <1>8 DEF ActorOK

LEMMA TxReadStep ==
  ASSUME IInv, NEW c \in Actors, TxRead(c)
  PROVE  IInv'
<1> DEFINE i  == NextOp(c)
           op == Resolved(c, call[c].todo[i])
<1>1. /\ call[c] \in CallType /\ ActorOK(c, call[c], bal, log, period)
      /\ call[c].at = "tx" /\ DOMAIN call[c].todo # {} /\ UNCHANGED <<store, world>>
  BY DEF IInv, Typed, TxRead
<1>2. /\ call[c].todo \in Todos /\ call[c].pend \in Pends
      /\ i \in DOMAIN call[c].todo /\ call[c].todo[i] \in Ops
  BY <1>1, NextOpIsLeft DEF CallType
<1>3. /\ op.do = call[c].todo[i].do /\ op.row = call[c].todo[i].row
      /\ ~(op.do = "carry" /\ op.days <= 0) => op \in Ops
  <2>1. call[c].todo[i].do = "carry" => call[c].todo[i].row[2] - 1 \in Years
    BY <1>1, <1>2, YearBefore DEF ActorOK
  <2> HIDE DEF i
  <2> QED
    BY <1>2, <2>1, ResolvedType
<1>4. StoreTyped' /\ bal' = bal /\ log' = log /\ period' = period
  BY <1>1 DEF IInv, Typed, StoreTyped, store, world
<1>5. \A d \in Actors \ {c} : DOMAIN call[c].pend \cap DOMAIN call[d].pend = {}
  BY DEF IInv, RowsLocked
<1>6. CASE op.do = "carry" /\ op.days <= 0
  <2> DEFINE new == [call[c] EXCEPT !.todo = Without(@, i)]
  <2>1. call' = [call EXCEPT ![c] = new]
    BY <1>6 DEF TxRead, Becomes
  <2>2. Without(call[c].todo, i) \in Todos
    BY <1>2, WithoutOp
  <2>3. /\ new \in CallType /\ new.at = "tx" /\ new.kind = call[c].kind /\ new.of = call[c].of
        /\ new.pend = call[c].pend /\ new.todo = Without(call[c].todo, i)
    BY <1>1, <2>2 DEF CallType
  <2> HIDE DEF new, i
  <2>4. ActorOK(c, new, bal, log, period)
    BY <1>1, <2>3, SkippedOp
  <2>5. \A d \in Actors \ {c} : DOMAIN new.pend \cap DOMAIN call[d].pend = {}
    BY <1>5, <2>3
  <2> QED
    BY <1>4, <2>1, <2>3, <2>4, <2>5, CallStep
<1>7. CASE ~(op.do = "carry" /\ op.days <= 0)
  <2>1. op \in Ops
    BY <1>3, <1>7
  <2> DEFINE new == [call[c] EXCEPT !.at = "write", !.snap = Sees(c, op.row), !.todo[i] = op]
  <2>2. call' = [call EXCEPT ![c] = new]
    BY <1>7 DEF TxRead, Becomes
  <2>3. Sees(c, op.row) \in Draft
    BY <1>2, <2>1, SeesDraft DEF Ops, IInv, Typed, StoreTyped
  <2>4. [call[c].todo EXCEPT ![i] = op] \in Todos
    BY <1>2, <2>1, ResolvedOp
  <2> HIDE DEF op, i
  <2>5. /\ new \in CallType /\ new.at = "write" /\ new.kind = call[c].kind /\ new.of = call[c].of
        /\ new.pend = call[c].pend /\ new.todo = [call[c].todo EXCEPT ![i] = op]
        /\ new.snap = Sees(c, op.row)
    BY <1>1, <2>3, <2>4 DEF CallType
  <2> HIDE DEF new
  <2>6. i = Min(DOMAIN call[c].todo) /\ Sees(c, op.row) = Sight(call[c], bal, op.row)
    BY DEF i, NextOp, Sees, Sight
  <2>7. ActorOK(c, new, bal, log, period)
    BY <1>1, <1>3, <2>1, <2>5, <2>6, ReadOp DEF IInv
  <2>8. \A d \in Actors \ {c} : DOMAIN new.pend \cap DOMAIN call[d].pend = {}
    BY <1>5, <2>5
  <2> QED
    BY <1>4, <2>2, <2>5, <2>7, <2>8, CallStep
<1> QED
  BY <1>6, <1>7

LEMMA GrownTwice ==
  ASSUME NEW x, NEW y, NEW z, Sound(x), Sound(y), Sound(z), Grown(x, y), Grown(y, z)
  PROVE  Grown(x, z)
BY DEF Sound, Row, Grown

\* The next operation of a call is on a row.
LEMMA NextRow ==
  ASSUME NEW k \in CallType, DOMAIN k.todo # {}
  PROVE  LET i == Min(DOMAIN k.todo)
         IN  i \in DOMAIN k.todo /\ k.todo[i] \in Ops /\ k.todo[i].row \in Rows
<1>1. PICK D \in SUBSET Nat : k.todo \in [D -> Ops]
  BY DEF CallType, Todos
<1>2. Min(D) \in D
  BY <1>1, MinOfNaturals
<1> QED
  BY <1>1, <1>2 DEF Ops

\* What an operation leaves in its row may be committed.
LEMMA RowWritten ==
  ASSUME RowsSound, NEW c \in Actors, NEW k \in CallType, NEW p, NEW i, NEW op,
         i = Min(DOMAIN k.todo), op = k.todo[i],
         CallOK(c, k, p), PendOK(c, k, bal, p), SnapOK(c, k, bal), FreshOK(c, k, bal),
         k.at = "write", ~Refused(op, k.snap, Sight(k, bal, op.row))
  PROVE  RowPending(c, bal, p, op.row, Updated(op, k.snap, Sight(k, bal, op.row)))
<1> DEFINE now == Sight(k, bal, op.row)
           new == Updated(op, k.snap, now)
<1>1. i \in DOMAIN k.todo /\ op \in Ops /\ op.row \in Rows
  BY NextRow DEF CallOK
<1>2. Sound(k.snap) /\ Grown(k.snap, now) /\ (c \in Crons => k.snap.cf = now.cf /\ k.snap.entitled = now.entitled)
  BY DEF SnapOK, ReadFor
<1>3. Sound(bal[op.row]) /\ Sound(now) /\ Grown(bal[op.row], now)
      /\ (c \in Calls => now.entitled = bal[op.row].entitled)
      /\ (now.cf # bal[op.row].cf => c \in Crons /\ p \in Decembers /\ op.row[2] = YearOf[p] + 1)
  BY <1>1, SightSound DEF RowsSound
<1> HIDE DEF now
<1>4. CASE c \in Calls
  <2>1. op.do \in {"deduct", "restore"}
    BY <1>1, <1>4 DEF CallOK, RequestCallOK
  <2>2. Sound(new) /\ new.cf = now.cf /\ new.entitled = now.entitled /\ (now.exists => new.exists)
    BY <1>1, <1>2, <1>3, <2>1, RequestRow DEF now
  <2> HIDE DEF new
  <2>3. Grown(now, new)
    BY <1>3, <2>2 DEF Grown, Sound, Row
  <2>4. Grown(bal[op.row], new)
    BY <1>3, <2>2, <2>3, GrownTwice
  <2>5. RowPending(c, bal, p, op.row, new)
    BY <1>3, <1>4, <2>2, <2>4, CallsAreNotCrons DEF RowPending
  <2> QED
    BY <2>5 DEF new, now
<1>5. CASE c \in Crons
  <2>1. AccrualCallOK(k, p) /\ p \in Periods /\ c \notin Calls
    BY <1>5, CallsAreNotCrons DEF CallOK, AccrualCallOK
  <2>2. YearOf[p] \in Nat
    BY <2>1, LeaveAssumption DEF LeaveAssumption
  <2>3. CASE op.do = "credit" /\ op.row[2] = YearOf[p]
    <3>1. Sound(new) /\ new.cf = now.cf /\ Grown(now, new)
      BY <1>1, <1>2, <1>3, <1>5, <2>3, CreditRow DEF now
    <3> HIDE DEF new
    <3>2. Grown(bal[op.row], new)
      BY <1>3, <3>1, GrownTwice
    <3>3. now.cf = bal[op.row].cf
      BY <1>3, <2>2, <2>3
    <3>4. RowPending(c, bal, p, op.row, new)
      BY <2>1, <3>1, <3>2, <3>3 DEF RowPending
    <3> QED
      BY <3>4 DEF new, now
  <2>4. CASE op.do = "carry" /\ p \in Decembers /\ op.row[2] = YearOf[p] + 1
    <3>1. now.cf = 0
      BY <1>1, <1>5, <2>4 DEF FreshOK, now
    <3>2. Sound(new) /\ Grown(now, new)
      BY <1>1, <1>2, <1>3, <1>5, <2>4, <3>1, CarryRow DEF now
    <3> HIDE DEF new
    <3>3. Grown(bal[op.row], new)
      BY <1>3, <3>2, GrownTwice
    <3>4. RowPending(c, bal, p, op.row, new)
      BY <1>5, <2>1, <2>4, <3>2, <3>3 DEF RowPending
    <3> QED
      BY <3>4 DEF new, now
  <2> QED
    BY <1>1, <2>1, <2>3, <2>4 DEF AccrualCallOK
<1> QED
  BY <1>4, <1>5 DEF Actors

LEMMA WrittenOp ==
  ASSUME RowsSound, NEW c \in Actors, NEW k \in CallType, NEW k2 \in CallType, NEW l, NEW p,
         NEW i, NEW op, NEW new \in Draft, i = Min(DOMAIN k.todo), op = k.todo[i],
         ActorOK(c, k, bal, l, p), k.at = "write",
         ~Refused(op, k.snap, Sight(k, bal, op.row)),
         new = Updated(op, k.snap, Sight(k, bal, op.row)),
         k2.at = "tx", k2.kind = k.kind, k2.of = k.of,
         k2.todo = Without(k.todo, i), k2.pend = WithRow(k.pend, op.row, new)
  PROVE  ActorOK(c, k2, bal, l, p)
<1>0. k.todo \in Todos /\ k.pend \in Pends
  BY DEF CallType
<1>1. /\ DOMAIN k2.todo = DOMAIN k.todo \ {i}
      /\ \A j \in DOMAIN k2.todo : k2.todo[j] = k.todo[j]
  <2>1. /\ DOMAIN Without(k.todo, i) = DOMAIN k.todo \ {i}
        /\ \A j \in DOMAIN k.todo \ {i} : Without(k.todo, i)[j] = k.todo[j]
    BY <1>0, WithoutOp
  <2> QED
    BY <2>1
<1>2. i \in DOMAIN k.todo /\ op.row \in Rows
  BY NextRow DEF ActorOK, CallOK
<1>3. /\ DOMAIN k2.pend = DOMAIN k.pend \cup {op.row}
      /\ \A x \in DOMAIN k2.pend : k2.pend[x] = IF x = op.row THEN new ELSE k.pend[x]
  <2>1. PICK row : row = op.row
    OBVIOUS
  <2>2. PICK pend : pend = k.pend
    OBVIOUS
  <2>3. pend \in Pends /\ row \in Rows
    BY <1>0, <1>2, <2>1, <2>2
  <2>4. DOMAIN WithRow(pend, row, new) = DOMAIN pend \cup {row}
    BY <2>3 DEF WithRow
  <2>5. \A x \in DOMAIN pend \cup {row} :
           WithRow(pend, row, new)[x] = IF x = row THEN new ELSE pend[x]
    BY <2>3 DEF WithRow
  <2>6. k2.pend = WithRow(pend, row, new)
    BY <2>1, <2>2
  <2> QED
    BY <2>1, <2>2, <2>4, <2>5, <2>6
<1>4. CallOK(c, k2, p)
  BY <1>1 DEF ActorOK, CallOK, RequestCallOK, AccrualCallOK
<1>5. SUFFICES ASSUME ~Doomed(k, l)
               PROVE  PendOK(c, k2, bal, p) /\ SnapOK(c, k2, bal) /\ FreshOK(c, k2, bal)
  BY <1>4 DEF ActorOK, Doomed
<1>6. CallOK(c, k, p) /\ PendOK(c, k, bal, p) /\ SnapOK(c, k, bal) /\ FreshOK(c, k, bal)
  BY <1>5 DEF ActorOK
<1>7. RowPending(c, bal, p, op.row, new)
  BY <1>6, RowWritten
<1>8. PendOK(c, k2, bal, p)
  BY <1>3, <1>6, <1>7 DEF PendOK
<1>9. SnapOK(c, k2, bal)
  BY DEF SnapOK
<1>10. FreshOK(c, k2, bal)
  <2>1. SUFFICES ASSUME c \in Crons, NEW j \in DOMAIN k2.todo, k2.todo[j].do = "carry"
                 PROVE  Sight(k2, bal, k2.todo[j].row).cf = 0
    BY DEF FreshOK
  <2>2. j \in DOMAIN k.todo /\ j # i /\ k2.todo[j] = k.todo[j]
    BY <1>1, <2>1
  <2>3. Sight(k, bal, k.todo[j].row).cf = 0
    BY <1>6, <2>1, <2>2 DEF FreshOK
  <2>4. AccrualCallOK(k, p) /\ p \in Periods
    BY <1>6, <2>1 DEF CallOK, AccrualCallOK
  <2>5. YearOf[p] \in Nat
    BY <2>4, LeaveAssumption DEF LeaveAssumption
  <2>6. k.todo[j].row[2] = YearOf[p] + 1
    BY <2>1, <2>2, <2>4 DEF AccrualCallOK
  <2>7. k.todo[j].row # op.row
    <3>1. CASE op.do = "carry"
      BY <1>2, <2>1, <2>2, <2>4, <3>1 DEF AccrualCallOK
    <3>2. CASE op.row[2] = YearOf[p]
      <4>1. YearOf[p] + 1 # YearOf[p]
        BY <2>5
      <4> QED
        BY <2>6, <3>2, <4>1, Zenon
    <3> QED
      BY <1>2, <2>4, <3>1, <3>2 DEF AccrualCallOK
  <2>8. Sight(k2, bal, k.todo[j].row) = Sight(k, bal, k.todo[j].row)
    BY <1>3, <2>7, Zenon DEF Sight
  <2> QED
    BY <2>2, <2>3, <2>8
<1> QED
  BY <1>8, <1>9, <1>10

LEMMA TxWriteStep ==
  ASSUME IInv, NEW c \in Actors, TxWrite(c)
  PROVE  IInv'
<1> DEFINE i   == NextOp(c)
           op  == call[c].todo[i]
           now == Sees(c, op.row)
           row == Updated(op, call[c].snap, now)
<1>1. /\ call[c] \in CallType /\ ActorOK(c, call[c], bal, log, period)
      /\ call[c].at = "write" /\ UNCHANGED <<store, world>>
      /\ \A d \in Actors \ {c} : op.row \notin DOMAIN call[d].pend
  BY DEF IInv, Typed, TxWrite
<1>2. StoreTyped' /\ bal' = bal /\ log' = log /\ period' = period
  BY <1>1 DEF IInv, Typed, StoreTyped, store, world
<1>3. /\ i = Min(DOMAIN call[c].todo) /\ now = Sight(call[c], bal, op.row)
  BY DEF NextOp, Sees, Sight
<1>4. /\ call[c].todo \in Todos /\ call[c].pend \in Pends /\ call[c].snap \in Draft
      /\ i \in DOMAIN call[c].todo /\ op \in Ops /\ op.row \in Rows
  BY <1>1, <1>3, NextRow DEF CallType, ActorOK, CallOK
<1>5. CASE Refused(op, call[c].snap, now)
  <2>1. End(c)
    BY <1>5 DEF TxWrite
  <2> QED
    BY <1>2, <2>1, EndStep
<1>6. CASE ~Refused(op, call[c].snap, now)
  <2> DEFINE new == [call[c] EXCEPT !.at = "tx", !.todo = Without(@, i), !.snap = NoRow,
                                    !.pend = WithRow(@, op.row, row)]
  <2>1. call' = [call EXCEPT ![c] = new]
    BY <1>6 DEF TxWrite, Becomes
  <2>2. now \in Draft /\ row \in Draft
    <3>1. now \in Draft
      BY <1>4, SeesDraft DEF IInv, Typed, StoreTyped
    <3> QED
      BY <1>4, <3>1, UpdatedType
  <2> HIDE DEF i, op, now, row
  <2>3. Without(call[c].todo, i) \in Todos
    BY <1>4, WithoutOp
  <2>4. /\ WithRow(call[c].pend, op.row, row) \in Pends
        /\ DOMAIN WithRow(call[c].pend, op.row, row) = DOMAIN call[c].pend \cup {op.row}
    <3>1. PICK x : x = op.row
      OBVIOUS
    <3>2. PICK pend : pend = call[c].pend
      OBVIOUS
    <3>3. pend \in Pends /\ x \in Rows /\ row \in Draft
      BY <1>4, <2>2, <3>1, <3>2
    <3>4. WithRow(pend, x, row) \in Pends /\ DOMAIN WithRow(pend, x, row) = DOMAIN pend \cup {x}
      BY <3>3, PendedRow, Zenon
    <3> QED
      BY <3>1, <3>2, <3>4
  <2>5. /\ new \in CallType /\ new.at = "tx" /\ new.kind = call[c].kind /\ new.of = call[c].of
        /\ new.todo = Without(call[c].todo, i) /\ new.pend = WithRow(call[c].pend, op.row, row)
    BY <1>1, <2>3, <2>4, NoRowIsDraft DEF CallType
  <2> HIDE DEF new
  <2>6. op = call[c].todo[i] /\ row = Updated(op, call[c].snap, now)
    BY DEF op, row
  <2>7. ActorOK(c, new, bal, log, period)
    BY <1>1, <1>3, <1>6, <2>2, <2>5, <2>6, WrittenOp DEF IInv
  <2>8. \A d \in Actors \ {c} : DOMAIN new.pend \cap DOMAIN call[d].pend = {}
    BY <1>1, <2>4, <2>5, <2>6 DEF IInv, RowsLocked
  <2> QED
    BY <1>2, <2>1, <2>5, <2>7, <2>8, CallStep
<1> QED
  BY <1>5, <1>6

-------------------------------------------------------------------------------
(* The end of a transaction                                                   *)

\* Rows b2 and logged periods l2 after somebody else's commit: the rows that d has
\* locked are the same, the others have grown, and a second run of a month is doomed.
LEMMA OtherCommitted ==
  ASSUME RowsSound, NEW d \in Actors, NEW k \in CallType, NEW p, NEW b2, NEW l2,
         ActorOK(d, k, bal, log, p), log \subseteq l2,
         \A row \in DOMAIN k.pend : b2[row] = bal[row],
         \A row \in Rows : Sound(b2[row]) /\ Grown(bal[row], b2[row]),
         d \in Crons => \/ Doomed(k, l2)
                        \/ k.at = "idle"
                        \/ \A row \in Rows : /\ b2[row].cf = bal[row].cf
                                             /\ b2[row].entitled = bal[row].entitled
  PROVE  ActorOK(d, k, b2, l2, p)
<1>1. CallOK(d, k, p)
  BY DEF ActorOK
<1>2. SUFFICES ASSUME ~Doomed(k, l2)
               PROVE  PendOK(d, k, b2, p) /\ SnapOK(d, k, b2) /\ FreshOK(d, k, b2)
  BY <1>1 DEF ActorOK
<1>3. PendOK(d, k, bal, p) /\ SnapOK(d, k, bal) /\ FreshOK(d, k, bal)
  BY <1>2 DEF ActorOK, Doomed
<1>4. PendOK(d, k, b2, p)
  BY <1>3 DEF PendOK, RowPending
<1>5. ASSUME NEW row \in Rows
      PROVE  /\ Sound(Sight(k, bal, row)) /\ Sound(Sight(k, b2, row))
             /\ Grown(Sight(k, bal, row), Sight(k, b2, row))
             /\ d \in Crons /\ k.at # "idle" =>
                  /\ Sight(k, b2, row).cf = Sight(k, bal, row).cf
                  /\ Sight(k, b2, row).entitled = Sight(k, bal, row).entitled
  <2>1. Sound(Sight(k, bal, row))
    BY <1>3, SightSound
  <2>2. CASE row \in DOMAIN k.pend
    <3>1. Sight(k, b2, row) = Sight(k, bal, row)
      BY <2>2 DEF Sight
    <3>2. Grown(Sight(k, bal, row), Sight(k, bal, row))
      BY <2>1 DEF Grown, Sound, Row
    <3> QED
      BY <2>1, <3>1, <3>2
  <2>3. CASE row \notin DOMAIN k.pend
    BY <1>2, <2>1, <2>3 DEF Sight
  <2> QED
    BY <2>2, <2>3
<1>6. SnapOK(d, k, b2)
  <2>1. SUFFICES ASSUME k.at = "write"
                 PROVE  ReadFor(d, k.snap, Sight(k, b2, k.todo[Min(DOMAIN k.todo)].row))
    BY DEF SnapOK
  <2>2. PICK row \in Rows : row = k.todo[Min(DOMAIN k.todo)].row
    BY <1>1, <2>1, NextRow DEF CallOK
  <2>3. ReadFor(d, k.snap, Sight(k, bal, row))
    BY <1>3, <2>1, <2>2 DEF SnapOK
  <2>4. Grown(k.snap, Sight(k, b2, row))
    BY <1>5, <2>3, GrownTwice DEF ReadFor
  <2>5. ReadFor(d, k.snap, Sight(k, b2, row))
    BY <1>5, <2>1, <2>3, <2>4 DEF ReadFor
  <2> QED
    BY <2>2, <2>5
<1>7. FreshOK(d, k, b2)
  <2>1. SUFFICES ASSUME d \in Crons, NEW i \in DOMAIN k.todo, k.todo[i].do = "carry"
                 PROVE  Sight(k, b2, k.todo[i].row).cf = 0
    BY DEF FreshOK
  <2>2. k.todo[i].row \in Rows
    <3>1. PICK D \in SUBSET Nat : k.todo \in [D -> Ops]
      BY DEF CallType, Todos
    <3> QED
      BY <2>1, <3>1 DEF Ops
  <2>3. Sight(k, bal, k.todo[i].row).cf = 0
    BY <1>3, <2>1 DEF FreshOK
  <2>4. k.at # "idle"
    BY <1>1, <2>1 DEF CallOK
  <2> QED
    BY <1>5, <2>1, <2>2, <2>3, <2>4
<1> QED
  BY <1>4, <1>6, <1>7

\* The rows of a transaction that is not doomed are committed.
LEMMA FlushStep ==
  ASSUME IInv, NEW c \in Actors, ~Doomed(call[c], log), call[c].at = "tx",
         End(c), bal' = Flushed(c), period' = period,
         status' \in [Requests -> Statuses], taken' \in [Requests -> [Years -> Nat]],
         moved' = moved, fired' = fired,
         c \in Calls => log' = log,
         c \in Crons => log' = log \cup {period}
  PROVE  IInv'
<1> DEFINE k == call[c]
<1>1. /\ k \in CallType /\ CallOK(c, k, period) /\ PendOK(c, k, bal, period) /\ RowsSound
      /\ c \in Crons => period \in Periods
  BY DEF IInv, Typed, ActorOK, CallOK, AccrualCallOK
<1>2. \A row \in Rows : bal'[row] = Sight(k, bal, row)
  BY DEF Flushed, Sees, Sight
<1>3. ASSUME NEW row \in Rows
      PROVE  /\ Sound(bal'[row]) /\ Grown(bal[row], bal'[row])
             /\ c \in Calls => bal'[row].entitled = bal[row].entitled
             /\ bal'[row].cf # bal[row].cf
                  => c \in Crons /\ period \in Decembers /\ row[2] = YearOf[period] + 1
  BY <1>1, <1>2, SightSound
<1>4. RowsSound'
  BY <1>3 DEF RowsSound
<1>5. log \subseteq log' /\ log' \in SUBSET Periods
  BY <1>1 DEF IInv, Typed, StoreTyped, Actors
<1>6. StoreTyped'
  <2>1. bal' \in [Rows -> Row]
    <3>1. \A row \in Rows : bal'[row] \in Row
      BY <1>3 DEF Sound
    <3>2. bal' = [row \in Rows |-> Sees(c, row)]
      BY DEF Flushed
    <3> QED
      BY <3>1, <3>2
  <2> QED
    BY <1>5, <2>1 DEF IInv, Typed, StoreTyped, StartYear
<1>7. call' = [call EXCEPT ![c] = Ended(c)]
  BY DEF End, Becomes, Ended
<1>8. call'[c] = Ended(c) /\ \A d \in Actors \ {c} : call'[d] = call[d]
  BY <1>7 DEF IInv, Typed
<1>9. DOMAIN Ended(c).pend = {} /\ Ended(c) \in CallType /\ ActorOK(c, Ended(c), bal', log', period')
  BY EndedCall
<1>10. Typed'
  BY <1>6, <1>7, <1>9 DEF IInv, Typed
<1>11. RowsLocked'
  BY <1>8, <1>9 DEF IInv, RowsLocked
<1>12. NotCarriedYet'
  <2>1. SUFFICES ASSUME NEW p \in Decembers, p \notin log', NEW e \in Employees
                 PROVE  bal'[<<e, YearOf[p] + 1>>].cf = 0
    BY DEF NotCarriedYet
  <2>2. /\ <<e, YearOf[p] + 1>> \in Rows
        /\ \A q \in Decembers : YearOf[q] + 1 = YearOf[p] + 1 => q = p
    <3>1. /\ YearOf \in [Periods -> Years] /\ Years \subseteq Nat /\ Decembers \subseteq Periods
          /\ YearOf[p] + 1 \in Years
          /\ \A q, r \in Decembers : YearOf[q] = YearOf[r] => q = r
      BY LeaveAssumption DEF LeaveAssumption
    <3>2. \A q \in Decembers : YearOf[q] \in Nat
      BY <3>1
    <3>3. ASSUME NEW q \in Decembers, YearOf[q] + 1 = YearOf[p] + 1
          PROVE  YearOf[q] = YearOf[p]
      <4>1. PICK y \in Nat : y = YearOf[q]
        BY <3>2
      <4>2. PICK z \in Nat : z = YearOf[p]
        BY <3>2
      <4>3. y + 1 = z + 1
        BY <3>3, <4>1, <4>2
      <4> QED
        BY <4>1, <4>2, <4>3
    <3> QED
      BY <3>1, <3>3 DEF Rows
  <2>3. bal[<<e, YearOf[p] + 1>>].cf = 0
    BY <1>5, <2>1 DEF IInv, NotCarriedYet
  <2>4. ASSUME bal'[<<e, YearOf[p] + 1>>].cf # bal[<<e, YearOf[p] + 1>>].cf
        PROVE  FALSE
    <3>1. c \in Crons /\ period \in Decembers /\ YearOf[period] + 1 = YearOf[p] + 1
      BY <1>3, <2>2, <2>4
    <3>2. period = p
      BY <2>2, <3>1
    <3> QED
      BY <2>1, <3>1, <3>2
  <2> QED
    BY <2>3, <2>4
<1>13. ASSUME NEW d \in Actors \ {c}
       PROVE  ActorOK(d, call[d], bal', log', period')
  <2>1. call[d] \in CallType /\ ActorOK(d, call[d], bal, log, period)
    BY DEF IInv, Typed
  <2>2. \A row \in DOMAIN call[d].pend : bal'[row] = bal[row]
    <3>1. PICK D \in SUBSET Rows : call[d].pend \in [D -> Draft]
      BY <2>1 DEF CallType, Pends
    <3>2. DOMAIN call[d].pend \cap DOMAIN k.pend = {}
      BY DEF IInv, RowsLocked
    <3> QED
      BY <1>2, <3>1, <3>2 DEF Sight
  <2>3. d \in Crons => \/ Doomed(call[d], log')
                       \/ call[d].at = "idle"
                       \/ \A row \in Rows : /\ bal'[row].cf = bal[row].cf
                                            /\ bal'[row].entitled = bal[row].entitled
    <3>1. CASE c \in Crons /\ d \in Crons
      <4>1. AccrualCallOK(call[d], period)
        BY <2>1, <3>1 DEF ActorOK, CallOK
      <4>2. period \in log'
        BY <3>1
      <4> QED
        BY <4>1, <4>2 DEF AccrualCallOK, Doomed
    <3>2. CASE c \in Calls
      BY <1>3, <3>2, CallsAreNotCrons
    <3> QED
      BY <3>1, <3>2 DEF Actors
  <2>4. ActorOK(d, call[d], bal', log', period)
    BY <1>1, <1>3, <1>5, <2>1, <2>2, <2>3, OtherCommitted
  <2> QED
    BY <2>4
<1>14. \A d \in Actors : ActorOK(d, call'[d], bal', log', period')
  BY <1>8, <1>9, <1>13
<1> QED
  BY <1>4, <1>10, <1>11, <1>12, <1>14 DEF IInv

LEMMA CommitRequestStep ==
  ASSUME IInv, NEW c \in Actors, CommitRequest(c)
  PROVE  IInv'
<1> DEFINE k == call[c]
<1>1. /\ k \in CallType /\ CallOK(c, k, period)
      /\ k.at = "tx" /\ k.kind # "accrual" /\ End(c) /\ bal' = Flushed(c)
      /\ status' = [status EXCEPT ![k.of] = k.kind]
      /\ taken' = IF k.kind = "APPROVED" THEN [taken EXCEPT ![k.of] = k.split] ELSE taken
      /\ log' = log /\ period' = period /\ moved' = moved /\ fired' = fired
  BY DEF IInv, Typed, ActorOK, CommitRequest, world
<1>2. c \in Calls /\ c \notin Crons
  BY <1>1, CallsAreNotCrons DEF Actors, CallOK, AccrualCallOK
<1>3. k.of \in Requests /\ k.kind \in {"APPROVED", "REJECTED", "CANCELLED"} /\ k.split \in [Years -> Nat]
  BY <1>1, <1>2 DEF CallOK, RequestCallOK, CallType
<1>4. status' \in [Requests -> Statuses] /\ taken' \in [Requests -> [Years -> Nat]]
  BY <1>1, <1>3 DEF IInv, Typed, StoreTyped, Statuses
<1>5. ~Doomed(k, log)
  BY <1>1 DEF Doomed
<1> QED
  BY <1>1, <1>2, <1>4, <1>5, FlushStep

LEMMA CommitAccrualStep ==
  ASSUME IInv, NEW c \in Actors, CommitAccrual(c)
  PROVE  IInv'
<1> DEFINE k == call[c]
<1>1. /\ CallOK(c, k, period) /\ k.at = "tx" /\ k.kind = "accrual" /\ End(c)
      /\ period' = period /\ moved' = moved /\ fired' = fired
      /\ status' = status /\ taken' = taken
  BY DEF IInv, ActorOK, CommitAccrual, world
<1>2. c \in Crons /\ c \notin Calls
  BY <1>1, CallsAreNotCrons DEF Actors, CallOK, RequestCallOK
<1>3. k.of = period
  BY <1>1, <1>2 DEF CallOK, AccrualCallOK
<1>4. CASE k.of \in log
  <2>1. log' = log /\ bal' = bal
    BY <1>4 DEF CommitAccrual
  <2> QED
    BY <1>1, <2>1, EndStep DEF IInv, Typed, StoreTyped
<1>5. CASE k.of \notin log
  <2>1. log' = log \cup {period} /\ bal' = Flushed(c) /\ ~Doomed(k, log)
    BY <1>3, <1>5 DEF CommitAccrual, Doomed
  <2>2. status' \in [Requests -> Statuses] /\ taken' \in [Requests -> [Years -> Nat]]
    BY <1>1 DEF IInv, Typed, StoreTyped
  <2> QED
    BY <1>1, <1>2, <2>1, <2>2, FlushStep
<1> QED
  BY <1>4, <1>5

-------------------------------------------------------------------------------
(* The world                                                                  *)

LEMMA NextMonthStep ==
  ASSUME IInv, NextMonth
  PROVE  IInv'
<1>1. /\ period + 1 \in Periods /\ period' = period + 1 /\ fired' = {}
      /\ status' = status /\ bal' = bal /\ log' = log /\ taken' = taken
      /\ moved' = moved /\ call' = call
      /\ period = 0 \/ \A c \in Crons : ~InFlight(c)
  BY DEF NextMonth, store
<1>2. Typed'
  BY <1>1 DEF IInv, Typed, StoreTyped, StartYear
<1>3. RowsLocked' /\ RowsSound' /\ NotCarriedYet'
  BY <1>1 DEF IInv, RowsLocked, RowsSound, NotCarriedYet
<1>4. ASSUME NEW c \in Actors
      PROVE  ActorOK(c, call[c], bal, log, period + 1)
  <2>1. ActorOK(c, call[c], bal, log, period)
    BY DEF IInv
  <2>2. CASE c \in Crons
    <3>1. call[c].at = "idle"
      BY <1>1, <2>1, <2>2, PeriodsArePositive DEF ActorOK, CallOK, AccrualCallOK, InFlight
    <3>2. DOMAIN call[c].todo = {} /\ DOMAIN call[c].pend = {} /\ c \notin Calls
      BY <2>1, <2>2, <3>1, CallsAreNotCrons DEF ActorOK, CallOK
    <3> QED
      BY <2>2, <3>1, <3>2 DEF ActorOK, CallOK, AccrualCallOK, PendOK, SnapOK, FreshOK
  <2>3. CASE c \notin Crons
    BY <2>1, <2>3 DEF ActorOK, CallOK, PendOK, RowPending, SnapOK, FreshOK
  <2> QED
    BY <2>2, <2>3
<1> QED
  BY <1>1, <1>2, <1>3, <1>4 DEF IInv

LEMMA AddHolidayStep ==
  ASSUME IInv, NEW r \in Requests, AddHoliday(r)
  PROVE  IInv'
<1>1. /\ moved' = moved \cup {r} /\ Days[r][StartYear(r)] > 1
      /\ UNCHANGED <<status, bal, log, taken, period, fired, call>>
  BY DEF AddHoliday, store
<1>2. Typed'
  BY <1>1 DEF IInv, Typed, StoreTyped, StartYear
<1>3. RowsLocked' /\ RowsSound' /\ NotCarriedYet'
  BY <1>1 DEF IInv, RowsLocked, RowsSound, NotCarriedYet
<1> QED
  BY <1>1, <1>2, <1>3 DEF IInv

-------------------------------------------------------------------------------
(* The invariant holds                                                        *)

LEMMA InvInit == Init => IInv
<1> SUFFICES ASSUME Init PROVE IInv
  OBVIOUS
<1>1. /\ Applied \subseteq Requests /\ Opening \in Nat
      /\ Years \subseteq Nat /\ \A p \in Decembers : YearOf[p] \in Nat /\ YearOf[p] + 1 # 1
                                                     /\ YearOf[p] + 1 \in Years
  <2>1. /\ Years \subseteq Nat \ {0} /\ YearOf \in [Periods -> Years] /\ Decembers \subseteq Periods
        /\ \A p \in Decembers : YearOf[p] + 1 \in Years
        /\ Applied \subseteq Requests /\ Opening \in Nat
    BY LeaveAssumption DEF LeaveAssumption
  <2>2. \A p \in Decembers : YearOf[p] \in Nat /\ YearOf[p] # 0
    BY <2>1, Zenon
  <2> QED
    BY <2>1, <2>2
<1> DEFINE opened == [NoRow EXCEPT !.exists = TRUE, !.cf = Opening, !.balance = Opening]
<1>2. Shows(opened, TRUE, Opening, 0, 0, Opening)
  BY <1>1, Opening \in Int, RowColumns, NoRowIsDraft, Zenon
<1> HIDE DEF opened
<1>3. Sound(opened)
  <2>1. 0 \in Nat /\ Opening <= Opening + 0 /\ 0 <= Opening + 0
    BY <1>1
  <2> QED
    BY <1>1, <1>2, <2>1, SoundRow
<1>4. Sound(NoRow) /\ NoRow.cf = 0
  BY NoRowIsDraft DEF Sound, NoRow
<1>5. bal = [row \in Rows |-> IF row[2] = 1 /\ Opening > 0 THEN opened ELSE NoRow]
  BY DEF Init, opened
<1>6. RowsSound
  BY <1>3, <1>4, <1>5 DEF RowsSound
<1>7. NotCarriedYet
  <2>1. ASSUME NEW p \in Decembers, NEW e \in Employees
        PROVE  bal[<<e, YearOf[p] + 1>>] = NoRow
    <3>1. PICK y : y = YearOf[p] + 1
      OBVIOUS
    <3>2. y \in Years /\ y # 1
      BY <1>1, <3>1
    <3>3. <<e, y>> \in Rows
      BY <3>2 DEF Rows
    <3> QED
      BY <1>5, <3>1, <3>2, <3>3
  <2> QED
    BY <1>4, <2>1 DEF NotCarriedYet
<1>8. StoreTyped
  <2>1. bal \in [Rows -> Row]
    BY <1>3, <1>4, <1>5 DEF Sound
  <2>2. status \in [Requests -> Statuses]
    BY DEF Init, Statuses
  <2>3. taken \in [Requests -> [Years -> Nat]]
    BY ZeroDays DEF Init
  <2> QED
    BY <2>1, <2>2, <2>3 DEF Init, StoreTyped
<1>9. call = [c \in Actors |-> IdleCall]
  BY DEF Init
<1>10. Typed
  BY <1>8, <1>9, IdleFields DEF Typed
<1>11. DOMAIN IdleCall.pend = {} /\ DOMAIN IdleCall.todo = {}
  BY IdleFields, EmptyTodo
<1>12. RowsLocked
  BY <1>9, <1>11 DEF RowsLocked
<1>13. ASSUME NEW c \in Actors
       PROVE  ActorOK(c, IdleCall, bal, log, period)
  <2>1. CallOK(c, IdleCall, period)
    BY <1>11, IdleFields DEF CallOK, RequestCallOK, AccrualCallOK
  <2> QED
    BY <2>1, IdleFields, QuietCall
<1>14. \A c \in Actors : ActorOK(c, call[c], bal, log, period)
  BY <1>9, <1>13
<1> QED
  BY <1>6, <1>7, <1>10, <1>12, <1>14 DEF IInv

LEMMA InvNext == IInv /\ [Next]_vars => IInv'
<1> SUFFICES ASSUME IInv, [Next]_vars PROVE IInv'
  OBVIOUS
<1>1. ASSUME NEW c \in Actors, Proceed(c) PROVE IInv'
  BY <1>1, ApplyCountStep, ApplyCreateStep, LockRequestStep, TxReadStep, TxWriteStep,
     CommitRequestStep, CommitAccrualStep DEF Proceed
<1>2. ASSUME NEW c \in Actors, Abort(c) PROVE IInv'
  BY <1>2, AbortStep
<1>3. ASSUME NEW c \in Calls, NEW r \in Requests, ApplyCheck(c, r) PROVE IInv'
  BY <1>3, ApplyCheckStep
<1>4. ASSUME NEW c \in Calls, NEW r \in Requests, ApproveCheck(c, r) PROVE IInv'
  BY <1>4, ReviewStep DEF ApproveCheck
<1>5. ASSUME NEW c \in Calls, NEW r \in Requests, RejectCheck(c, r) PROVE IInv'
  BY <1>5, ReviewStep DEF RejectCheck
<1>6. ASSUME NEW c \in Calls, NEW r \in Requests, CancelCheck(c, r) PROVE IInv'
  BY <1>6, ReviewStep DEF CancelCheck
<1>7. ASSUME NEW c \in Crons, AccrualStart(c) PROVE IInv'
  BY <1>7, AccrualStartStep
<1>8. CASE NextMonth
  BY <1>8, NextMonthStep
<1>9. ASSUME NEW r \in Requests, AddHoliday(r) PROVE IInv'
  BY <1>9, AddHolidayStep
<1>10. CASE UNCHANGED vars
  BY <1>10 DEF vars, store, world, IInv, Typed, StoreTyped, StartYear, RowsLocked,
     RowsSound, NotCarriedYet
<1> QED
  BY <1>1, <1>2, <1>3, <1>4, <1>5, <1>6, <1>7, <1>8, <1>9, <1>10 DEF Next

LEMMA Invariant == Spec => []IInv
BY InvInit, InvNext, PTL DEF Spec

-------------------------------------------------------------------------------
(* The theorems                                                               *)

\* Every variable keeps its type: no committed balance is ever negative, whatever
\* deductBalance has read.
THEOREM TypeCorrect == Spec => []TypeOK
<1>1. IInv => TypeOK
  <2> SUFFICES ASSUME IInv PROVE TypeOK
    OBVIOUS
  <2>1. period \in Nat
    BY LeaveAssumption DEF LeaveAssumption, IInv, Typed, StoreTyped
  <2>2. ASSUME NEW c \in Actors
        PROVE  /\ call[c].at \in {"idle", "count", "create", "lock", "tx", "write", "done"}
               /\ call[c].snap \in Draft
               /\ DOMAIN call[c].pend \subseteq Rows
               /\ \A row \in DOMAIN call[c].pend : call[c].pend[row] \in Draft
    <3>1. call[c] \in CallType
      BY DEF IInv, Typed
    <3>2. PICK D \in SUBSET Rows : call[c].pend \in [D -> Draft]
      BY <3>1 DEF CallType, Pends
    <3> QED
      BY <3>1, <3>2 DEF CallType
  <2> QED
    BY <2>1, <2>2 DEF IInv, Typed, StoreTyped, TypeOK
<1> QED
  BY <1>1, Invariant, PTL

\* deductBalance: no row shows more days used than were credited to it.
THEOREM NeverOverdraws == Spec => []NeverOverdrawn
<1>1. IInv => NeverOverdrawn
  BY DEF IInv, RowsSound, Sound, NeverOverdrawn
<1> QED
  BY <1>1, Invariant, PTL

\* restoreBalance and the accrual: no row shows a balance beyond what was credited to it.
THEOREM NeverPromisesMore == Spec => []ShowsAtMostCredit
<1>1. IInv => ShowsAtMostCredit
  BY DEF IInv, RowsSound, Sound, ShowsAtMostCredit
<1> QED
  BY <1>1, Invariant, PTL

-------------------------------------------------------------------------------
(* Calls that do not overlap                                                  *)

Busy(k) == k.at \notin {"idle", "done"}

Covered(row) == row.balance <= Left(row)

\* a is the set of active requests.  What a call has read is still so, what it has
\* written is covered; the request it may create has room, the one it reviews is active.
SerialOK(c, k, b, a) ==
  /\ k.at = "write" => k.snap = Sight(k, b, k.todo[Min(DOMAIN k.todo)].row)
  /\ \A row \in DOMAIN k.pend : Covered(k.pend[row])
  /\ k.at = "create" => Cardinality(Clash[k.of] \cap a) < TeamLimit
  /\ c \in Calls /\ k.at \in {"lock", "tx", "write"} => k.of \in a

OneAtATime == \A c \in Actors : \A d \in Actors \ {c} : ~(Busy(call[c]) /\ Busy(call[d]))

SerialInv ==
  /\ IInv
  /\ OneAtATime
  /\ BalanceIsCovered
  /\ TeamWithinCapacity
  /\ \A c \in Actors : SerialOK(c, call[c], bal, Active)

\* The requests that are pending initially fit the team.
AppliedFit ==
  \A S \in SUBSET Applied :
    (\A r \in S : S \ {r} \subseteq Clash[r]) => Cardinality(S) <= TeamLimit

\* An update from the row as it is leaves a covered row.
LEMMA CoveredUpdate ==
  ASSUME NEW op \in Ops, NEW s \in Draft, Covered(s)
  PROVE  Covered(Updated(op, s, s))
<1>1. /\ op.days \in Nat /\ s.cf \in Nat /\ s.entitled \in Nat /\ s.used \in Nat /\ s.balance \in Int
      /\ op.do \in {"deduct", "restore", "credit", "carry"}
  BY DEF Ops, Draft
<1>2. CASE op.do = "deduct"
  BY <1>1, <1>2, DeductedRow DEF Shows, Covered, Left
<1>3. CASE op.do = "restore" /\ s.exists
  BY <1>1, <1>3, RestoredRow DEF Shows, Covered, Left
<1>4. CASE op.do = "restore" /\ ~s.exists
  BY <1>4 DEF Updated
<1>5. CASE op.do = "credit"
  <2> DEFINE days == s.cf + s.entitled - s.used + op.days
  <2>1. /\ days \in Int /\ Cap(days) \in Int /\ Cap(days) <= days
        /\ Cap(op.days) \in Int /\ Cap(op.days) <= op.days
    BY <1>1, CapBounds
  <2>2. IF s.exists
        THEN Shows(Updated(op, s, s), s.exists, s.cf, s.entitled + op.days, s.used, Cap(days))
        ELSE Shows(Updated(op, s, s), TRUE, 0, op.days, 0, Cap(op.days))
    BY <1>5, CreditedRow
  <2> QED
    BY <1>1, <2>1, <2>2 DEF Shows, Covered, Left
<1>6. CASE op.do = "carry"
  <2>1. CASE s.exists
    <3>1. Shows(Updated(op, s, s), s.exists, op.days, s.entitled, s.used,
                op.days + s.entitled - s.used)
      BY <1>6, <2>1, CarriedRow
    <3> QED
      BY <1>1, <3>1 DEF Shows, Covered, Left
  <2>2. CASE ~s.exists
    <3>1. Shows(Updated(op, s, s), TRUE, op.days, 0, 0, op.days)
      BY <1>6, <2>2, CarriedRow
    <3> QED
      BY <1>1, <3>1 DEF Shows, Covered, Left
  <2> QED
    BY <2>1, <2>2
<1> QED
  BY <1>1, <1>2, <1>3, <1>4, <1>5, <1>6

\* A call that is not in flight has nothing to answer for.
LEMMA SerialQuiet ==
  ASSUME NEW c, NEW k, NEW p, CallOK(c, k, p), ~Busy(k), NEW b, NEW a
  PROVE  SerialOK(c, k, b, a)
BY DEF CallOK, Busy, SerialOK

\* A step of the call in flight, or of one that begins when none is.
LEMMA SerialStep ==
  ASSUME SerialInv, IInv', NEW c \in Actors, NEW new,
         call' = [call EXCEPT ![c] = new],
         Busy(call[c]) \/ \A d \in Actors : ~Busy(call[d]),
         SerialOK(c, new, bal', Active'), BalanceIsCovered', TeamWithinCapacity'
  PROVE  SerialInv'
<1>1. call'[c] = new /\ \A d \in Actors \ {c} : call'[d] = call[d]
  BY DEF SerialInv, IInv, Typed
<1>2. \A d \in Actors \ {c} : ~Busy(call[d])
  BY DEF SerialInv, OneAtATime
<1>3. OneAtATime'
  BY <1>1, <1>2 DEF OneAtATime
<1>4. ASSUME NEW d \in Actors \ {c} PROVE SerialOK(d, call'[d], bal', Active')
  <2>1. CallOK(d, call[d], period)
    BY DEF SerialInv, IInv, ActorOK
  <2> QED
    BY <1>1, <1>2, <2>1, SerialQuiet
<1> QED
  BY <1>1, <1>3, <1>4 DEF SerialInv

LEMMA SerialEnd ==
  ASSUME SerialInv, IInv', NEW c \in Actors, End(c), Busy(call[c]),
         BalanceIsCovered', TeamWithinCapacity'
  PROVE  SerialInv'
<1>1. call' = [call EXCEPT ![c] = Ended(c)]
  BY DEF End, Becomes, Ended
<1>2. ~Busy(Ended(c)) /\ CallOK(c, Ended(c), period)
  <2>1. ActorOK(c, Ended(c), bal, log, period)
    BY EndedCall
  <2>2. Ended(c).at \in {"idle", "done"}
    BY IdleFields DEF Ended, CallType
  <2> QED
    BY <2>1, <2>2 DEF ActorOK, Busy
<1>3. SerialOK(c, Ended(c), bal', Active')
  BY <1>2, SerialQuiet
<1> QED
  BY <1>1, <1>3, SerialStep

\* Fewer active requests fit as well.
LEMMA FewerFit ==
  ASSUME TeamWithinCapacity, Active' \subseteq Active
  PROVE  TeamWithinCapacity'
BY DEF TeamWithinCapacity

LEMMA SameRows ==
  ASSUME SerialInv, UNCHANGED <<store, world>>
  PROVE  BalanceIsCovered' /\ TeamWithinCapacity' /\ bal' = bal /\ Active' = Active
BY DEF SerialInv, BalanceIsCovered, TeamWithinCapacity, Active, store, world

LEMMA NobodyBusy ==
  ASSUME SerialCalls, NEW c, Start(c)
  PROVE  \A d \in Actors : ~Busy(call[d])
BY DEF Start, InFlight, Busy

LEMMA SerialApplyCheck ==
  ASSUME SerialCalls, SerialInv, IInv', NEW c \in Calls, NEW r \in Requests, ApplyCheck(c, r)
  PROVE  SerialInv'
<1> DEFINE new == [call[c] EXCEPT !.at = "count", !.kind = "apply", !.of = r]
<1>1. call[c] \in CallType /\ CallOK(c, call[c], period) /\ c \in Actors
  BY DEF SerialInv, IInv, Typed, ActorOK, Actors
<1>2. /\ call' = [call EXCEPT ![c] = new] /\ UNCHANGED <<store, world>> /\ Start(c)
      /\ call[c].at = "idle"
  BY DEF ApplyCheck, Becomes, Start
<1>3. new.at = "count" /\ new.pend = call[c].pend
  BY <1>1 DEF CallType
<1> HIDE DEF new
<1>4. SerialOK(c, new, bal', Active')
  BY <1>1, <1>2, <1>3 DEF SerialOK, CallOK
<1> QED
  BY <1>1, <1>2, <1>4, SameRows, NobodyBusy, SerialStep

LEMMA SerialReview ==
  ASSUME SerialCalls, SerialInv, IInv', NEW c \in Calls, NEW r \in Requests,
         NEW kind, NEW allowed \in SUBSET {"PENDING", "APPROVED"}, Review(c, r, kind, allowed)
  PROVE  SerialInv'
<1> DEFINE new == [call[c] EXCEPT !.at = "lock", !.kind = kind, !.of = r, !.seen = status[r]]
<1>1. call[c] \in CallType /\ CallOK(c, call[c], period) /\ c \in Actors
  BY DEF SerialInv, IInv, Typed, ActorOK, Actors
<1>2. /\ call' = [call EXCEPT ![c] = new] /\ UNCHANGED <<store, world>> /\ Start(c)
      /\ call[c].at = "idle" /\ status[r] \in allowed
  BY DEF Review, Becomes, Start
<1>3. new.at = "lock" /\ new.pend = call[c].pend /\ new.of = r
  BY <1>1 DEF CallType
<1> HIDE DEF new
<1>4. r \in Active
  BY <1>2 DEF Active
<1>5. SerialOK(c, new, bal', Active')
  BY <1>1, <1>2, <1>3, <1>4, SameRows DEF SerialOK, CallOK
<1> QED
  BY <1>1, <1>2, <1>5, SameRows, NobodyBusy, SerialStep

LEMMA SerialApplyCount ==
  ASSUME IsFiniteSet(Requests), SerialInv, IInv', NEW c \in Actors, ApplyCount(c)
  PROVE  SerialInv'
<1>1. call[c] \in CallType /\ CallOK(c, call[c], period) /\ call[c].at = "count"
      /\ UNCHANGED <<store, world>> /\ Busy(call[c])
  BY DEF SerialInv, IInv, Typed, ActorOK, ApplyCount, Busy
<1>2. c \in Calls /\ call[c].of \in Requests
  BY <1>1 DEF Actors, CallOK, AccrualCallOK, RequestCallOK
<1>3. CASE End(c)
  BY <1>1, <1>3, SameRows, SerialEnd
<1>4. CASE ~(Cardinality(Clash[call[c].of] \cap Active) >= TeamLimit)
  <2> DEFINE new == [call[c] EXCEPT !.at = "create"]
  <2>1. call' = [call EXCEPT ![c] = new]
    BY <1>4 DEF ApplyCount, Becomes
  <2>2. new.at = "create" /\ new.pend = call[c].pend /\ new.of = call[c].of
    BY <1>1 DEF CallType
  <2> HIDE DEF new
  <2>3. Cardinality(Clash[call[c].of] \cap Active) \in Nat /\ TeamLimit \in Nat
    <3>1. Clash[call[c].of] \cap Active \in SUBSET Requests
      BY DEF Active
    <3>2. IsFiniteSet(Clash[call[c].of] \cap Active)
      BY <3>1, FS_Subset
    <3> QED
      BY <3>2, FS_CardinalityType, LeaveAssumption DEF LeaveAssumption
  <2>4. Cardinality(Clash[call[c].of] \cap Active) < TeamLimit
    BY <1>4, <2>3
  <2>5. SerialOK(c, new, bal', Active')
    BY <1>1, <2>2, <2>4, SameRows DEF SerialOK, CallOK
  <2> QED
    BY <1>1, <2>1, <2>5, SameRows, SerialStep
<1> QED
  BY <1>3, <1>4 DEF ApplyCount

\* The requests that overlap the new one are those counted.
LEMMA SerialApplyCreate ==
  ASSUME IsFiniteSet(Requests), SerialInv, IInv', NEW c \in Actors, ApplyCreate(c)
  PROVE  SerialInv'
<1> DEFINE r == call[c].of
<1>1. /\ CallOK(c, call[c], period) /\ SerialOK(c, call[c], bal, Active)
      /\ call[c].at = "create" /\ Busy(call[c]) /\ End(c)
      /\ bal' = bal /\ status' = [status EXCEPT ![r] = "PENDING"]
      /\ status \in [Requests -> Statuses]
  BY DEF SerialInv, IInv, Typed, StoreTyped, ActorOK, ApplyCreate, Busy
<1>2. Cardinality(Clash[r] \cap Active) < TeamLimit
  BY <1>1 DEF SerialOK
<1>3. Active' \subseteq Active \cup {r}
  BY <1>1 DEF Active
<1>4. TeamWithinCapacity'
  <2>1. SUFFICES ASSUME NEW S \in SUBSET Active', \A s \in S : S \ {s} \subseteq Clash[s]
                 PROVE  Cardinality(S) <= TeamLimit
    BY DEF TeamWithinCapacity
  <2>2. CASE r \notin S
    BY <1>3, <2>1, <2>2 DEF SerialInv, TeamWithinCapacity
  <2>3. CASE r \in S
    <3> DEFINE rest == S \ {r}
    <3>1. rest \subseteq Clash[r] \cap Active
      BY <1>3, <2>1, <2>3
    <3>2. IsFiniteSet(Active)
      BY FS_Subset DEF Active
    <3>3. IsFiniteSet(Clash[r] \cap Active)
      BY <3>2, FS_Subset
    <3>4. IsFiniteSet(rest) /\ Cardinality(rest) <= Cardinality(Clash[r] \cap Active)
      BY <3>1, <3>3, FS_Subset
    <3>5. S = rest \cup {r} /\ r \notin rest
      BY <2>3
    <3>6. Cardinality(S) = Cardinality(rest) + 1
      BY <3>4, <3>5, FS_AddElement
    <3>7. Cardinality(rest) \in Nat /\ Cardinality(Clash[r] \cap Active) \in Nat /\ TeamLimit \in Nat
      BY <3>3, <3>4, FS_CardinalityType, LeaveAssumption DEF LeaveAssumption
    <3> QED
      BY <1>2, <3>4, <3>6, <3>7
  <2> QED
    BY <2>2, <2>3
<1>5. BalanceIsCovered'
  BY <1>1 DEF SerialInv, BalanceIsCovered
<1> QED
  BY <1>1, <1>4, <1>5, SerialEnd

LEMMA SerialLock ==
  ASSUME SerialInv, IInv', NEW c \in Actors, LockRequest(c)
  PROVE  SerialInv'
<1> DEFINE new == [call[c] EXCEPT !.at = "tx", !.todo = ReviewOps(c), !.split = DaysNow(call[c].of)]
<1>1. /\ call[c] \in CallType /\ CallOK(c, call[c], period) /\ SerialOK(c, call[c], bal, Active)
      /\ call[c].at = "lock" /\ Busy(call[c]) /\ UNCHANGED <<store, world>>
      /\ call' = [call EXCEPT ![c] = new]
  BY DEF SerialInv, IInv, Typed, ActorOK, LockRequest, Becomes, Busy
<1>2. new.at = "tx" /\ new.pend = call[c].pend /\ new.of = call[c].of
  BY <1>1 DEF CallType
<1> HIDE DEF new
<1>3. SerialOK(c, new, bal', Active')
  BY <1>1, <1>2, SameRows DEF SerialOK
<1> QED
  BY <1>1, <1>3, SameRows, SerialStep

LEMMA SerialAccrualStart ==
  ASSUME SerialCalls, SerialInv, IInv', NEW c \in Crons, AccrualStart(c)
  PROVE  SerialInv'
<1>1. call[c] \in CallType /\ CallOK(c, call[c], period) /\ c \in Actors /\ c \notin Calls
  BY CallsAreNotCrons DEF SerialInv, IInv, Typed, ActorOK, Actors
<1>2. Start(c) /\ call[c].at = "idle" /\ bal' = bal /\ status' = status
  BY DEF AccrualStart, Start, store
<1>3. BalanceIsCovered' /\ TeamWithinCapacity' /\ Active' = Active
  BY <1>2 DEF SerialInv, BalanceIsCovered, TeamWithinCapacity, Active
<1>4. \E k : call' = [call EXCEPT ![c] = k] /\ k.at \in {"idle", "tx"} /\ k.pend = call[c].pend
  <2>1. CASE period \in log
    <3>1. call' = [call EXCEPT ![c] = call[c]]
      BY <2>1 DEF AccrualStart, SerialInv, IInv, Typed
    <3> QED
      BY <1>2, <3>1
  <2>2. CASE period \notin log
    <3> DEFINE new == [call[c] EXCEPT !.at = "tx", !.kind = "accrual", !.of = period,
                                      !.todo = AccrualOps(period)]
    <3>1. call' = [call EXCEPT ![c] = new]
      BY <2>2 DEF AccrualStart, Becomes
    <3>2. new.at = "tx" /\ new.pend = call[c].pend
      BY <1>1 DEF CallType
    <3> HIDE DEF new
    <3> QED
      BY <3>1, <3>2
  <2> QED
    BY <2>1, <2>2
<1>5. PICK k : call' = [call EXCEPT ![c] = k] /\ k.at \in {"idle", "tx"} /\ k.pend = call[c].pend
  BY <1>4
<1>6. SerialOK(c, k, bal', Active')
  BY <1>1, <1>2, <1>5 DEF SerialOK, CallOK
<1> QED
  BY <1>1, <1>2, <1>3, <1>5, <1>6, NobodyBusy, SerialStep

\* What a call sees is covered, and what it has written of it.
LEMMA CoveredSight ==
  ASSUME BalanceIsCovered, NEW c, NEW a, NEW k, SerialOK(c, k, bal, a), NEW row \in Rows
  PROVE  Covered(Sight(k, bal, row))
BY DEF BalanceIsCovered, SerialOK, Sight, Covered

LEMMA SerialRead ==
  ASSUME SerialInv, IInv', NEW c \in Actors, TxRead(c)
  PROVE  SerialInv'
<1> DEFINE i  == NextOp(c)
           op == Resolved(c, call[c].todo[i])
<1>1. /\ call[c] \in CallType /\ ActorOK(c, call[c], bal, log, period)
      /\ SerialOK(c, call[c], bal, Active)
      /\ call[c].at = "tx" /\ DOMAIN call[c].todo # {} /\ Busy(call[c])
      /\ UNCHANGED <<store, world>>
  BY DEF SerialInv, IInv, Typed, TxRead, Busy
<1>2. CASE op.do = "carry" /\ op.days <= 0
  <2> DEFINE new == [call[c] EXCEPT !.todo = Without(@, i)]
  <2>1. call' = [call EXCEPT ![c] = new]
    BY <1>2 DEF TxRead, Becomes
  <2>2. new.at = "tx" /\ new.pend = call[c].pend /\ new.of = call[c].of
    BY <1>1 DEF CallType
  <2> HIDE DEF new, i
  <2>3. SerialOK(c, new, bal', Active')
    BY <1>1, <2>2, SameRows DEF SerialOK
  <2> QED
    BY <1>1, <2>1, <2>3, SameRows, SerialStep
<1>3. CASE ~(op.do = "carry" /\ op.days <= 0)
  <2> DEFINE new == [call[c] EXCEPT !.at = "write", !.snap = Sees(c, op.row), !.todo[i] = op]
  <2>1. call' = [call EXCEPT ![c] = new]
    BY <1>3 DEF TxRead, Becomes
  <2>2. call[c].todo \in Todos /\ call[c].pend \in Pends /\ i \in DOMAIN call[c].todo
        /\ call[c].todo[i] \in Ops
    BY <1>1, NextOpIsLeft DEF CallType
  <2>3. op \in Ops
    <3>1. call[c].todo[i].do = "carry" => call[c].todo[i].row[2] - 1 \in Years
      BY <1>1, <2>2, YearBefore DEF ActorOK
    <3>2. /\ op.do = call[c].todo[i].do
          /\ ~(call[c].todo[i].do = "carry" /\ op.days <= 0) => op \in Ops
      <4> HIDE DEF i
      <4> QED
        BY <2>2, <3>1, ResolvedType DEF SerialInv
    <3> QED
      BY <1>3, <3>2
  <2> HIDE DEF op
  <2>4. /\ DOMAIN [call[c].todo EXCEPT ![i] = op] = DOMAIN call[c].todo
        /\ [call[c].todo EXCEPT ![i] = op][i] = op
    BY <2>2, <2>3, ResolvedOp
  <2>5. i = Min(DOMAIN call[c].todo)
    BY DEF NextOp
  <2> HIDE DEF i
  <2>6. /\ new.at = "write" /\ new.pend = call[c].pend /\ new.of = call[c].of
        /\ new.todo = [call[c].todo EXCEPT ![i] = op] /\ new.snap = Sees(c, op.row)
    BY <1>1 DEF CallType
  <2> HIDE DEF new
  <2>7. new.snap = Sight(new, bal, new.todo[Min(DOMAIN new.todo)].row)
    BY <2>4, <2>5, <2>6 DEF Sight, Sees
  <2>8. SerialOK(c, new, bal', Active')
    BY <1>1, <2>6, <2>7, SameRows DEF SerialOK
  <2> QED
    BY <1>1, <2>1, <2>8, SameRows, SerialStep
<1> QED
  BY <1>2, <1>3

LEMMA SerialWrite ==
  ASSUME SerialInv, IInv', NEW c \in Actors, TxWrite(c)
  PROVE  SerialInv'
<1> DEFINE i   == NextOp(c)
           op  == call[c].todo[i]
           now == Sees(c, op.row)
           row == Updated(op, call[c].snap, now)
<1>1. /\ call[c] \in CallType /\ ActorOK(c, call[c], bal, log, period)
      /\ SerialOK(c, call[c], bal, Active)
      /\ call[c].at = "write" /\ Busy(call[c]) /\ UNCHANGED <<store, world>>
  BY DEF SerialInv, IInv, Typed, TxWrite, Busy
<1>2. CASE Refused(op, call[c].snap, now)
  <2>1. End(c)
    BY <1>2 DEF TxWrite
  <2> QED
    BY <1>1, <2>1, SameRows, SerialEnd
<1>3. CASE ~Refused(op, call[c].snap, now)
  <2> DEFINE new == [call[c] EXCEPT !.at = "tx", !.todo = Without(@, i), !.snap = NoRow,
                                    !.pend = WithRow(@, op.row, row)]
  <2>1. call' = [call EXCEPT ![c] = new]
    BY <1>3 DEF TxWrite, Becomes
  <2>2. i = Min(DOMAIN call[c].todo) /\ now = Sight(call[c], bal, op.row)
    BY DEF NextOp, Sees, Sight
  <2>3. op \in Ops /\ op.row \in Rows /\ call[c].pend \in Pends
    BY <1>1, <2>2, NextRow DEF CallType, ActorOK, CallOK
  <2>4. call[c].snap = now
    BY <1>1, <2>2 DEF SerialOK
  <2>5. now \in Draft /\ Covered(now)
    BY <1>1, <2>2, <2>3, SeesDraft, CoveredSight DEF SerialInv, IInv, Typed, StoreTyped
  <2>6. Covered(row)
    <3> HIDE DEF op, now
    <3>1. row = Updated(op, now, now)
      BY <2>4
    <3> QED
      BY <2>3, <2>5, <3>1, CoveredUpdate
  <2> HIDE DEF i, op, now, row
  <2>7. new.at = "tx" /\ new.of = call[c].of /\ new.pend = WithRow(call[c].pend, op.row, row)
    BY <1>1 DEF CallType
  <2> HIDE DEF new
  <2>8. \A x \in DOMAIN new.pend : Covered(new.pend[x])
    BY <1>1, <2>6, <2>7 DEF WithRow, SerialOK
  <2>9. SerialOK(c, new, bal', Active')
    BY <1>1, <2>7, <2>8, SameRows DEF SerialOK
  <2> QED
    BY <1>1, <2>1, <2>9, SameRows, SerialStep
<1> QED
  BY <1>2, <1>3

LEMMA SerialFlush ==
  ASSUME SerialInv, NEW c \in Actors, bal' = Flushed(c)
  PROVE  BalanceIsCovered'
<1>1. SerialOK(c, call[c], bal, Active) /\ BalanceIsCovered
  BY DEF SerialInv
<1>2. \A row \in Rows : bal'[row] = Sight(call[c], bal, row)
  BY DEF Flushed, Sees, Sight
<1>3. \A row \in Rows : Covered(bal'[row])
  BY <1>1, <1>2, CoveredSight
<1> QED
  BY <1>3 DEF BalanceIsCovered, Covered

LEMMA SerialCommitRequest ==
  ASSUME SerialInv, IInv', NEW c \in Actors, CommitRequest(c)
  PROVE  SerialInv'
<1>1. /\ CallOK(c, call[c], period) /\ SerialOK(c, call[c], bal, Active) /\ Busy(call[c])
      /\ call[c].at = "tx" /\ call[c].kind # "accrual" /\ End(c) /\ bal' = Flushed(c)
      /\ status' = [status EXCEPT ![call[c].of] = call[c].kind]
  BY DEF SerialInv, IInv, ActorOK, CommitRequest, Busy
<1>2. c \in Calls
  BY <1>1 DEF Actors, CallOK, AccrualCallOK
<1>3. call[c].of \in Active
  BY <1>1, <1>2 DEF SerialOK
<1>4. Active' \subseteq Active
  BY <1>1, <1>3 DEF Active
<1>5. BalanceIsCovered' /\ TeamWithinCapacity'
  BY <1>1, <1>4, SerialFlush, FewerFit DEF SerialInv
<1> QED
  BY <1>1, <1>5, SerialEnd

LEMMA SerialCommitAccrual ==
  ASSUME SerialInv, IInv', NEW c \in Actors, CommitAccrual(c)
  PROVE  SerialInv'
<1>1. Busy(call[c]) /\ End(c) /\ status' = status /\ (bal' = bal \/ bal' = Flushed(c))
  BY DEF CommitAccrual, Busy
<1>2. TeamWithinCapacity'
  BY <1>1, FewerFit DEF SerialInv, Active
<1>3. BalanceIsCovered'
  BY <1>1, SerialFlush DEF SerialInv, BalanceIsCovered
<1> QED
  BY <1>1, <1>2, <1>3, SerialEnd

\* A step of the world that leaves the calls, the rows and the requests alone.
LEMMA SerialWorld ==
  ASSUME SerialInv, IInv', call' = call, bal' = bal, status' = status
  PROVE  SerialInv'
BY DEF SerialInv, OneAtATime, BalanceIsCovered, TeamWithinCapacity, Active

LEMMA SerialInvInit ==
  ASSUME AppliedFit
  PROVE  Init => SerialInv
<1> SUFFICES ASSUME Init PROVE SerialInv
  OBVIOUS
<1>1. IInv
  BY InvInit
<1>2. \A c \in Actors : call[c] = IdleCall
  BY DEF Init
<1>3. ~Busy(IdleCall)
  BY IdleFields DEF Busy
<1>4. OneAtATime
  BY <1>2, <1>3 DEF OneAtATime
<1>5. BalanceIsCovered
  <2>1. Opening \in Nat
    BY LeaveAssumption, Zenon DEF LeaveAssumption
  <2> DEFINE opened == [NoRow EXCEPT !.exists = TRUE, !.cf = Opening, !.balance = Opening]
  <2>2. Shows(opened, TRUE, Opening, 0, 0, Opening)
    BY <2>1, Opening \in Int, RowColumns, NoRowIsDraft, Zenon
  <2> HIDE DEF opened
  <2>3. Covered(opened)
    BY <2>1, <2>2 DEF Shows, Covered, Left
  <2>4. Covered(NoRow)
    BY DEF NoRow, Covered, Left
  <2>5. bal = [row \in Rows |-> IF row[2] = 1 /\ Opening > 0 THEN opened ELSE NoRow]
    BY DEF Init, opened
  <2> QED
    BY <2>3, <2>4, <2>5 DEF BalanceIsCovered, Covered
<1>6. Active = Applied
  BY LeaveAssumption DEF LeaveAssumption, Init, Active
<1>7. TeamWithinCapacity
  BY <1>6 DEF AppliedFit, TeamWithinCapacity
<1>8. \A c \in Actors : SerialOK(c, call[c], bal, Active)
  BY <1>1, <1>2, <1>3, SerialQuiet DEF IInv, ActorOK
<1> QED
  BY <1>1, <1>4, <1>5, <1>7, <1>8 DEF SerialInv

LEMMA SerialInvNext ==
  ASSUME SerialCalls, IsFiniteSet(Requests)
  PROVE  SerialInv /\ [Next]_vars => SerialInv'
<1> SUFFICES ASSUME SerialInv, [Next]_vars PROVE SerialInv'
  OBVIOUS
<1>0. IInv'
  BY InvNext DEF SerialInv
<1>1. ASSUME NEW c \in Actors, Proceed(c) PROVE SerialInv'
  BY <1>0, <1>1, SerialApplyCount, SerialApplyCreate, SerialLock, SerialRead, SerialWrite,
     SerialCommitRequest, SerialCommitAccrual DEF Proceed
<1>2. ASSUME NEW c \in Actors, Abort(c) PROVE SerialInv'
  BY <1>0, <1>2, SerialEnd, SameRows DEF Abort, InFlight, Busy
<1>3. ASSUME NEW c \in Calls, NEW r \in Requests, ApplyCheck(c, r) PROVE SerialInv'
  BY <1>0, <1>3, SerialApplyCheck
<1>4. ASSUME NEW c \in Calls, NEW r \in Requests,
             ApproveCheck(c, r) \/ RejectCheck(c, r) \/ CancelCheck(c, r)
      PROVE  SerialInv'
  BY <1>0, <1>4, SerialReview DEF ApproveCheck, RejectCheck, CancelCheck
<1>5. ASSUME NEW c \in Crons, AccrualStart(c) PROVE SerialInv'
  BY <1>0, <1>5, SerialAccrualStart
<1>6. CASE NextMonth
  BY <1>0, <1>6, SerialWorld DEF NextMonth, store
<1>7. ASSUME NEW r \in Requests, AddHoliday(r) PROVE SerialInv'
  BY <1>0, <1>7, SerialWorld DEF AddHoliday, store
<1>8. CASE UNCHANGED vars
  BY <1>0, <1>8, SerialWorld DEF vars, store
<1> QED
  BY <1>1, <1>2, <1>3, <1>4, <1>5, <1>6, <1>7, <1>8 DEF Next

\* When no two calls overlap, the balance shown never promises days that are used.
THEOREM BalanceStaysCovered ==
  ASSUME SerialCalls, IsFiniteSet(Requests), AppliedFit
  PROVE  Spec => []BalanceIsCovered
<1>1. SerialInv => BalanceIsCovered
  BY DEF SerialInv
<1> QED
  BY <1>1, SerialInvInit, SerialInvNext, PTL DEF Spec

\* When no two calls overlap, apply never lets more than teamCapacityLimit requests of a
\* department be active on one day.
THEOREM CapacityIsKept ==
  ASSUME SerialCalls, IsFiniteSet(Requests), AppliedFit
  PROVE  Spec => []TeamWithinCapacity
<1>1. SerialInv => TeamWithinCapacity
  BY DEF SerialInv
<1> QED
  BY <1>1, SerialInvInit, SerialInvNext, PTL DEF Spec

-------------------------------------------------------------------------------
(* Sums over finite sets                                                      *)

\* Induction over the subsets of a finite set, for a property given as the family
\* of the subsets that have it.
LEMMA SubsetInduction ==
  ASSUME NEW S, IsFiniteSet(S), NEW Good,
         {} \in Good,
         \A s \in SUBSET S : s # {} /\ (\A x \in s : s \ {x} \in Good) => s \in Good
  PROVE  S \in Good
<1> DEFINE Bad == {s \in SUBSET S : s \notin Good}
           Sizes == {Cardinality(s) : s \in Bad}
<1>1. SUFFICES ASSUME Bad # {} PROVE FALSE
  OBVIOUS
<1>2. \A s \in SUBSET S : IsFiniteSet(s) /\ Cardinality(s) \in Nat
  BY FS_Subset, FS_CardinalityType
<1>3. PICK n \in Sizes : \A m \in Sizes : ~(<<m, n>> \in OpToRel(<, Nat))
  <2>1. Sizes \subseteq Nat /\ Sizes # {}
    BY <1>1, <1>2
  <2> HIDE DEF Sizes
  <2> QED
    BY <2>1, WFMin, NatLessThanWellFounded
<1>4. PICK s \in Bad : Cardinality(s) = n
  BY <1>3
<1>5. SUFFICES ASSUME NEW x \in s PROVE s \ {x} \in Good
  BY <1>4
<1>6. s \ {x} \in SUBSET S /\ Cardinality(s \ {x}) = Cardinality(s) - 1
  BY <1>2, <1>4, <1>5, FS_RemoveElement
<1>7. n - 1 \in Nat /\ n - 1 < n
  BY <1>2, <1>4, <1>5, <1>6
<1>8. n - 1 \notin Sizes
  <2>1. <<n - 1, n>> \in OpToRel(<, Nat)
    <3>1. n \in Nat
      BY <1>2, <1>4
    <3> QED
      BY <1>7, <3>1, Zenon DEF OpToRel
  <2> HIDE DEF Sizes
  <2> QED
    BY <1>3, <2>1
<1> QED
  BY <1>4, <1>6, <1>8

-------------------------------------------------------------------------------
(* A sum of naturals is a number of tokens: f[x] of them for each x.          *)

Tokens(f, S) == UNION {{x} \X (1..f[x]) : x \in S}

\* The tokens of one member are as many as its value.
LEMMA TokensOfOne ==
  ASSUME NEW n \in Nat, NEW x
  PROVE  IsFiniteSet({x} \X (1..n)) /\ Cardinality({x} \X (1..n)) = n
<1>1. IsFiniteSet(1..n) /\ Cardinality(1..n) = n
  BY FS_Interval
<1>2. IsFiniteSet({x}) /\ Cardinality({x}) = 1
  BY FS_Singleton
<1> QED
  BY <1>1, <1>2, FS_Product

\* One more member brings its own tokens, which nothing else has.
TokensAdded(f, S, x) == /\ IsFiniteSet(Tokens(f, S))
                        /\ Cardinality(Tokens(f, S)) = f[x] + Cardinality(Tokens(f, S \ {x}))

LEMMA TokensWith ==
  ASSUME NEW f, NEW S, NEW x \in S, f[x] \in Nat, IsFiniteSet(Tokens(f, S \ {x}))
  PROVE  TokensAdded(f, S, x)
<1>1. Tokens(f, S) = ({x} \X (1..f[x])) \cup Tokens(f, S \ {x})
  BY DEF Tokens
<1>2. ({x} \X (1..f[x])) \cap Tokens(f, S \ {x}) = {}
  BY DEF Tokens
<1>3. IsFiniteSet({x} \X (1..f[x])) /\ Cardinality({x} \X (1..f[x])) = f[x]
  BY TokensOfOne
<1>4. Cardinality(Tokens(f, S \ {x})) \in Nat
  BY FS_CardinalityType
<1> DEFINE A == {x} \X (1..f[x])
           B == Tokens(f, S \ {x})
<1> HIDE DEF A, B
<1>5. IsFiniteSet(A \cup B) /\ Cardinality(A \cup B) = Cardinality(A) + Cardinality(B) - Cardinality(A \cap B)
  <2>1. IsFiniteSet(A) /\ IsFiniteSet(B)
    BY <1>3 DEF A, B
  <2> QED
    BY <2>1, FS_Union
<1>6. Cardinality(A \cap B) = 0
  BY <1>2, FS_EmptySet DEF A, B
<1> QED
  BY <1>1, <1>3, <1>4, <1>5, <1>6 DEF A, B, TokensAdded

\* There are finitely many tokens.
LEMMA TokensFinite ==
  ASSUME NEW f, NEW S, IsFiniteSet(S), \A x \in S : f[x] \in Nat
  PROVE  IsFiniteSet(Tokens(f, S)) /\ Cardinality(Tokens(f, S)) \in Nat
<1> DEFINE Good == {s \in SUBSET S : IsFiniteSet(Tokens(f, s))}
<1>1. {} \in Good
  <2>1. Tokens(f, {}) = {}
    BY DEF Tokens
  <2> QED
    BY <2>1, FS_EmptySet
<1>2. ASSUME NEW s \in SUBSET S, s # {}, \A x \in s : s \ {x} \in Good
      PROVE  s \in Good
  <2>1. PICK x \in s : TRUE
    BY <1>2
  <2>2. s \ {x} \in Good
    BY <1>2, <2>1
  <2>3. IsFiniteSet(Tokens(f, s \ {x})) /\ f[x] \in Nat
    BY <2>1, <2>2
  <2>4. TokensAdded(f, s, x)
    BY <2>1, <2>3, TokensWith, Zenon
  <2> QED
    BY <2>4 DEF TokensAdded
<1> HIDE DEF Good
<1>3. S \in Good
  BY <1>1, <1>2, SubsetInduction
<1> QED
  BY <1>3, FS_CardinalityType DEF Good

\* The fold of the community modules counts the tokens.
LEMMA SumIsCount ==
  ASSUME NEW f, NEW S, IsFiniteSet(S), \A x \in S : f[x] \in Nat
  PROVE  SumFunctionOnSet(f, S) = Cardinality(Tokens(f, S))
<1> DEFINE Pick(s) == CHOOSE x \in s : TRUE
           Sums(h) == h = [s \in SUBSET S |-> IF s = {} THEN 0 ELSE f[Pick(s)] + h[s \ {Pick(s)}]]
           count == [s \in SUBSET S |-> Cardinality(Tokens(f, s))]
           iter == CHOOSE h : Sums(h)
           Good == {s \in SUBSET S : iter[s] = count[s]}
<1>1. \A s \in SUBSET S : s # {} => Pick(s) \in s
  OBVIOUS
<1>2. \A s \in SUBSET S : IsFiniteSet(s) /\ IsFiniteSet(Tokens(f, s))
  BY FS_Subset, TokensFinite
<1>3. \A s \in SUBSET S : \A x \in s : 
         Cardinality(Tokens(f, s)) = f[x] + Cardinality(Tokens(f, s \ {x}))
  <2> SUFFICES ASSUME NEW s \in SUBSET S, NEW x \in s
               PROVE  Cardinality(Tokens(f, s)) = f[x] + Cardinality(Tokens(f, s \ {x}))
    OBVIOUS
  <2>1. IsFiniteSet(Tokens(f, s \ {x})) /\ f[x] \in Nat
    BY <1>2
  <2>2. TokensAdded(f, s, x)
    BY <2>1, TokensWith, Zenon
  <2> QED
    BY <2>2 DEF TokensAdded
<1>4. Cardinality(Tokens(f, {})) = 0
  <2>1. Tokens(f, {}) = {}
    BY DEF Tokens
  <2> QED
    BY <2>1, FS_EmptySet
<1>5. Sums(count)
  <2>1. ASSUME NEW s \in SUBSET S
        PROVE  count[s] = IF s = {} THEN 0 ELSE f[Pick(s)] + count[s \ {Pick(s)}]
    BY <1>1, <1>3, <1>4
  <2> QED
    BY <2>1
<1>6. Sums(iter)
  BY <1>5
<1>7. SumFunctionOnSet(f, S) = iter[S]
  BY DEF SumFunctionOnSet, FoldFunctionOnSet, MapThenFoldSet
<1> HIDE DEF iter
<1>8. {} \in Good
  BY <1>4, <1>6
<1>9. ASSUME NEW s \in SUBSET S, s # {}, \A x \in s : s \ {x} \in Good
      PROVE  s \in Good
  <2>1. s \ {Pick(s)} \in Good /\ Pick(s) \in s
    BY <1>1, <1>9
  <2>2. iter[s] = f[Pick(s)] + iter[s \ {Pick(s)}]
    BY <1>6, <1>9
  <2>3. count[s] = f[Pick(s)] + count[s \ {Pick(s)}]
    BY <1>3, <2>1
  <2> QED
    BY <2>1, <2>2, <2>3
<1> HIDE DEF Good
<1>10. S \in Good
  BY <1>8, <1>9, SubsetInduction
<1> QED
  BY <1>7, <1>10 DEF Good

\* The sum of nothing is 0, and of one more member what it adds.
LEMMA SumOfNone == ASSUME NEW f PROVE SumFunctionOnSet(f, {}) = 0
<1>1. SumFunctionOnSet(f, {}) = Cardinality(Tokens(f, {}))
  BY SumIsCount, FS_EmptySet
<1>2. Tokens(f, {}) = {}
  BY DEF Tokens
<1> QED
  BY <1>1, <1>2, FS_EmptySet

LEMMA SumWith ==
  ASSUME NEW f, NEW S, IsFiniteSet(S), \A x \in S : f[x] \in Nat, NEW x \in S
  PROVE  /\ SumFunctionOnSet(f, S) = f[x] + SumFunctionOnSet(f, S \ {x})
         /\ SumFunctionOnSet(f, S \ {x}) \in Nat
<1>1. IsFiniteSet(S \ {x})
  BY FS_RemoveElement
<1>2. SumFunctionOnSet(f, S) = Cardinality(Tokens(f, S))
  BY SumIsCount
<1>3. SumFunctionOnSet(f, S \ {x}) = Cardinality(Tokens(f, S \ {x}))
  BY <1>1, SumIsCount
<1>4. IsFiniteSet(Tokens(f, S \ {x})) /\ Cardinality(Tokens(f, S \ {x})) \in Nat
  BY <1>1, TokensFinite
<1>5. TokensAdded(f, S, x)
  BY <1>4, TokensWith, Zenon
<1> QED
  BY <1>2, <1>3, <1>4, <1>5 DEF TokensAdded

\* The sum depends only on what the function is at the members.
LEMMA SumAgrees ==
  ASSUME NEW f, NEW g, NEW S, IsFiniteSet(S), \A x \in S : f[x] \in Nat /\ g[x] = f[x]
  PROVE  SumFunctionOnSet(g, S) = SumFunctionOnSet(f, S)
<1>1. Tokens(g, S) = Tokens(f, S)
  BY DEF Tokens
<1>2. SumFunctionOnSet(f, S) = Cardinality(Tokens(f, S))
  BY SumIsCount
<1>3. SumFunctionOnSet(g, S) = Cardinality(Tokens(g, S))
  BY SumIsCount
<1> QED
  BY <1>1, <1>2, <1>3

-------------------------------------------------------------------------------
(* The credits of the accrual.                                                *)

\* What the logged periods l credit to a row.
Due(l, row) == SumFunctionOnSet(Credit[row[1]], {q \in l : YearOf[q] = row[2]})

\* The run has yet to credit the row.
Owes(k, row) == \E i \in DOMAIN k.todo : k.todo[i].do = "credit" /\ k.todo[i].row = row

\* What the run of period p has credited to the row so far.
Earned(k, p, row) ==
  IF row[2] = YearOf[p] /\ ~Owes(k, row) THEN Credit[row[1]][p] ELSE 0

\* Each row is credited once, with the days of its employee.
CreditsOK(k, p) ==
  /\ \A i \in DOMAIN k.todo :
       k.todo[i].do = "credit" => k.todo[i].days = Credit[k.todo[i].row[1]][p]
  /\ \A i, j \in DOMAIN k.todo :
       i # j /\ k.todo[i].do = "credit" /\ k.todo[j].do = "credit" => k.todo[i].row # k.todo[j].row

EarnedOK(k, b, p) ==
  \A row \in Rows : Sight(k, b, row).entitled = b[row].entitled + Earned(k, p, row)

\* A run that is not doomed shows its own credits beside those logged.
RunOK(k, b, l, p) ==
  k.at \in {"tx", "write"} /\ p \notin l => CreditsOK(k, p) /\ EarnedOK(k, b, p)

CreditInv ==
  /\ IInv
  /\ IsFiniteSet(log)
  /\ \A row \in Rows : bal[row].entitled = Due(log, row)
  /\ \A c \in Crons : RunOK(call[c], bal, log, period)

LEMMA CreditType ==
  ASSUME NEW row \in Rows, NEW p \in Periods
  PROVE  Credit[row[1]][p] \in Nat /\ YearOf[p] \in Nat /\ row[2] \in Nat
<1>1. /\ Credit \in [Employees -> [Periods -> Nat]] /\ YearOf \in [Periods -> Years]
      /\ Years \subseteq Nat
  BY LeaveAssumption DEF LeaveAssumption
<1> QED
  BY <1>1 DEF Rows

\* A logged period adds its credit to the rows of its year.
LEMMA DueGrows ==
  ASSUME NEW l \in SUBSET Periods, IsFiniteSet(l), NEW p \in Periods \ l, NEW row \in Rows
  PROVE  Due(l \cup {p}, row)
           = Due(l, row) + IF row[2] = YearOf[p] THEN Credit[row[1]][p] ELSE 0
<1> DEFINE f == Credit[row[1]]
           S == {q \in l : YearOf[q] = row[2]}
           T == {q \in l \cup {p} : YearOf[q] = row[2]}
<1>1. IsFiniteSet(S) /\ IsFiniteSet(T)
  <2>1. IsFiniteSet(l \cup {p})
    BY FS_AddElement
  <2> QED
    BY <2>1, FS_Subset
<1>2. \A q \in Periods : f[q] \in Nat
  BY CreditType
<1>3. CASE row[2] = YearOf[p]
  <2>1. T \ {p} = S /\ p \in T
    BY <1>3
  <2>2. \A q \in T : f[q] \in Nat
    BY <1>2
  <2> HIDE DEF f, S, T
  <2>3. /\ SumFunctionOnSet(f, T) = f[p] + SumFunctionOnSet(f, T \ {p})
        /\ SumFunctionOnSet(f, T \ {p}) \in Nat
    BY <1>1, <2>1, <2>2, SumWith
  <2>4. SumFunctionOnSet(f, T \ {p}) = SumFunctionOnSet(f, S)
    BY <2>1, Zenon
  <2>5. SumFunctionOnSet(f, T) = SumFunctionOnSet(f, S) + f[p]
    BY <1>2, <2>3, <2>4
  <2> QED
    BY <1>3, <2>5 DEF Due, f, S, T
<1>4. CASE row[2] # YearOf[p]
  <2>0. Due(l, row) = SumFunctionOnSet(f, S) /\ Due(l \cup {p}, row) = SumFunctionOnSet(f, T)
    BY DEF Due
  <2>1. T = S
    BY <1>4
  <2>2. SumFunctionOnSet(f, S) \in Nat
    <3>1. \A q \in S : f[q] \in Nat
      BY <1>2
    <3> HIDE DEF f, S
    <3> QED
      BY <1>1, <3>1, SumIsCount, TokensFinite
  <2> HIDE DEF f, S, T
  <2> QED
    BY <1>4, <2>0, <2>1, <2>2
<1> QED
  BY <1>3, <1>4

\* A step that leaves the rows and the log alone, and no run that was not in flight
\* in flight.
LEMMA CreditQuiet ==
  ASSUME CreditInv, IInv', bal' = bal, log' = log,
         \A c \in Crons : \/ call'[c] = call[c] /\ period' = period
                          \/ RunOK(call'[c], bal, log, period')
  PROVE  CreditInv'
BY DEF CreditInv

LEMMA CreditEnd ==
  ASSUME CreditInv, IInv', NEW c \in Actors, End(c), bal' = bal, log' = log, period' = period
  PROVE  CreditInv'
<1>1. call' = [call EXCEPT ![c] = Ended(c)] /\ call \in [Actors -> CallType]
  BY DEF End, Becomes, Ended, CreditInv, IInv, Typed
<1>2. Ended(c).at \in {"idle", "done"}
  BY IdleFields DEF Ended, CallType
<1>3. \A d \in Crons : call'[d] = call[d] \/ call'[d] = Ended(c)
  BY <1>1 DEF Actors
<1>4. RunOK(Ended(c), bal, log, period)
  BY <1>2 DEF RunOK
<1> QED
  BY <1>3, <1>4, CreditQuiet

\* A step of one call that leaves the rows and the log alone.
LEMMA CreditStep ==
  ASSUME CreditInv, IInv', NEW c \in Actors, NEW new, call' = [call EXCEPT ![c] = new],
         bal' = bal, log' = log, period' = period,
         c \in Crons => RunOK(new, bal, log, period)
  PROVE  CreditInv'
<1>1. call \in [Actors -> CallType]
  BY DEF CreditInv, IInv, Typed
<1>2. \A d \in Crons : call'[d] = IF d = c THEN new ELSE call[d]
  BY <1>1 DEF Actors
<1> QED
  BY <1>2, CreditQuiet

-------------------------------------------------------------------------------
(* The accrual begins                                                         *)

LEMMA EveryEmployeeListed ==
  ASSUME NEW e \in Employees
  PROVE  \E i \in DOMAIN EmployeeSeq : EmployeeSeq[i] = e
<1> DEFINE n == Cardinality(Employees)
           R == {EmployeeSeq[i] : i \in 1..n}
<1>1. IsFiniteSet(Employees) /\ n \in Nat
  BY LeaveAssumption, FS_CardinalityType DEF LeaveAssumption
<1>2. EmployeeSeq \in [1..n -> Employees]
      /\ \A i, j \in 1..n : EmployeeSeq[i] = EmployeeSeq[j] => i = j
  BY EmployeesListed
<1>3. IsFiniteSet(1..n) /\ Cardinality(1..n) = n
  BY <1>1, FS_Interval
<1>4. EmployeeSeq \in Bijection(1..n, R)
  BY <1>2 DEF Bijection, Injection, Surjection, IsInjective
<1>5. Cardinality(R) = n
  BY <1>3, <1>4, FS_Bijection DEF ExistsBijection
<1>6. R \in SUBSET Employees
  BY <1>2
<1> HIDE DEF R
<1>7. R = Employees
  BY <1>1, <1>5, <1>6, FS_Subset
<1> QED
  BY <1>2, <1>7 DEF R

LEMMA AccrualOpsCredit ==
  ASSUME NEW p \in Periods
  PROVE  LET ops == AccrualOps(p) IN
         /\ \A e \in Employees : Credit[e][p] > 0 =>
              \E k \in DOMAIN ops : ops[k].do = "credit" /\ ops[k].row = <<e, YearOf[p]>>
         /\ \A k \in DOMAIN ops :
              ops[k].do = "credit" => ops[k].days = Credit[ops[k].row[1]][p]
         /\ \A j, k \in DOMAIN ops :
              j # k /\ ops[j].do = "credit" /\ ops[k].do = "credit" => ops[j].row # ops[k].row
<1> DEFINE E == EmployeeSeq
           credited == {i \in DOMAIN E : Credit[E[i]][p] > 0}
           creditOf == [e \in Employees |-> [do |-> "credit", row |-> <<e, YearOf[p]>>,
                                             days |-> Credit[e][p]]]
           carryOf  == [e \in Employees |-> [do |-> "carry", row |-> <<e, YearOf[p] + 1>>,
                                             days |-> 0]]
           evens    == {2 * i : i \in credited}
           odds     == IF p \in Decembers THEN {2 * i + 1 : i \in credited} ELSE {}
           op(k)    == IF k % 2 = 0 THEN creditOf[E[k \div 2]] ELSE carryOf[E[k \div 2]]
<1>1. /\ credited \subseteq Nat
      /\ \A i \in credited : E[i] \in Employees
      /\ \A i, j \in credited : E[i] = E[j] => i = j
      /\ \A e \in Employees : Credit[e][p] > 0 => \E i \in credited : E[i] = e
  BY EmployeesListed, EveryEmployeeListed
<1>2. AccrualOps(p) = [k \in evens \cup odds |-> op(k)]
  BY Zenon DEF AccrualOps
<1>3. ASSUME NEW e \in Employees
      PROVE  /\ creditOf[e].do = "credit" /\ creditOf[e].row = <<e, YearOf[p]>>
             /\ creditOf[e].days = Credit[e][p]
             /\ carryOf[e].do = "carry"
  OBVIOUS
<1> HIDE DEF credited, creditOf, carryOf, E
<1>4. ASSUME NEW i \in credited
      PROVE  2 * i \in evens /\ op(2 * i) = creditOf[E[i]]
  BY <1>1, Halves
<1>5. ASSUME NEW k \in evens \cup odds, op(k).do = "credit"
      PROVE  \E i \in credited : k = 2 * i /\ op(k) = creditOf[E[i]]
  <2>1. CASE k \in evens
    <3>1. PICK i \in credited : k = 2 * i
      BY <2>1
    <3> QED
      BY <1>4, <3>1
  <2>2. CASE k \in odds
    <3>1. PICK i \in credited : k = 2 * i + 1
      BY <2>2
    <3>2. k \div 2 = i /\ k % 2 = 1
      BY <1>1, <3>1, Halves
    <3>3. op(k) = carryOf[E[i]]
      BY <3>2
    <3> QED
      BY <1>1, <1>3, <1>5, <3>3
  <2> QED
    BY <2>1, <2>2
<1>6. DOMAIN AccrualOps(p) = evens \cup odds
       /\ \A k \in evens \cup odds : AccrualOps(p)[k] = op(k)
  BY <1>2
<1> HIDE DEF evens, odds, op
<1>7. \A e \in Employees : Credit[e][p] > 0 =>
              \E k \in evens \cup odds : op(k).do = "credit" /\ op(k).row = <<e, YearOf[p]>>
  BY <1>1, <1>3, <1>4
<1>8. \A k \in evens \cup odds : op(k).do = "credit" => op(k).days = Credit[op(k).row[1]][p]
  <2> SUFFICES ASSUME NEW k \in evens \cup odds, op(k).do = "credit"
               PROVE  op(k).days = Credit[op(k).row[1]][p]
    OBVIOUS
  <2>1. PICK i \in credited : op(k) = creditOf[E[i]]
    BY <1>5
  <2>2. op(k).row = <<E[i], YearOf[p]>> /\ op(k).days = Credit[E[i]][p]
    BY <1>1, <1>3, <2>1
  <2> QED
    BY <2>2
<1>9. ASSUME NEW j \in evens \cup odds, NEW k \in evens \cup odds,
             j # k, op(j).do = "credit", op(k).do = "credit"
      PROVE  op(j).row # op(k).row
  <2>1. PICK i \in credited : j = 2 * i /\ op(j) = creditOf[E[i]]
    BY <1>5, <1>9
  <2>2. PICK h \in credited : k = 2 * h /\ op(k) = creditOf[E[h]]
    BY <1>5, <1>9
  <2>3. E[i] # E[h]
    BY <1>1, <1>9, <2>1, <2>2
  <2>4. op(j).row = <<E[i], YearOf[p]>> /\ op(k).row = <<E[h], YearOf[p]>>
    BY <1>1, <1>3, <2>1, <2>2
  <2> QED
    BY <2>3, <2>4
<1> DEFINE ops == AccrualOps(p)
<1>10. DOMAIN ops = evens \cup odds /\ \A k \in DOMAIN ops : ops[k] = op(k)
  BY <1>6
<1> HIDE DEF ops
<1>11. \A e \in Employees : Credit[e][p] > 0 =>
         \E k \in DOMAIN ops : ops[k].do = "credit" /\ ops[k].row = <<e, YearOf[p]>>
  BY <1>7, <1>10
<1>12. \A k \in DOMAIN ops :
         ops[k].do = "credit" => ops[k].days = Credit[ops[k].row[1]][p]
  BY <1>8, <1>10
<1>13. \A j, k \in DOMAIN ops :
         j # k /\ ops[j].do = "credit" /\ ops[k].do = "credit" => ops[j].row # ops[k].row
  BY <1>9, <1>10
<1> QED
  BY <1>11, <1>12, <1>13 DEF ops

\* The operations of a run credit each employee once; none is done yet.
LEMMA CreditAccrualStart ==
  ASSUME CreditInv, IInv', NEW c \in Crons, AccrualStart(c)
  PROVE  CreditInv'
<1>1. /\ call[c] \in CallType /\ CallOK(c, call[c], period) /\ call[c].at = "idle"
      /\ period \in Periods /\ c \in Actors
      /\ bal' = bal /\ log' = log /\ period' = period
      /\ call \in [Actors -> CallType]
  BY DEF CreditInv, IInv, Typed, ActorOK, Actors, AccrualStart, Start, store
<1>2. CASE period \in log
  <2>1. call' = [call EXCEPT ![c] = call[c]]
    BY <1>1, <1>2 DEF AccrualStart
  <2> QED
    BY <1>1, <2>1, CreditStep DEF RunOK
<1>3. CASE period \notin log
  <2> DEFINE ops == AccrualOps(period)
             new == [call[c] EXCEPT !.at = "tx", !.kind = "accrual", !.of = period, !.todo = ops]
  <2>1. call' = [call EXCEPT ![c] = new]
    BY <1>3 DEF AccrualStart, Becomes
  <2>2. CreditsOK(new, period)
    <3>1. new.todo = ops
      BY <1>1 DEF CallType
    <3> HIDE DEF new
    <3> QED
      BY <1>1, <3>1, AccrualOpsCredit DEF CreditsOK
  <2>3. EarnedOK(new, bal, period)
    <3>1. new.todo = ops /\ new.pend = call[c].pend
      BY <1>1 DEF CallType
    <3> HIDE DEF new
    <3>2. DOMAIN new.pend = {}
      BY <1>1, <3>1 DEF CallOK
    <3>3. ASSUME NEW row \in Rows PROVE Earned(new, period, row) = 0
      <4>1. PICK e \in Employees, y \in Years : row = <<e, y>>
        BY DEF Rows
      <4>2. Credit[e][period] > 0 /\ y = YearOf[period] => Owes(new, row)
        <5>1. SUFFICES ASSUME Credit[e][period] > 0, y = YearOf[period] PROVE Owes(new, row)
          OBVIOUS
        <5>2. PICK k \in DOMAIN ops : ops[k].do = "credit" /\ ops[k].row = <<e, YearOf[period]>>
          BY <1>1, <5>1, AccrualOpsCredit
        <5> QED
          BY <3>1, <4>1, <5>1, <5>2 DEF Owes
      <4>3. Credit[e][period] \in Nat
        BY <1>1, <4>1, CreditType
      <4> QED
        BY <4>1, <4>2, <4>3 DEF Earned
    <3>4. \A row \in Rows : bal[row].entitled \in Nat
      BY DEF CreditInv, IInv, Typed, StoreTyped, Row
    <3> QED
      BY <3>2, <3>3, <3>4 DEF EarnedOK, Sight
  <2> HIDE DEF new
  <2> QED
    BY <1>1, <2>1, <2>2, <2>3, CreditStep DEF RunOK
<1> QED
  BY <1>2, <1>3

-------------------------------------------------------------------------------
(* The accrual credits row by row                                             *)

\* What is left of the credits is as before.
LEMMA SameCredits ==
  ASSUME NEW k, NEW k2, NEW b, NEW p,
         DOMAIN k2.todo \subseteq DOMAIN k.todo,
         \A i \in DOMAIN k2.todo : /\ k2.todo[i].do = k.todo[i].do
                                   /\ k2.todo[i].row = k.todo[i].row
                                   /\ k.todo[i].do = "credit" => k2.todo[i].days = k.todo[i].days,
         CreditsOK(k, p)
  PROVE  CreditsOK(k2, p)
BY DEF CreditsOK

LEMMA CreditRead ==
  ASSUME CreditInv, IInv', NEW c \in Actors, TxRead(c)
  PROVE  CreditInv'
<1> DEFINE i  == NextOp(c)
           op == Resolved(c, call[c].todo[i])
<1>1. /\ call[c] \in CallType /\ ActorOK(c, call[c], bal, log, period)
      /\ call[c].at = "tx" /\ DOMAIN call[c].todo # {}
      /\ bal' = bal /\ log' = log /\ period' = period
      /\ c \in Crons => RunOK(call[c], bal, log, period)
  BY DEF CreditInv, IInv, Typed, TxRead, store, world
<1>2. /\ call[c].todo \in Todos /\ call[c].pend \in Pends
      /\ i \in DOMAIN call[c].todo /\ call[c].todo[i] \in Ops
  BY <1>1, NextOpIsLeft DEF CallType
<1>3. /\ op.do = call[c].todo[i].do /\ op.row = call[c].todo[i].row
      /\ ~(op.do = "carry" /\ op.days <= 0) => op \in Ops
      /\ op.do = "credit" => op.days = call[c].todo[i].days
  <2>1. call[c].todo[i].do = "carry" => call[c].todo[i].row[2] - 1 \in Years
    BY <1>1, <1>2, YearBefore DEF ActorOK
  <2> HIDE DEF i
  <2>2. /\ op.do = call[c].todo[i].do /\ op.row = call[c].todo[i].row
        /\ ~(op.do = "carry" /\ op.days <= 0) => op \in Ops
    BY <1>2, <2>1, ResolvedType DEF CreditInv
  <2>3. call[c].todo[i].do # "carry" => op = call[c].todo[i]
    BY DEF Resolved
  <2> QED
    BY <2>2, <2>3
<1>4. CASE op.do = "carry" /\ op.days <= 0
  <2> DEFINE new == [call[c] EXCEPT !.todo = Without(@, i)]
  <2>1. call' = [call EXCEPT ![c] = new]
    BY <1>4 DEF TxRead, Becomes
  <2>2. /\ DOMAIN Without(call[c].todo, i) = DOMAIN call[c].todo \ {i}
        /\ \A j \in DOMAIN call[c].todo \ {i} : Without(call[c].todo, i)[j] = call[c].todo[j]
    BY <1>2, WithoutOp
  <2>3. new.at = "tx" /\ new.pend = call[c].pend /\ new.todo = Without(call[c].todo, i)
    BY <1>1 DEF CallType
  <2> HIDE DEF new
  <2>4. call[c].todo[i].do # "credit"
    BY <1>3, <1>4
  <2> HIDE DEF i, op
  <2>5. CreditsOK(call[c], period) => CreditsOK(new, period)
    BY <2>2, <2>3, SameCredits
  <2>6. \A row : Owes(new, row) <=> Owes(call[c], row)
    BY <2>2, <2>3, <2>4 DEF Owes
  <2>7. EarnedOK(call[c], bal, period) => EarnedOK(new, bal, period)
    BY <2>3, <2>6 DEF EarnedOK, Earned, Sight
  <2> QED
    BY <1>1, <2>1, <2>5, <2>7, CreditStep DEF RunOK
<1>5. CASE ~(op.do = "carry" /\ op.days <= 0)
  <2>1. op \in Ops
    BY <1>3, <1>5
  <2> DEFINE new == [call[c] EXCEPT !.at = "write", !.snap = Sees(c, op.row), !.todo[i] = op]
  <2>2. call' = [call EXCEPT ![c] = new]
    BY <1>5 DEF TxRead, Becomes
  <2> HIDE DEF op, i
  <2>3. /\ DOMAIN [call[c].todo EXCEPT ![i] = op] = DOMAIN call[c].todo
        /\ \A j \in DOMAIN call[c].todo :
             [call[c].todo EXCEPT ![i] = op][j] = IF j = i THEN op ELSE call[c].todo[j]
    BY <1>2, <2>1, ResolvedOp
  <2>4. /\ new.at = "write" /\ new.pend = call[c].pend
        /\ new.todo = [call[c].todo EXCEPT ![i] = op]
    BY <1>1 DEF CallType
  <2> HIDE DEF new
  <2>5. /\ DOMAIN new.todo = DOMAIN call[c].todo
        /\ \A j \in DOMAIN call[c].todo :
             /\ new.todo[j].do = call[c].todo[j].do
             /\ new.todo[j].row = call[c].todo[j].row
             /\ call[c].todo[j].do = "credit" => new.todo[j].days = call[c].todo[j].days
    BY <1>3, <2>3, <2>4
  <2>6. CreditsOK(call[c], period) => CreditsOK(new, period)
    BY <2>5, SameCredits
  <2>7. \A row : Owes(new, row) <=> Owes(call[c], row)
    BY <2>5 DEF Owes
  <2>8. EarnedOK(call[c], bal, period) => EarnedOK(new, bal, period)
    BY <2>4, <2>7 DEF EarnedOK, Earned, Sight
  <2> QED
    BY <1>1, <2>2, <2>6, <2>8, CreditStep DEF RunOK
<1> QED
  BY <1>4, <1>5

\* The credit of a row adds its days, a carry none.
LEMMA EntitledAfter ==
  ASSUME NEW op \in Ops, op.do \in {"credit", "carry"}, NEW s, NEW c, Sound(s), Sound(c),
         Grown(s, c), s.entitled = c.entitled, ~Refused(op, s, c)
  PROVE  Updated(op, s, c).entitled = c.entitled + IF op.do = "credit" THEN op.days ELSE 0
<1>0. s \in Draft /\ c \in Draft /\ op.days \in Nat /\ c.entitled \in Nat
  BY DEF Sound, Row, Draft, Ops
<1>1. CASE s.exists
  <2>1. CASE op.do = "credit"
    <3>1. Shows(Updated(op, s, c), c.exists, c.cf, s.entitled + op.days, c.used,
                Cap(s.cf + s.entitled - s.used + op.days))
      BY <1>0, <1>1, <2>1, CreditedRow
    <3> QED
      BY <2>1, <3>1 DEF Shows
  <2>2. CASE op.do = "carry"
    <3>1. Shows(Updated(op, s, c), c.exists, op.days, c.entitled, c.used,
                op.days + s.entitled - s.used)
      BY <1>0, <1>1, <2>2, CarriedRow
    <3> QED
      BY <1>0, <2>2, <3>1 DEF Shows
  <2> QED
    BY <2>1, <2>2
<1>2. CASE ~s.exists
  <2>1. c = NoRow
    BY <1>2 DEF Refused, Sound
  <2>2. c.entitled = 0
    BY <2>1 DEF NoRow
  <2>3. CASE op.do = "credit"
    <3>1. Shows(Updated(op, s, c), TRUE, 0, op.days, 0, Cap(op.days))
      BY <1>0, <1>2, <2>3, CreditedRow
    <3>2. Updated(op, s, c).entitled = op.days
      BY <3>1 DEF Shows
    <3> QED
      BY <1>0, <2>2, <2>3, <3>2
  <2>4. CASE op.do = "carry"
    <3>1. Shows(Updated(op, s, c), TRUE, op.days, 0, 0, op.days)
      BY <1>0, <1>2, <2>4, CarriedRow
    <3>2. Updated(op, s, c).entitled = 0
      BY <3>1 DEF Shows
    <3> QED
      BY <2>2, <2>4, <3>2
  <2> QED
    BY <2>3, <2>4
<1> QED
  BY <1>1, <1>2

LEMMA CreditWrite ==
  ASSUME CreditInv, IInv', NEW c \in Actors, TxWrite(c)
  PROVE  CreditInv'
<1> DEFINE k   == call[c]
           i   == NextOp(c)
           op  == k.todo[i]
           now == Sees(c, op.row)
           row == Updated(op, k.snap, now)
<1>1. /\ k \in CallType /\ ActorOK(c, k, bal, log, period) /\ k.at = "write"
      /\ bal' = bal /\ log' = log /\ period' = period
      /\ c \in Crons => RunOK(k, bal, log, period)
  BY DEF CreditInv, IInv, Typed, TxWrite, store, world
<1>2. i = Min(DOMAIN k.todo) /\ now = Sight(k, bal, op.row)
  BY DEF NextOp, Sees, Sight
<1>3. /\ k.todo \in Todos /\ k.pend \in Pends /\ k.snap \in Draft
      /\ i \in DOMAIN k.todo /\ op \in Ops /\ op.row \in Rows
  BY <1>1, <1>2, NextRow DEF CallType, ActorOK, CallOK
<1>4. CASE Refused(op, k.snap, now)
  <2>1. End(c)
    BY <1>4 DEF TxWrite
  <2> QED
    BY <1>1, <2>1, CreditEnd
<1>5. CASE ~Refused(op, k.snap, now)
  <2> DEFINE new == [k EXCEPT !.at = "tx", !.todo = Without(@, i), !.snap = NoRow,
                              !.pend = WithRow(@, op.row, row)]
  <2>1. call' = [call EXCEPT ![c] = new]
    BY <1>5 DEF TxWrite, Becomes
  <2>2. SUFFICES ASSUME c \in Crons, period \notin log
                 PROVE  CreditsOK(new, period) /\ EarnedOK(new, bal, period)
    BY <1>1, <2>1, CreditStep DEF RunOK
  <2>3. /\ CreditsOK(k, period) /\ EarnedOK(k, bal, period)
        /\ AccrualCallOK(k, period) /\ period \in Periods
        /\ PendOK(c, k, bal, period) /\ SnapOK(c, k, bal)
    BY <1>1, <2>2 DEF RunOK, ActorOK, CallOK, AccrualCallOK, Doomed
  <2>4. /\ DOMAIN Without(k.todo, i) = DOMAIN k.todo \ {i}
        /\ \A j \in DOMAIN k.todo \ {i} : Without(k.todo, i)[j] = k.todo[j]
    BY <1>3, WithoutOp
  <2>5. /\ new.todo = Without(k.todo, i) /\ new.pend = WithRow(k.pend, op.row, row)
    BY <1>1 DEF CallType
  <2> HIDE DEF new
  <2>6. /\ DOMAIN new.todo = DOMAIN k.todo \ {i}
        /\ \A j \in DOMAIN new.todo : new.todo[j] = k.todo[j]
    BY <2>4, <2>5
  <2>7. CreditsOK(new, period)
    <3> HIDE DEF k, i
    <3> QED
      BY <2>3, <2>6, SameCredits
  <2>8. /\ Sound(k.snap) /\ Sound(now) /\ Grown(k.snap, now) /\ k.snap.entitled = now.entitled
    <3>1. ReadFor(c, k.snap, now)
      BY <1>1, <1>2, <2>3 DEF SnapOK
    <3>2. Sound(now)
      <4> HIDE DEF k, i, op, now
      <4> QED
        BY <1>2, <1>3, <2>3, SightSound DEF CreditInv, IInv
    <3> QED
      BY <2>2, <3>1, <3>2 DEF ReadFor
  <2>9. op.do \in {"credit", "carry"} /\ (op.do = "credit" => op.row[2] = YearOf[period]
                                           /\ op.days = Credit[op.row[1]][period])
    <3>1. \/ op.do = "credit" /\ op.row[2] = YearOf[period]
          \/ op.do = "carry" /\ period \in Decembers /\ op.row[2] = YearOf[period] + 1
      BY <1>3, <2>3 DEF AccrualCallOK
    <3>2. op.do = "credit" => op.days = Credit[op.row[1]][period]
      BY <1>3, <2>3 DEF CreditsOK
    <3>3. period \in Periods
      BY <2>3
    <3> HIDE DEF op
    <3> QED
      BY <3>1, <3>2
  <2>10. row.entitled = now.entitled + IF op.do = "credit" THEN op.days ELSE 0
    <3> HIDE DEF op, now
    <3> QED
      BY <1>3, <1>5, <2>8, <2>9, EntitledAfter
  <2>11. /\ op.do = "credit" => Owes(k, op.row) /\ ~Owes(new, op.row)
         /\ \A x : op.do # "credit" \/ x # op.row => (Owes(new, x) <=> Owes(k, x))
    BY <1>3, <2>3, <2>6 DEF CreditsOK, Owes
  <2>12. ASSUME NEW x \in Rows
         PROVE  Sight(new, bal, x).entitled = bal[x].entitled + Earned(new, period, x)
    <3>1. Sight(k, bal, x).entitled = bal[x].entitled + Earned(k, period, x)
      BY <2>3 DEF EarnedOK
    <3>2. Sight(new, bal, x) = IF x = op.row THEN row ELSE Sight(k, bal, x)
      BY <2>5 DEF Sight, WithRow
    <3>3. bal[x].entitled \in Nat /\ Credit[x[1]][period] \in Nat
      BY <2>3, CreditType DEF CreditInv, IInv, Typed, StoreTyped, Row
    <3> HIDE DEF k, i, op, now, row
    <3>4. CASE x = op.row /\ op.do = "credit"
      <4>1. now.entitled = bal[x].entitled
        BY <1>2, <2>11, <3>1, <3>3, <3>4 DEF Earned
      <4>2. Earned(new, period, x) = op.days
        BY <2>9, <2>11, <3>4 DEF Earned
      <4> QED
        BY <2>10, <3>2, <3>4, <4>1, <4>2
    <3>5. CASE x = op.row /\ op.do # "credit"
      <4>1. Earned(new, period, x) = Earned(k, period, x)
        BY <2>11, <3>5 DEF Earned
      <4>2. Earned(k, period, x) \in Nat
        BY <3>3 DEF Earned
      <4> QED
        BY <1>2, <2>10, <3>1, <3>2, <3>3, <3>5, <4>1, <4>2
    <3>6. CASE x # op.row
      <4>1. Earned(new, period, x) = Earned(k, period, x)
        BY <2>11, <3>6 DEF Earned
      <4> QED
        BY <3>1, <3>2, <3>6, <4>1
    <3> QED
      BY <3>4, <3>5, <3>6
  <2> QED
    BY <2>7, <2>12 DEF EarnedOK
<1> QED
  BY <1>4, <1>5

-------------------------------------------------------------------------------
(* The commits                                                                *)

LEMMA CreditCommitRequest ==
  ASSUME CreditInv, IInv', NEW c \in Actors, CommitRequest(c)
  PROVE  CreditInv'
<1>1. /\ CallOK(c, call[c], period) /\ ActorOK(c, call[c], bal, log, period)
      /\ call[c].at = "tx" /\ call[c].kind # "accrual" /\ End(c) /\ bal' = Flushed(c)
      /\ log' = log /\ period' = period
  BY DEF CreditInv, IInv, ActorOK, CommitRequest, world
<1>2. c \in Calls /\ c \notin Crons
  BY <1>1, CallsAreNotCrons DEF Actors, CallOK, AccrualCallOK
<1>3. PendOK(c, call[c], bal, period)
  BY <1>1 DEF ActorOK, Doomed
<1>4. \A row \in Rows : bal'[row] = Sight(call[c], bal, row)
  BY <1>1 DEF Flushed, Sees, Sight
<1>5. \A row \in Rows : bal'[row].entitled = bal[row].entitled
  BY <1>2, <1>3, <1>4, SightSound DEF CreditInv, IInv
<1>6. \A d \in Crons : call'[d] = call[d]
  BY <1>1, <1>2 DEF End, Becomes, CreditInv, IInv, Typed, Actors
<1>7. ASSUME NEW d \in Crons PROVE RunOK(call'[d], bal', log', period')
  <2>1. SUFFICES ASSUME call[d].at \in {"tx", "write"}, period \notin log
                 PROVE  CreditsOK(call[d], period) /\ EarnedOK(call[d], bal', period)
    BY <1>1, <1>6 DEF RunOK
  <2>2. CreditsOK(call[d], period) /\ EarnedOK(call[d], bal, period)
    BY <2>1 DEF CreditInv, RunOK
  <2>3. ASSUME NEW row \in Rows
        PROVE  Sight(call[d], bal', row).entitled = bal'[row].entitled + Earned(call[d], period, row)
    BY <1>5, <2>2 DEF EarnedOK, Sight
  <2> QED
    BY <2>2, <2>3 DEF EarnedOK
<1> QED
  BY <1>1, <1>5, <1>7 DEF CreditInv

LEMMA CreditCommitAccrual ==
  ASSUME CreditInv, IInv', NEW c \in Actors, CommitAccrual(c)
  PROVE  CreditInv'
<1>1. /\ CallOK(c, call[c], period)
      /\ call[c].at = "tx" /\ call[c].kind = "accrual" /\ End(c)
      /\ DOMAIN call[c].todo = {} /\ period' = period
  BY DEF CreditInv, IInv, ActorOK, CommitAccrual, world
<1>2. c \in Crons /\ call[c].of = period /\ period \in Periods
  BY <1>1 DEF Actors, CallOK, RequestCallOK, AccrualCallOK
<1>3. CASE period \in log
  BY <1>1, <1>2, <1>3, CreditEnd DEF CommitAccrual
<1>4. CASE period \notin log
  <2>1. log' = log \cup {period} /\ bal' = Flushed(c)
    BY <1>2, <1>4 DEF CommitAccrual
  <2>2. EarnedOK(call[c], bal, period)
    BY <1>1, <1>2, <1>4 DEF CreditInv, RunOK
  <2>3. \A row \in Rows : bal'[row] = Sight(call[c], bal, row)
    BY <2>1 DEF Flushed, Sees, Sight
  <2>4. ASSUME NEW row \in Rows PROVE bal'[row].entitled = Due(log', row)
    <3>1. bal'[row].entitled = bal[row].entitled + IF row[2] = YearOf[period] THEN Credit[row[1]][period] ELSE 0
      <4>1. ~Owes(call[c], row)
        BY <1>1 DEF Owes
      <4> QED
        BY <2>2, <2>3, <4>1 DEF EarnedOK, Earned
    <3>2. log \in SUBSET Periods /\ IsFiniteSet(log) /\ bal[row].entitled = Due(log, row)
      BY DEF CreditInv, IInv, Typed, StoreTyped
    <3>3. Due(log \cup {period}, row)
            = Due(log, row) + IF row[2] = YearOf[period] THEN Credit[row[1]][period] ELSE 0
      BY <1>2, <1>4, <3>2, DueGrows
    <3> QED
      BY <2>1, <3>1, <3>2, <3>3
  <2>5. IsFiniteSet(log')
    BY <2>1, FS_AddElement DEF CreditInv
  <2>6. \A d \in Crons : RunOK(call'[d], bal', log', period')
    BY <1>1, <2>1 DEF RunOK
  <2> QED
    BY <2>4, <2>5, <2>6 DEF CreditInv
<1> QED
  BY <1>3, <1>4

LEMMA CreditNextMonth ==
  ASSUME CreditInv, IInv', NextMonth
  PROVE  CreditInv'
<1>1. /\ bal' = bal /\ log' = log /\ call' = call
      /\ period = 0 \/ \A c \in Crons : ~InFlight(c)
  BY DEF NextMonth, store
<1>2. ASSUME NEW c \in Crons PROVE call[c].at \notin {"tx", "write"}
  <2>1. AccrualCallOK(call[c], period)
    BY DEF CreditInv, IInv, ActorOK, CallOK, Actors
  <2> QED
    BY <1>1, <2>1, PeriodsArePositive DEF AccrualCallOK, InFlight
<1> QED
  BY <1>1, <1>2, CreditQuiet DEF RunOK

LEMMA CreditInvInit == Init => CreditInv
<1> SUFFICES ASSUME Init PROVE CreditInv
  OBVIOUS
<1>1. ASSUME NEW row \in Rows PROVE bal[row].entitled = 0 /\ Due(log, row) = 0
  <2>1. bal[row].entitled = 0
    BY DEF Init, NoRow
  <2>2. {q \in {} : YearOf[q] = row[2]} = {}
    OBVIOUS
  <2>3. Due({}, row) = SumFunctionOnSet(Credit[row[1]], {})
    BY <2>2, Zenon DEF Due
  <2> QED
    BY <2>1, <2>3, SumOfNone DEF Init
<1>2. \A c \in Crons : call[c].at = "idle"
  BY IdleFields DEF Init, Actors
<1> QED
  BY <1>1, <1>2, InvInit, FS_EmptySet DEF Init, CreditInv, RunOK

LEMMA CreditInvNext == CreditInv /\ [Next]_vars => CreditInv'
<1> SUFFICES ASSUME CreditInv, [Next]_vars PROVE CreditInv'
  OBVIOUS
<1>0. IInv'
  BY InvNext DEF CreditInv
<1>1. ASSUME NEW c \in Actors, ApplyCount(c) \/ ApplyCreate(c) \/ LockRequest(c)
      PROVE  CreditInv'
  <2>1. c \notin Crons
    <3>1. CallOK(c, call[c], period) /\ call[c].at \in {"count", "create", "lock"}
      BY <1>1 DEF CreditInv, IInv, ActorOK, ApplyCount, ApplyCreate, LockRequest
    <3> QED
      BY <3>1 DEF CallOK, AccrualCallOK
  <2>2. \E new : call' = [call EXCEPT ![c] = new]
    BY <1>1 DEF ApplyCount, ApplyCreate, LockRequest, End, Becomes
  <2>3. bal' = bal /\ log' = log /\ period' = period
    BY <1>1 DEF ApplyCount, ApplyCreate, LockRequest, store, world
  <2> QED
    BY <1>0, <2>1, <2>2, <2>3, CreditStep
<1>2. ASSUME NEW c \in Actors, Abort(c) PROVE CreditInv'
  BY <1>0, <1>2, CreditEnd DEF Abort, store, world
<1>3. ASSUME NEW c \in Calls, NEW r \in Requests,
             ApplyCheck(c, r) \/ ApproveCheck(c, r) \/ RejectCheck(c, r) \/ CancelCheck(c, r)
      PROVE  CreditInv'
  <2>1. \E new : call' = [call EXCEPT ![c] = new]
    BY <1>3 DEF ApplyCheck, ApproveCheck, RejectCheck, CancelCheck, Review, Becomes
  <2>2. bal' = bal /\ log' = log /\ period' = period
    BY <1>3 DEF ApplyCheck, ApproveCheck, RejectCheck, CancelCheck, Review, store, world
  <2>3. c \in Actors /\ c \notin Crons
    BY CallsAreNotCrons DEF Actors
  <2> QED
    BY <1>0, <2>1, <2>2, <2>3, CreditStep
<1>4. ASSUME NEW r \in Requests, AddHoliday(r) PROVE CreditInv'
  BY <1>0, <1>4, CreditQuiet DEF AddHoliday, store
<1>5. CASE UNCHANGED vars
  BY <1>0, <1>5, CreditQuiet DEF vars, store, world
<1>6. ASSUME NEW c \in Actors, Proceed(c) PROVE CreditInv'
  BY <1>0, <1>1, <1>6, CreditRead, CreditWrite, CreditCommitRequest,
     CreditCommitAccrual DEF Proceed
<1> QED
  BY <1>0, <1>2, <1>3, <1>4, <1>5, <1>6, CreditAccrualStart, CreditNextMonth DEF Next

\* The accrual: however its runs overlap with each other and with requests, each logged
\* month is credited to each balance exactly once.
THEOREM AccruesOncePerPeriod == Spec => []AccruedOncePerPeriod
<1>1. CreditInv => AccruedOncePerPeriod
  <2> SUFFICES ASSUME CreditInv, NEW e \in Employees, NEW y \in Years
               PROVE  bal[<<e, y>>].entitled
                        = SumFunctionOnSet(Credit[e], {p \in log : YearOf[p] = y})
    BY DEF AccruedOncePerPeriod
  <2>1. <<e, y>> \in Rows
    BY DEF Rows
  <2>2. Due(log, <<e, y>>) = SumFunctionOnSet(Credit[e], {p \in log : YearOf[p] = y})
    BY DEF Due
  <2> QED
    BY <2>1, <2>2 DEF CreditInv
<1> QED
  BY <1>1, CreditInvInit, CreditInvNext, PTL DEF Spec

-------------------------------------------------------------------------------
(* The days used, when no two calls overlap                                   *)

ApprovedOf(st, e) == {r \in Requests : st[r] = "APPROVED" /\ Owner[r] = e}

\* What approving took from a row for the requests that are approved.
Taken(st, t, row) ==
  SumFunctionOnSet([r \in Requests |-> t[r][row[2]]], ApprovedOf(st, row[1]))

\* A review still has before it the status it has checked.
ReviewOK(k, st) ==
  /\ st[k.of] = k.seen /\ k.seen \in {"PENDING", "APPROVED"}
  /\ k.kind # "CANCELLED" => k.seen = "PENDING"
  /\ k.kind \in {"APPROVED", "REJECTED", "CANCELLED"}

Takes(k)   == k.kind = "APPROVED"
Returns(k) == k.kind = "CANCELLED" /\ k.seen = "APPROVED"

ReviewOpOK(k, op) ==
  /\ op.row[1] = Owner[k.of]
  /\ op.days = Days[k.of][op.row[2]] /\ op.days > 0
  /\ (op.do = "deduct" /\ Takes(k)) \/ (op.do = "restore" /\ Returns(k))

\* A review has an operation for each row left of those its request takes days from.
ReviewOpsOK(k) ==
  /\ k.split = Days[k.of]
  /\ \A i \in DOMAIN k.todo : ReviewOpOK(k, k.todo[i])
  /\ \A i, j \in DOMAIN k.todo : i # j => k.todo[i].row # k.todo[j].row

Pending(k, row) == \E i \in DOMAIN k.todo : k.todo[i].row = row

\* What the operations done have changed in the days used of a row.
Change(c, k, row) ==
  IF c \in Crons \/ row[1] # Owner[k.of] \/ Pending(k, row) THEN 0
  ELSE IF Takes(k) THEN Days[k.of][row[2]]
  ELSE IF Returns(k) THEN 0 - Days[k.of][row[2]]
  ELSE 0

ChangeOK(c, k, b) ==
  \A row \in Rows : /\ Sight(k, b, row).used = b[row].used + Change(c, k, row)
                    /\ ~Sight(k, b, row).exists => Sight(k, b, row).used = 0

UsedOK(c, k, b, st) ==
  /\ c \in Calls /\ k.at \in {"count", "create"} => st[k.of] = "NONE"
  /\ c \in Calls /\ k.at \in {"lock", "tx", "write"} => ReviewOK(k, st)
  /\ c \in Calls /\ k.at \in {"tx", "write"} => ReviewOpsOK(k)
  /\ k.at \in {"tx", "write"} => ChangeOK(c, k, b)

UsedSums == \A row \in Rows : bal[row].used = Taken(status, taken, row)
TakenAll == \A r \in Requests : status[r] = "APPROVED" => taken[r] = Days[r]

UsedInv ==
  /\ SerialInv
  /\ moved = {}
  /\ UsedSums
  /\ TakenAll
  /\ \A c \in Actors : UsedOK(c, call[c], bal, status)

LEMMA DaysType ==
  ASSUME NEW r \in Requests
  PROVE  /\ Days[r] \in [Years -> Nat] /\ Owner[r] \in Employees
         /\ \A row \in Rows : Days[r][row[2]] \in Nat
<1>1. Days[r] \in [Years -> Nat] /\ Owner[r] \in Employees
  BY LeaveAssumption DEF LeaveAssumption
<1>2. \A row \in Rows : row[2] \in Years
  BY DEF Rows
<1> QED
  BY <1>1, <1>2

LEMMA UnusedRow ==
  ASSUME UsedInv, NEW row \in Rows
  PROVE  bal[row].used \in Nat /\ (~bal[row].exists => bal[row].used = 0)
<1>1. bal[row] \in Row /\ (~bal[row].exists => bal[row] = NoRow)
  BY DEF UsedInv, SerialInv, IInv, Typed, StoreTyped, RowsSound, Sound
<1>2. NoRow.used = 0
  BY DEF NoRow
<1> QED
  BY <1>1, <1>2 DEF Row

\* A step of the call in flight, or of one that begins when none is.
LEMMA UsedStep ==
  ASSUME UsedInv, SerialInv', NEW c \in Actors, NEW new, call' = [call EXCEPT ![c] = new],
         Busy(call[c]) \/ \A d \in Actors : ~Busy(call[d]),
         moved' = moved, UsedSums', TakenAll', UsedOK(c, new, bal', status')
  PROVE  UsedInv'
<1>1. call'[c] = new /\ \A d \in Actors \ {c} : call'[d] = call[d]
  BY DEF UsedInv, SerialInv, IInv, Typed
<1>2. \A d \in Actors \ {c} : ~Busy(call[d])
  BY DEF UsedInv, SerialInv, OneAtATime
<1>3. \A d \in Actors \ {c} : UsedOK(d, call'[d], bal', status')
  BY <1>1, <1>2 DEF UsedOK, Busy
<1> QED
  BY <1>1, <1>3 DEF UsedInv

LEMMA SameUse ==
  ASSUME UsedInv, UNCHANGED <<bal, status, taken>>
  PROVE  UsedSums' /\ TakenAll'
BY DEF UsedInv, UsedSums, TakenAll

LEMMA UsedEnd ==
  ASSUME UsedInv, SerialInv', NEW c \in Actors, End(c), Busy(call[c]),
         moved' = moved, UsedSums', TakenAll'
  PROVE  UsedInv'
<1>1. call' = [call EXCEPT ![c] = Ended(c)]
  BY DEF End, Becomes, Ended
<1>2. Ended(c).at \in {"idle", "done"}
  BY IdleFields DEF Ended, CallType
<1>3. UsedOK(c, Ended(c), bal', status')
  BY <1>2 DEF UsedOK
<1> QED
  BY <1>1, <1>3, UsedStep

LEMMA UsedApplyCheck ==
  ASSUME SerialCalls, UsedInv, SerialInv', NEW c \in Calls, NEW r \in Requests, ApplyCheck(c, r)
  PROVE  UsedInv'
<1> DEFINE new == [call[c] EXCEPT !.at = "count", !.kind = "apply", !.of = r]
<1>1. call[c] \in CallType /\ c \in Actors
  BY DEF UsedInv, SerialInv, IInv, Typed, Actors
<1>2. /\ call' = [call EXCEPT ![c] = new] /\ UNCHANGED <<store, world>> /\ Start(c)
      /\ status[r] = "NONE"
  BY DEF ApplyCheck, Becomes
<1>3. new.at = "count" /\ new.of = r
  BY <1>1 DEF CallType
<1> HIDE DEF new
<1>4. UNCHANGED <<bal, status, taken, moved>>
  BY <1>2 DEF store, world
<1>5. UsedOK(c, new, bal', status')
  BY <1>2, <1>3, <1>4 DEF UsedOK
<1> QED
  BY <1>1, <1>2, <1>4, <1>5, SameUse, NobodyBusy, UsedStep

LEMMA UsedReview ==
  ASSUME SerialCalls, UsedInv, SerialInv', NEW c \in Calls, NEW r \in Requests,
         NEW kind \in {"APPROVED", "REJECTED", "CANCELLED"},
         NEW allowed \in SUBSET {"PENDING", "APPROVED"},
         kind # "CANCELLED" => allowed = {"PENDING"}, Review(c, r, kind, allowed)
  PROVE  UsedInv'
<1> DEFINE new == [call[c] EXCEPT !.at = "lock", !.kind = kind, !.of = r, !.seen = status[r]]
<1>1. call[c] \in CallType /\ c \in Actors
  BY DEF UsedInv, SerialInv, IInv, Typed, Actors
<1>2. /\ call' = [call EXCEPT ![c] = new] /\ UNCHANGED <<store, world>> /\ Start(c)
      /\ status[r] \in allowed
  BY DEF Review, Becomes
<1>3. new.at = "lock" /\ new.of = r /\ new.kind = kind /\ new.seen = status[r]
  BY <1>1 DEF CallType
<1> HIDE DEF new
<1>4. UNCHANGED <<bal, status, taken, moved>>
  BY <1>2 DEF store, world
<1>5. UsedOK(c, new, bal', status')
  BY <1>2, <1>3, <1>4 DEF UsedOK, ReviewOK
<1> QED
  BY <1>1, <1>2, <1>4, <1>5, SameUse, NobodyBusy, UsedStep

LEMMA UsedApplyCount ==
  ASSUME UsedInv, SerialInv', NEW c \in Actors, ApplyCount(c)
  PROVE  UsedInv'
<1>1. call[c] \in CallType /\ call[c].at = "count" /\ UNCHANGED <<store, world>> /\ Busy(call[c])
      /\ UsedOK(c, call[c], bal, status)
  BY DEF UsedInv, SerialInv, IInv, Typed, ApplyCount, Busy
<1>2. UNCHANGED <<bal, status, taken, moved>>
  BY <1>1 DEF store, world
<1>3. CASE End(c)
  BY <1>1, <1>2, <1>3, SameUse, UsedEnd
<1>4. CASE Becomes(c, [call[c] EXCEPT !.at = "create"])
  <2> DEFINE new == [call[c] EXCEPT !.at = "create"]
  <2>1. call' = [call EXCEPT ![c] = new]
    BY <1>4 DEF Becomes
  <2>2. new.at = "create" /\ new.of = call[c].of
    BY <1>1 DEF CallType
  <2> HIDE DEF new
  <2>3. UsedOK(c, new, bal', status')
    BY <1>1, <1>2, <2>2 DEF UsedOK
  <2> QED
    BY <1>1, <1>2, <2>1, <2>3, SameUse, UsedStep
<1> QED
  BY <1>3, <1>4 DEF ApplyCount

\* The same requests are approved.
LEMMA SameApproved ==
  ASSUME UsedInv, bal' = bal, taken' = taken,
         \A r \in Requests : status'[r] = "APPROVED" <=> status[r] = "APPROVED"
  PROVE  UsedSums' /\ TakenAll'
<1>1. ASSUME NEW row \in Rows PROVE Taken(status', taken', row) = Taken(status, taken, row)
  <2>1. ApprovedOf(status', row[1]) = ApprovedOf(status, row[1])
    BY DEF ApprovedOf
  <2> QED
    BY <2>1, Zenon DEF Taken
<1> QED
  BY <1>1 DEF UsedInv, UsedSums, TakenAll

LEMMA UsedApplyCreate ==
  ASSUME UsedInv, SerialInv', NEW c \in Actors, ApplyCreate(c)
  PROVE  UsedInv'
<1> DEFINE r == call[c].of
<1>1. /\ CallOK(c, call[c], period) /\ UsedOK(c, call[c], bal, status)
      /\ call[c].at = "create" /\ Busy(call[c]) /\ End(c)
      /\ bal' = bal /\ taken' = taken /\ moved' = moved /\ status' = [status EXCEPT ![r] = "PENDING"]
      /\ status \in [Requests -> Statuses]
  BY DEF UsedInv, SerialInv, IInv, Typed, StoreTyped, ActorOK, ApplyCreate, Busy, world
<1>2. c \in Calls
  BY <1>1 DEF Actors, CallOK, AccrualCallOK
<1>3. status[r] = "NONE"
  BY <1>1, <1>2 DEF UsedOK
<1>4. \A q \in Requests : status'[q] = "APPROVED" <=> status[q] = "APPROVED"
  BY <1>1, <1>3
<1> QED
  BY <1>1, <1>4, SameApproved, UsedEnd

\* The operations of a review are those its request takes days from; none is done yet.
LEMMA UsedLock ==
  ASSUME UsedInv, SerialInv', NEW c \in Actors, LockRequest(c)
  PROVE  UsedInv'
<1> DEFINE k == call[c]
           r == k.of
           new == [k EXCEPT !.at = "tx", !.todo = ReviewOps(c), !.split = DaysNow(r)]
<1>1. /\ k \in CallType /\ CallOK(c, k, period) /\ UsedOK(c, k, bal, status)
      /\ k.at = "lock" /\ Busy(k) /\ UNCHANGED <<store, world>> /\ call' = [call EXCEPT ![c] = new]
      /\ moved = {}
  BY DEF UsedInv, SerialInv, IInv, Typed, ActorOK, LockRequest, Becomes, Busy
<1>2. c \in Calls /\ c \notin Crons
  BY <1>1, CallsAreNotCrons DEF Actors, CallOK, AccrualCallOK
<1>3. r \in Requests /\ ReviewOK(k, status) /\ DOMAIN k.pend = {}
  BY <1>1, <1>2 DEF CallOK, RequestCallOK, UsedOK
<1>4. DaysNow(r) = Days[r]
  BY <1>1 DEF DaysNow
<1>5. /\ new.at = "tx" /\ new.pend = k.pend /\ new.of = r /\ new.kind = k.kind
      /\ new.seen = k.seen /\ new.todo = ReviewOps(c) /\ new.split = Days[r]
  BY <1>1, <1>4 DEF CallType
<1>6. UNCHANGED <<bal, status, taken, moved>>
  BY <1>1 DEF store, world
<1>7. \/ Takes(k) /\ ReviewOps(c) = RequestOps("deduct", r, Days[r])
      \/ Returns(k) /\ ReviewOps(c) = RequestOps("restore", r, Days[r])
      \/ ~Takes(k) /\ ~Returns(k) /\ ReviewOps(c) = << >>
  <2>1. CASE k.kind = "APPROVED"
    BY <1>4, <2>1, Zenon DEF ReviewOps, Takes
  <2>2. CASE k.kind = "CANCELLED" /\ k.seen = "APPROVED"
    BY <1>4, <2>2, Zenon DEF ReviewOps, Returns
  <2>3. CASE k.kind # "APPROVED" /\ ~(k.kind = "CANCELLED" /\ k.seen = "APPROVED")
    BY <2>3, Zenon DEF ReviewOps, Takes, Returns
  <2> QED
    BY <2>1, <2>2, <2>3
<1>8. (Takes(new) <=> Takes(k)) /\ (Returns(new) <=> Returns(k)) /\ (Takes(k) => ~Returns(k))
  BY <1>5 DEF Takes, Returns
<1>9. DOMAIN << >> = {}
  OBVIOUS
<1> HIDE DEF new
<1>10. ASSUME NEW do, new.todo = RequestOps(do, r, Days[r])
       PROVE  /\ DOMAIN new.todo = {y \in Years : Days[r][y] > 0}
              /\ \A y \in DOMAIN new.todo : /\ new.todo[y].do = do
                                           /\ new.todo[y].row = <<Owner[r], y>>
                                           /\ new.todo[y].days = Days[r][y]
  <2> HIDE DEF k, r
  <2> QED
    BY <1>10 DEF RequestOps
<1>11. Takes(k) \/ Returns(k) =>
         /\ DOMAIN new.todo = {y \in Years : Days[r][y] > 0}
         /\ \A y \in DOMAIN new.todo :
              /\ new.todo[y].do = IF Takes(k) THEN "deduct" ELSE "restore"
              /\ new.todo[y].row = <<Owner[r], y>>
              /\ new.todo[y].days = Days[r][y]
  BY <1>5, <1>7, <1>8, <1>10
<1>12. ReviewOpsOK(new)
  <2>1. CASE Takes(k) \/ Returns(k)
    <3>1. ASSUME NEW y \in DOMAIN new.todo
          PROVE  /\ new.todo[y].row[1] = Owner[r] /\ new.todo[y].row[2] = y
                 /\ new.todo[y].days = Days[r][y] /\ Days[r][y] > 0
                 /\ new.todo[y].do = IF Takes(k) THEN "deduct" ELSE "restore"
      BY <1>11, <2>1
    <3>2. \A y, z \in DOMAIN new.todo : y # z => new.todo[y].row # new.todo[z].row
      BY <1>11, <2>1
    <3>3. ASSUME NEW y \in DOMAIN new.todo PROVE ReviewOpOK(new, new.todo[y])
      <4>1. new.of = r
        BY <1>5
      <4>2. \/ new.todo[y].do = "deduct" /\ Takes(new)
            \/ new.todo[y].do = "restore" /\ Returns(new)
        BY <1>8, <2>1, <3>1
      <4> HIDE DEF k, r
      <4> QED
        BY <3>1, <4>1, <4>2 DEF ReviewOpOK
    <3>4. new.split = Days[new.of]
      BY <1>5
    <3> HIDE DEF k, r
    <3> QED
      BY <3>2, <3>3, <3>4 DEF ReviewOpsOK
  <2>2. CASE ~Takes(k) /\ ~Returns(k)
    BY <1>5, <1>7, <1>9, <2>2 DEF ReviewOpsOK
  <2> QED
    BY <2>1, <2>2
<1>13. ASSUME NEW row \in Rows PROVE Change(c, new, row) = 0
  <2>1. PICK e \in Employees, y \in Years : row = <<e, y>>
    BY DEF Rows
  <2>2. Days[r][y] \in Nat
    BY <1>3, DaysType
  <2>3. (Takes(k) \/ Returns(k)) /\ e = Owner[r] /\ Days[r][y] > 0 => Pending(new, row)
    <3>1. SUFFICES ASSUME Takes(k) \/ Returns(k), e = Owner[r], Days[r][y] > 0
                   PROVE  y \in DOMAIN new.todo /\ new.todo[y].row = <<Owner[r], y>>
      BY <2>1 DEF Pending
    <3> QED
      BY <1>11, <3>1
  <2>4. row[1] = e /\ row[2] = y
    BY <2>1
  <2> QED
    BY <1>2, <1>5, <1>8, <2>2, <2>3, <2>4 DEF Change
<1>14. ChangeOK(c, new, bal)
  <2>1. \A row \in Rows : bal[row].used \in Nat /\ (~bal[row].exists => bal[row].used = 0)
    BY UnusedRow
  <2> QED
    BY <1>3, <1>5, <1>13, <2>1 DEF ChangeOK, Sight
<1>15. ReviewOK(new, status)
  BY <1>3, <1>5 DEF ReviewOK
<1>16. UsedOK(c, new, bal', status')
  BY <1>2, <1>5, <1>6, <1>12, <1>14, <1>15 DEF UsedOK
<1> QED
  BY <1>1, <1>6, <1>16, SameUse, UsedStep

LEMMA UsedAccrualStart ==
  ASSUME SerialCalls, UsedInv, SerialInv', NEW c \in Crons, AccrualStart(c)
  PROVE  UsedInv'
<1>1. call[c] \in CallType /\ CallOK(c, call[c], period) /\ c \in Actors /\ c \notin Calls
  BY CallsAreNotCrons DEF UsedInv, SerialInv, IInv, Typed, ActorOK, Actors
<1>2. Start(c) /\ call[c].at = "idle" /\ UNCHANGED <<bal, status, taken, moved>>
  BY DEF AccrualStart, Start, store
<1>3. PICK k : call' = [call EXCEPT ![c] = k] /\ k.pend = call[c].pend
  <2>1. CASE period \in log
    <3>1. call' = [call EXCEPT ![c] = call[c]]
      BY <2>1 DEF AccrualStart, UsedInv, SerialInv, IInv, Typed
    <3> QED
      BY <3>1
  <2>2. CASE period \notin log
    <3> DEFINE new == [call[c] EXCEPT !.at = "tx", !.kind = "accrual", !.of = period,
                                      !.todo = AccrualOps(period)]
    <3>1. call' = [call EXCEPT ![c] = new]
      BY <2>2 DEF AccrualStart, Becomes
    <3>2. new.pend = call[c].pend
      BY <1>1 DEF CallType
    <3> HIDE DEF new
    <3> QED
      BY <3>1, <3>2
  <2> QED
    BY <2>1, <2>2
<1>4. \A row \in Rows : bal[row].used \in Nat /\ (~bal[row].exists => bal[row].used = 0)
  BY UnusedRow
<1>5. DOMAIN k.pend = {}
  BY <1>1, <1>2, <1>3 DEF CallOK
<1>6. ChangeOK(c, k, bal)
  BY <1>4, <1>5 DEF ChangeOK, Change, Sight
<1>7. UsedOK(c, k, bal', status')
  BY <1>1, <1>2, <1>6 DEF UsedOK
<1> QED
  BY <1>1, <1>2, <1>3, <1>7, SameUse, NobodyBusy, UsedStep

LEMMA UsedRead ==
  ASSUME UsedInv, SerialInv', NEW c \in Actors, TxRead(c)
  PROVE  UsedInv'
<1> DEFINE k  == call[c]
           i  == NextOp(c)
           op == Resolved(c, k.todo[i])
<1>1. /\ k \in CallType /\ CallOK(c, k, period) /\ UsedOK(c, k, bal, status)
      /\ k.at = "tx" /\ DOMAIN k.todo # {} /\ Busy(k)
      /\ UNCHANGED <<bal, status, taken, moved>>
  BY DEF UsedInv, SerialInv, IInv, ActorOK, Typed, TxRead, Busy, store, world
<1>2. /\ k.todo \in Todos /\ k.pend \in Pends /\ i \in DOMAIN k.todo /\ k.todo[i] \in Ops
  BY <1>1, NextOpIsLeft DEF CallType
<1>3. c \in Calls => k.todo[i].do # "carry" /\ op = k.todo[i]
  <2>1. c \in Calls => k.todo[i].do # "carry"
    BY <1>1, <1>2 DEF CallOK, RequestCallOK
  <2>2. k.todo[i].do # "carry" => op = k.todo[i]
    BY DEF Resolved
  <2> QED
    BY <2>1, <2>2
<1>4. ASSUME NEW new, new.at \in {"tx", "write"}, new.pend = k.pend, new.of = k.of,
             new.kind = k.kind, new.seen = k.seen, new.split = k.split,
             c \in Calls => new.todo = k.todo
      PROVE  UsedOK(c, new, bal', status')
  <2>1. ChangeOK(c, k, bal) => ChangeOK(c, new, bal)
    <3>1. c \in Crons \/ c \in Calls
      BY DEF Actors
    <3>2. \A row : Sight(new, bal, row) = Sight(k, bal, row)
      BY <1>4 DEF Sight
    <3>3. \A row : Change(c, new, row) = Change(c, k, row)
      BY <1>4, <3>1 DEF Change, Pending, Takes, Returns
    <3> QED
      BY <3>2, <3>3 DEF ChangeOK
  <2>2. c \in Calls => (ReviewOpsOK(k) => ReviewOpsOK(new))
    BY <1>4 DEF ReviewOpsOK, ReviewOpOK, Takes, Returns
  <2>3. ReviewOK(k, status) => ReviewOK(new, status)
    BY <1>4 DEF ReviewOK
  <2> QED
    BY <1>1, <1>4, <2>1, <2>2, <2>3 DEF UsedOK
<1>5. CASE op.do = "carry" /\ op.days <= 0
  <2> DEFINE new == [k EXCEPT !.todo = Without(@, i)]
  <2>1. call' = [call EXCEPT ![c] = new]
    BY <1>5 DEF TxRead, Becomes
  <2>2. c \notin Calls
    BY <1>3, <1>5
  <2>3. /\ new.at = "tx" /\ new.pend = k.pend /\ new.of = k.of
        /\ new.kind = k.kind /\ new.seen = k.seen /\ new.split = k.split
    BY <1>1 DEF CallType
  <2> HIDE DEF new
  <2>4. UsedOK(c, new, bal', status')
    BY <1>4, <2>2, <2>3
  <2>5. UsedSums' /\ TakenAll' /\ moved' = moved
    BY <1>1, SameUse
  <2> QED
    BY <1>1, <2>1, <2>4, <2>5, UsedStep
<1>6. CASE ~(op.do = "carry" /\ op.days <= 0)
  <2> DEFINE new == [k EXCEPT !.at = "write", !.snap = Sees(c, op.row), !.todo[i] = op]
  <2>1. call' = [call EXCEPT ![c] = new]
    BY <1>6 DEF TxRead, Becomes
  <2>2. /\ new.at = "write" /\ new.pend = k.pend /\ new.of = k.of
        /\ new.kind = k.kind /\ new.seen = k.seen /\ new.split = k.split
        /\ new.todo = [k.todo EXCEPT ![i] = op]
    BY <1>1 DEF CallType
  <2>3. c \in Calls => new.todo = k.todo
    <3>1. PICK D \in SUBSET Nat : k.todo \in [D -> Ops]
      BY <1>2 DEF Todos
    <3> HIDE DEF new, op, i, k
    <3> QED
      BY <1>2, <1>3, <2>2, <3>1
  <2> HIDE DEF new
  <2>4. UsedOK(c, new, bal', status')
    BY <1>4, <2>2, <2>3
  <2>5. UsedSums' /\ TakenAll' /\ moved' = moved
    BY <1>1, SameUse
  <2> QED
    BY <1>1, <2>1, <2>4, <2>5, UsedStep
<1> QED
  BY <1>5, <1>6

-------------------------------------------------------------------------------
(* Sums over the approved requests                                            *)

LEMMA ApprovedFinite ==
  ASSUME IsFiniteSet(Requests), NEW st, NEW e
  PROVE  IsFiniteSet(ApprovedOf(st, e)) /\ ApprovedOf(st, e) \subseteq Requests
BY FS_Subset DEF ApprovedOf

LEMMA TakenType ==
  ASSUME NEW t \in [Requests -> [Years -> Nat]], NEW row \in Rows, NEW r \in Requests
  PROVE  t[r][row[2]] \in Nat /\ [q \in Requests |-> t[q][row[2]]][r] = t[r][row[2]]
<1>1. row[2] \in Years
  BY DEF Rows
<1> QED
  BY <1>1

\* An approved request more adds what it took.
LEMMA TakenWith ==
  ASSUME IsFiniteSet(Requests), NEW t \in [Requests -> [Years -> Nat]], NEW row \in Rows,
         NEW r \in Requests, NEW st, NEW st2,
         ApprovedOf(st, row[1]) = ApprovedOf(st2, row[1]) \cup {r}, r \notin ApprovedOf(st2, row[1])
  PROVE  /\ Taken(st, t, row) = t[r][row[2]] + Taken(st2, t, row)
         /\ Taken(st2, t, row) \in Nat
<1> DEFINE f == [q \in Requests |-> t[q][row[2]]]
           S == ApprovedOf(st, row[1])
<1>1. IsFiniteSet(S) /\ S \subseteq Requests
  BY ApprovedFinite
<1>2. \A q \in Requests : f[q] \in Nat /\ f[q] = t[q][row[2]]
  BY TakenType
<1>3. r \in S /\ S \ {r} = ApprovedOf(st2, row[1])
  OBVIOUS
<1> HIDE DEF f, S
<1>4. SumFunctionOnSet(f, S) = f[r] + SumFunctionOnSet(f, S \ {r})
      /\ SumFunctionOnSet(f, S \ {r}) \in Nat
  BY <1>1, <1>2, <1>3, SumWith
<1>5. SumFunctionOnSet(f, S \ {r}) = Taken(st2, t, row)
  BY <1>3, Zenon DEF Taken, f
<1>6. SumFunctionOnSet(f, S) = Taken(st, t, row)
  BY Zenon DEF Taken, f, S
<1> QED
  BY <1>2, <1>4, <1>5, <1>6

\* What is taken for one request is part of the sum.
LEMMA TakenAtLeast ==
  ASSUME IsFiniteSet(Requests), NEW t \in [Requests -> [Years -> Nat]], NEW row \in Rows,
         NEW st, NEW r \in ApprovedOf(st, row[1])
  PROVE  Taken(st, t, row) \in Nat /\ t[r][row[2]] <= Taken(st, t, row)
<1> DEFINE st2 == [q \in Requests |-> IF q = r THEN "NONE" ELSE st[q]]
<1>1. r \in Requests
  BY DEF ApprovedOf
<1>2. ApprovedOf(st, row[1]) = ApprovedOf(st2, row[1]) \cup {r} /\ r \notin ApprovedOf(st2, row[1])
  BY DEF ApprovedOf
<1> HIDE DEF st2
<1>3. /\ Taken(st, t, row) = t[r][row[2]] + Taken(st2, t, row)
      /\ Taken(st2, t, row) \in Nat
  BY <1>1, <1>2, TakenWith
<1>4. t[r][row[2]] \in Nat
  BY <1>1, TakenType
<1> QED
  BY <1>3, <1>4

\* What is taken for other requests does not count.
LEMMA TakenAgrees ==
  ASSUME IsFiniteSet(Requests), NEW t \in [Requests -> [Years -> Nat]],
         NEW t2 \in [Requests -> [Years -> Nat]], NEW row \in Rows, NEW st,
         \A r \in ApprovedOf(st, row[1]) : t2[r] = t[r]
  PROVE  Taken(st, t2, row) = Taken(st, t, row)
<1> DEFINE f == [q \in Requests |-> t[q][row[2]]]
           g == [q \in Requests |-> t2[q][row[2]]]
           S == ApprovedOf(st, row[1])
<1>1. IsFiniteSet(S) /\ S \subseteq Requests
  BY ApprovedFinite
<1>2. \A q \in S : f[q] \in Nat /\ g[q] = f[q]
  BY <1>1, TakenType
<1> HIDE DEF f, g, S
<1>3. SumFunctionOnSet(g, S) = SumFunctionOnSet(f, S)
  BY <1>1, <1>2, SumAgrees
<1> QED
  BY <1>3, Zenon DEF Taken, f, g, S

-------------------------------------------------------------------------------
(* The days used row by row                                                   *)

\* An operation on a row as it is changes the days used by its days.
LEMMA UsedAfter ==
  ASSUME NEW op \in Ops, NEW s \in Draft, ~Refused(op, s, s), ~s.exists => s.used = 0,
         op.do = "restore" => s.exists /\ op.days <= s.used
  PROVE  LET new == Updated(op, s, s) IN
         /\ new.exists = TRUE
         /\ new.used = IF op.do = "deduct" THEN s.used + op.days
                       ELSE IF op.do = "restore" THEN s.used - op.days
                       ELSE s.used
<1>1. /\ op.do \in {"deduct", "restore", "credit", "carry"} /\ op.days \in Nat
      /\ s.used \in Nat /\ s.exists \in BOOLEAN
  BY DEF Ops, Draft
<1>2. CASE op.do = "deduct"
  <2>1. s.exists = TRUE
    BY <1>1, <1>2 DEF Refused
  <2>2. Shows(Updated(op, s, s), s.exists, s.cf, s.entitled, s.used + op.days,
               s.cf + s.entitled - s.used - op.days)
    BY <1>2, DeductedRow
  <2> QED
    BY <1>2, <2>1, <2>2 DEF Shows
<1>3. CASE op.do = "restore"
  <2> DEFINE used == Max({0, s.used - op.days})
             days == s.cf + s.entitled - used
  <2>1. Updated(op, s, s) = Restored(s, s, op.days)
    BY <1>3 DEF Updated
  <2>2. Restored(s, s, op.days) = [s EXCEPT !.used = used, !.balance = days]
    BY Zenon DEF Restored
  <2>3. s.used - op.days \in Nat
    BY <1>1, <1>3
  <2>4. used = s.used - op.days
    <3> DEFINE rest == s.used - op.days
    <3>1. 0 \in Int /\ rest \in Int /\ rest >= 0
      BY <2>3
    <3> HIDE DEF rest
    <3>2. Max({0, rest}) \in {0, rest} /\ Max({0, rest}) >= rest
      BY <3>1, MinMaxOfTwo, Zenon
    <3>3. Max({0, rest}) = rest
      BY <3>1, <3>2
    <3> QED
      BY <3>3 DEF rest
  <2> HIDE DEF used
  <2>5. used \in Nat /\ days \in Int
    BY <2>3, <2>4 DEF Draft
  <2> HIDE DEF days
  <2>6. Shows([s EXCEPT !.used = used, !.balance = days], s.exists, s.cf, s.entitled, used, days)
    BY <2>5, RowColumns, Zenon
  <2>7. s.exists = TRUE
    BY <1>1, <1>3
  <2> QED
    BY <1>3, <2>1, <2>2, <2>4, <2>6, <2>7 DEF Shows
<1>4. CASE op.do = "credit" /\ s.exists
  <2>1. Shows(Updated(op, s, s), s.exists, s.cf, s.entitled + op.days, s.used,
              Cap(s.cf + s.entitled - s.used + op.days))
    BY <1>4, CreditedRow
  <2> QED
    BY <1>1, <1>4, <2>1 DEF Shows
<1>5. CASE op.do = "credit" /\ ~s.exists
  <2>1. Shows(Updated(op, s, s), TRUE, 0, op.days, 0, Cap(op.days))
    BY <1>5, CreditedRow
  <2> QED
    BY <1>5, <2>1 DEF Shows
<1>6. CASE op.do = "carry" /\ s.exists
  <2>1. Shows(Updated(op, s, s), s.exists, op.days, s.entitled, s.used, op.days + s.entitled - s.used)
    BY <1>6, CarriedRow
  <2> QED
    BY <1>1, <1>6, <2>1 DEF Shows
<1>7. CASE op.do = "carry" /\ ~s.exists
  <2>1. Shows(Updated(op, s, s), TRUE, op.days, 0, 0, op.days)
    BY <1>7, CarriedRow
  <2> QED
    BY <1>7, <2>1 DEF Shows
<1> QED
  BY <1>1, <1>2, <1>3, <1>4, <1>5, <1>6, <1>7

LEMMA UsedWrite ==
  ASSUME IsFiniteSet(Requests), UsedInv, SerialInv', NEW c \in Actors, TxWrite(c)
  PROVE  UsedInv'
<1> DEFINE k   == call[c]
           i   == NextOp(c)
           op  == k.todo[i]
           now == Sees(c, op.row)
           row == Updated(op, k.snap, now)
<1>1. /\ k \in CallType /\ ActorOK(c, k, bal, log, period) /\ CallOK(c, k, period)
      /\ SerialOK(c, k, bal, Active) /\ UsedOK(c, k, bal, status)
      /\ k.at = "write" /\ Busy(k) /\ UNCHANGED <<bal, status, taken, moved>>
  BY DEF UsedInv, SerialInv, IInv, Typed, ActorOK, TxWrite, Busy, store, world
<1>2. i = Min(DOMAIN k.todo) /\ now = Sight(k, bal, op.row)
  BY DEF NextOp, Sees, Sight
<1>3. /\ k.todo \in Todos /\ k.pend \in Pends
      /\ i \in DOMAIN k.todo /\ op \in Ops /\ op.row \in Rows
  BY <1>1, <1>2, NextRow DEF CallType, ActorOK, CallOK
<1>4. UsedSums' /\ TakenAll' /\ moved' = moved
  BY <1>1, SameUse
<1>5. CASE Refused(op, k.snap, now)
  <2>1. End(c)
    BY <1>5 DEF TxWrite
  <2> QED
    BY <1>1, <1>4, <2>1, UsedEnd
<1>6. CASE ~Refused(op, k.snap, now)
  <2> DEFINE new == [k EXCEPT !.at = "tx", !.todo = Without(@, i), !.snap = NoRow,
                              !.pend = WithRow(@, op.row, row)]
  <2>1. call' = [call EXCEPT ![c] = new]
    BY <1>6 DEF TxWrite, Becomes
  <2>2. /\ DOMAIN Without(k.todo, i) = DOMAIN k.todo \ {i}
        /\ \A j \in DOMAIN k.todo \ {i} : Without(k.todo, i)[j] = k.todo[j]
    BY <1>3, WithoutOp
  <2>3. /\ new.at = "tx" /\ new.of = k.of /\ new.kind = k.kind /\ new.seen = k.seen
        /\ new.split = k.split /\ new.todo = Without(k.todo, i)
        /\ new.pend = WithRow(k.pend, op.row, row)
    BY <1>1 DEF CallType
  <2> HIDE DEF new
  <2>4. /\ DOMAIN new.todo = DOMAIN k.todo \ {i}
        /\ \A j \in DOMAIN new.todo : new.todo[j] = k.todo[j]
    BY <2>2, <2>3
  <2>5. k.snap = now
    BY <1>1, <1>2 DEF SerialOK
  <2>6. now \in Draft
    BY <1>3, SeesDraft DEF UsedInv, SerialInv, IInv, Typed, StoreTyped
  <2>7. ChangeOK(c, k, bal)
    BY <1>1 DEF UsedOK
  <2>8. now.used = bal[op.row].used + Change(c, k, op.row) /\ (~now.exists => now.used = 0)
    BY <1>2, <1>3, <2>7 DEF ChangeOK
  <2>9. c \in Calls => /\ ReviewOpsOK(k) /\ ReviewOK(k, status) /\ ReviewOpOK(k, op)
                       /\ k.of \in Requests /\ c \notin Crons /\ Pending(k, op.row)
    BY <1>1, <1>3, CallsAreNotCrons
    DEF UsedOK, ReviewOpsOK, Pending, CallOK, RequestCallOK
  <2>10. c \in Crons => op.do \in {"credit", "carry"}
    BY <1>1, <1>3 DEF CallOK, AccrualCallOK
  <2>11. /\ bal[op.row].used \in Nat /\ op.days \in Nat
         /\ \A x \in Rows : bal[x].used \in Nat
    BY <1>3, UnusedRow DEF Ops
  <2>12. op.do = "restore" => now.exists /\ op.days <= now.used
    <3> SUFFICES ASSUME op.do = "restore" PROVE now.exists /\ op.days <= now.used
      OBVIOUS
    <3>1. c \in Calls /\ Returns(k)
      BY <2>9, <2>10 DEF Actors, ReviewOpOK
    <3>2. op.days = Days[k.of][op.row[2]] /\ op.days > 0 /\ op.row[1] = Owner[k.of]
      BY <2>9, <3>1 DEF ReviewOpOK
    <3>3. status[k.of] = "APPROVED" /\ k.of \in Requests
      BY <2>9, <3>1 DEF ReviewOK, Returns
    <3>4. taken[k.of] = Days[k.of]
      BY <3>3 DEF UsedInv, TakenAll
    <3>5. k.of \in ApprovedOf(status, op.row[1])
      BY <3>2, <3>3 DEF ApprovedOf
    <3>6. taken \in [Requests -> [Years -> Nat]] /\ bal[op.row].used = Taken(status, taken, op.row)
      BY <1>3 DEF UsedInv, UsedSums, SerialInv, IInv, Typed, StoreTyped
    <3>7. Change(c, k, op.row) = 0
      BY <2>9, <3>1 DEF Change
    <3> HIDE DEF k, op, now
    <3>8. taken[k.of][op.row[2]] <= bal[op.row].used
      BY <1>3, <3>5, <3>6, TakenAtLeast
    <3>9. op.days <= now.used /\ now.used > 0
      BY <2>8, <2>11, <3>2, <3>4, <3>7, <3>8
    <3> QED
      BY <2>8, <3>9
  <2>13. /\ row.exists = TRUE
         /\ row.used = IF op.do = "deduct" THEN now.used + op.days
                       ELSE IF op.do = "restore" THEN now.used - op.days
                       ELSE now.used
    <3> HIDE DEF op, now
    <3> QED
      BY <1>3, <1>6, <2>5, <2>6, <2>8, <2>12, UsedAfter
  <2>14. \A x \in Rows : Sight(new, bal, x) = IF x = op.row THEN row ELSE Sight(k, bal, x)
    BY <2>3 DEF Sight, WithRow
  <2>15. (Takes(new) <=> Takes(k)) /\ (Returns(new) <=> Returns(k))
    BY <2>3 DEF Takes, Returns
  <2>16. c \in Calls => /\ ~Pending(new, op.row)
                        /\ \A x : x # op.row => (Pending(new, x) <=> Pending(k, x))
    BY <1>3, <2>4, <2>9 DEF ReviewOpsOK, Pending
  <2>17. ASSUME NEW x \in Rows
         PROVE  /\ Sight(new, bal, x).used = bal[x].used + Change(c, new, x)
                /\ ~Sight(new, bal, x).exists => Sight(new, bal, x).used = 0
    <3>1. /\ Sight(k, bal, x).used = bal[x].used + Change(c, k, x)
          /\ ~Sight(k, bal, x).exists => Sight(k, bal, x).used = 0
      BY <2>7 DEF ChangeOK
    <3>2. CASE x # op.row
      <4>1. Change(c, new, x) = Change(c, k, x)
        BY <2>3, <2>15, <2>16, <3>2 DEF Change, Actors
      <4> QED
        BY <2>14, <3>1, <3>2, <4>1
    <3>3. CASE x = op.row /\ c \in Crons
      <4>1. Change(c, new, x) = 0 /\ Change(c, k, x) = 0
        BY <3>3 DEF Change
      <4> HIDE DEF k, op, now, row
      <4>2. row.used = now.used
        BY <2>10, <2>13, <3>3
      <4>3. now.used = bal[x].used
        BY <2>8, <2>11, <3>3, <4>1
      <4>4. row.used = bal[x].used + Change(c, new, x)
        BY <2>11, <3>3, <4>1, <4>2, <4>3
      <4> QED
        BY <2>13, <2>14, <3>3, <4>4
    <3>4. CASE x = op.row /\ c \in Calls
      <4>1. Change(c, k, x) = 0
        BY <2>9, <3>4 DEF Change
      <4>2. /\ op.row[1] = Owner[k.of] /\ op.days = Days[k.of][op.row[2]]
            /\ (op.do = "deduct" /\ Takes(k)) \/ (op.do = "restore" /\ Returns(k))
        <5>1. ReviewOpOK(k, op)
          BY <2>9, <3>4
        <5> HIDE DEF k, op
        <5> QED
          BY <5>1 DEF ReviewOpOK
      <4>3. Change(c, new, x) = IF Takes(k) THEN op.days ELSE IF Returns(k) THEN 0 - op.days ELSE 0
        BY <2>3, <2>9, <2>15, <2>16, <3>4, <4>2 DEF Change
      <4>4. Takes(k) => ~Returns(k)
        BY DEF Takes, Returns
      <4> HIDE DEF k, op, now, row
      <4>5. now.used = bal[x].used
        BY <2>8, <2>11, <3>4, <4>1
      <4>6. row.used = bal[x].used + Change(c, new, x)
        BY <2>11, <2>13, <3>4, <4>2, <4>3, <4>4, <4>5
      <4> QED
        BY <2>13, <2>14, <3>4, <4>6
    <3> QED
      BY <3>2, <3>3, <3>4 DEF Actors
  <2>18. c \in Calls => ReviewOpsOK(new)
    <3> SUFFICES ASSUME c \in Calls PROVE ReviewOpsOK(new)
      OBVIOUS
    <3>1. ReviewOpsOK(k)
      BY <2>9, Zenon
    <3>2. \A j \in DOMAIN new.todo : ReviewOpOK(new, new.todo[j])
      BY <2>3, <2>4, <2>15, <3>1 DEF ReviewOpsOK, ReviewOpOK
    <3>3. \A j, h \in DOMAIN new.todo : j # h => new.todo[j].row # new.todo[h].row
      BY <2>4, <3>1 DEF ReviewOpsOK
    <3>4. new.split = Days[new.of]
      BY <2>3, <3>1 DEF ReviewOpsOK
    <3> QED
      BY <3>2, <3>3, <3>4 DEF ReviewOpsOK
  <2>19. ReviewOK(k, status) => ReviewOK(new, status)
    BY <2>3 DEF ReviewOK
  <2>20. UsedOK(c, new, bal', status')
    BY <1>1, <2>3, <2>9, <2>17, <2>18, <2>19 DEF UsedOK, ChangeOK
  <2> QED
    BY <1>1, <1>4, <2>1, <2>20, UsedStep
<1> QED
  BY <1>5, <1>6

-------------------------------------------------------------------------------
(* The commits                                                                *)

LEMMA UsedCommitRequest ==
  ASSUME IsFiniteSet(Requests), UsedInv, SerialInv', NEW c \in Actors, CommitRequest(c)
  PROVE  UsedInv'
<1> DEFINE k == call[c]
           r == k.of
<1>1. /\ k \in CallType /\ CallOK(c, k, period) /\ UsedOK(c, k, bal, status) /\ Busy(k)
      /\ k.at = "tx" /\ k.kind # "accrual" /\ End(c) /\ bal' = Flushed(c)
      /\ status' = [status EXCEPT ![r] = k.kind]
      /\ taken' = IF k.kind = "APPROVED" THEN [taken EXCEPT ![r] = k.split] ELSE taken
      /\ moved' = moved /\ DOMAIN k.todo = {}
      /\ status \in [Requests -> Statuses] /\ taken \in [Requests -> [Years -> Nat]]
      /\ taken' \in [Requests -> [Years -> Nat]]
  BY DEF UsedInv, SerialInv, IInv, Typed, StoreTyped, ActorOK, CommitRequest, Busy, world
<1>2. c \in Calls /\ c \notin Crons
  BY <1>1, CallsAreNotCrons DEF Actors, CallOK, AccrualCallOK
<1>3. /\ r \in Requests /\ ReviewOK(k, status) /\ k.split = Days[r] /\ ChangeOK(c, k, bal)
  BY <1>1, <1>2 DEF CallOK, RequestCallOK, UsedOK, ReviewOpsOK
<1>4. ASSUME NEW row \in Rows
      PROVE  bal'[row].used = bal[row].used + Change(c, k, row)
  <2>1. bal'[row] = Sight(k, bal, row)
    BY <1>1 DEF Flushed, Sees, Sight
  <2> QED
    BY <1>3, <2>1 DEF ChangeOK
<1>5. \A row : ~Pending(k, row)
  BY <1>1 DEF Pending
<1>6. ASSUME NEW row \in Rows
      PROVE  /\ bal[row].used = Taken(status, taken, row) /\ bal[row].used \in Nat
             /\ Days[r][row[2]] \in Nat
  BY <1>3, UnusedRow, DaysType DEF UsedInv, UsedSums
<1>7. CASE Takes(k)
  <2>1. status[r] = "PENDING" /\ status' = [status EXCEPT ![r] = "APPROVED"]
        /\ taken' = [taken EXCEPT ![r] = Days[r]]
    BY <1>1, <1>3, <1>7 DEF ReviewOK, Takes
  <2>2. TakenAll'
    BY <1>1, <1>3, <2>1 DEF TakenAll, UsedInv
  <2>3. ASSUME NEW row \in Rows PROVE bal'[row].used = Taken(status', taken', row)
    <3>1. Taken(status, taken', row) = Taken(status, taken, row)
      <4>1. \A q \in ApprovedOf(status, row[1]) : taken'[q] = taken[q]
        BY <1>1, <2>1 DEF ApprovedOf
      <4>2. PICK t2 : t2 = taken'
        OBVIOUS
      <4>3. t2 \in [Requests -> [Years -> Nat]] /\ taken \in [Requests -> [Years -> Nat]]
        BY <1>1, <4>2
      <4>4. \A q \in ApprovedOf(status, row[1]) : t2[q] = taken[q]
        BY <4>1, <4>2
      <4> HIDE DEF k, r
      <4>5. Taken(status, t2, row) = Taken(status, taken, row)
        BY <4>3, <4>4, TakenAgrees
      <4> QED
        BY <4>2, <4>5
    <3>2. CASE row[1] = Owner[r]
      <4>1. ApprovedOf(status', row[1]) = ApprovedOf(status, row[1]) \cup {r}
            /\ r \notin ApprovedOf(status, row[1])
        BY <1>1, <1>3, <2>1, <3>2 DEF ApprovedOf
      <4>2. taken'[r] = Days[r]
        BY <1>1, <1>3, <2>1
      <4>3. Taken(status', taken', row) = taken'[r][row[2]] + Taken(status, taken', row)
        <5>1. PICK t2, st2, q : t2 = taken' /\ st2 = status' /\ q = r
          OBVIOUS
        <5>2. t2 \in [Requests -> [Years -> Nat]] /\ q \in Requests
          BY <1>1, <1>3, <5>1
        <5>3. /\ ApprovedOf(st2, row[1]) = ApprovedOf(status, row[1]) \cup {q}
              /\ q \notin ApprovedOf(status, row[1])
          BY <4>1, <5>1
        <5>4. Taken(st2, t2, row) = t2[q][row[2]] + Taken(status, t2, row)
          BY <5>2, <5>3, TakenWith
        <5> QED
          BY <5>1, <5>4
      <4>4. Change(c, k, row) = Days[r][row[2]]
        BY <1>2, <1>5, <1>7, <3>2 DEF Change
      <4> QED
        BY <1>4, <1>6, <3>1, <4>2, <4>3, <4>4
    <3>3. CASE row[1] # Owner[r]
      <4>1. ApprovedOf(status', row[1]) = ApprovedOf(status, row[1])
        BY <1>1, <1>3, <2>1, <3>3 DEF ApprovedOf
      <4>2. Taken(status', taken', row) = Taken(status, taken', row)
        BY <4>1, Zenon DEF Taken
      <4>3. Change(c, k, row) = 0
        BY <3>3 DEF Change
      <4> QED
        BY <1>4, <1>6, <3>1, <4>2, <4>3
    <3> QED
      BY <3>2, <3>3
  <2> QED
    BY <1>1, <2>2, <2>3, UsedEnd DEF UsedSums
<1>8. CASE Returns(k)
  <2>1. status[r] = "APPROVED" /\ status' = [status EXCEPT ![r] = "CANCELLED"]
        /\ taken' = taken /\ taken[r] = Days[r]
    BY <1>1, <1>3, <1>8 DEF ReviewOK, Returns, UsedInv, TakenAll
  <2>2. TakenAll'
    BY <1>1, <1>3, <2>1 DEF TakenAll, UsedInv
  <2>3. ASSUME NEW row \in Rows PROVE bal'[row].used = Taken(status', taken', row)
    <3>1. CASE row[1] = Owner[r]
      <4>1. ApprovedOf(status, row[1]) = ApprovedOf(status', row[1]) \cup {r}
            /\ r \notin ApprovedOf(status', row[1])
        BY <1>1, <1>3, <2>1, <3>1 DEF ApprovedOf
      <4>2. Taken(status, taken, row) = taken[r][row[2]] + Taken(status', taken, row)
            /\ Taken(status', taken, row) \in Nat
        <5>1. PICK st2, q : st2 = status' /\ q = r
          OBVIOUS
        <5>2. taken \in [Requests -> [Years -> Nat]] /\ q \in Requests
          BY <1>1, <1>3, <5>1
        <5>3. /\ ApprovedOf(status, row[1]) = ApprovedOf(st2, row[1]) \cup {q}
              /\ q \notin ApprovedOf(st2, row[1])
          BY <4>1, <5>1
        <5>4. /\ Taken(status, taken, row) = taken[q][row[2]] + Taken(st2, taken, row)
              /\ Taken(st2, taken, row) \in Nat
          BY <5>2, <5>3, TakenWith
        <5> QED
          BY <5>1, <5>4
      <4>3. Change(c, k, row) = 0 - Days[r][row[2]]
        BY <1>2, <1>5, <1>8, <3>1 DEF Change, Takes, Returns
      <4> QED
        BY <1>4, <1>6, <2>1, <4>2, <4>3
    <3>2. CASE row[1] # Owner[r]
      <4>1. ApprovedOf(status', row[1]) = ApprovedOf(status, row[1])
        BY <1>1, <1>3, <2>1, <3>2 DEF ApprovedOf
      <4>2. Taken(status', taken', row) = Taken(status, taken, row)
        BY <2>1, <4>1, Zenon DEF Taken
      <4>3. Change(c, k, row) = 0
        BY <3>2 DEF Change
      <4> QED
        BY <1>4, <1>6, <4>2, <4>3
    <3> QED
      BY <3>1, <3>2
  <2> QED
    BY <1>1, <2>2, <2>3, UsedEnd DEF UsedSums
<1>9. CASE ~Takes(k) /\ ~Returns(k)
  <2>1. k.kind # "APPROVED" /\ status[r] = "PENDING" /\ taken' = taken
    BY <1>1, <1>3, <1>9 DEF ReviewOK, Takes, Returns
  <2>2. TakenAll'
    BY <1>1, <1>3, <2>1 DEF TakenAll, UsedInv
  <2>3. ASSUME NEW row \in Rows PROVE bal'[row].used = Taken(status', taken', row)
    <3>1. ApprovedOf(status', row[1]) = ApprovedOf(status, row[1])
      BY <1>1, <1>3, <2>1 DEF ApprovedOf
    <3>2. Taken(status', taken', row) = Taken(status, taken, row)
      BY <2>1, <3>1, Zenon DEF Taken
    <3>3. Change(c, k, row) = 0
      BY <1>9 DEF Change
    <3> QED
      BY <1>4, <1>6, <3>2, <3>3
  <2> QED
    BY <1>1, <2>2, <2>3, UsedEnd DEF UsedSums
<1> QED
  BY <1>7, <1>8, <1>9

LEMMA UsedCommitAccrual ==
  ASSUME UsedInv, SerialInv', NEW c \in Actors, CommitAccrual(c)
  PROVE  UsedInv'
<1>1. /\ CallOK(c, call[c], period) /\ UsedOK(c, call[c], bal, status) /\ Busy(call[c])
      /\ call[c].at = "tx" /\ call[c].kind = "accrual" /\ End(c)
      /\ bal' = bal \/ bal' = Flushed(c)
      /\ status' = status /\ taken' = taken /\ moved' = moved
  BY DEF UsedInv, SerialInv, IInv, ActorOK, CommitAccrual, Busy, world
<1>2. c \in Crons
  BY <1>1 DEF Actors, CallOK, RequestCallOK
<1>3. ASSUME NEW row \in Rows PROVE bal'[row].used = bal[row].used
  <2>1. CASE bal' = Flushed(c)
    <3>1. bal'[row] = Sight(call[c], bal, row)
      BY <2>1 DEF Flushed, Sees, Sight
    <3>2. Sight(call[c], bal, row).used = bal[row].used + Change(c, call[c], row)
      BY <1>1 DEF UsedOK, ChangeOK
    <3>3. Change(c, call[c], row) = 0
      BY <1>2 DEF Change
    <3> QED
      BY <3>1, <3>2, <3>3, UnusedRow
  <2> QED
    BY <1>1, <2>1
<1>4. UsedSums' /\ TakenAll'
  BY <1>1, <1>3 DEF UsedInv, UsedSums, TakenAll, Taken, ApprovedOf
<1> QED
  BY <1>1, <1>4, UsedEnd

LEMMA UsedInvInit ==
  ASSUME AppliedFit, IsFiniteSet(Requests)
  PROVE  Init => UsedInv
<1> SUFFICES ASSUME Init PROVE UsedInv
  OBVIOUS
<1>1. SerialInv
  BY SerialInvInit
<1>2. moved = {} /\ \A c \in Actors : call[c].at = "idle"
  BY IdleFields DEF Init
<1>3. \A r \in Requests : status[r] # "APPROVED"
  BY DEF Init
<1>4. ASSUME NEW row \in Rows PROVE bal[row].used = 0 /\ Taken(status, taken, row) = 0
  <2>1. bal[row].used = 0
    <3> DEFINE opened == [NoRow EXCEPT !.exists = TRUE, !.cf = Opening, !.balance = Opening]
    <3>1. Opening \in Nat
      BY LeaveAssumption, Zenon DEF LeaveAssumption
    <3>2. Shows(opened, TRUE, Opening, 0, 0, Opening)
      BY <3>1, Opening \in Int, RowColumns, NoRowIsDraft, Zenon
    <3>3. bal[row] \in {opened, NoRow}
      BY DEF Init, opened
    <3> HIDE DEF opened
    <3>4. opened.used = 0
      BY <3>2 DEF Shows
    <3>5. NoRow.used = 0
      BY DEF NoRow
    <3> QED
      BY <3>3, <3>4, <3>5
  <2>2. ApprovedOf(status, row[1]) = {}
    BY <1>3 DEF ApprovedOf
  <2>3. Taken(status, taken, row) = SumFunctionOnSet([q \in Requests |-> taken[q][row[2]]], {})
    BY <2>2, Zenon DEF Taken
  <2> QED
    BY <2>1, <2>3, SumOfNone
<1> QED
  BY <1>1, <1>2, <1>3, <1>4 DEF UsedInv, UsedSums, TakenAll, UsedOK

LEMMA UsedInvNext ==
  ASSUME SerialCalls, ~HolidayEdits, IsFiniteSet(Requests)
  PROVE  UsedInv /\ [Next]_vars => UsedInv'
<1> SUFFICES ASSUME UsedInv, [Next]_vars PROVE UsedInv'
  OBVIOUS
<1>0. SerialInv'
  BY SerialInvNext DEF UsedInv
<1>1. ASSUME NEW c \in Actors, Proceed(c) PROVE UsedInv'
  BY <1>0, <1>1, UsedApplyCount, UsedApplyCreate, UsedLock, UsedRead, UsedWrite,
     UsedCommitRequest, UsedCommitAccrual DEF Proceed
<1>2. ASSUME NEW c \in Actors, Abort(c) PROVE UsedInv'
  BY <1>0, <1>2, UsedEnd, SameUse DEF Abort, InFlight, Busy, store, world
<1>3. ASSUME NEW c \in Calls, NEW r \in Requests, ApplyCheck(c, r) PROVE UsedInv'
  BY <1>0, <1>3, UsedApplyCheck
<1>4. ASSUME NEW c \in Calls, NEW r \in Requests,
             ApproveCheck(c, r) \/ RejectCheck(c, r) \/ CancelCheck(c, r)
      PROVE  UsedInv'
  BY <1>0, <1>4, UsedReview DEF ApproveCheck, RejectCheck, CancelCheck
<1>5. ASSUME NEW c \in Crons, AccrualStart(c) PROVE UsedInv'
  BY <1>0, <1>5, UsedAccrualStart
<1>6. ASSUME UNCHANGED <<bal, status, taken, moved, call>> PROVE UsedInv'
  BY <1>0, <1>6, SameUse DEF UsedInv
<1>7. CASE NextMonth
  BY <1>6, <1>7 DEF NextMonth, store
<1>8. ASSUME NEW r \in Requests, AddHoliday(r) PROVE UsedInv'
  BY <1>8 DEF AddHoliday
<1>9. CASE UNCHANGED vars
  BY <1>6, <1>9 DEF vars, store, world
<1> QED
  BY <1>1, <1>2, <1>3, <1>4, <1>5, <1>7, <1>8, <1>9 DEF Next

\* When no two calls overlap and no holiday is added under a request, the days used are
\* those of the approved requests: what approving took, cancelling gave back.
THEOREM UsedStaysApproved ==
  ASSUME SerialCalls, ~HolidayEdits, IsFiniteSet(Requests), AppliedFit
  PROVE  Spec => []UsedMatchesApproved
<1>1. UsedInv => UsedMatchesApproved
  <2> SUFFICES ASSUME UsedInv, NEW e \in Employees, NEW y \in Years
               PROVE  bal[<<e, y>>].used = ApprovedDays(e, y)
    BY DEF UsedMatchesApproved
  <2>1. <<e, y>> \in Rows
    BY DEF Rows
  <2>2. Taken(status, taken, <<e, y>>) = ApprovedDays(e, y)
    BY DEF Taken, ApprovedOf, ApprovedDays
  <2> QED
    BY <2>1, <2>2 DEF UsedInv, UsedSums
<1> QED
  BY <1>1, UsedInvInit, UsedInvNext, PTL DEF Spec

===============================================================================
