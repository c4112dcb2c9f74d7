---------------------------- MODULE FiguresProofs -----------------------------
(* Proofs about the parts of People that compute: sums over finite sets, then  *)
(* an inductive invariant for equity grants, compensation cycles, departments *)
(* and payslips.                                                              *)
EXTENDS People, Functions, FiniteSetTheorems, WellFoundedInduction, TLAPS

-------------------------------------------------------------------------------
(* Sums over finite sets                                                      *)

\* Induction over the subsets of a finite set, for a property given as the family
\* of the subsets that have it.
LEMMA SubsetInduction ==
  ASSUME NEW S, IsFiniteSet(S), NEW Good,
         {} \in Good,
         \A s \in SUBSET S : s # {} /\ (\A x \in s : s \ {x} \in Good) => s \in Good
  PROVE  S \in Good
<1> DEFINE Bad == {s \in SUBSET S : s \notin Good}
           Sizes == {Cardinality(s) : s \in Bad}
<1>1. SUFFICES ASSUME Bad # {} PROVE FALSE
  OBVIOUS
<1>2. \A s \in SUBSET S : IsFiniteSet(s) /\ Cardinality(s) \in Nat
  BY FS_Subset, FS_CardinalityType
<1>3. PICK n \in Sizes : \A m \in Sizes : ~(<<m, n>> \in OpToRel(<, Nat))
  <2>1. Sizes \subseteq Nat /\ Sizes # {}
    BY <1>1, <1>2
  <2> HIDE DEF Sizes
  <2> QED
    BY <2>1, WFMin, NatLessThanWellFounded
<1>4. PICK s \in Bad : Cardinality(s) = n
  BY <1>3
<1>5. SUFFICES ASSUME NEW x \in s PROVE s \ {x} \in Good
  BY <1>4
<1>6. s \ {x} \in SUBSET S /\ Cardinality(s \ {x}) = Cardinality(s) - 1
  BY <1>2, <1>4, <1>5, FS_RemoveElement
<1>7. n - 1 \in Nat /\ n - 1 < n
  BY <1>2, <1>4, <1>5, <1>6
<1>8. n - 1 \notin Sizes
  <2>1. <<n - 1, n>> \in OpToRel(<, Nat)
    <3>1. n \in Nat
      BY <1>2, <1>4
    <3> QED
      BY <1>7, <3>1, Zenon DEF OpToRel
  <2> HIDE DEF Sizes
  <2> QED
    BY <1>3, <2>1
<1> QED
  BY <1>4, <1>6, <1>8

-------------------------------------------------------------------------------
(* A sum of naturals is a number of tokens: f[x] of them for each x.          *)

Tokens(f, S) == UNION {{x} \X (1..f[x]) : x \in S}

\* The tokens of one member are as many as its value.
LEMMA TokensOfOne ==
  ASSUME NEW n \in Nat, NEW x
  PROVE  IsFiniteSet({x} \X (1..n)) /\ Cardinality({x} \X (1..n)) = n
<1>1. IsFiniteSet(1..n) /\ Cardinality(1..n) = n
  BY FS_Interval
<1>2. IsFiniteSet({x}) /\ Cardinality({x}) = 1
  BY FS_Singleton
<1> QED
  BY <1>1, <1>2, FS_Product

\* One more member brings its own tokens, which nothing else has.
TokensAdded(f, S, x) == /\ IsFiniteSet(Tokens(f, S))
                        /\ Cardinality(Tokens(f, S)) = f[x] + Cardinality(Tokens(f, S \ {x}))

LEMMA TokensWith ==
  ASSUME NEW f, NEW S, NEW x \in S, f[x] \in Nat, IsFiniteSet(Tokens(f, S \ {x}))
  PROVE  TokensAdded(f, S, x)
<1>1. Tokens(f, S) = ({x} \X (1..f[x])) \cup Tokens(f, S \ {x})
  BY DEF Tokens
<1>2. ({x} \X (1..f[x])) \cap Tokens(f, S \ {x}) = {}
  BY DEF Tokens
<1>3. IsFiniteSet({x} \X (1..f[x])) /\ Cardinality({x} \X (1..f[x])) = f[x]
  BY TokensOfOne
<1>4. Cardinality(Tokens(f, S \ {x})) \in Nat
  BY FS_CardinalityType
<1> DEFINE A == {x} \X (1..f[x])
           B == Tokens(f, S \ {x})
<1> HIDE DEF A, B
<1>5. IsFiniteSet(A \cup B) /\ Cardinality(A \cup B) = Cardinality(A) + Cardinality(B) - Cardinality(A \cap B)
  <2>1. IsFiniteSet(A) /\ IsFiniteSet(B)
    BY <1>3 DEF A, B
  <2> QED
    BY <2>1, FS_Union
<1>6. Cardinality(A \cap B) = 0
  BY <1>2, FS_EmptySet DEF A, B
<1> QED
  BY <1>1, <1>3, <1>4, <1>5, <1>6 DEF A, B, TokensAdded

\* There are finitely many tokens.
LEMMA TokensFinite ==
  ASSUME NEW f, NEW S, IsFiniteSet(S), \A x \in S : f[x] \in Nat
  PROVE  IsFiniteSet(Tokens(f, S)) /\ Cardinality(Tokens(f, S)) \in Nat
<1> DEFINE Good == {s \in SUBSET S : IsFiniteSet(Tokens(f, s))}
<1>1. {} \in Good
  <2>1. Tokens(f, {}) = {}
    BY DEF Tokens
  <2> QED
    BY <2>1, FS_EmptySet
<1>2. ASSUME NEW s \in SUBSET S, s # {}, \A x \in s : s \ {x} \in Good
      PROVE  s \in Good
  <2>1. PICK x \in s : TRUE
    BY <1>2
  <2>2. s \ {x} \in Good
    BY <1>2, <2>1
  <2>3. IsFiniteSet(Tokens(f, s \ {x})) /\ f[x] \in Nat
    BY <2>1, <2>2
  <2>4. TokensAdded(f, s, x)
    BY <2>1, <2>3, TokensWith, Zenon
  <2> QED
    BY <2>4 DEF TokensAdded
<1> HIDE DEF Good
<1>3. S \in Good
  BY <1>1, <1>2, SubsetInduction
<1> QED
  BY <1>3, FS_CardinalityType DEF Good

\* The fold of the community modules counts the tokens.
LEMMA SumIsCount ==
  ASSUME NEW f, NEW S, IsFiniteSet(S), \A x \in S : f[x] \in Nat
  PROVE  SumFunctionOnSet(f, S) = Cardinality(Tokens(f, S))
<1> DEFINE Pick(s) == CHOOSE x \in s : TRUE
           Sums(h) == h = [s \in SUBSET S |-> IF s = {} THEN 0 ELSE f[Pick(s)] + h[s \ {Pick(s)}]]
           count == [s \in SUBSET S |-> Cardinality(Tokens(f, s))]
           iter == CHOOSE h : Sums(h)
           Good == {s \in SUBSET S : iter[s] = count[s]}
<1>1. \A s \in SUBSET S : s # {} => Pick(s) \in s
  OBVIOUS
<1>2. \A s \in SUBSET S : IsFiniteSet(s) /\ IsFiniteSet(Tokens(f, s))
  BY FS_Subset, TokensFinite
<1>3. \A s \in SUBSET S : \A x \in s : 
         Cardinality(Tokens(f, s)) = f[x] + Cardinality(Tokens(f, s \ {x}))
  <2> SUFFICES ASSUME NEW s \in SUBSET S, NEW x \in s
               PROVE  Cardinality(Tokens(f, s)) = f[x] + Cardinality(Tokens(f, s \ {x}))
    OBVIOUS
  <2>1. IsFiniteSet(Tokens(f, s \ {x})) /\ f[x] \in Nat
    BY <1>2
  <2>2. TokensAdded(f, s, x)
    BY <2>1, TokensWith, Zenon
  <2> QED
    BY <2>2 DEF TokensAdded
<1>4. Cardinality(Tokens(f, {})) = 0
  <2>1. Tokens(f, {}) = {}
    BY DEF Tokens
  <2> QED
    BY <2>1, FS_EmptySet
<1>5. Sums(count)
  <2>1. ASSUME NEW s \in SUBSET S
        PROVE  count[s] = IF s = {} THEN 0 ELSE f[Pick(s)] + count[s \ {Pick(s)}]
    BY <1>1, <1>3, <1>4
  <2> QED
    BY <2>1
<1>6. Sums(iter)
  BY <1>5
<1>7. SumFunctionOnSet(f, S) = iter[S]
  BY DEF SumFunctionOnSet, FoldFunctionOnSet, MapThenFoldSet
<1> HIDE DEF iter
<1>8. {} \in Good
  BY <1>4, <1>6
<1>9. ASSUME NEW s \in SUBSET S, s # {}, \A x \in s : s \ {x} \in Good
      PROVE  s \in Good
  <2>1. s \ {Pick(s)} \in Good /\ Pick(s) \in s
    BY <1>1, <1>9
  <2>2. iter[s] = f[Pick(s)] + iter[s \ {Pick(s)}]
    BY <1>6, <1>9
  <2>3. count[s] = f[Pick(s)] + count[s \ {Pick(s)}]
    BY <1>3, <2>1
  <2> QED
    BY <2>1, <2>2, <2>3
<1> HIDE DEF Good
<1>10. S \in Good
  BY <1>8, <1>9, SubsetInduction
<1> QED
  BY <1>7, <1>10 DEF Good

\* The sum of nothing is 0, and of one more member what it adds.
LEMMA SumOfNone == ASSUME NEW f PROVE SumFunctionOnSet(f, {}) = 0
<1>1. SumFunctionOnSet(f, {}) = Cardinality(Tokens(f, {}))
  BY SumIsCount, FS_EmptySet
<1>2. Tokens(f, {}) = {}
  BY DEF Tokens
<1> QED
  BY <1>1, <1>2, FS_EmptySet

\* The sum over a set with one member more.
LEMMA SumWith ==
  ASSUME NEW f, NEW S, IsFiniteSet(S), \A x \in S : f[x] \in Nat, NEW x \in S
  PROVE  /\ SumFunctionOnSet(f, S) = f[x] + SumFunctionOnSet(f, S \ {x})
         /\ SumFunctionOnSet(f, S \ {x}) \in Nat
<1>1. IsFiniteSet(S \ {x})
  BY FS_RemoveElement
<1>2. SumFunctionOnSet(f, S) = Cardinality(Tokens(f, S))
  BY SumIsCount
<1>3. SumFunctionOnSet(f, S \ {x}) = Cardinality(Tokens(f, S \ {x}))
  BY <1>1, SumIsCount
<1>4. IsFiniteSet(Tokens(f, S \ {x})) /\ Cardinality(Tokens(f, S \ {x})) \in Nat
  BY <1>1, TokensFinite
<1>5. TokensAdded(f, S, x)
  BY <1>4, TokensWith, Zenon
<1> QED
  BY <1>2, <1>3, <1>4, <1>5 DEF TokensAdded

\* The sum depends only on what the function is at the members.
LEMMA SumAgrees ==
  ASSUME NEW f, NEW g, NEW S, IsFiniteSet(S), \A x \in S : f[x] \in Nat /\ g[x] = f[x]
  PROVE  SumFunctionOnSet(g, S) = SumFunctionOnSet(f, S)
<1>1. Tokens(g, S) = Tokens(f, S)
  BY DEF Tokens
<1>2. SumFunctionOnSet(f, S) = Cardinality(Tokens(f, S))
  BY SumIsCount
<1>3. SumFunctionOnSet(g, S) = Cardinality(Tokens(g, S))
  BY SumIsCount
<1> QED
  BY <1>1, <1>2, <1>3

-------------------------------------------------------------------------------
(* Equity grants                                                              *)

\* Some natural number is the least that is not in a set.
LEMMA NatFamily ==
  ASSUME NEW G, 0 \in G, \A n \in Nat : n \in G => n + 1 \in G
  PROVE  \A n \in Nat : n \in G
<1> DEFINE Bad == {n \in Nat : n \notin G}
<1>1. SUFFICES ASSUME Bad # {} PROVE FALSE
  OBVIOUS
<1>2. PICK n \in Bad : \A m \in Bad : ~(<<m, n>> \in OpToRel(<, Nat))
  <2>1. Bad \subseteq Nat
    OBVIOUS
  <2> HIDE DEF Bad
  <2> QED
    BY <1>1, <2>1, WFMin, NatLessThanWellFounded
<1>3. n \in Nat /\ n # 0 /\ n \notin G
  OBVIOUS
<1>4. n - 1 \in Nat /\ n - 1 < n /\ n - 1 \notin G
  BY <1>3
<1>5. <<n - 1, n>> \in OpToRel(<, Nat)
  BY <1>3, <1>4, Zenon DEF OpToRel
<1> QED
  BY <1>2, <1>4, <1>5

\* Of finitely many plans one is the longest.
LEMMA LongestPlan ==
  ASSUME NEW S, IsFiniteSet(S), \A p \in S : p.periods \in Nat, S # {}
  PROVE  \E m \in S : \A n \in S : m.periods >= n.periods
<1> DEFINE Good == {s \in SUBSET S : s = {} \/ \E m \in s : \A n \in s : m.periods >= n.periods}
<1>1. ASSUME NEW s \in SUBSET S, s # {}, \A x \in s : s \ {x} \in Good
      PROVE  s \in Good
  <2>1. PICK x \in s : x.periods \in Nat
    BY <1>1
  <2>2. CASE s \ {x} = {}
    BY <2>1, <2>2
  <2>3. CASE s \ {x} # {}
    <3>1. PICK m \in s \ {x} : \A n \in s \ {x} : m.periods >= n.periods
      BY <1>1, <2>1, <2>3
    <3>2. m.periods \in Nat /\ \A n \in s : n.periods \in Nat
      BY <3>1
    <3>3. CASE m.periods >= x.periods
      BY <3>1, <3>2, <3>3
    <3>4. CASE ~(m.periods >= x.periods)
      <4>1. \A n \in s : x.periods >= n.periods
        BY <2>1, <3>1, <3>2, <3>4
      <4> QED
        BY <2>1, <4>1
    <3> QED
      BY <3>3, <3>4
  <2> QED
    BY <2>2, <2>3
<1>2. {} \in Good
  OBVIOUS
<1> HIDE DEF Good
<1>3. S \in Good
  BY <1>1, <1>2, SubsetInduction
<1> QED
  BY <1>3 DEF Good

\* A part of a set has no greater sum.
LEMMA SumMonotone ==
  ASSUME NEW f, NEW S, IsFiniteSet(S), \A x \in S : f[x] \in Nat, NEW T \in SUBSET S
  PROVE  SumFunctionOnSet(f, T) <= SumFunctionOnSet(f, S)
<1>1. IsFiniteSet(T)
  BY FS_Subset
<1>2. SumFunctionOnSet(f, S) = Cardinality(Tokens(f, S)) /\ IsFiniteSet(Tokens(f, S))
  BY SumIsCount, TokensFinite
<1>3. SumFunctionOnSet(f, T) = Cardinality(Tokens(f, T))
  BY <1>1, SumIsCount
<1>4. Tokens(f, T) \subseteq Tokens(f, S)
  BY DEF Tokens
<1> QED
  BY <1>2, <1>3, <1>4, FS_Subset

\* A sum of zeros is zero.
LEMMA SumOfZeros ==
  ASSUME NEW f, NEW S, IsFiniteSet(S), \A x \in S : f[x] = 0
  PROVE  SumFunctionOnSet(f, S) = 0
<1>1. SumFunctionOnSet(f, S) = Cardinality(Tokens(f, S))
  BY SumIsCount
<1>2. Tokens(f, S) = {}
  BY DEF Tokens
<1> QED
  BY <1>1, <1>2, FS_EmptySet

-------------------------------------------------------------------------------
\* The events processed, and the units of every event.
VestDone == {p \in Vest!Periods : vesting[p].status = "PROCESSED"}
VestUnits == [p \in Vest!Periods |-> vesting[p].units]

\* The events have the units that their plan says.  Neither the grant nor a run counts
\* more units than those of the events processed, without those still to come to it,
\* and a fully vested grant has them all.
VestFollows ==
  /\ SumFunctionOnSet(VestUnits, Vest!Periods) =
       IF grant.plan.cliff <= grant.plan.periods THEN grant.plan.units ELSE 0
  /\ grant.vested <= SumFunctionOnSet(VestUnits, VestDone)
  /\ grant.status = "FULLY_VESTED" =>
       SumFunctionOnSet(VestUnits, VestDone) = grant.plan.units
  /\ \A c \in Calls : run[c] # Vest!NoRun =>
       run[c].read <= SumFunctionOnSet(VestUnits, VestDone \ run[c].left)

\* One run at a time, of one event, counts on from what the grant still counts.
VestAlone ==
  /\ \A c, d \in Calls : run[c] # Vest!NoRun /\ run[d] # Vest!NoRun => c = d
  /\ \A c \in Calls : run[c] # Vest!NoRun =>
       /\ run[c].read = grant.vested
       /\ \E p \in Vest!Periods : run[c].left = {p} /\ p \notin VestDone
  /\ grant.vested = SumFunctionOnSet(VestUnits, VestDone)
  /\ VestDone # {} /\ SumFunctionOnSet(VestUnits, VestDone) = grant.plan.units =>
       grant.status # "ACTIVE"

\* The vesting of a grant: the inductive invariant.
VestInv == Vest!TypeOK /\ VestFollows /\ (~bunched /\ ~overlap => VestAlone)

VestEvent == [units : Nat, status : {"none", "PENDING", "PROCESSED", "SKIPPED"}]

LEMMA VestIdle ==
  /\ Vest!NoRun.left = {} /\ Vest!NoRun.read = 0
  /\ Vest!NoEvent.status = "none" /\ Vest!NoEvent.units = 0 /\ Vest!NoEvent \in VestEvent
BY DEF Vest!NoRun, Vest!NoEvent, VestEvent

\* The periods are those of the longest plan.
LEMMA VestPeriods ==
  ASSUME NEW plan \in Plans
  PROVE  /\ Vest!MaxPeriod \in Nat /\ Vest!Periods = 1..Vest!MaxPeriod
         /\ IsFiniteSet(Vest!Periods)
         /\ plan.units \in Nat /\ plan.cliff \in Nat /\ plan.periods \in Nat
         /\ 1 <= plan.periods /\ plan.periods <= Vest!MaxPeriod
<1> DEFINE S == {p.periods : p \in Plans}
<1>1. /\ IsFiniteSet(Plans)
      /\ \A p \in Plans : p.units \in Nat /\ p.cliff \in Nat /\ p.periods \in Nat /\ 1 <= p.periods
  <2>1. IsFiniteSet(Plans) /\ Plans \subseteq [units : Nat, cliff : Nat, periods : Nat \ {0}]
    BY PeopleAssumption, Zenon DEF PeopleAssumption
  <2> QED
    BY <2>1
<1>2. S \subseteq Nat /\ plan.periods \in S
  BY <1>1
<1>3. \E m \in S : \A n \in S : m >= n
  <2>1. PICK m \in Plans : \A n \in Plans : m.periods >= n.periods
    BY <1>1, LongestPlan
  <2> QED
    BY <2>1, Zenon
<1> HIDE DEF S
<1>4. Vest!Max(S) \in S /\ \A n \in S : Vest!Max(S) >= n
  BY <1>3, Zenon DEF Vest!Max
<1>5. Vest!MaxPeriod = Vest!Max(S)
  BY DEF Vest!MaxPeriod, S
<1>6. Vest!MaxPeriod \in Nat /\ plan.periods <= Vest!MaxPeriod
  BY <1>2, <1>4, <1>5
<1> QED
  BY <1>1, <1>6, FS_Interval DEF Vest!Periods

\* The sum that Equity takes is the one of the lemmas above.
LEMMA VestSum == ASSUME NEW f, NEW S PROVE Vest!SumFunctionOnSet(f, S) = SumFunctionOnSet(f, S)
BY DEF Vest!SumFunctionOnSet, Vest!FoldFunctionOnSet, Vest!MapThenFoldSet,
       SumFunctionOnSet, FoldFunctionOnSet, MapThenFoldSet

LEMMA Division ==
  ASSUME NEW a \in Int, NEW b \in Int, b > 0,
         NEW q \in Int, q = a \div b, NEW r \in Int, r = a % b
  PROVE  a = b * q + r
BY SMT

LEMMA Product == ASSUME NEW a \in Nat, NEW b \in Nat PROVE a * b \in Nat
OBVIOUS

\* What computeVestingSchedule gives each period.
LEMMA ScheduleRow ==
  ASSUME NEW plan \in Plans, NEW p \in Vest!Periods,
         NEW per, per = plan.units \div plan.periods,
         NEW rest, rest = plan.units % plan.periods,
         NEW first, first = IF plan.cliff = 0 THEN 1 ELSE plan.cliff
  PROVE  /\ per \in Nat /\ rest \in Nat
         /\ Vest!Schedule(plan)[p] \in VestEvent
         /\ Vest!Schedule(plan)[p].status \in {"none", "PENDING"}
         /\ Vest!Schedule(plan)[p].status = "PENDING" =>
              /\ first <= p /\ plan.cliff <= plan.periods
              /\ Vest!Schedule(plan)[p].units = 0 => p = first
         /\ Vest!Schedule(plan)[p].units =
              IF p < first \/ p > plan.periods THEN 0
              ELSE (IF p = first THEN per * p ELSE per) + IF p = plan.periods THEN rest ELSE 0
<1>1. /\ plan.units \in Nat /\ plan.cliff \in Nat /\ plan.periods \in Nat /\ 1 <= plan.periods
      /\ p \in Nat /\ 1 <= p
  BY VestPeriods
<1>2. per \in Nat /\ rest \in Nat
  BY <1>1
<1>3. first \in Nat /\ Vest!Max({1, plan.cliff}) = first
  <2>1. first \in Nat /\ first \in {1, plan.cliff} /\ \A y \in {1, plan.cliff} : first >= y
    BY <1>1
  <2>2. \A x \in {1, plan.cliff} : (\A y \in {1, plan.cliff} : x >= y) => x = first
    BY <1>1
  <2> QED
    BY <2>1, <2>2 DEF Vest!Max
<1> DEFINE due == per + IF p = plan.periods THEN rest ELSE 0
           at  == IF p < plan.cliff THEN 0
                  ELSE IF p = first THEN per * (p - 1) + due ELSE due
<1>4. Vest!Schedule(plan)[p] =
        IF p > plan.periods \/ p < plan.cliff \/ ~(p = first \/ at > 0) THEN Vest!NoEvent
        ELSE [units |-> at, status |-> "PENDING"]
  BY <1>3 DEF Vest!Schedule
<1>5. per * (p - 1) \in Nat /\ per * (p - 1) + per = per * p /\ per * p \in Nat
  <2>1. p - 1 \in Nat
    BY <1>1
  <2>2. per * (p - 1) \in Nat /\ per * p \in Nat
    BY <1>1, <1>2, <2>1, Product
  <2>3. per * (p - 1) + per = per * p
    BY <1>1, <1>2
  <2> QED
    BY <2>2, <2>3
<1> DEFINE q == per * (p - 1)
           r == per * p
<1>6. q \in Nat /\ r \in Nat /\ q + per = r
  BY <1>5
<1> HIDE DEF q, r
<1>7. at = IF p < plan.cliff THEN 0
           ELSE (IF p = first THEN r ELSE per) + IF p = plan.periods THEN rest ELSE 0
  <2>1. at = IF p < plan.cliff THEN 0 ELSE IF p = first THEN q + due ELSE due
    BY DEF q
  <2> QED
    BY <1>2, <1>6, <2>1
<1>8. at \in Nat
  BY <1>2, <1>6, <1>7
<1>9. p < first <=> p < plan.cliff
  BY <1>1
<1> HIDE DEF at
<1>10. r = per * p
  BY DEF r
<1>11. Vest!Schedule(plan)[p] \in VestEvent /\ Vest!Schedule(plan)[p].status \in {"none", "PENDING"}
  BY <1>4, <1>8, VestIdle DEF VestEvent
<1>12. Vest!Schedule(plan)[p].status = "PENDING" =>
         /\ ~(p > plan.periods) /\ ~(p < plan.cliff) /\ (p = first \/ at > 0)
         /\ Vest!Schedule(plan)[p].units = at
  BY <1>4, VestIdle
<1>13. Vest!Schedule(plan)[p].units = IF p < first \/ p > plan.periods THEN 0 ELSE at
  BY <1>1, <1>3, <1>4, <1>8, <1>9, VestIdle
<1>14. Vest!Schedule(plan)[p].status = "PENDING" =>
         /\ first <= p /\ plan.cliff <= plan.periods
         /\ Vest!Schedule(plan)[p].units = 0 => p = first
  BY <1>1, <1>3, <1>8, <1>9, <1>12
<1>15. Vest!Schedule(plan)[p].units =
         IF p < first \/ p > plan.periods THEN 0
         ELSE (IF p = first THEN r ELSE per) + IF p = plan.periods THEN rest ELSE 0
  BY <1>7, <1>9, <1>13
<1> QED
  BY <1>2, <1>10, <1>11, <1>14, <1>15

\* One more period, x and y being the parts that have vested before and after it.
LEMMA ScheduleStep ==
  ASSUME NEW n \in Nat, NEW u \in Nat, NEW d \in Nat, NEW first \in Nat, NEW per \in Nat,
         NEW rest \in Nat, NEW a \in Nat, NEW b \in Nat,
         b = a + per, n + 1 = d => b + rest = u, 1 <= first, first <= d,
         NEW x, x = IF n < first THEN 0 ELSE IF n < d THEN a ELSE u,
         NEW y, y = IF n + 1 < first THEN 0 ELSE IF n + 1 < d THEN b ELSE u,
         NEW z, z = IF n + 1 < first \/ n + 1 > d THEN 0
                    ELSE (IF n + 1 = first THEN b ELSE per) + IF n + 1 = d THEN rest ELSE 0
  PROVE  y = z + x
OBVIOUS

\* With its cliff beyond its end, a schedule has none.
LEMMA ScheduleNone ==
  ASSUME NEW plan \in Plans, ~(plan.cliff <= plan.periods),
         NEW f, f = [p \in Vest!Periods |-> Vest!Schedule(plan)[p].units]
  PROVE  SumFunctionOnSet(f, Vest!Periods) = 0
<1>1. /\ plan.cliff \in Nat /\ plan.periods \in Nat /\ 1 <= plan.periods
      /\ Vest!Periods = 1..Vest!MaxPeriod /\ Vest!MaxPeriod \in Nat /\ IsFiniteSet(Vest!Periods)
  BY VestPeriods
<1>2. ASSUME NEW p \in Vest!Periods PROVE f[p] = 0
  <2> DEFINE first == IF plan.cliff = 0 THEN 1 ELSE plan.cliff
             at == Vest!Schedule(plan)[p].units
             per == plan.units \div plan.periods
             rest == plan.units % plan.periods
  <2>1. at = IF p < first \/ p > plan.periods THEN 0
             ELSE (IF p = first THEN per * p ELSE per) + IF p = plan.periods THEN rest ELSE 0
    <3> HIDE DEF first, per, rest
    <3> QED
      BY ScheduleRow DEF first, per, rest
  <2>2. p \in Int /\ (p < first \/ p > plan.periods)
    BY <1>1
  <2> HIDE DEF first, per, rest
  <2>3. at = 0
    BY <2>1, <2>2
  <2> QED
    BY <2>3
<1> QED
  BY <1>1, <1>2, SumOfZeros

\* All events of a schedule together have the units of the grant.
LEMMA ScheduleSum ==
  ASSUME NEW plan \in Plans, plan.cliff <= plan.periods,
         NEW f, f = [p \in Vest!Periods |-> Vest!Schedule(plan)[p].units]
  PROVE  SumFunctionOnSet(f, Vest!Periods) = plan.units
<1> DEFINE per   == plan.units \div plan.periods
           rest  == plan.units % plan.periods
           first == IF plan.cliff = 0 THEN 1 ELSE plan.cliff
           part(j) == IF j < first THEN 0 ELSE IF j < plan.periods THEN per * j ELSE plan.units
           Good  == {j \in Nat : j <= Vest!MaxPeriod => SumFunctionOnSet(f, 1..j) = part(j)}
<1>1. /\ plan.units \in Nat /\ plan.cliff \in Nat /\ plan.periods \in Nat /\ 1 <= plan.periods
      /\ plan.periods <= Vest!MaxPeriod /\ Vest!MaxPeriod \in Nat
      /\ Vest!Periods = 1..Vest!MaxPeriod
  BY VestPeriods
<1>2. per \in Nat /\ rest \in Nat /\ plan.periods * per + rest = plan.units
  <2>1. per \in Nat /\ rest \in Nat
    BY <1>1
  <2>2. plan.units \in Int /\ plan.periods \in Int /\ plan.periods > 0 /\ per \in Int /\ rest \in Int
    BY <1>1, <2>1
  <2> DEFINE a == plan.units
             b == plan.periods
  <2>3. a \in Int /\ b \in Int /\ b > 0
    BY <2>2
  <2>4. per = a \div b /\ rest = a % b
    OBVIOUS
  <2> HIDE DEF per, rest, a, b
  <2>5. a = b * per + rest
    BY <2>2, <2>3, <2>4, Division
  <2> QED
    BY <2>1, <2>5 DEF a, b
<1>3. first \in Nat /\ 1 <= first /\ first <= plan.periods
  BY <1>1
<1>4. \A p \in Vest!Periods :
        /\ f[p] \in Nat
        /\ f[p] = IF p < first \/ p > plan.periods THEN 0
                  ELSE (IF p = first THEN per * p ELSE per) + IF p = plan.periods THEN rest ELSE 0
  <2> SUFFICES ASSUME NEW p \in Vest!Periods
               PROVE  /\ f[p] \in Nat
                      /\ f[p] = IF p < first \/ p > plan.periods THEN 0
                                ELSE (IF p = first THEN per * p ELSE per)
                                     + IF p = plan.periods THEN rest ELSE 0
    OBVIOUS
  <2> HIDE DEF per, rest, first
  <2>1. f[p] = Vest!Schedule(plan)[p].units
    OBVIOUS
  <2>2. Vest!Schedule(plan)[p] \in VestEvent
    BY ScheduleRow
  <2> QED
    BY <2>1, <2>2, ScheduleRow DEF VestEvent, per, rest, first
<1> HIDE DEF per, rest, first
<1>5. 0 \in Good
  <2>1. 1..0 = {}
    OBVIOUS
  <2> QED
    BY <1>3, <2>1, SumOfNone
<1>6. ASSUME NEW n \in Nat, n \in Good PROVE n + 1 \in Good
  <2> SUFFICES ASSUME n + 1 <= Vest!MaxPeriod PROVE SumFunctionOnSet(f, 1..(n + 1)) = part(n + 1)
    OBVIOUS
  <2>1. SumFunctionOnSet(f, 1..n) = part(n)
    BY <1>1, <1>6
  <2>2. SumFunctionOnSet(f, 1..(n + 1)) = f[n + 1] + SumFunctionOnSet(f, 1..n)
    <3>1. (1..(n + 1)) \ {n + 1} = 1..n /\ n + 1 \in 1..(n + 1)
      OBVIOUS
    <3>2. IsFiniteSet(1..(n + 1))
      BY FS_Interval
    <3>3. \A x \in 1..(n + 1) : f[x] \in Nat
      BY <1>1, <1>4
    <3> DEFINE U == 1..(n + 1)
               T == 1..n
               m == n + 1
    <3>4. IsFiniteSet(U) /\ m \in U /\ U \ {m} = T /\ \A x \in U : f[x] \in Nat
      BY <3>1, <3>2, <3>3
    <3> HIDE DEF U, T, m
    <3>5. SumFunctionOnSet(f, U) = f[m] + SumFunctionOnSet(f, T)
      BY <3>4, SumWith
    <3> QED
      BY <3>5 DEF U, T, m
  <2>3. f[n + 1] = IF n + 1 < first \/ n + 1 > plan.periods THEN 0
                   ELSE (IF n + 1 = first THEN per * (n + 1) ELSE per)
                        + IF n + 1 = plan.periods THEN rest ELSE 0
    BY <1>1, <1>4
  <2>4. per * (n + 1) = per * n + per /\ per * n \in Nat
    BY <1>2, Product
  <2>5. ASSUME n + 1 = plan.periods PROVE per * (n + 1) + rest = plan.units
    <3>1. per * (n + 1) = (n + 1) * per
      BY <1>2
    <3> QED
      BY <1>2, <2>5, <3>1
  <2> DEFINE a == per * n
             b == per * (n + 1)
  <2>6. a \in Nat /\ b \in Nat /\ b = a + per /\ (n + 1 = plan.periods => b + rest = plan.units)
    BY <1>2, <2>4, <2>5
  <2>7. /\ part(n) = IF n < first THEN 0 ELSE IF n < plan.periods THEN a ELSE plan.units
        /\ part(n + 1) = IF n + 1 < first THEN 0 ELSE IF n + 1 < plan.periods THEN b ELSE plan.units
        /\ f[n + 1] = IF n + 1 < first \/ n + 1 > plan.periods THEN 0
                      ELSE (IF n + 1 = first THEN b ELSE per)
                           + IF n + 1 = plan.periods THEN rest ELSE 0
    BY <2>3
  <2> HIDE DEF a, b, part
  <2>8. part(n + 1) = f[n + 1] + part(n)
    <3> DEFINE x == part(n)
               y == part(n + 1)
               z == f[n + 1]
               u == plan.units
               d == plan.periods
    <3>1. u \in Nat /\ d \in Nat /\ (n + 1 = d => b + rest = u) /\ first <= d
      BY <1>1, <1>3, <2>6
    <3>2. /\ x = IF n < first THEN 0 ELSE IF n < d THEN a ELSE u
          /\ y = IF n + 1 < first THEN 0 ELSE IF n + 1 < d THEN b ELSE u
          /\ z = IF n + 1 < first \/ n + 1 > d THEN 0
                 ELSE (IF n + 1 = first THEN b ELSE per) + IF n + 1 = d THEN rest ELSE 0
      BY <2>7
    <3> HIDE DEF x, y, z, u, d
    <3>3. y = z + x
      BY <1>2, <1>3, <2>6, <3>1, <3>2, ScheduleStep
    <3> QED
      BY <3>3 DEF x, y, z
  <2> QED
    BY <2>1, <2>2, <2>8
<1> HIDE DEF Good
<1>7. Vest!MaxPeriod \in Good
  BY <1>1, <1>5, <1>6, NatFamily
<1> QED
  BY <1>1, <1>3, <1>7 DEF Good

-------------------------------------------------------------------------------
\* The vesting of a grant: the invariant holds at the start.
LEMMA VestInit == Vest!Init => VestInv
<1> SUFFICES ASSUME Vest!Init PROVE VestInv
  OBVIOUS
<1> PICK plan \in Plans : Vest!createGrant(plan)
  BY DEF Vest!Init
<1> USE VestIdle DEF Vest!Init
<1>1. /\ grant.plan = plan /\ grant.vested = 0 /\ grant.status = "ACTIVE"
      /\ grant \in [plan : Plans, vested : Nat, status : {"ACTIVE", "FULLY_VESTED", "CANCELLED"}]
      /\ vesting = Vest!Schedule(plan)
  BY DEF Vest!createGrant
<1>2. DOMAIN vesting = Vest!Periods /\ vesting = [p \in Vest!Periods |-> vesting[p]]
  BY <1>1 DEF Vest!Schedule
<1>3. \A p \in Vest!Periods : vesting[p] \in VestEvent /\ vesting[p].status \in {"none", "PENDING"}
  BY <1>1, ScheduleRow
<1>4. Vest!TypeOK
  <2>1. vesting \in [Vest!Periods -> VestEvent]
    BY <1>2, <1>3
  <2>2. 0 \in 0..Vest!MaxPeriod
    BY VestPeriods
  <2> QED
    BY <1>1, <2>1, <2>2 DEF Vest!TypeOK, VestEvent, Vest!NoRun
<1>5. SumFunctionOnSet(VestUnits, Vest!Periods) =
        IF plan.cliff <= plan.periods THEN plan.units ELSE 0
  <2>1. VestUnits = [p \in Vest!Periods |-> Vest!Schedule(plan)[p].units]
    BY <1>1 DEF VestUnits
  <2> QED
    BY <2>1, ScheduleSum, ScheduleNone
<1>6. VestDone = {} /\ SumFunctionOnSet(VestUnits, VestDone) = 0
  <2>1. VestDone = {}
    BY <1>3 DEF VestDone
  <2> QED
    BY <2>1, SumOfNone
<1>7. VestFollows
  BY <1>1, <1>5, <1>6 DEF VestFollows
<1>8. VestAlone
  BY <1>1, <1>6 DEF VestAlone
<1> QED
  BY <1>4, <1>7, <1>8 DEF VestInv

\* What the events of a set of periods amount to.
LEMMA VestSums ==
  ASSUME Vest!TypeOK
  PROVE  /\ \A S \in SUBSET Vest!Periods : SumFunctionOnSet(VestUnits, S) \in Nat
         /\ \A S, T \in SUBSET Vest!Periods : S \subseteq T =>
              SumFunctionOnSet(VestUnits, S) <= SumFunctionOnSet(VestUnits, T)
         /\ \A S \in SUBSET Vest!Periods : \A p \in Vest!Periods \ S :
              SumFunctionOnSet(VestUnits, S \cup {p}) =
                vesting[p].units + SumFunctionOnSet(VestUnits, S)
<1>1. grant.plan \in Plans /\ \A q \in Vest!Periods : VestUnits[q] \in Nat /\ VestUnits[q] = vesting[q].units
  BY DEF Vest!TypeOK, VestUnits
<1>2. IsFiniteSet(Vest!Periods)
  BY <1>1, VestPeriods
<1>3. ASSUME NEW S \in SUBSET Vest!Periods PROVE SumFunctionOnSet(VestUnits, S) \in Nat
  <2>1. IsFiniteSet(S) /\ \A x \in S : VestUnits[x] \in Nat
    BY <1>1, <1>2, FS_Subset
  <2>2. IsFiniteSet(Tokens(VestUnits, S))
    BY <2>1, TokensFinite
  <2> QED
    BY <2>1, <2>2, SumIsCount, FS_CardinalityType
<1>4. ASSUME NEW S \in SUBSET Vest!Periods, NEW T \in SUBSET Vest!Periods, S \subseteq T
      PROVE  SumFunctionOnSet(VestUnits, S) <= SumFunctionOnSet(VestUnits, T)
  <2>1. IsFiniteSet(T) /\ \A x \in T : VestUnits[x] \in Nat
    BY <1>1, <1>2, FS_Subset
  <2> QED
    BY <1>4, <2>1, SumMonotone
<1>5. ASSUME NEW S \in SUBSET Vest!Periods, NEW p \in Vest!Periods \ S
      PROVE  SumFunctionOnSet(VestUnits, S \cup {p}) =
               vesting[p].units + SumFunctionOnSet(VestUnits, S)
  <2> DEFINE D == S \cup {p}
  <2>1. D \subseteq Vest!Periods /\ IsFiniteSet(D) /\ p \in D /\ D \ {p} = S
    BY <1>2, FS_Subset
  <2> HIDE DEF D
  <2>2. SumFunctionOnSet(VestUnits, D) = VestUnits[p] + SumFunctionOnSet(VestUnits, D \ {p})
    BY <1>1, <2>1, SumWith
  <2> QED
    BY <1>1, <2>1, <2>2 DEF D
<1> QED
  BY <1>3, <1>4, <1>5

\* Steps that process nothing and start no run.
LEMMA VestKeeps ==
  ASSUME VestInv, UNCHANGED <<grant, vesting, bunched, overlap>>, today' \in 0..Vest!MaxPeriod,
         run' \in [Calls -> [left : SUBSET Vest!Periods, read : Nat]],
         \A c \in Calls : run'[c] = run[c] \/ run'[c] = Vest!NoRun
  PROVE  VestInv'
<1> USE VestIdle DEF VestInv
<1>1. Vest!TypeOK'
  BY DEF Vest!TypeOK
<1>2. VestUnits' = VestUnits /\ VestDone' = VestDone
  BY DEF VestUnits, VestDone
<1>3. VestFollows'
  BY <1>2 DEF VestFollows
<1>4. ~bunched' /\ ~overlap' => VestAlone'
  BY <1>2 DEF VestAlone
<1> QED
  BY <1>1, <1>3, <1>4

\* The vesting of a grant: a run lists the events that are due.
LEMMA VestStarts == ASSUME VestInv, NEW c \in Calls, Vest!RunStarts(c) PROVE VestInv'
<1> DEFINE due == {p \in Vest!Pending : p <= today}
<1> USE VestIdle
<1>1. Vest!TypeOK /\ VestFollows /\ (~bunched /\ ~overlap => VestAlone) /\ grant.vested \in Nat
  BY DEF VestInv, Vest!TypeOK
<1>2. /\ run[c] = Vest!NoRun /\ due # {}
      /\ run' = [run EXCEPT ![c] = [left |-> due, read |-> grant.vested]]
      /\ bunched' = (bunched \/ Vest!Cardinality(due) > 1)
      /\ overlap' = (overlap \/ \E b \in Calls : run[b] # Vest!NoRun)
      /\ UNCHANGED <<grant, vesting, today>>
  BY DEF Vest!RunStarts
<1>3. due \subseteq Vest!Periods /\ VestDone \ due = VestDone
  BY DEF Vest!Pending, VestDone
<1>4. VestUnits' = VestUnits /\ VestDone' = VestDone
  BY <1>2 DEF VestUnits, VestDone
<1>5. /\ run' \in [Calls -> [left : SUBSET Vest!Periods, read : Nat]]
      /\ run'[c].left = due /\ run'[c].read = grant.vested
      /\ \A d \in Calls : d # c => run'[d] = run[d]
  <2> HIDE DEF due
  <2> QED
    BY <1>1, <1>2, <1>3 DEF Vest!TypeOK
<1>6. Vest!TypeOK'
  <2>1. bunched' \in BOOLEAN /\ overlap' \in BOOLEAN
    BY <1>1, <1>2, Zenon DEF Vest!TypeOK
  <2> QED
    BY <1>1, <1>2, <1>5, <2>1 DEF Vest!TypeOK
<1>7. VestFollows'
  <2>1. ASSUME NEW d \in Calls, run'[d] # Vest!NoRun
        PROVE  run'[d].read <= SumFunctionOnSet(VestUnits, VestDone \ run'[d].left)
    <3>1. CASE d = c
      BY <1>1, <1>3, <1>5, <3>1 DEF VestFollows
    <3>2. CASE d # c
      BY <1>1, <1>5, <2>1, <3>2 DEF VestFollows
    <3> QED
      BY <3>1, <3>2
  <2> QED
    BY <1>1, <1>2, <1>4, <2>1 DEF VestFollows
<1>8. ASSUME ~bunched', ~overlap' PROVE VestAlone'
  <2>1. VestAlone /\ \A d \in Calls : run[d] = Vest!NoRun
    BY <1>1, <1>2, <1>8
  <2>2. \E p \in Vest!Periods : due = {p} /\ p \notin VestDone
    <3>1. IsFiniteSet(due)
      <4>1. grant.plan \in Plans
        BY <1>1 DEF Vest!TypeOK
      <4> QED
        BY <1>3, <4>1, VestPeriods, FS_Subset
    <3>2. Vest!Cardinality(due) = Cardinality(due)
      BY DEF Vest!Cardinality, Cardinality
    <3> HIDE DEF due
    <3>3. Cardinality(due) \in Nat /\ Cardinality(due) # 0 /\ ~(Cardinality(due) > 1)
      BY <1>2, <1>8, <3>1, <3>2, FS_CardinalityType, FS_EmptySet
    <3>4. PICK p : due = {p}
      <4>1. Cardinality(due) = 1
        BY <3>3
      <4> QED
        BY <3>1, <4>1, FS_Singleton, Zenon
    <3> QED
      BY <1>3, <3>4
  <2>3. \A d \in Calls : run'[d] # Vest!NoRun => d = c
    BY <1>5, <2>1
  <2> HIDE DEF due
  <2>4. \A d \in Calls : run'[d] # Vest!NoRun =>
          /\ run'[d].read = grant.vested
          /\ \E p \in Vest!Periods : run'[d].left = {p} /\ p \notin VestDone
    BY <1>5, <2>2, <2>3
  <2> QED
    BY <1>2, <1>4, <2>1, <2>3, <2>4 DEF VestAlone
<1> QED
  BY <1>6, <1>7, <1>8 DEF VestInv

\* The vesting of a grant: an event is processed.
LEMMA VestProcesses ==
  ASSUME VestInv, NEW c \in Calls, NEW p \in Vest!Periods, Vest!ProcessEvent(c, p)
  PROVE  VestInv'
<1> USE VestIdle
<1> DEFINE vested == run[c].read + vesting[p].units
           more == VestDone \cup {p}
           seen == VestDone \ run[c].left
           Sum(S) == SumFunctionOnSet(VestUnits, S)
<1>1. /\ Vest!TypeOK /\ VestFollows /\ (~bunched /\ ~overlap => VestAlone)
      /\ run[c].read \in Nat /\ vesting[p].units \in Nat /\ vested \in Nat
      /\ grant.plan \in Plans /\ grant.plan.units \in Nat
  <2>1. /\ Vest!TypeOK /\ VestFollows /\ (~bunched /\ ~overlap => VestAlone)
    BY DEF VestInv
  <2>2. run[c].read \in Nat /\ vesting[p].units \in Nat /\ grant.plan \in Plans
    BY <2>1 DEF Vest!TypeOK
  <2> QED
    BY <2>1, <2>2, VestPeriods
<1> HIDE DEF vested
<1>2. /\ p \in run[c].left /\ run[c] # Vest!NoRun
      /\ run' = [run EXCEPT ![c] = IF run[c].left = {p} THEN Vest!NoRun
                                   ELSE [left |-> run[c].left \ {p}, read |-> run[c].read]]
      /\ vesting' = [vesting EXCEPT ![p].status = "PROCESSED"]
      /\ grant' = [grant EXCEPT !.vested = vested,
                                !.status = IF vested >= grant.plan.units THEN "FULLY_VESTED"
                                           ELSE grant.status]
      /\ UNCHANGED <<today, bunched, overlap>>
  <2>1. p \in run[c].left
    BY DEF Vest!ProcessEvent, Vest!Processed
  <2>2. run[c] # Vest!NoRun
    BY <2>1
  <2>3. run' = [run EXCEPT ![c] = IF run[c].left = {p} THEN Vest!NoRun
                                  ELSE [left |-> run[c].left \ {p}, read |-> run[c].read]]
    BY DEF Vest!ProcessEvent, Vest!Processed
  <2>4. /\ vesting' = [vesting EXCEPT ![p].status = "PROCESSED"]
        /\ UNCHANGED <<today, bunched, overlap>>
    BY DEF Vest!ProcessEvent, Vest!Processed
  <2>5. grant' = [grant EXCEPT !.vested = vested,
                               !.status = IF vested >= grant.plan.units THEN "FULLY_VESTED"
                                          ELSE grant.status]
    BY DEF Vest!ProcessEvent, vested
  <2> QED
    BY <2>1, <2>2, <2>3, <2>4, <2>5
<1>3. /\ vesting' \in [Vest!Periods -> VestEvent]
      /\ \A q \in Vest!Periods :
           /\ vesting'[q].units = vesting[q].units
           /\ vesting'[q].status = IF q = p THEN "PROCESSED" ELSE vesting[q].status
  BY <1>1, <1>2 DEF Vest!TypeOK, VestEvent
<1>4. /\ grant'.plan = grant.plan /\ grant'.vested = vested
      /\ grant'.status = IF vested >= grant.plan.units THEN "FULLY_VESTED" ELSE grant.status
      /\ grant' \in [plan : Plans, vested : Nat, status : {"ACTIVE", "FULLY_VESTED", "CANCELLED"}]
  BY <1>1, <1>2 DEF Vest!TypeOK
<1>5. VestUnits' = VestUnits /\ VestDone' = more
  BY <1>3 DEF VestUnits, VestDone
<1>6. /\ run' \in [Calls -> [left : SUBSET Vest!Periods, read : Nat]]
      /\ \A d \in Calls : d # c => run'[d] = run[d]
      /\ run'[c] # Vest!NoRun => run'[c].left = run[c].left \ {p} /\ run'[c].read = run[c].read
      /\ run[c].left = {p} => run'[c] = Vest!NoRun
  <2>1. Vest!NoRun \in [left : SUBSET Vest!Periods, read : Nat]
    BY DEF Vest!NoRun
  <2>2. run[c] \in [left : SUBSET Vest!Periods, read : Nat]
    BY <1>1 DEF Vest!TypeOK
  <2> DEFINE next == IF run[c].left = {p} THEN Vest!NoRun
                     ELSE [left |-> run[c].left \ {p}, read |-> run[c].read]
  <2>3. /\ next \in [left : SUBSET Vest!Periods, read : Nat]
        /\ next # Vest!NoRun => next.left = run[c].left \ {p} /\ next.read = run[c].read
        /\ run[c].left = {p} => next = Vest!NoRun
    <3>1. /\ [left |-> run[c].left \ {p}, read |-> run[c].read] \in [left : SUBSET Vest!Periods, read : Nat]
          /\ [left |-> run[c].left \ {p}, read |-> run[c].read].left = run[c].left \ {p}
          /\ [left |-> run[c].left \ {p}, read |-> run[c].read].read = run[c].read
      BY <2>2
    <3> QED
      BY <2>1, <3>1, Zenon
  <2>4. run' = [run EXCEPT ![c] = next]
    BY <1>2
  <2> HIDE DEF next
  <2> QED
    BY <1>1, <2>3, <2>4 DEF Vest!TypeOK
<1>7. Vest!TypeOK'
  BY <1>1, <1>2, <1>3, <1>4, <1>6 DEF Vest!TypeOK, VestEvent
<1>8. /\ VestDone \subseteq Vest!Periods /\ more \subseteq Vest!Periods /\ VestDone \subseteq more
      /\ seen \subseteq Vest!Periods /\ p \in Vest!Periods \ seen
      /\ seen \cup {p} \subseteq more /\ seen \cup {p} \subseteq Vest!Periods
  BY <1>2 DEF VestDone
<1>9. /\ Sum(more) \in Nat /\ Sum(VestDone) \in Nat /\ Sum(Vest!Periods) \in Nat /\ Sum(seen) \in Nat
      /\ Sum(VestDone) <= Sum(more) /\ Sum(more) <= Sum(Vest!Periods)
      /\ Sum(seen \cup {p}) <= Sum(more) /\ Sum(seen \cup {p}) = vesting[p].units + Sum(seen)
      /\ Sum(Vest!Periods) <= grant.plan.units
  <2>1. Sum(Vest!Periods) <= grant.plan.units
    BY <1>1 DEF VestFollows
  <2> HIDE DEF more, seen
  <2> QED
    BY <1>1, <1>8, <2>1, VestSums
<1>10. /\ grant.vested <= Sum(VestDone) /\ run[c].read <= Sum(seen)
       /\ grant.status = "FULLY_VESTED" => Sum(VestDone) = grant.plan.units
  <2>1. run[c].read <= SumFunctionOnSet(VestUnits, VestDone \ run[c].left)
    BY <1>1, <1>2, Zenon DEF VestFollows
  <2> QED
    BY <1>1, <2>1, Zenon DEF VestFollows
<1>11. vested <= Sum(more)
  <2> HIDE DEF Sum, more, seen
  <2> QED
    BY <1>1, <1>9, <1>10 DEF vested
<1>12. grant'.status = "FULLY_VESTED" => Sum(more) = grant.plan.units
  <2> HIDE DEF Sum, more, seen
  <2>1. CASE vested >= grant.plan.units
    BY <1>1, <1>9, <1>11, <2>1
  <2>2. CASE ~(vested >= grant.plan.units)
    <3>1. grant'.status = grant.status
      BY <1>4, <2>2
    <3> QED
      BY <1>1, <1>9, <1>10, <3>1
  <2> QED
    BY <2>1, <2>2
<1>13. ASSUME NEW d \in Calls, run'[d] # Vest!NoRun
       PROVE  run'[d].read <= Sum(more \ run'[d].left)
  <2>1. CASE d = c
    <3>1. run'[c].read = run[c].read /\ seen \cup {p} \subseteq more \ run'[c].left
          /\ more \ run'[c].left \subseteq Vest!Periods
      <4>1. run'[c].read = run[c].read /\ run'[c].left = run[c].left \ {p}
        BY <1>6, <1>13, <2>1
      <4> QED
        BY <1>2, <1>8, <4>1
    <3> DEFINE rest == more \ run'[c].left
    <3>2. /\ rest \in SUBSET Vest!Periods /\ seen \cup {p} \in SUBSET Vest!Periods
          /\ seen \cup {p} \subseteq rest
      BY <1>8, <3>1
    <3> HIDE DEF rest, seen, more
    <3>3. Sum(seen \cup {p}) <= Sum(rest) /\ Sum(rest) \in Nat
      BY <1>1, <3>2, VestSums
    <3> HIDE DEF Sum
    <3> QED
      BY <1>1, <1>9, <1>10, <2>1, <3>1, <3>3 DEF rest
  <2>2. CASE d # c
    <3> DEFINE old == VestDone \ run[d].left
               rest == more \ run[d].left
    <3>1. run'[d] = run[d] /\ run[d].read \in Nat
      BY <1>1, <1>6, <2>2 DEF Vest!TypeOK
    <3>2. old \in SUBSET Vest!Periods /\ rest \in SUBSET Vest!Periods /\ old \subseteq rest
      BY <1>8
    <3>3. run[d].read <= Sum(old)
      BY <1>1, <1>13, <3>1 DEF VestFollows
    <3> HIDE DEF rest, old, more
    <3>4. Sum(old) <= Sum(rest) /\ Sum(rest) \in Nat /\ Sum(old) \in Nat
      BY <1>1, <3>2, VestSums
    <3> HIDE DEF Sum
    <3>5. run[d].read <= Sum(rest)
      BY <3>1, <3>3, <3>4
    <3> QED
      BY <3>1, <3>5 DEF rest
  <2> QED
    BY <2>1, <2>2
<1>14. VestFollows'
  <2> HIDE DEF more
  <2> QED
    BY <1>1, <1>4, <1>5, <1>11, <1>12, <1>13 DEF VestFollows
<1>15. ASSUME ~bunched', ~overlap' PROVE VestAlone'
  <2>1. VestAlone
    BY <1>1, <1>2, <1>15
  <2>2. run[c].read = grant.vested /\ run[c].left = {p} /\ p \notin VestDone
    BY <1>2, <2>1 DEF VestAlone
  <2>3. \A d \in Calls : run'[d] = Vest!NoRun
    BY <1>2, <1>6, <2>1, <2>2 DEF VestAlone
  <2>4. vested = Sum(more)
    <3>1. Sum(more) = vesting[p].units + Sum(VestDone)
      BY <1>1, <1>8, <2>2, VestSums
    <3>2. grant.vested = Sum(VestDone)
      BY <2>1 DEF VestAlone
    <3> HIDE DEF Sum, more
    <3> QED
      BY <1>1, <1>9, <2>2, <3>1, <3>2 DEF vested
  <2>5. Sum(more) = grant.plan.units => grant'.status # "ACTIVE"
    BY <1>1, <1>4, <2>4
  <2> QED
    BY <1>4, <1>5, <2>3, <2>4, <2>5 DEF VestAlone
<1> QED
  BY <1>7, <1>14, <1>15 DEF VestInv

\* The vesting of a grant: every step, and a stutter, keeps the invariant.
LEMMA VestNext == VestInv /\ [Vest!Next]_(Vest!vars) => VestInv'
<1> SUFFICES ASSUME VestInv, [Vest!Next]_(Vest!vars) PROVE VestInv'
  OBVIOUS
<1> USE VestIdle
<1>1. /\ Vest!TypeOK /\ VestFollows /\ (~bunched /\ ~overlap => VestAlone)
      /\ today \in 0..Vest!MaxPeriod /\ Vest!MaxPeriod \in Nat
      /\ run \in [Calls -> [left : SUBSET Vest!Periods, read : Nat]]
      /\ Vest!NoRun \in [left : SUBSET Vest!Periods, read : Nat]
  <2>1. Vest!TypeOK
    BY DEF VestInv
  <2>2. grant.plan \in Plans /\ today \in 0..Vest!MaxPeriod
        /\ run \in [Calls -> [left : SUBSET Vest!Periods, read : Nat]]
    BY <2>1 DEF Vest!TypeOK
  <2> QED
    BY <2>1, <2>2, VestPeriods DEF VestInv, Vest!NoRun
<1>2. CASE UNCHANGED Vest!vars
  BY <1>1, <1>2, VestKeeps DEF Vest!vars
<1>3. CASE Vest!TimePasses
  <2>1. today' \in 0..Vest!MaxPeriod
    BY <1>1, <1>3 DEF Vest!TimePasses
  <2> QED
    BY <1>1, <1>3, <2>1, VestKeeps DEF Vest!TimePasses
<1>4. ASSUME NEW c \in Calls, Vest!RunFails(c) PROVE VestInv'
  <2>1. /\ run' = [run EXCEPT ![c] = Vest!NoRun]
        /\ UNCHANGED <<grant, vesting, today, bunched, overlap>>
    BY <1>4 DEF Vest!RunFails
  <2>2. /\ run' \in [Calls -> [left : SUBSET Vest!Periods, read : Nat]]
        /\ \A d \in Calls : run'[d] = run[d] \/ run'[d] = Vest!NoRun
    BY <1>1, <2>1
  <2> QED
    BY <1>1, <2>1, <2>2, VestKeeps
<1>5. CASE Vest!cancelGrant
  <2>1. /\ grant' = [grant EXCEPT !.status = "CANCELLED"]
        /\ UNCHANGED <<today, run, bunched, overlap>>
        /\ vesting' = [p \in Vest!Periods |-> IF p \in Vest!Pending
                                               THEN [vesting[p] EXCEPT !.status = "SKIPPED"]
                                               ELSE vesting[p]]
    BY <1>5 DEF Vest!cancelGrant
  <2>2. \A p \in Vest!Periods :
          /\ vesting'[p] \in VestEvent /\ vesting'[p].units = vesting[p].units
          /\ vesting'[p].status = IF vesting[p].status = "PENDING" THEN "SKIPPED" ELSE vesting[p].status
    BY <1>1, <2>1 DEF Vest!Pending, Vest!TypeOK, VestEvent
  <2>3. VestUnits' = VestUnits /\ VestDone' = VestDone
    BY <2>2 DEF VestUnits, VestDone
  <2>4. grant'.plan = grant.plan /\ grant'.vested = grant.vested /\ grant'.status = "CANCELLED"
    BY <1>1, <2>1 DEF Vest!TypeOK
  <2>5. Vest!TypeOK'
    <3>1. vesting' \in [Vest!Periods -> VestEvent]
      BY <2>1, <2>2
    <3> QED
      BY <1>1, <2>1, <3>1 DEF Vest!TypeOK, VestEvent
  <2>6. VestFollows'
    BY <1>1, <2>1, <2>3, <2>4 DEF VestFollows
  <2>7. ~bunched' /\ ~overlap' => VestAlone'
    BY <1>1, <2>1, <2>3, <2>4 DEF VestAlone
  <2> QED
    BY <2>5, <2>6, <2>7 DEF VestInv
<1> QED
  BY <1>2, <1>3, <1>4, <1>5, VestStarts, VestProcesses DEF Vest!Next

\* The invariant implies the property that the run checks.
LEMMA VestScheduled == VestInv => Vest!UnitsVestAsScheduled
<1> SUFFICES ASSUME VestInv PROVE Vest!UnitsVestAsScheduled
  OBVIOUS
<1>1. \A S : Vest!SumFunctionOnSet(VestUnits, S) = SumFunctionOnSet(VestUnits, S)
  BY VestSum
<1>2. VestFollows /\ (~bunched /\ ~overlap => VestAlone)
  BY DEF VestInv
<1> QED
  BY <1>1, <1>2, Zenon DEF Vest!UnitsVestAsScheduled, VestUnits, VestDone, VestFollows, VestAlone
-------------------------------------------------------------------------------
(* Compensation cycles                                                        *)

\* A call has an amount or an allocation in hand, as its kind says.
RaisesFollows ==
  \A c \in Calls : /\ call[c].do = "lock" => call[c].on \in Nat
                   /\ call[c].do = "approve" => call[c].on \in Allocations

\* A cycle that is disbursed, or about to be, has nothing undecided.
RaisesAlone ==
  /\ \A c, d \in Calls : call[c] # Raises!NoCall /\ call[d] # Raises!NoCall => c = d
  /\ \A c \in Calls :
       /\ call[c].do \in {"open", "lock", "cancel"} => cycle.status # "DISBURSED"
       /\ call[c].do = "approve" => alloc[call[c].on].status = "PROPOSED"
       /\ call[c].do = "disburse" =>
            /\ cycle.status = "APPROVAL"
            /\ \A a \in Allocations : /\ alloc[a].status # "PROPOSED"
                                      /\ a \in call[c].with <=> alloc[a].status = "APPROVED"
  /\ \A a \in Allocations :
       /\ cycle.status = "DISBURSED" => alloc[a].status \notin {"PROPOSED", "APPROVED"}
       /\ bonus[a] # 0 => bonus[a] = 1 /\ cycle.status = "DISBURSED"
       /\ alloc[a].status = "DISBURSED" => bonus[a] = 1

\* Compensation: the inductive invariant.
RaisesInv == Raises!TypeOK /\ RaisesFollows /\ (~overlap => RaisesAlone)

RaisesRow  == [status : {"none", "PROPOSED", "APPROVED", "REJECTED", "DISBURSED"},
               proposed : {0} \cup Amounts]
RaisesCall == [do : {"idle", "open", "lock", "approve", "disburse", "cancel"},
               on : Allocations \cup Nat, with : SUBSET Allocations]

LEMMA RaisesIdle == Raises!NoCall.do = "idle" /\ Raises!NoCall \in RaisesCall
BY DEF Raises!NoCall, RaisesCall

\* Compensation: the invariant holds at the start.
LEMMA RaisesInit == Raises!Init => RaisesInv
<1> SUFFICES ASSUME Raises!Init PROVE RaisesInv
  OBVIOUS
<1> USE RaisesIdle DEF Raises!Init
<1>1. Raises!TypeOK
  <2>1. bonus \in [Allocations -> 0..2]
    OBVIOUS
  <2> QED
    BY <2>1 DEF Raises!TypeOK, RaisesCall
<1>2. RaisesFollows /\ RaisesAlone
  BY DEF RaisesFollows, RaisesAlone
<1> QED
  BY <1>1, <1>2 DEF RaisesInv

\* The sum of what is proposed.
LEMMA RaisesSum ==
  ASSUME Raises!TypeOK, NEW S \in SUBSET Allocations
  PROVE  Raises!SumFunctionOnSet([a \in Allocations |-> alloc[a].proposed], S) \in Nat
<1> DEFINE f == [a \in Allocations |-> alloc[a].proposed]
<1>1. \A a \in S : f[a] \in Nat
  <2>1. \A a \in S : f[a] \in {0} \cup Amounts
    BY DEF Raises!TypeOK
  <2>2. ASSUME NEW n \in {0} \cup Amounts PROVE n \in Nat
    <3>1. Amounts \subseteq Nat
      BY PeopleAssumption, Zenon DEF PeopleAssumption
    <3> HIDE DEF f
    <3> QED
      BY <3>1
  <2> HIDE DEF f
  <2> QED
    BY <2>1, <2>2, Zenon
<1>2. IsFiniteSet(S)
  BY PeopleAssumption, FS_Subset DEF PeopleAssumption
<1> HIDE DEF f
<1>3. SumFunctionOnSet(f, S) \in Nat
  BY <1>1, <1>2, SumIsCount, TokensFinite
<1>4. Raises!SumFunctionOnSet(f, S) = SumFunctionOnSet(f, S)
  BY DEF Raises!SumFunctionOnSet, Raises!FoldFunctionOnSet, Raises!MapThenFoldSet,
         SumFunctionOnSet, FoldFunctionOnSet, MapThenFoldSet
<1> QED
  BY <1>3, <1>4 DEF f

\* The payments of an allocation that are told apart: none, one, more.
LEMMA RaisesMin ==
  ASSUME NEW n \in 0..2
  PROVE  Raises!Min({2, n + 1}) \in 0..2 /\ (n = 0 => Raises!Min({2, n + 1}) = 1)
<1>1. \E x \in {2, n + 1} : \A y \in {2, n + 1} : x <= y
  BY n + 1 <= 2 \/ 2 <= n + 1
<1> QED
  BY <1>1 DEF Raises!Min

LEMMA RaisesStarts ==
  ASSUME RaisesInv, NEW c \in Calls, NEW next \in RaisesCall,
         call[c] = Raises!NoCall, call' = [call EXCEPT ![c] = next],
         UNCHANGED <<cycle, alloc, bonus>>,
         overlap' = (overlap \/ \E b \in Calls : call[b] # Raises!NoCall),
         next.do \in {"open", "lock", "cancel"} => cycle.status # "DISBURSED",
         next.do = "lock" => next.on \in Nat,
         next.do = "approve" =>
           next.on \in Allocations /\ alloc[next.on].status = "PROPOSED",
         next.do = "disburse" =>
           /\ cycle.status = "APPROVAL"
           /\ \A a \in Allocations :
                /\ alloc[a].status # "PROPOSED"
                /\ a \in next.with <=> alloc[a].status = "APPROVED"
  PROVE  RaisesInv'
<1> USE RaisesIdle DEF RaisesInv, Raises!TypeOK, RaisesCall
<1>1. overlap' \in BOOLEAN
  BY Zenon
<1>2. ~overlap' => ~overlap /\ \A d \in Calls : call[d] = Raises!NoCall
  OBVIOUS
<1>3. Raises!TypeOK'
  BY <1>1, <1>2
<1>4. RaisesFollows'
  BY <1>1, <1>2 DEF RaisesFollows
<1>5. ~overlap' => RaisesAlone'
  BY <1>1, <1>2 DEF RaisesAlone
<1> QED
  BY <1>3, <1>4, <1>5

\* Compensation: every step, and a stutter, keeps the invariant.
LEMMA RaisesNext == RaisesInv /\ [Raises!Next]_(Raises!vars) => RaisesInv'
<1> SUFFICES ASSUME RaisesInv, [Raises!Next]_(Raises!vars) PROVE RaisesInv'
  OBVIOUS
<1> USE RaisesIdle DEF RaisesInv, Raises!TypeOK, RaisesCall
<1>1. CASE UNCHANGED Raises!vars
  BY <1>1 DEF Raises!vars, RaisesFollows, RaisesAlone
<1>2. ASSUME NEW a \in Allocations,
             Raises!Reject(a) \/ \E n \in Amounts : Raises!Propose(a, n)
      PROVE  RaisesInv'
  <2>1. /\ UNCHANGED <<cycle, call, bonus>> /\ overlap' \in BOOLEAN
        /\ (~overlap' => ~overlap /\ \A d \in Calls : call[d] = Raises!NoCall)
        /\ \E new \in RaisesRow :
             /\ alloc' = [alloc EXCEPT ![a] = new]
             /\ \/ new.status = "REJECTED"
                \/ new.status = "PROPOSED" /\ cycle.status # "DISBURSED"
    <3>1. CASE Raises!Reject(a)
      <4>1. [alloc[a] EXCEPT !.status = "REJECTED"] \in RaisesRow
        BY DEF RaisesRow
      <4> QED
        BY <3>1, <4>1 DEF Raises!Reject
    <3>2. CASE \E n \in Amounts : Raises!Propose(a, n)
      <4>1. PICK n \in Amounts : Raises!Propose(a, n)
        BY <3>2
      <4>2. [status |-> "PROPOSED", proposed |-> n] \in RaisesRow
        BY DEF RaisesRow
      <4> QED
        BY <4>1, <4>2 DEF Raises!Propose
    <3> QED
      BY <1>2, <3>1, <3>2
  <2>2. Raises!TypeOK' /\ RaisesFollows'
    BY <2>1 DEF RaisesFollows, RaisesRow
  <2>3. ~overlap' => RaisesAlone'
    BY <2>1 DEF RaisesAlone, RaisesRow
  <2> QED
    BY <2>2, <2>3
<1>3. ASSUME NEW c \in Calls, Raises!OpenCheck(c) \/ Raises!CancelCheck(c) PROVE RaisesInv'
  <2>1. \A do \in {"open", "cancel"} :
          [do |-> do, on |-> 0, with |-> {}] \in RaisesCall
    BY 0 \in Nat
  <2>2. PICK do \in {"open", "cancel"} :
          /\ call' = [call EXCEPT ![c] = [do |-> do, on |-> 0, with |-> {}]]
          /\ cycle.status # "DISBURSED"
          /\ call[c] = Raises!NoCall /\ UNCHANGED <<cycle, alloc, bonus>>
          /\ overlap' = (overlap \/ \E b \in Calls : call[b] # Raises!NoCall)
    BY <1>3 DEF Raises!OpenCheck, Raises!CancelCheck, Raises!Check
  <2> DEFINE next == [do |-> do, on |-> 0, with |-> {}]
  <2>3. next \in RaisesCall /\ next.do = do
    BY <2>1
  <2> HIDE DEF RaisesInv, Raises!TypeOK, RaisesCall, next
  <2> QED
    BY <2>2, <2>3, RaisesStarts DEF next
<1>4. ASSUME NEW c \in Calls, Raises!LockCheck(c) PROVE RaisesInv'
  <2> DEFINE n == Raises!SumFunctionOnSet([a \in Allocations |-> alloc[a].proposed],
                                          Raises!With("PROPOSED"))
             next == [do |-> "lock", on |-> n, with |-> {}]
  <2>1. Raises!With("PROPOSED") \in SUBSET Allocations
    BY DEF Raises!With
  <2>2. n \in Nat
    BY <2>1, RaisesSum
  <2>3. /\ call' = [call EXCEPT ![c] = next] /\ cycle.status = "OPEN"
        /\ call[c] = Raises!NoCall /\ UNCHANGED <<cycle, alloc, bonus>>
        /\ overlap' = (overlap \/ \E b \in Calls : call[b] # Raises!NoCall)
    BY <1>4 DEF Raises!LockCheck, Raises!Check
  <2> HIDE DEF n
  <2>4. next \in RaisesCall /\ next.do = "lock" /\ next.on \in Nat
    BY <2>2
  <2> HIDE DEF RaisesInv, Raises!TypeOK, RaisesCall, next
  <2> QED
    BY <2>3, <2>4, RaisesStarts
<1>5. ASSUME NEW c \in Calls, NEW a \in Allocations, Raises!ApproveCheck(c, a) PROVE RaisesInv'
  <2> DEFINE next == [do |-> "approve", on |-> a, with |-> {}]
  <2>1. next \in RaisesCall /\ next.do = "approve" /\ next.on = a
    OBVIOUS
  <2>2. /\ call' = [call EXCEPT ![c] = next] /\ alloc[a].status = "PROPOSED"
        /\ call[c] = Raises!NoCall /\ UNCHANGED <<cycle, alloc, bonus>>
        /\ overlap' = (overlap \/ \E b \in Calls : call[b] # Raises!NoCall)
    BY <1>5 DEF Raises!ApproveCheck, Raises!Check
  <2> HIDE DEF RaisesInv, Raises!TypeOK, RaisesCall, next
  <2> QED
    BY <2>1, <2>2, RaisesStarts
<1>6. ASSUME NEW c \in Calls, Raises!DisburseCheck(c) PROVE RaisesInv'
  <2> DEFINE S == Raises!With("APPROVED")
             next == [do |-> "disburse", on |-> 0, with |-> S]
  <2>1. /\ S \in SUBSET Allocations
        /\ \A a \in Allocations : a \in S <=> alloc[a].status = "APPROVED"
        /\ Raises!With("PROPOSED") = {} => \A a \in Allocations : alloc[a].status # "PROPOSED"
    BY DEF Raises!With
  <2>2. /\ call' = [call EXCEPT ![c] = next] /\ cycle.status = "APPROVAL"
        /\ Raises!With("PROPOSED") = {}
        /\ call[c] = Raises!NoCall /\ UNCHANGED <<cycle, alloc, bonus>>
        /\ overlap' = (overlap \/ \E b \in Calls : call[b] # Raises!NoCall)
    BY <1>6 DEF Raises!DisburseCheck, Raises!Check
  <2> HIDE DEF S
  <2>3. next \in RaisesCall /\ next.do = "disburse" /\ next.with = S
    BY <2>1, 0 \in Nat
  <2> HIDE DEF RaisesInv, Raises!TypeOK, RaisesCall, next
  <2> QED
    BY <2>1, <2>2, <2>3, RaisesStarts
<1>7. ASSUME NEW c \in Calls, Raises!StatusWrite(c) PROVE RaisesInv'
  <2>1. /\ call' = [call EXCEPT ![c] = Raises!NoCall] /\ UNCHANGED <<bonus, overlap>>
        /\ \/ /\ call[c].do \in {"open", "cancel"} /\ UNCHANGED alloc
              /\ \E st \in {"OPEN", "CANCELLED"} : cycle' = [cycle EXCEPT !.status = st]
           \/ /\ call[c].do = "lock" /\ UNCHANGED alloc
              /\ cycle' = [status |-> "APPROVAL", total |-> call[c].on]
           \/ /\ call[c].do = "approve" /\ UNCHANGED cycle
              /\ alloc' = [alloc EXCEPT ![call[c].on].status = "APPROVED"]
    BY <1>7 DEF Raises!StatusWrite, Raises!Finish
  <2>2. CASE call[c].do = "approve" /\ UNCHANGED cycle
             /\ alloc' = [alloc EXCEPT ![call[c].on].status = "APPROVED"]
    <3> PICK a \in Allocations : a = call[c].on
      BY <2>2 DEF RaisesFollows
    <3>1. /\ alloc' \in [Allocations -> RaisesRow] /\ alloc'[a].status = "APPROVED"
          /\ \A b \in Allocations : b # a => alloc'[b] = alloc[b]
      BY <2>2 DEF RaisesRow
    <3>2. Raises!TypeOK' /\ RaisesFollows'
      BY <2>1, <2>2, <3>1 DEF RaisesFollows, RaisesRow
    <3>3. ~overlap' => RaisesAlone'
      BY <2>1, <2>2, <3>1 DEF RaisesAlone
    <3> QED
      BY <3>2, <3>3
  <2>3. CASE /\ call[c].do \in {"open", "cancel", "lock"} /\ UNCHANGED alloc
             /\ \E st \in {"OPEN", "CANCELLED", "APPROVAL"}, n \in Nat :
                  cycle' = [status |-> st, total |-> n]
    <3>1. Raises!TypeOK' /\ RaisesFollows'
      BY <2>1, <2>3 DEF RaisesFollows
    <3>2. ~overlap' => RaisesAlone'
      BY <2>1, <2>3 DEF RaisesAlone
    <3> QED
      BY <3>1, <3>2
  <2>4. call[c].do = "lock" => call[c].on \in Nat
    BY DEF RaisesFollows
  <2>5. \A st \in {"OPEN", "CANCELLED"} : [cycle EXCEPT !.status = st] = [status |-> st, total |-> cycle.total]
    OBVIOUS
  <2> QED
    BY <2>1, <2>2, <2>3, <2>4, <2>5
<1>8. ASSUME NEW c \in Calls, Raises!Disburse(c) PROVE RaisesInv'
  <2>1. /\ call[c].do = "disburse" /\ call' = [call EXCEPT ![c] = Raises!NoCall]
        /\ cycle' = [cycle EXCEPT !.status = "DISBURSED"] /\ UNCHANGED overlap
        /\ bonus' = Raises!Emitted(call[c].with)
        /\ alloc' = [a \in Allocations |-> IF a \in call[c].with
                                           THEN [alloc[a] EXCEPT !.status = "DISBURSED"] ELSE alloc[a]]
    BY <1>8 DEF Raises!Disburse, Raises!Finish
  <2>2. \A a \in Allocations :
          IF a \in call[c].with THEN /\ alloc'[a].status = "DISBURSED"
                                     /\ alloc'[a].proposed = alloc[a].proposed
                                     /\ alloc'[a] \in RaisesRow
          ELSE alloc'[a] = alloc[a]
    BY <2>1 DEF RaisesRow
  <2>3. alloc' \in [Allocations -> RaisesRow]
    BY <2>1, <2>2 DEF RaisesRow
  <2>4. /\ bonus' \in [Allocations -> 0..2]
        /\ \A a \in Allocations : IF a \in call[c].with THEN bonus[a] = 0 => bonus'[a] = 1
                                  ELSE bonus'[a] = bonus[a]
    BY <2>1, RaisesMin DEF Raises!Emitted
  <2>5. Raises!TypeOK' /\ RaisesFollows'
    BY <2>1, <2>3, <2>4 DEF RaisesFollows, RaisesRow
  <2>6. ~overlap' => RaisesAlone'
    <3> SUFFICES ASSUME ~overlap PROVE RaisesAlone'
      BY <2>1
    <3>1. \A d \in Calls : call'[d] = Raises!NoCall
      BY <2>1 DEF RaisesAlone
    <3>2. /\ cycle.status = "APPROVAL"
          /\ \A a \in Allocations : /\ alloc[a].status # "PROPOSED"
                                    /\ a \in call[c].with <=> alloc[a].status = "APPROVED"
                                    /\ bonus[a] = 0 /\ alloc[a].status # "DISBURSED"
      BY <2>1 DEF RaisesAlone
    <3> QED
      BY <2>1, <2>2, <2>4, <3>1, <3>2 DEF RaisesAlone
  <2> QED
    BY <2>5, <2>6
<1>9. ASSUME NEW c \in Calls, Raises!Abort(c) PROVE RaisesInv'
  <2>1. /\ call' = [call EXCEPT ![c] = Raises!NoCall] /\ UNCHANGED <<cycle, alloc>>
        /\ \/ UNCHANGED <<bonus, overlap>>
           \/ overlap' = TRUE /\ \E S \in SUBSET call[c].with : bonus' = Raises!Emitted(S)
    BY <1>9 DEF Raises!Abort, Raises!Finish
  <2>2. bonus' \in [Allocations -> 0..2]
    <3>1. \A S \in SUBSET call[c].with : Raises!Emitted(S) \in [Allocations -> 0..2]
      BY RaisesMin DEF Raises!Emitted
    <3> QED
      BY <2>1, <3>1
  <2>3. Raises!TypeOK' /\ RaisesFollows'
    BY <2>1, <2>2 DEF RaisesFollows
  <2>4. ~overlap' => RaisesAlone'
    BY <2>1 DEF RaisesAlone
  <2> QED
    BY <2>3, <2>4
<1> QED
  BY <1>1, <1>2, <1>3, <1>4, <1>5, <1>6, <1>7, <1>8, <1>9 DEF Raises!Next

\* The invariant implies what the run checks of this part.
LEMMA RaisesDone == RaisesInv => Raises!DoneMeansAllDone
<1> SUFFICES ASSUME RaisesInv, ~overlap
             PROVE  /\ cycle.status = "DISBURSED" => Raises!With("PROPOSED") \cup Raises!With("APPROVED") = {}
                    /\ \A a \in Allocations :
                         /\ bonus[a] <= IF cycle.status = "DISBURSED" THEN 1 ELSE 0
                         /\ alloc[a].status = "DISBURSED" => bonus[a] = 1
  BY DEF Raises!DoneMeansAllDone
<1>1. RaisesAlone
  BY DEF RaisesInv
<1>2. cycle.status = "DISBURSED" => Raises!With("PROPOSED") \cup Raises!With("APPROVED") = {}
  BY <1>1 DEF RaisesAlone, Raises!With
<1>3. ASSUME NEW a \in Allocations
      PROVE  /\ bonus[a] <= IF cycle.status = "DISBURSED" THEN 1 ELSE 0
             /\ alloc[a].status = "DISBURSED" => bonus[a] = 1
  BY <1>1 DEF RaisesAlone
<1> QED
  BY <1>2, <1>3
-------------------------------------------------------------------------------
(* Departments                                                                *)

\* A set of departments with the parents of its members.
Closed(par, C) == \A a \in C : par[a] = Tree!Nothing \/ par[a] \in C

\* The departments right above those of S.
Parents(par, S) == {par[a] : a \in S} \ {Tree!Nothing}

\* What Ancestors finds if the parents are par.
Above(par, d) ==
  LET up[n \in 0..Cardinality(Departments)] ==
        IF n = 0 THEN {d} ELSE up[n - 1] \cup ({par[a] : a \in up[n - 1]} \ {Tree!Nothing})
  IN  up[Cardinality(Departments)]

Parentage == [Departments -> Departments \cup {Tree!Nothing}]

\* Ancestors is defined with the Cardinality of its own module, which is the same.
LEMMA AncestorsAbove == \A d : Tree!Ancestors(d) = Above(parent, d)
<1>1. Tree!Cardinality(Departments) = Cardinality(Departments)
  BY DEF Tree!Cardinality, Cardinality
<1> QED
  BY <1>1 DEF Tree!Ancestors, Above

\* The levels that Above goes up exist.
Climbs(par, d, m, up) ==
  up = [n \in 0..m |-> IF n = 0 THEN {d} ELSE up[n - 1] \cup Parents(par, up[n - 1])]

\* Each step up adds the parents of what was found.
LEMMA ClimbsUp ==
  ASSUME NEW par, NEW d, NEW m \in Nat, NEW f, Climbs(par, d, m, f), NEW n \in Nat, n + 1 \in 0..m
  PROVE  f[n + 1] = f[n] \cup Parents(par, f[n])
<1> DEFINE body(k) == IF k = 0 THEN {d} ELSE f[k - 1] \cup Parents(par, f[k - 1])
<1>1. f = [k \in 0..m |-> body(k)]
  BY DEF Climbs
<1>2. body(n + 1) = f[n + 1 - 1] \cup Parents(par, f[n + 1 - 1])
  OBVIOUS
<1>3. n + 1 - 1 = n
  OBVIOUS
<1> HIDE DEF body
<1>4. f[n + 1] = body(n + 1)
  BY <1>1
<1> QED
  BY <1>2, <1>3, <1>4

\* The recursive function by which Ancestors climbs exists, however many levels it has.
LEMMA LevelsExist ==
  ASSUME NEW par, NEW d, NEW N \in Nat
  PROVE  \E up : Climbs(par, d, N, up)
<1> DEFINE Up(m, f) == Climbs(par, d, m, f)
           Good == {m \in Nat : \E f : Up(m, f)}
<1>1. 0 \in Good
  <2>1. Up(0, [n \in 0..0 |-> {d}])
    BY DEF Climbs
  <2> QED
    BY <2>1
<1>2. ASSUME NEW m \in Nat, m \in Good PROVE m + 1 \in Good
  <2>1. PICK f : Up(m, f)
    BY <1>2
  <2> DEFINE g == [n \in 0..(m + 1) |-> IF n = m + 1 THEN f[m] \cup Parents(par, f[m]) ELSE f[n]]
  <2>2. ASSUME NEW n \in 0..(m + 1)
        PROVE  g[n] = IF n = 0 THEN {d} ELSE g[n - 1] \cup Parents(par, g[n - 1])
    <3>1. CASE n = m + 1
      BY <3>1
    <3>2. CASE n # m + 1
      <4>1. n \in 0..m /\ (n # 0 => n - 1 \in 0..m /\ n - 1 # m + 1 /\ n - 1 \in 0..(m + 1))
        BY <3>2
      <4>2. f[n] = IF n = 0 THEN {d} ELSE f[n - 1] \cup Parents(par, f[n - 1])
        BY <2>1, <4>1 DEF Climbs
      <4> QED
        BY <3>2, <4>1, <4>2
    <3> QED
      BY <3>1, <3>2
  <2>3. Up(m + 1, g)
    BY <2>2 DEF Climbs
  <2> HIDE DEF g
  <2> QED
    BY <2>3
<1> HIDE DEF Good
<1>3. N \in Good
  BY <1>1, <1>2, NatFamily
<1> QED
  BY <1>3 DEF Good

\* Above gives the least closed set that has the department.
LEMMA AboveIsClosure ==
  ASSUME NEW par \in Parentage, NEW d \in Departments
  PROVE  /\ d \in Above(par, d) /\ Above(par, d) \subseteq Departments
         /\ Closed(par, Above(par, d))
         /\ \A C : Closed(par, C) /\ d \in C => Above(par, d) \subseteq C
<1> DEFINE N == Cardinality(Departments)
           up == CHOOSE f : Climbs(par, d, N, f)
<1>1. IsFiniteSet(Departments) /\ Tree!Nothing \notin Departments
  BY PeopleAssumption, Zenon DEF PeopleAssumption, Tree!Nothing
<1>2. N \in Nat
  BY <1>1, FS_CardinalityType
<1>3. Above(par, d) = up[N]
  BY DEF Above, Climbs, Parents
<1>4. Climbs(par, d, N, up)
  <2> HIDE DEF N
  <2>1. \E f : Climbs(par, d, N, f)
    BY <1>2, LevelsExist
  <2> QED
    BY <2>1
<1> HIDE DEF up, N
<1>5. ASSUME NEW n \in Nat, n + 1 \in 0..N
      PROVE  up[n + 1] = up[n] \cup Parents(par, up[n])
  BY <1>2, <1>4, <1>5, ClimbsUp
<1>6. up[0] = {d}
  BY <1>2, <1>4 DEF Climbs
<1>7. ASSUME NEW S \in SUBSET Departments PROVE Parents(par, S) \subseteq Departments
  BY DEF Parentage, Parents
<1> DEFINE G == {n \in Nat : n <= N => /\ up[n] \subseteq Departments /\ d \in up[n]
                                       /\ Closed(par, up[n]) \/ Cardinality(up[n]) >= n + 1}
<1>8. 0 \in G
  <2>1. Cardinality(up[0]) = 1
    BY <1>6, FS_Singleton
  <2> QED
    BY <1>6, <2>1
<1>9. ASSUME NEW n \in Nat, n \in G PROVE n + 1 \in G
  <2> SUFFICES ASSUME n + 1 <= N
               PROVE  /\ up[n + 1] \subseteq Departments /\ d \in up[n + 1]
                      /\ Closed(par, up[n + 1]) \/ Cardinality(up[n + 1]) >= n + 1 + 1
    OBVIOUS
  <2>1. /\ n <= N /\ up[n] \subseteq Departments /\ d \in up[n]
        /\ Closed(par, up[n]) \/ Cardinality(up[n]) >= n + 1
    BY <1>2, <1>9
  <2>2. up[n + 1] = up[n] \cup Parents(par, up[n])
    BY <1>2, <1>5
  <2>3. up[n + 1] \subseteq Departments
    BY <1>7, <2>1, <2>2
  <2>4. CASE up[n + 1] = up[n]
    <3>1. Closed(par, up[n])
      BY <2>1, <2>2, <2>4 DEF Closed, Parents
    <3> QED
      BY <2>1, <2>4, <3>1
  <2>5. CASE up[n + 1] # up[n]
    <3>1. ~Closed(par, up[n])
      BY <2>2, <2>5 DEF Closed, Parents
    <3>2. IsFiniteSet(up[n + 1]) /\ IsFiniteSet(up[n])
      BY <1>1, <2>1, <2>3, FS_Subset
    <3>3. Cardinality(up[n]) < Cardinality(up[n + 1])
      <4>1. up[n] \subseteq up[n + 1] /\ up[n] # up[n + 1]
        BY <2>2, <2>5
      <4>2. /\ Cardinality(up[n]) <= Cardinality(up[n + 1])
            /\ Cardinality(up[n]) = Cardinality(up[n + 1]) => up[n] = up[n + 1]
        BY <3>2, <4>1, FS_Subset
      <4>3. Cardinality(up[n]) \in Nat /\ Cardinality(up[n + 1]) \in Nat
        BY <3>2, FS_CardinalityType
      <4> QED
        BY <4>1, <4>2, <4>3
    <3>4. Cardinality(up[n]) \in Nat /\ Cardinality(up[n + 1]) \in Nat
      BY <3>2, FS_CardinalityType
    <3> QED
      BY <2>1, <2>2, <2>3, <3>1, <3>3, <3>4
  <2> QED
    BY <2>4, <2>5
<1> HIDE DEF G
<1>10. N \in G
  BY <1>2, <1>8, <1>9, NatFamily
<1>11. /\ up[N] \subseteq Departments /\ d \in up[N]
       /\ Closed(par, up[N]) \/ Cardinality(up[N]) >= N + 1
  BY <1>2, <1>10 DEF G
<1>12. Closed(par, up[N])
  <2>1. IsFiniteSet(up[N]) /\ Cardinality(up[N]) <= Cardinality(Departments)
    BY <1>1, <1>11, FS_Subset
  <2>2. Cardinality(up[N]) \in Nat
    BY <2>1, FS_CardinalityType
  <2> QED
    BY <1>2, <1>11, <2>1, <2>2 DEF N
<1>13. ASSUME NEW C, Closed(par, C), d \in C PROVE up[N] \subseteq C
  <2> DEFINE H == {n \in Nat : n <= N => up[n] \subseteq C}
  <2>1. 0 \in H
    BY <1>6, <1>13
  <2>2. ASSUME NEW n \in Nat, n \in H PROVE n + 1 \in H
    <3> SUFFICES ASSUME n + 1 <= N PROVE up[n + 1] \subseteq C
      OBVIOUS
    <3>1. n <= N /\ up[n] \subseteq C
      BY <1>2, <2>2
    <3>2. up[n + 1] = up[n] \cup Parents(par, up[n])
      BY <1>2, <1>5
    <3>3. Parents(par, up[n]) \subseteq C
      BY <1>13, <3>1 DEF Closed, Parents
    <3> QED
      BY <3>1, <3>2, <3>3
  <2> HIDE DEF H
  <2>3. N \in H
    BY <1>2, <2>1, <2>2, NatFamily
  <2> QED
    BY <1>2, <2>3 DEF H
<1> QED
  BY <1>3, <1>11, <1>12, <1>13

\* No department is above itself.
Acyclic(par) == \A d \in Departments : par[d] # Tree!Nothing => d \notin Above(par, par[d])

\* A department can be put under another that is not below it.
LEMMA Reparent ==
  ASSUME NEW par \in Parentage, Acyclic(par), NEW d \in Departments,
         NEW p \in Departments \cup {Tree!Nothing}, p # Tree!Nothing => d \notin Above(par, p)
  PROVE  Acyclic([par EXCEPT ![d] = p])
<1> DEFINE new == [par EXCEPT ![d] = p]
<1>1. Tree!Nothing \notin Departments
  BY PeopleAssumption, Zenon DEF PeopleAssumption, Tree!Nothing
<1>2. new \in Parentage /\ new[d] = p /\ \A x \in Departments : x # d => new[x] = par[x]
  BY DEF Parentage
<1> HIDE DEF new
<1>3. ASSUME NEW q \in Departments, d \notin Above(par, q) PROVE Above(new, q) \subseteq Above(par, q)
  <2>1. q \in Above(par, q) /\ Above(par, q) \subseteq Departments /\ Closed(par, Above(par, q))
    BY AboveIsClosure
  <2>2. Closed(new, Above(par, q))
    BY <1>2, <1>3, <2>1 DEF Closed
  <2> QED
    BY <1>2, <2>1, <2>2, AboveIsClosure
<1>4. ASSUME NEW x \in Departments, new[x] # Tree!Nothing PROVE x \notin Above(new, new[x])
  <2>1. CASE x = d
    BY <1>2, <1>3, <1>4, <2>1
  <2>2. CASE x # d
    <3> DEFINE q == par[x]
    <3>1. new[x] = q /\ q \in Departments /\ x \notin Above(par, q)
      BY <1>2, <1>4, <2>2 DEF Acyclic, Parentage
    <3> HIDE DEF q
    <3>2. /\ q \in Above(par, q) /\ Above(par, q) \subseteq Departments
          /\ Closed(par, Above(par, q))
      BY <3>1, AboveIsClosure
    <3>3. CASE d \notin Above(par, q)
      BY <1>3, <3>1, <3>3
    <3>4. CASE p = Tree!Nothing
      <4>1. Closed(new, Above(par, q))
        BY <1>2, <3>2, <3>4 DEF Closed
      <4>2. Above(new, q) \subseteq Above(par, q)
        BY <1>2, <3>1, <3>2, <4>1, AboveIsClosure
      <4> QED
        BY <3>1, <4>2
    <3>5. CASE d \in Above(par, q) /\ p \in Departments
      <4>1. /\ p \in Above(par, p) /\ Above(par, p) \subseteq Departments
            /\ Closed(par, Above(par, p)) /\ d \notin Above(par, p)
        BY <1>1, <3>5, AboveIsClosure
      <4>2. Closed(new, Above(par, q) \cup Above(par, p))
        BY <1>2, <3>2, <4>1 DEF Closed
      <4>3. Above(new, q) \subseteq Above(par, q) \cup Above(par, p)
        BY <1>2, <3>1, <3>2, <4>2, AboveIsClosure
      <4>4. x \notin Above(par, p)
        <5> SUFFICES ASSUME x \in Above(par, p) PROVE FALSE
          OBVIOUS
        <5>1. q \in Above(par, p)
          BY <1>1, <3>1, <4>1 DEF Closed, q
        <5>2. Above(par, q) \subseteq Above(par, p)
          BY <3>1, <4>1, <5>1, AboveIsClosure
        <5> QED
          BY <3>5, <4>1, <5>2
      <4> QED
        BY <3>1, <4>3, <4>4
    <3> QED
      BY <3>3, <3>4, <3>5
  <2> QED
    BY <2>1, <2>2
<1> QED
  BY <1>4 DEF Acyclic, new

-------------------------------------------------------------------------------
\* A call has a row in hand of its own kind.
TreeFollows ==
  \A c \in Calls :
    /\ call[c].do \in {"create", "move", "delete"} => call[c].on \in Departments
    /\ call[c].do \in {"insert", "change", "drop"} => call[c].on \in Records

\* What a call has checked about the tree still holds: the new parent is a row, and
\* not below the department.
TreeAlone ==
  /\ \A c, d \in Calls : call[c] # Tree!NoCall /\ call[d] # Tree!NoCall => c = d
  /\ Acyclic(parent)
  /\ \A d \in Departments :
       /\ parent[d] # Tree!Nothing => dept[parent[d]] # "none"
       /\ dept[d] = "none" => parent[d] = Tree!Nothing
  /\ \A c \in Calls : call[c].do \in {"create", "move"} =>
       /\ call[c].under # Tree!Nothing =>
            dept[call[c].under] # "none" /\ call[c].on \notin Above(parent, call[c].under)
       /\ call[c].do = "move" => dept[call[c].on] # "none"
  /\ \A c \in Calls : call[c].do = "delete" => dept[call[c].on] # "none"

\* The tree of departments: the inductive invariant.
TreeInv == Tree!TypeOK /\ TreeFollows /\ (~disturbed => TreeAlone)

TreeCall == [do : {"idle", "create", "move", "delete", "insert", "change", "drop"},
             on : Departments \cup Records \cup {Tree!Nothing},
             under : Departments \cup {Tree!Nothing}]

LEMMA TreeIdle == Tree!NoCall.do = "idle" /\ Tree!NoCall \in TreeCall /\ Tree!Nothing \notin Departments
<1>1. Tree!Nothing \notin Departments
  BY PeopleAssumption, Zenon DEF PeopleAssumption, Tree!Nothing
<1> QED
  BY <1>1 DEF Tree!NoCall, TreeCall

\* The tree of departments: the invariant holds at the start.
LEMMA TreeInit == Tree!Init => TreeInv
<1> SUFFICES ASSUME Tree!Init PROVE TreeInv
  OBVIOUS
<1> USE TreeIdle DEF Tree!Init
<1>1. Tree!TypeOK
  BY DEF Tree!TypeOK, Tree!States, TreeCall
<1>2. TreeFollows /\ TreeAlone
  BY DEF TreeFollows, TreeAlone, Acyclic
<1> QED
  BY <1>1, <1>2 DEF TreeInv

LEMMA TreeStart ==
  ASSUME TreeInv, NEW c \in Calls, NEW next \in TreeCall,
         call[c] = Tree!NoCall, call' = [call EXCEPT ![c] = next],
         disturbed' = (disturbed \/ \E b \in Calls : call[b] # Tree!NoCall),
         UNCHANGED <<dept, parent, owner, record>>,
         next.do \in {"create", "move", "delete"} => next.on \in Departments,
         next.do \in {"insert", "change", "drop"} => next.on \in Records,
         next.do \in {"create", "move"} /\ next.under # Tree!Nothing =>
           dept[next.under] # "none"
             /\ (~disturbed => next.on \notin Above(parent, next.under)),
         next.do \in {"move", "delete"} => dept[next.on] # "none"
  PROVE  TreeInv'
<1> USE TreeIdle DEF TreeInv, Tree!TypeOK, TreeCall
<1>1. disturbed' \in BOOLEAN
  BY Zenon
<1>2. ~disturbed' => ~disturbed /\ \A d \in Calls : call[d] = Tree!NoCall
  OBVIOUS
<1>3. Tree!TypeOK'
  BY <1>1
<1>4. TreeFollows'
  BY DEF TreeFollows
<1>5. ~disturbed' => TreeAlone'
  BY <1>2 DEF TreeAlone
<1> QED
  BY <1>3, <1>4, <1>5

\* A row that exists is not above itself or below one that does not.
LEMMA TreeOfRows ==
  ASSUME TreeInv, ~disturbed, NEW d \in Departments, NEW p \in Departments,
         dept[d] = "none", dept[p] # "none"
  PROVE  d \notin Above(parent, p)
<1> DEFINE rows == {x \in Departments : dept[x] # "none"}
<1>1. parent \in Parentage
  BY DEF TreeInv, Tree!TypeOK, Parentage
<1>2. Closed(parent, rows)
  BY <1>1 DEF TreeInv, TreeAlone, Closed, Parentage
<1>3. p \in rows /\ d \notin rows
  OBVIOUS
<1> HIDE DEF rows
<1> QED
  BY <1>1, <1>2, <1>3, AboveIsClosure

\* The tree of departments: every step, and a stutter, keeps the invariant.
LEMMA TreeNext == TreeInv /\ [Tree!Next]_(Tree!vars) => TreeInv'
<1> SUFFICES ASSUME TreeInv, [Tree!Next]_(Tree!vars) PROVE TreeInv'
  OBVIOUS
<1> USE TreeIdle
<1>1. CASE UNCHANGED Tree!vars
  BY <1>1 DEF Tree!vars, TreeInv, Tree!TypeOK, TreeFollows, TreeAlone
<1>2. ASSUME NEW c \in Calls, NEW d \in Departments, NEW p \in Departments \cup {Tree!Nothing},
             Tree!CreateCheck(c, d, p)
      PROVE  TreeInv'
  <2> DEFINE next == [do |-> "create", on |-> d, under |-> p]
  <2>1. next \in TreeCall /\ next.do = "create" /\ next.on = d /\ next.under = p
    BY DEF TreeCall
  <2>2. /\ call[c] = Tree!NoCall /\ call' = [call EXCEPT ![c] = next]
        /\ disturbed' = (disturbed \/ \E b \in Calls : call[b] # Tree!NoCall)
        /\ UNCHANGED <<dept, parent, owner, record>>
        /\ dept[d] = "none" /\ (p # Tree!Nothing => dept[p] = "live")
    BY <1>2 DEF Tree!CreateCheck, Tree!Start
  <2> HIDE DEF next
  <2>3. p # Tree!Nothing => dept[p] # "none" /\ (~disturbed => d \notin Above(parent, p))
    BY <2>2, TreeOfRows
  <2> QED
    BY <2>1, <2>2, <2>3, TreeStart
<1>3. ASSUME NEW c \in Calls, NEW d \in Departments, NEW p \in Departments \cup {Tree!Nothing},
             Tree!MoveCheck(c, d, p)
      PROVE  TreeInv'
  <2> DEFINE next == [do |-> "move", on |-> d, under |-> p]
  <2>1. next \in TreeCall /\ next.do = "move" /\ next.on = d /\ next.under = p
    BY DEF TreeCall
  <2>2. /\ call[c] = Tree!NoCall /\ call' = [call EXCEPT ![c] = next]
        /\ disturbed' = (disturbed \/ \E b \in Calls : call[b] # Tree!NoCall)
        /\ UNCHANGED <<dept, parent, owner, record>>
        /\ dept[d] = "live" /\ (p # Tree!Nothing => dept[p] # "none")
        /\ p # Tree!Nothing => d \notin Above(parent, p)
    BY <1>3, AncestorsAbove DEF Tree!MoveCheck, Tree!Start
  <2> HIDE DEF next
  <2> QED
    BY <2>1, <2>2, TreeStart
<1>4. ASSUME NEW c \in Calls, NEW d \in Departments, Tree!DeleteCheck(c, d) PROVE TreeInv'
  <2> DEFINE next == [do |-> "delete", on |-> d, under |-> Tree!Nothing]
  <2>1. next \in TreeCall /\ next.do = "delete" /\ next.on = d
    BY DEF TreeCall
  <2>2. /\ call[c] = Tree!NoCall /\ call' = [call EXCEPT ![c] = next]
        /\ disturbed' = (disturbed \/ \E b \in Calls : call[b] # Tree!NoCall)
        /\ UNCHANGED <<dept, parent, owner, record>> /\ dept[d] = "live"
    BY <1>4 DEF Tree!DeleteCheck, Tree!Start
  <2> HIDE DEF next
  <2> QED
    BY <2>1, <2>2, TreeStart
<1>5. ASSUME NEW c \in Calls, NEW r \in Records, NEW do \in {"insert", "change", "drop"},
             Tree!RecordCheck(c, r, do)
      PROVE  TreeInv'
  <2> DEFINE next == [do |-> do, on |-> r, under |-> Tree!Nothing]
  <2>1. next \in TreeCall /\ next.do = do /\ next.on = r
    BY DEF TreeCall
  <2>2. /\ call[c] = Tree!NoCall /\ call' = [call EXCEPT ![c] = next]
        /\ disturbed' = (disturbed \/ \E b \in Calls : call[b] # Tree!NoCall)
        /\ UNCHANGED <<dept, parent, owner, record>>
    BY <1>5 DEF Tree!RecordCheck, Tree!Start
  <2> HIDE DEF next
  <2> QED
    BY <2>1, <2>2, TreeStart
<1>6. ASSUME NEW c \in Calls, Tree!DepartmentWrite(c) PROVE TreeInv'
  <2> DEFINE d == call[c].on
             p == call[c].under
             do == call[c].do
  <2>1. d \in Departments /\ p \in Departments \cup {Tree!Nothing} /\ do \in {"create", "move", "delete"}
    BY <1>6 DEF Tree!DepartmentWrite, TreeInv, TreeFollows, Tree!TypeOK
  <2>2. /\ call' = [call EXCEPT ![c] = Tree!NoCall] /\ UNCHANGED <<owner, record, disturbed>>
        /\ dept' = [dept EXCEPT ![d] = IF do = "move" THEN @
                                       ELSE IF do = "create" THEN "live" ELSE "deleted"]
        /\ parent' = IF do = "delete" THEN parent ELSE [parent EXCEPT ![d] = p]
    BY <1>6 DEF Tree!DepartmentWrite, Tree!Finish
  <2>3. /\ call \in [Calls -> TreeCall] /\ parent \in Parentage /\ dept \in [Departments -> Tree!States]
        /\ owner \in BOOLEAN /\ record \in [Records -> Tree!States] /\ disturbed \in BOOLEAN
    BY DEF TreeInv, Tree!TypeOK, TreeCall, Parentage
  <2>4. call' \in [Calls -> TreeCall] /\ parent' \in Parentage /\ dept' \in [Departments -> Tree!States]
    BY <2>1, <2>2, <2>3 DEF Parentage, Tree!States
  <2>5. Tree!TypeOK'
    BY <2>2, <2>3, <2>4 DEF Tree!TypeOK, TreeCall, Parentage
  <2>6. \A b \in Calls : call'[b] = Tree!NoCall \/ call'[b] = call[b]
    BY <2>2, <2>3
  <2>7. TreeFollows'
    BY <2>6 DEF TreeInv, TreeFollows
  <2>8. ASSUME ~disturbed PROVE TreeAlone'
    <3>1. TreeAlone
      BY <2>8 DEF TreeInv
    <3>2. \A b \in Calls : call'[b] = Tree!NoCall
      <4>1. call[c] # Tree!NoCall
        BY <2>1
      <4> QED
        BY <2>2, <2>3, <4>1, <3>1 DEF TreeAlone
    <3>3. /\ \A x \in Departments : dept[x] # "none" => dept'[x] # "none"
          /\ dept'[d] # "none" /\ \A x \in Departments : x # d => dept'[x] = dept[x]
      <4>1. do \in {"move", "delete"} => dept[d] # "none"
        BY <3>1 DEF TreeAlone
      <4> QED
        BY <2>1, <2>2, <2>3, <4>1
    <3> HIDE DEF do, d, p
    <3>4. CASE do = "delete"
      <4>1. parent' = parent
        BY <2>2, <3>4
      <4> QED
        BY <2>3, <3>1, <3>2, <3>3, <4>1 DEF TreeAlone, Parentage
    <3>5. CASE do # "delete"
      <4>1. p # Tree!Nothing => dept[p] # "none" /\ d \notin Above(parent, p)
        BY <2>1, <3>1, <3>5 DEF TreeAlone, do, d, p
      <4>2. parent' = [parent EXCEPT ![d] = p]
        BY <2>2, <3>5
      <4>3. Acyclic(parent) /\ \A x \in Departments : 
              /\ parent[x] # Tree!Nothing => dept[parent[x]] # "none"
              /\ dept[x] = "none" => parent[x] = Tree!Nothing
        BY <3>1 DEF TreeAlone
      <4>4. Acyclic(parent')
        BY <2>1, <2>3, <4>1, <4>2, <4>3, Reparent
      <4>5. ASSUME NEW x \in Departments
            PROVE  /\ parent'[x] # Tree!Nothing => dept'[parent'[x]] # "none"
                   /\ dept'[x] = "none" => parent'[x] = Tree!Nothing
        <5>1. CASE x = d
          BY <2>1, <2>3, <3>3, <4>1, <4>2, <5>1 DEF Parentage
        <5>2. CASE x # d
          BY <2>1, <2>3, <3>3, <4>2, <4>3, <5>2 DEF Parentage
        <5> QED
          BY <5>1, <5>2
      <4> QED
        BY <3>2, <4>4, <4>5 DEF TreeAlone
    <3> QED
      BY <3>4, <3>5
  <2> QED
    BY <2>2, <2>5, <2>7, <2>8 DEF TreeInv
<1>7. ASSUME NEW c \in Calls, Tree!RecordWrite(c) PROVE TreeInv'
  <2> PICK r \in Records : r = call[c].on
    BY <1>7 DEF Tree!RecordWrite, TreeInv, TreeFollows
  <2>1. /\ call' = [call EXCEPT ![c] = Tree!NoCall] /\ UNCHANGED <<dept, parent, owner, disturbed>>
        /\ record' = [record EXCEPT ![r] = IF call[c].do = "drop" THEN "deleted" ELSE "live"]
    BY <1>7 DEF Tree!RecordWrite, Tree!Finish
  <2>2. Tree!TypeOK'
    BY <2>1 DEF TreeInv, Tree!TypeOK, Tree!States, TreeCall
  <2>3. \A b \in Calls : call'[b] = Tree!NoCall \/ call'[b] = call[b]
    BY <2>1 DEF TreeInv, Tree!TypeOK
  <2>4. TreeFollows' /\ (~disturbed => TreeAlone')
    BY <2>1, <2>3 DEF TreeInv, TreeFollows, TreeAlone
  <2> QED
    BY <2>1, <2>2, <2>4 DEF TreeInv
<1>8. ASSUME Tree!OwnerLeaves PROVE TreeInv'
  BY <1>8 DEF Tree!OwnerLeaves, TreeInv, Tree!TypeOK, TreeFollows, TreeAlone
<1> QED
  BY <1>1, <1>2, <1>3, <1>4, <1>5, <1>6, <1>7, <1>8 DEF Tree!Next

\* The invariant implies the property that the run checks.
LEMMA TreeOfDepartments == TreeInv => Tree!DepartmentsFormATree
<1> SUFFICES ASSUME TreeInv, ~disturbed, NEW d \in Departments, parent[d] # Tree!Nothing
             PROVE  d \notin Tree!Ancestors(parent[d])
  BY DEF Tree!DepartmentsFormATree
<1> QED
  BY AncestorsAbove DEF TreeInv, TreeAlone, Acyclic
-------------------------------------------------------------------------------
(* Payslips                                                                   *)

\* Amounts by code, of which some may be missing.
Context == [Codes -> Nat \cup {Math!Missing}]

LEMMA MathConstants ==
  /\ IsFiniteSet(Codes) /\ BASIC \in Codes /\ Value \in Nat /\ Percent \in Nat
  /\ Owns \subseteq Nat /\ IsFiniteSet(Month) /\ Math!Missing = -1
  BY PeopleAssumption, Zenon DEF PeopleAssumption, Math!Missing

\* The summands of a total are naturals.
LEMMA MathTotal ==
  ASSUME NEW S \in SUBSET Codes, NEW ctx \in Context
  PROVE  /\ IsFiniteSet(S) /\ Math!Total(S, ctx) \in Nat
         /\ Math!Total(S, ctx) = SumFunctionOnSet([k \in S |-> Math!Larger(0, ctx[k])], S)
         /\ \A k \in S : Math!Larger(0, ctx[k]) \in Nat
<1> DEFINE f == [k \in S |-> Math!Larger(0, ctx[k])]
<1>1. Math!Total(S, ctx) = SumFunctionOnSet(f, S)
  BY DEF Math!Total, Math!SumFunctionOnSet, Math!FoldFunctionOnSet, Math!MapThenFoldSet,
         SumFunctionOnSet, FoldFunctionOnSet, MapThenFoldSet
<1>2. \A k \in S : Math!Larger(0, ctx[k]) \in Nat
  BY MathConstants DEF Context, Math!Larger
<1>3. \A k \in S : f[k] \in Nat
  BY <1>2
<1>4. IsFiniteSet(S)
  BY MathConstants, FS_Subset
<1> HIDE DEF f
<1>5. SumFunctionOnSet(f, S) = Cardinality(Tokens(f, S)) /\ Cardinality(Tokens(f, S)) \in Nat
  BY <1>3, <1>4, SumIsCount, TokensFinite
<1> QED
  BY <1>1, <1>2, <1>4, <1>5 DEF f

\* A total depends on the amounts of its components only.
LEMMA MathTotalAgrees ==
  ASSUME NEW S \in SUBSET Codes, NEW ctx \in Context, NEW new \in Context,
         \A k \in S : new[k] = ctx[k]
  PROVE  Math!Total(S, new) = Math!Total(S, ctx)
<1>1. [k \in S |-> Math!Larger(0, new[k])] = [k \in S |-> Math!Larger(0, ctx[k])]
  OBVIOUS
<1>2. /\ Math!Total(S, ctx) = SumFunctionOnSet([k \in S |-> Math!Larger(0, ctx[k])], S)
      /\ Math!Total(S, new) = SumFunctionOnSet([k \in S |-> Math!Larger(0, new[k])], S)
  BY MathTotal
<1> QED
  BY <1>1, <1>2

\* A total over two sets that have nothing in common.
LEMMA MathTotalSplits ==
  ASSUME NEW S \in SUBSET Codes, NEW T \in SUBSET Codes, S \cap T = {}, NEW ctx \in Context
  PROVE  Math!Total(S \cup T, ctx) = Math!Total(S, ctx) + Math!Total(T, ctx)
<1> DEFINE f == [k \in Codes |-> Math!Larger(0, ctx[k])]
<1>1. \A k \in Codes : f[k] \in Nat /\ f[k] = Math!Larger(0, ctx[k])
  BY MathTotal
<1>2. ASSUME NEW U \in SUBSET Codes
      PROVE  /\ Math!Total(U, ctx) = Cardinality(Tokens(f, U)) /\ IsFiniteSet(Tokens(f, U))
             /\ Cardinality(Tokens(f, U)) \in Nat
  <2> DEFINE g == [k \in U |-> Math!Larger(0, ctx[k])]
  <2>1. IsFiniteSet(U) /\ Math!Total(U, ctx) = SumFunctionOnSet(g, U)
    BY MathTotal
  <2>2. \A k \in U : f[k] \in Nat /\ g[k] = f[k]
    BY <1>1
  <2> HIDE DEF f, g
  <2>3. SumFunctionOnSet(g, U) = SumFunctionOnSet(f, U)
    BY <2>1, <2>2, SumAgrees
  <2>4. SumFunctionOnSet(f, U) = Cardinality(Tokens(f, U))
    BY <2>1, <2>2, SumIsCount
  <2> QED
    BY <2>1, <2>2, <2>3, <2>4, TokensFinite
<1> HIDE DEF f
<1>3. Tokens(f, S \cup T) = Tokens(f, S) \cup Tokens(f, T)
  BY DEF Tokens
<1>4. Tokens(f, S) \cap Tokens(f, T) = {}
  BY DEF Tokens
<1> DEFINE A == Tokens(f, S)
           B == Tokens(f, T)
<1>5. IsFiniteSet(A) /\ IsFiniteSet(B) /\ Cardinality(A) \in Nat /\ Cardinality(B) \in Nat /\ A \cap B = {}
  BY <1>2, <1>4
<1> HIDE DEF A, B
<1>6. Cardinality(A \cup B) = Cardinality(A) + Cardinality(B) - Cardinality(A \cap B)
  BY <1>5, FS_Union
<1>7. Cardinality(A \cap B) = 0
  BY <1>5, FS_EmptySet
<1>8. Cardinality(A \cup B) = Cardinality(A) + Cardinality(B)
  BY <1>5, <1>6, <1>7
<1>9. S \cup T \in SUBSET Codes
  OBVIOUS
<1> QED
  BY <1>2, <1>3, <1>8, <1>9 DEF A, B

\* Rounding keeps natural numbers.
LEMMA MathRounded ==
  ASSUME NEW m \in Nat, NEW n \in Nat, n # 0
  PROVE  Math!Rounded(m, n) \in Nat
<1>1. 2 * m + n \in Nat /\ 2 * n \in Nat /\ 2 * n > 0
  OBVIOUS
<1> QED
  BY <1>1 DEF Math!Rounded

\* What is computed is an amount.
MathDays == [working : Nat, present : Nat, lop : Nat]

\* A component has a natural amount, whatever is missing.
LEMMA MathAmount ==
  ASSUME Math!TypeOK, NEW k \in Codes, NEW ctx \in Context
  PROVE  Math!Amount(k, ctx) \in Nat
<1> USE MathConstants
<1>1. /\ days.working \in Nat /\ days.present \in Nat /\ own \in Nat
      /\ catalogue[k].uses \in SUBSET Codes
  BY DEF Math!TypeOK, Math!Rows, Math!NoRow
<1>2. Math!Stated(Value) \in Nat /\ Math!Stated(Percent) \in Nat
  BY <1>1 DEF Math!Stated
<1>3. ASSUME days.working # 0 PROVE Math!Rounded(Math!Stated(Value) * days.present, days.working) \in Nat
  <2> DEFINE m == Math!Stated(Value) * days.present
  <2>1. m \in Nat
    BY <1>1, <1>2
  <2> HIDE DEF m
  <2>2. Math!Rounded(m, days.working) \in Nat
    BY <1>1, <1>3, <2>1, MathRounded
  <2> QED
    BY <2>2 DEF m
<1>4. Math!Rounded(Math!Larger(0, ctx[BASIC]) * Math!Stated(Percent), 100) \in Nat
  <2> DEFINE m == Math!Larger(0, ctx[BASIC]) * Math!Stated(Percent)
  <2>1. Math!Larger(0, ctx[BASIC]) \in Nat
    BY DEF Context, Math!Larger
  <2>2. m \in Nat
    BY <1>2, <2>1
  <2> HIDE DEF m
  <2>3. Math!Rounded(m, 100) \in Nat
    BY <2>2, MathRounded
  <2> QED
    BY <2>3 DEF m
<1>5. Math!Total(catalogue[k].uses, ctx) \in Nat
  BY <1>1, MathTotal
<1> QED
  BY <1>3, <1>4, <1>5 DEF Math!Amount

\* The summary of a month: what is lost is what was not attended, and no more than
\* there is, unless unpaid leave fell elsewhere than on an attended working day.
LEMMA MathSummary ==
  ASSUME NEW attended \in [Month -> 0..2], NEW leave \in SUBSET Month
  PROVE  /\ Math!Summary(attended, leave) \in MathDays
         /\ (\A d \in leave : d \in Math!WorkingDays /\ attended[d] = 2) =>
              LET s == Math!Summary(attended, leave) IN s.present + s.lop = s.working
<1> USE MathConstants
<1> DEFINE W == Math!WorkingDays
           here == SumFunctionOnSet(attended, Month)
           w == Cardinality(W)
           l == Cardinality(leave)
           lop == Math!Larger(0, 2 * w - here) + 2 * l
<1>1. /\ Math!Cardinality(W) = w /\ Math!Cardinality(leave) = l
      /\ Math!SumFunctionOnSet(attended, Month) = here
  BY DEF Math!Cardinality, Cardinality, Math!SumFunctionOnSet, Math!FoldFunctionOnSet, Math!MapThenFoldSet,
         SumFunctionOnSet, FoldFunctionOnSet, MapThenFoldSet
<1>2. /\ Math!Summary(attended, leave) =
           [working |-> 2 * w, lop |-> lop, present |-> Math!Larger(0, 2 * w - lop)]
  BY <1>1 DEF Math!Summary
<1>3. W \subseteq Month /\ IsFiniteSet(W) /\ IsFiniteSet(leave) /\ w \in Nat /\ l \in Nat
  <2>1. W \subseteq Month
    BY DEF Math!WorkingDays
  <2> QED
    BY <2>1, FS_Subset, FS_CardinalityType
<1>4. \A d \in Month : attended[d] \in Nat
  OBVIOUS
<1>5. here = Cardinality(Tokens(attended, Month)) /\ IsFiniteSet(Tokens(attended, Month)) /\ here \in Nat
  BY <1>4, SumIsCount, TokensFinite
<1>6. ASSUME \A d \in leave : d \in W /\ attended[d] = 2
      PROVE  l <= w /\ 2 * l <= here
  <2>1. leave \subseteq W
    BY <1>6
  <2>2. l <= w
    BY <1>3, <2>1, FS_Subset
  <2>3. leave \X (1..2) \subseteq Tokens(attended, Month)
    BY <1>6 DEF Tokens
  <2>4. IsFiniteSet(1..2) /\ Cardinality(1..2) = 2
    <3>1. ASSUME NEW n \in Nat PROVE IsFiniteSet(1..n) /\ Cardinality(1..n) = n
      BY FS_Interval
    <3> QED
      BY <3>1
  <2>5. IsFiniteSet(leave \X (1..2)) /\ Cardinality(leave \X (1..2)) = l * 2
    BY <1>3, <2>4, FS_Product
  <2>6. Cardinality(leave \X (1..2)) <= here
    BY <1>5, <2>3, FS_Subset
  <2> QED
    BY <1>3, <2>2, <2>5, <2>6
<1> HIDE DEF W, here, w, l
<1>7. lop \in Nat
  BY <1>3, <1>5 DEF Math!Larger
<1>8. Math!Larger(0, 2 * w - lop) \in Nat
  BY <1>3, <1>7 DEF Math!Larger
<1>9. Math!Summary(attended, leave) \in MathDays
  <2> HIDE DEF lop
  <2>1. 2 * w \in Nat
    BY <1>3
  <2> QED
    BY <1>2, <1>7, <1>8, <2>1 DEF MathDays
<1>10. ASSUME \A d \in leave : d \in Math!WorkingDays /\ attended[d] = 2
       PROVE  LET s == Math!Summary(attended, leave) IN s.present + s.lop = s.working
  <2>1. l <= w /\ 2 * l <= here
    BY <1>6, <1>10 DEF W
  <2>2. lop <= 2 * w
    BY <1>3, <1>5, <2>1 DEF Math!Larger
  <2> HIDE DEF lop
  <2>3. Math!Larger(0, 2 * w - lop) = 2 * w - lop
    BY <1>3, <1>7, <2>2 DEF Math!Larger
  <2> QED
    BY <1>2, <1>3, <1>7, <2>3
<1> QED
  BY <1>9, <1>10

-------------------------------------------------------------------------------
\* How many components the catalogue has.
MathSize == Cardinality(Math!Known)

\* The structure has every component of the catalogue once.
MathOrdered ==
  /\ order \in [1..MathSize -> Math!Known]
  /\ \A i, j \in 1..MathSize : order[i] = order[j] => i = j
  /\ \A k \in Math!Known : \E i \in 1..MathSize : order[i] = k

\* A percentage of basic pay that is computed before basic pay.
Misplaced(k) == catalogue[k].method = "PERCENT_OF_BASIC" /\ ~Math!Earlier(BASIC, k)

\* The first components of the order have their amounts, and each of them uses earlier
\* ones only.
MathProgress(done) ==
  /\ \A i \in 1..MathSize : amount[order[i]] = Math!Missing <=> done < i
  /\ \A k \in Codes \ Math!Known : amount[k] = Math!Missing
  /\ \A i \in 1..MathSize : i <= done =>
       /\ \A j \in catalogue[order[i]].uses : \E m \in 1..MathSize : m < i /\ order[m] = j
       /\ Misplaced(order[i]) \/ amount[order[i]] = Math!Amount(order[i], amount)
  /\ phase = "HELD" => /\ done + 1 \in 1..MathSize
                       /\ \E j \in catalogue[order[done + 1]].uses : amount[j] = Math!Missing
  /\ phase = "COMPUTED" => done = MathSize

\* Nothing is computed yet.
MathNone == order = <<>> /\ \A k \in Codes : amount[k] = Math!Missing

\* The payslip: the inductive invariant.
MathInv ==
  /\ Math!TypeOK
  /\ ~twice => days.present + days.lop = days.working
  /\ IF phase = "setup" THEN MathNone
     ELSE MathOrdered /\ \E done \in 0..MathSize : MathProgress(done)

\* An amount depends on those of the components that its definition names.
LEMMA MathAmountAgrees ==
  ASSUME Math!TypeOK, NEW k \in Codes, NEW ctx \in Context, NEW new \in Context,
         \A j \in catalogue[k].uses : new[j] = ctx[j],
         catalogue[k].method = "PERCENT_OF_BASIC" => new[BASIC] = ctx[BASIC]
  PROVE  Math!Amount(k, new) = Math!Amount(k, ctx)
<1>1. catalogue[k].uses \in SUBSET Codes
  BY DEF Math!TypeOK, Math!Rows, Math!NoRow
<1>2. Math!Total(catalogue[k].uses, new) = Math!Total(catalogue[k].uses, ctx)
  BY <1>1, MathTotalAgrees
<1> QED
  BY <1>2 DEF Math!Amount

LEMMA MathSizes ==
  ASSUME Math!TypeOK
  PROVE  /\ Math!Known \subseteq Codes /\ IsFiniteSet(Math!Known) /\ MathSize \in Nat
         /\ Math!Cardinality(Math!Known) = MathSize
         /\ amount \in Context
<1>1. Math!Known \subseteq Codes
  BY DEF Math!Known
<1>2. IsFiniteSet(Math!Known) /\ MathSize \in Nat
  BY <1>1, MathConstants, FS_Subset, FS_CardinalityType DEF MathSize
<1>3. Math!Cardinality(Math!Known) = MathSize
  BY DEF MathSize, Math!Cardinality, Cardinality
<1> QED
  BY <1>1, <1>2, <1>3 DEF Math!TypeOK, Context

\* The payslip: the invariant holds at the start.
LEMMA MathInit == Math!Init => MathInv
<1> SUFFICES ASSUME Math!Init PROVE MathInv
  OBVIOUS
<1> USE MathConstants
<1>1. PICK attended \in [Month -> 0..2], leave \in SUBSET Month :
        /\ days = Math!Summary(attended, leave)
        /\ twice = \E d \in leave : d \notin Math!WorkingDays \/ attended[d] < 2
  BY DEF Math!Init
<1>2. days \in MathDays
  BY <1>1, MathSummary
<1>3. ~twice => days.present + days.lop = days.working
  <2> SUFFICES ASSUME ~twice PROVE days.present + days.lop = days.working
    OBVIOUS
  <2>1. \A d \in leave : d \in Math!WorkingDays /\ attended[d] = 2
    <3>1. \A d \in leave : attended[d] \in 0..2
      BY <1>1
    <3> QED
      BY <1>1, <3>1
  <2> QED
    BY <1>1, <2>1, MathSummary
<1>4. twice \in BOOLEAN
  BY <1>1, Zenon
<1>5. /\ catalogue = [k \in Codes |-> Math!NoRow] /\ order = <<>> /\ own \in Owns
      /\ amount = [k \in Codes |-> Math!Missing] /\ phase = "setup"
  BY DEF Math!Init
<1>6. Math!TypeOK
  BY <1>2, <1>4, <1>5 DEF Math!TypeOK, MathDays
<1>7. MathNone
  BY <1>5 DEF MathNone
<1> QED
  BY <1>3, <1>5, <1>6, <1>7 DEF MathInv

\* The payslip: every step, and a stutter, keeps the invariant.
LEMMA MathNext == MathInv /\ [Math!Next]_(Math!vars) => MathInv'
<1> SUFFICES ASSUME MathInv, [Math!Next]_(Math!vars) PROVE MathInv'
  OBVIOUS
<1>0. Math!TypeOK /\ (~twice => days.present + days.lop = days.working)
  BY DEF MathInv
<1>1. CASE UNCHANGED Math!vars
  <2>1. /\ catalogue' = catalogue /\ days' = days /\ twice' = twice /\ order' = order
        /\ own' = own /\ amount' = amount /\ phase' = phase
    BY <1>1 DEF Math!vars
  <2>2. Math!TypeOK'
    BY <1>0, <2>1 DEF Math!TypeOK
  <2>3. MathNone => MathNone'
    BY <2>1 DEF MathNone
  <2>4. MathSize' = MathSize /\ Math!Known' = Math!Known
    BY <2>1 DEF MathSize, Math!Known
  <2>5. MathOrdered => MathOrdered'
    BY <2>1, <2>4 DEF MathOrdered
  <2>6. ASSUME NEW done, MathProgress(done) PROVE MathProgress(done)'
    <3>1. ASSUME NEW k PROVE Misplaced(k)' = Misplaced(k) /\ Math!Amount(k, amount)' = Math!Amount(k, amount)
      BY <2>1 DEF Misplaced, Math!Earlier, Math!Amount, Math!Total, Math!Stated
    <3> QED
      BY <2>1, <2>4, <2>6, <3>1 DEF MathProgress, Math!Missing
  <2>7. (\E done \in 0..MathSize : MathProgress(done)) => (\E done \in 0..MathSize : MathProgress(done))'
    BY <2>4, <2>6
  <2>8. /\ ~twice' => days'.present + days'.lop = days'.working
        /\ IF phase' = "setup" THEN MathNone'
           ELSE MathOrdered' /\ (\E done \in 0..MathSize : MathProgress(done))'
    BY <1>0, <2>1, <2>3, <2>5, <2>7 DEF MathInv
  <2> QED
    BY <2>2, <2>8 DEF MathInv
<1>2. ASSUME NEW k \in Codes, NEW row \in Math!Rows, Math!Put(k, row) PROVE MathInv'
  <2>1. /\ phase = "setup" /\ catalogue' = [catalogue EXCEPT ![k] = row]
        /\ days' = days /\ twice' = twice /\ order' = order
        /\ own' = own /\ amount' = amount /\ phase' = phase
    BY <1>2 DEF Math!Put
  <2>2. Math!TypeOK'
    BY <1>0, <2>1 DEF Math!TypeOK
  <2>3. MathNone'
    BY <2>1 DEF MathInv, MathNone
  <2> QED
    BY <1>0, <2>1, <2>2, <2>3 DEF MathInv
<1>3. ASSUME NEW codes \in Math!SetToSeqs(Math!Known), Math!Start(codes) PROVE MathInv'
  <2>1. /\ phase = "setup" /\ phase' = "computing" /\ order' = codes
        /\ Math!ToSet(codes) = Math!Known
        /\ catalogue' = catalogue /\ days' = days /\ twice' = twice
        /\ own' = own /\ amount' = amount
    BY <1>3 DEF Math!Start
  <2>2. /\ Math!Known \subseteq Codes /\ MathSize \in Nat
        /\ Math!Cardinality(Math!Known) = MathSize
    BY <1>0, MathSizes
  <2>3. /\ codes \in [1..MathSize -> Math!Known]
        /\ \A i, j \in 1..MathSize : i # j => codes[i] # codes[j]
    BY <1>3, <2>2 DEF Math!SetToSeqs
  <2>4. \A k \in Math!Known : \E i \in 1..MathSize : codes[i] = k
    BY <2>1, <2>3 DEF Math!ToSet
  <2>5. MathSize' = MathSize /\ Math!Known' = Math!Known
    BY <2>1 DEF MathSize, Math!Known
  <2>6. codes \in Seq(Codes)
    <3>1. codes \in [1..MathSize -> Codes]
      BY <2>2, <2>3
    <3> QED
      BY <2>2, <3>1
  <2>7. Math!TypeOK'
    BY <1>0, <2>1, <2>6 DEF Math!TypeOK
  <2>8. MathOrdered'
    BY <2>1, <2>3, <2>4, <2>5 DEF MathOrdered
  <2>9. \A k \in Codes : amount[k] = Math!Missing
    BY <2>1 DEF MathInv, MathNone
  <2>10. 0 \in 0..MathSize /\ MathProgress(0)'
    <3>1. \A i \in 1..MathSize : codes[i] \in Codes /\ 0 < i /\ ~(i <= 0)
      BY <2>2, <2>3
    <3>2. \A i \in 1..MathSize : amount'[order'[i]] = Math!Missing <=> 0 < i
      BY <2>1, <2>9, <3>1
    <3>3. \A i \in 1..MathSize : ~(i <= 0)
      BY <3>1
    <3> QED
      BY <2>1, <2>2, <2>5, <2>9, <3>2, <3>3 DEF MathProgress, Math!Missing
  <2>11. (\E done \in 0..MathSize : MathProgress(done))'
    BY <2>5, <2>10
  <2> QED
    BY <1>0, <2>1, <2>7, <2>8, <2>11 DEF MathInv
<1>4. ASSUME phase = "computing" PROVE MathOrdered /\ \E done \in 0..MathSize : MathProgress(done)
  BY <1>4 DEF MathInv
<1>5. ASSUME phase = "computing", NEW done \in 0..MathSize, MathOrdered, MathProgress(done)
      PROVE  Math!Left = {i \in 1..MathSize : done < i}
  <2>1. MathSize \in Nat
    BY <1>0, MathSizes
  <2>2. DOMAIN order = 1..MathSize
    BY <1>5 DEF MathOrdered
  <2> QED
    BY <1>5, <2>1, <2>2 DEF Math!Left, MathProgress
<1>6. CASE Math!Finish
  <2>1. /\ phase = "computing" /\ Math!Left = {} /\ phase' = "COMPUTED"
        /\ catalogue' = catalogue /\ days' = days /\ twice' = twice /\ order' = order
        /\ own' = own /\ amount' = amount
    BY <1>6 DEF Math!Finish
  <2>2. MathOrdered /\ MathSize \in Nat
    BY <1>0, <1>4, <2>1, MathSizes
  <2>3. PICK done \in 0..MathSize : MathProgress(done)
    BY <1>4, <2>1
  <2>4. done = MathSize
    <3>1. MathSize \notin Math!Left
      BY <2>1
    <3> QED
      BY <1>5, <2>1, <2>2, <2>3, <3>1
  <2>5. MathOrdered'
    BY <2>1, <2>2 DEF MathOrdered, MathSize, Math!Known
  <2>6. MathSize' = MathSize
    BY <2>1 DEF MathSize, Math!Known
  <2>7. \A k \in Codes : Misplaced(k)' = Misplaced(k) /\ Math!Amount(k, amount)' = Math!Amount(k, amount)
    BY <2>1 DEF Misplaced, Math!Earlier, Math!Amount, Math!Total, Math!Stated
  <2>8. MathProgress(done)'
    <3>1. Math!Known' = Math!Known
      BY <2>1 DEF Math!Known
    <3>2. \A i \in 1..MathSize : order[i] \in Codes
      BY <1>0, <2>2, MathSizes DEF MathOrdered
    <3> QED
      BY <2>1, <2>3, <2>4, <2>6, <2>7, <3>1, <3>2 DEF MathProgress
  <2>9. Math!TypeOK'
    BY <1>0, <2>1 DEF Math!TypeOK
  <2>10. (\E d \in 0..MathSize : MathProgress(d))'
    BY <2>6, <2>8
  <2> QED
    BY <1>0, <2>1, <2>5, <2>9, <2>10 DEF MathInv
<1>7. CASE Math!computeForEmployee
  <2>1. /\ phase = "computing" /\ Math!Left # {}
        /\ catalogue' = catalogue /\ days' = days /\ twice' = twice /\ order' = order
        /\ own' = own
    BY <1>7 DEF Math!computeForEmployee
  <2>2. /\ MathOrdered /\ MathSize \in Nat /\ Math!Known \subseteq Codes /\ amount \in Context
    BY <1>0, <1>4, <2>1, MathSizes
  <2>3. PICK done \in 0..MathSize : MathProgress(done)
    BY <1>4, <2>1
  <2> DEFINE at == done + 1
             k  == order[at]
  <2>4. Math!Left = {i \in 1..MathSize : done < i}
    BY <1>5, <2>1, <2>2, <2>3
  <2>5. /\ at \in 1..MathSize /\ done < at /\ at \in Math!Left
        /\ \A j \in Math!Left : at <= j
    BY <2>1, <2>2, <2>4
  <2>6. (CHOOSE i \in Math!Left : \A j \in Math!Left : i <= j) = at
    BY <2>2, <2>4, <2>5
  <2> HIDE DEF at
  <2>7. /\ k \in Math!Known /\ k \in Codes
    BY <2>2, <2>5 DEF MathOrdered
  <2>8. IF Math!Throws(k, amount) THEN phase' = "HELD" /\ amount' = amount
        ELSE amount' = [amount EXCEPT ![k] = Math!Amount(k, amount)] /\ phase' = phase
    BY <1>7, <2>6 DEF Math!computeForEmployee
  <2> HIDE DEF k
  <2>9. MathOrdered' /\ MathSize' = MathSize /\ Math!Known' = Math!Known
    BY <2>1, <2>2 DEF MathOrdered, MathSize, Math!Known
  <2>10. \A c \in Codes : Misplaced(c)' = Misplaced(c)
    BY <2>1 DEF Misplaced, Math!Earlier
  <2>11. ASSUME NEW c \in Codes, NEW ctx PROVE Math!Amount(c, ctx)' = Math!Amount(c, ctx')
    BY <2>1 DEF Math!Amount, Math!Total, Math!Stated
  <2>12. \A i \in 1..MathSize : order[i] \in Codes /\ order[i] \in Math!Known
    BY <2>2 DEF MathOrdered
  <2>13. /\ \A i \in 1..MathSize : amount[order[i]] = Math!Missing <=> done < i
         /\ \A c \in Codes \ Math!Known : amount[c] = Math!Missing
         /\ \A i \in 1..MathSize : i <= done =>
              /\ \A j \in catalogue[order[i]].uses : \E m \in 1..MathSize : m < i /\ order[m] = j
              /\ Misplaced(order[i]) \/ amount[order[i]] = Math!Amount(order[i], amount)
    BY <2>3 DEF MathProgress
  <2>14. \A c \in Codes : catalogue[c].uses \in SUBSET Codes
    BY <1>0 DEF Math!TypeOK, Math!Rows, Math!NoRow
  <2>15. CASE Math!Throws(k, amount)
    <3>1. phase' = "HELD" /\ amount' = amount
      BY <2>8, <2>15
    <3>2. Math!TypeOK'
      BY <1>0, <2>1, <3>1 DEF Math!TypeOK
    <3>3. \E j \in catalogue[k].uses : amount[j] = Math!Missing
      BY <2>15 DEF Math!Throws
    <3>4. \A i \in 1..MathSize : Math!Amount(order[i], amount)' = Math!Amount(order[i], amount)
      <4>1. ASSUME NEW c \in Codes PROVE Math!Amount(c, amount)' = Math!Amount(c, amount)
        BY <2>1, <3>1 DEF Math!Amount, Math!Total, Math!Stated
      <4> QED
        BY <2>1, <2>12, <4>1
    <3>5. MathProgress(done)'
      <4>1. \A i \in 1..MathSize : i <= done =>
              /\ \A j \in catalogue[order[i]].uses : \E m \in 1..MathSize : m < i /\ order[m] = j
              /\ Misplaced(order[i])' \/ amount[order[i]] = Math!Amount(order[i], amount)'
        BY <2>1, <2>10, <2>12, <2>13, <3>4
      <4> QED
        BY <2>1, <2>5, <2>9, <2>13, <3>1, <3>3, <4>1 DEF MathProgress, at, k
    <3>6. (\E d \in 0..MathSize : MathProgress(d))'
      BY <2>9, <3>5
    <3> QED
      BY <1>0, <2>1, <2>9, <3>1, <3>2, <3>6 DEF MathInv
  <2>16. CASE ~Math!Throws(k, amount)
    <3> DEFINE new == [amount EXCEPT ![k] = Math!Amount(k, amount)]
    <3>1. amount' = new /\ phase' = phase
      BY <2>8, <2>16
    <3>2. Math!Amount(k, amount) \in Nat
      BY <1>0, <2>2, <2>7, MathAmount
    <3>3. new \in Context /\ new[k] = Math!Amount(k, amount) /\ \A c \in Codes : c # k => new[c] = amount[c]
      BY <2>2, <2>7, <3>2 DEF Context
    <3> HIDE DEF new
    <3>4. Math!TypeOK'
      BY <1>0, <2>1, <3>1, <3>3 DEF Math!TypeOK, Context
    <3>5. \A j \in catalogue[k].uses :
            amount[j] # Math!Missing /\ j \in Codes /\ j # k
            /\ \E m \in 1..MathSize : m < at /\ order[m] = j
      <4> TAKE j \in catalogue[k].uses
      <4>1. amount[j] # Math!Missing /\ j \in Codes
        BY <2>7, <2>14, <2>16 DEF Math!Throws
      <4>2. PICK m \in 1..MathSize : order[m] = j
        BY <2>2, <2>13, <4>1 DEF MathOrdered
      <4>3. ~(done < m)
        BY <2>13, <4>1, <4>2
      <4>4. m < at
        BY <2>2, <4>3 DEF at
      <4>5. j # k
        BY <2>5, <2>13, <4>1 DEF k
      <4> QED
        BY <4>1, <4>2, <4>4, <4>5
    <3>6. ASSUME NEW i \in 1..MathSize, i <= at, ~Misplaced(order[i]),
                 \A j \in catalogue[order[i]].uses : \E m \in 1..MathSize : m < i /\ order[m] = j
          PROVE  Math!Amount(order[i], new) = Math!Amount(order[i], amount)
      <4>1. ASSUME NEW m \in 1..MathSize, m < i PROVE new[order[m]] = amount[order[m]]
        <5>1. order[m] # k
          <6>1. m # at
            BY <2>5, <3>6, <4>1, <2>2
          <6> QED
            BY <2>2, <2>5, <6>1 DEF MathOrdered, k
        <5> QED
          BY <2>12, <3>3, <5>1
      <4>2. \A j \in catalogue[order[i]].uses : new[j] = amount[j]
        BY <3>6, <4>1
      <4>3. catalogue[order[i]].method = "PERCENT_OF_BASIC" => new[BASIC] = amount[BASIC]
        <5> SUFFICES ASSUME catalogue[order[i]].method = "PERCENT_OF_BASIC"
                     PROVE  new[BASIC] = amount[BASIC]
          OBVIOUS
        <5>1. Math!Earlier(BASIC, order[i])
          BY <3>6 DEF Misplaced
        <5>2. PICK m \in 1..MathSize, n \in 1..MathSize : m < n /\ order[m] = BASIC /\ order[n] = order[i]
          BY <2>2, <5>1 DEF Math!Earlier, MathOrdered
        <5>3. n = i
          BY <2>2, <5>2 DEF MathOrdered
        <5> QED
          BY <4>1, <5>2, <5>3
      <4> QED
        BY <1>0, <2>2, <2>12, <3>3, <4>2, <4>3, MathAmountAgrees
    <3>7. \A i \in 1..MathSize : i <= at =>
            /\ \A j \in catalogue[order[i]].uses : \E m \in 1..MathSize : m < i /\ order[m] = j
            /\ Misplaced(order[i]) \/ new[order[i]] = Math!Amount(order[i], new)
      <4> SUFFICES ASSUME NEW i \in 1..MathSize, i <= at
                   PROVE  /\ \A j \in catalogue[order[i]].uses : \E m \in 1..MathSize : m < i /\ order[m] = j
                          /\ ~Misplaced(order[i]) => new[order[i]] = Math!Amount(order[i], new)
        OBVIOUS
      <4>1. CASE i = at
        <5>1. \A j \in catalogue[order[i]].uses : \E m \in 1..MathSize : m < i /\ order[m] = j
          BY <3>5, <4>1 DEF k
        <5> QED
          BY <3>3, <3>6, <4>1, <5>1 DEF k
      <4>2. CASE i # at
        <5>1. i <= done
          BY <2>2, <4>2 DEF at
        <5>2. \A j \in catalogue[order[i]].uses : \E m \in 1..MathSize : m < i /\ order[m] = j
          BY <2>13, <5>1
        <5>3. order[i] # k
          BY <2>2, <2>5, <4>2 DEF MathOrdered, k
        <5>4. new[order[i]] = amount[order[i]]
          BY <2>12, <3>3, <5>3
        <5> QED
          BY <2>13, <3>6, <5>1, <5>2, <5>4
      <4> QED
        BY <4>1, <4>2
    <3>8. \A i \in 1..MathSize : new[order[i]] = Math!Missing <=> at < i
      <4> TAKE i \in 1..MathSize
      <4>1. CASE i = at
        BY <2>2, <2>5, <3>2, <3>3, <4>1, MathConstants DEF k
      <4>2. CASE i # at
        <5>1. order[i] # k
          BY <2>2, <2>5, <4>2 DEF MathOrdered, k
        <5>2. new[order[i]] = amount[order[i]]
          BY <2>12, <3>3, <5>1
        <5>3. done < i <=> at < i
          BY <2>2, <4>2 DEF at
        <5> QED
          BY <2>13, <5>2, <5>3
      <4> QED
        BY <4>1, <4>2
    <3>9. \A c \in Codes \ Math!Known : new[c] = Math!Missing
      BY <2>7, <2>13, <3>3
    <3>10. at \in 0..MathSize /\ MathProgress(at)'
      <4>1. \A i \in 1..MathSize : Misplaced(order[i])' = Misplaced(order[i])
        BY <2>1, <2>10, <2>12
      <4>2. \A i \in 1..MathSize : Math!Amount(order[i], amount)' = Math!Amount(order[i], new)
        <5>1. ASSUME NEW c \in Codes PROVE Math!Amount(c, amount)' = Math!Amount(c, new)
          BY <2>1, <3>1 DEF Math!Amount, Math!Total, Math!Stated
        <5> QED
          BY <2>1, <2>12, <5>1
      <4>3. phase' = "computing"
        BY <2>1, <3>1
      <4>4. \A i \in 1..MathSize : i <= at =>
            /\ \A j \in catalogue[order[i]].uses : \E m \in 1..MathSize : m < i /\ order[m] = j
            /\ Misplaced(order[i])' \/ new[order[i]] = Math!Amount(order[i], amount)'
        BY <3>7, <4>1, <4>2
      <4>5. at \in 0..MathSize
        BY <2>2, <2>5
      <4> QED
        BY <2>1, <2>9, <3>1, <3>8, <3>9, <4>3, <4>4, <4>5 DEF MathProgress, Math!Missing
    <3>11. (\E d \in 0..MathSize : MathProgress(d))'
      BY <2>9, <3>10
    <3>12. phase' = "computing"
      BY <2>1, <3>1
    <3> QED
      BY <1>0, <2>1, <2>9, <3>4, <3>11, <3>12 DEF MathInv
  <2> QED
    BY <2>15, <2>16
<1> QED
  BY <1>1, <1>2, <1>3, <1>6, <1>7 DEF Math!Next, Math!create, Math!update
-------------------------------------------------------------------------------
(* The references of a catalogue                                              *)

Pairs  == Math!Known \X Math!Known
\* A component with one that its formula names.
Direct == {e \in Pairs : e[2] \in catalogue[e[1]].uses}

\* The chains of references of every length exist.
Chains(m, f) ==
  f = [n \in 1..m |-> IF n = 1 THEN Direct
                      ELSE f[n - 1] \cup {e \in Pairs : \E j \in Math!Known :
                             <<e[1], j>> \in Direct /\ <<j, e[2]>> \in f[n - 1]}]

\* The pairs of R, and those with one more step.
Longer(R) == R \cup {e \in Pairs : \E j \in Math!Known :
                       <<e[1], j>> \in Direct /\ <<j, e[2]>> \in R}

\* The chains of n + 1 steps from those of n.
LEMMA ChainStep ==
  ASSUME NEW m \in Nat, NEW f, Chains(m, f), NEW n \in Nat, 1 <= n, n + 1 <= m
  PROVE  f[n + 1] = Longer(f[n])
<1> DEFINE body(k) == IF k = 1 THEN Direct ELSE Longer(f[k - 1])
<1>1. f = [k \in 1..m |-> body(k)]
  BY DEF Chains, Longer
<1>2. body(n + 1) = Longer(f[n + 1 - 1]) /\ n + 1 - 1 = n /\ n + 1 \in 1..m
  OBVIOUS
<1> HIDE DEF body
<1>3. f[n + 1] = body(n + 1)
  BY <1>1, <1>2
<1> QED
  BY <1>2, <1>3

\* The recursive function of Reaches exists, however long the chains.
LEMMA ChainsExist ==
  ASSUME NEW N \in Nat
  PROVE  \E f : Chains(N, f)
<1> DEFINE Good == {m \in Nat : \E f : Chains(m, f)}
<1>1. 0 \in Good
  <2>1. Chains(0, [n \in 1..0 |-> Direct])
    BY DEF Chains
  <2> QED
    BY <2>1
<1>2. ASSUME NEW m \in Nat, m \in Good PROVE m + 1 \in Good
  <2>1. PICK f : Chains(m, f)
    BY <1>2
  <2> DEFINE g == [n \in 1..(m + 1) |-> IF n = m + 1 /\ n # 1 THEN Longer(f[m])
                                        ELSE IF n = 1 THEN Direct ELSE f[n]]
  <2>2. ASSUME NEW n \in 1..(m + 1)
        PROVE  g[n] = IF n = 1 THEN Direct ELSE Longer(g[n - 1])
    <3>0. ASSUME m >= 1 PROVE f[1] = Direct
      BY <2>1, <3>0 DEF Chains
    <3>1. CASE n = 1
      BY <3>1
    <3>2. CASE n # 1 /\ n = m + 1
      <4>1. n - 1 = m /\ m \in 1..(m + 1) /\ m # m + 1
        BY <3>2
      <4>2. g[m] = f[m]
        BY <3>0, <4>1
      <4> QED
        BY <3>2, <4>1, <4>2
    <3>3. CASE n # 1 /\ n # m + 1
      <4>1. n - 1 \in Nat /\ 1 <= n - 1 /\ n - 1 + 1 <= m /\ n - 1 + 1 = n /\ n - 1 # m + 1
            /\ n - 1 \in 1..(m + 1)
        BY <3>3
      <4>2. f[n] = Longer(f[n - 1])
        BY <2>1, <4>1, ChainStep
      <4>3. g[n - 1] = f[n - 1]
        BY <3>0, <4>1
      <4> QED
        BY <3>3, <4>2, <4>3
    <3> QED
      BY <3>1, <3>2, <3>3
  <2>3. Chains(m + 1, g)
    <3>1. DOMAIN g = 1..(m + 1) /\ g = [n \in 1..(m + 1) |-> g[n]]
      OBVIOUS
    <3> HIDE DEF g
    <3> QED
      BY <2>2, <3>1 DEF Chains, Longer
  <2> HIDE DEF g
  <2> QED
    BY <2>3
<1> HIDE DEF Good
<1>3. N \in Good
  BY <1>1, <1>2, NatFamily
<1> QED
  BY <1>3 DEF Good

\* Reaches is the least set of pairs with every reference, and with every pair that a
\* reference and one of its pairs make.
LEMMA ReachesIsClosure ==
  ASSUME Math!TypeOK
  PROVE  /\ Direct \subseteq Math!Reaches /\ Math!Reaches \subseteq Pairs
         /\ \A a, b, c \in Math!Known :
              <<a, b>> \in Direct /\ <<b, c>> \in Math!Reaches => <<a, c>> \in Math!Reaches
         /\ \A P : /\ Direct \subseteq P
                   /\ \A a, b, c \in Math!Known :
                        <<a, b>> \in Direct /\ <<b, c>> \in P => <<a, c>> \in P
                   => Math!Reaches \subseteq P
<1> DEFINE N == Cardinality(Codes)
           reach == CHOOSE f : Chains(N, f)
<1>1. /\ IsFiniteSet(Codes) /\ N \in Nat /\ 1 <= N /\ Math!Known \subseteq Codes
  <2>1. IsFiniteSet(Codes) /\ Codes # {}
    BY MathConstants
  <2>2. N \in Nat /\ N # 0
    BY <2>1, FS_CardinalityType, FS_EmptySet
  <2> QED
    BY <2>1, <2>2, MathSizes
<1>2. Math!Reaches = reach[N]
  <2>1. Math!Cardinality(Codes) = Cardinality(Codes)
    BY DEF Math!Cardinality, Cardinality
  <2> QED
    BY <2>1 DEF Math!Reaches, Chains, Direct, Pairs
<1> HIDE DEF N
<1>3. Chains(N, reach)
  <2>1. \E f : Chains(N, f)
    BY <1>1, ChainsExist
  <2> QED
    BY <2>1
<1> HIDE DEF reach
<1>4. reach[1] = Direct
  BY <1>1, <1>3 DEF Chains
<1>5. ASSUME NEW n \in Nat, 1 <= n, n + 1 <= N PROVE reach[n + 1] = Longer(reach[n])
  BY <1>1, <1>3, <1>5, ChainStep
<1> DEFINE Base == {n \in Nat : n + 1 <= N => Direct \subseteq reach[n + 1] /\ reach[n + 1] \subseteq Pairs}
<1>6. \A n \in Nat : n \in Base
  <2>1. 0 \in Base
    BY <1>4 DEF Direct
  <2>2. ASSUME NEW n \in Nat, n \in Base PROVE n + 1 \in Base
    <3> SUFFICES ASSUME n + 1 + 1 <= N
                 PROVE  Direct \subseteq reach[n + 1 + 1] /\ reach[n + 1 + 1] \subseteq Pairs
      OBVIOUS
    <3>1. reach[n + 1 + 1] = Longer(reach[n + 1])
      BY <1>1, <1>5
    <3>2. Direct \subseteq reach[n + 1] /\ reach[n + 1] \subseteq Pairs
      BY <1>1, <2>2
    <3> QED
      BY <3>1, <3>2 DEF Longer
  <2> HIDE DEF Base
  <2> QED
    BY <2>1, <2>2, NatFamily
<1>7. \A n \in Nat : 1 <= n /\ n <= N => Direct \subseteq reach[n] /\ reach[n] \subseteq Pairs
  <2> TAKE n \in Nat
  <2> HAVE 1 <= n /\ n <= N
  <2>1. n - 1 \in Nat /\ n - 1 + 1 = n
    OBVIOUS
  <2>2. n - 1 \in Base
    BY <1>6, <2>1
  <2> QED
    BY <2>1, <2>2
<1> HIDE DEF Base
<1>8. ASSUME NEW a \in Math!Known, NEW b \in Math!Known, NEW c \in Math!Known,
             <<a, b>> \in Direct, <<b, c>> \in reach[N]
      PROVE  <<a, c>> \in reach[N]
  <2> DEFINE To(n) == {x \in Math!Known : <<x, c>> \in reach[n]}
             Full(S) == \A x, y \in Math!Known : <<x, y>> \in Direct /\ y \in S => x \in S
             H == {n \in Nat : n + 1 <= N => Full(To(n + 1)) \/ Cardinality(To(n + 1)) >= n + 1}
  <2>1. \A n : IsFiniteSet(To(n)) /\ Cardinality(To(n)) \in Nat /\ To(n) \subseteq Codes
    <3> TAKE n
    <3>1. To(n) \subseteq Codes
      BY <1>1
    <3> HIDE DEF To
    <3> QED
      BY <1>1, <3>1, FS_Subset, FS_CardinalityType
  <2>2. 0 \in H
    <3>1. CASE To(1) = {}
      <4>1. Full(To(1))
        BY <3>1
      <4> QED
        BY <4>1
    <3>2. CASE To(1) # {}
      <4> HIDE DEF To
      <4>1. Cardinality(To(1)) # 0
        BY <2>1, <3>2, FS_EmptySet
      <4>2. Cardinality(To(1)) >= 1
        BY <2>1, <4>1
      <4> QED
        BY <4>2
    <3> QED
      BY <3>1, <3>2
  <2>3. ASSUME NEW n \in Nat, n \in H PROVE n + 1 \in H
    <3> SUFFICES ASSUME n + 1 + 1 <= N, ~Full(To(n + 1 + 1))
                 PROVE  Cardinality(To(n + 1 + 1)) >= n + 1 + 1
      OBVIOUS
    <3> DEFINE A == To(n + 1)
               B == To(n + 1 + 1)
    <3>1. reach[n + 1 + 1] = Longer(reach[n + 1])
      BY <1>1, <1>5
    <3>2. A \subseteq B
      BY <3>1 DEF Longer
    <3>3. \A x, y \in Math!Known : <<x, y>> \in Direct /\ y \in A => x \in B
      BY <3>1 DEF Longer, Pairs
    <3>4. A # B
      <4> SUFFICES ASSUME A = B PROVE FALSE
        OBVIOUS
      <4>1. Full(B)
        <5> HIDE DEF A
        <5> QED
          BY <3>3
      <4> QED
        BY <4>1
    <3>5. ~Full(A)
      <4> SUFFICES ASSUME Full(A) PROVE FALSE
        OBVIOUS
      <4>1. \A x \in Math!Known : <<x, c>> \in reach[n + 1 + 1] => <<x, c>> \in reach[n + 1]
        <5> SUFFICES ASSUME NEW x \in Math!Known, <<x, c>> \in reach[n + 1 + 1], <<x, c>> \notin reach[n + 1]
                     PROVE FALSE
          OBVIOUS
        <5>1. PICK j \in Math!Known : <<x, j>> \in Direct /\ <<j, c>> \in reach[n + 1]
          BY <3>1 DEF Longer
        <5> QED
          BY <5>1
      <4>2. B \subseteq A
        BY <4>1
      <4> QED
        BY <3>2, <3>4, <4>2
    <3>6. Cardinality(A) >= n + 1
      BY <1>1, <2>3, <3>5
    <3>7. /\ IsFiniteSet(A) /\ IsFiniteSet(B) /\ Cardinality(A) \in Nat /\ Cardinality(B) \in Nat
      BY <2>1
    <3> HIDE DEF A, B
    <3>8. Cardinality(A) <= Cardinality(B) /\ (Cardinality(A) = Cardinality(B) => A = B)
      BY <3>2, <3>7, FS_Subset
    <3>9. Cardinality(B) >= n + 1 + 1
      BY <3>4, <3>6, <3>7, <3>8
    <3> QED
      BY <3>9 DEF B
  <2> HIDE DEF H
  <2>4. N - 1 \in H
    BY <1>1, <2>2, <2>3, NatFamily
  <2>5. Full(To(N)) \/ Cardinality(To(N)) >= N
    <3>1. N - 1 + 1 = N /\ N - 1 \in Nat
      BY <1>1
    <3> QED
      BY <1>1, <2>4, <3>1 DEF H
  <2>6. CASE Full(To(N))
    BY <1>8, <2>6
  <2>7. CASE Cardinality(To(N)) >= N
    <3> DEFINE T == To(N)
    <3>1. IsFiniteSet(T) /\ T \subseteq Codes /\ Cardinality(T) >= N /\ Cardinality(T) \in Nat
      BY <2>1, <2>7
    <3> HIDE DEF T
    <3>2. Cardinality(T) <= N /\ (Cardinality(T) = N => T = Codes)
      BY <1>1, <3>1, FS_Subset DEF N
    <3>3. T = Codes
      BY <1>1, <3>1, <3>2
    <3> QED
      BY <1>1, <1>8, <3>3 DEF T
  <2> QED
    BY <2>5, <2>6, <2>7
<1>9. ASSUME NEW P, Direct \subseteq P,
             \A a, b, c \in Math!Known : <<a, b>> \in Direct /\ <<b, c>> \in P => <<a, c>> \in P
      PROVE  reach[N] \subseteq P
  <2> DEFINE H == {n \in Nat : n + 1 <= N => reach[n + 1] \subseteq P}
  <2>1. 0 \in H
    BY <1>4, <1>9
  <2>2. ASSUME NEW n \in Nat, n \in H PROVE n + 1 \in H
    <3> SUFFICES ASSUME n + 1 + 1 <= N PROVE reach[n + 1 + 1] \subseteq P
      OBVIOUS
    <3>1. reach[n + 1 + 1] = Longer(reach[n + 1])
      BY <1>1, <1>5
    <3>2. reach[n + 1] \subseteq P
      BY <1>1, <2>2
    <3>3. ASSUME NEW e \in Pairs, NEW j \in Math!Known,
                 <<e[1], j>> \in Direct, <<j, e[2]>> \in reach[n + 1]
          PROVE  e \in P
      <4>1. e = <<e[1], e[2]>> /\ e[1] \in Math!Known /\ e[2] \in Math!Known
        BY DEF Pairs
      <4>2. <<e[1], e[2]>> \in P
        BY <1>9, <3>2, <3>3, <4>1
      <4> QED
        BY <4>1, <4>2
    <3> QED
      BY <3>1, <3>2, <3>3 DEF Longer
  <2> HIDE DEF H
  <2>3. N - 1 \in H
    BY <1>1, <2>1, <2>2, NatFamily
  <2>4. N - 1 + 1 = N
    BY <1>1
  <2> QED
    BY <1>1, <2>3, <2>4 DEF H
<1>10. 1 <= N /\ N <= N
  BY <1>1
<1>11. Direct \subseteq reach[N] /\ reach[N] \subseteq Pairs
  BY <1>1, <1>7, <1>10
<1> HIDE DEF Direct
<1> QED
  BY <1>2, <1>8, <1>9, <1>11

\* What needs something that needs a third needs the third.
LEMMA ReachesTransitive ==
  ASSUME Math!TypeOK, NEW a, NEW b, NEW c, <<a, b>> \in Math!Reaches, <<b, c>> \in Math!Reaches
  PROVE  <<a, c>> \in Math!Reaches
<1> DEFINE P == {e \in Pairs : \A x \in Math!Known : <<e[2], x>> \in Math!Reaches => <<e[1], x>> \in Math!Reaches}
<1>1. /\ Math!Reaches \subseteq Pairs
      /\ \A x, y, z \in Math!Known :
           <<x, y>> \in Direct /\ <<y, z>> \in Math!Reaches => <<x, z>> \in Math!Reaches
  BY ReachesIsClosure
<1>2. Direct \subseteq P
  <2> SUFFICES ASSUME NEW e \in Direct PROVE e \in P
    OBVIOUS
  <2>1. e \in Pairs /\ e = <<e[1], e[2]>> /\ e[1] \in Math!Known /\ e[2] \in Math!Known
    BY DEF Direct, Pairs
  <2>2. \A x \in Math!Known : <<e[2], x>> \in Math!Reaches => <<e[1], x>> \in Math!Reaches
    BY <1>1, <2>1
  <2> QED
    BY <2>1, <2>2
<1>3. ASSUME NEW x \in Math!Known, NEW y \in Math!Known, NEW z \in Math!Known,
             <<x, y>> \in Direct, <<y, z>> \in P
      PROVE  <<x, z>> \in P
  <2>1. \A w \in Math!Known : <<z, w>> \in Math!Reaches => <<y, w>> \in Math!Reaches
    BY <1>3
  <2>2. \A w \in Math!Known : <<z, w>> \in Math!Reaches => <<x, w>> \in Math!Reaches
    BY <1>1, <1>3, <2>1
  <2> QED
    BY <2>2 DEF Pairs
<1> HIDE DEF P
<1>4. Math!Reaches \subseteq P
  BY <1>2, <1>3, ReachesIsClosure
<1>5. <<a, b>> \in P /\ c \in Math!Known
  BY <1>1, <1>4 DEF Pairs
<1> QED
  BY <1>5 DEF P
-------------------------------------------------------------------------------
(* The search for a cycle                                                     *)

Visits  == (SUBSET Codes) \X (SUBSET Codes) \X (SUBSET Codes)
Found   == [cycle : BOOLEAN, visited : SUBSET Codes]
Uses(k) == catalogue[k].uses \cap Math!Known

\* One call of hasCycle, if f says what the calls in it give.
VisitBody(f, at) ==
  LET left == at[1]  visited == at[2]  stack == at[3]
  IN IF left = {} THEN [cycle |-> FALSE, visited |-> visited]
     ELSE LET dep  == CHOOSE k \in left : TRUE
              down == IF dep \in visited THEN [cycle |-> dep \in stack, visited |-> visited]
                      ELSE f[<<catalogue[dep].uses \cap Math!Known, visited \cup {dep},
                               stack \cup {dep}>>]
          IN IF down.cycle THEN down ELSE f[<<left \ {dep}, down.visited, stack>>]

\* What a call has in front of it: the codes not visited yet, then what is left.
Weight(at) ==
  (Cardinality(Codes) + 1) * Cardinality(Codes \ at[2]) + Cardinality(at[1])

\* A call returns what it had visited, and maybe more.
GoodVisit(at, r) == r \in Found /\ at[2] \subseteq r.visited

\* A visit of one code more weighs less, whatever is left then.
LEMMA Lexical ==
  ASSUME NEW n \in Nat, NEW u \in Nat, NEW v \in Nat, NEW l \in Nat, NEW m \in Nat,
         u + 1 <= v, l <= n
  PROVE  (n + 1) * u + l < (n + 1) * v + m
<1> DEFINE d == v - u - 1
           a == (n + 1) * u
           b == (n + 1) * d
<1>1. d \in Nat /\ v = u + 1 + d
  OBVIOUS
<1>2. (n + 1) * v = (n + 1) * (u + 1 + d)
  BY <1>1
<1> HIDE DEF d
<1>3. (n + 1) * (u + 1 + d) = (n + 1) * u + (n + 1) + (n + 1) * d
  BY <1>1
<1>4. a \in Nat /\ b \in Nat
  BY <1>1, Product
<1>5. (n + 1) * v = a + (n + 1) + b
  BY <1>2, <1>3
<1> HIDE DEF a, b
<1>6. a + l < a + (n + 1) + b + m
  BY <1>4
<1> QED
  BY <1>5, <1>6 DEF a

\* Going on with one code less to do weighs less.
LEMMA LexicalTail ==
  ASSUME NEW n \in Nat, NEW u \in Nat, NEW v \in Nat, NEW l \in Nat, NEW m \in Nat,
         u <= v, l < m
  PROVE  (n + 1) * u + l < (n + 1) * v + m
<1>1. CASE u = v
  <2> DEFINE a == (n + 1) * u
  <2>1. a \in Nat
    BY Product
  <2> HIDE DEF a
  <2>2. a + l < a + m
    BY <2>1
  <2> QED
    BY <1>1, <2>2 DEF a
<1>2. CASE u # v
  <2> DEFINE d == v - u
             a == (n + 1) * u
             b == (n + 1) * d
  <2>1. d \in Nat /\ v = u + d
    OBVIOUS
  <2>2. (n + 1) * v = (n + 1) * (u + d)
    BY <2>1
  <2> HIDE DEF d
  <2>3. (n + 1) * (u + d) = (n + 1) * u + (n + 1) * d
    BY <2>1
  <2>4. a \in Nat /\ b \in Nat
    BY <2>1, Product
  <2>5. (n + 1) * v = a + b
    BY <2>2, <2>3
  <2> HIDE DEF a, b
  <2>6. a + l < a + b + m
    BY <2>4
  <2> QED
    BY <2>5, <2>6 DEF a
<1> QED
  BY <1>1, <1>2

\* A weight, spelled out.
LEMMA WeightNat ==
  ASSUME NEW L \in SUBSET Codes, NEW V \in SUBSET Codes, NEW S \in SUBSET Codes
  PROVE  /\ Weight(<<L, V, S>>) \in Nat
         /\ Weight(<<L, V, S>>) = (Cardinality(Codes) + 1) * Cardinality(Codes \ V) + Cardinality(L)
         /\ Cardinality(Codes) \in Nat /\ Cardinality(Codes \ V) \in Nat /\ Cardinality(L) \in Nat
         /\ Cardinality(L) <= Cardinality(Codes) /\ IsFiniteSet(L) /\ IsFiniteSet(Codes \ V)
<1>1. IsFiniteSet(Codes)
  BY MathConstants
<1>2. IsFiniteSet(L) /\ IsFiniteSet(Codes \ V) /\ Cardinality(L) <= Cardinality(Codes)
  <2>1. IsFiniteSet(L) /\ Cardinality(L) <= Cardinality(Codes)
    BY <1>1, FS_Subset
  <2>2. (Codes \ V) \in SUBSET Codes
    OBVIOUS
  <2> QED
    BY <1>1, <2>1, <2>2, FS_Subset
<1>3. /\ Cardinality(Codes) \in Nat /\ Cardinality(Codes \ V) \in Nat /\ Cardinality(L) \in Nat
  BY <1>1, <1>2, FS_CardinalityType
<1>4. Weight(<<L, V, S>>) = (Cardinality(Codes) + 1) * Cardinality(Codes \ V) + Cardinality(L)
  BY DEF Weight
<1> DEFINE n == Cardinality(Codes)
           u == Cardinality(Codes \ V)
           l == Cardinality(L)
           p == (n + 1) * u
<1>5. p \in Nat
  <2> HIDE DEF n, u
  <2> QED
    BY <1>3, Product DEF n, u
<1>6. p + l \in Nat
  <2> HIDE DEF p, l
  <2> QED
    BY <1>3, <1>5 DEF l
<1> QED
  BY <1>2, <1>3, <1>4, <1>6

\* Both calls that a call makes have less in front of them.
LEMMA WeightDown ==
  ASSUME NEW L \in SUBSET Codes, NEW V \in SUBSET Codes, NEW S \in SUBSET Codes,
         NEW dep \in Codes \ V, NEW M \in SUBSET Codes, NEW T \in SUBSET Codes
  PROVE  Weight(<<M, V \cup {dep}, T>>) < Weight(<<L, V, S>>)
<1> DEFINE W == V \cup {dep}
           n == Cardinality(Codes)
           u == Cardinality(Codes \ W)
           v == Cardinality(Codes \ V)
           l == Cardinality(M)
           m == Cardinality(L)
<1>1. W \in SUBSET Codes
  OBVIOUS
<1>2. Codes \ W = (Codes \ V) \ {dep}
  OBVIOUS
<1> HIDE DEF W
<1>3. /\ Weight(<<M, W, T>>) = (n + 1) * u + l
      /\ n \in Nat /\ u \in Nat /\ l \in Nat /\ l <= n
  BY <1>1, WeightNat
<1>4. /\ Weight(<<L, V, S>>) = (n + 1) * v + m
      /\ v \in Nat /\ m \in Nat /\ IsFiniteSet(Codes \ V)
  BY WeightNat
<1>5. u + 1 <= v
  <2>1. u = v - 1
    <3> DEFINE D == Codes \ V
    <3>1. IsFiniteSet(D) /\ dep \in D
      BY <1>4
    <3> HIDE DEF D
    <3>2. Cardinality(D \ {dep}) = Cardinality(D) - 1
      BY <3>1, FS_RemoveElement
    <3> QED
      BY <1>2, <3>2 DEF D
  <2> HIDE DEF u, v
  <2> QED
    BY <1>3, <1>4, <2>1
<1> HIDE DEF n, u, v, l, m
<1>6. (n + 1) * u + l < (n + 1) * v + m
  BY <1>3, <1>4, <1>5, Lexical
<1> QED
  BY <1>3, <1>4, <1>6 DEF W

\* So the next neighbour is visited with less in front.
LEMMA WeightTail ==
  ASSUME NEW L \in SUBSET Codes, NEW V \in SUBSET Codes, NEW S \in SUBSET Codes,
         NEW dep \in L, NEW W \in SUBSET Codes, V \subseteq W
  PROVE  Weight(<<L \ {dep}, W, S>>) < Weight(<<L, V, S>>)
<1> DEFINE M == L \ {dep}
           n == Cardinality(Codes)
           u == Cardinality(Codes \ W)
           v == Cardinality(Codes \ V)
           l == Cardinality(M)
           m == Cardinality(L)
<1>1. M \in SUBSET Codes
  OBVIOUS
<1>2. (Codes \ W) \subseteq (Codes \ V)
  OBVIOUS
<1>3. m \in Nat /\ v \in Nat /\ IsFiniteSet(L) /\ IsFiniteSet(Codes \ V)
      /\ Weight(<<L, V, S>>) = (n + 1) * v + m
  BY WeightNat
<1>4. l = m - 1
  BY <1>3, FS_RemoveElement
<1> HIDE DEF M
<1>5. /\ Weight(<<M, W, S>>) = (n + 1) * u + l
      /\ n \in Nat /\ u \in Nat /\ l \in Nat
  BY <1>1, WeightNat
<1>6. u <= v
  BY <1>2, <1>3, FS_Subset
<1> HIDE DEF n, u, v, l, m
<1>7. l < m
  BY <1>3, <1>4, <1>5
<1>8. (n + 1) * u + l < (n + 1) * v + m
  BY <1>3, <1>5, <1>6, <1>7, LexicalTail
<1> QED
  BY <1>3, <1>5, <1>8 DEF M

\* Strong induction over what calls have in front of them.
LEMMA VisitInduction ==
  ASSUME NEW G, \A at \in Visits : (\A b \in Visits : Weight(b) < Weight(at) => b \in G) => at \in G
  PROVE  \A at \in Visits : at \in G
<1> DEFINE H == {n \in Nat : \A at \in Visits : Weight(at) < n => at \in G}
<1>1. \A at \in Visits : Weight(at) \in Nat
  <2> TAKE at \in Visits
  <2>1. at = <<at[1], at[2], at[3]>> /\ at[1] \in SUBSET Codes /\ at[2] \in SUBSET Codes
        /\ at[3] \in SUBSET Codes
    BY DEF Visits
  <2> QED
    BY <2>1, WeightNat
<1>2. 0 \in H
  BY <1>1
<1>3. ASSUME NEW n \in Nat, n \in H PROVE n + 1 \in H
  <2> SUFFICES ASSUME NEW at \in Visits, Weight(at) < n + 1 PROVE at \in G
    OBVIOUS
  <2>1. Weight(at) <= n
    BY <1>1
  <2>2. \A b \in Visits : Weight(b) < Weight(at) => b \in G
    <3> SUFFICES ASSUME NEW b \in Visits, Weight(b) < Weight(at) PROVE b \in G
      OBVIOUS
    <3>1. Weight(b) \in Nat /\ Weight(at) \in Nat
      BY <1>1
    <3>2. Weight(b) < n
      BY <2>1, <3>1
    <3> QED
      BY <1>3, <3>2
  <2> QED
    BY <2>2
<1> HIDE DEF H
<1>4. \A n \in Nat : n \in H
  BY <1>2, <1>3, NatFamily
<1> SUFFICES ASSUME NEW at \in Visits PROVE at \in G
  OBVIOUS
<1>5. Weight(at) + 1 \in H /\ Weight(at) < Weight(at) + 1
  BY <1>1, <1>4
<1> QED
  BY <1>5 DEF H

\* The node that a call visits first, and the call it makes for it.
Picked(L)       == CHOOSE k \in L : TRUE
Down(dep, V, S) == <<Uses(dep), V \cup {dep}, S \cup {dep}>>

\* The cases of a call, if dep is the node that it visits first.
VisitCase(f, L, V, S, dep) ==
  /\ L = {} => VisitBody(f, <<L, V, S>>) = [cycle |-> FALSE, visited |-> V]
  /\ L # {} =>
       /\ dep \in L /\ Down(dep, V, S) \in Visits
       /\ (dep \in V /\ dep \in S) =>
            VisitBody(f, <<L, V, S>>) = [cycle |-> TRUE, visited |-> V]
       /\ (dep \in V /\ dep \notin S) =>
            VisitBody(f, <<L, V, S>>) = f[<<L \ {dep}, V, S>>]
       /\ (dep \notin V /\ f[Down(dep, V, S)].cycle) =>
            VisitBody(f, <<L, V, S>>) = f[Down(dep, V, S)]
       /\ (dep \notin V /\ ~f[Down(dep, V, S)].cycle) =>
            VisitBody(f, <<L, V, S>>) = f[<<L \ {dep}, f[Down(dep, V, S)].visited, S>>]

\* The body of hasCycle, case by case.
LEMMA VisitCases ==
  ASSUME Math!TypeOK, NEW L \in SUBSET Codes, NEW V \in SUBSET Codes, NEW S \in SUBSET Codes, NEW f,
         NEW dep, dep = Picked(L)
  PROVE  VisitCase(f, L, V, S, dep)
<1> DEFINE at == <<L, V, S>>
<1>1. at[1] = L /\ at[2] = V /\ at[3] = S
  OBVIOUS
<1>2. CASE L = {}
  BY <1>2 DEF VisitBody, VisitCase
<1>3. CASE L # {}
  <2> DEFINE next == <<catalogue[dep].uses \cap Math!Known, V \cup {dep}, S \cup {dep}>>
  <2>1. dep \in L
    BY <1>3 DEF Picked
  <2>2. VisitBody(f, at) =
                 LET down == IF dep \in V THEN [cycle |-> dep \in S, visited |-> V] ELSE f[next]
                 IN  IF down.cycle THEN down ELSE f[<<L \ {dep}, down.visited, S>>]
    BY <1>3 DEF VisitBody, Picked
  <2>3. next = Down(dep, V, S)
    BY DEF Uses, Down
  <2> HIDE DEF next, at
  <2>4. Down(dep, V, S) \in Visits
    <3>1. Uses(dep) \in SUBSET Codes
      BY MathSizes DEF Uses
    <3> QED
      BY <2>1, <3>1 DEF Visits, Down
  <2>5. dep \in V =>
               /\ dep \in S => VisitBody(f, at) = [cycle |-> TRUE, visited |-> V]
               /\ dep \notin S => VisitBody(f, at) = f[<<L \ {dep}, V, S>>]
    <3> SUFFICES ASSUME dep \in V
                 PROVE  /\ dep \in S => VisitBody(f, at) = [cycle |-> TRUE, visited |-> V]
                        /\ dep \notin S => VisitBody(f, at) = f[<<L \ {dep}, V, S>>]
      OBVIOUS
    <3>1. CASE dep \in S
      BY <2>2, <3>1
    <3>2. CASE dep \notin S
      BY <2>2, <3>2
    <3> QED
      BY <3>1, <3>2
  <2>6. dep \notin V =>
          /\ f[next].cycle => VisitBody(f, at) = f[next]
          /\ ~f[next].cycle => VisitBody(f, at) = f[<<L \ {dep}, f[next].visited, S>>]
    BY <2>2
  <2> QED
    BY <1>3, <2>1, <2>3, <2>4, <2>5, <2>6 DEF at, VisitCase
<1> QED
  BY <1>2, <1>3

\* A call is good, and depends on lighter calls only, if those are good.
LEMMA VisitLocal ==
  ASSUME Math!TypeOK, NEW at \in Visits, NEW f, NEW g,
         \A b \in Visits : Weight(b) < Weight(at) => f[b] = g[b] /\ GoodVisit(b, f[b])
  PROVE  VisitBody(f, at) = VisitBody(g, at) /\ GoodVisit(at, VisitBody(f, at))
<1>1. PICK L \in SUBSET Codes, V \in SUBSET Codes, S \in SUBSET Codes : at = <<L, V, S>>
  BY DEF Visits
<1>0. /\ at[2] = V
      /\ \A c \in BOOLEAN : [cycle |-> c, visited |-> V] \in Found /\ [cycle |-> c, visited |-> V].visited = V
  BY <1>1 DEF Found
<1>2. ASSUME NEW r, NEW b, GoodVisit(b, r), V \subseteq b[2] PROVE GoodVisit(at, r)
  BY <1>0, <1>2 DEF GoodVisit
<1>3. CASE L = {}
  <2>1. PICK dep : dep = Picked(L)
    OBVIOUS
  <2>2. ASSUME NEW h PROVE VisitBody(h, at) = [cycle |-> FALSE, visited |-> V]
    <3>1. VisitBody(h, <<L, V, S>>) = [cycle |-> FALSE, visited |-> V]
      <4>1. VisitCase(h, L, V, S, dep)
        BY <2>1, VisitCases
      <4> QED
        BY <1>3, <4>1 DEF VisitCase
    <3> QED
      BY <1>1, <3>1, Zenon
  <2> QED
    BY <1>0, <2>2 DEF GoodVisit
<1>4. CASE L # {}
  <2>0. PICK dep : dep = Picked(L)
    OBVIOUS
  <2> DEFINE down == Down(dep, V, S)
  <2>1. dep \in L /\ down \in Visits /\ dep \in Codes
    BY <1>4, <2>0, VisitCases DEF VisitCase
  <2>2. down[2] = V \cup {dep}
    BY DEF Down
  <2>3. ASSUME NEW h
        PROVE  /\ (dep \in V /\ dep \in S) => VisitBody(h, at) = [cycle |-> TRUE, visited |-> V]
               /\ (dep \in V /\ dep \notin S) => VisitBody(h, at) = h[<<L \ {dep}, V, S>>]
               /\ (dep \notin V /\ h[down].cycle) => VisitBody(h, at) = h[down]
               /\ (dep \notin V /\ ~h[down].cycle) =>
                    VisitBody(h, at) = h[<<L \ {dep}, h[down].visited, S>>]
    <3>1. /\ (dep \in V /\ dep \in S) => VisitBody(h, <<L, V, S>>) = [cycle |-> TRUE, visited |-> V]
          /\ (dep \in V /\ dep \notin S) => VisitBody(h, <<L, V, S>>) = h[<<L \ {dep}, V, S>>]
          /\ (dep \notin V /\ h[down].cycle) => VisitBody(h, <<L, V, S>>) = h[down]
          /\ (dep \notin V /\ ~h[down].cycle) =>
               VisitBody(h, <<L, V, S>>) = h[<<L \ {dep}, h[down].visited, S>>]
      <4>1. VisitCase(h, L, V, S, dep)
        BY <2>0, VisitCases
      <4> QED
        BY <1>4, <4>1 DEF VisitCase
    <3> HIDE DEF down
    <3> QED
      BY <1>1, <3>1, Zenon
  <2>4. ASSUME NEW W \in SUBSET Codes, V \subseteq W
        PROVE  /\ f[<<L \ {dep}, W, S>>] = g[<<L \ {dep}, W, S>>]
               /\ GoodVisit(at, f[<<L \ {dep}, W, S>>])
    <3> DEFINE b == <<L \ {dep}, W, S>>
    <3>1. b \in Visits /\ b[2] = W
      BY DEF Visits
    <3>2. Weight(b) < Weight(at)
      BY <1>1, <2>1, <2>4, WeightTail
    <3>3. f[b] = g[b] /\ GoodVisit(b, f[b])
      BY <3>1, <3>2
    <3> HIDE DEF b
    <3>4. GoodVisit(at, f[b])
      BY <1>2, <2>4, <3>1, <3>3
    <3> QED
      BY <3>3, <3>4 DEF b
  <2>5. dep \notin V => Weight(down) < Weight(at)
    <3> SUFFICES ASSUME dep \notin V PROVE Weight(down) < Weight(at)
      OBVIOUS
    <3>1. Uses(dep) \in SUBSET Codes /\ (S \cup {dep}) \in SUBSET Codes
      BY <2>1, MathSizes DEF Uses
    <3>2. dep \in Codes \ V
      BY <2>1
    <3> QED
      BY <1>1, <3>1, <3>2, WeightDown DEF Down
  <2> HIDE DEF down
  <2>6. CASE dep \in V /\ dep \in S
    BY <1>0, <2>3, <2>6 DEF GoodVisit
  <2>7. CASE dep \in V /\ dep \notin S
    BY <2>3, <2>4, <2>7
  <2>8. CASE dep \notin V
    <3>1. f[down] = g[down] /\ GoodVisit(down, f[down])
      BY <2>1, <2>5, <2>8
    <3>2. GoodVisit(at, f[down])
      BY <1>2, <2>2, <3>1
    <3>3. f[down].visited \in SUBSET Codes /\ V \subseteq f[down].visited
      BY <2>2, <3>1 DEF GoodVisit, Found
    <3>4. CASE f[down].cycle
      BY <2>3, <2>8, <3>1, <3>2, <3>4
    <3>5. CASE ~f[down].cycle
      <4>1. /\ VisitBody(f, at) = f[<<L \ {dep}, f[down].visited, S>>]
            /\ VisitBody(g, at) = g[<<L \ {dep}, f[down].visited, S>>]
        BY <2>3, <2>8, <3>1, <3>5
      <4> QED
        BY <2>4, <3>3, <4>1
    <3> QED
      BY <3>4, <3>5
  <2> QED
    BY <2>6, <2>7, <2>8
<1> QED
  BY <1>3, <1>4

LEMMA WeightIsNat == ASSUME NEW at \in Visits PROVE Weight(at) \in Nat
<1>1. PICK L \in SUBSET Codes, V \in SUBSET Codes, S \in SUBSET Codes : at = <<L, V, S>>
  BY DEF Visits
<1> QED
  BY <1>1, WeightNat

\* No call is heavier than the one with everything in front of it.
LEMMA WeightBound == \E n \in Nat : \A at \in Visits : Weight(at) < n
<1> DEFINE c == Cardinality(Codes)
           p == (c + 1) * (c + 1)
<1>1. c \in Nat
  BY MathConstants, FS_CardinalityType
<1>2. p \in Nat
  <2> HIDE DEF c
  <2> QED
    BY <1>1, Product
<1>3. ASSUME NEW at \in Visits PROVE Weight(at) < p + 1
  <2>1. PICK L \in SUBSET Codes, V \in SUBSET Codes, S \in SUBSET Codes : at = <<L, V, S>>
    BY DEF Visits
  <2> DEFINE u == Cardinality(Codes \ V)
             l == Cardinality(L)
  <2>2. Weight(at) = (c + 1) * u + l /\ u \in Nat /\ l \in Nat /\ l <= c
    BY <2>1, WeightNat
  <2>3. u <= c
    <3>1. (Codes \ V) \in SUBSET Codes
      OBVIOUS
    <3> QED
      BY <3>1, MathConstants, FS_Subset
  <2> HIDE DEF u, l, c
  <2>4. (c + 1) * u + l < (c + 1) * (c + 1) + 0
    BY <1>1, <2>2, <2>3, Lexical
  <2>5. (c + 1) * u + l < p
    BY <1>2, <2>4
  <2> HIDE DEF p
  <2>6. Weight(at) \in Nat /\ Weight(at) < p
    BY <2>2, <2>5, WeightIsNat
  <2> QED
    BY <1>2, <2>6
<1> HIDE DEF p
<1> QED
  BY <1>2, <1>3

\* hasCycle is defined.
LEMMA VisitDefined ==
  ASSUME Math!TypeOK
  PROVE  /\ \A at \in Visits : Math!Visit[at] = VisitBody(Math!Visit, at)
         /\ \A at \in Visits : GoodVisit(at, Math!Visit[at])
<1> DEFINE Upto(n, f) == \A at \in Visits : Weight(at) < n => f[at] = VisitBody(f, at) /\ GoodVisit(at, f[at])
           H == {n \in Nat : \E f : Upto(n, f)}
<1>1. 0 \in H
  <2>1. Upto(0, [at \in Visits |-> 0])
    BY WeightIsNat
  <2> QED
    BY <2>1
<1>2. ASSUME NEW n \in Nat, n \in H PROVE n + 1 \in H
  <2>1. PICK f : Upto(n, f)
    BY <1>2
  <2> DEFINE g == [at \in Visits |-> IF Weight(at) < n THEN f[at] ELSE VisitBody(f, at)]
  <2>2. ASSUME NEW at \in Visits, Weight(at) < n + 1
        PROVE  g[at] = VisitBody(g, at) /\ GoodVisit(at, g[at])
    <3>1. ASSUME NEW b \in Visits, Weight(b) < Weight(at)
          PROVE  f[b] = g[b] /\ GoodVisit(b, f[b])
      <4>1. Weight(b) < n
        BY <2>2, <3>1, WeightIsNat
      <4> QED
        BY <2>1, <4>1
    <3>2. g[at] = VisitBody(f, at)
      BY <2>1
    <3> HIDE DEF g
    <3>3. VisitBody(f, at) = VisitBody(g, at) /\ GoodVisit(at, VisitBody(f, at))
      BY <3>1, VisitLocal
    <3> QED
      BY <3>2, <3>3
  <2>3. Upto(n + 1, g)
    BY <2>2
  <2> HIDE DEF g
  <2> QED
    BY <2>3
<1> HIDE DEF H
<1>3. \A n \in Nat : n \in H
  BY <1>1, <1>2, NatFamily
<1>4. PICK n \in Nat : \A at \in Visits : Weight(at) < n
  BY WeightBound
<1>5. PICK f : Upto(n, f)
  BY <1>3 DEF H
<1>6. \A at \in Visits : f[at] = VisitBody(f, at) /\ GoodVisit(at, f[at])
  BY <1>4, <1>5
<1> DEFINE fun == [at \in Visits |-> f[at]]
           Is(h) == h = [at \in Visits |-> VisitBody(h, at)]
<1>7. Is(fun)
  <2>1. ASSUME NEW at \in Visits PROVE fun[at] = VisitBody(fun, at)
    <3>1. ASSUME NEW b \in Visits PROVE f[b] = fun[b] /\ GoodVisit(b, f[b])
      BY <1>6
    <3> HIDE DEF fun
    <3>2. VisitBody(f, at) = VisitBody(fun, at)
      BY <3>1, VisitLocal
    <3> QED
      BY <1>6, <3>1, <3>2
  <2>2. fun = [at \in Visits |-> fun[at]]
    OBVIOUS
  <2> HIDE DEF fun
  <2> QED
    BY <2>1, <2>2
<1>8. Math!Visit = CHOOSE h : Is(h)
  BY DEF Math!Visit, VisitBody, Visits
<1>9. Is(Math!Visit)
  <2> HIDE DEF fun, Is
  <2> QED
    BY <1>7, <1>8
<1>10. \A at \in Visits : Math!Visit[at] = VisitBody(Math!Visit, at)
  BY <1>9
<1> DEFINE G == {at \in Visits : GoodVisit(at, Math!Visit[at])}
<1>11. ASSUME NEW at \in Visits, \A b \in Visits : Weight(b) < Weight(at) => b \in G
       PROVE  at \in G
  <2>1. \A b \in Visits : Weight(b) < Weight(at) => GoodVisit(b, Math!Visit[b])
    BY <1>11
  <2>2. GoodVisit(at, VisitBody(Math!Visit, at))
    BY <2>1, VisitLocal
  <2> QED
    BY <1>10, <2>2
<1> HIDE DEF G
<1>12. \A at \in Visits : at \in G
  BY <1>11, VisitInduction
<1> QED
  BY <1>10, <1>12 DEF G
-------------------------------------------------------------------------------
(* What the search finds, and what a payslip says                             *)

\* Some component needs itself.
Circular == \E k \in Math!Known : <<k, k>> \in Math!Reaches

\* The cases of hasCycle.
LEMMA VisitSteps ==
  ASSUME Math!TypeOK, NEW L \in SUBSET Codes, NEW V \in SUBSET Codes, NEW S \in SUBSET Codes, L # {}
  PROVE  \E dep \in L :
           \/ dep \in V /\ dep \in S /\ Math!Visit[<<L, V, S>>].cycle
           \/ /\ dep \in V /\ dep \notin S
              /\ Math!Visit[<<L, V, S>>] = Math!Visit[<<L \ {dep}, V, S>>]
              /\ Weight(<<L \ {dep}, V, S>>) < Weight(<<L, V, S>>)
           \/ /\ dep \notin V /\ Weight(Down(dep, V, S)) < Weight(<<L, V, S>>)
              /\ Math!Visit[Down(dep, V, S)].cycle
              /\ Math!Visit[<<L, V, S>>].cycle
           \/ /\ dep \notin V /\ Weight(Down(dep, V, S)) < Weight(<<L, V, S>>)
              /\ ~Math!Visit[Down(dep, V, S)].cycle
              /\ \E W \in SUBSET Codes :
                   /\ W = Math!Visit[Down(dep, V, S)].visited /\ (V \cup {dep}) \subseteq W
                   /\ Math!Visit[<<L, V, S>>] = Math!Visit[<<L \ {dep}, W, S>>]
                   /\ Weight(<<L \ {dep}, W, S>>) < Weight(<<L, V, S>>)
<1>1. PICK dep : dep = Picked(L)
  OBVIOUS
<1> DEFINE at == <<L, V, S>>
           down == Down(dep, V, S)
<1>2. VisitCase(Math!Visit, L, V, S, dep)
  BY <1>1, VisitCases
<1>3. at \in Visits
  BY DEF Visits
<1>4. Math!Visit[at] = VisitBody(Math!Visit, at)
  BY <1>3, VisitDefined
<1>5. /\ dep \in L /\ down \in Visits
      /\ (dep \in V /\ dep \in S) => Math!Visit[at] = [cycle |-> TRUE, visited |-> V]
      /\ (dep \in V /\ dep \notin S) => Math!Visit[at] = Math!Visit[<<L \ {dep}, V, S>>]
      /\ (dep \notin V /\ Math!Visit[down].cycle) => Math!Visit[at] = Math!Visit[down]
      /\ (dep \notin V /\ ~Math!Visit[down].cycle) =>
           Math!Visit[at] = Math!Visit[<<L \ {dep}, Math!Visit[down].visited, S>>]
  BY <1>2, <1>4 DEF VisitCase
<1>6. GoodVisit(down, Math!Visit[down]) /\ down[2] = V \cup {dep}
  BY <1>5, VisitDefined DEF Down
<1> DEFINE W == Math!Visit[down].visited
<1>7. W \in SUBSET Codes /\ (V \cup {dep}) \subseteq W
  BY <1>6 DEF GoodVisit, Found
<1>8. dep \notin V => Weight(down) < Weight(at)
  <2> SUFFICES ASSUME dep \notin V PROVE Weight(down) < Weight(at)
    OBVIOUS
  <2>1. Uses(dep) \in SUBSET Codes /\ (S \cup {dep}) \in SUBSET Codes /\ dep \in Codes \ V
    BY <1>5, MathSizes DEF Uses
  <2> QED
    BY <2>1, WeightDown DEF Down
<1>9. ASSUME NEW U \in SUBSET Codes, V \subseteq U PROVE Weight(<<L \ {dep}, U, S>>) < Weight(at)
  BY <1>5, <1>9, WeightTail
<1> HIDE DEF down, at
<1>10. CASE dep \in V /\ dep \in S
  BY <1>5, <1>10 DEF at
<1>11. CASE dep \in V /\ dep \notin S
  BY <1>5, <1>9, <1>11 DEF at
<1>12. CASE dep \notin V /\ Math!Visit[down].cycle
  BY <1>5, <1>8, <1>12 DEF at, down
<1>13. CASE dep \notin V /\ ~Math!Visit[down].cycle
  <2>1. V \subseteq W
    BY <1>7
  <2>2. Weight(<<L \ {dep}, W, S>>) < Weight(at)
    <3> HIDE DEF W
    <3> QED
      BY <1>7, <1>9, <2>1
  <2>3. Math!Visit[at] = Math!Visit[<<L \ {dep}, W, S>>]
    BY <1>5, <1>13
  <2>4. \E U \in SUBSET Codes :
                   /\ U = W /\ (V \cup {dep}) \subseteq U
                   /\ Math!Visit[at] = Math!Visit[<<L \ {dep}, U, S>>]
                   /\ Weight(<<L \ {dep}, U, S>>) < Weight(at)
    <3> HIDE DEF W
    <3> QED
      BY <1>7, <2>2, <2>3
  <2> QED
    BY <1>5, <1>8, <1>13, <2>4, Zenon DEF at, down, W
<1> QED
  BY <1>10, <1>11, <1>12, <1>13

\* A formula's own components are needed.
LEMMA DirectReaches ==
  ASSUME Math!TypeOK, NEW a \in Math!Known, NEW b \in Uses(a)
  PROVE  <<a, b>> \in Direct /\ <<a, b>> \in Math!Reaches /\ b \in Math!Known
<1>1. b \in Math!Known /\ b \in catalogue[a].uses
  BY DEF Uses
<1>2. <<a, b>> \in Direct
  BY <1>1 DEF Direct, Pairs
<1> QED
  BY <1>1, <1>2, ReachesIsClosure

\* What hasCycle reports is a cycle.
LEMMA VisitSound ==
  ASSUME Math!TypeOK, NEW k \in Math!Known, Math!Visit[<<{k}, {}, {}>>].cycle
  PROVE  Circular
<1> DEFINE Pre(L, S) == /\ L \subseteq Math!Known /\ S \subseteq Math!Known
                        /\ \A s \in S, l \in L : <<s, l>> \in Math!Reaches
           G == {at \in Visits : Pre(at[1], at[3]) /\ Math!Visit[at].cycle => Circular}
<1>1. ASSUME NEW at \in Visits, \A b \in Visits : Weight(b) < Weight(at) => b \in G PROVE at \in G
  <2>1. PICK L \in SUBSET Codes, V \in SUBSET Codes, S \in SUBSET Codes : at = <<L, V, S>>
    BY DEF Visits
  <2>2. at[1] = L /\ at[3] = S
    BY <2>1
  <2> SUFFICES ASSUME Pre(L, S), Math!Visit[at].cycle PROVE Circular
    BY <2>2
  <2>3. CASE L = {}
    <3>1. PICK dep : dep = Picked(L)
      OBVIOUS
    <3>2. VisitCase(Math!Visit, L, V, S, dep)
      BY <3>1, VisitCases
    <3>3. VisitBody(Math!Visit, at) = [cycle |-> FALSE, visited |-> V]
      BY <2>1, <2>3, <3>2 DEF VisitCase
    <3>4. Math!Visit[at] = VisitBody(Math!Visit, at)
      BY VisitDefined
    <3> QED
      BY <3>3, <3>4
  <2>4. CASE L # {}
    <3>1. PICK dep \in L :
           \/ dep \in V /\ dep \in S /\ Math!Visit[<<L, V, S>>].cycle
           \/ /\ dep \in V /\ dep \notin S
              /\ Math!Visit[<<L, V, S>>] = Math!Visit[<<L \ {dep}, V, S>>]
              /\ Weight(<<L \ {dep}, V, S>>) < Weight(<<L, V, S>>)
           \/ /\ dep \notin V /\ Weight(Down(dep, V, S)) < Weight(<<L, V, S>>)
              /\ Math!Visit[Down(dep, V, S)].cycle
              /\ Math!Visit[<<L, V, S>>].cycle
           \/ /\ dep \notin V /\ Weight(Down(dep, V, S)) < Weight(<<L, V, S>>)
              /\ ~Math!Visit[Down(dep, V, S)].cycle
              /\ \E W \in SUBSET Codes :
                   /\ W = Math!Visit[Down(dep, V, S)].visited /\ (V \cup {dep}) \subseteq W
                   /\ Math!Visit[<<L, V, S>>] = Math!Visit[<<L \ {dep}, W, S>>]
                   /\ Weight(<<L \ {dep}, W, S>>) < Weight(<<L, V, S>>)
      BY <2>4, VisitSteps
    <3>2. dep \in Math!Known
      BY <3>1
    <3>3. ASSUME NEW U \in SUBSET Codes, Weight(<<L \ {dep}, U, S>>) < Weight(at),
                 Math!Visit[at] = Math!Visit[<<L \ {dep}, U, S>>]
          PROVE  Circular
      <4> DEFINE b == <<L \ {dep}, U, S>>
      <4>1. b \in Visits /\ b[1] = L \ {dep} /\ b[3] = S
        BY DEF Visits
      <4>2. b \in G
        BY <1>1, <3>3, <4>1
      <4>3. Pre(b[1], b[3])
        BY <4>1
      <4>4. Math!Visit[b].cycle
        BY <3>3
      <4> HIDE DEF b, Pre
      <4> QED
        BY <4>2, <4>3, <4>4
    <3>4. CASE dep \in V /\ dep \in S
      <4>1. <<dep, dep>> \in Math!Reaches
        BY <3>4
      <4> QED
        BY <3>2, <4>1 DEF Circular
    <3>5. CASE dep \notin V /\ Weight(Down(dep, V, S)) < Weight(at) /\ Math!Visit[Down(dep, V, S)].cycle
      <4> DEFINE b == Down(dep, V, S)
      <4>1. Uses(dep) \in SUBSET Codes
        BY MathSizes DEF Uses
      <4>2. b \in Visits /\ b[1] = Uses(dep) /\ b[3] = S \cup {dep}
        BY <4>1 DEF Visits, Down
      <4>3. b \in G
        BY <1>1, <3>5, <4>2
      <4>4. \A l \in Uses(dep) : <<dep, l>> \in Math!Reaches /\ l \in Math!Known
        BY <3>2, DirectReaches
      <4>5. \A s \in S, l \in Uses(dep) : <<s, l>> \in Math!Reaches
        <5> TAKE s \in S, l \in Uses(dep)
        <5>1. <<s, dep>> \in Math!Reaches /\ <<dep, l>> \in Math!Reaches
          BY <4>4
        <5> QED
          BY <5>1, ReachesTransitive
      <4>6. Pre(Uses(dep), S \cup {dep})
        BY <3>2, <4>4, <4>5
      <4>7. Math!Visit[b].cycle
        BY <3>5
      <4> HIDE DEF b, Pre
      <4> QED
        BY <4>2, <4>3, <4>6, <4>7
    <3> HIDE DEF G, Pre
    <3> QED
      BY <2>1, <3>1, <3>3, <3>4, <3>5
  <2> QED
    BY <2>3, <2>4
<1> HIDE DEF G
<1>2. \A at \in Visits : at \in G
  BY <1>1, VisitInduction
<1> DEFINE at == <<{k}, {}, {}>>
<1>3. at \in Visits /\ at[1] = {k} /\ at[3] = {}
  BY MathSizes DEF Visits
<1>4. Pre({k}, {})
  OBVIOUS
<1> HIDE DEF at, Pre
<1>5. at \in G /\ Math!Visit[at].cycle
  BY <1>2, <1>3 DEF at
<1> QED
  BY <1>3, <1>4, <1>5 DEF G

\* The components of B name one another only, and none of them is on a cycle.
Settled(B) == \A v \in B \cap Math!Known : Uses(v) \subseteq B /\ <<v, v>> \notin Math!Reaches

\* A component that names only settled ones is on no cycle.
LEMMA SettledWith ==
  ASSUME Math!TypeOK, NEW B, Settled(B), NEW k \in Math!Known, k \notin B, Uses(k) \subseteq B
  PROVE  Settled(B \cup {k})
<1> DEFINE P == {e \in Pairs : e[1] \in B \cup {k} => e[2] \in B}
<1>1. Direct \subseteq P
  <2> SUFFICES ASSUME NEW e \in Direct, e[1] \in B \cup {k} PROVE e[2] \in B
    BY DEF Direct
  <2>1. e[1] \in Math!Known /\ e[2] \in Uses(e[1])
    BY DEF Direct, Pairs, Uses
  <2> QED
    BY <2>1 DEF Settled
<1>2. \A a, b, c \in Math!Known : <<a, b>> \in Direct /\ <<b, c>> \in P => <<a, c>> \in P
  <2> SUFFICES ASSUME NEW a \in Math!Known, NEW b \in Math!Known, NEW c \in Math!Known,
                      <<a, b>> \in Direct, <<b, c>> \in P, a \in B \cup {k}
               PROVE  c \in B
    BY DEF Pairs
  <2>1. <<a, b>> \in P
    BY <1>1
  <2>2. b \in B
    BY <2>1
  <2> QED
    BY <2>2
<1> HIDE DEF P
<1>3. Math!Reaches \subseteq P
  BY <1>1, <1>2, ReachesIsClosure
<1>4. <<k, k>> \notin Math!Reaches
  BY <1>3 DEF P
<1> QED
  BY <1>4 DEF Settled

\* A call that reports no cycle settles what it visits.
LEMMA VisitComplete ==
  ASSUME Math!TypeOK, NEW k \in Math!Known, ~Math!Visit[<<{k}, {}, {}>>].cycle
  PROVE  <<k, k>> \notin Math!Reaches
<1> DEFINE Pre(L, V, S) == L \subseteq Math!Known /\ S \subseteq V /\ Settled(V \ S)
           Post(L, V, S, W) == V \subseteq W /\ L \subseteq W \ S /\ Settled(W \ S)
           G == {at \in Visits : Pre(at[1], at[2], at[3]) /\ ~Math!Visit[at].cycle =>
                                   Post(at[1], at[2], at[3], Math!Visit[at].visited)}
<1>1. ASSUME NEW at \in Visits, \A b \in Visits : Weight(b) < Weight(at) => b \in G PROVE at \in G
  <2>1. PICK L \in SUBSET Codes, V \in SUBSET Codes, S \in SUBSET Codes : at = <<L, V, S>>
    BY DEF Visits
  <2>2. at[1] = L /\ at[2] = V /\ at[3] = S
    BY <2>1
  <2> SUFFICES ASSUME Pre(L, V, S), ~Math!Visit[at].cycle PROVE Post(L, V, S, Math!Visit[at].visited)
    BY <2>2
  <2>3. CASE L = {}
    <3>1. PICK dep : dep = Picked(L)
      OBVIOUS
    <3>2. VisitCase(Math!Visit, L, V, S, dep)
      BY <3>1, VisitCases
    <3>3. VisitBody(Math!Visit, at) = [cycle |-> FALSE, visited |-> V]
      BY <2>1, <2>3, <3>2 DEF VisitCase
    <3>4. Math!Visit[at] = VisitBody(Math!Visit, at)
      BY VisitDefined
    <3>5. Math!Visit[at].visited = V
      BY <3>3, <3>4
    <3> QED
      BY <2>3, <3>5
  <2>4. CASE L # {}
    <3>1. PICK dep \in L :
           \/ dep \in V /\ dep \in S /\ Math!Visit[<<L, V, S>>].cycle
           \/ /\ dep \in V /\ dep \notin S
              /\ Math!Visit[<<L, V, S>>] = Math!Visit[<<L \ {dep}, V, S>>]
              /\ Weight(<<L \ {dep}, V, S>>) < Weight(<<L, V, S>>)
           \/ /\ dep \notin V /\ Weight(Down(dep, V, S)) < Weight(<<L, V, S>>)
              /\ Math!Visit[Down(dep, V, S)].cycle
              /\ Math!Visit[<<L, V, S>>].cycle
           \/ /\ dep \notin V /\ Weight(Down(dep, V, S)) < Weight(<<L, V, S>>)
              /\ ~Math!Visit[Down(dep, V, S)].cycle
              /\ \E W \in SUBSET Codes :
                   /\ W = Math!Visit[Down(dep, V, S)].visited /\ (V \cup {dep}) \subseteq W
                   /\ Math!Visit[<<L, V, S>>] = Math!Visit[<<L \ {dep}, W, S>>]
                   /\ Weight(<<L \ {dep}, W, S>>) < Weight(<<L, V, S>>)
      BY <2>4, VisitSteps
    <3>2. dep \in Math!Known
      BY <3>1
    <3>3. ASSUME NEW U \in SUBSET Codes, Weight(<<L \ {dep}, U, S>>) < Weight(at),
                 Math!Visit[at] = Math!Visit[<<L \ {dep}, U, S>>],
                 V \subseteq U, dep \in U, dep \notin S, Settled(U \ S)
          PROVE  Post(L, V, S, Math!Visit[at].visited)
      <4> DEFINE b == <<L \ {dep}, U, S>>
      <4>1. b \in Visits /\ b[1] = L \ {dep} /\ b[2] = U /\ b[3] = S
        BY DEF Visits
      <4>2. b \in G
        BY <1>1, <3>3, <4>1
      <4>3. Pre(L \ {dep}, U, S)
        BY <3>3
      <4>4. ~Math!Visit[b].cycle /\ Math!Visit[at].visited = Math!Visit[b].visited
        BY <3>3
      <4> DEFINE R == Math!Visit[b].visited
      <4>5. Post(L \ {dep}, U, S, R)
        <5> HIDE DEF b, Pre, Post
        <5> QED
          BY <4>1, <4>2, <4>3, <4>4
      <4> HIDE DEF R
      <4>6. Post(L, V, S, R)
        BY <3>3, <4>5
      <4> QED
        BY <4>4, <4>6 DEF R
    <3>4. CASE dep \in V /\ dep \notin S /\ Math!Visit[at] = Math!Visit[<<L \ {dep}, V, S>>]
               /\ Weight(<<L \ {dep}, V, S>>) < Weight(at)
      <4> HIDE DEF Post, G
      <4> QED
        BY <3>3, <3>4
    <3>5. ASSUME dep \notin V, Weight(Down(dep, V, S)) < Weight(at), ~Math!Visit[Down(dep, V, S)].cycle,
                 NEW W \in SUBSET Codes, W = Math!Visit[Down(dep, V, S)].visited,
                 (V \cup {dep}) \subseteq W,
                 Math!Visit[at] = Math!Visit[<<L \ {dep}, W, S>>],
                 Weight(<<L \ {dep}, W, S>>) < Weight(at)
          PROVE  Post(L, V, S, Math!Visit[at].visited)
      <4> DEFINE b == Down(dep, V, S)
                 T == S \cup {dep}
                 X == V \cup {dep}
      <4>1. Uses(dep) \in SUBSET Codes /\ Uses(dep) \subseteq Math!Known
        BY MathSizes DEF Uses
      <4>2. b \in Visits /\ b[1] = Uses(dep) /\ b[2] = X /\ b[3] = T
        BY <4>1 DEF Visits, Down
      <4>3. b \in G
        BY <1>1, <3>5, <4>2
      <4>4. X \ T = V \ S /\ T \subseteq X
        BY <3>5
      <4>5. Pre(Uses(dep), X, T)
        <5> HIDE DEF X, T
        <5> QED
          BY <4>1, <4>4
      <4>6. ~Math!Visit[b].cycle /\ Math!Visit[b].visited = W
        BY <3>5
      <4>7. Post(Uses(dep), X, T, W)
        <5> HIDE DEF b, Pre, Post, X, T
        <5> QED
          BY <4>2, <4>3, <4>5, <4>6
      <4>8. X \subseteq W /\ Uses(dep) \subseteq W \ T /\ Settled(W \ T)
        BY <4>7
      <4>9. dep \notin S /\ dep \in W /\ V \subseteq W /\ W \ S = (W \ T) \cup {dep} /\ dep \notin W \ T
        BY <3>5
      <4> HIDE DEF X, T
      <4>10. Settled((W \ T) \cup {dep})
        BY <3>2, <4>8, <4>9, SettledWith
      <4>11. Settled(W \ S)
        BY <4>9, <4>10
      <4> HIDE DEF Post, G, Pre
      <4> QED
        BY <3>3, <3>5, <4>9, <4>11
    <3> HIDE DEF G, Pre, Post
    <3> QED
      BY <2>1, <3>1, <3>4, <3>5
  <2> QED
    BY <2>3, <2>4
<1> HIDE DEF G
<1>2. \A at \in Visits : at \in G
  BY <1>1, VisitInduction
<1> DEFINE at == <<{k}, {}, {}>>
           W == Math!Visit[at].visited
<1>3. at \in Visits /\ at[1] = {k} /\ at[2] = {} /\ at[3] = {}
  BY MathSizes DEF Visits
<1>4. Pre({k}, {}, {})
  BY DEF Settled
<1>5. Post({k}, {}, {}, W)
  <2>1. at \in G /\ ~Math!Visit[at].cycle
    BY <1>2, <1>3
  <2> HIDE DEF at, Pre, Post
  <2> QED
    BY <1>3, <1>4, <2>1 DEF G
<1> HIDE DEF W
<1> QED
  BY <1>5 DEF Settled

\* hasCycle reports a cycle exactly if a component needs itself.
LEMMA CircularDetected ==
  ASSUME Math!TypeOK
  PROVE  Math!detectCircularDependency <=> Circular
<1>1. ASSUME Math!detectCircularDependency PROVE Circular
  BY <1>1, VisitSound DEF Math!detectCircularDependency
<1>2. ASSUME Circular PROVE Math!detectCircularDependency
  BY <1>2, VisitComplete DEF Math!detectCircularDependency, Circular
<1> QED
  BY <1>1, <1>2

-------------------------------------------------------------------------------
\* Every formula names earlier components only.
InOrder == \A k \in Math!Known : \A j \in catalogue[k].uses : Math!Earlier(j, k)

\* Earlier compares positions, and nothing is earlier than itself.
LEMMA EarlierFacts ==
  ASSUME MathOrdered, MathSize \in Nat
  PROVE  /\ \A j, k : Math!Earlier(j, k) <=>
              \E m, n \in 1..MathSize : m < n /\ order[m] = j /\ order[n] = k
         /\ \A k : ~Math!Earlier(k, k)
         /\ \A a, b, c : Math!Earlier(a, b) /\ Math!Earlier(b, c) => Math!Earlier(a, c)
<1>1. DOMAIN order = 1..MathSize
  BY DEF MathOrdered
<1>2. \A j, k : Math!Earlier(j, k) <=> \E m, n \in 1..MathSize : m < n /\ order[m] = j /\ order[n] = k
  BY <1>1 DEF Math!Earlier
<1>3. \A k : ~Math!Earlier(k, k)
  BY <1>2 DEF MathOrdered
<1>4. ASSUME NEW a, NEW b, NEW c, Math!Earlier(a, b), Math!Earlier(b, c) PROVE Math!Earlier(a, c)
  <2>1. PICK m \in 1..MathSize, n \in 1..MathSize : m < n /\ order[m] = a /\ order[n] = b
    BY <1>2, <1>4
  <2>2. PICK p \in 1..MathSize, q \in 1..MathSize : p < q /\ order[p] = b /\ order[q] = c
    BY <1>2, <1>4
  <2>3. n = p
    BY <2>1, <2>2 DEF MathOrdered
  <2>4. m < q
    BY <2>1, <2>2, <2>3
  <2> QED
    BY <1>2, <2>1, <2>2, <2>4
<1> QED
  BY <1>2, <1>3, <1>4

\* A structure in the order of the references has no cycle.
LEMMA OrderIsAcyclic ==
  ASSUME Math!TypeOK, MathOrdered, InOrder
  PROVE  ~Circular
<1> DEFINE P == {e \in Pairs : Math!Earlier(e[2], e[1])}
<1>0. MathSize \in Nat
  BY MathSizes
<1>1. Direct \subseteq P
  <2> SUFFICES ASSUME NEW e \in Direct PROVE Math!Earlier(e[2], e[1])
    BY DEF Direct
  <2>1. e[1] \in Math!Known /\ e[2] \in catalogue[e[1]].uses
    BY DEF Direct, Pairs
  <2> QED
    BY <2>1 DEF InOrder
<1>2. \A a, b, c \in Math!Known : <<a, b>> \in Direct /\ <<b, c>> \in P => <<a, c>> \in P
  <2> SUFFICES ASSUME NEW a \in Math!Known, NEW b \in Math!Known, NEW c \in Math!Known,
                      <<a, b>> \in Direct, <<b, c>> \in P
               PROVE  Math!Earlier(c, a)
    BY DEF Pairs
  <2>1. <<a, b>> \in P
    BY <1>1
  <2>2. Math!Earlier(b, a) /\ Math!Earlier(c, b)
    BY <2>1
  <2> QED
    BY <1>0, <2>2, EarlierFacts
<1> HIDE DEF P
<1>3. Math!Reaches \subseteq P
  BY <1>1, <1>2, ReachesIsClosure
<1>4. \A k : ~Math!Earlier(k, k)
  BY <1>0, EarlierFacts
<1> QED
  BY <1>3, <1>4 DEF P, Circular

\* What is not the employer's contribution is an earning or a deduction.
LEMMA MathTotals ==
  ASSUME Math!TypeOK
  PROVE  /\ Math!netPayable <= Math!grossEarnings
         /\ Math!grossEarnings + Math!totalDeductions =
              Math!Total(Math!Known \ EmployerContributions, amount)
<1> DEFINE S == Math!Known \ (Deductions \cup EmployerContributions)
           T == Math!Known \cap Deductions
<1>1. /\ amount \in Context /\ S \in SUBSET Codes /\ T \in SUBSET Codes /\ S \cap T = {}
      /\ S \cup T = Math!Known \ EmployerContributions
  <2>1. amount \in Context /\ S \in SUBSET Codes /\ T \in SUBSET Codes /\ S \cap T = {}
    BY MathSizes
  <2>2. Deductions \cap EmployerContributions = {}
    BY PeopleAssumption, Zenon DEF PeopleAssumption
  <2> QED
    BY <2>1, <2>2
<1>2. Math!grossEarnings = Math!Total(S, amount) /\ Math!totalDeductions = Math!Total(T, amount)
  BY DEF Math!grossEarnings, Math!totalDeductions
<1> HIDE DEF S, T
<1>3. Math!Total(S, amount) \in Nat /\ Math!Total(T, amount) \in Nat
  BY <1>1, MathTotal
<1>4. Math!Total(S \cup T, amount) = Math!Total(S, amount) + Math!Total(T, amount)
  BY <1>1, MathTotalSplits
<1>5. Math!netPayable <= Math!grossEarnings
  BY <1>2, <1>3 DEF Math!netPayable, Math!Larger
<1> QED
  BY <1>1, <1>2, <1>4, <1>5

\* The invariant implies the property that the run checks.
LEMMA PayslipSound == MathInv => Math!PayslipFollowsDefinition
<1> SUFFICES ASSUME MathInv PROVE Math!PayslipFollowsDefinition
  OBVIOUS
<1>1. Math!TypeOK /\ (~twice => days.present + days.lop = days.working)
  BY DEF MathInv
<1>2. Math!detectCircularDependency <=> Circular
  BY <1>1, CircularDetected
<1>3. MathSize \in Nat
  BY <1>1, MathSizes
<1>4. ASSUME phase = "HELD" PROVE ~InOrder
  <2>1. MathOrdered /\ \E done \in 0..MathSize : MathProgress(done)
    BY <1>4 DEF MathInv
  <2>2. PICK done \in 0..MathSize : MathProgress(done)
    BY <2>1
  <2>3. /\ done + 1 \in 1..MathSize
        /\ \A i \in 1..MathSize : amount[order[i]] = Math!Missing <=> done < i
    BY <1>4, <2>2 DEF MathProgress
  <2>4. PICK j \in catalogue[order[done + 1]].uses : amount[j] = Math!Missing
    BY <1>4, <2>2 DEF MathProgress
  <2> SUFFICES ASSUME InOrder PROVE FALSE
    OBVIOUS
  <2>5. order[done + 1] \in Math!Known
    BY <2>1, <2>3 DEF MathOrdered
  <2>6. Math!Earlier(j, order[done + 1])
    BY <2>4, <2>5 DEF InOrder
  <2>7. PICK m \in 1..MathSize, n \in 1..MathSize : m < n /\ order[m] = j /\ order[n] = order[done + 1]
    BY <1>3, <2>1, <2>6, EarlierFacts
  <2>8. n = done + 1
    BY <2>1, <2>3, <2>7 DEF MathOrdered
  <2>9. ~(done < m)
    BY <2>7, <2>8
  <2> QED
    BY <2>3, <2>4, <2>7, <2>9
<1>5. ASSUME phase = "COMPUTED"
      PROVE  /\ InOrder /\ ~Circular
             /\ \A k \in Math!Known : Misplaced(k) \/ amount[k] = Math!Amount(k, amount)
  <2>1. MathOrdered /\ \E done \in 0..MathSize : MathProgress(done)
    BY <1>5 DEF MathInv
  <2>2. \A i \in 1..MathSize :
          /\ \A j \in catalogue[order[i]].uses : \E m \in 1..MathSize : m < i /\ order[m] = j
          /\ Misplaced(order[i]) \/ amount[order[i]] = Math!Amount(order[i], amount)
    <3>1. PICK done \in 0..MathSize : MathProgress(done)
      BY <2>1
    <3>2. done = MathSize
      BY <1>5, <3>1 DEF MathProgress
    <3> QED
      BY <1>3, <3>1, <3>2 DEF MathProgress
  <2>3. InOrder
    <3> SUFFICES ASSUME NEW k \in Math!Known, NEW j \in catalogue[k].uses PROVE Math!Earlier(j, k)
      BY DEF InOrder
    <3>1. PICK i \in 1..MathSize : order[i] = k
      BY <2>1 DEF MathOrdered
    <3>2. \E m \in 1..MathSize : m < i /\ order[m] = j
      BY <2>2, <3>1
    <3> QED
      BY <1>3, <2>1, <3>1, <3>2, EarlierFacts
  <2>4. ~Circular
    BY <1>1, <2>1, <2>3, OrderIsAcyclic
  <2>5. \A k \in Math!Known : Misplaced(k) \/ amount[k] = Math!Amount(k, amount)
    <3> TAKE k \in Math!Known
    <3>1. PICK i \in 1..MathSize : order[i] = k
      BY <2>1 DEF MathOrdered
    <3> QED
      BY <2>2, <3>1
  <2> QED
    BY <2>3, <2>4, <2>5
<1>6. /\ Math!netPayable <= Math!grossEarnings
      /\ Math!grossEarnings + Math!totalDeductions =
           Math!Total(Math!Known \ EmployerContributions, amount)
  BY <1>1, MathTotals
<1> QED
  BY <1>1, <1>2, <1>4, <1>5, <1>6 DEF Math!PayslipFollowsDefinition, Circular, InOrder, Misplaced
===============================================================================
