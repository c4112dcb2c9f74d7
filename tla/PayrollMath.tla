------------------------------ MODULE PayrollMath ------------------------------
(* What a payslip says: the catalogue of salary components with its formulas,  *)
(* the loss of pay, and the amounts PayrollEngine computes in the order of the *)
(* structure (salary-component.service.ts, formula-validator.ts,               *)
(* payroll-run.processor.ts, payroll-engine.ts, compute-payroll.ts).  Amounts  *)
(* are in hundredths and days in halves.  A formula is the sum of the          *)
(* components it names; PayrollCycle takes the results as given.               *)
EXTENDS Integers, FiniteSets, SequencesExt, Functions

CONSTANTS
  Codes, BASIC,   \* component codes; percentages are of BASIC
  Deductions,     \* the codes of type DEDUCTION ...
  EmployerContributions, \* ... and EMPLOYER_CONTRIBUTION; the others are EARNINGs
  Value, Percent, \* what a component of the catalogue states
  Owns,           \* what the structure states instead; 0 means nothing
  Month, Weekend, \* bound: the days of the month
  Holidays        \* the public holidays among them

VARIABLES
  catalogue,  \* SalaryComponent rows
  days,       \* working, present and lost days of the month, in halves
  twice,      \* a day of unpaid leave is not an ON_LEAVE working day: see Summary
  order, own, \* the structure: its codes in sortOrder, and its default values
  amount,     \* context: the amounts computed so far
  phase       \* of the computation

vars == <<catalogue, days, twice, order, own, amount, phase>>

NoRow   == [method |-> "none", uses |-> {}]
Rows    == {[method |-> m, uses |-> {}] : m \in {"FIXED", "PERCENT_OF_BASIC"}}
             \cup {[method |-> "FORMULA", uses |-> u] : u \in SUBSET Codes}
Missing == -1   \* not in the context
Known   == {k \in Codes : catalogue[k] # NoRow}

TypeOK ==
  /\ catalogue \in [Codes -> Rows \cup {NoRow}]
  /\ days \in [working : Nat, present : Nat, lop : Nat] /\ twice \in BOOLEAN
  /\ order \in Seq(Codes) /\ own \in Owns
  /\ amount \in [Codes -> Nat \cup {Missing}]
  /\ phase \in {"setup", "computing", "COMPUTED", "HELD"}

-------------------------------------------------------------------------------
(* Loss of pay                                                                *)

\* getWorkingDaysInMonth
WorkingDays == Month \ (Weekend \cup Holidays)

Larger(m, n) == IF m > n THEN m ELSE n

\* Attendance gives two halves for a day, one for HALF_DAY.  Every day of unpaid
\* leave is then taken off, so that leave on a day off, or without a record of
\* ON_LEAVE, is taken off beside the absence.
Summary(attended, leave) ==
  LET working == 2 * Cardinality(WorkingDays)
      here    == SumFunctionOnSet(attended, Month)
      lop     == Larger(0, working - here) + 2 * Cardinality(leave)
  IN [working |-> working, lop |-> lop, present |-> Larger(0, working - lop)]

Init ==
  /\ \E attended \in [Month -> 0..2], leave \in SUBSET Month :
       /\ days = Summary(attended, leave)
       /\ twice = \E d \in leave : d \notin WorkingDays \/ attended[d] < 2
  /\ catalogue = [k \in Codes |-> NoRow]
  /\ order = <<>> /\ own \in Owns
  /\ amount = [k \in Codes |-> Missing] /\ phase = "setup"

-------------------------------------------------------------------------------
(* The catalogue                                                              *)

\* validateFormula: every name must be a component that exists.
ValidFormula(row) == row.uses \subseteq Known

Put(k, row) ==
  /\ phase = "setup" /\ ValidFormula(row)
  /\ catalogue' = [catalogue EXCEPT ![k] = row]
  /\ UNCHANGED <<days, twice, order, own, amount, phase>>

create(k, row) == catalogue[k] = NoRow /\ Put(k, row)

\* The component itself exists by now, and so do those that use it.
update(k, row) == catalogue[k] # NoRow /\ catalogue[k] # row /\ Put(k, row)

\* getDependencies and hasCycle of detectCircularDependency: what is left to visit
\* of the node on top of the stack, the visited nodes and those on the stack.
Visit[at \in (SUBSET Codes) \X (SUBSET Codes) \X (SUBSET Codes)] ==
  LET left == at[1]  visited == at[2]  stack == at[3]
  IN IF left = {} THEN [cycle |-> FALSE, visited |-> visited]
     ELSE LET dep  == CHOOSE k \in left : TRUE
              down == IF dep \in visited THEN [cycle |-> dep \in stack, visited |-> visited]
                      ELSE Visit[<<catalogue[dep].uses \cap Known, visited \cup {dep},
                                   stack \cup {dep}>>]
          IN IF down.cycle THEN down ELSE Visit[<<left \ {dep}, down.visited, stack>>]

detectCircularDependency == \E k \in Known : Visit[<<{k}, {}, {}>>].cycle

-------------------------------------------------------------------------------
(* One employee's payslip                                                     *)

\* round2dp of a quotient, half up
Rounded(m, n) == (2 * m + n) \div (2 * n)

Stated(default) == IF own = 0 THEN default ELSE own

Total(S, in) == SumFunctionOnSet([k \in S |-> Larger(0, in[k])], S)

\* Mutant: a name that is not in the context counts as zero, like BASIC.
NeverThrows(k, in) == FALSE

\* evaluateFormula: a name that is not in the context throws.
Throws(k, in) == \E j \in catalogue[k].uses : in[j] = Missing

Amount(k, in) ==
  IF catalogue[k].method = "FIXED"
  THEN IF days.working = 0 THEN 0 ELSE Rounded(Stated(Value) * days.present, days.working)
  ELSE IF catalogue[k].method = "PERCENT_OF_BASIC"
       THEN Rounded(Larger(0, in[BASIC]) * Stated(Percent), 100)
       ELSE Total(catalogue[k].uses, in)

Start(codes) ==
  /\ phase = "setup" /\ ToSet(codes) = Known
  /\ order' = codes /\ phase' = "computing"
  /\ UNCHANGED <<catalogue, days, twice, own, amount>>

Left == {i \in DOMAIN order : amount[order[i]] = Missing}

computeForEmployee ==
  /\ phase = "computing" /\ Left # {}
  /\ LET k == order[CHOOSE i \in Left : \A j \in Left : i <= j] IN
       IF Throws(k, amount)
       THEN phase' = "HELD" /\ UNCHANGED amount
       ELSE amount' = [amount EXCEPT ![k] = Amount(k, amount)] /\ UNCHANGED phase
  /\ UNCHANGED <<catalogue, days, twice, order, own>>

Finish ==
  /\ phase = "computing" /\ Left = {}
  /\ phase' = "COMPUTED"
  /\ UNCHANGED <<catalogue, days, twice, order, own, amount>>

Next ==
  \/ \E k \in Codes, row \in Rows : create(k, row) \/ update(k, row)
  \/ \E codes \in SetToSeqs(Known) : Start(codes)
  \/ computeForEmployee \/ Finish

Spec == Init /\ [][Next]_vars

-------------------------------------------------------------------------------
(* The totals of the entry                                                    *)

grossEarnings   == Total(Known \ (Deductions \cup EmployerContributions), amount)
totalDeductions == Total(Known \cap Deductions, amount)
netPayable      == Larger(0, grossEarnings - totalDeductions)

Earlier(j, k) == \E m, n \in DOMAIN order : m < n /\ order[m] = j /\ order[n] = k

\* Reaches[n]: the pairs joined by a chain of 1..n references
Reaches ==
  LET reach[n \in 1..Cardinality(Codes)] ==
        LET direct == {e \in Known \X Known : e[2] \in catalogue[e[1]].uses}
        IN IF n = 1 THEN direct
           ELSE reach[n - 1] \cup {e \in Known \X Known : \E j \in Known :
                  <<e[1], j>> \in direct /\ <<j, e[2]>> \in reach[n - 1]}
  IN reach[Cardinality(Codes)]

\* A payslip is computed exactly if every formula names earlier components only, and
\* then every amount is what its definition gives for the amounts on the payslip
\* (unless a percentage comes before BASIC, which then counts as nothing): no order
\* of the structure can give another result.  A circular catalogue, which
\* validateFormula lets through but detectCircularDependency reports, gives none.
\* The days lost are those not attended, and no more than there are, unless unpaid
\* leave fell on days off or on days without a record.
PayslipFollowsDefinition ==
  LET inOrder  == \A k \in Known : \A j \in catalogue[k].uses : Earlier(j, k)
      circular == \E k \in Known : <<k, k>> \in Reaches
      misplaced(k) == catalogue[k].method = "PERCENT_OF_BASIC" /\ ~Earlier(BASIC, k)
  IN /\ detectCircularDependency <=> circular
     /\ phase = "HELD" => ~inOrder
     /\ phase = "COMPUTED" =>
          /\ inOrder /\ ~circular
          /\ \A k \in Known : misplaced(k) \/ amount[k] = Amount(k, amount)
          /\ netPayable <= grossEarnings
          /\ grossEarnings + totalDeductions = Total(Known \ EmployerContributions, amount)
     /\ ~twice => days.present + days.lop = days.working
===============================================================================
