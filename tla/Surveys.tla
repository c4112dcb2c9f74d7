-------------------------------- MODULE Surveys --------------------------------
(* One survey, from its questions to its results: survey.service.ts.  Nothing  *)
(* closes a survey, so that is external here.                                  *)
EXTENDS Integers, FiniteSets

CONSTANTS
  Employees,
  MaxQuestions,  \* bound: questions of the survey
  MaxAnswers,    \* bound: answers of a submission to the same question
  minN,          \* answers below which a question shows no result
  Calls,         \* slots for calls in flight; each is used again and again
  Faults         \* {"abort"}: an await throws or the process dies

VARIABLES
  status,      \* Survey.status
  questions,   \* SurveyQuestion rows
  assigned,    \* SurveyAssignment: the employees, and whether they have answered
  sheets,      \* the anonymousTokens under which an employee has submitted answers
  answers,     \* SurveyResponse rows of the first question (by whom is not stored)
  call,        \* the calls in flight
  overlap      \* history: two calls overlapped

vars == <<status, questions, assigned, sheets, answers, call, overlap>>

NoOne  == "no one"
NoCall == [do |-> "idle", who |-> NoOne, with |-> {}]
People == Employees \cup {NoOne}

TypeOK ==
  /\ status \in {"DRAFT", "LAUNCHED", "CLOSED"}
  /\ questions \in 0..MaxQuestions
  /\ assigned \in [Employees -> {"none", "PENDING", "COMPLETED"}]
  /\ sheets \in [Employees -> 0..Cardinality(Calls)]
  /\ answers \subseteq [who : People, sheet : 0..Cardinality(Calls), nth : 0..MaxAnswers]
  /\ call \in [Calls -> [do : {"idle", "add", "launch", "submit"},
                         who : People, with : SUBSET Employees]]
  /\ overlap \in BOOLEAN

Init ==
  /\ status = "DRAFT" /\ questions = 0
  /\ assigned = [e \in Employees |-> "none"] /\ sheets = [e \in Employees |-> 0]
  /\ answers = {}
  /\ call = [c \in Calls |-> NoCall] /\ overlap = FALSE

Check(c, ok, do, who, with) ==
  /\ call[c] = NoCall /\ ok
  /\ call' = [call EXCEPT ![c] = [do |-> do, who |-> who, with |-> with]]
  /\ overlap' = (overlap \/ \E b \in Calls : call[b] # NoCall)
  /\ UNCHANGED <<status, questions, assigned, sheets, answers>>

Finish(c, do) ==
  /\ call[c].do = do
  /\ call' = [call EXCEPT ![c] = NoCall]
  /\ UNCHANGED overlap

\* addQuestion, and the questions that createSurvey starts with
AddCheck(c) == Check(c, status = "DRAFT" /\ questions < MaxQuestions, "add", NoOne, {})

AddWrite(c) ==
  /\ Finish(c, "add") /\ questions < MaxQuestions
  /\ questions' = questions + 1
  /\ UNCHANGED <<status, assigned, sheets, answers>>

LaunchCheck(c, who) == Check(c, status = "DRAFT", "launch", NoOne, who)

\* One transaction; an employee who is assigned already ends it.
LaunchWrite(c) ==
  /\ Finish(c, "launch")
  /\ IF \E e \in call[c].with : assigned[e] # "none" THEN UNCHANGED <<status, assigned>>
     ELSE /\ status' = "LAUNCHED"
          /\ assigned' = [e \in Employees |-> IF e \in call[c].with THEN "PENDING" ELSE assigned[e]]
  /\ UNCHANGED <<questions, sheets, answers>>

\* Mutant: an employee may answer again.
SubmitAgain(c, e) == Check(c, assigned[e] # "none" /\ status = "LAUNCHED", "submit", e, {})

SubmitCheck(c, e) == Check(c, assigned[e] = "PENDING" /\ status = "LAUNCHED", "submit", e, {})

\* One transaction: a row per element of the answers, and the assignment.  Nobody
\* looks at how many there are or whether a question is named twice.
SubmitWrite(c) ==
  /\ Finish(c, "submit")
  /\ LET e == call[c].who IN
       /\ sheets' = [sheets EXCEPT ![e] = @ + 1]
       /\ \E n \in 0..(IF questions = 0 THEN 0 ELSE MaxAnswers) :
            answers' = answers \cup {[who |-> e, sheet |-> sheets[e] + 1, nth |-> i] : i \in 1..n}
       /\ assigned' = [assigned EXCEPT ![e] = "COMPLETED"]
  /\ UNCHANGED <<status, questions>>

\* Nor to which survey a question belongs (bound: once).
SubmitElsewhere ==
  /\ questions > 0
  /\ answers' = answers \cup {[who |-> NoOne, sheet |-> 0, nth |-> 0]}
  /\ UNCHANGED <<status, questions, assigned, sheets, call, overlap>>

\* External
Close ==
  /\ status = "LAUNCHED" /\ status' = "CLOSED"
  /\ UNCHANGED <<questions, assigned, sheets, answers, call, overlap>>

Abort(c) ==
  /\ "abort" \in Faults /\ call[c] # NoCall /\ Finish(c, call[c].do)
  /\ UNCHANGED <<status, questions, assigned, sheets, answers>>

Next ==
  \/ Close \/ SubmitElsewhere
  \/ \E c \in Calls : \/ AddCheck(c) \/ AddWrite(c) \/ LaunchWrite(c) \/ SubmitWrite(c) \/ Abort(c)
                      \/ \E who \in SUBSET Employees : LaunchCheck(c, who)
                      \/ \E e \in Employees : SubmitCheck(c, e)

Spec == Init /\ [][Next]_vars

-------------------------------------------------------------------------------
\* getAggregateResults, of the first question: how many answers it counts, and none
\* unless there are enough to keep them anonymous.
Shown == IF status = "CLOSED" /\ Cardinality(answers) >= minN THEN Cardinality(answers) ELSE 0

\* Whatever overlaps, an employee has completed the survey exactly if they submitted
\* answers, perhaps none, and no answer of theirs is stored otherwise; unless calls
\* overlapped, they submitted once.  A result is shown only if minN employees have
\* completed the survey, provided that nobody answered the question twice or through
\* another survey: the code does not see to that.
DoneMeansAllDone ==
  /\ \A e \in Employees : assigned[e] = "COMPLETED" <=> sheets[e] > 0
  /\ \A a \in answers : a.who # NoOne => assigned[a.who] = "COMPLETED"
  /\ ~overlap => \A e \in Employees : sheets[e] <= 1
  /\ Shown > 0 /\ (\A a, b \in answers : a.who # NoOne /\ (a.who = b.who => a = b)) =>
       Cardinality({e \in Employees : assigned[e] = "COMPLETED"}) >= minN
===============================================================================
