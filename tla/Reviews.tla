-------------------------------- MODULE Reviews --------------------------------
(* One review cycle with one employee's review, and the employee's improvement *)
(* plans: review-cycle.service.ts, review.service.ts and pip.service.ts.  A    *)
(* review starts as PENDING, which saveResponse does not take for NOT_STARTED, *)
(* so IN_PROGRESS does not occur.                                              *)
EXTENDS Integers, FiniteSets

CONSTANTS
  Sections,  \* of the form
  Pips,      \* bound: improvement plans
  Calls,     \* slots for calls in flight; each is used again and again
  Faults     \* {"abort"}: an await throws or the process dies

VARIABLES
  cycle,     \* ReviewCycle.status
  review,    \* the ReviewInstance, once it is created
  response,  \* its ReviewResponse rows, by role and section
  pip,       \* PerformanceImprovementPlan.status
  call,      \* the calls in flight
  late,      \* history: responses saved or changed after their role's submission
  overlap    \* history: two calls overlapped

vars == <<cycle, review, response, pip, call, late, overlap>>

Roles    == {"SELF", "MANAGER"}
Keys     == Roles \X Sections
NoReview == [created |-> FALSE, status |-> [r \in Roles |-> "PENDING"],
             rated |-> FALSE, acknowledged |-> FALSE]
Nothing  == "nothing"
NoCall   == [do |-> "idle", on |-> Nothing, seen |-> {}]

TypeOK ==
  /\ cycle \in {"DRAFT", "ACTIVE", "CLOSED"}
  /\ review \in [created : BOOLEAN, status : [Roles -> {"PENDING", "SUBMITTED"}],
                 rated : BOOLEAN, acknowledged : BOOLEAN]
  /\ response \in [Keys -> {"none", "saved", "submitted"}] /\ late \subseteq Keys
  /\ pip \in [Pips -> {"none", "ACTIVE", "CLOSED"}]
  /\ call \in [Calls -> [do : {"idle", "activate", "close", "save", "submit", "override",
                               "acknowledge", "initiate", "closePip"},
                         on : {Nothing} \cup Roles \cup Pips, seen : SUBSET Keys]]
  /\ overlap \in BOOLEAN

Init ==
  /\ cycle = "DRAFT" /\ review = NoReview
  /\ response = [k \in Keys |-> "none"] /\ late = {}
  /\ pip = [n \in Pips |-> "none"]
  /\ call = [c \in Calls |-> NoCall] /\ overlap = FALSE

Check(c, ok, do, on, seen) ==
  /\ call[c] = NoCall /\ ok
  /\ call' = [call EXCEPT ![c] = [do |-> do, on |-> on, seen |-> seen]]
  /\ overlap' = (overlap \/ \E b \in Calls : call[b] # NoCall)
  /\ UNCHANGED <<cycle, review, response, pip, late>>

Finish(c, do) ==
  /\ call[c].do = do
  /\ call' = [call EXCEPT ![c] = NoCall]
  /\ UNCHANGED overlap

-------------------------------------------------------------------------------
ActivateCheck(c) == Check(c, cycle = "DRAFT", "activate", Nothing, {})

\* One transaction; a second review of the employee ends it.
ActivateWrite(c) ==
  /\ Finish(c, "activate")
  /\ IF review.created THEN UNCHANGED <<cycle, review>>
     ELSE cycle' = "ACTIVE" /\ review' = [review EXCEPT !.created = TRUE]
  /\ UNCHANGED <<response, pip, late>>

CloseCheck(c) == Check(c, cycle = "ACTIVE", "close", Nothing, {})

CloseWrite(c) ==
  /\ Finish(c, "close") /\ cycle' = "CLOSED"
  /\ UNCHANGED <<review, response, pip, late>>

\* A submitted response can still be changed; it keeps its submittedAt.
SaveCheck(c, k) == Check(c, review.created, "save", Nothing, {k})

SaveWrite(c) ==
  /\ Finish(c, "save")
  /\ \E k \in call[c].seen :
       /\ response' = [response EXCEPT ![k] = IF @ = "none" THEN "saved" ELSE @]
       /\ late' = IF review.status[k[1]] = "SUBMITTED" THEN late \cup {k} ELSE late
  /\ UNCHANGED <<cycle, review, pip>>

Saved(r) == {k \in Keys : k[1] = r /\ response[k] # "none"}

\* Mutant: an empty review can be submitted.
SubmitEmpty(c, r) ==
  Check(c, review.created /\ review.status[r] # "SUBMITTED", "submit", r, Saved(r))

SubmitCheck(c, r) ==
  Check(c, review.created /\ Saved(r) # {} /\ review.status[r] # "SUBMITTED",
        "submit", r, Saved(r))

\* One transaction over the responses that were read.
SubmitWrite(c) ==
  /\ Finish(c, "submit")
  /\ review' = [review EXCEPT !.status[call[c].on] = "SUBMITTED"]
  /\ response' = [k \in Keys |-> IF k \in call[c].seen THEN "submitted" ELSE response[k]]
  /\ UNCHANGED <<cycle, pip, late>>

OverrideCheck(c) ==
  Check(c, \A r \in Roles : review.status[r] = "SUBMITTED", "override", Nothing, {})

OverrideWrite(c) ==
  /\ Finish(c, "override") /\ review' = [review EXCEPT !.rated = TRUE]
  /\ UNCHANGED <<cycle, response, pip, late>>

AcknowledgeCheck(c) == Check(c, review.rated, "acknowledge", Nothing, {})

AcknowledgeWrite(c) ==
  /\ Finish(c, "acknowledge") /\ review' = [review EXCEPT !.acknowledged = TRUE]
  /\ UNCHANGED <<cycle, response, pip, late>>

-------------------------------------------------------------------------------
ActivePips == {n \in Pips : pip[n] = "ACTIVE"}
Free       == {n \in Pips : pip[n] = "none"}

\* addCheckIn names no plan in the row it creates, so it always fails.
InitiateCheck(c) == Check(c, ActivePips = {} /\ Free # {}, "initiate", Nothing, {})

InitiateWrite(c) ==
  /\ Finish(c, "initiate")
  /\ \E n \in Free : pip' = [pip EXCEPT ![n] = "ACTIVE"]
  /\ UNCHANGED <<cycle, review, response, late>>

ClosePipCheck(c, n) == Check(c, pip[n] = "ACTIVE", "closePip", n, {})

ClosePipWrite(c) ==
  /\ Finish(c, "closePip") /\ pip' = [pip EXCEPT ![call[c].on] = "CLOSED"]
  /\ UNCHANGED <<cycle, review, response, late>>

Abort(c) ==
  /\ "abort" \in Faults /\ call[c] # NoCall /\ Finish(c, call[c].do)
  /\ UNCHANGED <<cycle, review, response, pip, late>>

Next ==
  \E c \in Calls :
    \/ ActivateCheck(c) \/ ActivateWrite(c) \/ CloseCheck(c) \/ CloseWrite(c)
    \/ SaveWrite(c) \/ SubmitWrite(c) \/ OverrideCheck(c) \/ OverrideWrite(c)
    \/ AcknowledgeCheck(c) \/ AcknowledgeWrite(c)
    \/ InitiateCheck(c) \/ InitiateWrite(c) \/ ClosePipWrite(c) \/ Abort(c)
    \/ \E k \in Keys : SaveCheck(c, k)
    \/ \E r \in Roles : SubmitCheck(c, r)
    \/ \E n \in Pips : ClosePipCheck(c, n)

Spec == Init /\ [][Next]_vars

-------------------------------------------------------------------------------
\* Whatever overlaps, an acknowledged review has a rating, a rated one was submitted
\* by both sides, and a side that submitted has a submitted response.  Unless calls
\* overlapped, all of its responses are, but for those that were saved later, and the
\* employee has one active improvement plan at most.
DoneMeansAllDone ==
  /\ review.acknowledged => review.rated
  /\ review.rated => \A r \in Roles : \E k \in Saved(r) : response[k] = "submitted"
  /\ ~overlap => /\ \A r \in Roles : review.status[r] = "SUBMITTED" =>
                      \A k \in Saved(r) : response[k] = "submitted" \/ k \in late
                 /\ Cardinality(ActivePips) <= 1
===============================================================================
