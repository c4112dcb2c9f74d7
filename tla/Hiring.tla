-------------------------------- MODULE Hiring --------------------------------
(* One job requisition with its applications, their offers and the offer      *)
(* expiry jobs: modules/recruitment.                                          *)
(*                                                                            *)
(* Every operation reads a row, checks its status, and after an await updates *)
(* the row by id alone.  A call is between the two when it is in flight.  A   *)
(* transaction's updates are blind, or atomic increments, and so take effect  *)
(* together when it commits.                                                  *)
EXTENDS Naturals, FiniteSets

CONSTANTS
  Applications,
  Calls,        \* slots for API calls in flight; each is used again and again
  Expires,      \* the applications whose offer has an expiresAt
  Headcount,    \* headcountApproved
  MaxFilled,    \* bound: acceptances explored
  MaxJobs,      \* bound: expiry jobs per application explored
  Faults        \* {"abort"}: an await throws or the process dies

ASSUME HiringAssumption ==
  /\ IsFiniteSet(Applications) /\ Expires \subseteq Applications
  /\ Headcount \in Nat \ {0} /\ MaxFilled \in Nat /\ MaxJobs \in Nat
  /\ Faults \subseteq {"abort"}

VARIABLES
  req,      \* the JobRequisition row: status, headcountFilled, publicSlug set
  stage,    \* Application.stage, NONE before the row exists
  offer,    \* Offer.status, NONE before the row exists
  late,     \* the applications whose offer's expiresAt has passed
  delayed,  \* the expiry jobs in the queue, by application
  worker,   \* the application whose expiry job the worker has found SENT
  call,     \* the calls in flight
  sent,     \* history: applications whose offer was sent
  lost,     \* history: applications whose expiry job failed; it is not retried
  overlap   \* history: two calls, or a call and an expiry job, have overlapped

rows  == <<req, stage, offer, sent>>
queue == <<delayed, worker, lost>>
vars  == <<rows, queue, late, call, overlap>>

ReqStatus   == {"DRAFT", "PENDING_APPROVAL", "OPEN", "ON_HOLD", "CLOSED", "CANCELLED"}
Stages      == {"NONE", "APPLIED", "SCREENING", "INTERVIEW", "OFFER",
                "HIRED", "REJECTED", "WITHDRAWN"}
OfferStatus == {"NONE", "DRAFT", "SENT", "ACCEPTED", "DECLINED", "RESCINDED", "EXPIRED"}

Nobody == "nobody"
NoCall == [do |-> "idle", of |-> Nobody, to |-> "NONE"]
Steps  == {"idle", "submit", "approve", "hold", "close", "cancel", "apply", "move",
           "reject", "move_to_offer", "insert", "send", "enqueue", "accept",
           "decline", "rescind"}

TypeOK ==
  /\ req \in [status : ReqStatus, filled : Nat, published : BOOLEAN]
  /\ stage \in [Applications -> Stages]
  /\ offer \in [Applications -> OfferStatus]
  /\ late \subseteq Applications
  /\ delayed \in [Applications -> Nat]
  /\ \A a \in Applications \ Expires : delayed[a] = 0
  /\ worker \in Applications \cup {Nobody}
  /\ call \in [Calls -> [do : Steps, of : Applications \cup {Nobody}, to : Stages]]
  /\ sent \subseteq Applications /\ lost \subseteq Applications
  /\ overlap \in BOOLEAN

Init ==
  /\ req = [status |-> "DRAFT", filled |-> 0, published |-> FALSE]
  /\ stage = [a \in Applications |-> "NONE"]
  /\ offer = [a \in Applications |-> "NONE"]
  /\ late = {}
  /\ delayed = [a \in Applications |-> 0]
  /\ worker = Nobody
  /\ call = [c \in Calls |-> NoCall]
  /\ sent = {} /\ lost = {}
  /\ overlap = FALSE

-------------------------------------------------------------------------------
(* Calls *)

InFlight(c) == call[c] # NoCall

Begin(c, do, a, to) ==
  /\ ~InFlight(c)
  /\ call' = [call EXCEPT ![c] = [do |-> do, of |-> a, to |-> to]]
  /\ overlap' = (overlap \/ worker # Nobody \/ \E d \in Calls : InFlight(d))
  /\ UNCHANGED <<rows, queue, late>>

Continue(c, do) ==
  /\ call' = [call EXCEPT ![c].do = do]
  /\ UNCHANGED <<late, overlap>>

End(c) ==
  /\ call' = [call EXCEPT ![c] = NoCall]
  /\ UNCHANGED <<late, overlap>>

-------------------------------------------------------------------------------
(* job-requisition.service.ts *)

ReqCheck(c, do, allowed) == req.status \in allowed /\ Begin(c, do, Nobody, "NONE")

SubmitCheck(c)  == ReqCheck(c, "submit", {"DRAFT"})
ApproveCheck(c) == ReqCheck(c, "approve", {"PENDING_APPROVAL"})
HoldCheck(c)    == ReqCheck(c, "hold", {"OPEN"})
CloseCheck(c)   == ReqCheck(c, "close", {"OPEN", "ON_HOLD"})
CancelCheck(c)  == ReqCheck(c, "cancel", ReqStatus \ {"CLOSED"})

SetStatus(c, do, s) ==
  /\ call[c].do = do
  /\ req' = [req EXCEPT !.status = s]
  /\ End(c)
  /\ UNCHANGED <<stage, offer, sent, queue>>

Submit(c) == SetStatus(c, "submit", "PENDING_APPROVAL")
Hold(c)   == SetStatus(c, "hold", "ON_HOLD")
Close(c)  == SetStatus(c, "close", "CLOSED")
Cancel(c) == SetStatus(c, "cancel", "CANCELLED")

Approve(c) ==
  /\ call[c].do = "approve"
  /\ \E publish \in BOOLEAN :
       req' = [req EXCEPT !.status = "OPEN", !.published = publish]
  /\ End(c)
  /\ UNCHANGED <<stage, offer, sent, queue>>

-------------------------------------------------------------------------------
(* careers.controller.ts, application.service.ts *)

\* Applying again breaks the unique index on candidate and requisition.
ApplyCheck(c, a) ==
  /\ req.status = "OPEN" /\ req.published
  /\ stage[a] = "NONE"
  /\ Begin(c, "apply", a, "NONE")

Apply(c) ==
  LET a == call[c].of IN
  /\ call[c].do = "apply"
  /\ stage' = IF stage[a] = "NONE" THEN [stage EXCEPT ![a] = "APPLIED"] ELSE stage
  /\ End(c)
  /\ UNCHANGED <<req, offer, sent, queue>>

\* VALID_TRANSITIONS without HIRED, which moveStage refuses.
ValidTransitions ==
  {<<"APPLIED", "SCREENING">>, <<"SCREENING", "INTERVIEW">>, <<"INTERVIEW", "OFFER">>}
    \cup {"APPLIED", "SCREENING", "INTERVIEW", "OFFER"} \X {"REJECTED", "WITHDRAWN"}

\* interview.service.ts:46 moves SCREENING to INTERVIEW in the same two steps.
MoveCheck(c, a, to) ==
  /\ <<stage[a], to>> \in ValidTransitions
  /\ Begin(c, "move", a, to)

\* Mutant: an application may be rejected at any stage.
RejectAnyStage(c, a) ==
  /\ stage[a] # "NONE"
  /\ Begin(c, "reject", a, "REJECTED")

RejectCheck(c, a) ==
  /\ stage[a] \notin {"NONE", "HIRED", "REJECTED"}
  /\ Begin(c, "reject", a, "REJECTED")

MoveStage(c) ==
  /\ call[c].do \in {"move", "reject"}
  /\ stage' = [stage EXCEPT ![call[c].of] = call[c].to]
  /\ End(c)
  /\ UNCHANGED <<req, offer, sent, queue>>

-------------------------------------------------------------------------------
(* offer.service.ts *)

\* create moves the application to OFFER first, by a moveStage of its own.
CreateCheck(c, a) ==
  /\ stage[a] \in {"INTERVIEW", "OFFER"}
  /\ Begin(c, IF stage[a] = "OFFER" THEN "insert" ELSE "move_to_offer", a, "OFFER")

MoveToOffer(c) ==
  /\ call[c].do = "move_to_offer"
  /\ stage' = [stage EXCEPT ![call[c].of] = "OFFER"]
  /\ Continue(c, "insert")
  /\ UNCHANGED <<req, offer, sent, queue>>

\* Mutant: a second offer replaces the first one.
InsertOver(c) ==
  /\ call[c].do = "insert"
  /\ offer' = [offer EXCEPT ![call[c].of] = "DRAFT"]
  /\ End(c)
  /\ UNCHANGED <<req, stage, sent, queue>>

\* applicationId is unique: a second offer is refused.
InsertOffer(c) ==
  LET a == call[c].of IN
  /\ call[c].do = "insert"
  /\ offer' = IF offer[a] = "NONE" THEN [offer EXCEPT ![a] = "DRAFT"] ELSE offer
  /\ End(c)
  /\ UNCHANGED <<req, stage, sent, queue>>

SendCheck(c, a) == offer[a] = "DRAFT" /\ Begin(c, "send", a, "NONE")

\* Mutant: an expiry job for an offer that does not expire.
SendAlwaysExpires(c) ==
  LET a == call[c].of IN
  /\ call[c].do = "send"
  /\ offer' = [offer EXCEPT ![a] = "SENT"]
  /\ sent' = sent \cup {a}
  /\ IF a \notin late THEN Continue(c, "enqueue") ELSE End(c)
  /\ UNCHANGED <<req, stage, queue>>

Send(c) ==
  LET a == call[c].of IN
  /\ call[c].do = "send"
  /\ offer' = [offer EXCEPT ![a] = "SENT"]
  /\ sent' = sent \cup {a}
  /\ IF a \in Expires \ late THEN Continue(c, "enqueue") ELSE End(c)
  /\ UNCHANGED <<req, stage, queue>>

ScheduleExpiry(c) ==
  LET a == call[c].of IN
  /\ call[c].do = "enqueue"
  /\ delayed[a] < MaxJobs
  /\ delayed' = [delayed EXCEPT ![a] = @ + 1]
  /\ End(c)
  /\ UNCHANGED <<rows, worker, lost>>

\* Mutant: a draft can be accepted.
AcceptDraft(c, a) ==
  /\ offer[a] \in {"DRAFT", "SENT"} /\ a \notin Expires \cap late
  /\ Begin(c, "accept", a, "NONE")

AcceptCheck(c, a) ==
  /\ offer[a] = "SENT" /\ a \notin Expires \cap late
  /\ Begin(c, "accept", a, "NONE")

\* Mutant: the increment is lost when the requisition is closed already.
AcceptOpenOnly(c) ==
  LET a      == call[c].of
      filled == IF req.status = "CLOSED" THEN req.filled ELSE req.filled + 1
  IN
  /\ call[c].do = "accept"
  /\ req.filled < MaxFilled
  /\ offer' = [offer EXCEPT ![a] = "ACCEPTED"]
  /\ stage' = [stage EXCEPT ![a] = "HIRED"]
  /\ req' = [req EXCEPT !.filled = filled,
                        !.status = IF filled >= Headcount THEN "CLOSED" ELSE @]
  /\ End(c)
  /\ UNCHANGED <<sent, queue>>

\* Mutant: the requisition is closed one hire too late.
AcceptCloseLate(c) ==
  LET a == call[c].of IN
  /\ call[c].do = "accept"
  /\ req.filled < MaxFilled
  /\ offer' = [offer EXCEPT ![a] = "ACCEPTED"]
  /\ stage' = [stage EXCEPT ![a] = "HIRED"]
  /\ req' = [req EXCEPT !.filled = @ + 1,
                        !.status = IF req.filled >= Headcount THEN "CLOSED" ELSE @]
  /\ End(c)
  /\ UNCHANGED <<sent, queue>>

\* The transaction of accept with hireApplication and incrementHeadcountFilled.
Accept(c) ==
  LET a      == call[c].of
      filled == req.filled + 1
  IN
  /\ call[c].do = "accept"
  /\ req.filled < MaxFilled
  /\ offer' = [offer EXCEPT ![a] = "ACCEPTED"]
  /\ stage' = [stage EXCEPT ![a] = "HIRED"]
  /\ req' = [req EXCEPT !.filled = filled,
                        !.status = IF filled >= Headcount THEN "CLOSED" ELSE @]
  /\ End(c)
  /\ UNCHANGED <<sent, queue>>

DeclineCheck(c, a) == offer[a] = "SENT" /\ Begin(c, "decline", a, "NONE")

Decline(c) ==
  LET a == call[c].of IN
  /\ call[c].do = "decline"
  /\ offer' = [offer EXCEPT ![a] = "DECLINED"]
  /\ stage' = [stage EXCEPT ![a] = "REJECTED"]
  /\ End(c)
  /\ UNCHANGED <<req, sent, queue>>

RescindCheck(c, a) ==
  /\ offer[a] \in {"DRAFT", "SENT", "RESCINDED"}
  /\ Begin(c, "rescind", a, "NONE")

Rescind(c) ==
  /\ call[c].do = "rescind"
  /\ offer' = [offer EXCEPT ![call[c].of] = "RESCINDED"]
  /\ End(c)
  /\ UNCHANGED <<req, stage, sent, queue>>

Abort(c) ==
  /\ "abort" \in Faults
  /\ InFlight(c)
  /\ End(c)
  /\ UNCHANGED <<rows, queue>>

-------------------------------------------------------------------------------
(* offer-expiry.processor.ts, one job at a time; the delay ends at expiresAt *)

\* Mutant: the job looks for a draft.
ExpiryStartDraft(a) ==
  /\ worker = Nobody /\ delayed[a] > 0 /\ a \in late
  /\ delayed' = [delayed EXCEPT ![a] = @ - 1]
  /\ worker' = IF offer[a] = "DRAFT" THEN a ELSE Nobody
  /\ overlap' = (overlap \/ \E c \in Calls : InFlight(c))
  /\ UNCHANGED <<rows, late, call, lost>>

ExpiryStart(a) ==
  /\ worker = Nobody /\ delayed[a] > 0 /\ a \in late
  /\ delayed' = [delayed EXCEPT ![a] = @ - 1]
  /\ worker' = IF offer[a] = "SENT" THEN a ELSE Nobody
  /\ overlap' = (overlap \/ \E c \in Calls : InFlight(c))
  /\ UNCHANGED <<rows, late, call, lost>>

ExpiryWrite ==
  /\ worker # Nobody
  /\ offer' = [offer EXCEPT ![worker] = "EXPIRED"]
  /\ worker' = Nobody
  /\ UNCHANGED <<req, stage, sent, delayed, lost, late, call, overlap>>

\* The queue has no attempts: a job that throws is not run again.
ExpiryThrows ==
  /\ "abort" \in Faults
  /\ worker # Nobody
  /\ worker' = Nobody
  /\ lost' = lost \cup {worker}
  /\ UNCHANGED <<rows, delayed, late, call, overlap>>

TimePasses(a) ==
  /\ a \in Expires \ late
  /\ late' = late \cup {a}
  /\ UNCHANGED <<rows, queue, call, overlap>>

-------------------------------------------------------------------------------
Arrive(c) ==
  \/ SubmitCheck(c) \/ ApproveCheck(c) \/ HoldCheck(c) \/ CloseCheck(c) \/ CancelCheck(c)
  \/ \E a \in Applications :
       \/ ApplyCheck(c, a) \/ RejectCheck(c, a) \/ CreateCheck(c, a) \/ SendCheck(c, a)
       \/ AcceptCheck(c, a) \/ DeclineCheck(c, a) \/ RescindCheck(c, a)
       \/ \E to \in Stages : MoveCheck(c, a, to)

Proceed(c) ==
  \/ Submit(c) \/ Approve(c) \/ Hold(c) \/ Close(c) \/ Cancel(c)
  \/ Apply(c) \/ MoveStage(c) \/ MoveToOffer(c) \/ InsertOffer(c)
  \/ Send(c) \/ ScheduleExpiry(c) \/ Accept(c) \/ Decline(c) \/ Rescind(c)

Next ==
  \/ \E c \in Calls : Arrive(c) \/ Proceed(c) \/ Abort(c)
  \/ \E a \in Applications : ExpiryStart(a) \/ TimePasses(a)
  \/ ExpiryWrite \/ ExpiryThrows

Spec == Init /\ [][Next]_vars

\* Time passes, and the worker takes every job that is due.
FairSpec ==
  /\ Spec
  /\ \A a \in Applications : WF_vars(TimePasses(a)) /\ SF_vars(ExpiryStart(a))
  /\ WF_vars(ExpiryWrite)

-------------------------------------------------------------------------------
(* Properties *)

Hired == {a \in Applications : stage[a] = "HIRED"}

\* However calls overlap, nobody is hired without an offer that was sent to them.
HiredWasOffered == Hired \subseteq sent

\* However calls overlap, headcountFilled counts at least the hired applications:
\* accept increments it in the transaction that hires, never from a stale count.
HiredWithinFilled == Cardinality(Hired) <= req.filled

HiredIffAccepted == \A a \in Applications : stage[a] = "HIRED" <=> offer[a] = "ACCEPTED"

\* Unless calls overlapped, exactly the hired applications have an accepted offer,
\* whatever became of the application while its offer was out, and headcountFilled
\* is their number.
HiresAgree == overlap \/ (HiredIffAccepted /\ Cardinality(Hired) = req.filled)

\* Unless calls overlapped, a requisition that is full is closed for good.
FullIsClosed == overlap \/ (req.filled >= Headcount => req.status = "CLOSED")

Pipeline == INSTANCE HiringPipeline WITH
  Applications <- Applications, Expires <- Expires, Headcount <- Headcount,
  status <- req.status, published <- req.published, stage <- stage, offer <- offer

\* Until calls overlap, every step is an operation of HiringPipeline done at once, or
\* changes nothing of it, although each call checks in one step and writes blindly
\* in a later one, may stop between the two, and counts hires instead of
\* looking at them.
ImplementsPipeline == Pipeline!Init /\ [][overlap \/ Pipeline!Next]_(Pipeline!vars)

\* An offer that waits for its answer with an expiry job in the queue does not
\* stay SENT, even if the job races the answer, unless the job itself fails.
ExpiryJobWorks ==
  \A a \in Applications :
    offer[a] = "SENT" /\ delayed[a] > 0 ~> offer[a] # "SENT" \/ a \in lost

\* application.service.ts:16, VALID_TRANSITIONS: "REJECTED: [], // terminal".
RejectedIsTerminal ==
  [][\A a \in Applications : stage[a] = "REJECTED" => stage'[a] = "REJECTED"]_vars
===============================================================================
