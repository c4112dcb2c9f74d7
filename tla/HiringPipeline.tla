---------------------------- MODULE HiringPipeline ----------------------------
(* What recruitment promises of one requisition: each operation of            *)
(* apps/api/src/modules/recruitment happens at once, and the requisition      *)
(* closes when the applications that are hired fill it.  There is no counter  *)
(* and no queue.  Hiring.tla is the detailed system.  It implements this      *)
(* specification for as long as its calls do not overlap.                     *)
EXTENDS Naturals, FiniteSets

CONSTANTS Applications, Expires, Headcount

VARIABLES
  status,      \* JobRequisition.status
  published,   \* whether the requisition has a publicSlug
  stage,       \* Application.stage, NONE before the row exists
  offer        \* Offer.status, NONE before the row exists

vars == <<status, published, stage, offer>>

Init ==
  /\ status = "DRAFT" /\ published = FALSE
  /\ stage = [a \in Applications |-> "NONE"]
  /\ offer = [a \in Applications |-> "NONE"]

Hired == {a \in Applications : stage[a] = "HIRED"}

-------------------------------------------------------------------------------
(* The requisition *)

Turn(from, to) ==
  /\ status \in from
  /\ status' = to
  /\ UNCHANGED <<published, stage, offer>>

Submit == Turn({"DRAFT"}, "PENDING_APPROVAL")
Hold   == Turn({"OPEN"}, "ON_HOLD")
Close  == Turn({"OPEN", "ON_HOLD"}, "CLOSED")

Cancel ==
  /\ status # "CLOSED"
  /\ Turn({status}, "CANCELLED")

Approve ==
  /\ status = "PENDING_APPROVAL"
  /\ status' = "OPEN"
  /\ published' \in BOOLEAN
  /\ UNCHANGED <<stage, offer>>

-------------------------------------------------------------------------------
(* An application and its offer *)

MoveOn ==
  {<<"APPLIED", "SCREENING">>, <<"SCREENING", "INTERVIEW">>, <<"INTERVIEW", "OFFER">>,
   <<"WITHDRAWN", "REJECTED">>}
    \cup {"APPLIED", "SCREENING", "INTERVIEW", "OFFER"} \X {"REJECTED", "WITHDRAWN"}

Apply(a) ==
  /\ status = "OPEN" /\ published
  /\ stage[a] = "NONE"
  /\ stage' = [stage EXCEPT ![a] = "APPLIED"]
  /\ UNCHANGED <<status, published, offer>>

MoveStage(a) ==
  /\ \E to \in {"SCREENING", "INTERVIEW", "OFFER", "REJECTED", "WITHDRAWN"} :
       /\ <<stage[a], to>> \in MoveOn
       /\ stage' = [stage EXCEPT ![a] = to]
  /\ UNCHANGED <<status, published, offer>>

Answer(a, from, to) ==
  /\ offer[a] \in from
  /\ offer' = [offer EXCEPT ![a] = to]

\* An offer is made to somebody who has come to the last stage, and once.
MakeOffer(a) ==
  /\ stage[a] = "OFFER"
  /\ Answer(a, {"NONE"}, "DRAFT")
  /\ UNCHANGED <<status, published, stage>>

Send(a)    == Answer(a, {"DRAFT"}, "SENT") /\ UNCHANGED <<status, published, stage>>
Rescind(a) == Answer(a, {"DRAFT", "SENT"}, "RESCINDED") /\ UNCHANGED <<status, published, stage>>

Expire(a) ==
  /\ a \in Expires
  /\ Answer(a, {"SENT"}, "EXPIRED")
  /\ UNCHANGED <<status, published, stage>>

Decline(a) ==
  /\ Answer(a, {"SENT"}, "DECLINED")
  /\ stage' = [stage EXCEPT ![a] = "REJECTED"]
  /\ UNCHANGED <<status, published>>

\* Whoever accepts is hired, whatever the stage is by then, and nobody twice.
Accept(a) ==
  /\ Answer(a, {"SENT"}, "ACCEPTED")
  /\ stage[a] # "HIRED"
  /\ stage' = [stage EXCEPT ![a] = "HIRED"]
  /\ status' = IF Cardinality(Hired') >= Headcount THEN "CLOSED" ELSE status
  /\ UNCHANGED published

Next ==
  \/ Submit \/ Approve \/ Hold \/ Close \/ Cancel
  \/ \E a \in Applications :
       \/ Apply(a) \/ MoveStage(a)
       \/ MakeOffer(a) \/ Send(a) \/ Accept(a) \/ Decline(a) \/ Rescind(a) \/ Expire(a)

Spec == Init /\ [][Next]_vars
===============================================================================
