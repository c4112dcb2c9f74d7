----------------------------- MODULE HiringProofs -----------------------------
(* Theorems about Hiring, for any finite set of applications, any number of   *)
(* overlapping calls, any headcount and any faults.                           *)
EXTENDS Hiring, FiniteSetTheorems, TLAPS

-------------------------------------------------------------------------------
(* The inductive invariant: types, what a call in flight has checked, and     *)
(* that an offer reaches SENT by sending it.                                  *)

ReqSteps == {"idle", "submit", "approve", "hold", "close", "cancel"}

CallOK(k) ==
  /\ k.do \notin ReqSteps => k.of \in Applications
  /\ k.do = "enqueue" => k.of \in Expires
  /\ k.do \in {"move", "reject"} => k.to # "HIRED"
  /\ k.do = "accept" => k.of \in sent

CallsChecked == \A c \in Calls : CallOK(call[c])

SentWasSent == \A a \in Applications : offer[a] = "SENT" => a \in sent

IInv == TypeOK /\ CallsChecked /\ SentWasSent /\ HiredWasOffered

LEMMA InitIInv == Init => IInv
<1> SUFFICES ASSUME Init PROVE IInv
  OBVIOUS
<1>1. NoCall \in [do : Steps, of : Applications \cup {Nobody}, to : Stages]
  BY DEF NoCall, Steps, Stages
<1>2. TypeOK
  BY <1>1 DEF Init, TypeOK, ReqStatus, Stages, OfferStatus
<1>3. CallsChecked
  BY DEF Init, CallsChecked, CallOK, NoCall, ReqSteps
<1>4. SentWasSent /\ HiredWasOffered
  BY DEF Init, SentWasSent, HiredWasOffered, Hired
<1> QED
  BY <1>2, <1>3, <1>4 DEF IInv

\* A call that begins is well typed; nothing but the calls and overlap changes.
LEMMA BeginKeeps ==
  ASSUME IInv, NEW c \in Calls, NEW do \in Steps, NEW a \in Applications \cup {Nobody},
         NEW to \in Stages, Begin(c, do, a, to),
         CallOK([do |-> do, of |-> a, to |-> to])
  PROVE  IInv'
<1>1. TypeOK'
  BY DEF IInv, TypeOK, Begin, rows, queue
<1>2. CallsChecked'
  BY DEF IInv, TypeOK, Begin, rows, CallsChecked, CallOK
<1>3. SentWasSent' /\ HiredWasOffered'
  BY DEF IInv, Begin, rows, SentWasSent, HiredWasOffered, Hired
<1> QED
  BY <1>1, <1>2, <1>3 DEF IInv

LEMMA ArriveKeeps ==
  ASSUME IInv, NEW c \in Calls, Arrive(c)
  PROVE  IInv'
<1> USE DEF Steps, Stages, ReqSteps, CallOK
<1>1. ASSUME NEW do \in ReqSteps, NEW allowed, ReqCheck(c, do, allowed) PROVE IInv'
  BY <1>1, BeginKeeps DEF ReqCheck
<1>2. CASE SubmitCheck(c) \/ ApproveCheck(c) \/ HoldCheck(c) \/ CloseCheck(c) \/ CancelCheck(c)
  BY <1>1, <1>2 DEF SubmitCheck, ApproveCheck, HoldCheck, CloseCheck, CancelCheck
<1>3. ASSUME NEW a \in Applications,
             ApplyCheck(c, a) \/ SendCheck(c, a) \/ DeclineCheck(c, a) \/ RescindCheck(c, a)
      PROVE IInv'
  BY <1>3, BeginKeeps DEF ApplyCheck, SendCheck, DeclineCheck, RescindCheck
<1>4. ASSUME NEW a \in Applications, RejectCheck(c, a) \/ CreateCheck(c, a) PROVE IInv'
  BY <1>4, BeginKeeps DEF RejectCheck, CreateCheck
<1>5. ASSUME NEW a \in Applications, AcceptCheck(c, a) PROVE IInv'
  <2>1. a \in sent
    BY <1>5 DEF AcceptCheck, IInv, SentWasSent
  <2> QED
    BY <1>5, <2>1, BeginKeeps DEF AcceptCheck
<1>6. ASSUME NEW a \in Applications, NEW to \in Stages, MoveCheck(c, a, to) PROVE IInv'
  <2>1. to # "HIRED"
    BY <1>6 DEF MoveCheck, ValidTransitions
  <2> QED
    BY <1>6, <2>1, BeginKeeps DEF MoveCheck
<1> QED
  BY <1>2, <1>3, <1>4, <1>5, <1>6 DEF Arrive

\* A call that goes on or ends keeps what the calls in flight have checked, when
\* sent only grows.
LEMMA EndKeeps ==
  ASSUME IInv, NEW c \in Calls, End(c), sent \subseteq sent'
  PROVE  CallsChecked' /\ call' \in [Calls -> [do : Steps, of : Applications \cup {Nobody}, to : Stages]]
BY DEF IInv, TypeOK, End, NoCall, CallsChecked, CallOK, ReqSteps, Steps, Stages

LEMMA ContinueKeeps ==
  ASSUME IInv, NEW c \in Calls, NEW do \in Steps, Continue(c, do), sent \subseteq sent',
         call[c].do \notin ReqSteps, do \in {"insert", "enqueue"},
         do = "enqueue" => call[c].of \in Expires
  PROVE  CallsChecked' /\ call' \in [Calls -> [do : Steps, of : Applications \cup {Nobody}, to : Stages]]
<1>1. call' = [call EXCEPT ![c].do = do]
  BY DEF Continue
<1>2. call' \in [Calls -> [do : Steps, of : Applications \cup {Nobody}, to : Stages]]
  BY <1>1 DEF IInv, TypeOK
<1>3. ASSUME NEW d \in Calls PROVE CallOK(call[d])'
  BY <1>1, <1>3 DEF IInv, TypeOK, CallsChecked, CallOK, ReqSteps
<1> QED
  BY <1>2, <1>3 DEF CallsChecked

LEMMA ProceedKeeps ==
  ASSUME IInv, NEW c \in Calls, Proceed(c)
  PROVE  IInv'
<1> USE DEF IInv, TypeOK, rows, queue, SentWasSent, HiredWasOffered, Hired
<1> DEFINE a == call[c].of
<1>1. ASSUME NEW do \in ReqSteps, NEW s \in ReqStatus, SetStatus(c, do, s) PROVE IInv'
  BY <1>1, EndKeeps DEF SetStatus, End
<1>2. CASE Submit(c) \/ Hold(c) \/ Close(c) \/ Cancel(c)
  BY <1>1, <1>2 DEF Submit, Hold, Close, Cancel, ReqSteps, ReqStatus
<1>3. CASE Approve(c)
  BY <1>3, EndKeeps DEF Approve, End, ReqStatus
<1>4. ASSUME call[c].do \notin ReqSteps PROVE a \in Applications
  BY <1>4 DEF CallsChecked, CallOK
<1>5. CASE Apply(c)
  BY <1>4, <1>5, EndKeeps DEF Apply, End, ReqSteps, Stages
<1>6. CASE MoveStage(c)
  <2>1. call[c].to # "HIRED"
    BY <1>6 DEF MoveStage, CallsChecked, CallOK
  <2> QED
    BY <1>4, <1>6, <2>1, EndKeeps DEF MoveStage, End, ReqSteps
<1>7. CASE MoveToOffer(c)
  <2>1. stage' = [stage EXCEPT ![a] = "OFFER"] /\ a \in Applications /\ sent' = sent
    BY <1>4, <1>7 DEF MoveToOffer, ReqSteps
  <2>2. CallsChecked' /\ call' \in [Calls -> [do : Steps, of : Applications \cup {Nobody}, to : Stages]]
    BY <1>7, ContinueKeeps DEF MoveToOffer, ReqSteps, Steps
  <2> QED
    BY <1>7, <2>1, <2>2 DEF MoveToOffer, Continue, Stages
<1>8. CASE InsertOffer(c)
  BY <1>4, <1>8, EndKeeps DEF InsertOffer, End, ReqSteps, OfferStatus
<1>9. CASE Send(c)
  <2>1. CallsChecked' /\ call' \in [Calls -> [do : Steps, of : Applications \cup {Nobody}, to : Stages]]
    BY <1>4, <1>9, EndKeeps, ContinueKeeps DEF Send, ReqSteps, Steps
  <2> QED
    BY <1>4, <1>9, <2>1 DEF Send, End, Continue, ReqSteps, OfferStatus
<1>10. CASE ScheduleExpiry(c)
  <2>1. a \in Expires
    BY <1>10 DEF ScheduleExpiry, CallsChecked, CallOK
  <2>2. /\ delayed' \in [Applications -> Nat]
        /\ \A b \in Applications \ Expires : delayed'[b] = 0
    BY <1>10, <2>1, HiringAssumption DEF ScheduleExpiry
  <2> QED
    BY <1>10, <2>2, EndKeeps DEF ScheduleExpiry, End
<1>11. CASE Accept(c)
  <2>1. a \in sent
    BY <1>11 DEF Accept, CallsChecked, CallOK
  <2>2. req' \in [status : ReqStatus, filled : Nat, published : BOOLEAN]
    <3> DEFINE filled == req.filled + 1
               s == IF filled >= Headcount THEN "CLOSED" ELSE req.status
    <3>1. s \in ReqStatus /\ filled \in Nat
      BY DEF ReqStatus
    <3>2. req' = [req EXCEPT !.filled = filled, !.status = s]
      BY <1>11 DEF Accept
    <3>3. [[req EXCEPT !.filled = filled] EXCEPT !.status = s]
            \in [status : ReqStatus, filled : Nat, published : BOOLEAN]
      BY <3>1
    <3> QED
      BY <3>2, <3>3
  <2> QED
    BY <1>4, <1>11, <2>1, <2>2, EndKeeps DEF Accept, End, ReqSteps, OfferStatus, Stages
<1>12. CASE Decline(c)
  BY <1>4, <1>12, EndKeeps DEF Decline, End, ReqSteps, OfferStatus, Stages
<1>13. CASE Rescind(c)
  BY <1>4, <1>13, EndKeeps DEF Rescind, End, ReqSteps, OfferStatus
<1> QED
  BY <1>2, <1>3, <1>5, <1>6, <1>7, <1>8, <1>9, <1>10, <1>11, <1>12, <1>13 DEF Proceed

LEMMA NextIInv == IInv /\ [Next]_vars => IInv'
<1> SUFFICES ASSUME IInv, [Next]_vars PROVE IInv'
  OBVIOUS
<1>1. ASSUME NEW c \in Calls, Arrive(c) \/ Proceed(c) PROVE IInv'
  BY <1>1, ArriveKeeps, ProceedKeeps
<1> USE DEF IInv, TypeOK, rows, queue, SentWasSent, HiredWasOffered, Hired
<1>2. ASSUME NEW c \in Calls, Abort(c) PROVE IInv'
  BY <1>2, EndKeeps DEF Abort, End
<1> USE DEF CallsChecked, CallOK
<1>3. ASSUME NEW a \in Applications, ExpiryStart(a) PROVE IInv'
  BY <1>3 DEF ExpiryStart
<1>4. ASSUME NEW a \in Applications, TimePasses(a) PROVE IInv'
  BY <1>4 DEF TimePasses
<1>5. CASE ExpiryWrite \/ ExpiryThrows
  BY <1>5 DEF ExpiryWrite, ExpiryThrows, OfferStatus
<1>6. CASE UNCHANGED vars
  BY <1>6 DEF vars
<1> QED
  BY <1>1, <1>2, <1>3, <1>4, <1>5, <1>6 DEF Next

\* However calls, expiry jobs and faults interleave, every row keeps its type and
\* an offer that never expires gets no expiry job.
THEOREM TypeCorrect == Spec => []TypeOK
<1>1. IInv => TypeOK
  BY DEF IInv
<1> QED
  BY <1>1, InitIInv, NextIInv, PTL DEF Spec

\* However calls overlap, accept hires only an applicant whose offer was sent.
THEOREM HiredWereOffered == Spec => []HiredWasOffered
<1>1. IInv => HiredWasOffered
  BY DEF IInv
<1> QED
  BY <1>1, InitIInv, NextIInv, PTL DEF Spec

-------------------------------------------------------------------------------
(* The counter of a requisition *)

LEMMA InitCounts == Init => HiredWithinFilled
<1> SUFFICES ASSUME Init PROVE HiredWithinFilled
  OBVIOUS
<1>1. Hired = {}
  BY DEF Init, Hired
<1> QED
  BY <1>1, FS_EmptySet DEF Init, HiredWithinFilled

\* Only accept adds to the hired, and it counts the one it adds.
LEMMA HiredGrows ==
  ASSUME IInv, [Next]_vars
  PROVE  \/ Hired' \subseteq Hired /\ req'.filled = req.filled
         \/ /\ req'.filled = req.filled + 1
            /\ \E a \in Applications : Hired' \subseteq Hired \cup {a}
<1> USE DEF IInv, TypeOK, Hired, rows
<1>1. ASSUME NEW c \in Calls, Arrive(c) PROVE Hired' \subseteq Hired /\ req'.filled = req.filled
  BY <1>1 DEF Arrive, SubmitCheck, ApproveCheck, HoldCheck, CloseCheck, CancelCheck, ReqCheck,
              ApplyCheck, RejectCheck, CreateCheck, SendCheck, AcceptCheck, DeclineCheck,
              RescindCheck, MoveCheck, Begin
<1>2. ASSUME NEW c \in Calls, Proceed(c), ~Accept(c)
      PROVE Hired' \subseteq Hired /\ req'.filled = req.filled
  <2>1. CASE Submit(c) \/ Hold(c) \/ Close(c) \/ Cancel(c) \/ Approve(c)
    BY <2>1 DEF Submit, Hold, Close, Cancel, SetStatus, Approve
  <2>2. CASE Apply(c) \/ MoveToOffer(c) \/ Decline(c)
    BY <2>2 DEF Apply, MoveToOffer, Decline
  <2>3. CASE MoveStage(c)
    <3>1. call[c].to # "HIRED"
      BY <2>3 DEF MoveStage, CallsChecked, CallOK
    <3> QED
      BY <2>3, <3>1 DEF MoveStage
  <2>4. CASE InsertOffer(c) \/ Send(c) \/ ScheduleExpiry(c) \/ Rescind(c)
    BY <2>4 DEF InsertOffer, Send, ScheduleExpiry, Rescind
  <2> QED
    BY <1>2, <2>1, <2>2, <2>3, <2>4 DEF Proceed
<1>3. ASSUME NEW c \in Calls, Accept(c)
      PROVE /\ req'.filled = req.filled + 1
            /\ \E a \in Applications : Hired' \subseteq Hired \cup {a}
  <2>1. call[c].of \in Applications
    BY <1>3 DEF Accept, CallsChecked, CallOK, ReqSteps
  <2> QED
    BY <1>3, <2>1 DEF Accept
<1>4. CASE (\E c \in Calls : Abort(c)) \/ (\E a \in Applications : ExpiryStart(a) \/ TimePasses(a))
             \/ ExpiryWrite \/ ExpiryThrows \/ UNCHANGED vars
  BY <1>4 DEF Abort, ExpiryStart, TimePasses, ExpiryWrite, ExpiryThrows, vars
<1> QED
  BY <1>1, <1>2, <1>3, <1>4 DEF Next

LEMMA NextCounts == IInv /\ HiredWithinFilled /\ [Next]_vars => HiredWithinFilled'
<1> SUFFICES ASSUME IInv, HiredWithinFilled, [Next]_vars PROVE HiredWithinFilled'
  OBVIOUS
<1>1. IsFiniteSet(Hired) /\ Cardinality(Hired) \in Nat
  BY HiringAssumption, FS_Subset, FS_CardinalityType DEF Hired
<1>2. req.filled \in Nat
  BY DEF IInv, TypeOK
<1>3. CASE Hired' \subseteq Hired /\ req'.filled = req.filled
  <2>1. Cardinality(Hired') <= Cardinality(Hired) /\ Cardinality(Hired') \in Nat
    BY <1>1, <1>3, FS_Subset, FS_CardinalityType
  <2> QED
    BY <1>1, <1>2, <1>3, <2>1 DEF HiredWithinFilled
<1>4. CASE /\ req'.filled = req.filled + 1
           /\ \E a \in Applications : Hired' \subseteq Hired \cup {a}
  <2>1. PICK a \in Applications : Hired' \subseteq Hired \cup {a}
    BY <1>4
  <2>2. IsFiniteSet(Hired \cup {a}) /\ Cardinality(Hired \cup {a}) <= Cardinality(Hired) + 1
          /\ Cardinality(Hired \cup {a}) \in Nat
    <3>1. /\ IsFiniteSet(Hired \cup {a})
          /\ Cardinality(Hired \cup {a}) =
               IF a \in Hired THEN Cardinality(Hired) ELSE Cardinality(Hired) + 1
      BY <1>1, FS_AddElement
    <3>2. CASE a \in Hired
      BY <1>1, <3>1, <3>2
    <3>3. CASE a \notin Hired
      BY <1>1, <3>1, <3>3
    <3> QED
      BY <3>2, <3>3
  <2>3. Cardinality(Hired') <= Cardinality(Hired \cup {a}) /\ Cardinality(Hired') \in Nat
    BY <2>1, <2>2, FS_Subset, FS_CardinalityType
  <2> QED
    BY <1>1, <1>2, <1>4, <2>2, <2>3 DEF HiredWithinFilled
<1> QED
  BY <1>3, <1>4, HiredGrows

\* However calls overlap, and whatever becomes of a hired application later,
\* headcountFilled never falls behind the number of hired applications.
THEOREM HiresAreCounted == Spec => []HiredWithinFilled
<1>1. Init => IInv /\ HiredWithinFilled
  BY InitIInv, InitCounts
<1>2. (IInv /\ HiredWithinFilled) /\ [Next]_vars => (IInv /\ HiredWithinFilled)'
  BY NextIInv, NextCounts
<1> QED
  BY <1>1, <1>2, PTL DEF Spec
-------------------------------------------------------------------------------
(* Calls that do not overlap.  As long as no two calls, and no call and expiry *)
(* job, have overlapped, what a call in flight has checked still holds when it *)
(* writes, because no other call or job is between its check and its write.   *)

ReqChecked(k) ==
  /\ k.do = "submit" => req.status = "DRAFT"
  /\ k.do = "approve" => req.status = "PENDING_APPROVAL"
  /\ k.do = "hold" => req.status = "OPEN"
  /\ k.do = "close" => req.status \in {"OPEN", "ON_HOLD"}
  /\ k.do = "cancel" => req.status # "CLOSED"
  /\ k.do = "apply" => req.status = "OPEN" /\ req.published

StageChecked(k) ==
  /\ k.do = "apply" => stage[k.of] = "NONE"
  /\ k.do = "move" => <<stage[k.of], k.to>> \in ValidTransitions
  /\ k.do = "reject" => stage[k.of] \notin {"NONE", "HIRED", "REJECTED"} /\ k.to = "REJECTED"
  /\ k.do = "move_to_offer" => stage[k.of] = "INTERVIEW"
  /\ k.do = "insert" => stage[k.of] = "OFFER"

OfferChecked(k) ==
  /\ k.do = "send" => offer[k.of] = "DRAFT"
  /\ k.do \in {"accept", "decline"} => offer[k.of] = "SENT"
  /\ k.do = "rescind" => offer[k.of] \in {"DRAFT", "SENT", "RESCINDED"}

Checked(k) == ReqChecked(k) /\ StageChecked(k) /\ OfferChecked(k)

OneAtATime ==
  /\ \A c, d \in Calls : InFlight(c) /\ InFlight(d) => c = d
  /\ worker # Nobody => /\ worker \in Expires /\ offer[worker] = "SENT"
                        /\ \A c \in Calls : ~InFlight(c)

SerialInv ==
  ~overlap => /\ OneAtATime
              /\ \A c \in Calls : Checked(call[c])
              /\ \A a \in Applications : stage[a] = "HIRED" <=> offer[a] = "ACCEPTED"
              /\ req.filled >= Headcount => req.status = "CLOSED"

\* An idle slot has checked nothing, and a check is of the rows only.
LEMMA IdleChecked == Checked(NoCall) /\ Checked(NoCall)'
BY DEF Checked, ReqChecked, StageChecked, OfferChecked, NoCall

LEMMA CheckedStays ==
  ASSUME NEW k, Checked(k), UNCHANGED <<req, stage, offer>>
  PROVE  Checked(k)'
BY DEF Checked, ReqChecked, StageChecked, OfferChecked

\* Nothing is done to a requisition that is closed, an application that is hired or
\* an offer that is accepted.
LEMMA CheckedOpen ==
  ASSUME NEW k, Checked(k)
  PROVE  /\ k.do \in ReqSteps \ {"idle"} => req.status # "CLOSED"
         /\ k.do \in {"apply", "move", "reject", "move_to_offer", "insert"}
              => stage[k.of] # "HIRED"
         /\ k.do \in {"accept", "decline"} => offer[k.of] = "SENT"
         /\ k.do \in {"send", "rescind"} => offer[k.of] # "ACCEPTED"
BY DEF Checked, ReqChecked, StageChecked, OfferChecked, ReqSteps, ValidTransitions

LEMMA InitSerial == Init => SerialInv
BY HiringAssumption, IdleChecked DEF Init, SerialInv, OneAtATime, InFlight

\* A call in flight is alone.
LEMMA SerialAlone ==
  ASSUME SerialInv, ~overlap, NEW c \in Calls, call[c].do # "idle"
  PROVE  /\ worker = Nobody
         /\ \A d \in Calls \ {c} : call[d] = NoCall
<1>1. InFlight(c)
  BY DEF InFlight, NoCall
<1> QED
  BY <1>1 DEF SerialInv, OneAtATime, InFlight

\* When the call that was alone ends, or goes on with a step that still holds,
\* the calls are as SerialInv says.
LEMMA SerialEnd ==
  ASSUME IInv, SerialInv, ~overlap, NEW c \in Calls, call[c].do # "idle",
         End(c), worker' = worker
  PROVE  OneAtATime' /\ \A d \in Calls : Checked(call[d])'
<1>1. worker = Nobody /\ \A d \in Calls \ {c} : call[d] = NoCall
  BY SerialAlone
<1>2. \A d \in Calls : call'[d] = NoCall
  BY <1>1 DEF End, IInv, TypeOK
<1> QED
  BY <1>1, <1>2, IdleChecked DEF OneAtATime, InFlight

LEMMA SerialContinue ==
  ASSUME IInv, SerialInv, ~overlap, NEW c \in Calls, NEW do, call[c].do # "idle",
         Continue(c, do), worker' = worker,
         do = "enqueue" \/ (do = "insert" /\ stage'[call[c].of] = "OFFER")
  PROVE  OneAtATime' /\ \A d \in Calls : Checked(call[d])'
<1>1. worker = Nobody /\ \A d \in Calls \ {c} : call[d] = NoCall
  BY SerialAlone
<1>2. call'[c] = [call[c] EXCEPT !.do = do] /\ \A d \in Calls \ {c} : call'[d] = NoCall
  BY <1>1 DEF Continue, IInv, TypeOK
<1>3. call'[c].do = do /\ call'[c].of = call[c].of
  BY <1>2 DEF IInv, TypeOK
<1>4. OneAtATime'
  BY <1>1, <1>2 DEF OneAtATime, InFlight
<1>5. \A d \in Calls \ {c} : Checked(call[d])'
  BY <1>2, IdleChecked
<1>6. Checked(call[c])'
  BY <1>3 DEF Checked, ReqChecked, StageChecked, OfferChecked
<1> QED
  BY <1>4, <1>5, <1>6

LEMMA SerialBegin ==
  ASSUME IInv, SerialInv, NEW c \in Calls, NEW do \in Steps,
         NEW a \in Applications \cup {Nobody}, NEW to \in Stages, Begin(c, do, a, to),
         overlap \/ Checked([do |-> do, of |-> a, to |-> to])
  PROVE  SerialInv'
<1> SUFFICES ASSUME ~overlap' PROVE SerialInv'
  BY DEF SerialInv
<1>1. ~overlap /\ worker = Nobody /\ \A d \in Calls : call[d] = NoCall
  BY DEF Begin, InFlight, IInv, TypeOK
<1>2. /\ call'[c] = [do |-> do, of |-> a, to |-> to]
      /\ \A d \in Calls \ {c} : call'[d] = NoCall
  BY <1>1 DEF Begin, IInv, TypeOK
<1>3. Checked([do |-> do, of |-> a, to |-> to])'
  BY <1>1, CheckedStays DEF Begin, rows
<1>4. OneAtATime' /\ \A d \in Calls : Checked(call[d])'
  BY <1>1, <1>2, <1>3, IdleChecked DEF OneAtATime, InFlight, Begin, queue
<1> QED
  BY <1>1, <1>4 DEF SerialInv, Begin, rows, queue

LEMMA SerialArrive ==
  ASSUME IInv, SerialInv, NEW c \in Calls, Arrive(c)
  PROVE  SerialInv'
<1> USE DEF Steps, Stages, Checked, ReqChecked, StageChecked, OfferChecked
<1>1. ASSUME NEW do \in ReqSteps, NEW allowed, ReqCheck(c, do, allowed),
             Checked([do |-> do, of |-> Nobody, to |-> "NONE"])
      PROVE  SerialInv'
  BY <1>1, SerialBegin DEF ReqCheck, ReqSteps
<1>2. CASE SubmitCheck(c) \/ ApproveCheck(c) \/ HoldCheck(c) \/ CloseCheck(c) \/ CancelCheck(c)
  BY <1>1, <1>2 DEF SubmitCheck, ApproveCheck, HoldCheck, CloseCheck, CancelCheck,
                    ReqCheck, ReqSteps
<1>3. ASSUME NEW a \in Applications,
             ApplyCheck(c, a) \/ SendCheck(c, a) \/ DeclineCheck(c, a) \/ RescindCheck(c, a)
      PROVE SerialInv'
  BY <1>3, SerialBegin DEF ApplyCheck, SendCheck, DeclineCheck, RescindCheck
<1>4. ASSUME NEW a \in Applications, RejectCheck(c, a) \/ CreateCheck(c, a) \/ AcceptCheck(c, a)
      PROVE SerialInv'
  BY <1>4, SerialBegin DEF RejectCheck, CreateCheck, AcceptCheck
<1>5. ASSUME NEW a \in Applications, NEW to \in Stages, MoveCheck(c, a, to) PROVE SerialInv'
  BY <1>5, SerialBegin DEF MoveCheck
<1> QED
  BY <1>2, <1>3, <1>4, <1>5 DEF Arrive

\* Calls overlap from the start of one of them on.
LEMMA ProceedAlone ==
  ASSUME NEW c \in Calls, Proceed(c)
  PROVE  overlap' = overlap
<1> USE DEF End, Continue
<1>1. CASE Submit(c) \/ Approve(c) \/ Hold(c) \/ Close(c) \/ Cancel(c)
  BY <1>1 DEF Submit, Approve, Hold, Close, Cancel, SetStatus
<1>2. CASE Apply(c) \/ MoveStage(c) \/ MoveToOffer(c) \/ InsertOffer(c)
  BY <1>2 DEF Apply, MoveStage, MoveToOffer, InsertOffer
<1>3. CASE Send(c) \/ ScheduleExpiry(c) \/ Accept(c) \/ Decline(c) \/ Rescind(c)
  BY <1>3 DEF Send, ScheduleExpiry, Accept, Decline, Rescind
<1> QED
  BY <1>1, <1>2, <1>3 DEF Proceed

LEMMA OverlapStays ==
  ASSUME [Next]_vars, overlap
  PROVE  overlap'
<1>1. ASSUME NEW c \in Calls, Arrive(c) PROVE overlap'
  BY <1>1 DEF Arrive, SubmitCheck, ApproveCheck, HoldCheck, CloseCheck, CancelCheck, ReqCheck,
              ApplyCheck, RejectCheck, CreateCheck, SendCheck, AcceptCheck, DeclineCheck,
              RescindCheck, MoveCheck, Begin
<1>2. ASSUME NEW c \in Calls, Proceed(c) PROVE overlap'
  BY <1>2, ProceedAlone
<1>3. ASSUME NEW c \in Calls, Abort(c) PROVE overlap'
  BY <1>3 DEF Abort, End
<1>4. CASE (\E a \in Applications : ExpiryStart(a) \/ TimePasses(a))
             \/ ExpiryWrite \/ ExpiryThrows \/ UNCHANGED vars
  BY <1>4 DEF ExpiryStart, TimePasses, ExpiryWrite, ExpiryThrows, vars
<1> QED
  BY <1>1, <1>2, <1>3, <1>4 DEF Next

LEMMA SerialProceed ==
  ASSUME IInv, SerialInv, NEW c \in Calls, Proceed(c)
  PROVE  SerialInv'
<1> SUFFICES ASSUME ~overlap' PROVE SerialInv'
  BY DEF SerialInv
<1> DEFINE a == call[c].of
           Agree == /\ \A b \in Applications : stage[b] = "HIRED" <=> offer[b] = "ACCEPTED"
                    /\ req.filled >= Headcount => req.status = "CLOSED"
<1>1. ~overlap
  BY ProceedAlone
<1>2. /\ Agree
      /\ call[c].do \in ReqSteps \ {"idle"} => req.status # "CLOSED"
      /\ call[c].do \in {"apply", "move", "reject", "move_to_offer", "insert"}
           => stage[a] # "HIRED"
      /\ call[c].do \in {"accept", "decline"} => offer[a] = "SENT"
      /\ call[c].do \in {"send", "rescind"} => offer[a] # "ACCEPTED"
  BY <1>1, CheckedOpen DEF SerialInv
<1>3. call[c].do # "idle" /\ worker' = worker
  BY DEF Proceed, Submit, Hold, Close, Cancel, SetStatus, Approve, Apply, MoveStage,
         MoveToOffer, InsertOffer, Send, ScheduleExpiry, Accept, Decline, Rescind, queue
<1>4. CASE Submit(c) \/ Hold(c) \/ Close(c) \/ Cancel(c) \/ Approve(c)
  <2>1. End(c) /\ req'.filled = req.filled /\ UNCHANGED <<stage, offer>>
    BY <1>4 DEF Submit, Hold, Close, Cancel, SetStatus, Approve, IInv, TypeOK
  <2>2. req.status # "CLOSED"
    BY <1>2, <1>4 DEF Submit, Hold, Close, Cancel, SetStatus, Approve, ReqSteps
  <2> QED
    BY <1>1, <1>2, <1>3, <2>1, <2>2, SerialEnd DEF SerialInv
<1>5. CASE Apply(c) \/ MoveStage(c)
  <2>1. stage[a] # "HIRED" /\ End(c) /\ UNCHANGED <<req, offer>>
    BY <1>2, <1>5 DEF Apply, MoveStage
  <2>2. \A b \in Applications : stage'[b] = "HIRED" <=> stage[b] = "HIRED"
    BY <1>5, <2>1 DEF Apply, MoveStage, IInv, TypeOK, CallsChecked, CallOK
  <2> QED
    BY <1>1, <1>2, <1>3, <2>1, <2>2, SerialEnd DEF SerialInv
<1>6. CASE MoveToOffer(c)
  <2>1. stage[a] # "HIRED" /\ Continue(c, "insert") /\ UNCHANGED <<req, offer>>
    BY <1>2, <1>6 DEF MoveToOffer
  <2>2. a \in Applications
    BY <1>6 DEF MoveToOffer, IInv, CallsChecked, CallOK, ReqSteps
  <2>3. /\ \A b \in Applications : stage'[b] = "HIRED" <=> stage[b] = "HIRED"
        /\ stage'[a] = "OFFER"
    BY <1>6, <2>1, <2>2 DEF MoveToOffer, IInv, TypeOK
  <2> QED
    BY <1>1, <1>2, <1>3, <2>1, <2>3, SerialContinue DEF SerialInv
<1>7. CASE InsertOffer(c) \/ Rescind(c)
  <2>1. End(c) /\ UNCHANGED <<req, stage>>
    BY <1>7 DEF InsertOffer, Rescind
  <2>2. \A b \in Applications : offer'[b] = "ACCEPTED" <=> offer[b] = "ACCEPTED"
    BY <1>2, <1>7 DEF InsertOffer, Rescind, IInv, TypeOK
  <2> QED
    BY <1>1, <1>2, <1>3, <2>1, <2>2, SerialEnd DEF SerialInv
<1>8. CASE Send(c)
  <2>1. UNCHANGED <<req, stage>>
    BY <1>8 DEF Send
  <2>2. \A b \in Applications : offer'[b] = "ACCEPTED" <=> offer[b] = "ACCEPTED"
    BY <1>2, <1>8 DEF Send, IInv, TypeOK
  <2>3. OneAtATime' /\ \A d \in Calls : Checked(call[d])'
    BY <1>1, <1>3, <1>8, SerialEnd, SerialContinue DEF Send
  <2> QED
    BY <1>1, <1>2, <2>1, <2>2, <2>3 DEF SerialInv
<1>9. CASE ScheduleExpiry(c)
  <2>1. End(c) /\ UNCHANGED <<req, stage, offer>>
    BY <1>9 DEF ScheduleExpiry, rows
  <2> QED
    BY <1>1, <1>2, <1>3, <2>1, SerialEnd DEF SerialInv
<1>10. CASE Accept(c)
  <2>1. End(c) /\ \A b \in Applications : stage'[b] = "HIRED" <=> offer'[b] = "ACCEPTED"
    BY <1>2, <1>10 DEF Accept, IInv, TypeOK
  <2>2. req'.filled >= Headcount => req'.status = "CLOSED"
    BY <1>10 DEF Accept, IInv, TypeOK
  <2> QED
    BY <1>1, <1>3, <2>1, <2>2, SerialEnd DEF SerialInv
<1>11. CASE Decline(c)
  <2>1. End(c) /\ UNCHANGED req
    BY <1>11 DEF Decline
  <2>2. \A b \in Applications : stage'[b] = "HIRED" <=> offer'[b] = "ACCEPTED"
    BY <1>2, <1>11 DEF Decline, IInv, TypeOK
  <2> QED
    BY <1>1, <1>2, <1>3, <2>1, <2>2, SerialEnd DEF SerialInv
<1> QED
  BY <1>4, <1>5, <1>6, <1>7, <1>8, <1>9, <1>10, <1>11 DEF Proceed

LEMMA NextSerial == IInv /\ SerialInv /\ [Next]_vars => SerialInv'
<1> SUFFICES ASSUME IInv, SerialInv, [Next]_vars PROVE SerialInv'
  OBVIOUS
<1>1. ASSUME NEW c \in Calls, Arrive(c) \/ Proceed(c) PROVE SerialInv'
  BY <1>1, SerialArrive, SerialProceed
<1>2. ASSUME NEW c \in Calls, Abort(c) PROVE SerialInv'
  <2> SUFFICES ASSUME ~overlap' PROVE SerialInv'
    BY DEF SerialInv
  <2>1. End(c) /\ UNCHANGED <<req, stage, offer, worker, overlap>> /\ InFlight(c)
    BY <1>2 DEF Abort, End, rows, queue
  <2>2. worker = Nobody /\ \A d \in Calls : call'[d] = NoCall
    BY <2>1 DEF End, SerialInv, OneAtATime, InFlight, IInv, TypeOK
  <2> QED
    BY <2>1, <2>2, IdleChecked DEF SerialInv, OneAtATime, InFlight
<1>3. ASSUME NEW a \in Applications, ExpiryStart(a) PROVE SerialInv'
  <2> SUFFICES ASSUME ~overlap' PROVE SerialInv'
    BY DEF SerialInv
  <2>1. ~overlap /\ UNCHANGED <<req, stage, offer, call>> /\ \A c \in Calls : ~InFlight(c)
    BY <1>3 DEF ExpiryStart, rows
  <2>2. worker' # Nobody => worker' \in Expires /\ offer[worker'] = "SENT"
    BY <1>3 DEF ExpiryStart, IInv, TypeOK
  <2>3. OneAtATime'
    BY <2>1, <2>2 DEF OneAtATime, InFlight
  <2> QED
    BY <2>1, <2>3, CheckedStays DEF SerialInv
<1>4. ASSUME NEW a \in Applications, TimePasses(a) PROVE SerialInv'
  BY <1>4, CheckedStays DEF TimePasses, SerialInv, OneAtATime, InFlight, rows, queue
<1>5. CASE ExpiryWrite
  <2> SUFFICES ASSUME ~overlap' PROVE SerialInv'
    BY DEF SerialInv
  <2>1. /\ ~overlap /\ worker' = Nobody /\ UNCHANGED <<req, stage, call>>
        /\ offer[worker] = "SENT" /\ offer' = [offer EXCEPT ![worker] = "EXPIRED"]
    BY <1>5 DEF ExpiryWrite, SerialInv, OneAtATime
  <2>2. \A c \in Calls : call[c] = NoCall
    BY <1>5, <2>1 DEF ExpiryWrite, SerialInv, OneAtATime, InFlight
  <2>3. \A b \in Applications : offer'[b] = "ACCEPTED" <=> offer[b] = "ACCEPTED"
    BY <2>1 DEF IInv, TypeOK
  <2>4. OneAtATime' /\ \A c \in Calls : Checked(call[c])'
    BY <2>1, <2>2, IdleChecked DEF OneAtATime, InFlight
  <2> QED
    BY <2>1, <2>3, <2>4 DEF SerialInv
<1>6. CASE ExpiryThrows
  BY <1>6, CheckedStays DEF ExpiryThrows, SerialInv, OneAtATime, InFlight, rows
<1>7. CASE UNCHANGED vars
  BY <1>7, CheckedStays DEF vars, rows, queue, SerialInv, OneAtATime, InFlight
<1> QED
  BY <1>1, <1>2, <1>3, <1>4, <1>5, <1>6, <1>7 DEF Next

LEMMA SerialAlways == Spec => [](IInv /\ SerialInv)
<1>1. Init => IInv /\ SerialInv
  BY InitIInv, InitSerial
<1>2. (IInv /\ SerialInv) /\ [Next]_vars => (IInv /\ SerialInv)'
  BY NextIInv, NextSerial
<1> QED
  BY <1>1, <1>2, PTL DEF Spec

\* Unless calls overlapped, a requisition with its headcount filled is closed, and
\* no later call opens, holds or cancels it.
THEOREM SerialFullIsClosed == Spec => []FullIsClosed
<1>1. IInv /\ SerialInv => FullIsClosed
  BY DEF SerialInv, FullIsClosed
<1> QED
  BY <1>1, SerialAlways, PTL

-------------------------------------------------------------------------------
(* The counter, when calls do not overlap: no hired application is hired again *)
(* or moved on, because what the call has checked still holds.                 *)

\* A step that does not hire leaves the hired as they are; a step that hires adds
\* an application that was not hired.
LEMMA SerialHires ==
  ASSUME IInv, SerialInv, ~overlap', [Next]_vars
  PROVE  \/ Hired' = Hired /\ req'.filled = req.filled
         \/ /\ req'.filled = req.filled + 1
            /\ \E a \in Applications \ Hired : Hired' = Hired \cup {a}
<1> USE DEF Hired, IInv, TypeOK, rows
<1>1. ASSUME NEW c \in Calls, Arrive(c) PROVE Hired' = Hired /\ req'.filled = req.filled
  BY <1>1 DEF Arrive, SubmitCheck, ApproveCheck, HoldCheck, CloseCheck, CancelCheck, ReqCheck,
              ApplyCheck, RejectCheck, CreateCheck, SendCheck, AcceptCheck, DeclineCheck,
              RescindCheck, MoveCheck, Begin
<1>2. ASSUME NEW c \in Calls, Proceed(c), ~overlap
      PROVE  \/ Hired' = Hired /\ req'.filled = req.filled
             \/ /\ req'.filled = req.filled + 1
                /\ \E a \in Applications \ Hired : Hired' = Hired \cup {a}
  <2> DEFINE a == call[c].of
  <2>1. call[c].do \notin ReqSteps => a \in Applications
    BY DEF CallsChecked, CallOK
  <2>2. /\ call[c].do \in {"apply", "move", "reject", "move_to_offer", "insert"}
             => stage[a] # "HIRED"
        /\ call[c].do \in {"accept", "decline"} => stage[a] # "HIRED"
    BY <1>2, <2>1, CheckedOpen DEF SerialInv, ReqSteps
  <2>3. CASE Submit(c) \/ Hold(c) \/ Close(c) \/ Cancel(c) \/ Approve(c)
    BY <2>3 DEF Submit, Hold, Close, Cancel, SetStatus, Approve
  <2>4. CASE Apply(c) \/ MoveStage(c) \/ MoveToOffer(c) \/ Decline(c)
    <3>1. a \in Applications \ Hired
      BY <2>1, <2>2, <2>4 DEF Apply, MoveStage, MoveToOffer, Decline, ReqSteps
    <3>2. \E s \in Stages \ {"HIRED"} : stage' = [stage EXCEPT ![a] = s]
      <4>1. call[c].do \in {"move", "reject"} => call[c].to # "HIRED"
        BY DEF CallsChecked, CallOK
      <4>2. stage = [stage EXCEPT ![a] = stage[a]]
        OBVIOUS
      <4> QED
        BY <2>4, <3>1, <4>1, <4>2 DEF Apply, MoveStage, MoveToOffer, Decline, Stages
    <3>3. Hired' = Hired
      BY <3>1, <3>2
    <3> QED
      BY <2>4, <3>3 DEF Apply, MoveStage, MoveToOffer, Decline
  <2>5. CASE InsertOffer(c) \/ Send(c) \/ ScheduleExpiry(c) \/ Rescind(c)
    BY <2>5 DEF InsertOffer, Send, ScheduleExpiry, Rescind
  <2>6. CASE Accept(c)
    <3>1. a \in Applications \ Hired
      BY <2>1, <2>2, <2>6 DEF Accept, ReqSteps
    <3>2. stage' = [stage EXCEPT ![a] = "HIRED"] /\ req'.filled = req.filled + 1
      BY <2>6 DEF Accept
    <3>3. Hired' = Hired \cup {a}
      BY <3>1, <3>2
    <3> QED
      BY <3>1, <3>2, <3>3
  <2> QED
    BY <1>2, <2>3, <2>4, <2>5, <2>6 DEF Proceed
<1>3. (\E c \in Calls : Proceed(c)) => ~overlap
  BY ProceedAlone
<1>4. CASE (\E c \in Calls : Abort(c)) \/ (\E a \in Applications : ExpiryStart(a) \/ TimePasses(a))
             \/ ExpiryWrite \/ ExpiryThrows \/ UNCHANGED vars
  BY <1>4 DEF Abort, ExpiryStart, TimePasses, ExpiryWrite, ExpiryThrows, vars
<1> QED
  BY <1>1, <1>2, <1>3, <1>4 DEF Next

LEMMA NextMatches ==
  IInv /\ SerialInv /\ HiresAgree /\ [Next]_vars => HiresAgree'
<1> SUFFICES ASSUME IInv, SerialInv, HiresAgree, [Next]_vars, ~overlap'
             PROVE  HiredIffAccepted' /\ Cardinality(Hired') = req'.filled
  BY DEF HiresAgree
<1>1. ~overlap
  BY OverlapStays
<1>2. IsFiniteSet(Hired) /\ Cardinality(Hired) = req.filled
  BY <1>1, HiringAssumption, FS_Subset DEF Hired, HiresAgree
<1>3. HiredIffAccepted'
  BY NextSerial DEF SerialInv, HiredIffAccepted
<1>4. CASE Hired' = Hired /\ req'.filled = req.filled
  BY <1>2, <1>3, <1>4
<1>5. CASE /\ req'.filled = req.filled + 1
           /\ \E a \in Applications \ Hired : Hired' = Hired \cup {a}
  BY <1>2, <1>3, <1>5, FS_AddElement
<1> QED
  BY <1>4, <1>5, SerialHires

LEMMA SerialBooks == Spec => [](IInv /\ SerialInv /\ HiresAgree)
<1>1. Init => HiresAgree
  <2> SUFFICES ASSUME Init PROVE Hired = {} /\ req.filled = 0 /\ HiredIffAccepted
    BY FS_EmptySet DEF HiresAgree
  <2> QED
    BY DEF Init, Hired, HiredIffAccepted
<1>2. (IInv /\ SerialInv) /\ HiresAgree /\ [Next]_vars => HiresAgree'
  BY NextMatches
<1> QED
  BY <1>1, <1>2, SerialAlways, PTL DEF Spec

\* Unless calls overlapped, the hired applications are those with an accepted offer,
\* and headcountFilled is their number: nobody is counted twice, and nobody who was
\* counted is moved on.
THEOREM SerialHiresAgree == Spec => []HiresAgree
<1> QED
  BY SerialBooks, PTL

-------------------------------------------------------------------------------
(* Hiring implements HiringPipeline as long as calls do not overlap.          *)

\* A check changes nothing of the rows, and neither do the clock, the start of an
\* expiry job or what stops half-way.
LEMMA ChecksStutter ==
  ASSUME [Next]_vars
  PROVE  (\E c \in Calls : Proceed(c)) \/ ExpiryWrite \/ UNCHANGED <<req, stage, offer>>
<1>1. ASSUME NEW c \in Calls, Arrive(c) PROVE UNCHANGED <<req, stage, offer>>
  BY <1>1 DEF Arrive, SubmitCheck, ApproveCheck, HoldCheck, CloseCheck, CancelCheck, ReqCheck,
              ApplyCheck, RejectCheck, CreateCheck, SendCheck, AcceptCheck, DeclineCheck,
              RescindCheck, MoveCheck, Begin, rows
<1>2. CASE (\E c \in Calls : Abort(c)) \/ (\E a \in Applications : ExpiryStart(a) \/ TimePasses(a))
             \/ ExpiryThrows \/ UNCHANGED vars
  BY <1>2 DEF Abort, ExpiryStart, TimePasses, ExpiryThrows, vars, rows
<1> QED
  BY <1>1, <1>2 DEF Next

\* HiringPipeline counts with the same operator.
LEMMA SameCount == ASSUME NEW S PROVE Pipeline!Cardinality(S) = Cardinality(S)
BY Zenon DEF Pipeline!Cardinality, Cardinality

\* The write of a call that is alone is an operation of the pipeline, done at once.
LEMMA ProceedImplements ==
  ASSUME IInv, SerialInv, HiresAgree, ~overlap, NEW c \in Calls, Proceed(c)
  PROVE  Pipeline!Next \/ UNCHANGED Pipeline!vars
<1> DEFINE a == call[c].of
<1> USE DEF Pipeline!vars
<1>1. ReqChecked(call[c]) /\ StageChecked(call[c]) /\ OfferChecked(call[c])
  BY DEF SerialInv, Checked
<1>2. call[c].do \notin ReqSteps => a \in Applications
  BY DEF IInv, CallsChecked, CallOK
<1>3. CASE Submit(c) \/ Hold(c) \/ Close(c) \/ Cancel(c)
  <2>1. \E s : req' = [req EXCEPT !.status = s] /\ UNCHANGED <<stage, offer>>
    BY <1>3 DEF Submit, Hold, Close, Cancel, SetStatus
  <2>2. UNCHANGED <<req.published, stage, offer>>
    BY <2>1 DEF IInv, TypeOK
  <2>3. \/ req.status = "DRAFT" /\ req'.status = "PENDING_APPROVAL"
        \/ req.status = "OPEN" /\ req'.status = "ON_HOLD"
        \/ req.status \in {"OPEN", "ON_HOLD"} /\ req'.status = "CLOSED"
        \/ req.status # "CLOSED" /\ req'.status = "CANCELLED"
    BY <1>1, <1>3 DEF Submit, Hold, Close, Cancel, SetStatus, ReqChecked, IInv, TypeOK
  <2>4. Pipeline!Submit \/ Pipeline!Hold \/ Pipeline!Close \/ Pipeline!Cancel
    BY <2>2, <2>3 DEF Pipeline!Submit, Pipeline!Hold, Pipeline!Close, Pipeline!Cancel, Pipeline!Turn
  <2> QED
    BY <2>4 DEF Pipeline!Next
<1>4. CASE Approve(c)
  <2>1. req.status = "PENDING_APPROVAL" /\ UNCHANGED <<stage, offer>>
    BY <1>1, <1>4 DEF Approve, ReqChecked
  <2>2. req'.status = "OPEN" /\ req'.published \in BOOLEAN
    BY <1>4 DEF Approve, IInv, TypeOK
  <2>3. Pipeline!Approve
    BY <2>1, <2>2 DEF Pipeline!Approve
  <2> QED
    BY <2>3 DEF Pipeline!Next
<1>5. CASE Apply(c)
  <2>1. a \in Applications /\ Pipeline!Apply(a)
    BY <1>1, <1>2, <1>5 DEF Apply, ReqChecked, StageChecked, ReqSteps, Pipeline!Apply
  <2> QED
    BY <2>1 DEF Pipeline!Next
<1>6. CASE MoveStage(c) \/ MoveToOffer(c)
  <2> DEFINE to == IF call[c].do = "move_to_offer" THEN "OFFER" ELSE call[c].to
  <2>1. a \in Applications /\ stage' = [stage EXCEPT ![a] = to] /\ UNCHANGED <<req, offer>>
    BY <1>2, <1>6 DEF MoveStage, MoveToOffer, ReqSteps
  <2>2. /\ <<stage[a], to>> \in Pipeline!MoveOn
        /\ to \in {"SCREENING", "INTERVIEW", "OFFER", "REJECTED", "WITHDRAWN"}
    <3>1. stage[a] \in Stages
      BY <2>1 DEF IInv, TypeOK
    <3>2. \/ <<stage[a], to>> \in ValidTransitions
          \/ stage[a] \notin {"NONE", "HIRED", "REJECTED"} /\ to = "REJECTED"
          \/ stage[a] = "INTERVIEW" /\ to = "OFFER"
      BY <1>1, <1>6 DEF MoveStage, MoveToOffer, StageChecked
    <3> QED
      BY <3>1, <3>2 DEF ValidTransitions, Pipeline!MoveOn, Stages
  <2>3. Pipeline!MoveStage(a)
    BY <2>1, <2>2 DEF Pipeline!MoveStage
  <2> QED
    BY <2>1, <2>3 DEF Pipeline!Next
<1>7. CASE InsertOffer(c)
  <2>1. a \in Applications /\ stage[a] = "OFFER" /\ UNCHANGED <<req, stage>>
    BY <1>1, <1>2, <1>7 DEF InsertOffer, StageChecked, ReqSteps
  <2>2. Pipeline!MakeOffer(a) \/ UNCHANGED offer
    BY <1>7, <2>1 DEF InsertOffer, Pipeline!MakeOffer, Pipeline!Answer
  <2> QED
    BY <2>1, <2>2 DEF Pipeline!Next
<1>8. CASE Send(c)
  <2>1. a \in Applications /\ Pipeline!Send(a)
    BY <1>1, <1>2, <1>8 DEF Send, OfferChecked, ReqSteps, Pipeline!Send, Pipeline!Answer
  <2> QED
    BY <2>1 DEF Pipeline!Next
<1>9. CASE ScheduleExpiry(c)
  BY <1>9 DEF ScheduleExpiry, rows
<1>10. CASE Accept(c)
  <2>1. a \in Applications /\ offer[a] = "SENT"
    BY <1>1, <1>2, <1>10 DEF Accept, OfferChecked, ReqSteps
  <2>2. a \notin Hired /\ stage[a] # "HIRED"
    BY <2>1 DEF SerialInv, Hired
  <2>3. /\ offer' = [offer EXCEPT ![a] = "ACCEPTED"]
        /\ stage' = [stage EXCEPT ![a] = "HIRED"]
        /\ req'.status = IF req.filled + 1 >= Headcount THEN "CLOSED" ELSE req.status
        /\ req'.published = req.published
    BY <1>10 DEF Accept, IInv, TypeOK
  <2>4. Pipeline!Hired' = Hired \cup {a}
    BY <2>1, <2>3 DEF Pipeline!Hired, Hired, IInv, TypeOK
  <2>5. Cardinality(Hired \cup {a}) = req.filled + 1
    <3>1. IsFiniteSet(Hired) /\ Cardinality(Hired) = req.filled
      BY HiringAssumption, FS_Subset DEF Hired, HiresAgree
    <3> QED
      BY <2>2, <3>1, FS_AddElement
  <2>6. Pipeline!Accept(a)
    <3>1. req'.status = IF Pipeline!Cardinality(Pipeline!Hired') >= Headcount
                             THEN "CLOSED" ELSE req.status
      BY <2>3, <2>4, <2>5, SameCount
    <3> QED
      BY <2>1, <2>2, <2>3, <3>1 DEF Pipeline!Accept, Pipeline!Answer
  <2> QED
    BY <2>1, <2>6 DEF Pipeline!Next
<1>11. CASE Decline(c)
  <2>1. a \in Applications /\ Pipeline!Decline(a)
    BY <1>1, <1>2, <1>11 DEF Decline, OfferChecked, ReqSteps, Pipeline!Decline, Pipeline!Answer
  <2> QED
    BY <2>1 DEF Pipeline!Next
<1>12. CASE Rescind(c)
  <2>1. /\ a \in Applications /\ offer[a] \in {"DRAFT", "SENT", "RESCINDED"}
        /\ offer' = [offer EXCEPT ![a] = "RESCINDED"] /\ UNCHANGED <<req, stage>>
    BY <1>1, <1>2, <1>12 DEF Rescind, OfferChecked, ReqSteps
  <2>2. offer[a] = "RESCINDED" => UNCHANGED offer
    BY <2>1 DEF IInv, TypeOK
  <2>3. Pipeline!Rescind(a) \/ UNCHANGED offer
    BY <2>1, <2>2 DEF Pipeline!Rescind, Pipeline!Answer
  <2> QED
    BY <2>1, <2>3 DEF Pipeline!Next
<1> QED
  BY <1>3, <1>4, <1>5, <1>6, <1>7, <1>8, <1>9, <1>10, <1>11, <1>12 DEF Proceed

LEMMA StepImplements ==
  ASSUME IInv, SerialInv, HiresAgree, [Next]_vars
  PROVE  [overlap \/ Pipeline!Next]_(Pipeline!vars)
<1> SUFFICES ASSUME ~overlap PROVE Pipeline!Next \/ UNCHANGED Pipeline!vars
  OBVIOUS
<1>1. CASE ExpiryWrite
  <2>1. /\ worker \in Expires /\ offer[worker] = "SENT"
        /\ offer' = [offer EXCEPT ![worker] = "EXPIRED"] /\ UNCHANGED <<req, stage>>
    BY <1>1 DEF ExpiryWrite, SerialInv, OneAtATime
  <2>2. worker \in Applications /\ Pipeline!Expire(worker)
    BY <2>1, HiringAssumption DEF Pipeline!Expire, Pipeline!Answer
  <2> QED
    BY <2>2 DEF Pipeline!Next
<1>2. CASE UNCHANGED <<req, stage, offer>>
  BY <1>2 DEF Pipeline!vars
<1> QED
  BY <1>1, <1>2, ChecksStutter, ProceedImplements

\* Until calls overlap, Hiring implements HiringPipeline: what a call checked still
\* holds when it writes by id, an expiry job expires what it found unanswered, and the
\* counter closes the requisition exactly when the hired fill it.
THEOREM SerialImplementsPipeline == Spec => ImplementsPipeline
<1>1. Init => Pipeline!Init
  BY DEF Init, Pipeline!Init
<1>2. (IInv /\ SerialInv /\ HiresAgree) /\ [Next]_vars => [overlap \/ Pipeline!Next]_(Pipeline!vars)
  BY StepImplements
<1> QED
  BY <1>1, <1>2, SerialBooks, PTL DEF Spec, ImplementsPipeline
===============================================================================
