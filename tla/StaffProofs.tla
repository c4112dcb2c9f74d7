----------------------------- MODULE StaffProofs ------------------------------
(* Proofs about the parts of People whose calls check and later write: an     *)
(* inductive invariant for reviews, attendance, salaries, employment, on- and *)
(* offboarding, interviews, courses, surveys and skills.                      *)
EXTENDS People, FiniteSetTheorems, SequenceTheorems, TLAPS

-------------------------------------------------------------------------------
(* Sets and sequences                                                         *)

\* A set whose members are all the same has one member at most.
LEMMA AtMostOne ==
  ASSUME NEW S, \A x, y \in S : x = y
  PROVE  IsFiniteSet(S) /\ Cardinality(S) \in {0, 1}
<1>1. S = {} \/ \E x : S = {x}
  OBVIOUS
<1> QED
  BY <1>1, FS_EmptySet, FS_Singleton, ZenonT(60)

\* A function over the domain of a sequence is a sequence as long.
LEMMA SeqMap ==
  ASSUME NEW R, NEW s \in Seq(R), NEW f, f \in [DOMAIN s -> R]
  PROVE  f \in Seq(R) /\ Len(f) = Len(s) /\ DOMAIN f = 1..Len(s)
<1>1. DOMAIN s = 1..Len(s) /\ Len(s) \in Nat
  BY LenProperties
<1>2. f \in [1..Len(s) -> R]
  BY <1>1
<1>3. f \in Seq(R)
  BY <1>1, <1>2, SeqDef, Zenon
<1>4. DOMAIN f = 1..Len(f) /\ Len(f) \in Nat
  BY <1>3, LenProperties
<1> QED
  BY <1>1, <1>2, <1>3, <1>4

\* What a sequence is after one more entry.
LEMMA SeqAppend ==
  ASSUME NEW R, NEW s \in Seq(R), NEW x \in R
  PROVE  /\ Append(s, x) \in Seq(R) /\ Len(Append(s, x)) = Len(s) + 1 /\ Len(s) \in Nat
         /\ DOMAIN s = 1..Len(s) /\ DOMAIN Append(s, x) = 1..(Len(s) + 1)
         /\ Append(s, x)[Len(s) + 1] = x
         /\ \A i \in DOMAIN s : Append(s, x)[i] = s[i]
  OBVIOUS
-------------------------------------------------------------------------------
(* Performance reviews and improvement plans                                  *)

\* What a call goes on holds as long as it needs to: a submission has responses of its
\* side, and nothing submitted or rated is taken back.
ReviewFollows ==
  /\ review.acknowledged => review.rated
  /\ review.rated => \A r \in Review!Roles : review.status[r] = "SUBMITTED"
  /\ \A r \in Review!Roles : review.status[r] = "SUBMITTED" =>
       \E k \in Review!Keys : k[1] = r /\ response[k] = "submitted"
  /\ \A c \in Calls :
       /\ call[c].do = "submit" =>
            /\ call[c].on \in Review!Roles /\ call[c].seen # {}
            /\ \A k \in call[c].seen : k[1] = call[c].on
       /\ call[c].do = "override" => \A r \in Review!Roles : review.status[r] = "SUBMITTED"
       /\ call[c].do = "acknowledge" => review.rated
       /\ call[c].do = "closePip" => call[c].on \in Pips

\* A submission has read every response of its side; one plan is active at a time.
ReviewAlone ==
  /\ \A c, d \in Calls : call[c] # Review!NoCall /\ call[d] # Review!NoCall => c = d
  /\ \A c \in Calls :
       /\ call[c].do = "submit" =>
            \A k \in Review!Keys : k[1] = call[c].on /\ response[k] # "none" => k \in call[c].seen
       /\ call[c].do = "initiate" => \A n \in Pips : pip[n] # "ACTIVE"
  /\ \A m, n \in Pips : pip[m] = "ACTIVE" /\ pip[n] = "ACTIVE" => m = n
  /\ \A k \in Review!Keys : review.status[k[1]] = "SUBMITTED" =>
       response[k] \in {"none", "submitted"} \/ k \in late

\* Reviews: the inductive invariant.
ReviewInv == Review!TypeOK /\ ReviewFollows /\ (~overlap => ReviewAlone)

ReviewCall == [do : {"idle", "activate", "close", "save", "submit", "override",
                     "acknowledge", "initiate", "closePip"},
               on : {Review!Nothing} \cup Review!Roles \cup Pips, seen : SUBSET Review!Keys]

LEMMA ReviewIdle ==
  /\ Review!NoCall.do = "idle" /\ Review!NoCall \in ReviewCall
  /\ \A k \in Review!Keys : k[1] \in Review!Roles
<1>1. Review!NoCall.do = "idle" /\ Review!NoCall \in ReviewCall
  BY DEF Review!NoCall, ReviewCall
<1>2. \A k \in Review!Keys : k[1] \in Review!Roles
  BY DEF Review!Keys
<1> QED
  BY <1>1, <1>2

\* Reviews: the invariant holds at the start.
LEMMA ReviewInit == Review!Init => ReviewInv
<1> SUFFICES ASSUME Review!Init PROVE ReviewInv
  OBVIOUS
<1> USE ReviewIdle DEF Review!Init
<1>1. review.status = [r \in Review!Roles |-> "PENDING"] /\ ~review.rated /\ ~review.acknowledged
  BY DEF Review!NoReview
<1>2. Review!TypeOK
  BY DEF Review!TypeOK, ReviewCall, Review!NoReview
<1>3. ReviewFollows /\ ReviewAlone
  BY <1>1 DEF ReviewFollows, ReviewAlone
<1> QED
  BY <1>2, <1>3 DEF ReviewInv

LEMMA ReviewStarts ==
  ASSUME ReviewInv, NEW c \in Calls, NEW next \in ReviewCall,
         call[c] = Review!NoCall, call' = [call EXCEPT ![c] = next],
         UNCHANGED <<cycle, review, response, pip, late>>,
         overlap' = (overlap \/ \E b \in Calls : call[b] # Review!NoCall),
         next.do = "submit" =>
           /\ next.on \in Review!Roles /\ next.seen # {}
           /\ \A k \in Review!Keys :
                k \in next.seen <=> k[1] = next.on /\ response[k] # "none",
         next.do = "override" => \A r \in Review!Roles : review.status[r] = "SUBMITTED",
         next.do = "acknowledge" => review.rated,
         next.do = "initiate" => \A n \in Pips : pip[n] # "ACTIVE",
         next.do = "closePip" => next.on \in Pips
  PROVE  ReviewInv'
<1> USE ReviewIdle DEF ReviewInv, Review!TypeOK, ReviewCall
<1>1. overlap' \in BOOLEAN
  BY Zenon
<1>2. ~overlap' => ~overlap /\ \A d \in Calls : call[d] = Review!NoCall
  OBVIOUS
<1>3. Review!TypeOK'
  BY <1>1
<1>4. ReviewFollows'
  BY DEF ReviewFollows
<1>5. ~overlap' => ReviewAlone'
  BY <1>2 DEF ReviewAlone
<1> QED
  BY <1>3, <1>4, <1>5

\* A call ends, and the review stays.
LEMMA ReviewEnds ==
  ASSUME ReviewInv, NEW c \in Calls, call' = [call EXCEPT ![c] = Review!NoCall],
         UNCHANGED <<review, response, late>>, cycle' \in {"DRAFT", "ACTIVE", "CLOSED"},
         pip' \in [Pips -> {"none", "ACTIVE", "CLOSED"}],
         \/ \A n \in Pips : pip'[n] = "ACTIVE" => pip[n] = "ACTIVE"
         \/ /\ call[c].do = "initiate"
            /\ \E n \in Pips : \A m \in Pips : m # n => pip'[m] = pip[m],
         UNCHANGED overlap
  PROVE  ReviewInv'
<1> USE ReviewIdle DEF ReviewInv, Review!TypeOK, ReviewCall
<1>1. Review!TypeOK'
  OBVIOUS
<1>2. ReviewFollows'
  BY DEF ReviewFollows
<1>3. ~overlap' => ReviewAlone'
  <2> SUFFICES ASSUME ~overlap PROVE ReviewAlone'
    OBVIOUS
  <2>1. ReviewAlone
    OBVIOUS
  <2>2. CASE \A n \in Pips : pip'[n] = "ACTIVE" => pip[n] = "ACTIVE"
    <3>1. \A d \in Calls : call'[d] = Review!NoCall \/ call'[d] = call[d]
      OBVIOUS
    <3> QED
      BY <2>1, <2>2, <3>1 DEF ReviewAlone
  <2>3. CASE call[c].do = "initiate" /\ \E n \in Pips : \A m \in Pips : m # n => pip'[m] = pip[m]
    <3>1. \A d \in Calls : call'[d] = Review!NoCall
      BY <2>1, <2>3 DEF ReviewAlone
    <3>2. \A n \in Pips : pip[n] # "ACTIVE"
      BY <2>1, <2>3 DEF ReviewAlone
    <3>3. \A m, n \in Pips : pip'[m] = "ACTIVE" /\ pip'[n] = "ACTIVE" => m = n
      BY <2>3, <3>2
    <3> QED
      BY <2>1, <3>1, <3>3 DEF ReviewAlone
  <2> QED
    BY <2>2, <2>3
<1> QED
  BY <1>1, <1>2, <1>3

\* Reviews: every step, and a stutter, keeps the invariant.
LEMMA ReviewNext == ReviewInv /\ [Review!Next]_(Review!vars) => ReviewInv'
<1> SUFFICES ASSUME ReviewInv, [Review!Next]_(Review!vars) PROVE ReviewInv'
  OBVIOUS
<1> USE ReviewIdle
<1>1. CASE UNCHANGED Review!vars
  BY <1>1 DEF Review!vars, ReviewInv, Review!TypeOK, ReviewFollows, ReviewAlone
<1>2. ASSUME NEW c \in Calls,
             \/ Review!ActivateCheck(c) \/ Review!CloseCheck(c) \/ Review!OverrideCheck(c)
             \/ Review!AcknowledgeCheck(c) \/ Review!InitiateCheck(c)
             \/ \E k \in Review!Keys : Review!SaveCheck(c, k)
      PROVE  ReviewInv'
  <2>1. PICK do \in {"activate", "close", "override", "acknowledge", "initiate", "save"},
             seen \in SUBSET Review!Keys :
          /\ call' = [call EXCEPT ![c] = [do |-> do, on |-> Review!Nothing, seen |-> seen]]
          /\ call[c] = Review!NoCall /\ UNCHANGED <<cycle, review, response, pip, late>>
          /\ overlap' = (overlap \/ \E b \in Calls : call[b] # Review!NoCall)
          /\ do = "override" => \A r \in Review!Roles : review.status[r] = "SUBMITTED"
          /\ do = "acknowledge" => review.rated
          /\ do = "initiate" => Review!ActivePips = {}
    BY <1>2 DEF Review!ActivateCheck, Review!CloseCheck, Review!OverrideCheck, Review!SaveCheck,
                Review!AcknowledgeCheck, Review!InitiateCheck, Review!Check
  <2>2. Review!ActivePips = {} => \A n \in Pips : pip[n] # "ACTIVE"
    BY DEF Review!ActivePips
  <2> DEFINE new == [do |-> do, on |-> Review!Nothing, seen |-> seen]
  <2>3. new \in ReviewCall /\ new.do = do
    BY DEF ReviewCall
  <2> HIDE DEF new
  <2> QED
    BY <2>1, <2>2, <2>3, ReviewStarts DEF new
<1>3. ASSUME NEW c \in Calls, NEW r \in Review!Roles, Review!SubmitCheck(c, r) PROVE ReviewInv'
  <2> DEFINE new == [do |-> "submit", on |-> r, seen |-> Review!Saved(r)]
  <2>1. /\ Review!Saved(r) \in SUBSET Review!Keys
        /\ \A k \in Review!Keys : k \in Review!Saved(r) <=> k[1] = r /\ response[k] # "none"
    BY DEF Review!Saved
  <2>2. /\ call' = [call EXCEPT ![c] = new] /\ Review!Saved(r) # {}
        /\ call[c] = Review!NoCall /\ UNCHANGED <<cycle, review, response, pip, late>>
        /\ overlap' = (overlap \/ \E b \in Calls : call[b] # Review!NoCall)
    BY <1>3 DEF Review!SubmitCheck, Review!Check
  <2>3. new \in ReviewCall /\ new.do = "submit" /\ new.on = r /\ new.seen = Review!Saved(r)
    BY <2>1 DEF ReviewCall
  <2> HIDE DEF new
  <2> QED
    BY <2>1, <2>2, <2>3, ReviewStarts
<1>4. ASSUME NEW c \in Calls, NEW n \in Pips, Review!ClosePipCheck(c, n) PROVE ReviewInv'
  <2> DEFINE new == [do |-> "closePip", on |-> n, seen |-> {}]
  <2>1. /\ call' = [call EXCEPT ![c] = new]
        /\ call[c] = Review!NoCall /\ UNCHANGED <<cycle, review, response, pip, late>>
        /\ overlap' = (overlap \/ \E b \in Calls : call[b] # Review!NoCall)
    BY <1>4 DEF Review!ClosePipCheck, Review!Check
  <2>2. new \in ReviewCall /\ new.do = "closePip" /\ new.on = n
    BY DEF ReviewCall
  <2> HIDE DEF new
  <2> QED
    BY <2>1, <2>2, ReviewStarts
<1>5. ASSUME NEW c \in Calls,
             Review!CloseWrite(c) \/ Review!InitiateWrite(c) \/ Review!ClosePipWrite(c) \/ Review!Abort(c)
      PROVE  ReviewInv'
  <2>1. /\ call' = [call EXCEPT ![c] = Review!NoCall]
        /\ UNCHANGED <<review, response, late, overlap>>
        /\ cycle' = cycle \/ cycle' = "CLOSED"
        /\ \/ UNCHANGED pip
           \/ call[c].do = "initiate" /\ \E n \in Review!Free : pip' = [pip EXCEPT ![n] = "ACTIVE"]
           \/ pip' = [pip EXCEPT ![call[c].on] = "CLOSED"]
    BY <1>5 DEF Review!CloseWrite, Review!InitiateWrite, Review!ClosePipWrite, Review!Abort,
                Review!Finish
  <2>2. cycle \in {"DRAFT", "ACTIVE", "CLOSED"} /\ pip \in [Pips -> {"none", "ACTIVE", "CLOSED"}]
    BY DEF ReviewInv, Review!TypeOK
  <2>3. Review!Free \subseteq Pips
    BY DEF Review!Free
  <2> QED
    BY <2>1, <2>2, <2>3, ReviewEnds
<1>6. ASSUME NEW c \in Calls, Review!ActivateWrite(c) PROVE ReviewInv'
  <2> USE DEF ReviewInv, Review!TypeOK, ReviewCall
  <2>1. /\ call' = [call EXCEPT ![c] = Review!NoCall] /\ UNCHANGED <<response, pip, late, overlap>>
        /\ cycle' = cycle \/ cycle' = "ACTIVE"
        /\ review' = review \/ review' = [review EXCEPT !.created = TRUE]
    BY <1>6 DEF Review!ActivateWrite, Review!Finish
  <2>2. /\ review'.status = review.status /\ review'.rated = review.rated
        /\ review'.acknowledged = review.acknowledged
    BY <2>1
  <2>3. Review!TypeOK'
    BY <2>1
  <2>4. ReviewFollows'
    BY <2>1, <2>2 DEF ReviewFollows
  <2>5. ~overlap' => ReviewAlone'
    BY <2>1, <2>2 DEF ReviewAlone
  <2> QED
    BY <2>3, <2>4, <2>5
<1>7. ASSUME NEW c \in Calls, Review!OverrideWrite(c) \/ Review!AcknowledgeWrite(c) PROVE ReviewInv'
  <2> USE DEF ReviewInv, Review!TypeOK, ReviewCall
  <2>1. /\ call' = [call EXCEPT ![c] = Review!NoCall]
        /\ UNCHANGED <<cycle, response, pip, late, overlap>>
        /\ \/ call[c].do = "override" /\ review' = [review EXCEPT !.rated = TRUE]
           \/ call[c].do = "acknowledge" /\ review' = [review EXCEPT !.acknowledged = TRUE]
    BY <1>7 DEF Review!OverrideWrite, Review!AcknowledgeWrite, Review!Finish
  <2>2. review'.status = review.status /\ review' \in [created : BOOLEAN,
                 status : [Review!Roles -> {"PENDING", "SUBMITTED"}],
                 rated : BOOLEAN, acknowledged : BOOLEAN]
    BY <2>1
  <2>3. review'.rated /\ \A r \in Review!Roles : review.status[r] = "SUBMITTED"
    BY <2>1 DEF ReviewFollows
  <2>4. Review!TypeOK'
    BY <2>1, <2>2
  <2>5. ReviewFollows'
    BY <2>1, <2>2, <2>3 DEF ReviewFollows
  <2>6. ~overlap' => ReviewAlone'
    BY <2>1, <2>2 DEF ReviewAlone
  <2> QED
    BY <2>4, <2>5, <2>6
<1>8. ASSUME NEW c \in Calls, Review!SaveWrite(c) PROVE ReviewInv'
  <2> USE DEF ReviewInv, Review!TypeOK, ReviewCall
  <2>1. PICK k \in Review!Keys :
          /\ call' = [call EXCEPT ![c] = Review!NoCall] /\ call[c].do = "save"
          /\ UNCHANGED <<cycle, review, pip, overlap>>
          /\ response' = [response EXCEPT ![k] = IF response[k] = "none" THEN "saved" ELSE response[k]]
          /\ late' = IF review.status[k[1]] = "SUBMITTED" THEN late \cup {k} ELSE late
    BY <1>8 DEF Review!SaveWrite, Review!Finish
  <2>2. /\ response' \in [Review!Keys -> {"none", "saved", "submitted"}]
        /\ \A j \in Review!Keys : j # k => response'[j] = response[j]
        /\ response[k] # "none" => response'[k] = response[k]
        /\ late' \subseteq Review!Keys /\ late \subseteq late'
        /\ review.status[k[1]] = "SUBMITTED" => k \in late'
    BY <2>1
  <2>3. Review!TypeOK'
    BY <2>1, <2>2
  <2>4. ReviewFollows'
    <3>1. \A j \in Review!Keys : response[j] = "submitted" => response'[j] = "submitted"
      BY <2>2
    <3> QED
      BY <2>1, <3>1 DEF ReviewFollows
  <2>5. ~overlap' => ReviewAlone'
    <3> SUFFICES ASSUME ~overlap PROVE ReviewAlone'
      BY <2>1
    <3>1. \A d \in Calls : call'[d] = Review!NoCall
      BY <2>1 DEF ReviewAlone
    <3> QED
      BY <2>1, <2>2, <3>1 DEF ReviewAlone
  <2> QED
    BY <2>3, <2>4, <2>5
<1>9. ASSUME NEW c \in Calls, Review!SubmitWrite(c) PROVE ReviewInv'
  <2> USE DEF ReviewInv, Review!TypeOK, ReviewCall
  <2> PICK r \in Review!Roles, seen \in SUBSET Review!Keys :
         r = call[c].on /\ seen = call[c].seen
    BY <1>9 DEF Review!SubmitWrite, Review!Finish, ReviewFollows
  <2>1. /\ call' = [call EXCEPT ![c] = Review!NoCall] /\ call[c].do = "submit"
        /\ UNCHANGED <<cycle, pip, late, overlap>>
        /\ review' = [review EXCEPT !.status = [review.status EXCEPT ![r] = "SUBMITTED"]]
        /\ response' = [k \in Review!Keys |-> IF k \in seen THEN "submitted" ELSE response[k]]
    BY <1>9 DEF Review!SubmitWrite, Review!Finish
  <2>2. /\ review'.status = [review.status EXCEPT ![r] = "SUBMITTED"]
        /\ review'.rated = review.rated /\ review'.acknowledged = review.acknowledged
    BY <2>1
  <2>3. /\ response' \in [Review!Keys -> {"none", "saved", "submitted"}]
        /\ \A k \in Review!Keys :
             response'[k] = IF k \in seen THEN "submitted" ELSE response[k]
    BY <2>1
  <2>4. seen # {} /\ \A k \in seen : k[1] = r
    BY <2>1 DEF ReviewFollows
  <2>5. Review!TypeOK'
    BY <2>1, <2>3
  <2>6. ReviewFollows'
    <3>1. \A k \in Review!Keys : response[k] = "submitted" => response'[k] = "submitted"
      BY <2>3
    <3>2. \E k \in Review!Keys : k[1] = r /\ response'[k] = "submitted"
      BY <2>3, <2>4
    <3>3. \A q \in Review!Roles :
            review'.status[q] = "SUBMITTED" <=> q = r \/ review.status[q] = "SUBMITTED"
      BY <2>2
    <3> QED
      BY <2>1, <2>2, <3>1, <3>2, <3>3 DEF ReviewFollows
  <2>7. ~overlap' => ReviewAlone'
    <3> SUFFICES ASSUME ~overlap PROVE ReviewAlone'
      BY <2>1
    <3>1. \A d \in Calls : call'[d] = Review!NoCall
      BY <2>1 DEF ReviewAlone
    <3>2. \A k \in Review!Keys : k[1] = r /\ response[k] # "none" => k \in seen
      BY <2>1 DEF ReviewAlone
    <3>3. ASSUME NEW k \in Review!Keys, review'.status[k[1]] = "SUBMITTED"
          PROVE  response'[k] \in {"none", "submitted"} \/ k \in late
      <4>1. CASE k[1] = r
        BY <2>3, <3>2, <4>1
      <4>2. CASE k[1] # r
        BY <2>2, <2>3, <3>3, <4>2 DEF ReviewAlone
      <4> QED
        BY <4>1, <4>2
    <3> QED
      BY <2>1, <3>1, <3>3 DEF ReviewAlone
  <2> QED
    BY <2>5, <2>6, <2>7
<1> QED
  BY <1>1, <1>2, <1>3, <1>4, <1>5, <1>6, <1>7, <1>8, <1>9 DEF Review!Next

\* The invariant implies what the run checks of this part.
LEMMA ReviewDone == ReviewInv => Review!DoneMeansAllDone
<1> SUFFICES ASSUME ReviewInv PROVE Review!DoneMeansAllDone
  OBVIOUS
<1> USE ReviewIdle
<1>1. review.acknowledged => review.rated
  BY DEF ReviewInv, ReviewFollows
<1>2. review.rated => \A r \in Review!Roles : \E k \in Review!Saved(r) : response[k] = "submitted"
  BY DEF ReviewInv, ReviewFollows, Review!Saved
<1>3. ASSUME ~overlap PROVE \A r \in Review!Roles : review.status[r] = "SUBMITTED" =>
                              \A k \in Review!Saved(r) : response[k] = "submitted" \/ k \in late
  BY <1>3 DEF ReviewInv, ReviewAlone, Review!Saved
<1>4. ASSUME ~overlap PROVE Review!Cardinality(Review!ActivePips) <= 1
  <2>1. \A m, n \in Review!ActivePips : m = n
    BY <1>4 DEF ReviewInv, ReviewAlone, Review!ActivePips
  <2>2. Review!ActivePips = {} \/ \E n \in Pips : Review!ActivePips = {n}
    BY <2>1 DEF Review!ActivePips
  <2>3. Cardinality(Review!ActivePips) \in {0, 1}
    BY <2>2, FS_EmptySet, FS_Singleton
  <2>4. Review!Cardinality(Review!ActivePips) = Cardinality(Review!ActivePips)
    BY DEF Review!Cardinality, Cardinality
  <2> QED
    BY <2>3, <2>4
<1> QED
  BY <1>1, <1>2, <1>3, <1>4 DEF Review!DoneMeansAllDone
-------------------------------------------------------------------------------
(* Attendance                                                                 *)

\* A record without a clock-in is none, and only one with a clock-in is written again.
HoursFollows ==
  /\ \A d \in Hours!Days : log[d].in = Hours!Null => log[d] = Hours!NoRow
  /\ \A c \in HourCalls : call[c].do # "idle" =>
       /\ call[c].day \in Hours!Days
       /\ call[c].do # "in" => log[call[c].day].in # Hours!Null
       /\ call[c].do = "out" => call[c].in # Hours!Null

\* A record that a call has read stays as it was, and agrees with its two ends.
HoursAlone ==
  /\ \A c, d \in HourCalls : call[c] # Hours!NoCall /\ call[d] # Hours!NoCall => c = d
  /\ \A c \in HourCalls :
       /\ call[c].do = "in" => log[call[c].day].in = Hours!Null
       /\ call[c].do = "out" => /\ log[call[c].day].in = call[c].in
                                /\ log[call[c].day].out = Hours!Null
                                /\ log[call[c].day].status = call[c].status
  /\ \A d \in Hours!Days :
       /\ log[d].out # Hours!Null /\ d \notin partial => log[d].worked = log[d].out - log[d].in
       /\ ~log[d].manual =>
            /\ d \notin partial
            /\ log[d].in # Hours!Null /\ log[d].out = Hours!Null =>
                 log[d].status = Hours!Arrival(log[d].in)
            /\ log[d].out # Hours!Null =>
                 log[d].status = Hours!Departure(log[d].worked, Hours!Arrival(log[d].in))

\* Attendance: the inductive invariant.
HoursInv == Hours!TypeOK /\ HoursFollows /\ (~disturbed => HoursAlone)

HoursEnd  == {Hours!Null} \cup Hours!Moments
HoursRow  == [in : HoursEnd, out : HoursEnd, worked : Int, status : Hours!Statuses,
              manual : BOOLEAN]
HoursCall == [do : {"idle", "in", "out", "correct", "state"}, day : {0} \cup Hours!Days,
              in : HoursEnd, out : HoursEnd, status : Hours!Statuses]

LEMMA HoursIdle ==
  /\ Hours!NoCall.do = "idle" /\ Hours!NoCall \in HoursCall
  /\ Hours!NoRow \in HoursRow /\ Hours!NoRow.in = Hours!Null /\ Hours!NoRow.out = Hours!Null
  /\ ~Hours!NoRow.manual
<1>1. Hours!NoCall.do = "idle" /\ Hours!NoCall \in HoursCall
  BY DEF Hours!NoCall, HoursCall, HoursEnd, Hours!Statuses, Hours!Null
<1>2. Hours!NoRow \in HoursRow /\ Hours!NoRow.in = Hours!Null /\ Hours!NoRow.out = Hours!Null
      /\ ~Hours!NoRow.manual
  BY DEF Hours!NoRow, HoursRow, HoursEnd, Hours!Statuses, Hours!Null
<1> QED
  BY <1>1, <1>2

\* Moments are numbers, and none of them is null.
LEMMA HoursMoments ==
  /\ \A m \in HoursEnd : m \in Int
  /\ \A m \in Hours!Moments : m # Hours!Null /\ m \in HoursEnd
  /\ 1 \in Hours!Moments /\ 1 \in Hours!Days
  /\ \A m \in Hours!Moments : m < EndOfDay => m + 1 \in Hours!Moments
  /\ \A d \in Hours!Days : d < LastDay => d + 1 \in Hours!Days
  /\ \A m : Hours!Arrival(m) \in {"PRESENT", "LATE"}
  /\ ShiftStart \in Int /\ HalfDay \in Int /\ Correctable \subseteq Hours!Statuses
<1>1. LastDay \in Nat \ {0} /\ EndOfDay \in Nat \ {0} /\ ShiftStart \in Int /\ HalfDay \in Int
      /\ Correctable \subseteq Hours!Statuses
  BY PeopleAssumption, Zenon DEF PeopleAssumption, Hours!Statuses
<1>2. /\ \A m \in HoursEnd : m \in Int
      /\ \A m \in Hours!Moments : m # Hours!Null /\ m \in HoursEnd
      /\ 1 \in Hours!Moments /\ 1 \in Hours!Days
      /\ \A m \in Hours!Moments : m < EndOfDay => m + 1 \in Hours!Moments
      /\ \A d \in Hours!Days : d < LastDay => d + 1 \in Hours!Days
  BY <1>1 DEF HoursEnd, Hours!Moments, Hours!Null, Hours!Days
<1>3. \A m : Hours!Arrival(m) \in {"PRESENT", "LATE"}
  BY DEF Hours!Arrival
<1> QED
  BY <1>1, <1>2, <1>3

\* Attendance: the invariant holds at the start.
LEMMA HoursInit == Hours!Init => HoursInv
<1> SUFFICES ASSUME Hours!Init PROVE HoursInv
  OBVIOUS
<1> USE HoursIdle, HoursMoments DEF Hours!Init
<1>1. Hours!TypeOK
  BY DEF Hours!TypeOK, HoursCall, HoursRow, HoursEnd
<1>2. HoursFollows /\ HoursAlone
  BY DEF HoursFollows, HoursAlone
<1> QED
  BY <1>1, <1>2 DEF HoursInv

\* A call starts, having read the record that it names.
LEMMA HoursStarts ==
  ASSUME HoursInv, NEW c \in HourCalls, NEW next \in HoursCall, Hours!Start(c, next),
         next.day \in Hours!Days,
         IF next.do = "in" THEN log[next.day].in = Hours!Null ELSE log[next.day].in # Hours!Null,
         next.do = "out" => /\ log[next.day].in = next.in /\ log[next.day].out = Hours!Null
                            /\ log[next.day].status = next.status
  PROVE  HoursInv'
<1> USE HoursIdle DEF HoursInv, Hours!TypeOK, HoursCall, HoursEnd
<1>1. /\ call[c] = Hours!NoCall /\ call' = [call EXCEPT ![c] = next]
      /\ disturbed' = (disturbed \/ Hours!Busy) /\ UNCHANGED <<today, clock, log, partial>>
  BY DEF Hours!Start
<1>2. disturbed' \in BOOLEAN
  BY <1>1, Zenon
<1>3. ~disturbed' => ~disturbed /\ \A d \in HourCalls : call[d] = Hours!NoCall
  BY <1>1 DEF Hours!Busy
<1>4. Hours!TypeOK'
  BY <1>1, <1>2
<1>5. HoursFollows'
  BY <1>1 DEF HoursFollows
<1>6. ~disturbed' => HoursAlone'
  BY <1>1, <1>3 DEF HoursAlone
<1> QED
  BY <1>4, <1>5, <1>6

\* A call writes its record, and ends.
LEMMA HoursWrites ==
  ASSUME HoursInv, NEW c \in HourCalls, call[c].do # "idle", NEW d \in Hours!Days, d = call[c].day,
         NEW new \in HoursRow, new.in # Hours!Null,
         call' = [call EXCEPT ![c] = Hours!NoCall], log' = [log EXCEPT ![d] = new],
         partial' \subseteq Hours!Days, \A e \in Hours!Days : e # d => (e \in partial' <=> e \in partial),
         UNCHANGED <<today, clock, disturbed>>,
         ~disturbed =>
           /\ new.out # Hours!Null /\ d \notin partial' => new.worked = new.out - new.in
           /\ ~new.manual =>
                /\ d \notin partial'
                /\ IF new.out = Hours!Null THEN new.status = Hours!Arrival(new.in)
                   ELSE new.status = Hours!Departure(new.worked, Hours!Arrival(new.in))
  PROVE  HoursInv'
<1> USE HoursIdle DEF HoursInv, Hours!TypeOK, HoursCall, HoursEnd, HoursRow
<1>1. Hours!TypeOK'
  OBVIOUS
<1>2. log'[d] = new /\ \A e \in Hours!Days : e # d => log'[e] = log[e]
  OBVIOUS
<1>3. HoursFollows'
  BY <1>2 DEF HoursFollows
<1>4. ~disturbed' => HoursAlone'
  <2> SUFFICES ASSUME ~disturbed PROVE HoursAlone'
    OBVIOUS
  <2>1. \A b \in HourCalls : call'[b] = Hours!NoCall
    BY DEF HoursAlone
  <2> QED
    BY <1>2, <2>1 DEF HoursAlone
<1> QED
  BY <1>1, <1>3, <1>4

\* Attendance: every step, and a stutter, keeps the invariant.
LEMMA HoursNext == HoursInv /\ [Hours!Next]_(Hours!vars) => HoursInv'
<1> SUFFICES ASSUME HoursInv, [Hours!Next]_(Hours!vars) PROVE HoursInv'
  OBVIOUS
<1> USE HoursIdle, HoursMoments
<1>1. CASE UNCHANGED Hours!vars
  BY <1>1 DEF Hours!vars, HoursInv, Hours!TypeOK, HoursFollows, HoursAlone
<1>2. CASE Hours!Tick
  <2>1. disturbed' \in BOOLEAN /\ (~disturbed' => ~disturbed) /\ UNCHANGED <<log, call, partial>>
    <3>1. disturbed \in BOOLEAN /\ disturbed' = (disturbed \/ (Hours!Busy /\ clock' = 1))
          /\ UNCHANGED <<log, call, partial>>
      BY <1>2 DEF Hours!Tick, HoursInv, Hours!TypeOK
    <3> QED
      BY <3>1, Zenon
  <2>2. today' \in Hours!Days /\ clock' \in Hours!Moments
    BY <1>2 DEF Hours!Tick, HoursInv, Hours!TypeOK
  <2> QED
    BY <2>1, <2>2 DEF HoursInv, Hours!TypeOK, HoursFollows, HoursAlone
<1>3. ASSUME NEW c \in HourCalls, Hours!ClockInCheck(c) PROVE HoursInv'
  <2> DEFINE next == [Hours!NoCall EXCEPT !.do = "in", !.day = today]
  <2>1. today \in Hours!Days
    BY DEF HoursInv, Hours!TypeOK
  <2>2. next \in HoursCall /\ next.do = "in" /\ next.day = today
    BY <2>1 DEF HoursCall
  <2>3. Hours!Start(c, next) /\ log[today].in = Hours!Null
    BY <1>3 DEF Hours!ClockInCheck
  <2> HIDE DEF next
  <2> QED
    BY <2>1, <2>2, <2>3, HoursStarts
<1>4. ASSUME NEW c \in HourCalls, Hours!ClockOutCheck(c) PROVE HoursInv'
  <2> DEFINE next == [do |-> "out", day |-> today, in |-> log[today].in, out |-> Hours!Null,
                      status |-> log[today].status]
  <2>1. today \in Hours!Days /\ log[today].in \in HoursEnd /\ log[today].status \in Hours!Statuses
    BY DEF HoursInv, Hours!TypeOK, HoursEnd
  <2>2. /\ next \in HoursCall /\ next.do = "out" /\ next.day = today
        /\ next.in = log[today].in /\ next.status = log[today].status
    BY <2>1 DEF HoursCall, HoursEnd
  <2>3. Hours!Start(c, next) /\ log[today].in # Hours!Null /\ log[today].out = Hours!Null
    BY <1>4 DEF Hours!ClockOutCheck
  <2> HIDE DEF next
  <2> QED
    BY <2>1, <2>2, <2>3, HoursStarts
<1>5. ASSUME NEW c \in HourCalls, NEW d \in Hours!Days, NEW in \in HoursEnd, NEW out \in HoursEnd,
             NEW given \in Correctable \cup {"none"}, Hours!CorrectCheck(c, d, in, out, given)
      PROVE  HoursInv'
  <2> PICK do \in {"correct", "state"}, st \in Hours!Statuses :
         /\ do = IF given = "none" THEN "correct" ELSE "state"
         /\ st = IF given = "none" THEN log[d].status ELSE given
    <3>1. log[d].status \in Hours!Statuses
      BY DEF HoursInv, Hours!TypeOK
    <3> QED
      BY <3>1
  <2> DEFINE next == [do |-> do, day |-> d, in |-> in, out |-> out, status |-> st]
  <2>1. next \in HoursCall /\ next.do = do /\ next.day = d
    BY DEF HoursCall
  <2>2. Hours!Start(c, next) /\ log[d].in # Hours!Null
    BY <1>5 DEF Hours!CorrectCheck
  <2> HIDE DEF next
  <2> QED
    BY <2>1, <2>2, HoursStarts
<1>6. ASSUME NEW c \in HourCalls, Hours!ClockInWrite(c) PROVE HoursInv'
  <2> PICK d \in Hours!Days : d = call[c].day
    BY <1>6 DEF Hours!ClockInWrite, HoursInv, HoursFollows
  <2> DEFINE new == [log[d] EXCEPT !.in = clock, !.status = Hours!Arrival(clock)]
  <2>1. log[d] \in HoursRow /\ log \in [Hours!Days -> HoursRow] /\ clock \in Hours!Moments
        /\ partial \subseteq Hours!Days
    BY DEF HoursInv, Hours!TypeOK, HoursRow, HoursEnd
  <2>2. /\ new \in HoursRow /\ new.in = clock /\ new.status = Hours!Arrival(clock)
        /\ new.out = log[d].out /\ new.manual = log[d].manual /\ new.worked = log[d].worked
    BY <2>1 DEF HoursRow, Hours!Statuses
  <2>3. /\ call[c].do = "in" /\ call' = [call EXCEPT ![c] = Hours!NoCall]
        /\ log' = [log EXCEPT ![d] = new] /\ UNCHANGED <<today, clock, partial, disturbed>>
    BY <1>6, <2>1 DEF Hours!ClockInWrite, Hours!Finish
  <2>4. ~disturbed => log[d].out = Hours!Null /\ log[d] = Hours!NoRow /\ d \notin partial
    BY <2>3 DEF HoursInv, HoursFollows, HoursAlone
  <2> HIDE DEF new
  <2> QED
    BY <2>1, <2>2, <2>3, <2>4, HoursWrites
<1>7. ASSUME NEW c \in HourCalls, Hours!ClockOutWrite(c) PROVE HoursInv'
  <2> PICK d \in Hours!Days : d = call[c].day
    BY <1>7 DEF Hours!ClockOutWrite, HoursInv, HoursFollows
  <2> PICK w \in Int : w = clock - call[c].in
    BY SMTT(60) DEF HoursInv, Hours!TypeOK, HoursEnd
  <2> DEFINE st  == Hours!Departure(w, call[c].status)
             new == [log[d] EXCEPT !.out = clock, !.worked = w, !.status = st]
  <2>1. log[d] \in HoursRow /\ log \in [Hours!Days -> HoursRow] /\ clock \in Hours!Moments
        /\ partial \subseteq Hours!Days /\ call[c].status \in Hours!Statuses
    BY DEF HoursInv, Hours!TypeOK, HoursRow, HoursEnd
  <2>2. st \in Hours!Statuses
    BY <2>1 DEF Hours!Departure, Hours!Statuses
  <2>3. /\ new \in HoursRow /\ new.out = clock /\ new.worked = w /\ new.status = st
        /\ new.in = log[d].in /\ new.manual = log[d].manual
    BY <2>1, <2>2 DEF HoursRow
  <2>4. /\ call[c].do = "out" /\ call' = [call EXCEPT ![c] = Hours!NoCall]
        /\ log' = [log EXCEPT ![d] = new] /\ UNCHANGED <<today, clock, partial, disturbed>>
    BY <1>7, <2>1 DEF Hours!ClockOutWrite, Hours!Finish
  <2>5. log[d].in # Hours!Null
    BY <2>4 DEF HoursInv, HoursFollows
  <2>6. ~disturbed => /\ log[d].in = call[c].in /\ log[d].status = call[c].status
                      /\ log[d].out = Hours!Null
                      /\ ~log[d].manual => d \notin partial /\ log[d].status = Hours!Arrival(log[d].in)
    BY <2>4, <2>5 DEF HoursInv, HoursAlone
  <2> HIDE DEF new
  <2>7. ~disturbed =>
           /\ new.worked = new.out - new.in
           /\ ~new.manual => /\ d \notin partial /\ new.out # Hours!Null
                            /\ new.status = Hours!Departure(new.worked, Hours!Arrival(new.in))
    BY <2>1, <2>3, <2>6
  <2>8. new.in # Hours!Null /\ call[c].do # "idle" /\ partial' = partial
    BY <2>3, <2>4, <2>5
  <2> QED
    BY <2>1, <2>3, <2>4, <2>7, <2>8, HoursWrites
<1>8. ASSUME NEW c \in HourCalls, Hours!CorrectWrite(c) PROVE HoursInv'
  <2> PICK d \in Hours!Days, in \in HoursEnd, out \in HoursEnd :
         d = call[c].day /\ in = call[c].in /\ out = call[c].out
    <3>1. call[c].do # "idle" /\ call[c].in \in HoursEnd /\ call[c].out \in HoursEnd
      BY <1>8 DEF Hours!CorrectWrite, HoursInv, Hours!TypeOK, HoursEnd
    <3> QED
      BY <3>1 DEF HoursInv, HoursFollows
  <2> PICK w \in Int : w = out - in
    OBVIOUS
  <2>1. log[d] \in HoursRow /\ log \in [Hours!Days -> HoursRow]
        /\ partial \subseteq Hours!Days /\ call[c].status \in Hours!Statuses
    BY DEF HoursInv, Hours!TypeOK, HoursRow, HoursEnd
  <2> DEFINE st == IF call[c].do = "state" THEN call[c].status
                   ELSE IF in = Hours!Null THEN log[d].status
                   ELSE IF out = Hours!Null THEN Hours!Arrival(in)
                   ELSE Hours!Departure(w, IF call[c].status = "LATE" THEN "LATE" ELSE "PRESENT")
             new == [in |-> IF in = Hours!Null THEN log[d].in ELSE in,
                     out |-> IF out = Hours!Null THEN log[d].out ELSE out,
                     worked |-> IF in # Hours!Null /\ out # Hours!Null THEN w ELSE log[d].worked,
                     status |-> st, manual |-> TRUE]
  <2>2. /\ call[c].do \in {"correct", "state"} /\ call' = [call EXCEPT ![c] = Hours!NoCall]
        /\ log' = [log EXCEPT ![d] = new] /\ UNCHANGED <<today, clock, disturbed>>
        /\ partial' = IF in # Hours!Null /\ out # Hours!Null THEN partial \ {d}
                      ELSE IF in # Hours!Null \/ out # Hours!Null THEN partial \cup {d} ELSE partial
    BY <1>8, <2>1 DEF Hours!CorrectWrite, Hours!Finish
  <2>3. st \in Hours!Statuses
    BY <2>1 DEF Hours!Departure, Hours!Arrival, Hours!Statuses, HoursRow
  <2> HIDE DEF st
  <2>4. /\ new.in = (IF in = Hours!Null THEN log[d].in ELSE in) /\ new.manual
        /\ new.out = (IF out = Hours!Null THEN log[d].out ELSE out)
        /\ new.worked = IF in # Hours!Null /\ out # Hours!Null THEN w ELSE log[d].worked
    OBVIOUS
  <2>5. new \in HoursRow
    BY <2>1, <2>3 DEF HoursRow
  <2> HIDE DEF new
  <2>6. log[d].in # Hours!Null
    BY <2>2 DEF HoursInv, HoursFollows
  <2>7. ~disturbed => (log[d].out # Hours!Null /\ d \notin partial =>
                         log[d].worked = log[d].out - log[d].in)
    BY DEF HoursInv, HoursAlone
  <2>8. /\ partial' \subseteq Hours!Days
        /\ \A e \in Hours!Days : e # d => (e \in partial' <=> e \in partial)
        /\ d \notin partial' => \/ in # Hours!Null /\ out # Hours!Null
                                \/ in = Hours!Null /\ out = Hours!Null /\ d \notin partial
    BY <2>1, <2>2
  <2>9. new.in # Hours!Null
        /\ (~disturbed /\ new.out # Hours!Null /\ d \notin partial' => new.worked = new.out - new.in)
    BY <2>4, <2>6, <2>7, <2>8
  <2> QED
    BY <2>2, <2>4, <2>5, <2>8, <2>9, HoursWrites
<1> QED
  BY <1>1, <1>2, <1>3, <1>4, <1>5, <1>6, <1>7, <1>8 DEF Hours!Next, HoursEnd

\* The invariant implies the property that the run checks.
LEMMA HoursAddUp == HoursInv => Hours!AttendanceAddsUp
<1> SUFFICES ASSUME HoursInv, ~disturbed PROVE Hours!AttendanceAddsUp
  BY DEF Hours!AttendanceAddsUp
<1> USE HoursIdle, HoursMoments
<1>1. today \in Hours!Days /\ Hours!Days = 1..LastDay /\ LastDay \in Nat
      /\ log \in [Hours!Days -> HoursRow]
  BY PeopleAssumption DEF HoursInv, Hours!TypeOK, Hours!Days, HoursRow, HoursEnd, PeopleAssumption
<1>2. ASSUME NEW d \in (1..(today - 1)) \ DaysOff,
             NEW is, is = {"absent" : x \in Hours!Absent(LastDay) \cap {d}}
                            \cup {"punch" : x \in Hours!MissingPunch(LastDay) \cap {d}}
      PROVE  IF log[d].out # Hours!Null THEN is = {} ELSE is \in {{"absent"}, {"punch"}}
  <2>1. d \in Hours!Days /\ d < today /\ d \in 1..LastDay
    BY <1>1
  <2>2. d \in Hours!Absent(LastDay) <=> log[d] = Hours!NoRow
    BY <2>1 DEF Hours!Absent
  <2>3. d \in Hours!MissingPunch(LastDay) <=> log[d].in # Hours!Null /\ log[d].out = Hours!Null
    BY <2>1 DEF Hours!MissingPunch
  <2>4. log[d].in = Hours!Null => log[d] = Hours!NoRow
    BY <2>1 DEF HoursInv, HoursFollows
  <2> QED
    BY <1>2, <2>2, <2>3, <2>4
<1>3. ASSUME NEW d \in Hours!Days \ partial, log[d].out # Hours!Null
      PROVE  /\ log[d].worked = log[d].out - log[d].in
             /\ ~log[d].manual => /\ log[d].status = "HALF_DAY" <=> log[d].worked < HalfDay
                                  /\ d \in Hours!Late(LastDay) => log[d].in > ShiftStart
  <2>1. log[d].worked = log[d].out - log[d].in
    BY <1>3 DEF HoursInv, HoursAlone
  <2>2. ~log[d].manual =>
          log[d].status = Hours!Departure(log[d].worked, Hours!Arrival(log[d].in))
    BY <1>3 DEF HoursInv, HoursAlone
  <2>3. d \in Hours!Late(LastDay) => log[d].status = "LATE"
    BY DEF Hours!Late
  <2> QED
    BY <2>1, <2>2, <2>3 DEF Hours!Departure, Hours!Arrival
<1> QED
  BY <1>2, <1>3 DEF Hours!AttendanceAddsUp
-------------------------------------------------------------------------------
(* Salary structures and salaries                                             *)

\* Each salary is of a structure that exists, the last one is the only open one, and
\* unless one was backdated each ends before the next begins.
SalariesFollow ==
  /\ Len(salary) <= MaxSalaries
  /\ \A i \in DOMAIN salary : /\ ~Salaries!Free(salary[i].structure)
                              /\ salary[i].to = Salaries!Open <=> i = Len(salary)
  /\ ~backdated => \A i, j \in DOMAIN salary : i < j => salary[i].to < salary[j].from
  /\ \A c \in Calls :
       /\ call[c].do = "dropComponent" => call[c].of \in Components
       /\ call[c].do \in {"create", "clone"} => call[c].of \in Structures
       /\ call[c].do \in {"replace", "drop", "assign"} =>
            call[c].of \in Structures /\ ~Salaries!Free(call[c].of)
       /\ call[c].do = "assign" => call[c].day \in Salaries!Days
       /\ call[c].do = "approve" => call[c].of \in DOMAIN salary

\* What a call has checked about components, structures and salaries still holds.
SalariesAlone ==
  /\ \A c, d \in Calls : call[c] # Salaries!NoCall /\ call[d] # Salaries!NoCall => c = d
  /\ \A c \in Calls :
       /\ call[c].do = "dropComponent" =>
            \A s \in Structures : structure[s].state = "active" => call[c].of \notin structure[s].has
       /\ call[c].do = "create" => \A k \in call[c].with : component[k] = "active"
       /\ call[c].do = "drop" =>
            \A i \in DOMAIN salary : salary[i].to = Salaries!Open => salary[i].structure # call[c].of
       /\ call[c].do = "assign" => structure[call[c].of].state = "active"
  /\ \A i \in DOMAIN salary :
       salary[i].to = Salaries!Open => structure[salary[i].structure].state = "active"
  /\ \A s \in Structures \ unvalidated : structure[s].state = "active" =>
       \A k \in structure[s].has : component[k] = "active"

\* Salaries: the inductive invariant.
SalariesInv == Salaries!TypeOK /\ SalariesFollow /\ (~overlap => SalariesAlone)

SalariesStates == {"none", "active", "inactive"}
SalariesRow    == [structure : Structures, from : Salaries!Days, to : 0..Salaries!Open,
                   status : {"DRAFT", "APPROVED"}]
SalariesCall   == [do : {"idle", "dropComponent", "create", "replace", "drop", "clone",
                         "assign", "approve"},
                   of : Salaries!Ids, with : SUBSET Components, day : {0} \cup Salaries!Days]

LEMMA SalariesIdle ==
  /\ Salaries!NoCall.do = "idle" /\ Salaries!NoCall \in SalariesCall
  /\ 0 \in Salaries!Ids /\ 0 \in {0} \cup Salaries!Days
  /\ MaxSalaries \in Nat /\ Salaries!Open \in Nat /\ Salaries!Open \in 0..Salaries!Open
  /\ \A d \in Salaries!Days : /\ d \in Nat /\ d < Salaries!Open /\ d - 1 \in 0..Salaries!Open
                              /\ d - 1 # Salaries!Open /\ d - 1 < d
<1>1. LastDay \in Nat /\ MaxSalaries \in Nat
  BY PeopleAssumption, Zenon DEF PeopleAssumption
<1>2. 0 \in Salaries!Ids /\ 0 \in {0} \cup Salaries!Days
  BY <1>1 DEF Salaries!Ids
<1>3. Salaries!NoCall.do = "idle" /\ Salaries!NoCall \in SalariesCall
  BY <1>2 DEF Salaries!NoCall, SalariesCall
<1> QED
  BY <1>1, <1>2, <1>3 DEF Salaries!Open, Salaries!Days

\* Salaries in a sequence.
LEMMA SalariesSeq ==
  ASSUME Salaries!TypeOK
  PROVE  /\ salary \in Seq(SalariesRow) /\ DOMAIN salary = 1..Len(salary) /\ Len(salary) \in Nat
         /\ \A i \in DOMAIN salary : /\ salary[i] \in SalariesRow
                                     /\ salary[i].from \in Nat /\ salary[i].to \in Nat
<1>1. salary \in Seq(SalariesRow)
  BY DEF Salaries!TypeOK, SalariesRow
<1>2. DOMAIN salary = 1..Len(salary) /\ Len(salary) \in Nat
  BY <1>1, LenProperties
<1>3. \A i \in DOMAIN salary : salary[i] \in SalariesRow
  BY <1>1, <1>2, ElementOfSeq
<1> QED
  BY <1>1, <1>2, <1>3, SalariesIdle DEF SalariesRow

\* Salaries: the invariant holds at the start.
LEMMA SalariesInit == Salaries!Init => SalariesInv
<1> SUFFICES ASSUME Salaries!Init PROVE SalariesInv
  OBVIOUS
<1> USE SalariesIdle DEF Salaries!Init
<1>1. salary = <<>> /\ Len(salary) = 0 /\ DOMAIN salary = {}
  OBVIOUS
<1>2. MaxSalaries \in Nat
  BY PeopleAssumption, Zenon DEF PeopleAssumption
<1>3. Salaries!TypeOK
  <2>1. salary \in Seq(SalariesRow)
    BY <1>1
  <2> QED
    BY <2>1 DEF Salaries!TypeOK, SalariesCall, SalariesRow
<1>4. SalariesFollow /\ SalariesAlone
  BY <1>1, <1>2 DEF SalariesFollow, SalariesAlone
<1> QED
  BY <1>3, <1>4 DEF SalariesInv

LEMMA SalariesStart ==
  ASSUME SalariesInv, NEW c \in Calls, NEW next \in SalariesCall,
         call[c] = Salaries!NoCall, call' = [call EXCEPT ![c] = next],
         overlap' = (overlap \/ \E b \in Calls : call[b] # Salaries!NoCall),
         UNCHANGED <<component, structure, salary, inCycle, backdated, unvalidated>>,
         next.do = "dropComponent" =>
           /\ next.of \in Components
           /\ \A s \in Structures : structure[s].state = "active" => next.of \notin structure[s].has,
         next.do \in {"create", "clone"} => next.of \in Structures,
         next.do = "create" => \A k \in next.with : component[k] = "active",
         next.do \in {"replace", "drop", "assign"} =>
           next.of \in Structures /\ ~Salaries!Free(next.of),
         next.do = "drop" => Salaries!OpenSalaries(next.of) = {},
         next.do = "assign" => next.day \in Salaries!Days /\ structure[next.of].state = "active",
         next.do = "approve" => next.of \in DOMAIN salary
  PROVE  SalariesInv'
<1> USE SalariesIdle DEF SalariesInv, Salaries!TypeOK, SalariesCall
<1>1. overlap' \in BOOLEAN
  BY Zenon
<1>2. ~overlap' => ~overlap /\ \A d \in Calls : call[d] = Salaries!NoCall
  OBVIOUS
<1>3. Salaries!TypeOK'
  BY <1>1
<1>4. SalariesFollow'
  BY DEF SalariesFollow, Salaries!Free
<1>5. next.do = "drop" =>
        \A i \in DOMAIN salary : salary[i].to = Salaries!Open => salary[i].structure # next.of
  BY DEF Salaries!OpenSalaries
<1>6. ~overlap' => SalariesAlone'
  BY <1>2, <1>5, SMTT(60) DEF SalariesAlone
<1> QED
  BY <1>3, <1>4, <1>6

\* A call writes a structure, and ends.
LEMMA SalariesWrites ==
  ASSUME SalariesInv, NEW c \in Calls, NEW s \in Structures, s = call[c].of,
         NEW new \in [state : SalariesStates, has : SUBSET Components],
         call' = [call EXCEPT ![c] = Salaries!NoCall],
         structure' = [structure EXCEPT ![s] = new],
         UNCHANGED <<component, salary, inCycle, overlap, backdated>>,
         unvalidated' = unvalidated \/ unvalidated' = unvalidated \cup {s},
         \/ /\ call[c].do \in {"create", "clone", "replace"}
            /\ new.state = "active" \/ new.state = structure[s].state
            /\ s \in unvalidated' \/ (call[c].do = "create" /\ new.has = call[c].with)
         \/ call[c].do = "drop" /\ new.state = "inactive"
  PROVE  SalariesInv'
<1> USE SalariesIdle DEF SalariesInv
<1>1. structure'[s] = new /\ \A t \in Structures : t # s => structure'[t] = structure[t]
  BY DEF Salaries!TypeOK
<1>2. Salaries!TypeOK'
  <2>1. call' \in [Calls -> SalariesCall]
    BY DEF Salaries!TypeOK, SalariesCall
  <2> QED
    BY <2>1 DEF Salaries!TypeOK, SalariesStates, SalariesCall
<1>3. \A t \in Structures : structure[t].state # "none" => structure'[t].state # "none"
  BY <1>1
<1>4. \A i \in DOMAIN salary : salary[i].structure \in Structures
  BY SalariesSeq DEF SalariesRow
<1>5. \A b \in Calls : call'[b] = Salaries!NoCall \/ call'[b] = call[b]
  BY DEF Salaries!TypeOK
<1>6. SalariesFollow'
  BY <1>3, <1>4, <1>5 DEF SalariesFollow, Salaries!Free
<1>7. ~overlap' => SalariesAlone'
  <2> SUFFICES ASSUME ~overlap PROVE SalariesAlone'
    OBVIOUS
  <2>1. \A d \in Calls : call'[d] = Salaries!NoCall
    BY DEF SalariesAlone, Salaries!TypeOK
  <2>2. ASSUME NEW i \in DOMAIN salary, salary[i].to = Salaries!Open
        PROVE  structure'[salary[i].structure].state = "active"
    <3>1. structure[salary[i].structure].state = "active"
      BY <2>2 DEF SalariesAlone
    <3>2. call[c].do = "drop" => salary[i].structure # s
      BY <2>2 DEF SalariesAlone
    <3> QED
      BY <1>1, <1>4, <3>1, <3>2
  <2>3. ASSUME NEW t \in Structures \ unvalidated', structure'[t].state = "active",
               NEW k \in structure'[t].has
        PROVE  component[k] = "active"
    <3>1. CASE t # s
      BY <1>1, <2>3, <3>1 DEF SalariesAlone
    <3>2. CASE t = s
      <4>1. call[c].do = "create" /\ k \in call[c].with
        BY <1>1, <2>3, <3>2
      <4> QED
        BY <4>1 DEF SalariesAlone
    <3> QED
      BY <3>1, <3>2
  <2> QED
    BY <2>1, <2>2, <2>3 DEF SalariesAlone
<1> QED
  BY <1>2, <1>6, <1>7

\* Salaries: every step, and a stutter, keeps the invariant.
LEMMA SalariesNext == SalariesInv /\ [Salaries!Next]_(Salaries!vars) => SalariesInv'
<1> SUFFICES ASSUME SalariesInv, [Salaries!Next]_(Salaries!vars) PROVE SalariesInv'
  OBVIOUS
<1> USE SalariesIdle
<1>1. CASE UNCHANGED Salaries!vars
  BY <1>1 DEF Salaries!vars, SalariesInv, Salaries!TypeOK, SalariesFollow, SalariesAlone, Salaries!Free
<1>2. ASSUME NEW k \in Components, Salaries!CreateComponent(k) PROVE SalariesInv'
  <2> USE DEF SalariesInv, Salaries!TypeOK
  <2>1. /\ component' = [component EXCEPT ![k] = "active"]
        /\ UNCHANGED <<structure, salary, inCycle, call, overlap, backdated, unvalidated>>
    BY <1>2 DEF Salaries!CreateComponent
  <2>2. Salaries!TypeOK' /\ SalariesFollow'
    BY <2>1 DEF SalariesFollow, Salaries!Free
  <2>3. \A j \in Components : component[j] = "active" => component'[j] = "active"
    BY <2>1
  <2>4. ~overlap' => SalariesAlone'
    BY <2>1, <2>3 DEF SalariesAlone
  <2> QED
    BY <2>2, <2>4
<1>3. ASSUME NEW k \in Components, NEW c \in Calls, Salaries!DropComponentCheck(c, k)
      PROVE  SalariesInv'
  <2> DEFINE next == [do |-> "dropComponent", of |-> k, with |-> {}, day |-> 0]
  <2>1. next \in SalariesCall /\ next.do = "dropComponent" /\ next.of = k
    BY DEF SalariesCall, Salaries!Ids
  <2>2. /\ call[c] = Salaries!NoCall /\ call' = [call EXCEPT ![c] = next]
        /\ overlap' = (overlap \/ \E b \in Calls : call[b] # Salaries!NoCall)
        /\ UNCHANGED <<component, structure, salary, inCycle, backdated, unvalidated>>
        /\ \A s \in Structures : structure[s].state = "active" => k \notin structure[s].has
    BY <1>3 DEF Salaries!DropComponentCheck, Salaries!Check
  <2> HIDE DEF next
  <2> QED
    BY <2>1, <2>2, SalariesStart
<1>4. ASSUME NEW c \in Calls, NEW s \in Structures,
             \/ \E with \in SUBSET Components : Salaries!CreateCheck(c, s, with) \/ Salaries!ReplaceCheck(c, s, with)
             \/ \E source \in Structures : Salaries!CloneCheck(c, s, source)
             \/ Salaries!DropCheck(c, s)
             \/ \E d \in Salaries!Days : Salaries!AssignCheck(c, s, d)
      PROVE  SalariesInv'
  <2>1. \A source \in Structures : structure[source].has \in SUBSET Components
    BY DEF SalariesInv, Salaries!TypeOK
  <2>2. PICK do \in {"create", "clone", "replace", "drop", "assign"}, with \in SUBSET Components,
             day \in {0} \cup Salaries!Days :
          /\ call[c] = Salaries!NoCall
          /\ call' = [call EXCEPT ![c] = [do |-> do, of |-> s, with |-> with, day |-> day]]
          /\ overlap' = (overlap \/ \E b \in Calls : call[b] # Salaries!NoCall)
          /\ UNCHANGED <<component, structure, salary, inCycle, backdated, unvalidated>>
          /\ do = "create" => \A k \in with : component[k] = "active"
          /\ do \in {"replace", "drop"} => ~Salaries!Free(s)
          /\ do = "drop" => Salaries!OpenSalaries(s) = {}
          /\ do = "assign" => structure[s].state = "active" /\ day \in Salaries!Days
    <3>1. CASE \E with \in SUBSET Components : Salaries!CreateCheck(c, s, with) \/ Salaries!ReplaceCheck(c, s, with)
      BY <3>1 DEF Salaries!CreateCheck, Salaries!ReplaceCheck, Salaries!Check
    <3>2. CASE \E source \in Structures : Salaries!CloneCheck(c, s, source)
      BY <2>1, <3>2 DEF Salaries!CloneCheck, Salaries!Check
    <3>3. CASE Salaries!DropCheck(c, s) \/ \E d \in Salaries!Days : Salaries!AssignCheck(c, s, d)
      BY <3>3 DEF Salaries!DropCheck, Salaries!AssignCheck, Salaries!Check
    <3> QED
      BY <1>4, <3>1, <3>2, <3>3
  <2> DEFINE next == [do |-> do, of |-> s, with |-> with, day |-> day]
  <2>3. next \in SalariesCall /\ next.do = do /\ next.of = s /\ next.with = with /\ next.day = day
    BY DEF SalariesCall, Salaries!Ids
  <2>4. do = "assign" => ~Salaries!Free(s)
    BY <2>2 DEF Salaries!Free
  <2> HIDE DEF next
  <2>5. call' = [call EXCEPT ![c] = next]
    BY <2>2 DEF next
  <2> QED
    BY <2>2, <2>3, <2>4, <2>5, SalariesStart
<1>5. ASSUME NEW c \in Calls, NEW i \in DOMAIN salary, Salaries!ApproveCheck(c, i) PROVE SalariesInv'
  <2> DEFINE next == [do |-> "approve", of |-> i, with |-> {}, day |-> 0]
  <2>1. i \in Salaries!Ids
    <3>1. Salaries!TypeOK /\ Len(salary) <= MaxSalaries
      BY DEF SalariesInv, SalariesFollow
    <3>2. DOMAIN salary = 1..Len(salary) /\ Len(salary) \in Nat
      BY <3>1, SalariesSeq
    <3> QED
      BY <3>1, <3>2 DEF Salaries!Ids
  <2>2. next \in SalariesCall /\ next.do = "approve" /\ next.of = i
    BY <2>1 DEF SalariesCall
  <2>3. /\ call[c] = Salaries!NoCall /\ call' = [call EXCEPT ![c] = next]
        /\ overlap' = (overlap \/ \E b \in Calls : call[b] # Salaries!NoCall)
        /\ UNCHANGED <<component, structure, salary, inCycle, backdated, unvalidated>>
    BY <1>5 DEF Salaries!ApproveCheck, Salaries!Check
  <2> HIDE DEF next
  <2> QED
    BY <2>2, <2>3, SalariesStart
<1>6. CASE Salaries!PayrollReversed \/ \E i \in DOMAIN salary : Salaries!PayrollRuns(i)
  <2>1. /\ UNCHANGED <<component, structure, salary, call, overlap, backdated, unvalidated>>
        /\ inCycle' \subseteq Structures
    <3>1. \A i \in DOMAIN salary : salary[i].structure \in Structures
      BY SalariesSeq DEF SalariesInv, SalariesRow
    <3> QED
      BY <1>6, <3>1 DEF Salaries!PayrollReversed, Salaries!PayrollRuns, SalariesInv, Salaries!TypeOK
  <2> QED
    BY <2>1 DEF SalariesInv, Salaries!TypeOK, SalariesFollow, SalariesAlone, Salaries!Free
<1>7. ASSUME NEW c \in Calls, Salaries!Abort(c) PROVE SalariesInv'
  <2> USE DEF SalariesInv, Salaries!TypeOK, SalariesCall
  <2>1. /\ call' = [call EXCEPT ![c] = Salaries!NoCall]
        /\ UNCHANGED <<component, structure, salary, inCycle, overlap, backdated, unvalidated>>
    BY <1>7 DEF Salaries!Abort, Salaries!Finish
  <2>2. Salaries!TypeOK' /\ SalariesFollow'
    BY <2>1 DEF SalariesFollow, Salaries!Free
  <2>3. ~overlap' => SalariesAlone'
    BY <2>1 DEF SalariesAlone
  <2> QED
    BY <2>2, <2>3
<1>8. ASSUME NEW c \in Calls, Salaries!DropComponentWrite(c) PROVE SalariesInv'
  <2> USE DEF SalariesInv, Salaries!TypeOK, SalariesCall
  <2> PICK k \in Components : k = call[c].of
    BY <1>8 DEF Salaries!DropComponentWrite, Salaries!Finish, SalariesFollow
  <2>1. /\ call[c].do = "dropComponent" /\ call' = [call EXCEPT ![c] = Salaries!NoCall]
        /\ component' = [component EXCEPT ![k] = "inactive"]
        /\ UNCHANGED <<structure, salary, inCycle, overlap, backdated, unvalidated>>
    BY <1>8 DEF Salaries!DropComponentWrite, Salaries!Finish
  <2>2. Salaries!TypeOK' /\ SalariesFollow'
    BY <2>1 DEF SalariesFollow, Salaries!Free
  <2>3. ~overlap' => SalariesAlone'
    <3> SUFFICES ASSUME ~overlap PROVE SalariesAlone'
      BY <2>1
    <3>1. \A d \in Calls : call'[d] = Salaries!NoCall
      BY <2>1 DEF SalariesAlone
    <3>2. \A s \in Structures : structure[s].state = "active" => k \notin structure[s].has
      BY <2>1 DEF SalariesAlone
    <3> QED
      BY <2>1, <3>1, <3>2 DEF SalariesAlone
  <2> QED
    BY <2>2, <2>3
<1>9. ASSUME NEW c \in Calls,
             Salaries!CreateWrite(c) \/ Salaries!ReplaceWrite(c) \/ Salaries!DropWrite(c)
      PROVE  SalariesInv'
  <2> PICK s \in Structures, with \in SUBSET Components : s = call[c].of /\ with = call[c].with
    BY <1>9 DEF Salaries!CreateWrite, Salaries!ReplaceWrite, Salaries!DropWrite, Salaries!Finish,
                SalariesInv, Salaries!TypeOK, SalariesFollow
  <2>1. /\ structure[s] \in [state : SalariesStates, has : SUBSET Components]
        /\ unvalidated \subseteq Structures
    BY DEF SalariesInv, Salaries!TypeOK, SalariesStates
  <2>2. CASE Salaries!CreateWrite(c)
    <3> DEFINE new == [state |-> "active", has |-> with]
    <3>1. PICK do \in {"create", "clone"} :
            /\ call[c].do = do /\ call' = [call EXCEPT ![c] = Salaries!NoCall]
            /\ UNCHANGED <<component, salary, inCycle, overlap, backdated>>
            /\ structure' = [structure EXCEPT ![s] = new]
            /\ unvalidated' = IF do = "clone" THEN unvalidated \cup {s} ELSE unvalidated
      BY <2>2 DEF Salaries!CreateWrite, Salaries!Finish
    <3>2. /\ new \in [state : SalariesStates, has : SUBSET Components]
          /\ new.state = "active" /\ new.has = with
      BY DEF SalariesStates
    <3> HIDE DEF new
    <3>3. do = "create" => \A k \in call[c].with : k \in with
      OBVIOUS
    <3> QED
      BY <2>1, <3>1, <3>2, SalariesWrites
  <2>3. CASE Salaries!ReplaceWrite(c)
    <3> DEFINE new == [structure[s] EXCEPT !.has = with]
    <3>1. /\ call[c].do = "replace" /\ call' = [call EXCEPT ![c] = Salaries!NoCall]
          /\ UNCHANGED <<component, salary, inCycle, overlap, backdated>>
          /\ structure' = [structure EXCEPT ![s] = new]
          /\ unvalidated' = unvalidated \cup {s}
      BY <2>3 DEF Salaries!ReplaceWrite, Salaries!Finish
    <3>2. /\ new \in [state : SalariesStates, has : SUBSET Components]
          /\ new.state = structure[s].state
      BY <2>1
    <3> HIDE DEF new
    <3>3. /\ call[c].do \in {"create", "clone", "replace"} /\ call' = [call EXCEPT ![c] = Salaries!NoCall]
          /\ structure' = [structure EXCEPT ![s] = new]
          /\ unvalidated' = unvalidated \cup {s} /\ s \in unvalidated'
      BY <3>1
    <3>4. UNCHANGED <<component, salary, inCycle, overlap, backdated>>
      BY <3>1
    <3>5. unvalidated' = unvalidated \/ unvalidated' = unvalidated \cup {s}
      BY <3>3
    <3>6. /\ call[c].do \in {"create", "clone", "replace"}
          /\ new.state = "active" \/ new.state = structure[s].state
          /\ s \in unvalidated' \/ (call[c].do = "create" /\ new.has = call[c].with)
      BY <3>2, <3>3
    <3>7. call' = [call EXCEPT ![c] = Salaries!NoCall] /\ structure' = [structure EXCEPT ![s] = new]
      BY <3>1
    <3> QED
      BY <3>2, <3>4, <3>5, <3>6, <3>7, SalariesWrites, Zenon
  <2>4. CASE Salaries!DropWrite(c)
    <3> DEFINE new == [structure[s] EXCEPT !.state = "inactive"]
    <3>1. /\ call[c].do = "drop" /\ call' = [call EXCEPT ![c] = Salaries!NoCall]
          /\ UNCHANGED <<component, salary, inCycle, overlap, backdated, unvalidated>>
          /\ structure' = [structure EXCEPT ![s] = new]
      BY <2>4 DEF Salaries!DropWrite, Salaries!Finish
    <3>2. /\ new \in [state : SalariesStates, has : SUBSET Components]
          /\ new.state = "inactive"
      BY <2>1 DEF SalariesStates
    <3>3. UNCHANGED <<component, salary, inCycle, overlap, backdated>> /\ unvalidated' = unvalidated
      BY <3>1
    <3>4. call[c].do = "drop" /\ call' = [call EXCEPT ![c] = Salaries!NoCall]
          /\ structure' = [structure EXCEPT ![s] = new]
      BY <3>1
    <3> HIDE DEF new
    <3> QED
      BY <3>2, <3>3, <3>4, SalariesWrites
  <2> QED
    BY <1>9, <2>2, <2>3, <2>4
<1>10. ASSUME NEW c \in Calls, Salaries!ApproveWrite(c) PROVE SalariesInv'
  <2> USE DEF SalariesInv, SalariesCall
  <2> PICK i \in DOMAIN salary : i = call[c].of
    BY <1>10 DEF Salaries!ApproveWrite, Salaries!Finish, SalariesFollow
  <2>1. /\ call[c].do = "approve" /\ call' = [call EXCEPT ![c] = Salaries!NoCall]
        /\ salary' = [salary EXCEPT ![i].status = "APPROVED"]
        /\ UNCHANGED <<component, structure, inCycle, overlap, backdated, unvalidated>>
    BY <1>10 DEF Salaries!ApproveWrite, Salaries!Finish
  <2>2. /\ salary' \in Seq(SalariesRow) /\ Len(salary') = Len(salary) /\ DOMAIN salary' = DOMAIN salary
        /\ \A j \in DOMAIN salary : /\ salary'[j].structure = salary[j].structure
                                    /\ salary'[j].from = salary[j].from /\ salary'[j].to = salary[j].to
    <3>1. salary \in Seq(SalariesRow) /\ salary[i] \in SalariesRow /\ DOMAIN salary = 1..Len(salary)
      BY SalariesSeq
    <3>2. salary' \in [DOMAIN salary -> SalariesRow]
      BY <2>1, SalariesSeq, ZenonT(60) DEF SalariesRow
    <3>3. \A j \in DOMAIN salary : /\ salary'[j].structure = salary[j].structure
                                   /\ salary'[j].from = salary[j].from /\ salary'[j].to = salary[j].to
      BY <2>1, <3>1 DEF SalariesRow
    <3> QED
      BY <3>1, <3>2, <3>3, SeqMap
  <2>3. Salaries!TypeOK'
    BY <2>1, <2>2 DEF Salaries!TypeOK, SalariesRow
  <2>4. \A b \in Calls : call'[b] = Salaries!NoCall \/ call'[b] = call[b]
    BY <2>1 DEF Salaries!TypeOK
  <2>5. SalariesFollow'
    <3>1. ASSUME ~backdated, NEW j \in DOMAIN salary, NEW h \in DOMAIN salary, j < h
          PROVE  salary'[j].to < salary'[h].from
      BY <2>2, <3>1 DEF SalariesFollow
    <3> QED
      BY <2>1, <2>2, <2>4, <3>1 DEF SalariesFollow, Salaries!Free
  <2>6. ~overlap' => SalariesAlone'
    BY <2>1, <2>2, <2>4 DEF SalariesAlone
  <2> QED
    BY <2>3, <2>5, <2>6
<1>11. ASSUME NEW c \in Calls, Salaries!AssignWrite(c) PROVE SalariesInv'
  <2> USE DEF SalariesInv, SalariesCall
  <2> PICK s \in Structures, d \in Salaries!Days : s = call[c].of /\ d = call[c].day
    BY <1>11 DEF Salaries!AssignWrite, Salaries!Finish, SalariesFollow
  <2> DEFINE closed == Salaries!Closed(d)
             new == [structure |-> s, from |-> d, to |-> Salaries!Open, status |-> "DRAFT"]
             n == Len(salary)
  <2>1. /\ call[c].do = "assign" /\ call' = [call EXCEPT ![c] = Salaries!NoCall]
        /\ n < MaxSalaries /\ salary' = Append(closed, new)
        /\ backdated' = (backdated \/ \E i \in DOMAIN salary : salary[i].from >= d)
        /\ UNCHANGED <<component, structure, inCycle, overlap, unvalidated>>
    BY <1>11 DEF Salaries!AssignWrite, Salaries!Finish, Salaries!Assigned
  <2>2. /\ salary \in Seq(SalariesRow) /\ DOMAIN salary = 1..n /\ n \in Nat
        /\ \A i \in DOMAIN salary : /\ salary[i] \in SalariesRow
                                    /\ salary[i].from \in Nat /\ salary[i].to \in Nat
    BY SalariesSeq
  <2>3. /\ closed \in [DOMAIN salary -> SalariesRow]
        /\ \A i \in DOMAIN salary :
             /\ closed[i].structure = salary[i].structure /\ closed[i].from = salary[i].from
             /\ closed[i].to = IF salary[i].to = Salaries!Open THEN d - 1 ELSE salary[i].to
    BY <2>2 DEF Salaries!Closed, SalariesRow
  <2>4. new \in SalariesRow /\ new.structure = s /\ new.from = d /\ new.to = Salaries!Open
    BY DEF SalariesRow
  <2> HIDE DEF closed, new
  <2>5. closed \in Seq(SalariesRow) /\ Len(closed) = n /\ DOMAIN closed = 1..n
    BY <2>2, <2>3, SeqMap
  <2>6. /\ salary' \in Seq(SalariesRow) /\ Len(salary') = n + 1 /\ DOMAIN salary' = 1..(n + 1)
        /\ salary'[n + 1] = new /\ \A i \in 1..n : salary'[i] = closed[i]
    BY <2>1, <2>4, <2>5, SeqAppend
  <2> HIDE DEF n
  <2>7. /\ salary'[n + 1].structure = s /\ salary'[n + 1].from = d
        /\ salary'[n + 1].to = Salaries!Open
        /\ \A i \in 1..n : /\ salary'[i].structure = salary[i].structure
                           /\ salary'[i].from = salary[i].from
                           /\ salary'[i].to = IF salary[i].to = Salaries!Open THEN d - 1 ELSE salary[i].to
    BY <2>2, <2>3, <2>4, <2>6, ZenonT(60)
  <2>8. \A i \in 1..(n + 1) : i = n + 1 \/ i \in 1..n
    BY <2>2
  <2>9. backdated' \in BOOLEAN
    BY <2>1, Zenon DEF Salaries!TypeOK
  <2>10. Salaries!TypeOK'
    BY <2>1, <2>6, <2>9 DEF Salaries!TypeOK, SalariesRow
  <2>11. SalariesFollow'
    <3>1. Len(salary') <= MaxSalaries
      BY <2>1, <2>2, <2>6
    <3>2. ASSUME NEW i \in DOMAIN salary'
          PROVE  /\ structure'[salary'[i].structure].state # "none"
                 /\ salary'[i].to = Salaries!Open <=> i = Len(salary')
      <4>1. CASE i = n + 1
        BY <2>1, <2>6, <2>7, <4>1 DEF SalariesFollow, Salaries!Free
      <4>2. CASE i \in 1..n
        <5>1. structure[salary[i].structure].state # "none"
          BY <2>2, <4>2 DEF SalariesFollow, Salaries!Free
        <5>2. salary'[i].structure = salary[i].structure /\ structure' = structure
          BY <2>1, <2>7, <4>2
        <5>3. salary'[i].to # Salaries!Open
          BY <2>7, <4>2
        <5>4. i # Len(salary')
          BY <2>2, <2>6, <4>2
        <5> QED
          BY <5>1, <5>2, <5>3, <5>4
      <4> QED
        BY <2>6, <2>8, <4>1, <4>2
    <3>3. ASSUME ~backdated', NEW i \in DOMAIN salary', NEW j \in DOMAIN salary', i < j
          PROVE  salary'[i].to < salary'[j].from
      <4>1. ~backdated /\ \A h \in 1..n : salary[h].from < d
        <5>1. ~backdated /\ \A h \in DOMAIN salary : ~(salary[h].from >= d)
          BY <2>1, <3>3, Zenon
        <5> QED
          BY <2>2, <5>1
      <4>2. i \in 1..n
        BY <2>2, <2>6, <3>3
      <4>3. CASE j \in 1..n
        <5>1. salary[i].to < salary[j].from /\ salary[j].from < d
          BY <2>2, <3>3, <4>1, <4>2, <4>3 DEF SalariesFollow
        <5>2. salary[i].to # Salaries!Open
          BY <2>2, <4>2, <4>3, <5>1
        <5> QED
          BY <2>7, <4>2, <4>3, <5>1, <5>2
      <4>4. CASE j = n + 1
        <5>1. salary[i].to = Salaries!Open \/ salary[i].to < d
          <6>1. CASE i = n
            BY <2>2, <4>2, <6>1 DEF SalariesFollow, n
          <6>2. CASE i # n
            <7>1. n \in DOMAIN salary /\ i < n
              BY <2>2, <4>2, <6>2
            <7>2. salary[i].to < salary[n].from /\ salary[n].from < d
              BY <2>2, <4>1, <4>2, <7>1 DEF SalariesFollow
            <7> QED
              BY <2>2, <4>2, <7>1, <7>2
          <6> QED
            BY <6>1, <6>2
        <5> QED
          BY <2>2, <2>7, <4>2, <4>4, <5>1
      <4> QED
        BY <2>6, <2>8, <4>3, <4>4
    <3>4. \A i \in DOMAIN salary : i \in DOMAIN salary'
      BY <2>2, <2>6
    <3>5. \A b \in Calls : call'[b] = Salaries!NoCall \/ call'[b] = call[b]
      BY <2>1 DEF Salaries!TypeOK
    <3> QED
      BY <2>1, <3>1, <3>2, <3>3, <3>4, <3>5 DEF SalariesFollow, Salaries!Free
  <2>12. ~overlap' => SalariesAlone'
    <3> SUFFICES ASSUME ~overlap PROVE SalariesAlone'
      BY <2>1
    <3>1. \A b \in Calls : call'[b] = Salaries!NoCall
      BY <2>1 DEF SalariesAlone, Salaries!TypeOK
    <3>2. structure[s].state = "active"
      BY <2>1 DEF SalariesAlone
    <3>3. \A i \in 1..n : salary'[i].to # Salaries!Open
      BY <2>2, <2>7
    <3>4. \A i \in DOMAIN salary' : salary'[i].to = Salaries!Open =>
            structure'[salary'[i].structure].state = "active"
      BY <2>1, <2>6, <2>7, <2>8, <3>2, <3>3
    <3> QED
      BY <2>1, <3>1, <3>4 DEF SalariesAlone
  <2> QED
    BY <2>10, <2>11, <2>12
<1> QED
  BY <1>1, <1>2, <1>3, <1>4, <1>5, <1>6, <1>7, <1>8, <1>9, <1>10, <1>11 DEF Salaries!Next

\* The invariant implies the property that the run checks.
LEMMA SalariesSound == SalariesInv => Salaries!SalariesAreSound
<1> SUFFICES ASSUME SalariesInv PROVE Salaries!SalariesAreSound
  OBVIOUS
<1> USE SalariesIdle
<1>1. SalariesFollow /\ (~overlap => SalariesAlone) /\ Salaries!TypeOK
  BY DEF SalariesInv
<1>2. /\ DOMAIN salary = 1..Len(salary) /\ Len(salary) \in Nat
      /\ \A i \in DOMAIN salary : salary[i].from \in Nat /\ salary[i].to \in Nat
                                  /\ salary[i].structure \in Structures
  BY <1>1, SalariesSeq DEF SalariesRow
<1>3. ASSUME NEW S PROVE Salaries!Cardinality(S) = Cardinality(S)
  BY DEF Salaries!Cardinality, Cardinality
<1>4. Salaries!Cardinality({i \in DOMAIN salary : salary[i].to = Salaries!Open}) <= 1
  <2> DEFINE S == {i \in DOMAIN salary : salary[i].to = Salaries!Open}
  <2>1. \A x, y \in S : x = y
    BY <1>1 DEF SalariesFollow
  <2> HIDE DEF S
  <2>2. Cardinality(S) \in {0, 1}
    BY <2>1, AtMostOne
  <2>3. Salaries!Cardinality(S) <= 1
    BY <1>3, <2>2
  <2> QED
    BY <2>3 DEF S
<1>5. ASSUME ~overlap
      PROVE  /\ \A s \in Structures : Salaries!OpenSalaries(s) # {} => structure[s].state = "active"
             /\ \A s \in Structures \ unvalidated :
                  structure[s].state = "active" =>
                    \A k \in structure[s].has : component[k] = "active"
  BY <1>1, <1>5 DEF SalariesAlone, Salaries!OpenSalaries
<1>6. ASSUME ~backdated, NEW d \in Salaries!Days PROVE Salaries!Cardinality(Salaries!CurrentSalaries(d)) <= 1
  <2> DEFINE S == Salaries!CurrentSalaries(d)
  <2>1. ASSUME NEW x \in S, NEW y \in S PROVE ~(x < y)
    <3>1. /\ x \in DOMAIN salary /\ y \in DOMAIN salary
          /\ d \in salary[x].from..salary[x].to /\ d \in salary[y].from..salary[y].to
      BY <2>1 DEF Salaries!CurrentSalaries
    <3>2. x < y => salary[x].to < salary[y].from
      BY <1>1, <1>6, <3>1 DEF SalariesFollow
    <3> QED
      BY <1>2, <3>1, <3>2
  <2>2. \A x, y \in S : x = y
    <3>1. \A x \in S : x \in Nat
      BY <1>2 DEF Salaries!CurrentSalaries
    <3> HIDE DEF S
    <3> QED
      BY <2>1, <3>1
  <2> HIDE DEF S
  <2>3. Cardinality(S) \in {0, 1}
    BY <2>2, AtMostOne
  <2>4. Salaries!Cardinality(S) <= 1
    BY <1>3, <2>3
  <2> QED
    BY <2>4 DEF S
<1>7. \A i \in DOMAIN salary : ~Salaries!Free(salary[i].structure)
  BY <1>1 DEF SalariesFollow
<1> QED
  BY <1>4, <1>5, <1>6, <1>7 DEF Salaries!SalariesAreSound
-------------------------------------------------------------------------------
(* Employment                                                                 *)

\* One more entry occurs once more.
LEMMA OccursAppend ==
  ASSUME NEW R, NEW s \in Seq(R), NEW y \in R, NEW x
  PROVE  /\ Employ!Occurs(s, x) \in Nat
         /\ Employ!Occurs(Append(s, y), x) = IF y = x THEN Employ!Occurs(s, x) + 1
                                             ELSE Employ!Occurs(s, x)
<1> DEFINE n == Len(s)
           t == Append(s, y)
           A == {i \in DOMAIN s : s[i] = x}
           B == {i \in DOMAIN t : t[i] = x}
<1>1. /\ n \in Nat /\ DOMAIN s = 1..n /\ DOMAIN t = 1..(n + 1) /\ t[n + 1] = y
      /\ \A i \in DOMAIN s : t[i] = s[i]
  BY SeqAppend
<1>2. Employ!Occurs(s, x) = Cardinality(A) /\ Employ!Occurs(t, x) = Cardinality(B)
  BY DEF Employ!Occurs, Employ!Cardinality, Cardinality
<1> HIDE DEF t
<1>3. A \subseteq 1..n /\ n + 1 \notin A
  BY <1>1
<1>4. B = IF y = x THEN A \cup {n + 1} ELSE A
  BY <1>1
<1>5. IsFiniteSet(A) /\ Cardinality(A) \in Nat
  <2>1. IsFiniteSet(1..n)
    BY <1>1, FS_Interval
  <2> HIDE DEF A, n
  <2> QED
    BY <1>3, <2>1, FS_Subset, FS_CardinalityType
<1> HIDE DEF A, B, n
<1>6. Cardinality(A \cup {n + 1}) = Cardinality(A) + 1
  BY <1>3, <1>5, FS_AddElement
<1> QED
  BY <1>2, <1>4, <1>5, <1>6 DEF t

\* Nothing occurs in an empty sequence.
LEMMA OccursNone == \A x : Employ!Occurs(<<>>, x) = 0
<1> SUFFICES ASSUME NEW x PROVE Employ!Occurs(<<>>, x) = 0
  OBVIOUS
<1>1. {i \in DOMAIN <<>> : (<<>>)[i] = x} = {}
  OBVIOUS
<1> QED
  BY <1>1, FS_EmptySet DEF Employ!Occurs, Employ!Cardinality, Cardinality

\* A count of occurrences is a natural number.
LEMMA OccursType ==
  ASSUME NEW R, NEW s \in Seq(R), NEW x
  PROVE  Employ!Occurs(s, x) \in Nat
<1> DEFINE A == {i \in DOMAIN s : s[i] = x}
<1>1. A \subseteq 1..Len(s) /\ Len(s) \in Nat
  BY LenProperties
<1>2. Employ!Occurs(s, x) = Cardinality(A)
  BY DEF Employ!Occurs, Employ!Cardinality, Cardinality
<1>3. IsFiniteSet(1..Len(s))
  BY <1>1, FS_Interval
<1> HIDE DEF A
<1> QED
  BY <1>1, <1>2, <1>3, FS_Subset, FS_CardinalityType

\* The change that queues a job.
MadeBy(j) == IF j = "access_revocation" THEN "TERMINATED" ELSE "HIRED"

LEMMA MadeByEvent == \A j : MadeBy(j) \in Employ!Events
BY DEF MadeBy, Employ!Events

\* A change queues its jobs once, and no other.
LEMMA OccursQueued ==
  ASSUME NEW s \in Seq(Employ!Jobs), NEW event \in Employ!Events
  PROVE  /\ s \o Employ!JobsFor(event) \in Seq(Employ!Jobs)
         /\ \A j \in Employ!Jobs :
              Employ!Occurs(s \o Employ!JobsFor(event), j) =
                IF event = MadeBy(j) THEN Employ!Occurs(s, j) + 1 ELSE Employ!Occurs(s, j)
<1> USE DEF Employ!Jobs, MadeBy
<1>1. CASE event = "HIRED"
  <2> DEFINE t == Append(s, "welcome_email")
  <2>1. t \in Seq(Employ!Jobs) /\ s \o Employ!JobsFor(event) = Append(t, "onboarding_tasks_stub")
    BY <1>1 DEF Employ!JobsFor
  <2>2. Append(t, "onboarding_tasks_stub") \in Seq(Employ!Jobs)
    BY <2>1
  <2>3. \A j \in Employ!Jobs :
          /\ Employ!Occurs(s, j) \in Nat
          /\ Employ!Occurs(t, j) = IF "welcome_email" = j THEN Employ!Occurs(s, j) + 1
                                   ELSE Employ!Occurs(s, j)
    BY OccursAppend
  <2> HIDE DEF t
  <2>4. \A j \in Employ!Jobs :
          Employ!Occurs(Append(t, "onboarding_tasks_stub"), j) =
            IF "onboarding_tasks_stub" = j THEN Employ!Occurs(t, j) + 1 ELSE Employ!Occurs(t, j)
    BY <2>1, OccursAppend
  <2> QED
    BY <1>1, <2>1, <2>2, <2>3, <2>4
<1>2. CASE event = "TERMINATED"
  <2>1. s \o Employ!JobsFor(event) = Append(s, "access_revocation")
    BY <1>2 DEF Employ!JobsFor
  <2>2. Append(s, "access_revocation") \in Seq(Employ!Jobs)
    OBVIOUS
  <2>3. \A j \in Employ!Jobs :
          Employ!Occurs(Append(s, "access_revocation"), j) =
            IF "access_revocation" = j THEN Employ!Occurs(s, j) + 1 ELSE Employ!Occurs(s, j)
    BY OccursAppend
  <2> QED
    BY <1>2, <2>1, <2>2, <2>3
<1>3. CASE event \in {"PROMOTED", "TRANSFERRED"}
  <2>1. Employ!JobsFor(event) = <<>> /\ \A j : event # MadeBy(j)
    BY <1>3 DEF Employ!JobsFor
  <2>2. s \o Employ!JobsFor(event) = s
    BY <2>1
  <2> QED
    BY <2>1, <2>2, Zenon
<1> QED
  BY <1>1, <1>2, <1>3 DEF Employ!Events

\* One grade more: the last that names one is that, or the same as before.
LEMMA LastGradeAppend ==
  ASSUME NEW s \in Seq(Nat), NEW g \in Nat
  PROVE  /\ Append(s, g)[Len(s) + 1] = g
         /\ g # 0 => Employ!LastGrade(Append(s, g), Len(s) + 1)
         /\ g = 0 => \A i \in 0..Len(s) : Employ!LastGrade(s, i) =>
              Employ!LastGrade(Append(s, g), i) /\ (i # 0 => Append(s, g)[i] = s[i])
<1> DEFINE n == Len(s)
           t == Append(s, g)
<1>1. /\ n \in Nat /\ Len(t) = n + 1 /\ t[n + 1] = g
      /\ \A i \in 1..n : t[i] = s[i]
  BY SeqAppend
<1>2. /\ \A i : Employ!LastGrade(t, i) <=> (i > 0 => t[i] # 0) /\ \A k \in i + 1..Len(t) : t[k] = 0
      /\ \A i : Employ!LastGrade(s, i) <=> (i > 0 => s[i] # 0) /\ \A k \in i + 1..n : s[k] = 0
  BY DEF Employ!LastGrade
<1> HIDE DEF n, t
<1>3. g # 0 => Employ!LastGrade(t, n + 1)
  BY <1>1, <1>2
<1>4. ASSUME g = 0, NEW i \in 0..n, Employ!LastGrade(s, i)
      PROVE  Employ!LastGrade(t, i) /\ (i # 0 => t[i] = s[i])
  <2>1. i # 0 => t[i] = s[i] /\ s[i] # 0
    BY <1>1, <1>2, <1>4
  <2>2. ASSUME NEW k \in i + 1..Len(t) PROVE t[k] = 0
    BY <1>1, <1>2, <1>4, <2>2
  <2> QED
    BY <1>2, <2>1, <2>2
<1> QED
  BY <1>1, <1>3, <1>4 DEF n, t

-------------------------------------------------------------------------------
\* A call that is about to insert its employee.
Prehire(k) == k.do = "unique" \/ (k.do = "write" /\ k.event = "HIRED")

\* What a call knows of its employee; the one it is about to insert is its own.
EmployCalls ==
  \A c \in Calls :
    /\ call[c].do = "idle" => call[c] = Employ!NoCall
    /\ call[c].do \in {"unique", "write", "audit", "event", "delete"} => call[c].emp \in Employees
    /\ call[c].do \in {"unique", "write", "audit", "event"} => call[c].event \in Employ!Events
    /\ Prehire(call[c]) =>
         /\ call[c].event = "HIRED" /\ emp[call[c].emp].state = "none"
         /\ \A d \in Calls \ {c} : call[d].emp # call[c].emp
    /\ call[c].do \in {"write", "audit", "event", "delete"} /\ ~Prehire(call[c]) =>
         emp[call[c].emp].state # "none"
    /\ call[c].do \in {"start", "row"} => call[c].row # 0
    /\ call[c].do = "delete" => call[c].row = 0

\* The import has accounted for the rows before the one it is at.
EmployImport ==
  /\ \A c, d \in Calls : call[c].row # 0 /\ call[d].row # 0 => c = d
  /\ \A c \in Calls : call[c].row # 0 =>
       /\ job.status \in {"PENDING", "PROCESSING"}
       /\ job.ok + job.failed = call[c].row - 1 /\ call[c].row <= Len(File) + 1
       /\ call[c].do \notin {"start", "row"} => call[c].row <= Len(File)
  /\ job.status = "NONE" => job.ok = 0 /\ job.failed = 0
  /\ job.status = "COMPLETED" => job.ok + job.failed = Len(File)

\* The history of an employee begins with the hire and ends with the placement.
EmployRows ==
  /\ history \in [Employees -> Seq(Employ!Events)] /\ queued \in [Employees -> Seq(Employ!Jobs)]
  /\ \A e \in Employees :
       /\ emp[e].state = "none" => history[e] = <<>> /\ e \notin patched
       /\ emp[e].state # "none" => history[e] # <<>> /\ history[e][1] = "HIRED"
       /\ emp[e].state # "none" /\ e \notin patched =>
            /\ emp[e].place = Len(history[e])
            /\ emp[e].status = "TERMINATED" <=> Employ!Occurs(history[e], "TERMINATED") > 0
  /\ \A e \in job.hired : emp[e].state # "none"

\* The grade of an employee is the last in the history, which only a promotion leaves
\* out.
EmployGraded(e) ==
  /\ \E i \in 0..Len(history[e]) :
       Employ!LastGrade(grades[e], i) /\ emp[e].grade = IF i = 0 THEN 0 ELSE grades[e][i]
  /\ grades[e][Len(history[e])] = emp[e].grade \/ history[e][Len(history[e])] = "PROMOTED"

EmployGrades ==
  /\ grades \in [Employees -> Seq(Nat)]
  /\ \A e \in Employees :
       /\ Len(grades[e]) = Len(history[e])
       /\ emp[e].state # "none" /\ e \notin patched => EmployGraded(e)

\* The audit row of e, or the jobs of its change x, are still to come.
Auditing(e)  == \E c \in Calls : call[c].do = "audit" /\ call[c].emp = e
Owing(e, x)  == \E c \in Calls : /\ call[c].do \in {"audit", "event"}
                                 /\ call[c].event = x /\ call[c].emp = e

\* One call at a time, which owes the audit row or the jobs that are missing.
EmployAlone ==
  /\ \A c, d \in Calls : call[c] # Employ!NoCall /\ call[d] # Employ!NoCall => c = d
  /\ \A e \in Employees :
       /\ Len(history[e]) = IF Auditing(e) THEN audited[e] + 1 ELSE audited[e]
       /\ \A j \in Employ!Jobs : Employ!Occurs(history[e], MadeBy(j)) =
            IF Owing(e, MadeBy(j)) THEN Employ!Occurs(queued[e], j) + 1
            ELSE Employ!Occurs(queued[e], j)
       /\ e \notin patched => Employ!Occurs(history[e], "TERMINATED") <= 1
  /\ \A c \in Calls :
       call[c].do = "write" /\ call[c].event = "TERMINATED" /\ call[c].emp \notin patched =>
         Employ!Occurs(history[call[c].emp], "TERMINATED") = 0

\* Employment: the inductive invariant.
EmployInv ==
  /\ Employ!TypeOK /\ EmployCalls /\ EmployImport /\ EmployRows /\ EmployGrades
  /\ (~disturbed => EmployAlone)

EmployCall == [do : {"idle", "number", "unique", "write", "audit", "event",
                     "start", "row", "complete", "delete"},
               emp : Employees \cup {Employ!Nobody}, number : 0..MaxNumber,
               event : Employ!Events \cup {"none"}, row : Nat]
EmployRow  == [state : {"none", "live", "deleted"}, number : 0..MaxNumber,
               status : {"ACTIVE", "TERMINATED"}, place : Nat, grade : Nat]
EmployJob  == [status : {"NONE", "PENDING", "PROCESSING", "COMPLETED"}, ok : Nat, failed : Nat,
               hired : SUBSET Employees]

LEMMA EmployIdle ==
  /\ Employ!NoCall.do = "idle" /\ Employ!NoCall.row = 0 /\ Employ!NoCall.emp = Employ!Nobody
  /\ Employ!NoCall.event = "none" /\ Employ!NoCall \in EmployCall
  /\ Employ!Nobody \notin Employees /\ MaxNumber \in Nat
  /\ Len(File) \in Nat /\ \A i \in 1..Len(File) : File[i] \in 0..MaxNumber
<1>1. MaxNumber \in Nat /\ File \in Seq(0..MaxNumber) /\ Employ!Nobody \notin Employees
  BY PeopleAssumption, Zenon DEF PeopleAssumption, Employ!Nobody
<1> QED
  BY <1>1 DEF Employ!NoCall, EmployCall

\* The types of employment, spelled out.
LEMMA EmployTypes ==
  Employ!TypeOK <=>
    /\ emp \in [Employees -> EmployRow] /\ call \in [Calls -> EmployCall] /\ job \in EmployJob
    /\ \A e \in Employees : history[e] \in Seq(Employ!Events) /\ grades[e] \in Seq(Nat) /\ queued[e] \in Seq(Employ!Jobs)
    /\ audited \in [Employees -> Nat] /\ patched \subseteq Employees /\ disturbed \in BOOLEAN
  BY DEF Employ!TypeOK, EmployRow, EmployCall, EmployJob

\* Employment: the invariant holds at the start.
LEMMA EmployInit == Employ!Init => EmployInv
<1> SUFFICES ASSUME Employ!Init PROVE EmployInv
  OBVIOUS
<1> USE EmployIdle DEF Employ!Init
<1>1. Employ!TypeOK
  <2>1. Employ!Absent \in EmployRow /\ <<>> \in Seq(Employ!Events) /\ <<>> \in Seq(Employ!Jobs)
         /\ <<>> \in Seq(Nat)
    BY DEF EmployRow, Employ!Absent
  <2>2. job \in EmployJob
    BY DEF EmployJob
  <2> QED
    BY <2>1, <2>2 DEF Employ!TypeOK, EmployRow, EmployJob, EmployCall
<1>2. EmployCalls
  BY DEF EmployCalls, Prehire
<1>3. EmployImport
  BY DEF EmployImport
<1>4. EmployRows
  <2>1. <<>> \in Seq(Employ!Events) /\ <<>> \in Seq(Employ!Jobs)
    OBVIOUS
  <2> QED
    BY <2>1 DEF EmployRows, Employ!Absent
<1>5. EmployAlone
  <2>1. Len(<<>>) = 0
    OBVIOUS
  <2> QED
    BY <2>1, OccursNone DEF EmployAlone, Auditing, Owing
<1>6. EmployGrades
  <2>1. <<>> \in Seq(Nat)
    OBVIOUS
  <2> QED
    BY <2>1 DEF EmployGrades, Employ!Absent
<1> QED
  BY <1>1, <1>2, <1>3, <1>4, <1>5, <1>6 DEF EmployInv

\* A step that leaves the history and the grades of the rows alone.
LEMMA EmployGradesStay ==
  ASSUME EmployGrades, UNCHANGED <<history, grades>>,
         \A e \in Employees : emp'[e].state # "none" /\ e \notin patched' =>
           emp[e].state # "none" /\ e \notin patched /\ emp'[e].grade = emp[e].grade
  PROVE  EmployGrades'
  BY DEF EmployGrades, EmployGraded

\* A call takes a step; no row is made but the one the call was about to insert.
LEMMA EmployCallSteps ==
  ASSUME EmployInv, NEW c \in Calls, NEW next \in EmployCall,
         call' = [call EXCEPT ![c] = next],
         \A e \in Employees : emp[e].state # "none" => emp'[e].state # "none",
         \A e \in Employees : emp[e].state = "none" /\ emp'[e].state # "none" =>
           Prehire(call[c]) /\ e = call[c].emp,
         next.do = "idle" => next = Employ!NoCall,
         next.do \in {"unique", "write", "audit", "event", "delete"} => next.emp \in Employees,
         next.do \in {"unique", "write", "audit", "event"} => next.event \in Employ!Events,
         Prehire(next) =>
           /\ next.event = "HIRED" /\ emp'[next.emp].state = "none"
           /\ \A d \in Calls \ {c} : call[d].emp # next.emp,
         next.do \in {"write", "audit", "event", "delete"} /\ ~Prehire(next) =>
           emp'[next.emp].state # "none",
         next.do \in {"start", "row"} => next.row # 0,
         next.do = "delete" => next.row = 0,
         next.emp \in Employees =>
           \/ next.emp = call[c].emp
           \/ emp[next.emp].state # "none"
           \/ \A d \in Calls \ {c} : call[d].emp # next.emp
  PROVE  EmployCalls' /\ call' \in [Calls -> EmployCall]
<1> USE EmployIdle
<1>1. /\ call \in [Calls -> EmployCall] /\ EmployCalls
      /\ call'[c] = next /\ \A d \in Calls : d # c => call'[d] = call[d]
  BY EmployTypes DEF EmployInv
<1>2. call' \in [Calls -> EmployCall]
  BY <1>1
<1>3. ASSUME NEW d \in Calls, d # c, Prehire(call[d])
      PROVE  /\ emp'[call[d].emp].state = "none" /\ call[d].emp \in Employees
             /\ next.emp # call[d].emp
  <2>1. /\ call[d].emp \in Employees /\ emp[call[d].emp].state = "none"
        /\ \A b \in Calls \ {d} : call[b].emp # call[d].emp
    BY <1>1, <1>3 DEF EmployCalls, Prehire
  <2>2. call[c].emp # call[d].emp
    BY <1>3, <2>1
  <2> QED
    BY <1>3, <2>1, <2>2
<1>4. ASSUME NEW d \in Calls, d # c, call[d].do \in {"write", "audit", "event", "delete"},
             ~Prehire(call[d])
      PROVE  emp'[call[d].emp].state # "none"
  BY <1>1, <1>4 DEF EmployCalls
<1>5. ASSUME NEW d \in Calls, Prehire(call'[d]), NEW b \in Calls \ {d}
      PROVE  call'[b].emp # call'[d].emp
  <2>1. CASE d = c
    BY <1>1, <1>5, <2>1
  <2>2. CASE d # c /\ b = c
    BY <1>1, <1>3, <1>5, <2>2
  <2>3. CASE d # c /\ b # c
    BY <1>1, <1>5, <2>3 DEF EmployCalls
  <2> QED
    BY <2>1, <2>2, <2>3
<1>6. EmployCalls'
  <2> SUFFICES ASSUME NEW d \in Calls
               PROVE  /\ call'[d].do = "idle" => call'[d] = Employ!NoCall
                      /\ call'[d].do \in {"unique", "write", "audit", "event", "delete"} => call'[d].emp \in Employees
                      /\ call'[d].do \in {"unique", "write", "audit", "event"} => call'[d].event \in Employ!Events
                      /\ Prehire(call'[d]) => call'[d].event = "HIRED" /\ emp'[call'[d].emp].state = "none"
                      /\ call'[d].do \in {"write", "audit", "event", "delete"} /\ ~Prehire(call'[d]) =>
                           emp'[call'[d].emp].state # "none"
                      /\ call'[d].do \in {"start", "row"} => call'[d].row # 0
                      /\ call'[d].do = "delete" => call'[d].row = 0
    BY <1>5 DEF EmployCalls, Prehire
  <2>1. CASE d = c
    BY <1>1, <2>1
  <2>2. CASE d # c
    <3>1. call'[d] = call[d]
      BY <1>1, <2>2
    <3>2. Prehire(call[d]) => call[d].event = "HIRED"
      BY <1>1 DEF EmployCalls
    <3> QED
      BY <1>1, <1>3, <1>4, <2>2, <3>1, <3>2 DEF EmployCalls
  <2> QED
    BY <2>1, <2>2
<1> QED
  BY <1>2, <1>6
-------------------------------------------------------------------------------
\* A step of a call that is not at a row of the import, or stays at it.
LEMMA EmployRowStays ==
  ASSUME EmployInv, NEW c \in Calls, NEW next \in EmployCall,
         call' = [call EXCEPT ![c] = next], next.row = call[c].row \/ next.row = 0,
         next.row # 0 /\ next.do \notin {"start", "row"} => next.row <= Len(File),
         job'.ok = job.ok, job'.failed = job.failed,
         job'.status = job.status
           \/ (call[c].row # 0 /\ job'.status = "PROCESSING")
           \/ (/\ call[c].row = Len(File) + 1 /\ next.row = 0 /\ job'.status = "COMPLETED")
  PROVE  EmployImport'
<1> USE EmployIdle
<1>1. /\ call \in [Calls -> EmployCall] /\ EmployImport /\ job \in EmployJob
      /\ call'[c] = next /\ \A d \in Calls : d # c => call'[d] = call[d]
  BY EmployTypes DEF EmployInv
<1>2. /\ job.ok \in Nat /\ job.failed \in Nat
      /\ \A d \in Calls : call[d].row \in Nat
  BY <1>1 DEF EmployJob, EmployCall
<1>3. \A d \in Calls : call'[d].row # 0 => call'[d].row = call[d].row
  BY <1>1
<1>4. \A d, b \in Calls : call'[d].row # 0 /\ call'[b].row # 0 => d = b
  BY <1>1, <1>3 DEF EmployImport
<1>5. ASSUME NEW d \in Calls, call'[d].row # 0
      PROVE  /\ job'.status \in {"PENDING", "PROCESSING"}
             /\ job'.ok + job'.failed = call'[d].row - 1 /\ call'[d].row <= Len(File) + 1
             /\ call'[d].do \notin {"start", "row"} => call'[d].row <= Len(File)
  <2>1. /\ call[d].row # 0 /\ job.status \in {"PENDING", "PROCESSING"}
        /\ job.ok + job.failed = call[d].row - 1 /\ call[d].row <= Len(File) + 1
        /\ call[d].do \notin {"start", "row"} => call[d].row <= Len(File)
    BY <1>1, <1>3, <1>5 DEF EmployImport
  <2>2. job'.status \in {"PENDING", "PROCESSING"}
    <3>1. CASE call[c].row = Len(File) + 1 /\ next.row = 0
      <4>1. d # c
        BY <1>1, <1>5, <3>1
      <4> QED
        BY <1>1, <1>2, <2>1, <3>1, <4>1 DEF EmployImport
    <3> QED
      BY <2>1, <3>1
  <2>3. call'[d].do \notin {"start", "row"} => call'[d].row <= Len(File)
    <3>1. CASE d = c
      BY <1>1, <1>5, <3>1
    <3>2. CASE d # c
      BY <1>1, <2>1, <3>2
    <3> QED
      BY <3>1, <3>2
  <2> QED
    BY <1>3, <1>5, <2>1, <2>2, <2>3
<1>6. job'.status = "NONE" => job'.ok = 0 /\ job'.failed = 0
  BY <1>1 DEF EmployImport
<1>7. job'.status = "COMPLETED" => job'.ok + job'.failed = Len(File)
  <2>1. CASE call[c].row = Len(File) + 1
    BY <1>1, <1>2, <2>1 DEF EmployImport
  <2> QED
    BY <1>1, <2>1 DEF EmployImport
<1> QED
  BY <1>4, <1>5, <1>6, <1>7 DEF EmployImport

\* A call returns: the import has accounted for one row more.
LEMMA EmployReturns ==
  ASSUME EmployInv, NEW c \in Calls, Employ!Return(c),
         call[c].do \in {"unique", "write", "audit", "event"}
           \/ (call[c].do = "row" /\ call[c].row <= Len(File))
           \/ call[c].do = "delete",
         \A e \in Employees : emp[e].state # "none" <=> emp'[e].state # "none",
         job'.status = job.status,
         job'.ok = job.ok \/ job'.ok = job.ok + 1,
         IF call[c].row = 0 THEN job'.ok = job.ok /\ job'.failed = job.failed
         ELSE job'.ok + job'.failed = job.ok + job.failed + 1
  PROVE  /\ EmployCalls' /\ EmployImport' /\ call' \in [Calls -> EmployCall]
         /\ \E next \in EmployCall : /\ call' = [call EXCEPT ![c] = next]
                                     /\ next.do \in {"idle", "row"} /\ next.emp \notin Employees
<1> USE EmployIdle
<1> DEFINE next == IF call[c].row = 0 THEN Employ!NoCall
                   ELSE [Employ!NoCall EXCEPT !.do = "row", !.row = call[c].row + 1]
<1>1. /\ call \in [Calls -> EmployCall] /\ EmployImport /\ EmployCalls /\ job \in EmployJob
      /\ call' = [call EXCEPT ![c] = next]
  BY EmployTypes DEF EmployInv, Employ!Return
<1>2. /\ job.ok \in Nat /\ job.failed \in Nat
      /\ \A d \in Calls : call[d].row \in Nat
  BY <1>1 DEF EmployJob, EmployCall
<1>3. /\ next \in EmployCall /\ next.emp = Employ!Nobody
      /\ next.row = IF call[c].row = 0 THEN 0 ELSE call[c].row + 1
      /\ next.do = IF call[c].row = 0 THEN "idle" ELSE "row"
      /\ next.do = "idle" => next = Employ!NoCall
  <2>1. CASE call[c].row = 0
    BY <2>1
  <2>2. CASE call[c].row # 0
    <3>1. next = [do |-> "row", emp |-> Employ!Nobody, number |-> 0, event |-> "none",
                  row |-> call[c].row + 1]
      BY <2>2 DEF Employ!NoCall
    <3>2. call[c].row + 1 \in Nat
      BY <1>2
    <3> QED
      BY <2>2, <3>1, <3>2 DEF EmployCall
  <2> QED
    BY <2>1, <2>2
<1> HIDE DEF next
<1>4. EmployCalls' /\ call' \in [Calls -> EmployCall]
  <2>1. ~Prehire(next) /\ next.row \in Nat
    BY <1>2, <1>3 DEF Prehire
  <2>2. next.do \in {"start", "row"} => next.row # 0
    BY <1>2, <1>3
  <2> QED
    BY <1>1, <1>3, <2>1, <2>2, EmployCallSteps
<1>5. EmployImport'
  <2>1. CASE call[c].row = 0
    BY <1>1, <1>3, <2>1, EmployRowStays
  <2>2. CASE call[c].row # 0
    <3>1. \A d \in Calls : d # c => call'[d] = call[d] /\ call[d].row = 0
      BY <1>1, <2>2 DEF EmployImport
    <3>2. call'[c] = next /\ call'[c].row = call[c].row + 1
      BY <1>1, <1>3, <2>2
    <3>3. /\ job.status \in {"PENDING", "PROCESSING"}
          /\ job.ok + job.failed = call[c].row - 1 /\ call[c].row <= Len(File)
      BY <1>1, <2>2 DEF EmployImport, EmployCalls
    <3>4. job'.ok + job'.failed = call[c].row
      BY <1>2, <2>2, <3>3
    <3>5. \A d, b \in Calls : call'[d].row # 0 /\ call'[b].row # 0 => d = b
      BY <3>1
    <3>6. ASSUME NEW d \in Calls, call'[d].row # 0
          PROVE  /\ job'.status \in {"PENDING", "PROCESSING"}
                 /\ job'.ok + job'.failed = call'[d].row - 1 /\ call'[d].row <= Len(File) + 1
                 /\ call'[d].do \in {"start", "row"}
      <4>1. d = c
        BY <3>1, <3>6
      <4> QED
        BY <1>2, <1>3, <2>2, <3>2, <3>3, <3>4, <4>1, SMTT(60)
    <3>7. job'.status # "NONE" /\ job'.status # "COMPLETED"
      BY <3>3
    <3> QED
      BY <3>5, <3>6, <3>7 DEF EmployImport
  <2> QED
    BY <2>1, <2>2
<1> QED
  BY <1>1, <1>3, <1>4, <1>5

\* What the one call owes before and after it takes a step.
LEMMA EmployOwes ==
  ASSUME EmployInv, NEW c \in Calls, NEW next \in EmployCall,
         call' = [call EXCEPT ![c] = next], \A d \in Calls \ {c} : call[d] = Employ!NoCall
  PROVE  /\ \A d, b \in Calls : call'[d] # Employ!NoCall /\ call'[b] # Employ!NoCall => d = b
         /\ \A e \in Employees :
              /\ Auditing(e) <=> call[c].do = "audit" /\ call[c].emp = e
              /\ Auditing(e)' <=> next.do = "audit" /\ next.emp = e
              /\ \A x \in Employ!Events :
                   /\ Owing(e, x) <=> /\ call[c].do \in {"audit", "event"}
                                      /\ call[c].event = x /\ call[c].emp = e
                   /\ Owing(e, x)' <=> /\ next.do \in {"audit", "event"}
                                       /\ next.event = x /\ next.emp = e
         /\ \A d \in Calls : call'[d].do = "write" => d = c
         /\ call'[c] = next
<1> USE EmployIdle
<1>1. /\ call \in [Calls -> EmployCall] /\ call'[c] = next
      /\ \A d \in Calls \ {c} : call'[d] = Employ!NoCall
  BY EmployTypes DEF EmployInv
<1> QED
  BY <1>1 DEF Auditing, Owing

\* Without overlaps the other calls are idle.
LEMMA EmployOneCall ==
  ASSUME EmployInv, ~disturbed, NEW c \in Calls, call[c].do # "idle"
  PROVE  EmployAlone /\ \A d \in Calls \ {c} : call[d] = Employ!NoCall
  BY EmployIdle DEF EmployInv, EmployAlone

\* A call begins.
LEMMA EmployStart ==
  ASSUME EmployInv, NEW c \in Calls, NEW next \in EmployCall, Employ!Start(c, next),
         UNCHANGED <<emp, history, grades, audited, queued, patched>>,
         next.do \in {"unique", "write", "delete"} =>
           next.row = 0 /\ job' = job /\ next.emp \in Employees,
         next.do = "unique" => next.event = "HIRED" /\ Employ!Fresh(next.emp),
         next.do = "write" => next.event \in Employ!Events \ {"HIRED"},
         next.do \in {"write", "delete"} => Employ!Live(next.emp),
         next.do = "write" /\ next.event = "TERMINATED" => emp[next.emp].status # "TERMINATED",
         next.do = "start" =>
           next.row = 1 /\ job.status = "NONE" /\ job' = [job EXCEPT !.status = "PENDING"]
             /\ next.emp \notin Employees,
         next.do \in {"unique", "write", "delete", "start"}
  PROVE  EmployInv'
<1> USE EmployIdle
<1>1. /\ call[c] = Employ!NoCall /\ call' = [call EXCEPT ![c] = next]
      /\ disturbed' = (disturbed \/ Employ!Busy)
  BY DEF Employ!Start
<1>2. /\ call \in [Calls -> EmployCall] /\ job \in EmployJob /\ EmployRows
      /\ EmployImport /\ Employ!TypeOK
  BY EmployTypes DEF EmployInv
<1>3. EmployCalls' /\ call' \in [Calls -> EmployCall]
  <2>1. Prehire(next) <=> next.do = "unique"
    BY DEF Prehire
  <2> QED
    <3>1. next.do = "unique" => emp[next.emp].state = "none" /\ next.event = "HIRED"
                                  /\ \A d \in Calls \ {c} : call[d].emp # next.emp
      BY DEF Employ!Fresh
    <3>2. next.do \in {"write", "delete"} => emp[next.emp].state # "none"
      BY DEF Employ!Live
    <3>3. next.do \in {"unique", "write", "audit", "event"} => next.event \in Employ!Events
      BY DEF Employ!Events
    <3>4. Prehire(next) =>
            /\ next.event = "HIRED" /\ emp'[next.emp].state = "none"
            /\ \A d \in Calls \ {c} : call[d].emp # next.emp
      BY <2>1, <3>1
    <3>5. next.emp \in Employees =>
            \/ next.emp = call[c].emp
            \/ emp[next.emp].state # "none"
            \/ \A d \in Calls \ {c} : call[d].emp # next.emp
      BY <3>1, <3>2
    <3>6. /\ next.do \in {"write", "audit", "event", "delete"} /\ ~Prehire(next) =>
               emp'[next.emp].state # "none"
          /\ next.do \in {"start", "row"} => next.row # 0
          /\ next.do = "delete" => next.row = 0 /\ next.do # "idle"
          /\ next.do = "idle" => next = Employ!NoCall
          /\ next.do \in {"unique", "write", "audit", "event", "delete"} => next.emp \in Employees
      BY <3>2
    <3>7. /\ \A e \in Employees : emp[e].state # "none" => emp'[e].state # "none"
          /\ \A e \in Employees : emp[e].state = "none" /\ emp'[e].state # "none" =>
               Prehire(call[c]) /\ e = call[c].emp
      OBVIOUS
    <3> QED
      BY <1>1, <3>3, <3>4, <3>5, <3>6, <3>7, EmployCallSteps
<1>4. EmployImport' /\ job' \in EmployJob
  <2>1. CASE next.do # "start"
    BY <1>1, <1>2, <2>1, EmployRowStays
  <2>2. CASE next.do = "start"
    <3>1. /\ job'.status = "PENDING" /\ job'.ok = 0 /\ job'.failed = 0 /\ job' \in EmployJob
          /\ next.row = 1
      BY <1>2, <2>2 DEF EmployJob, EmployImport
    <3>2. \A d \in Calls : d # c => call'[d] = call[d] /\ call[d].row = 0
      BY <1>1, <1>2, <2>2 DEF EmployImport
    <3>3. call'[c] = next
      BY <1>1, <1>2
    <3> QED
      BY <2>2, <3>1, <3>2, <3>3 DEF EmployImport
  <2> QED
    BY <2>1, <2>2
<1>5. EmployRows' /\ Employ!TypeOK'
  <2>1. job'.hired = job.hired
    BY <1>2 DEF EmployJob
  <2>2. disturbed' \in BOOLEAN
    BY <1>1, Zenon DEF Employ!Busy
  <2>3. EmployRows'
    BY <1>2, <2>1 DEF EmployRows
  <2>4. /\ emp' \in [Employees -> EmployRow] /\ audited' \in [Employees -> Nat]
        /\ patched' \subseteq Employees
        /\ \A e \in Employees : history'[e] \in Seq(Employ!Events) /\ grades'[e] \in Seq(Nat) /\ queued'[e] \in Seq(Employ!Jobs)
    BY <1>2, EmployTypes
  <2> QED
    BY <1>3, <1>4, <2>2, <2>3, <2>4 DEF Employ!TypeOK, EmployRow, EmployCall, EmployJob
<1>6. ~disturbed' => EmployAlone'
  <2> SUFFICES ASSUME ~disturbed' PROVE EmployAlone'
    OBVIOUS
  <2>1. /\ ~disturbed /\ EmployAlone
        /\ \A d \in Calls : call[d] = Employ!NoCall
    BY <1>1 DEF Employ!Busy, EmployInv
  <2>2. /\ \A d, b \in Calls : call'[d] # Employ!NoCall /\ call'[b] # Employ!NoCall => d = b
        /\ \A e \in Employees : ~Auditing(e) /\ ~Auditing(e)'
        /\ \A e \in Employees, x \in Employ!Events : ~Owing(e, x) /\ ~Owing(e, x)'
        /\ \A d \in Calls : call'[d].do = "write" => d = c
        /\ call'[c] = next
    <3>1. /\ next.do \notin {"audit", "event"} /\ call[c].do \notin {"audit", "event"}
          /\ \A d \in Calls \ {c} : call[d] = Employ!NoCall
      BY <1>1, <2>1
    <3> QED
      BY <1>1, <3>1, EmployOwes
  <2>3. next.do = "write" /\ next.event = "TERMINATED" /\ next.emp \notin patched =>
          Employ!Occurs(history[next.emp], "TERMINATED") = 0
    <3> SUFFICES ASSUME next.do = "write", next.event = "TERMINATED", next.emp \notin patched
                 PROVE  Employ!Occurs(history[next.emp], "TERMINATED") = 0
      OBVIOUS
    <3>1. ~(Employ!Occurs(history[next.emp], "TERMINATED") > 0)
      BY <1>2 DEF EmployRows, Employ!Live
    <3>2. Employ!Occurs(history[next.emp], "TERMINATED") \in Nat
      BY <1>2, OccursType DEF EmployRows
    <3> QED
      BY <3>1, <3>2
  <2> QED
    BY <2>1, <2>2, <2>3, MadeByEvent DEF EmployAlone
<1>7. EmployGrades'
  BY EmployGradesStay DEF EmployInv
<1> QED
  BY <1>3, <1>4, <1>5, <1>6, <1>7 DEF EmployInv
\* A step of a call that changes no history and queues nothing.
LEMMA EmployQuiet ==
  ASSUME EmployInv, NEW c \in Calls, NEW next \in EmployCall,
         call[c].do # "idle", call' = [call EXCEPT ![c] = next],
         EmployCalls', EmployImport', call' \in [Calls -> EmployCall],
         job' \in EmployJob, job'.hired = job.hired,
         UNCHANGED <<history, grades, audited, queued, patched>>,
         emp' \in [Employees -> EmployRow],
         \A e \in Employees : /\ emp'[e].state = "none" <=> emp[e].state = "none"
                              /\ emp'[e].place = emp[e].place /\ emp'[e].status = emp[e].status
                              /\ emp'[e].grade = emp[e].grade,
         next.do \notin {"audit", "event"}, next.do = "write" => next.event # "TERMINATED",
         disturbed' = TRUE \/ (disturbed' = disturbed /\ call[c].do \notin {"audit", "event"})
  PROVE  EmployInv'
<1> USE EmployIdle
<1>1. EmployRows /\ Employ!TypeOK /\ job \in EmployJob
  BY EmployTypes DEF EmployInv
<1>2. EmployRows'
  <2>1. job.hired \subseteq Employees
    BY <1>1 DEF EmployJob
  <2> QED
    BY <1>1, <2>1 DEF EmployRows
<1>3. Employ!TypeOK'
  <2>1. disturbed' \in BOOLEAN
    BY <1>1, EmployTypes
  <2>2. /\ audited' \in [Employees -> Nat] /\ patched' \subseteq Employees
        /\ \A e \in Employees : history'[e] \in Seq(Employ!Events) /\ grades'[e] \in Seq(Nat) /\ queued'[e] \in Seq(Employ!Jobs)
    BY <1>1, EmployTypes
  <2> QED
    BY <2>1, <2>2 DEF Employ!TypeOK, EmployRow, EmployCall, EmployJob
<1>4. ~disturbed' => EmployAlone'
  <2> SUFFICES ASSUME ~disturbed' PROVE EmployAlone'
    OBVIOUS
  <2>1. ~disturbed /\ call[c].do \notin {"audit", "event"}
    OBVIOUS
  <2>2. EmployAlone /\ \A d \in Calls \ {c} : call[d] = Employ!NoCall
    BY <2>1, EmployOneCall
  <2>3. /\ \A d, b \in Calls : call'[d] # Employ!NoCall /\ call'[b] # Employ!NoCall => d = b
        /\ \A e \in Employees : ~Auditing(e) /\ ~Auditing(e)'
        /\ \A e \in Employees, x \in Employ!Events : ~Owing(e, x) /\ ~Owing(e, x)'
        /\ \A d \in Calls : call'[d].do = "write" => d = c
        /\ call'[c] = next
    BY <2>1, <2>2, EmployOwes
  <2> QED
    BY <2>2, <2>3, MadeByEvent DEF EmployAlone
<1>5. EmployGrades'
  BY EmployGradesStay DEF EmployInv
<1> QED
  BY <1>2, <1>3, <1>4, <1>5 DEF EmployInv

\* A call returns without having changed a history.
LEMMA EmployQuietReturn ==
  ASSUME EmployInv, NEW c \in Calls, Employ!Return(c),
         call[c].do \in {"unique", "write", "audit", "event"}
           \/ (call[c].do = "row" /\ call[c].row <= Len(File))
           \/ call[c].do = "delete",
         (job' = job /\ call[c].row = 0) \/ Employ!Fail(c),
         UNCHANGED <<history, grades, audited, queued, patched>>,
         emp' \in [Employees -> EmployRow],
         \A e \in Employees : /\ emp'[e].state = "none" <=> emp[e].state = "none"
                              /\ emp'[e].place = emp[e].place /\ emp'[e].status = emp[e].status
                              /\ emp'[e].grade = emp[e].grade,
         disturbed' = TRUE \/ (disturbed' = disturbed /\ call[c].do \notin {"audit", "event"})
  PROVE  EmployInv'
<1> USE EmployIdle
<1>1. job \in EmployJob
  BY EmployTypes DEF EmployInv
<1>2. /\ job' \in EmployJob /\ job'.hired = job.hired /\ job'.status = job.status
      /\ job'.ok = job.ok
      /\ job'.failed = IF call[c].row = 0 THEN job.failed ELSE job.failed + 1
  <2>1. CASE call[c].row = 0
    BY <1>1, <2>1 DEF Employ!Fail
  <2>2. CASE call[c].row # 0
    <3>1. job' = [job EXCEPT !.failed = @ + 1]
      BY <2>2 DEF Employ!Fail
    <3> QED
      BY <1>1, <2>2, <3>1 DEF EmployJob
  <2> QED
    BY <2>1, <2>2
<1>3. IF call[c].row = 0 THEN job'.ok = job.ok /\ job'.failed = job.failed
      ELSE job'.ok + job'.failed = job.ok + job.failed + 1
  BY <1>1, <1>2 DEF EmployJob
<1>4. \A e \in Employees : emp[e].state # "none" <=> emp'[e].state # "none"
  OBVIOUS
<1>5. /\ EmployCalls' /\ EmployImport' /\ call' \in [Calls -> EmployCall]
      /\ \E next \in EmployCall : /\ call' = [call EXCEPT ![c] = next]
                                  /\ next.do \in {"idle", "row"} /\ next.emp \notin Employees
  BY <1>2, <1>3, <1>4, EmployReturns
<1>6. PICK next \in EmployCall : /\ call' = [call EXCEPT ![c] = next]
                                 /\ next.do \in {"idle", "row"} /\ next.emp \notin Employees
  BY <1>5
<1>7. call[c].do # "idle" /\ next.do \notin {"audit", "event"} /\ next.do # "write"
  BY <1>6
<1> QED
  BY <1>2, <1>5, <1>6, <1>7, EmployQuiet

-------------------------------------------------------------------------------
\* One more row of a history.
LEMMA HistoryGrows ==
  ASSUME NEW e \in Employees, NEW event \in Employ!Events, history[e] \in Seq(Employ!Events),
         history'[e] = Append(history[e], event)
  PROVE  /\ Len(history[e]) \in Nat /\ Len(history'[e]) = Len(history[e]) + 1
         /\ history'[e] # <<>> /\ history'[e][Len(history[e]) + 1] = event
         /\ history[e] # <<>> => history'[e][1] = history[e][1]
         /\ history[e] = <<>> => Len(history[e]) = 0
  OBVIOUS

\* The insertion, and the writes of a lifecycle change: the row and its history.
LEMMA EmployWrites ==
  ASSUME EmployInv, NEW c \in Calls, NEW e \in Employees, e = call[c].emp,
         call[c].do = "write",
         call' = [call EXCEPT ![c].do = "audit"],
         history' = [history EXCEPT ![e] = Append(@, call[c].event)],
         NEW grade \in Nat, grades' = [grades EXCEPT ![e] = Append(@, grade)],
         emp'[e].grade = IF call[c].event = "PROMOTED" /\ grade = 0 THEN emp[e].grade ELSE grade,
         call[c].event \in {"TRANSFERRED", "TERMINATED"} => grade = emp[e].grade,
         UNCHANGED <<audited, queued, job, patched, disturbed>>,
         emp' \in [Employees -> EmployRow], emp'[e].state # "none",
         \A x \in Employees : x # e => emp'[x] = emp[x],
         emp[e].state = "none" <=> call[c].event = "HIRED",
         emp'[e].place = Len(history[e]) + 1,
         emp'[e].status = IF call[c].event = "TERMINATED" THEN "TERMINATED"
                          ELSE IF call[c].event = "HIRED" THEN "ACTIVE" ELSE emp[e].status
  PROVE  EmployInv'
<1> USE EmployIdle
<1> DEFINE event == call[c].event
           next == [call[c] EXCEPT !.do = "audit"]
<1>1. /\ EmployRows /\ Employ!TypeOK /\ EmployCalls /\ EmployImport /\ job \in EmployJob
      /\ call \in [Calls -> EmployCall] /\ event \in Employ!Events /\ history[e] \in Seq(Employ!Events)
  BY EmployTypes DEF EmployInv, EmployRows, EmployCalls
<1>2. /\ next \in EmployCall /\ next.do = "audit" /\ next.emp = e /\ next.event = event
      /\ next.row = call[c].row /\ call' = [call EXCEPT ![c] = next]
  BY <1>1 DEF EmployCall
<1> HIDE DEF next
<1>3. EmployCalls' /\ call' \in [Calls -> EmployCall]
  <2>1. ~Prehire(next) /\ next.do \notin {"idle", "start", "row", "delete"}
    BY <1>2 DEF Prehire
  <2>2. \A x \in Employees : emp[x].state # "none" => emp'[x].state # "none"
    OBVIOUS
  <2>3. \A x \in Employees : emp[x].state = "none" /\ emp'[x].state # "none" =>
          Prehire(call[c]) /\ x = call[c].emp
    BY DEF Prehire
  <2>4. /\ next.do = "idle" => next = Employ!NoCall
        /\ next.do \in {"unique", "write", "audit", "event", "delete"} => next.emp \in Employees
        /\ next.do \in {"unique", "write", "audit", "event"} => next.event \in Employ!Events
        /\ next.do \in {"write", "audit", "event", "delete"} /\ ~Prehire(next) =>
             emp'[next.emp].state # "none"
        /\ next.do \in {"start", "row"} => next.row # 0
        /\ next.do = "delete" => next.row = 0
    BY <1>1, <1>2, <2>1
  <2>5. Prehire(next) =>
          /\ next.event = "HIRED" /\ emp'[next.emp].state = "none"
          /\ \A d \in Calls \ {c} : call[d].emp # next.emp
    BY <2>1
  <2>6. next.emp \in Employees =>
          \/ next.emp = call[c].emp
          \/ emp[next.emp].state # "none"
          \/ \A d \in Calls \ {c} : call[d].emp # next.emp
    BY <1>2
  <2>7. call' = [call EXCEPT ![c] = next]
    BY <1>2
  <2> QED
    BY <1>2, <2>2, <2>3, <2>4, <2>5, <2>6, <2>7, EmployCallSteps
<1>4. EmployImport'
  <2>1. next.row # 0 => next.row <= Len(File)
    BY <1>1, <1>2 DEF EmployImport
  <2> QED
    BY <1>2, <2>1, EmployRowStays
<1>5. /\ history'[e] = Append(history[e], event) /\ history' \in [Employees -> Seq(Employ!Events)]
      /\ \A x \in Employees : x # e => history'[x] = history[x]
  BY <1>1 DEF EmployRows
<1>6. /\ Len(history[e]) \in Nat /\ Len(history'[e]) = Len(history[e]) + 1
      /\ history'[e] # <<>> /\ history'[e][Len(history[e]) + 1] = event
      /\ history[e] # <<>> => history'[e][1] = history[e][1]
      /\ history[e] = <<>> => Len(history[e]) = 0
  BY <1>1, <1>5, HistoryGrows
<1>7. \A x : /\ Employ!Occurs(history[e], x) \in Nat
             /\ Employ!Occurs(history'[e], x) = IF event = x THEN Employ!Occurs(history[e], x) + 1
                                                ELSE Employ!Occurs(history[e], x)
  BY <1>1, <1>5, OccursAppend
<1> HIDE DEF event
<1>8. emp[e].state = "none" =>
        /\ event = "HIRED" /\ history[e] = <<>> /\ Employ!Occurs(history[e], "TERMINATED") = 0
        /\ e \notin patched
  BY <1>1, OccursNone, SMTT(60) DEF EmployRows, event
<1>9. EmployRows'
  <2>1. history'[e][1] = "HIRED"
    BY <1>1, <1>6, <1>8 DEF EmployRows
  <2>2. e \notin patched =>
          (emp'[e].status = "TERMINATED" <=> Employ!Occurs(history'[e], "TERMINATED") > 0)
    <3>1. CASE emp[e].state = "none"
      BY <1>7, <1>8, <3>1 DEF event
    <3>2. CASE emp[e].state # "none"
      <4>1. e \notin patched =>
              (emp[e].status = "TERMINATED" <=> Employ!Occurs(history[e], "TERMINATED") > 0)
        BY <1>1, <3>2 DEF EmployRows
      <4> QED
        BY <1>7, <3>2, <4>1 DEF event
    <3> QED
      BY <3>1, <3>2
  <2>3. emp'[e].place = Len(history'[e]) /\ job.hired \subseteq Employees
    BY <1>1, <1>6 DEF EmployJob
  <2>4. ASSUME NEW x \in Employees
        PROVE  /\ emp'[x].state = "none" => history'[x] = <<>> /\ x \notin patched
               /\ emp'[x].state # "none" => history'[x] # <<>> /\ history'[x][1] = "HIRED"
               /\ emp'[x].state # "none" /\ x \notin patched =>
                    /\ emp'[x].place = Len(history'[x])
                    /\ emp'[x].status = "TERMINATED" <=> Employ!Occurs(history'[x], "TERMINATED") > 0
    <3>1. CASE x = e
      <4>1. /\ emp'[e].state # "none" /\ history'[e] # <<>> /\ history'[e][1] = "HIRED"
            /\ emp'[e].place = Len(history'[e])
        BY <1>6, <2>1, <2>3
      <4> QED
        BY <2>2, <3>1, <4>1, Zenon
    <3>2. CASE x # e
      <4>1. emp'[x] = emp[x] /\ history'[x] = history[x]
        BY <1>5, <3>2
      <4>2. /\ emp[x].state = "none" => history[x] = <<>> /\ x \notin patched
            /\ emp[x].state # "none" => history[x] # <<>> /\ history[x][1] = "HIRED"
            /\ emp[x].state # "none" /\ x \notin patched =>
                 /\ emp[x].place = Len(history[x])
                 /\ emp[x].status = "TERMINATED" <=> Employ!Occurs(history[x], "TERMINATED") > 0
        BY <1>1 DEF EmployRows
      <4> QED
        BY <4>1, <4>2
    <3> QED
      BY <3>1, <3>2
  <2>5. \A x \in job.hired : emp'[x].state # "none"
    BY <1>1, <2>3 DEF EmployRows
  <2>6. queued' \in [Employees -> Seq(Employ!Jobs)]
    BY <1>1 DEF EmployRows
  <2> QED
    BY <1>5, <2>4, <2>5, <2>6 DEF EmployRows
<1>10. Employ!TypeOK'
  <2>1. /\ audited' \in [Employees -> Nat] /\ patched' \subseteq Employees /\ disturbed' \in BOOLEAN
        /\ \A x \in Employees : history'[x] \in Seq(Employ!Events) /\ grades'[x] \in Seq(Nat) /\ queued'[x] \in Seq(Employ!Jobs)
        /\ job' \in EmployJob
    BY <1>1, <1>5, EmployTypes
  <2> QED
    BY <1>3, <2>1 DEF Employ!TypeOK, EmployRow, EmployCall, EmployJob
<1>11. ~disturbed' => EmployAlone'
  <2> SUFFICES ASSUME ~disturbed PROVE EmployAlone'
    OBVIOUS
  <2>1. EmployAlone /\ \A d \in Calls \ {c} : call[d] = Employ!NoCall
    BY EmployOneCall
  <2>2. /\ \A d, b \in Calls : call'[d] # Employ!NoCall /\ call'[b] # Employ!NoCall => d = b
        /\ \A x \in Employees : ~Auditing(x) /\ (Auditing(x)' <=> x = e)
        /\ \A x \in Employees, y \in Employ!Events : ~Owing(x, y) /\ (Owing(x, y)' <=> event = y /\ x = e)
        /\ \A d \in Calls : call'[d].do = "write" => d = c
        /\ call'[c] = next
    <3>1. /\ \A d, b \in Calls : call'[d] # Employ!NoCall /\ call'[b] # Employ!NoCall => d = b
          /\ \A x \in Employees :
               /\ Auditing(x) <=> call[c].do = "audit" /\ call[c].emp = x
               /\ Auditing(x)' <=> next.do = "audit" /\ next.emp = x
               /\ \A y \in Employ!Events :
                    /\ Owing(x, y) <=> /\ call[c].do \in {"audit", "event"}
                                       /\ call[c].event = y /\ call[c].emp = x
                    /\ Owing(x, y)' <=> /\ next.do \in {"audit", "event"}
                                        /\ next.event = y /\ next.emp = x
          /\ \A d \in Calls : call'[d].do = "write" => d = c
          /\ call'[c] = next
      BY <1>2, <2>1, EmployOwes, ZenonT(60)
    <3> QED
      BY <1>2, <3>1
  <2>3. \A d \in Calls : call'[d].do # "write"
    BY <1>2, <2>2
  <2>4. e \notin patched => Employ!Occurs(history'[e], "TERMINATED") <= 1
    BY <1>7, <2>1 DEF EmployAlone, event
  <2>5. ASSUME NEW x \in Employees
        PROVE  /\ Len(history'[x]) = IF Auditing(x)' THEN audited'[x] + 1 ELSE audited'[x]
               /\ \A j \in Employ!Jobs : Employ!Occurs(history'[x], MadeBy(j)) =
                    IF Owing(x, MadeBy(j))' THEN Employ!Occurs(queued'[x], j) + 1
                    ELSE Employ!Occurs(queued'[x], j)
               /\ x \notin patched' => Employ!Occurs(history'[x], "TERMINATED") <= 1
    <3>1. /\ Len(history[x]) = audited[x]
          /\ \A j \in Employ!Jobs :
               Employ!Occurs(history[x], MadeBy(j)) = Employ!Occurs(queued[x], j)
          /\ x \notin patched => Employ!Occurs(history[x], "TERMINATED") <= 1
      BY <2>1, <2>2, MadeByEvent DEF EmployAlone
    <3>2. CASE x = e
      BY <1>6, <1>7, <2>2, <2>4, <3>1, <3>2, MadeByEvent
    <3>3. CASE x # e
      BY <1>5, <2>2, <3>1, <3>3, MadeByEvent
    <3> QED
      BY <3>2, <3>3
  <2> QED
    BY <2>2, <2>3, <2>5 DEF EmployAlone
<1>12. EmployGrades'
  <2>1. /\ EmployGrades /\ grades[e] \in Seq(Nat) /\ Len(grades[e]) = Len(history[e])
        /\ grades'[e] = Append(grades[e], grade) /\ grades' \in [Employees -> Seq(Nat)]
        /\ \A x \in Employees : x # e => grades'[x] = grades[x]
    BY DEF EmployInv, EmployGrades
  <2>2. Len(grades'[e]) = Len(history'[e])
    BY <1>6, <2>1
  <2>3. ASSUME e \notin patched PROVE EmployGraded(e)'
    <3> DEFINE n == Len(history[e])
    <3>1. /\ n \in Nat /\ Len(history'[e]) = n + 1 /\ history'[e][n + 1] = event
          /\ grades'[e][n + 1] = grade
          /\ grade # 0 => Employ!LastGrade(grades'[e], n + 1)
          /\ grade = 0 => \A i \in 0..n : Employ!LastGrade(grades[e], i) =>
               Employ!LastGrade(grades'[e], i) /\ (i # 0 => grades'[e][i] = grades[e][i])
      BY <1>6, <2>1, LastGradeAppend
    <3> HIDE DEF n
    <3>2. CASE grade # 0
      <4>1. emp'[e].grade = grade /\ n + 1 \in 0..n + 1 /\ n + 1 # 0
        BY <3>1, <3>2
      <4> QED
        BY <3>1, <3>2, <4>1 DEF EmployGraded
    <3>3. CASE grade = 0 /\ emp[e].state = "none"
      <4>1. emp'[e].grade = 0 /\ n = 0 /\ grades[e] = <<>>
        <5>1. event = "HIRED" /\ history[e] = <<>> /\ Len(history[e]) = 0
          BY <1>6, <1>8, <3>3
        <5> QED
          BY <2>1, <3>3, <5>1 DEF n, event
      <4>2. Employ!LastGrade(grades[e], 0) /\ 0 \in 0..n /\ 0 \in 0..n + 1
        BY <4>1 DEF Employ!LastGrade
      <4>3. Employ!LastGrade(grades'[e], 0)
        BY <3>1, <3>3, <4>2
      <4> QED
        BY <3>1, <3>3, <4>1, <4>2, <4>3 DEF EmployGraded
    <3>4. CASE grade = 0 /\ emp[e].state # "none"
      <4>1. /\ emp'[e].grade = emp[e].grade
            /\ emp'[e].grade = 0 \/ event = "PROMOTED"
        BY <1>1, <3>4 DEF event, Employ!Events
      <4>2. EmployGraded(e)
        BY <2>1, <2>3, <3>4 DEF EmployGrades
      <4>3. PICK i \in 0..n : /\ Employ!LastGrade(grades[e], i)
                              /\ emp[e].grade = IF i = 0 THEN 0 ELSE grades[e][i]
        BY <4>2 DEF EmployGraded, n
      <4>4. /\ i \in 0..n + 1 /\ Employ!LastGrade(grades'[e], i)
            /\ emp'[e].grade = IF i = 0 THEN 0 ELSE grades'[e][i]
        <5>1. Employ!LastGrade(grades'[e], i) /\ (i # 0 => grades'[e][i] = grades[e][i])
          BY <3>1, <3>4, <4>3, Zenon
        <5>2. n \in Nat => i \in 0..n + 1
          OBVIOUS
        <5> QED
          BY <3>1, <4>1, <4>3, <5>1, <5>2, Zenon
      <4> QED
        BY <3>1, <3>4, <4>1, <4>4 DEF EmployGraded
    <3> QED
      BY <3>2, <3>3, <3>4
  <2>4. ASSUME NEW x \in Employees, x # e
        PROVE  /\ Len(grades'[x]) = Len(history'[x])
               /\ emp'[x].state # "none" /\ x \notin patched => EmployGraded(x)'
    <3>1. emp'[x] = emp[x] /\ history'[x] = history[x] /\ grades'[x] = grades[x]
      BY <1>5, <2>1, <2>4
    <3>2. /\ Len(grades[x]) = Len(history[x])
          /\ emp[x].state # "none" /\ x \notin patched => EmployGraded(x)
      BY <2>1 DEF EmployGrades
    <3>3. EmployGraded(x) => EmployGraded(x)'
      BY <3>1, ZenonT(60) DEF EmployGraded
    <3> QED
      BY <3>1, <3>2, <3>3, Zenon
  <2> QED
    BY <2>1, <2>2, <2>3, <2>4 DEF EmployGrades
<1> QED
  BY <1>3, <1>4, <1>9, <1>10, <1>11, <1>12 DEF EmployInv
\* The audit row of a change.
LEMMA EmployAudit == ASSUME EmployInv, NEW c \in Calls, Employ!Audit(c) PROVE EmployInv'
<1> USE EmployIdle
<1> DEFINE e == call[c].emp
           next == [call[c] EXCEPT !.do = "event"]
<1>1. /\ EmployRows /\ Employ!TypeOK /\ EmployCalls /\ EmployImport /\ job \in EmployJob
      /\ call \in [Calls -> EmployCall] /\ audited \in [Employees -> Nat]
  BY EmployTypes DEF EmployInv
<1>2. /\ call[c].do = "audit" /\ audited' = [audited EXCEPT ![e] = @ + 1]
      /\ call' = [call EXCEPT ![c].do = "event"]
      /\ UNCHANGED <<emp, history, grades, queued, job, patched, disturbed>>
  BY DEF Employ!Audit, Employ!At, Employ!Goto, Employ!rows
<1>3. /\ next \in EmployCall /\ next.do = "event" /\ next.emp = e /\ next.event = call[c].event
      /\ next.row = call[c].row /\ call' = [call EXCEPT ![c] = next]
  BY <1>1, <1>2 DEF EmployCall
<1>4. e \in Employees /\ emp[e].state # "none" /\ call[c].event \in Employ!Events
  BY <1>1, <1>2 DEF EmployCalls, Prehire
<1> HIDE DEF next
<1>5. EmployCalls' /\ call' \in [Calls -> EmployCall]
  <2>1. ~Prehire(next) /\ emp' = emp
    BY <1>2, <1>3 DEF Prehire
  <2>2. next.emp = call[c].emp /\ call' = [call EXCEPT ![c] = next]
    BY <1>3
  <2> QED
    BY <1>3, <1>4, <2>1, <2>2, EmployCallSteps
<1>6. EmployImport'
  <2>1. next.row # 0 => next.row <= Len(File)
    BY <1>1, <1>2, <1>3 DEF EmployImport
  <2> QED
    BY <1>2, <1>3, <2>1, EmployRowStays
<1>7. EmployRows'
  BY <1>1, <1>2 DEF EmployRows
<1>8. Employ!TypeOK'
  <2>1. /\ audited' \in [Employees -> Nat] /\ emp' \in [Employees -> EmployRow]
        /\ patched' \subseteq Employees /\ disturbed' \in BOOLEAN
        /\ \A x \in Employees : history'[x] \in Seq(Employ!Events) /\ grades'[x] \in Seq(Nat) /\ queued'[x] \in Seq(Employ!Jobs)
        /\ job' \in EmployJob
    <3>1. \A x \in Employees : history[x] \in Seq(Employ!Events) /\ grades[x] \in Seq(Nat) /\ queued[x] \in Seq(Employ!Jobs)
      BY <1>1, EmployTypes
    <3>2. emp \in [Employees -> EmployRow] /\ patched \subseteq Employees /\ disturbed \in BOOLEAN
      BY <1>1, EmployTypes
    <3>3. audited' \in [Employees -> Nat]
      BY <1>1, <1>2, <1>4
    <3> QED
      BY <1>1, <1>2, <3>1, <3>2, <3>3
  <2> QED
    BY <1>5, <2>1 DEF Employ!TypeOK, EmployRow, EmployCall, EmployJob
<1>9. ~disturbed' => EmployAlone'
  <2> SUFFICES ASSUME ~disturbed PROVE EmployAlone'
    BY <1>2
  <2>1. EmployAlone /\ \A d \in Calls \ {c} : call[d] = Employ!NoCall
    BY <1>2, EmployOneCall
  <2>2. /\ \A d, b \in Calls : call'[d] # Employ!NoCall /\ call'[b] # Employ!NoCall => d = b
        /\ \A x \in Employees :
               /\ Auditing(x) <=> call[c].do = "audit" /\ call[c].emp = x
               /\ Auditing(x)' <=> next.do = "audit" /\ next.emp = x
               /\ \A y \in Employ!Events :
                    /\ Owing(x, y) <=> /\ call[c].do \in {"audit", "event"}
                                       /\ call[c].event = y /\ call[c].emp = x
                    /\ Owing(x, y)' <=> /\ next.do \in {"audit", "event"}
                                        /\ next.event = y /\ next.emp = x
        /\ \A d \in Calls : call'[d].do = "write" => d = c
        /\ call'[c] = next
    BY <1>3, <2>1, EmployOwes
  <2>3. \A d \in Calls : call'[d].do # "write"
    BY <1>3, <2>2
  <2>4. ASSUME NEW x \in Employees
        PROVE  /\ Len(history[x]) = IF Auditing(x)' THEN audited'[x] + 1 ELSE audited'[x]
               /\ \A y \in Employ!Events : Owing(x, y)' <=> Owing(x, y)
    <3>1. Len(history[x]) = IF Auditing(x) THEN audited[x] + 1 ELSE audited[x]
      BY <2>1 DEF EmployAlone
    <3>2. audited'[x] = IF x = e THEN audited[x] + 1 ELSE audited[x]
      BY <1>1, <1>2
    <3> HIDE DEF e
    <3>3. (Auditing(x) <=> x = e) /\ ~Auditing(x)'
      BY <1>2, <1>3, <2>2 DEF e
    <3>4. \A y \in Employ!Events : Owing(x, y)' <=> Owing(x, y)
      BY <1>2, <1>3, <2>2 DEF e
    <3> QED
      BY <3>1, <3>2, <3>3, <3>4
  <2> QED
    BY <1>2, <2>1, <2>2, <2>3, <2>4, MadeByEvent DEF EmployAlone
<1>10. EmployGrades'
  BY <1>2, EmployGradesStay DEF EmployInv
<1> QED
  BY <1>5, <1>6, <1>7, <1>8, <1>9, <1>10 DEF EmployInv

\* The event of a change, and the return of its call.
LEMMA EmployEmit == ASSUME EmployInv, NEW c \in Calls, Employ!Emit(c) PROVE EmployInv'
<1> USE EmployIdle
<1> DEFINE e == call[c].emp
           event == call[c].event
<1>1. /\ EmployRows /\ Employ!TypeOK /\ EmployCalls /\ job \in EmployJob
      /\ call \in [Calls -> EmployCall]
  BY EmployTypes DEF EmployInv
<1>2. /\ call[c].do = "event" /\ Employ!Return(c)
      /\ queued' = [queued EXCEPT ![e] = @ \o Employ!JobsFor(event)]
      /\ job' = IF call[c].row = 0 THEN job
                ELSE [job EXCEPT !.ok = @ + 1, !.hired = @ \cup {e}]
      /\ UNCHANGED <<emp, history, grades, audited, patched, disturbed>>
  BY DEF Employ!Emit, Employ!At, Employ!rows
<1>3. e \in Employees /\ emp[e].state # "none" /\ event \in Employ!Events
  BY <1>1, <1>2 DEF EmployCalls, Prehire
<1>4. /\ job' \in EmployJob /\ job'.status = job.status /\ job'.failed = job.failed
      /\ job'.ok = IF call[c].row = 0 THEN job.ok ELSE job.ok + 1
      /\ job'.hired \subseteq job.hired \cup {e}
  <2>1. CASE call[c].row = 0
    BY <1>1, <1>2, <2>1
  <2>2. CASE call[c].row # 0
    <3> HIDE DEF e
    <3> DEFINE more == job.hired \cup {e}
    <3>1. job' = [job EXCEPT !.ok = job.ok + 1, !.hired = more]
      BY <1>2, <2>2
    <3>2. more \in SUBSET Employees /\ job.ok + 1 \in Nat
      BY <1>1, <1>3 DEF EmployJob
    <3> HIDE DEF more
    <3>3. /\ job' \in EmployJob /\ job'.status = job.status /\ job'.failed = job.failed
          /\ job'.ok = job.ok + 1 /\ job'.hired = more
      BY <1>1, <3>1, <3>2 DEF EmployJob
    <3> QED
      BY <2>2, <3>3 DEF more
  <2> QED
    BY <2>1, <2>2
<1>5. /\ queued[e] \in Seq(Employ!Jobs) /\ queued' \in [Employees -> Seq(Employ!Jobs)]
      /\ \A j \in Employ!Jobs : Employ!Occurs(queued'[e], j) =
           IF event = MadeBy(j) THEN Employ!Occurs(queued[e], j) + 1 ELSE Employ!Occurs(queued[e], j)
      /\ \A x \in Employees : x # e => queued'[x] = queued[x]
  <2> HIDE DEF e, event
  <2>1. queued[e] \in Seq(Employ!Jobs)
    BY <1>1, <1>3 DEF EmployRows
  <2> DEFINE s == queued[e] \o Employ!JobsFor(event)
  <2>2. /\ s \in Seq(Employ!Jobs)
        /\ \A j \in Employ!Jobs : Employ!Occurs(s, j) =
             IF event = MadeBy(j) THEN Employ!Occurs(queued[e], j) + 1 ELSE Employ!Occurs(queued[e], j)
    BY <1>3, <2>1, OccursQueued
  <2>3. queued' = [queued EXCEPT ![e] = s]
    BY <1>2
  <2> HIDE DEF s
  <2> QED
    BY <1>1, <1>3, <2>1, <2>2, <2>3 DEF EmployRows
<1>6. /\ EmployCalls' /\ EmployImport' /\ call' \in [Calls -> EmployCall]
      /\ \E next \in EmployCall : /\ call' = [call EXCEPT ![c] = next]
                                  /\ next.do \in {"idle", "row"} /\ next.emp \notin Employees
  <2>1. IF call[c].row = 0 THEN job'.ok = job.ok /\ job'.failed = job.failed
        ELSE job'.ok + job'.failed = job.ok + job.failed + 1
    BY <1>1, <1>4 DEF EmployJob
  <2>2. job'.ok = job.ok \/ job'.ok = job.ok + 1
    BY <1>4
  <2>3. \A x \in Employees : emp[x].state # "none" <=> emp'[x].state # "none"
    BY <1>2
  <2>4. call[c].do \in {"unique", "write", "audit", "event"} /\ Employ!Return(c) /\ job'.status = job.status
    BY <1>2, <1>4
  <2> QED
    BY <2>1, <2>2, <2>3, <2>4, EmployReturns
<1>7. PICK next \in EmployCall : /\ call' = [call EXCEPT ![c] = next]
                                 /\ next.do \in {"idle", "row"} /\ next.emp \notin Employees
  BY <1>6
<1>8. EmployRows'
  <2>1. \A x \in job'.hired : emp'[x].state # "none"
    BY <1>1, <1>2, <1>3, <1>4 DEF EmployRows
  <2> QED
    BY <1>1, <1>2, <1>5, <2>1 DEF EmployRows
<1>9. Employ!TypeOK'
  <2>1. /\ audited' \in [Employees -> Nat] /\ emp' \in [Employees -> EmployRow]
        /\ patched' \subseteq Employees /\ disturbed' \in BOOLEAN
        /\ \A x \in Employees : history'[x] \in Seq(Employ!Events) /\ grades'[x] \in Seq(Nat) /\ queued'[x] \in Seq(Employ!Jobs)
    BY <1>1, <1>2, <1>5, EmployTypes
  <2> QED
    BY <1>4, <1>6, <2>1 DEF Employ!TypeOK, EmployRow, EmployCall, EmployJob
<1>10. ~disturbed' => EmployAlone'
  <2> SUFFICES ASSUME ~disturbed PROVE EmployAlone'
    BY <1>2
  <2>1. EmployAlone /\ \A d \in Calls \ {c} : call[d] = Employ!NoCall
    BY <1>2, EmployOneCall
  <2>2. /\ \A d, b \in Calls : call'[d] # Employ!NoCall /\ call'[b] # Employ!NoCall => d = b
        /\ \A x \in Employees :
               /\ Auditing(x) <=> call[c].do = "audit" /\ call[c].emp = x
               /\ Auditing(x)' <=> next.do = "audit" /\ next.emp = x
               /\ \A y \in Employ!Events :
                    /\ Owing(x, y) <=> /\ call[c].do \in {"audit", "event"}
                                       /\ call[c].event = y /\ call[c].emp = x
                    /\ Owing(x, y)' <=> /\ next.do \in {"audit", "event"}
                                        /\ next.event = y /\ next.emp = x
        /\ \A d \in Calls : call'[d].do = "write" => d = c
        /\ call'[c] = next
    BY <1>7, <2>1, EmployOwes
  <2>3. \A d \in Calls : call'[d].do # "write"
    BY <1>7, <2>2
  <2>4. ASSUME NEW x \in Employees
        PROVE  /\ ~Auditing(x) /\ ~Auditing(x)' /\ \A y \in Employ!Events : ~Owing(x, y)'
               /\ \A j \in Employ!Jobs :
                    Employ!Occurs(history[x], MadeBy(j)) = Employ!Occurs(queued'[x], j)
    <3>1. \A j \in Employ!Jobs : Employ!Occurs(history[x], MadeBy(j)) =
            IF Owing(x, MadeBy(j)) THEN Employ!Occurs(queued[x], j) + 1 ELSE Employ!Occurs(queued[x], j)
      BY <2>1 DEF EmployAlone
    <3> HIDE DEF e, event
    <3>2. ~Auditing(x) /\ ~Auditing(x)' /\ \A y \in Employ!Events : ~Owing(x, y)'
      BY <1>2, <1>7, <2>2
    <3>3. \A y \in Employ!Events : Owing(x, y) <=> event = y /\ x = e
      BY <1>2, <2>2 DEF e, event
    <3> QED
      BY <1>5, <3>1, <3>2, <3>3, MadeByEvent
  <2> QED
    BY <1>2, <2>1, <2>2, <2>3, <2>4, MadeByEvent DEF EmployAlone
<1>11. EmployGrades'
  BY <1>2, EmployGradesStay DEF EmployInv
<1> QED
  BY <1>6, <1>8, <1>9, <1>10, <1>11 DEF EmployInv

LEMMA EmployUpdate == ASSUME EmployInv, NEW e \in Employees, Employ!update(e) PROVE EmployInv'
<1> USE EmployIdle
<1>1. /\ emp \in [Employees -> EmployRow] /\ patched \subseteq Employees /\ emp[e].state = "live"
      /\ EmployRows /\ EmployCalls /\ EmployImport /\ Employ!TypeOK /\ job \in EmployJob
      /\ patched' = patched \cup {e}
      /\ UNCHANGED <<history, grades, audited, queued, job, call, disturbed>>
  BY EmployTypes DEF EmployInv, Employ!update, Employ!Live, Employ!logs
<1>2. PICK s \in {"ACTIVE", "TERMINATED"} : emp' = [emp EXCEPT ![e].place = 0, ![e].grade = 0, ![e].status = s]
  BY DEF Employ!update
<1>3. /\ emp' \in [Employees -> EmployRow] /\ \A x \in Employees : emp'[x].state = emp[x].state
      /\ \A x \in Employees : x # e => emp'[x] = emp[x]
  <2> DEFINE row == [emp[e] EXCEPT !.place = 0, !.grade = 0, !.status = s]
  <2>1. row \in EmployRow /\ row.state = emp[e].state
    BY <1>1 DEF EmployRow
  <2>2. emp' = [emp EXCEPT ![e] = row]
    BY <1>1, <1>2
  <2> HIDE DEF row
  <2> QED
    BY <1>1, <2>1, <2>2
<1>4. EmployCalls' /\ EmployImport'
  BY <1>1, <1>3 DEF EmployCalls, EmployImport, Prehire
<1>5. EmployRows'
  <2>1. job.hired \subseteq Employees
    BY <1>1 DEF EmployJob
  <2>2. \A x \in Employees : x \notin patched' => x # e /\ x \notin patched /\ emp'[x] = emp[x]
    BY <1>1, <1>3
  <2>3. \A x \in Employees : emp'[x].state = "none" => x # e /\ x \notin patched'
    BY <1>1, <1>3 DEF EmployRows
  <2> QED
    BY <1>1, <1>3, <2>1, <2>2, <2>3 DEF EmployRows
<1>6. Employ!TypeOK'
  BY <1>1, <1>3, EmployTypes DEF Employ!TypeOK, EmployRow
<1>7. ~disturbed' => EmployAlone'
  <2> SUFFICES ASSUME ~disturbed PROVE EmployAlone'
    BY <1>1
  <2>1. EmployAlone
    BY DEF EmployInv
  <2> QED
    BY <1>1, <2>1 DEF EmployAlone, Auditing, Owing
<1>8. EmployGrades'
  BY <1>1, <1>3, EmployGradesStay DEF EmployInv
<1> QED
  BY <1>4, <1>5, <1>6, <1>7, <1>8 DEF EmployInv

\* A call begins; its record is the idle one with some fields set.
LEMMA EmployBegins ==
  ASSUME EmployInv, NEW c \in Calls, NEW e \in Employees,
         \/ \E n \in 1..MaxNumber : Employ!Hire(c, e, n)
         \/ Employ!RemoveCheck(c, e)
         \/ \E event \in Employ!Events \ {"HIRED"} : Employ!LifecycleCheck(c, e, event)
  PROVE  EmployInv'
<1> USE EmployIdle
<1>1. ASSUME NEW n \in 1..MaxNumber, Employ!Hire(c, e, n) PROVE EmployInv'
  <2> DEFINE next == [Employ!NoCall EXCEPT !.do = "unique", !.emp = e, !.number = n, !.event = "HIRED"]
  <2>1. n \in 0..MaxNumber
    OBVIOUS
  <2>2. /\ next \in EmployCall /\ next.do = "unique" /\ next.emp = e /\ next.event = "HIRED"
        /\ next.row = 0
    BY <2>1 DEF EmployCall, Employ!Events
  <2>3. /\ Employ!Start(c, next) /\ Employ!Fresh(e)
        /\ UNCHANGED <<emp, history, grades, audited, queued, job, patched>>
    BY <1>1 DEF Employ!Hire, Employ!rows, Employ!logs
  <2> HIDE DEF next
  <2> QED
    BY <2>2, <2>3, EmployStart
<1>2. ASSUME Employ!RemoveCheck(c, e) PROVE EmployInv'
  <2> DEFINE next == [Employ!NoCall EXCEPT !.do = "delete", !.emp = e]
  <2>2. next \in EmployCall /\ next.do = "delete" /\ next.emp = e /\ next.row = 0
    BY DEF EmployCall
  <2>3. /\ Employ!Start(c, next) /\ Employ!Live(e)
        /\ UNCHANGED <<emp, history, grades, audited, queued, job, patched>>
    BY <1>2 DEF Employ!RemoveCheck, Employ!rows, Employ!logs
  <2> HIDE DEF next
  <2> QED
    BY <2>2, <2>3, EmployStart
<1>3. ASSUME NEW event \in Employ!Events \ {"HIRED"}, Employ!LifecycleCheck(c, e, event)
      PROVE  EmployInv'
  <2> DEFINE next == [Employ!NoCall EXCEPT !.do = "write", !.emp = e, !.event = event]
  <2>2. /\ next \in EmployCall /\ next.do = "write" /\ next.emp = e /\ next.event = event
        /\ next.row = 0 /\ event \in Employ!Events \ {"HIRED"}
    BY DEF EmployCall, Employ!Events
  <2>3. /\ Employ!Start(c, next) /\ Employ!Live(e)
        /\ event = "TERMINATED" => emp[e].status # "TERMINATED"
        /\ UNCHANGED <<emp, history, grades, audited, queued, job, patched>>
    BY <1>3 DEF Employ!LifecycleCheck, Employ!rows, Employ!logs
  <2> HIDE DEF next
  <2> QED
    BY <2>2, <2>3, EmployStart
<1> QED
  BY <1>1, <1>2, <1>3

LEMMA EmployImportBegins ==
  ASSUME EmployInv, NEW c \in Calls, Employ!createEmployeeImportJob(c) PROVE EmployInv'
<1> USE EmployIdle
<1> DEFINE next == [Employ!NoCall EXCEPT !.do = "start", !.row = 1]
<1>2. next \in EmployCall /\ next.do = "start" /\ next.emp \notin Employees /\ next.row = 1
  BY DEF EmployCall
<1>3. /\ Employ!Start(c, next) /\ job.status = "NONE" /\ job' = [job EXCEPT !.status = "PENDING"]
      /\ UNCHANGED <<emp, history, grades, audited, queued, patched>>
  BY DEF Employ!createEmployeeImportJob, Employ!rows, Employ!logs
<1> HIDE DEF next
<1> QED
  BY <1>2, <1>3, EmployStart

\* The steps of a call that write no history.
LEMMA EmployChecks ==
  ASSUME EmployInv, NEW c \in Calls,
         \/ Employ!assertEmployeeUnique(c) \/ Employ!ImportStart(c) \/ Employ!ImportRow(c)
         \/ Employ!ImportComplete(c) \/ Employ!Abort(c)
  PROVE  EmployInv'
<1> USE EmployIdle
<1>1. /\ EmployCalls /\ EmployImport /\ job \in EmployJob /\ call \in [Calls -> EmployCall]
      /\ emp \in [Employees -> EmployRow]
  BY EmployTypes DEF EmployInv
<1>2. \A next \in EmployCall :
        /\ call[c].do # "idle" /\ call' = [call EXCEPT ![c] = next] 
        /\ EmployCalls' /\ EmployImport'
        /\ job' \in EmployJob /\ job'.hired = job.hired
        /\ UNCHANGED <<emp, history, grades, audited, queued, patched>>
        /\ next.do \notin {"audit", "event"} /\ (next.do = "write" => next.event # "TERMINATED")
        /\ disturbed' = TRUE \/ (disturbed' = disturbed /\ call[c].do \notin {"audit", "event"})
        => EmployInv'
  <2> SUFFICES ASSUME NEW next \in EmployCall,
                 call[c].do # "idle", call' = [call EXCEPT ![c] = next],
                 EmployCalls', EmployImport', job' \in EmployJob, job'.hired = job.hired,
                 UNCHANGED <<emp, history, grades, audited, queued, patched>>,
                 next.do \notin {"audit", "event"}, next.do = "write" => next.event # "TERMINATED",
                 disturbed' = TRUE \/ (disturbed' = disturbed /\ call[c].do \notin {"audit", "event"})
               PROVE  EmployInv'
    OBVIOUS
  <2>1. call' \in [Calls -> EmployCall] /\ emp' \in [Employees -> EmployRow]
    BY <1>1
  <2>2. \A e \in Employees : /\ emp'[e].state = "none" <=> emp[e].state = "none"
                             /\ emp'[e].place = emp[e].place /\ emp'[e].status = emp[e].status
                             /\ emp'[e].grade = emp[e].grade
    OBVIOUS
  <2> QED
    BY <2>1, <2>2, EmployQuiet
<1>3. CASE Employ!assertEmployeeUnique(c)
  <2>1. /\ call[c].do = "unique" /\ UNCHANGED <<emp, history, grades, audited, queued, patched, disturbed>>
        /\ \/ Employ!Return(c) /\ Employ!Fail(c)
           \/ call' = [call EXCEPT ![c].do = "write"] /\ job' = job
    BY <1>3 DEF Employ!assertEmployeeUnique, Employ!At, Employ!Goto, Employ!rows, Employ!logs
  <2>2. CASE Employ!Return(c) /\ Employ!Fail(c)
    BY <1>1, <2>1, <2>2, EmployQuietReturn
  <2>3. CASE call' = [call EXCEPT ![c].do = "write"] /\ job' = job
    <3> DEFINE next == [call[c] EXCEPT !.do = "write"]
    <3>1. /\ next \in EmployCall /\ next.do = "write" /\ next.emp = call[c].emp
          /\ next.event = call[c].event /\ next.row = call[c].row
          /\ call' = [call EXCEPT ![c] = next]
      BY <1>1, <2>3 DEF EmployCall
    <3> HIDE DEF next
    <3>2. /\ call[c].emp \in Employees /\ call[c].event = "HIRED" /\ emp[call[c].emp].state = "none"
          /\ \A d \in Calls \ {c} : call[d].emp # call[c].emp
          /\ call[c].row # 0 => call[c].row <= Len(File)
      BY <1>1, <2>1 DEF EmployCalls, EmployImport, Prehire
    <3>3. EmployCalls'
      <4>1. Prehire(next) /\ next.event \in Employ!Events
        BY <3>1, <3>2 DEF Prehire, Employ!Events
      <4> QED
        <5>1. /\ next.do = "write" /\ next.emp \in Employees /\ emp' = emp
              /\ emp'[next.emp].state = "none" /\ next.event = "HIRED"
              /\ \A d \in Calls \ {c} : call[d].emp # next.emp
          BY <2>1, <3>1, <3>2
        <5>2. next.do \notin {"idle", "start", "row", "delete"}
          BY <3>1
        <5> QED
          BY <3>1, <4>1, <5>1, <5>2, EmployCallSteps
    <3>4. EmployImport'
      <4>1. /\ next.row = call[c].row \/ next.row = 0
            /\ next.row # 0 /\ next.do \notin {"start", "row"} => next.row <= Len(File)
        BY <3>1, <3>2
      <4>2. /\ job'.ok = job.ok /\ job'.failed = job.failed
            /\ \/ job'.status = job.status
               \/ (call[c].row # 0 /\ job'.status = "PROCESSING")
               \/ (/\ call[c].row = Len(File) + 1 /\ next.row = 0 /\ job'.status = "COMPLETED")
        BY <2>3
      <4> QED
        BY <3>1, <4>1, <4>2, EmployRowStays
    <3> QED
      BY <1>1, <1>2, <2>1, <2>3, <3>1, <3>2, <3>3, <3>4
  <2> QED
    BY <2>1, <2>2, <2>3
<1>4. CASE Employ!ImportStart(c)
  <2> DEFINE next == [call[c] EXCEPT !.do = "row"]
  <2>1. /\ call[c].do = "start" /\ UNCHANGED <<emp, history, grades, audited, queued, patched, disturbed>>
        /\ call' = [call EXCEPT ![c].do = "row"] /\ job' = [job EXCEPT !.status = "PROCESSING"]
    BY <1>4 DEF Employ!ImportStart, Employ!At, Employ!Goto, Employ!rows, Employ!logs
  <2>2. /\ next \in EmployCall /\ next.do = "row" /\ next.emp = call[c].emp
        /\ next.row = call[c].row /\ call' = [call EXCEPT ![c] = next]
    BY <1>1, <2>1 DEF EmployCall
  <2>3. /\ job' \in EmployJob /\ job'.status = "PROCESSING" /\ job'.ok = job.ok
        /\ job'.failed = job.failed /\ job'.hired = job.hired
    BY <1>1, <2>1 DEF EmployJob
  <2>4. call[c].row # 0
    BY <1>1, <2>1 DEF EmployCalls
  <2> HIDE DEF next
  <2>5. EmployCalls'
    <3>1. ~Prehire(next)
      BY <2>2 DEF Prehire
    <3> QED
      BY <2>1, <2>2, <2>4, <3>1, EmployCallSteps
  <2>6. EmployImport'
    BY <2>2, <2>3, <2>4, EmployRowStays
  <2> QED
    BY <1>2, <2>1, <2>2, <2>3, <2>5, <2>6
<1>5. CASE Employ!ImportRow(c)
  <2> DEFINE n == File[call[c].row]
  <2>1. /\ call[c].do = "row" /\ call[c].row <= Len(File)
        /\ UNCHANGED <<emp, history, grades, audited, queued, patched, disturbed>>
        /\ \/ Employ!Return(c) /\ Employ!Fail(c)
           \/ /\ \E e \in Employees : Employ!Fresh(e) /\ call' = [call EXCEPT ![c] =
                   [@ EXCEPT !.do = "unique", !.emp = e, !.number = n, !.event = "HIRED"]]
              /\ job' = job
    BY <1>5 DEF Employ!ImportRow, Employ!At, Employ!rows, Employ!logs
  <2>2. CASE Employ!Return(c) /\ Employ!Fail(c)
    BY <1>1, <2>1, <2>2, EmployQuietReturn
  <2>3. ASSUME NEW e \in Employees, Employ!Fresh(e), job' = job,
               call' = [call EXCEPT ![c] =
                   [@ EXCEPT !.do = "unique", !.emp = e, !.number = n, !.event = "HIRED"]]
        PROVE  EmployInv'
    <3> DEFINE next == [call[c] EXCEPT !.do = "unique", !.emp = e, !.number = n, !.event = "HIRED"]
    <3>1. call[c].row \in 1..Len(File)
      <4>1. call[c].row \in Nat
        BY <1>1 DEF EmployCall
      <4>2. call[c].row # 0
        BY <1>1, <2>1 DEF EmployCalls
      <4> QED
        <5>1. call[c].row <= Len(File) /\ Len(File) \in Nat
          BY <2>1
        <5> HIDE DEF next, n
        <5> QED
          BY <4>1, <4>2, <5>1
    <3>2. n \in 0..MaxNumber
      BY <3>1
    <3> HIDE DEF n
    <3>3. /\ next \in EmployCall /\ next.do = "unique" /\ next.emp = e
          /\ next.event = "HIRED" /\ next.row = call[c].row
          /\ call' = [call EXCEPT ![c] = next]
      BY <1>1, <2>3, <3>2 DEF EmployCall, Employ!Events
    <3> HIDE DEF next
    <3>4. EmployCalls'
      <4>1. Prehire(next) /\ next.event \in Employ!Events
        BY <3>3 DEF Prehire, Employ!Events
      <4>2. emp[e].state = "none" /\ \A d \in Calls \ {c} : call[d].emp # e
        BY <2>3 DEF Employ!Fresh
      <4> QED
        BY <2>1, <3>3, <4>1, <4>2, EmployCallSteps
    <3>5. EmployImport'
      <4>1. next.row = call[c].row /\ next.row <= Len(File) /\ call' = [call EXCEPT ![c] = next]
        BY <2>1, <3>3
      <4>2. job'.ok = job.ok /\ job'.failed = job.failed /\ job'.status = job.status
        BY <2>3
      <4> QED
        BY <3>3, <4>1, <4>2, EmployRowStays
    <3> QED
      BY <1>1, <1>2, <2>1, <2>3, <3>3, <3>4, <3>5
  <2> QED
    BY <2>1, <2>2, <2>3
<1>6. CASE Employ!ImportComplete(c)
  <2>1. /\ call[c].do = "row" /\ call[c].row > Len(File)
        /\ UNCHANGED <<emp, history, grades, audited, queued, patched, disturbed>>
        /\ call' = [call EXCEPT ![c] = Employ!NoCall] /\ job' = [job EXCEPT !.status = "COMPLETED"]
    BY <1>6 DEF Employ!ImportComplete, Employ!At, Employ!rows, Employ!logs
  <2>2. /\ job' \in EmployJob /\ job'.status = "COMPLETED" /\ job'.ok = job.ok
        /\ job'.failed = job.failed /\ job'.hired = job.hired
    BY <1>1, <2>1 DEF EmployJob
  <2>3. call[c].row = Len(File) + 1
    BY <1>1, <2>1 DEF EmployCall, EmployCalls, EmployImport
  <2>4. EmployCalls'
    <3>1. ~Prehire(Employ!NoCall)
      BY DEF Prehire
    <3> QED
      BY <2>1, <3>1, EmployCallSteps
  <2>5. EmployImport'
    BY <2>1, <2>2, <2>3, EmployRowStays
  <2> QED
    BY <1>2, <2>1, <2>2, <2>4, <2>5
<1>7. CASE Employ!Abort(c)
  <2>1. /\ call[c] # Employ!NoCall /\ disturbed' = TRUE /\ job' = job
        /\ UNCHANGED <<emp, history, grades, audited, queued, patched>>
        /\ call' = [call EXCEPT ![c] = Employ!NoCall]
    BY <1>7 DEF Employ!Abort, Employ!rows, Employ!logs
  <2>2. call[c].do # "idle"
    BY <1>1, <2>1 DEF EmployCalls
  <2>3. EmployCalls'
    <3>1. ~Prehire(Employ!NoCall)
      BY DEF Prehire
    <3> QED
      BY <2>1, <3>1, EmployCallSteps
  <2>4. EmployImport'
    BY <2>1, EmployRowStays
  <2> QED
    BY <1>1, <1>2, <2>1, <2>2, <2>3, <2>4
<1> QED
  BY <1>3, <1>4, <1>5, <1>6, <1>7

\* The steps of a call that write a row.
LEMMA EmployCommits ==
  ASSUME EmployInv, NEW c \in Calls,
         \/ Employ!HireWrite(c) \/ Employ!LifecycleWrite(c) \/ Employ!RemoveWrite(c)
         \/ Employ!AuditFails(c)
  PROVE  EmployInv'
<1> USE EmployIdle
<1> DEFINE e == call[c].emp
<1>1. /\ EmployCalls /\ EmployImport /\ job \in EmployJob /\ call \in [Calls -> EmployCall]
      /\ emp \in [Employees -> EmployRow] /\ EmployRows
  BY EmployTypes, SMTT(60) DEF EmployInv
<1>2. CASE Employ!HireWrite(c)
  <2> DEFINE Hires(grade) ==
        /\ emp' = [emp EXCEPT ![e] = [state |-> "live", number |-> call[c].number,
                                       status |-> "ACTIVE", place |-> 1, grade |-> grade]]
        /\ history' = [history EXCEPT ![e] = Append(@, "HIRED")]
        /\ grades' = [grades EXCEPT ![e] = Append(@, grade)]
        /\ call' = [call EXCEPT ![c].do = "audit"] /\ job' = job
  <2>1. /\ call[c].do = "write" /\ call[c].event = "HIRED"
        /\ UNCHANGED <<audited, queued, patched, disturbed>>
        /\ \/ Employ!Return(c) /\ Employ!Fail(c) /\ UNCHANGED <<emp, history, grades>>
           \/ \E grade \in {0, 1} : Hires(grade)
    BY <1>2, ZenonT(60) DEF Employ!HireWrite, Employ!At, Employ!Goto, Employ!rows,
       Employ!logs, Employ!Log
  <2>2. e \in Employees /\ emp[e].state = "none" /\ history[e] = <<>>
    BY <1>1, <2>1 DEF EmployCalls, EmployRows, Prehire
  <2>3. CASE Employ!Return(c) /\ Employ!Fail(c) /\ UNCHANGED <<emp, history, grades>>
    BY <1>1, <2>1, <2>3, EmployQuietReturn
  <2>4. ASSUME NEW grade \in {0, 1}, Hires(grade) PROVE EmployInv'
    <3> DEFINE row == [state |-> "live", number |-> call[c].number, status |-> "ACTIVE",
                       place |-> 1, grade |-> grade]
    <3>1. /\ row \in EmployRow /\ row.state = "live" /\ row.status = "ACTIVE" /\ row.place = 1
          /\ row.grade = grade
      BY <1>1 DEF EmployRow, EmployCall
    <3>2. emp' = [emp EXCEPT ![e] = row]
      BY <2>4
    <3> HIDE DEF row, e
    <3>3. /\ emp' \in [Employees -> EmployRow] /\ emp'[e].state # "none"
          /\ \A x \in Employees : x # e => emp'[x] = emp[x]
          /\ emp'[e].place = 1 /\ emp'[e].status = "ACTIVE" /\ emp'[e].grade = grade
      BY <1>1, <2>2, <3>1, <3>2
    <3>4. Len(history[e]) + 1 = 1
      BY <2>2
    <3>5. /\ history' = [history EXCEPT ![e] = Append(@, call[c].event)]
          /\ grades' = [grades EXCEPT ![e] = Append(@, grade)] /\ grade \in Nat
      BY <2>1, <2>4
    <3>6. e = call[c].emp
      BY DEF e
    <3>7. /\ call[c].do = "write" /\ call' = [call EXCEPT ![c].do = "audit"]
          /\ UNCHANGED <<audited, queued, job, patched, disturbed>>
      BY <2>1, <2>4
    <3>8. /\ emp[e].state = "none" <=> call[c].event = "HIRED"
          /\ emp'[e].place = Len(history[e]) + 1
          /\ emp'[e].status = IF call[c].event = "TERMINATED" THEN "TERMINATED"
                              ELSE IF call[c].event = "HIRED" THEN "ACTIVE" ELSE emp[e].status
          /\ emp'[e].grade = IF call[c].event = "PROMOTED" /\ grade = 0 THEN emp[e].grade ELSE grade
          /\ call[c].event \in {"TRANSFERRED", "TERMINATED"} => grade = emp[e].grade
      BY <2>1, <2>2, <3>3, <3>4, SMTT(60)
    <3> QED
      BY <2>2, <3>3, <3>5, <3>6, <3>7, <3>8, EmployWrites
  <2> HIDE DEF Hires
  <2> QED
    BY <2>1, <2>3, <2>4, Zenon
<1>3. CASE Employ!LifecycleWrite(c)
  <2> DEFINE n == Len(history[e]) + 1
  <2>1. /\ call[c].do = "write" /\ call[c].event # "HIRED"
        /\ call' = [call EXCEPT ![c].do = "audit"]
        /\ UNCHANGED <<audited, queued, job, patched, disturbed>>
    BY <1>3 DEF Employ!LifecycleWrite, Employ!At, Employ!Goto, Employ!logs
  <2>2. /\ e \in Employees /\ emp[e].state # "none" /\ emp[e] \in EmployRow /\ n \in Nat
        /\ emp[e].grade \in Nat
    BY <1>1, <2>1 DEF EmployCalls, EmployRows, Prehire, EmployRow
  <2>3. ASSUME NEW row \in EmployRow, NEW grade \in Nat,
               emp' = [emp EXCEPT ![e] = row], row.state = emp[e].state, row.place = n,
               row.status = IF call[c].event = "TERMINATED" THEN "TERMINATED" ELSE emp[e].status,
               row.grade = IF call[c].event = "PROMOTED" /\ grade = 0 THEN emp[e].grade ELSE grade,
               call[c].event \in {"TRANSFERRED", "TERMINATED"} => grade = emp[e].grade,
               history' = [history EXCEPT ![e] = Append(@, call[c].event)],
               grades' = [grades EXCEPT ![e] = Append(@, grade)]
        PROVE  EmployInv'
    <3> HIDE DEF e
    <3>1. /\ emp' \in [Employees -> EmployRow] /\ emp'[e] = row
          /\ \A x \in Employees : x # e => emp'[x] = emp[x]
      BY <1>1, <2>2, <2>3
    <3>2. e = call[c].emp
      BY DEF e
    <3>3. /\ emp'[e].state # "none" /\ (emp[e].state = "none" <=> call[c].event = "HIRED")
          /\ emp'[e].place = Len(history[e]) + 1
          /\ emp'[e].status = IF call[c].event = "TERMINATED" THEN "TERMINATED"
                              ELSE IF call[c].event = "HIRED" THEN "ACTIVE" ELSE emp[e].status
          /\ emp'[e].grade = IF call[c].event = "PROMOTED" /\ grade = 0 THEN emp[e].grade ELSE grade
      BY <2>1, <2>2, <2>3, <3>1
    <3> QED
      BY <2>1, <2>2, <2>3, <3>1, <3>2, <3>3, EmployWrites
  <2> DEFINE moved == [emp[e] EXCEPT !.place = n]
             left  == [emp[e] EXCEPT !.place = n, !.status = "TERMINATED"]
  <2> HIDE DEF n
  <2>4. /\ moved \in EmployRow /\ moved.state = emp[e].state /\ moved.place = n
        /\ moved.status = emp[e].status /\ moved.grade = emp[e].grade
        /\ left \in EmployRow /\ left.state = emp[e].state /\ left.place = n
        /\ left.status = "TERMINATED" /\ left.grade = emp[e].grade
    BY <2>2 DEF EmployRow
  <2>5. \/ call[c].event = "PROMOTED" /\ \E grade \in {0, n} :
             /\ emp' = [emp EXCEPT ![e] = [emp[e] EXCEPT !.place = n,
                                            !.grade = IF grade = 0 THEN @ ELSE grade]]
             /\ history' = [history EXCEPT ![e] = Append(@, call[c].event)]
             /\ grades' = [grades EXCEPT ![e] = Append(@, grade)]
        \/ /\ call[c].event = "TRANSFERRED" /\ emp' = [emp EXCEPT ![e] = moved]
           /\ history' = [history EXCEPT ![e] = Append(@, call[c].event)]
           /\ grades' = [grades EXCEPT ![e] = Append(@, emp[e].grade)]
        \/ /\ call[c].event = "TERMINATED" /\ emp' = [emp EXCEPT ![e] = left]
           /\ history' = [history EXCEPT ![e] = Append(@, call[c].event)]
           /\ grades' = [grades EXCEPT ![e] = Append(@, emp[e].grade)]
    <3>1. \/ \E grade \in {0, n} :
                /\ call[c].event = "PROMOTED"
                /\ emp' = [emp EXCEPT ![e].place = n, ![e].grade = IF grade = 0 THEN @ ELSE grade]
                /\ Employ!Log(e, "PROMOTED", grade)
          \/ /\ call[c].event = "TRANSFERRED" /\ emp' = [emp EXCEPT ![e].place = n]
             /\ Employ!Log(e, "TRANSFERRED", emp[e].grade)
          \/ /\ call[c].event = "TERMINATED"
             /\ emp' = [emp EXCEPT ![e].place = n, ![e].status = "TERMINATED"]
             /\ Employ!Log(e, "TERMINATED", emp[e].grade)
      BY <1>3, Zenon DEF Employ!LifecycleWrite, n
    <3>2. /\ emp \in [Employees -> EmployRow] /\ e \in Employees
      BY <1>1, <2>2
    <3>3. /\ [emp EXCEPT ![e].place = n] = [emp EXCEPT ![e] = moved]
          /\ [emp EXCEPT ![e].place = n, ![e].status = "TERMINATED"] = [emp EXCEPT ![e] = left]
          /\ \A grade : [emp EXCEPT ![e].place = n, ![e].grade = IF grade = 0 THEN @ ELSE grade] =
               [emp EXCEPT ![e] = [emp[e] EXCEPT !.place = n,
                                     !.grade = IF grade = 0 THEN @ ELSE grade]]
      BY <3>2 DEF EmployRow
    <3> HIDE DEF moved, left
    <3> QED
      BY <3>1, <3>3, ZenonT(60) DEF Employ!Log
  <2>6. CASE call[c].event = "TRANSFERRED"
    <3> HIDE DEF moved, left
    <3> QED
      BY <2>2, <2>3, <2>4, <2>5, <2>6
  <2>7. CASE call[c].event = "TERMINATED"
    <3> HIDE DEF moved, left
    <3> QED
      BY <2>2, <2>3, <2>4, <2>5, <2>7
  <2>8. CASE call[c].event = "PROMOTED"
    <3> PICK grade \in {0, n} :
           /\ emp' = [emp EXCEPT ![e] = [emp[e] EXCEPT !.place = n,
                                          !.grade = IF grade = 0 THEN @ ELSE grade]]
           /\ history' = [history EXCEPT ![e] = Append(@, call[c].event)]
           /\ grades' = [grades EXCEPT ![e] = Append(@, grade)]
      BY <2>5, <2>8, ZenonT(60)
    <3> PICK given \in Nat : given = IF grade = 0 THEN emp[e].grade ELSE grade
      BY <2>2
    <3> DEFINE raised == [emp[e] EXCEPT !.place = n, !.grade = given]
    <3>1. /\ raised \in EmployRow /\ raised.state = emp[e].state /\ raised.place = n
          /\ raised.status = emp[e].status /\ raised.grade = given
      BY <2>2 DEF EmployRow
    <3>2. emp' = [emp EXCEPT ![e] = raised]
      BY <2>2
    <3>3. /\ raised.status = IF call[c].event = "TERMINATED" THEN "TERMINATED" ELSE emp[e].status
          /\ raised.grade = IF call[c].event = "PROMOTED" /\ grade = 0 THEN emp[e].grade ELSE grade
          /\ call[c].event \in {"TRANSFERRED", "TERMINATED"} => grade = emp[e].grade
          /\ grade \in Nat
      BY <2>2, <2>8, <3>1
    <3> HIDE DEF raised, moved, left
    <3> QED
      BY <2>3, <3>1, <3>2, <3>3, Zenon
  <2> QED
    BY <2>5, <2>6, <2>7, <2>8, ZenonT(60)
<1>4. CASE Employ!RemoveWrite(c)
  <2>1. /\ call[c].do = "delete" /\ Employ!Return(c) /\ emp' = [emp EXCEPT ![e].state = "deleted"]
        /\ UNCHANGED <<history, grades, audited, queued, job, patched, disturbed>>
    BY <1>4 DEF Employ!RemoveWrite, Employ!At, Employ!logs
  <2>2. e \in Employees /\ emp[e].state # "none" /\ call[c].row = 0
    BY <1>1, <2>1 DEF EmployCalls, Prehire
  <2>3. /\ emp' \in [Employees -> EmployRow]
        /\ \A x \in Employees : /\ emp'[x].state = "none" <=> emp[x].state = "none"
                                /\ emp'[x].place = emp[x].place /\ emp'[x].status = emp[x].status
                                /\ emp'[x].grade = emp[x].grade
    BY <1>1, <2>1, <2>2, ZenonT(60) DEF EmployRow
  <2> QED
    BY <2>1, <2>2, <2>3, EmployQuietReturn
<1>5. CASE Employ!AuditFails(c)
  <2>1. /\ call[c].do = "audit" /\ Employ!Return(c) /\ Employ!Fail(c) /\ disturbed' = TRUE
        /\ UNCHANGED <<emp, history, grades, audited, queued, patched>>
    BY <1>5 DEF Employ!AuditFails, Employ!At, Employ!rows, Employ!logs
  <2> QED
    BY <1>1, <2>1, EmployQuietReturn
<1> QED
  BY <1>2, <1>3, <1>4, <1>5

\* Employment: every step, and a stutter, keeps the invariant.
LEMMA EmployNext == EmployInv /\ [Employ!Next]_(Employ!vars) => EmployInv'
<1> SUFFICES ASSUME EmployInv, [Employ!Next]_(Employ!vars) PROVE EmployInv'
  OBVIOUS
<1>1. CASE UNCHANGED Employ!vars
  <2>1. UNCHANGED <<emp, history, grades, audited, queued, job, call, patched, disturbed>>
    BY <1>1 DEF Employ!vars, Employ!rows, Employ!logs
  <2>2. Employ!TypeOK' /\ EmployCalls' /\ EmployImport' /\ EmployRows'
    BY <2>1 DEF EmployInv, Employ!TypeOK, EmployCalls, EmployImport, EmployRows, Prehire
  <2>4. EmployGrades'
    BY <2>1, EmployGradesStay DEF EmployInv
  <2>3. ~disturbed' => EmployAlone'
    BY <2>1 DEF EmployInv, EmployAlone, Auditing, Owing
  <2> QED
    BY <2>2, <2>3, <2>4 DEF EmployInv
<1> QED
  BY <1>1, EmployBegins, EmployImportBegins, EmployChecks, EmployCommits, EmployAudit,
     EmployEmit, EmployUpdate DEF Employ!Next

\* The invariant implies the property that the run checks.
LEMMA EmployOnRecord == EmployInv => Employ!EmploymentIsOnRecord
<1> SUFFICES ASSUME EmployInv PROVE Employ!EmploymentIsOnRecord
  OBVIOUS
<1>1. EmployRows /\ EmployImport /\ EmployGrades
  BY DEF EmployInv
<1>2. ASSUME ~disturbed, ~Employ!Busy, NEW e \in Employees
      PROVE  /\ audited[e] = Len(history[e])
             /\ \A x \in Employ!Events : \A i \in DOMAIN Employ!JobsFor(x) :
                  Employ!Occurs(queued[e], Employ!JobsFor(x)[i]) = Employ!Occurs(history[e], x)
             /\ e \notin patched => Employ!Occurs(history[e], "TERMINATED") <= 1
  <2>1. EmployAlone
    BY <1>2 DEF EmployInv
  <2>2. ~Auditing(e) /\ \A x : ~Owing(e, x)
    BY <1>2, EmployIdle DEF Employ!Busy, Auditing, Owing
  <2>3. \A j \in Employ!Jobs : Employ!Occurs(history[e], MadeBy(j)) = Employ!Occurs(queued[e], j)
    BY <2>1, <2>2 DEF EmployAlone
  <2>4. \A x \in Employ!Events : \A i \in DOMAIN Employ!JobsFor(x) :
          Employ!JobsFor(x)[i] \in Employ!Jobs /\ MadeBy(Employ!JobsFor(x)[i]) = x
    BY DEF Employ!Events, Employ!JobsFor, Employ!Jobs, MadeBy
  <2> QED
    BY <2>1, <2>2, <2>3, <2>4 DEF EmployAlone
<1>3. ASSUME NEW e \in Employees \ patched, emp[e].state # "none"
      PROVE  /\ history[e][1] = "HIRED" /\ emp[e].place = Len(history[e])
             /\ emp[e].status = "TERMINATED" <=> Employ!Occurs(history[e], "TERMINATED") > 0
             /\ EmployGraded(e)
  BY <1>1, <1>3 DEF EmployRows, EmployGrades
<1> QED
  BY <1>1, <1>2, <1>3 DEF Employ!EmploymentIsOnRecord, EmployRows, EmployImport, EmployGraded
-------------------------------------------------------------------------------
(* Onboarding                                                                 *)

OnboardOver == status \in {"COMPLETED", "CANCELLED"}

\* What is in flight concerns an onboarding that exists; who counted no pending task
\* leaves none.
OnboardFollows ==
  /\ OnboardOver => Onboard!Pending = {}
  /\ status = "NONE" => \A t \in Tasks : task[t] = "NONE"
  /\ \A c \in Calls :
       /\ call[c].do \in {"complete", "commit", "cancel"} => status # "NONE"
       /\ call[c].do \in {"add", "complete", "commit"} => call[c].task \in Tasks
       /\ call[c].do = "commit" /\ call[c].zero => Onboard!Pending \subseteq {call[c].task}

\* The task of a call is pending, and who leaves none has counted none.
OnboardAlone ==
  /\ \A c, d \in Calls : call[c] # Onboard!NoCall /\ call[d] # Onboard!NoCall => c = d
  /\ \A c \in Calls :
       /\ call[c].do \in {"complete", "commit"} => call[c].task \in Onboard!Pending
       /\ call[c].do = "commit" /\ Onboard!Pending \subseteq {call[c].task} => call[c].zero
  /\ (\E t \in Tasks : task[t] # "NONE") /\ Onboard!Pending = {} => OnboardOver
  /\ announced /\ ~aborted => OnboardOver \/ \E c \in Calls : call[c].do = "commit" /\ call[c].zero

\* Onboarding: the inductive invariant.
OnboardInv == Onboard!TypeOK /\ OnboardFollows /\ (~overlap => OnboardAlone)

OnboardCall == [do : {"idle", "add", "assign", "complete", "commit", "cancel"},
                task : Tasks \cup {Onboard!NoTask}, tasks : SUBSET Tasks, zero : BOOLEAN]

LEMMA OnboardIdle ==
  /\ Onboard!NoCall.do = "idle" /\ Onboard!NoCall.zero = FALSE
  /\ Onboard!NoCall \in OnboardCall
BY DEF Onboard!NoCall, OnboardCall

\* Onboarding: the invariant holds at the start.
LEMMA OnboardInit == Onboard!Init => OnboardInv
<1> SUFFICES ASSUME Onboard!Init PROVE OnboardInv
  OBVIOUS
<1> USE OnboardIdle DEF Onboard!Init
<1>1. Onboard!TypeOK
  BY DEF Onboard!TypeOK, OnboardCall
<1>2. OnboardFollows /\ OnboardAlone
  BY DEF OnboardFollows, OnboardAlone, OnboardOver, Onboard!Pending
<1> QED
  BY <1>1, <1>2 DEF OnboardInv

\* A call starts: the rows stay.
LEMMA OnboardStarts ==
  ASSUME OnboardInv, NEW c \in Calls, NEW next \in OnboardCall, Onboard!Start(c, next),
         next.do \in {"add", "assign", "complete", "cancel"},
         next.do \in {"complete", "cancel"} => status # "NONE",
         next.do \in {"add", "complete"} => next.task \in Tasks,
         next.do = "complete" => next.task \in Onboard!Pending
  PROVE  OnboardInv'
<1> USE OnboardIdle DEF OnboardInv, Onboard!TypeOK, OnboardCall
<1>1. /\ call' = [call EXCEPT ![c] = next] /\ call[c] = Onboard!NoCall
      /\ UNCHANGED <<template, status, task, announced, aborted>>
      /\ overlap' \in BOOLEAN /\ (~overlap' => ~overlap /\ \A d \in Calls : call[d] = Onboard!NoCall)
  BY DEF Onboard!Start
<1>2. Onboard!Pending' = Onboard!Pending /\ OnboardOver' = OnboardOver
  BY <1>1 DEF Onboard!Pending, OnboardOver
<1>3. Onboard!TypeOK'
  BY <1>1
<1>4. OnboardFollows'
  BY <1>1, <1>2 DEF OnboardFollows
<1>5. ~overlap' => OnboardAlone'
  BY <1>1, <1>2 DEF OnboardAlone
<1> QED
  BY <1>3, <1>4, <1>5

\* Onboarding: every step, and a stutter, keeps the invariant.
LEMMA OnboardNext == OnboardInv /\ [Onboard!Next]_(Onboard!vars) => OnboardInv'
<1> SUFFICES ASSUME OnboardInv, [Onboard!Next]_(Onboard!vars) PROVE OnboardInv'
  OBVIOUS
<1> USE OnboardIdle DEF OnboardInv, Onboard!TypeOK, OnboardCall
<1>1. CASE UNCHANGED Onboard!vars
  BY <1>1 DEF Onboard!vars, OnboardFollows, OnboardAlone, OnboardOver, Onboard!Pending
<1>2. CASE \/ Onboard!Activate \/ Onboard!archiveTemplate \/ \E t \in Tasks : Onboard!removeTask(t)
           \/ \E c \in Calls : Onboard!AddTaskWrite(c)
  <2>1. /\ UNCHANGED <<status, task, announced, overlap, aborted>>
        /\ \/ UNCHANGED call
           \/ \E c \in Calls : /\ call' = [call EXCEPT ![c] = Onboard!NoCall]
                               /\ call[c].do = "add"
    BY <1>2 DEF Onboard!Activate, Onboard!archiveTemplate, Onboard!removeTask,
                Onboard!AddTaskWrite, Onboard!Finish
  <2>2. template' \in [status : {"DRAFT", "ACTIVE", "ARCHIVED"}, tasks : SUBSET Tasks]
    BY <1>2 DEF Onboard!Activate, Onboard!archiveTemplate, Onboard!removeTask,
                Onboard!AddTaskWrite, OnboardFollows
  <2>3. Onboard!Pending' = Onboard!Pending /\ OnboardOver' = OnboardOver
    BY <2>1 DEF Onboard!Pending, OnboardOver
  <2>4. OnboardFollows'
    BY <2>1, <2>3 DEF OnboardFollows
  <2>5. ~overlap' => OnboardAlone'
    BY <2>1, <2>3 DEF OnboardAlone
  <2> QED
    BY <2>1, <2>2, <2>4, <2>5
<1>3. ASSUME NEW c \in Calls, NEW t \in Tasks, Onboard!AddTaskCheck(c, t) \/ Onboard!CompleteCheck(c, t)
      PROVE  OnboardInv'
  <2> DEFINE next(do) == [Onboard!NoCall EXCEPT !.do = do, !.task = t]
  <2>1. \A do \in {"add", "complete"} :
           next(do) \in OnboardCall /\ next(do).do = do /\ next(do).task = t
    OBVIOUS
  <2>2. Onboard!CompleteCheck(c, t) => status # "NONE" /\ t \in Onboard!Pending
    BY DEF Onboard!CompleteCheck, OnboardFollows, Onboard!Pending
  <2>3. \E do \in {"add", "complete"} :
           /\ Onboard!Start(c, next(do))
           /\ do = "complete" => status # "NONE" /\ t \in Onboard!Pending
    BY <1>3, <2>2 DEF Onboard!AddTaskCheck, Onboard!CompleteCheck
  <2> HIDE DEF next
  <2> QED
    BY <2>1, <2>3, OnboardStarts
<1>4. ASSUME NEW c \in Calls, Onboard!AssignCheck(c) PROVE OnboardInv'
  <2> DEFINE next == [Onboard!NoCall EXCEPT !.do = "assign", !.tasks = template.tasks]
  <2>1. next \in OnboardCall /\ next.do = "assign" /\ Onboard!Start(c, next)
    BY <1>4 DEF Onboard!AssignCheck
  <2> HIDE DEF next
  <2> QED
    BY <2>1, OnboardStarts
<1>5. ASSUME NEW c \in Calls, Onboard!CancelCheck(c) PROVE OnboardInv'
  <2> DEFINE next == [Onboard!NoCall EXCEPT !.do = "cancel"]
  <2>1. next \in OnboardCall /\ next.do = "cancel" /\ Onboard!Start(c, next) /\ status # "NONE"
    BY <1>5 DEF Onboard!CancelCheck
  <2> HIDE DEF next
  <2> QED
    BY <2>1, OnboardStarts
<1>6. ASSUME NEW c \in Calls, Onboard!AssignWrite(c) PROVE OnboardInv'
  <2>1. /\ call' = [call EXCEPT ![c] = Onboard!NoCall] /\ call[c].do = "assign"
        /\ UNCHANGED <<template, announced, overlap, aborted>>
    BY <1>6 DEF Onboard!AssignWrite, Onboard!Finish
  <2>2. CASE UNCHANGED <<status, task>>
    <3>1. Onboard!Pending' = Onboard!Pending /\ OnboardOver' = OnboardOver
      BY <2>2 DEF Onboard!Pending, OnboardOver
    <3>2. OnboardFollows' /\ (~overlap' => OnboardAlone')
      BY <2>1, <2>2, <3>1 DEF OnboardFollows, OnboardAlone
    <3> QED
      BY <2>1, <2>2, <3>2
  <2>3. CASE /\ status = "NONE" /\ status' = "IN_PROGRESS"
             /\ task' = [t \in Tasks |-> IF t \in call[c].tasks THEN "PENDING" ELSE "NONE"]
    <3>1. OnboardFollows'
      BY <2>1, <2>3 DEF OnboardFollows, OnboardOver
    <3>2. ~overlap' => OnboardAlone'
      <4> SUFFICES ASSUME ~overlap PROVE OnboardAlone'
        BY <2>1
      <4>1. \A d \in Calls : call'[d] = Onboard!NoCall
        BY <2>1 DEF OnboardAlone
      <4>2. ~(announced /\ ~aborted)
        BY <2>1, <2>3 DEF OnboardAlone, OnboardOver
      <4>3. (\E t \in Tasks : task'[t] # "NONE") => Onboard!Pending' # {}
        BY <2>3 DEF Onboard!Pending
      <4> QED
        BY <2>1, <4>1, <4>2, <4>3 DEF OnboardAlone
    <3> QED
      BY <2>1, <2>3, <3>1, <3>2
  <2> QED
    BY <1>6, <2>2, <2>3 DEF Onboard!AssignWrite
<1>7. ASSUME NEW c \in Calls, Onboard!CompleteCount(c) PROVE OnboardInv'
  <2> DEFINE zero == Onboard!Pending \ {call[c].task} = {}
  <2>1. /\ call[c].do = "complete" /\ call' = [call EXCEPT ![c].do = "commit", ![c].zero = zero]
        /\ announced' = (announced \/ zero)
        /\ UNCHANGED <<template, status, task, overlap, aborted>>
    BY <1>7 DEF Onboard!CompleteCount, Onboard!CountWith
  <2>2. zero \in BOOLEAN /\ (zero <=> Onboard!Pending \subseteq {call[c].task})
    OBVIOUS
  <2> HIDE DEF zero
  <2>3. /\ call'[c].do = "commit" /\ call'[c].zero = zero /\ call'[c].task = call[c].task
        /\ \A d \in Calls : d # c => call'[d] = call[d]
    BY <2>1
  <2>4. Onboard!Pending' = Onboard!Pending /\ OnboardOver' = OnboardOver
    BY <2>1 DEF Onboard!Pending, OnboardOver
  <2>5. Onboard!TypeOK'
    BY <2>1, <2>2
  <2>6. OnboardFollows'
    BY <2>1, <2>2, <2>3, <2>4 DEF OnboardFollows
  <2>7. ~overlap' => OnboardAlone'
    <3> SUFFICES ASSUME ~overlap PROVE OnboardAlone'
      BY <2>1
    <3>1. \A d \in Calls : d # c => call[d] = Onboard!NoCall /\ call'[d] = Onboard!NoCall
      BY <2>1, <2>3 DEF OnboardAlone
    <3>2. announced' /\ ~aborted' => OnboardOver' \/ \E d \in Calls : call'[d].do = "commit" /\ call'[d].zero
      <4> SUFFICES ASSUME announced', ~aborted', ~OnboardOver
                   PROVE  \E d \in Calls : call'[d].do = "commit" /\ call'[d].zero
        BY <2>4
      <4>1. ~announced
        BY <2>1, <3>1 DEF OnboardAlone
      <4> QED
        BY <2>1, <2>3, <4>1
    <3>3. \A d, e \in Calls : call'[d] # Onboard!NoCall /\ call'[e] # Onboard!NoCall => d = e
      BY <3>1
    <3>4. \A d \in Calls :
            /\ call'[d].do \in {"complete", "commit"} => call'[d].task \in Onboard!Pending'
            /\ call'[d].do = "commit" /\ Onboard!Pending' \subseteq {call'[d].task} => call'[d].zero
      BY <2>1, <2>2, <2>3, <2>4, <3>1 DEF OnboardAlone
    <3>5. (\E t \in Tasks : task'[t] # "NONE") /\ Onboard!Pending' = {} => OnboardOver'
      BY <2>1, <2>4 DEF OnboardAlone
    <3> QED
      BY <3>2, <3>3, <3>4, <3>5 DEF OnboardAlone
  <2> QED
    BY <2>5, <2>6, <2>7
<1>8. ASSUME NEW c \in Calls, Onboard!CompleteCommit(c) PROVE OnboardInv'
  <2> PICK t \in Tasks : t = call[c].task
    BY <1>8 DEF Onboard!CompleteCommit, OnboardFollows
  <2>1. /\ call[c].do = "commit" /\ call' = [call EXCEPT ![c] = Onboard!NoCall]
        /\ task' = [task EXCEPT ![t] = "COMPLETED"]
        /\ status' = IF call[c].zero THEN "COMPLETED" ELSE status
        /\ UNCHANGED <<template, announced, overlap, aborted>>
    BY <1>8 DEF Onboard!CompleteCommit, Onboard!Finish
  <2>2. Onboard!Pending' = Onboard!Pending \ {t}
    BY <2>1 DEF Onboard!Pending
  <2>3. status # "NONE" /\ (call[c].zero => Onboard!Pending' = {})
    BY <2>1, <2>2 DEF OnboardFollows
  <2>4. /\ call[c].zero => OnboardOver'
        /\ ~call[c].zero => OnboardOver' = OnboardOver
    BY <2>1 DEF OnboardOver
  <2>5. OnboardFollows'
    BY <2>1, <2>2, <2>3, <2>4 DEF OnboardFollows
  <2>6. ~overlap' => OnboardAlone'
    <3> SUFFICES ASSUME ~overlap PROVE OnboardAlone'
      BY <2>1
    <3>1. \A d \in Calls : call'[d] = Onboard!NoCall
      BY <2>1 DEF OnboardAlone
    <3>2. \A d \in Calls : d # c => call[d] = Onboard!NoCall
      BY <2>1 DEF OnboardAlone
    <3>3. announced' /\ ~aborted' => OnboardOver'
      BY <2>1, <2>4, <3>2 DEF OnboardAlone
    <3>4. Onboard!Pending' = {} => OnboardOver'
      BY <2>1, <2>2, <2>4 DEF OnboardAlone
    <3> QED
      BY <3>1, <3>3, <3>4 DEF OnboardAlone
  <2> QED
    BY <2>1, <2>5, <2>6
<1>9. ASSUME NEW c \in Calls, Onboard!CancelWrite(c) PROVE OnboardInv'
  <2>1. /\ call[c].do = "cancel" /\ call' = [call EXCEPT ![c] = Onboard!NoCall]
        /\ task' = [t \in Tasks |-> IF t \in Onboard!Pending THEN "SKIPPED" ELSE task[t]]
        /\ status' = "CANCELLED"
        /\ UNCHANGED <<template, announced, overlap, aborted>>
    BY <1>9 DEF Onboard!CancelWrite, Onboard!Finish
  <2>2. Onboard!Pending' = {} /\ OnboardOver'
    BY <2>1 DEF Onboard!Pending, OnboardOver
  <2>3. OnboardFollows'
    BY <2>1, <2>2 DEF OnboardFollows
  <2>4. ~overlap' => OnboardAlone'
    <3> SUFFICES ASSUME ~overlap PROVE OnboardAlone'
      BY <2>1
    <3>1. \A d \in Calls : call'[d] = Onboard!NoCall
      BY <2>1 DEF OnboardAlone
    <3> QED
      BY <2>2, <3>1 DEF OnboardAlone
  <2> QED
    BY <2>1, <2>3, <2>4
<1>10. ASSUME NEW c \in Calls, Onboard!Abort(c) PROVE OnboardInv'
  <2>1. /\ call' = [call EXCEPT ![c] = Onboard!NoCall] /\ aborted'
        /\ aborted' \in BOOLEAN /\ UNCHANGED <<template, status, task, announced, overlap>>
    BY <1>10 DEF Onboard!Abort, Onboard!Finish
  <2>2. Onboard!Pending' = Onboard!Pending /\ OnboardOver' = OnboardOver
    BY <2>1 DEF Onboard!Pending, OnboardOver
  <2>3. OnboardFollows' /\ (~overlap' => OnboardAlone')
    BY <2>1, <2>2 DEF OnboardFollows, OnboardAlone
  <2> QED
    BY <2>1, <2>3
<1> QED
  BY <1>1, <1>2, <1>3, <1>4, <1>5, <1>6, <1>7, <1>8, <1>9, <1>10 DEF Onboard!Next

\* The invariant implies what the run checks of this part.
LEMMA OnboardDone == OnboardInv => Onboard!DoneMeansAllDone
<1> SUFFICES ASSUME OnboardInv PROVE Onboard!DoneMeansAllDone
  OBVIOUS
<1>1. {t \in Tasks : task[t] # "NONE"} # {} => \E t \in Tasks : task[t] # "NONE"
  OBVIOUS
<1> QED
  BY <1>1 DEF OnboardInv, OnboardFollows, OnboardAlone, OnboardOver, Onboard!DoneMeansAllDone
-------------------------------------------------------------------------------
(* Offboarding                                                                *)

\* An approved request has a checklist, and a call on a task has a row in hand.
OffboardFollows ==
  /\ copies = 0 => status \notin {"APPROVED", "CHECKLIST_IN_PROGRESS"}
  /\ \A c \in Calls : /\ call[c].do = "promote" => copies > 0
                      /\ call[c].do \in {"complete", "skip"} =>
                           call[c].row \in Offboard!Rows /\ task[call[c].row] # "NONE"
  /\ \A r \in Offboard!Rows : task[r] # "NONE" => r[2] <= copies

\* All tasks, or none, are decided.
OffboardDone == \A r \in Offboard!Rows : task[r] # "PENDING"
OffboardNew  == \A r \in Offboard!Rows : task[r] \in {"NONE", "PENDING"}

\* What was checked still holds when it is written.
OffboardAlone ==
  /\ \A c, d \in Calls : call[c] # Offboard!NoCall /\ call[d] # Offboard!NoCall => c = d
  /\ copies <= 1
  /\ status \in {"NONE", "SUBMITTED", "PENDING_MANAGER_APPROVAL"} => copies = 0
  /\ \A c \in Calls :
       /\ call[c].do = "approve" => status \in {"SUBMITTED", "PENDING_MANAGER_APPROVAL"}
       /\ call[c].do \in {"reject", "cancel"} => status # "COMPLETED"
       /\ call[c].do = "promote" => status = "APPROVED"
       /\ call[c].do = "finalize" => status # "COMPLETED" /\ interview /\ OffboardDone
       /\ call[c].do = "emit" => status = "COMPLETED" /\ events = 0
  /\ status = "COMPLETED" => /\ interview /\ OffboardDone
                             /\ events = 1 \/ \E c \in Calls : call[c].do = "emit"
  /\ status # "COMPLETED" => events = 0
  /\ status = "APPROVED" =>
       OffboardNew \/ \E c \in Calls : call[c].do \in {"progress", "promote"}

\* Offboarding: the inductive invariant.
OffboardInv == Offboard!TypeOK /\ OffboardFollows /\ (~disturbed => OffboardAlone)

OffboardCall == [do : {"idle", "approve", "reject", "cancel", "complete", "skip",
                       "progress", "promote", "finalize", "emit"},
                 row : Offboard!Rows \cup {Offboard!NoRow}]

LEMMA OffboardIdle ==
  /\ Offboard!NoCall.do = "idle" /\ Offboard!NoCall \in OffboardCall
  /\ MaxCopies \in Nat /\ \A r \in Offboard!Rows : r[2] \in Nat /\ r[2] >= 1
<1>1. MaxCopies \in Nat
  BY PeopleAssumption DEF PeopleAssumption
<1>2. \A r \in Offboard!Rows : r[2] \in Nat /\ r[2] >= 1
  BY <1>1 DEF Offboard!Rows
<1> QED
  BY <1>1, <1>2 DEF Offboard!NoCall, OffboardCall

\* Offboarding: the invariant holds at the start.
LEMMA OffboardInit == Offboard!Init => OffboardInv
<1> SUFFICES ASSUME Offboard!Init PROVE OffboardInv
  OBVIOUS
<1> USE OffboardIdle DEF Offboard!Init
<1>1. Offboard!TypeOK
  <2>1. copies \in 0..MaxCopies /\ events \in Nat
    OBVIOUS
  <2> QED
    BY <2>1 DEF Offboard!TypeOK, OffboardCall, Offboard!Statuses
<1>2. OffboardFollows /\ OffboardAlone
  BY DEF OffboardFollows, OffboardAlone
<1> QED
  BY <1>1, <1>2 DEF OffboardInv

\* A call starts: the rows stay.
LEMMA OffboardStarts ==
  ASSUME OffboardInv, NEW c \in Calls, NEW do, NEW row, Offboard!Start(c, do, row),
         [do |-> do, row |-> row] \in OffboardCall,
         \/ do = "approve" /\ status \in {"SUBMITTED", "PENDING_MANAGER_APPROVAL"}
         \/ do \in {"reject", "cancel"} /\ status # "COMPLETED"
         \/ do \in {"complete", "skip"} /\ row \in Offboard!Rows /\ task[row] # "NONE"
         \/ do = "finalize" /\ status # "COMPLETED" /\ interview /\ OffboardDone
  PROVE  OffboardInv'
<1> DEFINE next == [do |-> do, row |-> row]
<1> USE OffboardIdle DEF OffboardInv, Offboard!TypeOK, OffboardCall
<1>1. /\ call' = [call EXCEPT ![c] = next] /\ call[c] = Offboard!NoCall
      /\ UNCHANGED <<status, task, copies, interview, events>>
      /\ disturbed' \in BOOLEAN
      /\ (~disturbed' => ~disturbed /\ \A d \in Calls : call[d] = Offboard!NoCall)
  BY DEF Offboard!Start
<1>2. next.do = do /\ next.row = row /\ next \in OffboardCall
  OBVIOUS
<1> HIDE DEF next
<1>3. OffboardDone' = OffboardDone /\ OffboardNew' = OffboardNew
  BY <1>1 DEF OffboardDone, OffboardNew
<1>4. Offboard!TypeOK'
  BY <1>1, <1>2
<1>5. OffboardFollows'
  BY <1>1, <1>2 DEF OffboardFollows
<1>6. ~disturbed' => OffboardAlone'
  BY <1>1, <1>2, <1>3 DEF OffboardAlone
<1> QED
  BY <1>4, <1>5, <1>6

\* Offboarding: every step, and a stutter, keeps the invariant.
LEMMA OffboardNext == OffboardInv /\ [Offboard!Next]_(Offboard!vars) => OffboardInv'
<1> SUFFICES ASSUME OffboardInv, [Offboard!Next]_(Offboard!vars) PROVE OffboardInv'
  OBVIOUS
<1> USE OffboardIdle DEF OffboardInv, Offboard!TypeOK, OffboardCall, Offboard!At, Offboard!Finish
<1>1. CASE UNCHANGED Offboard!vars
  BY <1>1 DEF Offboard!vars, OffboardFollows, OffboardAlone, OffboardDone, OffboardNew
<1>2. CASE Offboard!submit \/ Offboard!InterviewHeld
  <2>1. /\ UNCHANGED <<task, copies, events, call, disturbed>> /\ interview' \in BOOLEAN
        /\ \/ /\ status = "NONE" /\ UNCHANGED interview
              /\ status' \in {"SUBMITTED", "PENDING_MANAGER_APPROVAL"}
           \/ interview' /\ UNCHANGED status
    BY <1>2 DEF Offboard!submit, Offboard!InterviewHeld
  <2>2. OffboardDone' = OffboardDone /\ OffboardNew' = OffboardNew
    BY <2>1 DEF OffboardDone, OffboardNew
  <2>3. Offboard!TypeOK' /\ OffboardFollows'
    BY <2>1 DEF Offboard!Statuses, OffboardFollows
  <2>4. ~disturbed' => OffboardAlone'
    BY <2>1, <2>2 DEF OffboardAlone
  <2> QED
    BY <2>3, <2>4
<1>3. ASSUME NEW c \in Calls,
             Offboard!ApproveCheck(c) \/ Offboard!RejectCheck(c) \/ Offboard!CancelCheck(c)
      PROVE  OffboardInv'
  <2>1. \E do \in {"approve", "reject", "cancel"} :
          /\ Offboard!Start(c, do, Offboard!NoRow)
          /\ status # "COMPLETED"
          /\ do = "approve" => status \in {"SUBMITTED", "PENDING_MANAGER_APPROVAL"}
    BY <1>3 DEF Offboard!ApproveCheck, Offboard!RejectCheck, Offboard!CancelCheck, Offboard!Allowed
  <2>2. \A do \in {"approve", "reject", "cancel"} :
           [do |-> do, row |-> Offboard!NoRow] \in OffboardCall
    OBVIOUS
  <2> QED
    BY <2>1, <2>2, OffboardStarts
<1>4. ASSUME NEW c \in Calls, NEW r \in Offboard!Rows,
             Offboard!CompleteCheck(c, r) \/ Offboard!SkipCheck(c, r)
      PROVE  OffboardInv'
  <2>1. \E do \in {"complete", "skip"} : Offboard!Start(c, do, r) /\ task[r] # "NONE"
    BY <1>4 DEF Offboard!CompleteCheck, Offboard!SkipCheck
  <2>2. \A do \in {"complete", "skip"} : [do |-> do, row |-> r] \in OffboardCall
    OBVIOUS
  <2> QED
    BY <2>1, <2>2, OffboardStarts
<1>5. ASSUME NEW c \in Calls, Offboard!FinalizeCheck(c) PROVE OffboardInv'
  <2>1. /\ Offboard!Start(c, "finalize", Offboard!NoRow)
        /\ status # "COMPLETED" /\ interview /\ OffboardDone
    BY <1>5 DEF Offboard!FinalizeCheck, OffboardDone
  <2>2. [do |-> "finalize", row |-> Offboard!NoRow] \in OffboardCall
    OBVIOUS
  <2> QED
    BY <2>1, <2>2, OffboardStarts
<1>6. ASSUME NEW c \in Calls, Offboard!ApproveWrite(c) PROVE OffboardInv'
  <2> PICK n \in Nat : n = copies + 1
    OBVIOUS
  <2>1. /\ call[c].do = "approve" /\ copies < MaxCopies /\ status' = "APPROVED" /\ copies' = n
        /\ task' = [r \in Offboard!Rows |-> IF r[2] = n THEN "PENDING" ELSE task[r]]
        /\ call' = [call EXCEPT ![c] = Offboard!NoCall] /\ UNCHANGED <<interview, events, disturbed>>
    BY <1>6 DEF Offboard!ApproveWrite
  <2>2. Offboard!TypeOK'
    BY <2>1 DEF Offboard!Statuses
  <2>3. OffboardFollows'
    BY <2>1 DEF OffboardFollows
  <2>4. ~disturbed' => OffboardAlone'
    <3> SUFFICES ASSUME ~disturbed PROVE OffboardAlone'
      BY <2>1
    <3>1. \A d \in Calls : call'[d] = Offboard!NoCall
      BY <2>1 DEF OffboardAlone
    <3>2. copies = 0 /\ events = 0
      BY <2>1 DEF OffboardAlone
    <3>3. OffboardNew'
      BY <2>1, <3>2 DEF OffboardNew, OffboardFollows
    <3> QED
      BY <2>1, <3>1, <3>2, <3>3 DEF OffboardAlone
  <2> QED
    BY <2>2, <2>3, <2>4
<1>7. ASSUME NEW c \in Calls, Offboard!StatusWrite(c) PROVE OffboardInv'
  <2>1. /\ call[c].do \in {"reject", "cancel"} /\ status' \in {"REJECTED", "CANCELLED"}
        /\ call' = [call EXCEPT ![c] = Offboard!NoCall]
        /\ UNCHANGED <<task, copies, interview, events, disturbed>>
    BY <1>7 DEF Offboard!StatusWrite
  <2>2. Offboard!TypeOK' /\ OffboardFollows'
    BY <2>1 DEF Offboard!Statuses, OffboardFollows
  <2>3. ~disturbed' => OffboardAlone'
    <3> SUFFICES ASSUME ~disturbed PROVE OffboardAlone'
      BY <2>1
    <3>1. \A d \in Calls : call'[d] = Offboard!NoCall
      BY <2>1 DEF OffboardAlone
    <3> QED
      BY <2>1, <3>1 DEF OffboardAlone
  <2> QED
    BY <2>2, <2>3
<1>8. ASSUME NEW c \in Calls, Offboard!TaskWrite(c) PROVE OffboardInv'
  <2> PICK r \in Offboard!Rows : r = call[c].row
    BY <1>8 DEF Offboard!TaskWrite, OffboardFollows
  <2>a. task[r] # "NONE"
    BY <1>8 DEF Offboard!TaskWrite, OffboardFollows
  <2> PICK new \in {"SKIPPED", "COMPLETED"} : task' = [task EXCEPT ![r] = new]
    BY <1>8 DEF Offboard!TaskWrite
  <2>1. /\ call[c].do \in {"complete", "skip"}
        /\ call' = [call EXCEPT ![c].do = "progress"]
        /\ UNCHANGED <<status, copies, interview, events, disturbed>>
    BY <1>8 DEF Offboard!TaskWrite
  <2>2. call'[c].do = "progress" /\ \A d \in Calls : d # c => call'[d] = call[d]
    BY <2>1
  <2>3. Offboard!TypeOK'
    BY <2>1
  <2>4. OffboardFollows'
    BY <2>a, <2>1, <2>2 DEF OffboardFollows
  <2>5. ~disturbed' => OffboardAlone'
    <3> SUFFICES ASSUME ~disturbed PROVE OffboardAlone'
      BY <2>1
    <3>1. \A d \in Calls : d # c => call[d] = Offboard!NoCall /\ call'[d] = Offboard!NoCall
      BY <2>1, <2>2 DEF OffboardAlone
    <3>2. OffboardDone => OffboardDone'
      BY DEF OffboardDone
    <3> QED
      BY <2>1, <2>2, <3>1, <3>2 DEF OffboardAlone
  <2> QED
    BY <2>3, <2>4, <2>5
<1>9. ASSUME NEW c \in Calls, Offboard!ProgressCheck(c) PROVE OffboardInv'
  <2>1. /\ call[c].do = "progress"
        /\ UNCHANGED <<status, task, copies, interview, events, disturbed>>
        /\ \/ status = "APPROVED" /\ call' = [call EXCEPT ![c].do = "promote"]
           \/ /\ status = "APPROVED" => \A r \in Offboard!Rows : task[r] \notin {"COMPLETED", "SKIPPED"}
              /\ call' = [call EXCEPT ![c] = Offboard!NoCall]
    BY <1>9 DEF Offboard!ProgressCheck
  <2>2. OffboardDone' = OffboardDone /\ OffboardNew' = OffboardNew
    BY <2>1 DEF OffboardDone, OffboardNew
  <2>3. CASE status = "APPROVED" /\ call' = [call EXCEPT ![c].do = "promote"]
    <3>1. call'[c].do = "promote" /\ \A d \in Calls : d # c => call'[d] = call[d]
      BY <2>3
    <3>2. copies > 0
      BY <2>3 DEF OffboardFollows
    <3>4. Offboard!TypeOK' /\ OffboardFollows'
      BY <2>1, <2>3, <3>1, <3>2 DEF OffboardFollows
    <3>3. ~disturbed' => OffboardAlone'
      BY <2>1, <2>2, <2>3, <3>1 DEF OffboardAlone
    <3> QED
      BY <3>3, <3>4
  <2>4. CASE /\ status = "APPROVED" => \A r \in Offboard!Rows : task[r] \notin {"COMPLETED", "SKIPPED"}
             /\ call' = [call EXCEPT ![c] = Offboard!NoCall]
    <3>1. Offboard!TypeOK' /\ OffboardFollows'
      BY <2>1, <2>4 DEF OffboardFollows
    <3>2. status = "APPROVED" => OffboardNew
      BY <2>4 DEF OffboardNew
    <3>3. ~disturbed' => OffboardAlone'
      <4> SUFFICES ASSUME ~disturbed PROVE OffboardAlone'
        BY <2>1
      <4>1. \A d \in Calls : call'[d] = Offboard!NoCall
        BY <2>1, <2>4 DEF OffboardAlone
      <4>2. status = "COMPLETED" => events = 1
        BY <2>1 DEF OffboardAlone
      <4> QED
        BY <2>1, <2>2, <3>2, <4>1, <4>2 DEF OffboardAlone
    <3> QED
      BY <3>1, <3>3
  <2> QED
    BY <2>1, <2>3, <2>4
<1>10. ASSUME NEW c \in Calls, Offboard!ProgressWrite(c) PROVE OffboardInv'
  <2>1. /\ call[c].do = "promote" /\ status' = "CHECKLIST_IN_PROGRESS"
        /\ call' = [call EXCEPT ![c] = Offboard!NoCall]
        /\ UNCHANGED <<task, copies, interview, events, disturbed>>
    BY <1>10 DEF Offboard!ProgressWrite
  <2>2. Offboard!TypeOK' /\ OffboardFollows'
    BY <2>1 DEF Offboard!Statuses, OffboardFollows
  <2>3. ~disturbed' => OffboardAlone'
    <3> SUFFICES ASSUME ~disturbed PROVE OffboardAlone'
      BY <2>1
    <3>1. \A d \in Calls : call'[d] = Offboard!NoCall
      BY <2>1 DEF OffboardAlone
    <3> QED
      BY <2>1, <3>1 DEF OffboardAlone
  <2> QED
    BY <2>2, <2>3
<1>11. ASSUME NEW c \in Calls, Offboard!FinalizeWrite(c) PROVE OffboardInv'
  <2>1. /\ call[c].do = "finalize" /\ status' = "COMPLETED"
        /\ call' = [call EXCEPT ![c].do = "emit"]
        /\ UNCHANGED <<task, copies, interview, events, disturbed>>
    BY <1>11 DEF Offboard!FinalizeWrite
  <2>2. call'[c].do = "emit" /\ \A d \in Calls : d # c => call'[d] = call[d]
    BY <2>1
  <2>3. Offboard!TypeOK' /\ OffboardFollows'
    BY <2>1, <2>2 DEF Offboard!Statuses, OffboardFollows
  <2>4. ~disturbed' => OffboardAlone'
    <3> SUFFICES ASSUME ~disturbed PROVE OffboardAlone'
      BY <2>1
    <3>1. \A d \in Calls : d # c => call'[d] = Offboard!NoCall
      BY <2>1, <2>2 DEF OffboardAlone
    <3>2. OffboardDone' /\ interview /\ events = 0
      BY <2>1 DEF OffboardAlone, OffboardDone
    <3> QED
      BY <2>1, <2>2, <3>1, <3>2 DEF OffboardAlone
  <2> QED
    BY <2>3, <2>4
<1>12. ASSUME NEW c \in Calls, Offboard!Emit(c) PROVE OffboardInv'
  <2>1. /\ call[c].do = "emit" /\ events' = events + 1
        /\ call' = [call EXCEPT ![c] = Offboard!NoCall]
        /\ UNCHANGED <<status, task, copies, interview, disturbed>>
    BY <1>12 DEF Offboard!Emit
  <2>2. Offboard!TypeOK' /\ OffboardFollows'
    BY <2>1 DEF OffboardFollows
  <2>3. ~disturbed' => OffboardAlone'
    <3> SUFFICES ASSUME ~disturbed PROVE OffboardAlone'
      BY <2>1
    <3>1. \A d \in Calls : call'[d] = Offboard!NoCall
      BY <2>1 DEF OffboardAlone
    <3>2. OffboardDone' = OffboardDone /\ status = "COMPLETED" /\ events = 0
      BY <2>1 DEF OffboardDone, OffboardAlone
    <3> QED
      BY <2>1, <3>1, <3>2 DEF OffboardAlone
  <2> QED
    BY <2>2, <2>3
<1>13. ASSUME NEW c \in Calls, Offboard!Abort(c) PROVE OffboardInv'
  BY <1>13 DEF Offboard!Abort, OffboardFollows
<1> QED
  BY <1>1, <1>2, <1>3, <1>4, <1>5, <1>6, <1>7, <1>8, <1>9, <1>10, <1>11, <1>12, <1>13
     DEF Offboard!Next

\* The invariant implies what the run checks of this part.
LEMMA OffboardDoneMeans == OffboardInv => Offboard!DoneMeansAllDone
BY OffboardIdle DEF OffboardInv, OffboardFollows, OffboardAlone, OffboardDone, OffboardNew,
   Offboard!DoneMeansAllDone
-------------------------------------------------------------------------------
(* Interviews                                                                 *)

\* Only schedulePanel's call runs before there is a panel, and no second one.
PanelFollows ==
  /\ status # "NONE" => stage # "SCREENING"
  /\ \A c \in Calls : /\ call[c].do # "idle" => stage # "SCREENING"
                      /\ call[c].do = "create" => status = "NONE"
                      /\ call[c].do \notin {"idle", "create"} => status # "NONE"
                      /\ call[c].do = "card" => call[c].who \in Panelists
  /\ \A c, d \in Calls : call[c].do = "create" /\ call[d].do = "create" => c = d

\* Panelists only come; who submits the last scorecard counts enough of them.
PanelSteady ==
  /\ cards \subseteq panel
  /\ \A c \in Calls :
       /\ call[c].do = "card" => call[c].who \in panel
       /\ call[c].do \in {"card", "count"} => call[c].size <= Cardinality(panel)
  /\ cards = panel /\ panel # {} =>
       status = "COMPLETED" \/ \E c \in Calls : call[c].do \in {"count", "complete"}

\* The panel has one lead.
PanelLed == \E p \in Panelists : lead = {p}

\* What a call has checked about the panel and its cards still holds.
PanelAlone ==
  /\ \A c, d \in Calls : call[c].do # "idle" /\ call[d].do # "idle" => c = d
  /\ \A c \in Calls :
       /\ call[c].do = "create" => panel = {} /\ call[c].todo # {}
       /\ call[c].do = "add" => status = "SCHEDULED" /\ call[c].todo \cap panel = {}
       /\ call[c].do \in {"create", "add"} =>
            IF call[c].who \in call[c].todo THEN lead = {} ELSE PanelLed
       /\ call[c].do \in {"card", "count"} => call[c].size = Cardinality(panel)
       /\ call[c].do = "complete" => panel \subseteq cards
  /\ status = "NONE" => panel = {} /\ lead = {}
  /\ status # "NONE" => PanelLed \/ \E c \in Calls : call[c].do = "add"
  /\ status = "COMPLETED" => panel \subseteq cards

\* Interviews: the inductive invariant.
PanelInv ==
  /\ Panel!TypeOK /\ PanelFollows
  /\ ~changed /\ ~aborted => PanelSteady
  /\ ~changed /\ ~aborted /\ ~overlap => PanelAlone

PanelCall == [do : {"idle", "create", "add", "clear", "card", "count", "complete", "cancel"},
              who : Panelists \cup {Panel!None}, todo : SUBSET Panelists, size : Nat]

LEMMA PanelIdle ==
  /\ Panel!NoCall.do = "idle" /\ Panel!NoCall.size = 0 /\ Panel!NoCall.todo = {}
  /\ Panel!NoCall.who = Panel!None /\ Panel!NoCall \in PanelCall
BY DEF Panel!NoCall, PanelCall

\* As many panelists of S as S has are all of S.
LEMMA PanelCounted ==
  ASSUME NEW S \in SUBSET Panelists
  PROVE  /\ Cardinality(S) \in Nat /\ IsFiniteSet(S) /\ Panel!Cardinality(S) = Cardinality(S)
         /\ \A T \in SUBSET S : /\ Cardinality(T) <= Cardinality(S) /\ Cardinality(T) \in Nat
                                /\ Cardinality(T) >= Cardinality(S) => T = S
<1>1. IsFiniteSet(Panelists)
  BY PeopleAssumption DEF PeopleAssumption
<1>2. IsFiniteSet(S) /\ Cardinality(S) \in Nat
  BY <1>1, FS_Subset, FS_CardinalityType
<1>3. Panel!Cardinality(S) = Cardinality(S)
  BY DEF Panel!Cardinality, Cardinality
<1>4. ASSUME NEW T \in SUBSET S
      PROVE  /\ Cardinality(T) <= Cardinality(S) /\ Cardinality(T) \in Nat
             /\ Cardinality(T) >= Cardinality(S) => T = S
  <2>1. Cardinality(T) <= Cardinality(S) /\ (Cardinality(S) = Cardinality(T) => S = T) /\ IsFiniteSet(T)
    BY <1>2, FS_Subset
  <2>2. Cardinality(T) \in Nat
    BY <2>1, FS_CardinalityType
  <2> QED
    BY <1>2, <2>1, <2>2
<1> QED
  BY <1>2, <1>3, <1>4

\* Interviews: the invariant holds at the start.
LEMMA PanelInit == Panel!Init => PanelInv
<1> SUFFICES ASSUME Panel!Init PROVE PanelInv
  OBVIOUS
<1> USE PanelIdle DEF Panel!Init
<1>1. Panel!TypeOK
  BY DEF Panel!TypeOK, PanelCall
<1>2. PanelFollows /\ PanelSteady /\ PanelAlone
  BY DEF PanelFollows, PanelSteady, PanelAlone
<1> QED
  BY <1>1, <1>2 DEF PanelInv

\* A call starts: but for the stage, the rows stay.
LEMMA PanelStarts ==
  ASSUME PanelInv, NEW c \in Calls, NEW next \in PanelCall, Panel!Start(c, next),
         stage' \in {"INTERVIEW", "later"} \/ stage' = stage, UNCHANGED changed,
         \/ /\ next.do = "create" /\ status = "NONE" /\ stage' = "INTERVIEW"
            /\ next.who \in next.todo /\ \A b \in Calls : call[b].do # "create"
         \/ next.do \in {"clear", "cancel"} /\ status # "NONE"
         \/ /\ next.do = "card" /\ status # "NONE" /\ next.who \in panel
            /\ next.size = Cardinality(panel)
  PROVE  PanelInv'
<1> USE PanelIdle DEF PanelInv, Panel!TypeOK, PanelCall
<1>1. /\ call' = [call EXCEPT ![c] = next] /\ call[c] = Panel!NoCall
      /\ UNCHANGED <<status, panel, lead, cards, aborted, changed>>
      /\ overlap' \in BOOLEAN
      /\ (~overlap' => ~overlap /\ \A d \in Calls : call[d] = Panel!NoCall)
  BY DEF Panel!Start, Panel!Busy
<1>2. stage' # "SCREENING"
  BY DEF PanelFollows
<1>3. Panel!TypeOK'
  BY <1>1
<1>4. PanelFollows'
  BY <1>1, <1>2 DEF PanelFollows
<1>5. Cardinality(panel) \in Nat
  BY PanelCounted
<1>6. ~changed' /\ ~aborted' => PanelSteady'
  BY <1>1, <1>5 DEF PanelSteady
<1>7. ~changed' /\ ~aborted' /\ ~overlap' => PanelAlone'
  <2> SUFFICES ASSUME ~changed, ~aborted, ~overlap' PROVE PanelAlone'
    BY <1>1
  <2>1. \A d \in Calls : d # c => call'[d] = Panel!NoCall
    BY <1>1
  <2>2. call'[c] = next /\ PanelLed' = PanelLed
    BY <1>1 DEF PanelLed
  <2>3. PanelAlone
    BY <1>1
  <2>4. status # "NONE" => PanelLed
    BY <1>1, <2>3 DEF PanelAlone
  <2> QED
    BY <1>1, <2>1, <2>2, <2>3, <2>4 DEF PanelAlone
<1> QED
  BY <1>3, <1>4, <1>6, <1>7

\* A call ends, and if it ends half-way, that is noted.
LEMMA PanelEnds ==
  ASSUME PanelInv, NEW c \in Calls, Panel!Finish(c),
         UNCHANGED <<stage, status, panel, lead, cards, overlap, changed>>,
         aborted' \in BOOLEAN, ~aborted' => ~aborted,
         ~aborted' /\ ~changed /\ cards = panel /\ panel # {} =>
           call[c].do \notin {"count", "complete"},
         ~aborted' /\ ~changed /\ ~overlap => PanelLed \/ call[c].do # "add"
  PROVE  PanelInv'
<1> USE PanelIdle DEF PanelInv, Panel!TypeOK, PanelCall
<1>1. call' = [call EXCEPT ![c] = Panel!NoCall]
  BY DEF Panel!Finish
<1>2. Panel!TypeOK' /\ PanelFollows'
  BY <1>1 DEF PanelFollows
<1>3. ~changed' /\ ~aborted' => PanelSteady'
  BY <1>1 DEF PanelSteady
<1>4. PanelLed' = PanelLed
  BY DEF PanelLed
<1>5. ~changed' /\ ~aborted' /\ ~overlap' => PanelAlone'
  BY <1>1, <1>4 DEF PanelAlone
<1> QED
  BY <1>2, <1>3, <1>5

\* Interviews: every step, and a stutter, keeps the invariant.
LEMMA PanelNext == PanelInv /\ [Panel!Next]_(Panel!vars) => PanelInv'
<1> SUFFICES ASSUME PanelInv, [Panel!Next]_(Panel!vars) PROVE PanelInv'
  OBVIOUS
<1> USE PanelIdle DEF PanelInv, Panel!TypeOK, PanelCall, Panel!At, Panel!Goto
<1>1. CASE UNCHANGED Panel!vars
  BY <1>1 DEF Panel!vars, PanelFollows, PanelSteady, PanelAlone, PanelLed
<1>2. CASE Panel!ScheduleRefused \/ Panel!StageMoves
  <2>1. /\ stage' \in {"INTERVIEW", "later"}
        /\ UNCHANGED <<status, panel, lead, cards, call, overlap, aborted, changed>>
    BY <1>2 DEF Panel!ScheduleRefused, Panel!StageMoves
  <2> QED
    BY <2>1 DEF PanelFollows, PanelSteady, PanelAlone, PanelLed
<1>3. ASSUME NEW c \in Calls, NEW todo \in SUBSET Panelists, Panel!AssignCheck(c, todo)
      PROVE  PanelInv'
  <2> DEFINE next == [Panel!NoCall EXCEPT !.do = "clear", !.todo = todo]
  <2>1. next \in PanelCall /\ next.do = "clear"
    OBVIOUS
  <2>2. Panel!Start(c, next) /\ status # "NONE" /\ UNCHANGED <<stage, changed>>
    BY <1>3 DEF Panel!AssignCheck
  <2> HIDE DEF next, PanelInv
  <2> QED
    BY <2>1, <2>2, PanelStarts
<1>4. ASSUME NEW c \in Calls, NEW todo \in SUBSET Panelists, NEW who \in Panelists,
             Panel!ScheduleCheck(c, who, todo)
      PROVE  PanelInv'
  <2> DEFINE next == [do |-> "create", who |-> who, todo |-> todo, size |-> 0]
  <2>1. next \in PanelCall /\ next.do = "create" /\ next.who = who /\ next.todo = todo
    OBVIOUS
  <2>2. /\ Panel!Start(c, next) /\ status = "NONE" /\ UNCHANGED changed /\ stage' = "INTERVIEW"
        /\ who \in todo /\ \A b \in Calls : call[b].do # "create"
    BY <1>4 DEF Panel!ScheduleCheck
  <2> HIDE DEF next, PanelInv
  <2> QED
    BY <2>1, <2>2, PanelStarts
<1>5. ASSUME NEW c \in Calls, NEW p \in Panelists, Panel!SubmitCheck(c, p) PROVE PanelInv'
  <2> DEFINE next == [Panel!NoCall EXCEPT !.do = "card", !.who = p, !.size = Cardinality(panel)]
  <2>1. Cardinality(panel) \in Nat /\ Panel!Cardinality(panel) = Cardinality(panel)
    BY PanelCounted
  <2>2. next \in PanelCall /\ next.do = "card" /\ next.who = p /\ next.size = Cardinality(panel)
    BY <2>1
  <2>3. Panel!Start(c, next) /\ status # "NONE" /\ p \in panel /\ UNCHANGED <<stage, changed>>
    BY <1>5, <2>1 DEF Panel!SubmitCheck
  <2> HIDE DEF next, PanelInv
  <2> QED
    BY <2>2, <2>3, PanelStarts
<1>6. ASSUME NEW c \in Calls, Panel!CancelCheck(c) PROVE PanelInv'
  <2> DEFINE next == [Panel!NoCall EXCEPT !.do = "cancel"]
  <2>1. next \in PanelCall /\ next.do = "cancel"
    OBVIOUS
  <2>2. Panel!Start(c, next) /\ status # "NONE" /\ UNCHANGED <<stage, changed>>
    BY <1>6 DEF Panel!CancelCheck
  <2> HIDE DEF next, PanelInv
  <2> QED
    BY <2>1, <2>2, PanelStarts
<1>7. ASSUME NEW c \in Calls, Panel!CreatePanel(c) PROVE PanelInv'
  <2>1. /\ call[c].do = "create" /\ status' = "SCHEDULED" /\ call' = [call EXCEPT ![c].do = "add"]
        /\ UNCHANGED <<stage, panel, lead, cards, overlap, aborted, changed>>
    BY <1>7 DEF Panel!CreatePanel
  <2>2. /\ call'[c].do = "add" /\ call'[c].todo = call[c].todo /\ call'[c].who = call[c].who
        /\ \A d \in Calls : d # c => call'[d] = call[d]
    BY <2>1
  <2>3. Panel!TypeOK' /\ PanelFollows' /\ status = "NONE"
    BY <2>1, <2>2 DEF PanelFollows
  <2>4. ~changed' /\ ~aborted' => PanelSteady'
    BY <2>1, <2>2, <2>3 DEF PanelSteady
  <2>5. PanelLed' = PanelLed
    BY <2>1 DEF PanelLed
  <2>6. ~changed' /\ ~aborted' /\ ~overlap' => PanelAlone'
    BY <2>1, <2>2, <2>3, <2>5 DEF PanelAlone
  <2> QED
    BY <2>3, <2>4, <2>6
<1>8. ASSUME NEW c \in Calls, NEW p \in Panelists, Panel!AddPanelist(c, p) PROVE PanelInv'
  <2>1. /\ call[c].do = "add" /\ p \in call[c].todo
        /\ UNCHANGED <<stage, status, cards, overlap, aborted, changed>>
    BY <1>8 DEF Panel!AddPanelist
  <2>2. CASE p \in panel
    <3>1. Panel!Finish(c) /\ UNCHANGED <<panel, lead>>
      BY <1>8, <2>2 DEF Panel!AddPanelist
    <3>2. ~(~aborted /\ ~changed /\ ~overlap)
      BY <2>1, <2>2 DEF PanelAlone
    <3> HIDE DEF PanelInv
    <3> QED
      BY <2>1, <3>1, <3>2, PanelEnds DEF PanelInv
  <2>3. CASE p \notin panel
    <3>1. /\ panel' = panel \cup {p}
          /\ lead' = IF p = call[c].who THEN lead \cup {p} ELSE lead
      BY <1>8, <2>3 DEF Panel!AddPanelist
    <3>2. /\ \A d \in Calls : d # c => call'[d] = call[d]
          /\ call' \in [Calls -> PanelCall]
          /\ \/ call[c].todo = {p} /\ call'[c] = Panel!NoCall
             \/ /\ call'[c].do = "add" /\ call'[c].who = call[c].who
                /\ call'[c].todo = call[c].todo \ {p} /\ call'[c].todo # {}
      <4>1. CASE call[c].todo = {p}
        BY <1>8, <2>3, <4>1 DEF Panel!AddPanelist, Panel!Finish
      <4>2. CASE call[c].todo # {p}
        <5>1. call' = [call EXCEPT ![c].todo = call[c].todo \ {p}]
          BY <1>8, <2>3, <4>2 DEF Panel!AddPanelist
        <5>2. call[c].todo \ {p} # {} /\ call[c].todo \ {p} \in SUBSET Panelists
          BY <2>1, <4>2
        <5> QED
          BY <2>1, <5>1, <5>2
      <4> QED
        BY <4>1, <4>2
    <3>3. Panel!TypeOK' /\ PanelFollows'
      BY <2>1, <3>1, <3>2 DEF PanelFollows
    <3>4. /\ Cardinality(panel) \in Nat /\ Cardinality(panel') \in Nat
          /\ Cardinality(panel) <= Cardinality(panel')
      BY <3>1, PanelCounted
    <3>5. \A n \in Nat : n <= Cardinality(panel) => n <= Cardinality(panel')
      BY <3>4
    <3>6. ~changed' /\ ~aborted' => PanelSteady'
      <4> SUFFICES ASSUME ~changed, ~aborted PROVE PanelSteady'
        BY <2>1
      <4>1. cards' \subseteq panel' /\ cards' # panel'
        BY <2>1, <2>3, <3>1 DEF PanelSteady
      <4>2. \A d \in Calls :
              /\ call'[d].do = "card" => call'[d].who \in panel'
              /\ call'[d].do \in {"card", "count"} => call'[d].size <= Cardinality(panel')
        BY <2>1, <3>1, <3>2, <3>5 DEF PanelSteady
      <4> QED
        BY <4>1, <4>2 DEF PanelSteady
    <3>7. ~changed' /\ ~aborted' /\ ~overlap' => PanelAlone'
      <4> SUFFICES ASSUME ~changed, ~aborted, ~overlap PROVE PanelAlone'
        BY <2>1
      <4>1. \A d \in Calls : d # c => call[d].do = "idle" /\ call'[d].do = "idle"
        BY <2>1, <3>2 DEF PanelAlone
      <4>2. status = "SCHEDULED" /\ call[c].todo \cap panel = {}
        BY <2>1 DEF PanelAlone
      <4>3. CASE call[c].who \in call[c].todo
        <5>1. lead = {}
          BY <2>1, <4>3 DEF PanelAlone
        <5>2. p = call[c].who => PanelLed'
          BY <3>1, <5>1 DEF PanelLed
        <5>3. p # call[c].who => lead' = {} /\ call[c].todo # {p}
          BY <3>1, <4>3, <5>1
        <5> QED
          BY <2>1, <3>1, <3>2, <4>1, <4>2, <4>3, <5>2, <5>3 DEF PanelAlone
      <4>4. CASE call[c].who \notin call[c].todo
        <5>1. lead' = lead /\ PanelLed /\ PanelLed'
          BY <2>1, <3>1, <4>4 DEF PanelAlone, PanelLed
        <5> QED
          BY <2>1, <3>1, <3>2, <4>1, <4>2, <4>4, <5>1 DEF PanelAlone
      <4> QED
        BY <4>3, <4>4
    <3> QED
      BY <3>3, <3>6, <3>7
  <2> QED
    BY <2>2, <2>3
<1>9. ASSUME NEW c \in Calls, Panel!ClearPanel(c) \/ Panel!CancelWrite(c) PROVE PanelInv'
  <2>1. /\ call[c].do \in {"clear", "cancel"} /\ changed' = TRUE
        /\ \/ /\ panel' = {} /\ lead' = {} /\ call' = [call EXCEPT ![c].do = "add"] /\ UNCHANGED status
           \/ /\ status' = "CANCELLED" /\ call' = [call EXCEPT ![c] = Panel!NoCall]
              /\ UNCHANGED <<panel, lead>>
        /\ UNCHANGED <<stage, cards, overlap, aborted>>
    BY <1>9 DEF Panel!ClearPanel, Panel!CancelWrite, Panel!Finish
  <2>2. Panel!TypeOK'
    BY <2>1
  <2>3. PanelFollows'
    BY <2>1 DEF PanelFollows
  <2> QED
    BY <2>1, <2>2, <2>3
<1>10. ASSUME NEW c \in Calls, Panel!SubmitCard(c) PROVE PanelInv'
  <2>1. /\ call[c].do = "card" /\ cards' = cards \cup {call[c].who}
        /\ call' = [call EXCEPT ![c].do = "count"]
        /\ UNCHANGED <<stage, status, panel, lead, overlap, aborted, changed>>
    BY <1>10 DEF Panel!SubmitCard
  <2>2. /\ call'[c].do = "count" /\ call'[c].size = call[c].size
        /\ \A d \in Calls : d # c => call'[d] = call[d]
    BY <2>1
  <2>3. PanelFollows'
    BY <2>1, <2>2 DEF PanelFollows
  <2>4. ~changed' /\ ~aborted' => PanelSteady'
    BY <2>1, <2>2 DEF PanelSteady
  <2>5. PanelLed' = PanelLed
    BY <2>1 DEF PanelLed
  <2>6. ~changed' /\ ~aborted' /\ ~overlap' => PanelAlone'
    BY <2>1, <2>2, <2>5 DEF PanelAlone
  <2>7. Panel!TypeOK'
    <3>1. call[c].who \in Panelists
      BY <2>1 DEF PanelFollows
    <3> QED
      BY <2>1, <3>1
  <2> QED
    BY <2>3, <2>4, <2>6, <2>7
<1>11. ASSUME NEW c \in Calls, Panel!SubmitCount(c) PROVE PanelInv'
  <2>1. /\ call[c].do = "count"
        /\ UNCHANGED <<stage, status, panel, lead, cards, overlap, aborted, changed>>
        /\ \/ Cardinality(cards) >= call[c].size /\ call' = [call EXCEPT ![c].do = "complete"]
           \/ ~(Cardinality(cards) >= call[c].size) /\ Panel!Finish(c)
    BY <1>11, PanelCounted DEF Panel!SubmitCount, Panel!CountWith
  <2>2. CASE ~(Cardinality(cards) >= call[c].size) /\ Panel!Finish(c)
    <3>1. ~changed /\ ~aborted => cards # panel
      BY <2>1, <2>2, PanelCounted DEF PanelSteady
    <3> HIDE DEF PanelInv
    <3> QED
      BY <2>1, <2>2, <3>1, PanelEnds DEF PanelInv
  <2>3. CASE Cardinality(cards) >= call[c].size /\ call' = [call EXCEPT ![c].do = "complete"]
    <3>1. call'[c].do = "complete" /\ \A d \in Calls : d # c => call'[d] = call[d]
      BY <2>3
    <3>2. Panel!TypeOK' /\ PanelFollows'
      BY <2>1, <2>3, <3>1 DEF PanelFollows
    <3>3. ~changed' /\ ~aborted' => PanelSteady'
      BY <2>1, <3>1 DEF PanelSteady
    <3>4. PanelLed' = PanelLed
      BY <2>1 DEF PanelLed
    <3>5. ~changed' /\ ~aborted' /\ ~overlap' => PanelAlone'
      <4> SUFFICES ASSUME ~changed, ~aborted, ~overlap PROVE PanelAlone'
        BY <2>1
      <4>1. cards \in SUBSET panel /\ Cardinality(cards) >= Cardinality(panel)
        BY <2>1, <2>3 DEF PanelSteady, PanelAlone
      <4>2. cards = panel
        BY <4>1, PanelCounted
      <4> QED
        BY <2>1, <3>1, <3>4, <4>2 DEF PanelAlone
    <3> QED
      BY <3>2, <3>3, <3>5
  <2> QED
    BY <2>1, <2>2, <2>3
<1>12. ASSUME NEW c \in Calls, Panel!CompletePanel(c) PROVE PanelInv'
  <2>1. /\ call[c].do = "complete" /\ status' = "COMPLETED"
        /\ call' = [call EXCEPT ![c] = Panel!NoCall]
        /\ UNCHANGED <<stage, panel, lead, cards, overlap, aborted, changed>>
    BY <1>12 DEF Panel!CompletePanel, Panel!Finish
  <2>2. Panel!TypeOK' /\ PanelFollows'
    BY <2>1 DEF PanelFollows
  <2>3. ~changed' /\ ~aborted' => PanelSteady'
    BY <2>1 DEF PanelSteady
  <2>4. PanelLed' = PanelLed
    BY <2>1 DEF PanelLed
  <2>5. ~changed' /\ ~aborted' /\ ~overlap' => PanelAlone'
    <3> SUFFICES ASSUME ~changed, ~aborted, ~overlap PROVE PanelAlone'
      BY <2>1
    <3>1. \A d \in Calls : call'[d].do = "idle"
      BY <2>1 DEF PanelAlone
    <3>2. PanelLed /\ panel \subseteq cards
      BY <2>1 DEF PanelAlone, PanelFollows
    <3> QED
      BY <2>1, <2>4, <3>1, <3>2 DEF PanelAlone
  <2> QED
    BY <2>2, <2>3, <2>5
<1>13. ASSUME NEW c \in Calls, Panel!Abort(c) PROVE PanelInv'
  <2>1. /\ Panel!Finish(c) /\ aborted' /\ aborted' \in BOOLEAN
        /\ UNCHANGED <<stage, status, panel, lead, cards, overlap, changed>>
    BY <1>13 DEF Panel!Abort
  <2> HIDE DEF PanelInv
  <2> QED
    BY <2>1, PanelEnds
<1> QED
  BY <1>1, <1>2, <1>3, <1>4, <1>5, <1>6, <1>7, <1>8, <1>9, <1>10, <1>11, <1>12, <1>13
     DEF Panel!Next

\* The invariant implies what the run checks of this part.
LEMMA PanelDone == PanelInv => Panel!DoneMeansAllDone
<1> SUFFICES ASSUME PanelInv PROVE Panel!DoneMeansAllDone
  OBVIOUS
<1> USE PanelIdle DEF PanelInv
<1>1. status # "NONE" => stage # "SCREENING"
  BY DEF PanelFollows
<1>2. ASSUME ~Panel!Busy, ~changed, ~aborted
      PROVE  /\ panel # {} /\ panel \subseteq cards => status = "COMPLETED"
             /\ ~overlap /\ status # "NONE" => /\ status = "COMPLETED" => panel \subseteq cards
                                               /\ Panel!Cardinality(lead) = 1
  <2>1. \A c \in Calls : call[c].do = "idle"
    BY <1>2 DEF Panel!Busy
  <2>2. panel # {} /\ panel \subseteq cards => status = "COMPLETED"
    BY <1>2, <2>1 DEF PanelSteady
  <2>3. ASSUME ~overlap, status # "NONE" PROVE Panel!Cardinality(lead) = 1
    <3>1. PanelLed
      BY <1>2, <2>1, <2>3 DEF PanelAlone
    <3>2. Cardinality(lead) = 1
      BY <3>1, FS_Singleton DEF PanelLed
    <3> QED
      BY <3>1, <3>2, PanelCounted DEF PanelLed
  <2> QED
    BY <1>2, <2>2, <2>3 DEF PanelAlone
<1> QED
  BY <1>1, <1>2 DEF Panel!DoneMeansAllDone
-------------------------------------------------------------------------------
(* Courses                                                                    *)

\* Completed is all of it, in a row and in what is about to be written.
StudyFollows ==
  /\ \A k \in Courses : enrolled[k].status = "COMPLETED" <=> enrolled[k].percent = 100
  /\ \A c \in Calls :
       /\ call[c].do # "idle" => call[c].on \in Courses
       /\ call[c].new.status = "COMPLETED" <=> call[c].new.percent = 100
       /\ call[c].do = "complete" => call[c].new.status = "COMPLETED"

\* Progress is only added, and what was completed stays so.
StudyAlone ==
  /\ \A c, d \in Calls : call[c] # Study!NoCall /\ call[d] # Study!NoCall => c = d
  /\ ~lost
  /\ \A k \in Courses : \A j \in behind[k] : enrolled[j].status = "COMPLETED"
  /\ \A k \in announced : enrolled[k].status = "COMPLETED"
  /\ \A c \in Calls :
       /\ call[c].do \in {"progress", "complete"} =>
            enrolled[call[c].on].status \in {"NOT_STARTED", "IN_PROGRESS"}
       /\ call[c].do = "progress" => call[c].new.percent >= enrolled[call[c].on].percent

\* Courses: the inductive invariant.
StudyInv == Study!TypeOK /\ StudyFollows /\ (~overlap => StudyAlone)

StudyRow  == [status : {"NONE", "NOT_STARTED", "IN_PROGRESS", "COMPLETED"},
              percent : {0, 100} \cup Percents]
StudyNew  == [status : {"NONE", "IN_PROGRESS", "COMPLETED"}, percent : {0, 100} \cup Percents]
StudyCall == [do : {"idle", "enroll", "progress", "complete"},
              on : Courses \cup {Study!Nothing}, new : StudyNew]

LEMMA StudyIdle ==
  /\ Study!NoRow.status = "NONE" /\ Study!NoRow.percent = 0
  /\ Study!NoRow \in StudyRow /\ Study!NoRow \in StudyNew
  /\ Study!NoCall.do = "idle" /\ Study!NoCall.new = Study!NoRow /\ Study!NoCall \in StudyCall
  /\ \A p \in {0, 100} \cup Percents : p \in Nat
<1>1. Study!NoRow.status = "NONE" /\ Study!NoRow.percent = 0
      /\ Study!NoRow \in StudyRow /\ Study!NoRow \in StudyNew
  BY DEF Study!NoRow, StudyRow, StudyNew
<1>2. Study!NoCall.do = "idle" /\ Study!NoCall.new = Study!NoRow /\ Study!NoCall \in StudyCall
  BY <1>1 DEF Study!NoCall, StudyCall
<1>3. \A p \in {0, 100} \cup Percents : p \in Nat
  <2>1. Percents \subseteq Nat
    BY PeopleAssumption DEF PeopleAssumption
  <2> QED
    BY <2>1
<1> QED
  BY <1>1, <1>2, <1>3, Zenon

\* Courses: the invariant holds at the start.
LEMMA StudyInit == Study!Init => StudyInv
<1> SUFFICES ASSUME Study!Init PROVE StudyInv
  OBVIOUS
<1> USE StudyIdle DEF Study!Init
<1>1. Study!TypeOK
  BY DEF Study!TypeOK, StudyCall, StudyNew, StudyRow
<1>2. StudyFollows /\ StudyAlone
  BY DEF StudyFollows, StudyAlone
<1> QED
  BY <1>1, <1>2 DEF StudyInv

LEMMA StudyStarts ==
  ASSUME StudyInv, NEW c \in Calls, NEW do \in {"enroll", "progress", "complete"},
         NEW k \in Courses, NEW new \in StudyNew, Study!Start(c, do, k, new),
         new.status = "COMPLETED" <=> new.percent = 100,
         do = "complete" => new.status = "COMPLETED",
         behind' \in [Courses -> SUBSET Courses],
         \A j \in Courses : \A i \in behind'[j] : i \in behind[j] \/ enrolled[i].status = "COMPLETED",
         do \in {"progress", "complete"} => enrolled[k].status \in {"NOT_STARTED", "IN_PROGRESS"},
         do = "progress" => new.percent >= enrolled[k].percent
  PROVE  StudyInv'
<1> DEFINE next == [do |-> do, on |-> k, new |-> new]
<1> USE StudyIdle DEF StudyInv, Study!TypeOK, StudyCall, StudyRow
<1>1. /\ call' = [call EXCEPT ![c] = next] /\ call[c] = Study!NoCall
      /\ UNCHANGED <<order, enrolled, lost, announced>>
      /\ overlap' \in BOOLEAN
      /\ (~overlap' => ~overlap /\ \A d \in Calls : call[d] = Study!NoCall)
  BY ZenonT(60) DEF Study!Start
<1>2. next.do = do /\ next.on = k /\ next.new = new /\ next \in StudyCall
  OBVIOUS
<1> HIDE DEF next
<1>4. Study!TypeOK'
  <2>1. call' \in [Calls -> StudyCall]
    BY <1>1, <1>2 DEF StudyNew
  <2> QED
    BY <1>1, <2>1 DEF StudyNew
<1>5. StudyFollows'
  BY <1>1, <1>2 DEF StudyFollows
<1>6. ~overlap' => StudyAlone'
  <2> SUFFICES ASSUME ~overlap' PROVE StudyAlone'
    OBVIOUS
  <2>1. StudyAlone /\ \A d \in Calls : call[d] = Study!NoCall
    BY <1>1
  <2>2. \A j \in Courses : \A i \in behind'[j] : enrolled'[i].status = "COMPLETED"
    BY <1>1, <2>1 DEF StudyAlone
  <2> QED
    BY <1>1, <1>2, <2>1, <2>2 DEF StudyAlone
<1> QED
  BY <1>4, <1>5, <1>6

\* Courses: every step, and a stutter, keeps the invariant.
LEMMA StudyNext == StudyInv /\ [Study!Next]_(Study!vars) => StudyInv'
<1> SUFFICES ASSUME StudyInv, [Study!Next]_(Study!vars) PROVE StudyInv'
  OBVIOUS
<1> USE StudyIdle DEF StudyInv, Study!TypeOK, StudyCall, StudyRow, StudyNew
<1>1. CASE UNCHANGED Study!vars
  BY <1>1 DEF Study!vars, StudyFollows, StudyAlone
<1>2. ASSUME \/ \E k \in Courses, n \in Study!Places : Study!addCourseToSequence(k, n)
             \/ \E k \in Courses, force \in BOOLEAN : Study!removeCourseFromSequence(k, force)
             \/ \E n \in Study!Places : \E list \in [1..n -> Courses] : Study!reorderSequence(list)
      PROVE  StudyInv'
  <2>1. UNCHANGED <<enrolled, call, behind, lost, announced, overlap>>
    BY <1>2 DEF Study!addCourseToSequence, Study!removeCourseFromSequence, Study!reorderSequence,
                Study!enrolments
  <2>2. order' \in [Study!Places -> Courses \cup {Study!Nothing}]
    <3>1. CASE \E k \in Courses, n \in Study!Places : Study!addCourseToSequence(k, n)
      BY <3>1 DEF Study!addCourseToSequence
    <3>2. CASE \E k \in Courses, force \in BOOLEAN : Study!removeCourseFromSequence(k, force)
      BY <3>2 DEF Study!removeCourseFromSequence
    <3>3. ASSUME NEW n \in Study!Places, NEW list \in [1..n -> Courses], Study!reorderSequence(list)
          PROVE  order' \in [Study!Places -> Courses \cup {Study!Nothing}]
      BY <3>3 DEF Study!reorderSequence
    <3> QED
      BY <1>2, <3>1, <3>2, <3>3
  <2> QED
    BY <2>1, <2>2 DEF StudyFollows, StudyAlone
<1>3. ASSUME NEW k \in Courses, Study!bulkAssign(k) PROVE StudyInv'
  <2>1. /\ enrolled[k] = Study!NoRow /\ enrolled' = [enrolled EXCEPT ![k].status = "NOT_STARTED"]
        /\ UNCHANGED <<order, call, behind, lost, announced, overlap>>
    BY <1>3 DEF Study!bulkAssign
  <2>2. /\ enrolled'[k].status = "NOT_STARTED" /\ enrolled'[k].percent = 0
        /\ \A j \in Courses : j # k => enrolled'[j] = enrolled[j]
    BY <2>1
  <2>3. Study!TypeOK' /\ StudyFollows'
    BY <2>1, <2>2 DEF StudyFollows
  <2>4. ~overlap' => StudyAlone'
    BY <2>1, <2>2 DEF StudyAlone, StudyFollows
  <2> QED
    BY <2>3, <2>4
<1>4. ASSUME NEW k \in Courses, NEW c \in Calls, Study!EnrollCheck(c, k) PROVE StudyInv'
  <2> PICK before \in Study!Locks(k) :
         /\ \A j \in before : enrolled[j].status = "COMPLETED"
         /\ behind' = [behind EXCEPT ![k] = before]
         /\ Study!Start(c, "enroll", k, Study!NoRow)
    BY <1>4 DEF Study!EnrollCheck
  <2>1. before \subseteq Courses
    BY DEF Study!Locks, Study!Before
  <2>2. /\ behind' \in [Courses -> SUBSET Courses]
        /\ \A j \in Courses : \A i \in behind'[j] : i \in behind[j] \/ enrolled[i].status = "COMPLETED"
        /\ ~(Study!NoRow.status = "COMPLETED") /\ ~(Study!NoRow.percent = 100)
    BY <2>1
  <2> HIDE DEF StudyInv, Study!TypeOK, StudyNew
  <2> QED
    BY <2>2, StudyStarts
<1>5. ASSUME NEW k \in Courses, NEW c \in Calls, Study!CompleteCheck(c, k) PROVE StudyInv'
  <2> DEFINE new == [status |-> "COMPLETED", percent |-> 100]
  <2>1. new \in StudyNew /\ new.status = "COMPLETED" /\ new.percent = 100
    OBVIOUS
  <2>2. /\ Study!Start(c, "complete", k, new)
        /\ enrolled[k].status \in {"NOT_STARTED", "IN_PROGRESS"} /\ behind' = behind
        /\ behind' \in [Courses -> SUBSET Courses]
    BY <1>5 DEF Study!CompleteCheck
  <2> HIDE DEF new, StudyInv, Study!TypeOK, StudyNew
  <2> QED
    BY <2>1, <2>2, StudyStarts
<1>6. ASSUME NEW k \in Courses, NEW c \in Calls, NEW p \in Percents, Study!ProgressCheck(c, k, p)
      PROVE  StudyInv'
  <2> PICK st \in {"IN_PROGRESS", "COMPLETED"} : st = IF p = 100 THEN "COMPLETED" ELSE "IN_PROGRESS"
    OBVIOUS
  <2> DEFINE new == [status |-> st, percent |-> p]
  <2>1. new \in StudyNew /\ (new.status = "COMPLETED" <=> new.percent = 100) /\ new.percent = p
    OBVIOUS
  <2>2. /\ Study!Start(c, "progress", k, new)
        /\ enrolled[k].status \notin {"NONE", "COMPLETED"} /\ ~(p < enrolled[k].percent)
        /\ behind' = behind /\ behind' \in [Courses -> SUBSET Courses]
    BY <1>6 DEF Study!ProgressCheck, Study!Transition
  <2>3. enrolled[k].status \in {"NOT_STARTED", "IN_PROGRESS"} /\ p >= enrolled[k].percent
    <3>1. enrolled[k].percent \in Nat /\ p \in Nat
      <4>1. enrolled[k].percent \in {0, 100} \cup Percents
        OBVIOUS
      <4> QED
        BY <4>1
    <3>2. enrolled[k].status \in {"NOT_STARTED", "IN_PROGRESS"}
      BY <2>2
    <3> QED
      BY <2>2, <3>1, <3>2
  <2> HIDE DEF new, StudyInv, Study!TypeOK, StudyNew
  <2> QED
    BY <2>1, <2>2, <2>3, StudyStarts
<1>7. ASSUME NEW c \in Calls, Study!EnrollWrite(c) PROVE StudyInv'
  <2> PICK k \in Courses : k = call[c].on
    BY <1>7 DEF Study!EnrollWrite, StudyFollows
  <2> DEFINE row == [enrolled[k] EXCEPT !.status = IF @ = "NONE" THEN "NOT_STARTED" ELSE @]
  <2>1. /\ call[c].do = "enroll" /\ call' = [call EXCEPT ![c] = Study!NoCall]
        /\ UNCHANGED <<order, behind, lost, announced, overlap>>
        /\ enrolled' = [enrolled EXCEPT ![k] = row]
    BY <1>7 DEF Study!EnrollWrite, Study!Finish
  <2>2. /\ row \in StudyRow /\ row.percent = enrolled[k].percent
        /\ row.status = "COMPLETED" <=> enrolled[k].status = "COMPLETED"
    OBVIOUS
  <2> HIDE DEF row
  <2>3. /\ enrolled' \in [Courses -> StudyRow]
        /\ \A j \in Courses : /\ enrolled'[j].percent = enrolled[j].percent
                              /\ enrolled'[j].status = "COMPLETED" <=> enrolled[j].status = "COMPLETED"
    BY <2>1, <2>2
  <2>4. Study!TypeOK'
    BY <2>1, <2>3
  <2>5. StudyFollows'
    <3>1. ASSUME NEW j \in Courses
          PROVE  enrolled'[j].status = "COMPLETED" <=> enrolled'[j].percent = 100
      <4>1. /\ enrolled'[j].percent = enrolled[j].percent
            /\ enrolled'[j].status = "COMPLETED" <=> enrolled[j].status = "COMPLETED"
        BY <2>3
      <4>2. enrolled[j].status = "COMPLETED" <=> enrolled[j].percent = 100
        BY DEF StudyFollows
      <4> QED
        BY <4>1, <4>2
    <3>2. \A d \in Calls : call'[d] = call[d] \/ call'[d] = Study!NoCall
      BY <2>1
    <3>3. ASSUME NEW d \in Calls
          PROVE  /\ call'[d].do # "idle" => call'[d].on \in Courses
                 /\ call'[d].new.status = "COMPLETED" <=> call'[d].new.percent = 100
                 /\ call'[d].do = "complete" => call'[d].new.status = "COMPLETED"
      <4>1. CASE call'[d] = call[d]
        BY <4>1 DEF StudyFollows
      <4>2. CASE call'[d] = Study!NoCall
        BY <4>2
      <4> QED
        BY <3>2, <4>1, <4>2
    <3> QED
      BY <3>1, <3>3 DEF StudyFollows
  <2>6. ~overlap' => StudyAlone'
    <3> SUFFICES ASSUME ~overlap PROVE StudyAlone'
      BY <2>1
    <3>1. \A d \in Calls : call'[d] = Study!NoCall
      BY <2>1 DEF StudyAlone
    <3> QED
      BY <2>1, <2>3, <3>1 DEF StudyAlone
  <2> QED
    BY <2>4, <2>5, <2>6
<1>8. ASSUME NEW c \in Calls, Study!ProgressWrite(c) \/ Study!CompleteWrite(c) PROVE StudyInv'
  <2> PICK k \in Courses : k = call[c].on
    BY <1>8 DEF Study!ProgressWrite, Study!CompleteWrite, StudyFollows
  <2> PICK new \in StudyNew : new = call[c].new
    OBVIOUS
  <2>1. /\ call[c].do \in {"progress", "complete"} /\ call' = [call EXCEPT ![c] = Study!NoCall]
        /\ UNCHANGED <<order, behind, overlap>>
        /\ enrolled' = [enrolled EXCEPT ![k] = new]
        /\ \/ /\ call[c].do = "progress" /\ announced' = announced
              /\ lost' = (lost \/ new.percent < enrolled[k].percent)
           \/ /\ call[c].do = "complete" /\ announced' = announced \cup {k}
              /\ lost' = (lost \/ k \in announced)
    <3>1. CASE Study!ProgressWrite(c)
      BY <3>1 DEF Study!ProgressWrite, Study!Finish
    <3>2. CASE Study!CompleteWrite(c)
      BY <3>2 DEF Study!CompleteWrite, Study!Finish
    <3> QED
      BY <1>8, <3>1, <3>2
  <2>2. Study!TypeOK'
    BY <2>1, ZenonT(60)
  <2>3. StudyFollows'
    BY <2>1 DEF StudyFollows
  <2>4. ~overlap' => StudyAlone'
    <3> SUFFICES ASSUME ~overlap PROVE StudyAlone'
      BY <2>1
    <3>1. \A d \in Calls : call'[d] = Study!NoCall
      BY <2>1 DEF StudyAlone
    <3>2. \A j \in Courses : enrolled[j].status = "COMPLETED" => enrolled'[j].status = "COMPLETED"
      BY <2>1 DEF StudyAlone
    <3>3. k \notin announced
      BY <2>1 DEF StudyAlone
    <3>4. call[c].do = "progress" => ~(new.percent < enrolled[k].percent)
      <4>1. new.percent \in Nat /\ enrolled[k].percent \in Nat
        BY ZenonT(60)
      <4> QED
        BY <2>1, <4>1 DEF StudyAlone
    <3>5. ~lost'
      BY <2>1, <3>3, <3>4 DEF StudyAlone
    <3>6. \A j \in announced' : enrolled'[j].status = "COMPLETED"
      <4>1. call[c].do = "complete" => new.status = "COMPLETED"
        BY DEF StudyFollows
      <4> QED
        BY <2>1, <3>2, <4>1 DEF StudyAlone
    <3> QED
      BY <2>1, <3>1, <3>2, <3>5, <3>6 DEF StudyAlone
  <2> QED
    BY <2>2, <2>3, <2>4
<1> QED
  BY <1>1, <1>2, <1>3, <1>4, <1>5, <1>6, <1>7, <1>8 DEF Study!Next

\* The invariant implies what the run checks of this part.
LEMMA StudyDone == StudyInv => Study!DoneMeansAllDone
BY DEF StudyInv, StudyFollows, StudyAlone, Study!DoneMeansAllDone
-------------------------------------------------------------------------------
(* Surveys                                                                    *)

\* The answers that are on their way.
Submits(e) == {c \in Calls : call[c].do = "submit" /\ call[c].who = e}

\* An assignment is completed exactly if it has a sheet, and so is that of everyone
\* whose answers are stored; with those on their way its sheets are at most as many
\* as the calls.
SurveyFollows ==
  /\ \A c \in Calls : call[c].do = "submit" =>
       call[c].who \in Employees /\ assigned[call[c].who] # "none"
  /\ \A e \in Employees :
       /\ assigned[e] = "COMPLETED" <=> sheets[e] > 0
       /\ sheets[e] + Cardinality(Submits(e)) <= Cardinality(Calls)
  /\ \A a \in answers : a.who # Survey!NoOne => assigned[a.who] = "COMPLETED"

\* An answer on its way is for an assignment that is still pending.
SurveyAlone ==
  /\ \A c, d \in Calls : call[c] # Survey!NoCall /\ call[d] # Survey!NoCall => c = d
  /\ \A e \in Employees : sheets[e] <= 1
  /\ \A c \in Calls : call[c].do = "submit" => assigned[call[c].who] = "PENDING"

\* Surveys: the inductive invariant.
SurveyInv == Survey!TypeOK /\ SurveyFollows /\ (~overlap => SurveyAlone)

LEMMA SurveyBounds ==
  /\ Cardinality(Calls) \in Nat /\ Survey!Cardinality(Calls) = Cardinality(Calls)
  /\ Survey!NoOne \notin Employees /\ MaxQuestions \in Nat /\ MaxAnswers \in Nat
<1>1. Cardinality(Calls) \in Nat
  BY PeopleAssumption, FS_CardinalityType DEF PeopleAssumption
<1>2. Survey!Cardinality(Calls) = Cardinality(Calls)
  BY DEF Survey!Cardinality, Cardinality
<1> QED
  BY <1>1, <1>2, PeopleAssumption DEF PeopleAssumption, Survey!NoOne

LEMMA SurveyIdle ==
  /\ Survey!NoCall.do = "idle"
  /\ Survey!NoCall \in [do : {"idle", "add", "launch", "submit"},
                        who : Survey!People, with : SUBSET Employees]
BY DEF Survey!NoCall, Survey!People

\* Calls are finitely many.
LEMMA CallsCounted ==
  ASSUME NEW S \in SUBSET Calls
  PROVE  Cardinality(S) \in Nat /\ Cardinality(S) <= Cardinality(Calls) /\ IsFiniteSet(S)
BY PeopleAssumption, FS_Subset, FS_CardinalityType DEF PeopleAssumption

\* Surveys: the invariant holds at the start.
LEMMA SurveyInit == Survey!Init => SurveyInv
<1> SUFFICES ASSUME Survey!Init PROVE SurveyInv
  OBVIOUS
<1> USE SurveyBounds, SurveyIdle DEF Survey!Init
<1>1. Survey!TypeOK
  <2>1. 0 \in 0..Survey!Cardinality(Calls) /\ 0 \in 0..MaxQuestions
    OBVIOUS
  <2>2. sheets \in [Employees -> 0..Survey!Cardinality(Calls)] /\ questions \in 0..MaxQuestions
    BY <2>1
  <2>3. answers \subseteq [who : Survey!People, sheet : 0..Survey!Cardinality(Calls),
                       nth : 0..MaxAnswers]
    OBVIOUS
  <2> QED
    BY <2>2, <2>3 DEF Survey!TypeOK
<1>2. \A e \in Employees : Submits(e) = {}
  BY DEF Submits
<1>3. SurveyFollows
  <2>1. \A e \in Employees : Cardinality(Submits(e)) = 0
    BY <1>2, FS_EmptySet
  <2> QED
    BY <2>1 DEF SurveyFollows
<1>4. SurveyAlone
  BY DEF SurveyAlone
<1> QED
  BY <1>1, <1>3, <1>4 DEF SurveyInv

\* Surveys: every step, and a stutter, keeps the invariant.
LEMMA SurveyNext == SurveyInv /\ [Survey!Next]_(Survey!vars) => SurveyInv'
<1> SUFFICES ASSUME SurveyInv, [Survey!Next]_(Survey!vars) PROVE SurveyInv'
  OBVIOUS
<1> USE SurveyBounds, SurveyIdle DEF SurveyInv, Survey!TypeOK
<1>1. CASE UNCHANGED Survey!vars
  BY <1>1 DEF Survey!vars, SurveyFollows, SurveyAlone, Submits
<1>2. CASE Survey!Close
  BY <1>2 DEF Survey!Close, SurveyFollows, SurveyAlone, Submits
<1>3. ASSUME NEW c \in Calls, NEW do \in {"add", "launch"}, NEW ok, NEW with \in SUBSET Employees,
             Survey!Check(c, ok, do, Survey!NoOne, with)
      PROVE  SurveyInv'
  <2> USE <1>3 DEF Survey!Check
  <2>1. Survey!TypeOK'
    BY DEF Survey!People
  <2>2. \A e \in Employees : Submits(e)' = Submits(e)
    BY DEF Submits
  <2>3. SurveyFollows'
    BY <2>2 DEF SurveyFollows
  <2>4. ~overlap' => SurveyAlone'
    BY DEF SurveyAlone
  <2> QED
    BY <2>1, <2>3, <2>4
<1>4. ASSUME NEW c \in Calls, NEW e \in Employees, Survey!SubmitCheck(c, e) PROVE SurveyInv'
  <2> USE <1>4 DEF Survey!Check, Survey!SubmitCheck
  <2>1. Survey!TypeOK'
    BY DEF Survey!People
  <2>2. \A d \in Employees : d # e => Submits(d)' = Submits(d)
    BY DEF Submits
  <2>3. /\ Cardinality(Submits(e)') \in Nat /\ Cardinality(Submits(e)') <= Cardinality(Calls)
        /\ sheets[e] = 0
    <3>1. Submits(e)' \in SUBSET Calls
      BY DEF Submits
    <3>2. assigned[e] = "PENDING" /\ sheets[e] \in Nat /\ ~(sheets[e] > 0)
      BY DEF SurveyFollows
    <3> QED
      BY <3>1, <3>2, CallsCounted
  <2>4. SurveyFollows'
    <3>1. \A d \in Calls : call'[d].do = "submit" =>
             call'[d].who \in Employees /\ assigned[call'[d].who] # "none"
      BY DEF SurveyFollows
    <3>2. ASSUME NEW d \in Employees
          PROVE  sheets[d] + Cardinality(Submits(d)') <= Cardinality(Calls)
      <4>1. CASE d = e
        BY <2>3, <4>1
      <4>2. CASE d # e
        BY <2>2, <4>2 DEF SurveyFollows
      <4> QED
        BY <4>1, <4>2
    <3> QED
      BY <3>1, <3>2 DEF SurveyFollows
  <2>5. ~overlap' => SurveyAlone'
    BY DEF SurveyAlone
  <2> QED
    BY <2>1, <2>4, <2>5
<1>5. ASSUME NEW c \in Calls, Survey!AddWrite(c) \/ Survey!LaunchWrite(c) PROVE SurveyInv'
  <2>1. /\ call' = [call EXCEPT ![c] = Survey!NoCall] /\ UNCHANGED <<overlap, sheets, answers>>
        /\ call[c].do \in {"add", "launch"}
    BY <1>5 DEF Survey!AddWrite, Survey!LaunchWrite, Survey!Finish
  <2>2. status' \in {"DRAFT", "LAUNCHED", "CLOSED"} /\ questions' \in 0..MaxQuestions
    BY <1>5 DEF Survey!AddWrite, Survey!LaunchWrite, Survey!Finish
  <2>3. /\ assigned' \in [Employees -> {"none", "PENDING", "COMPLETED"}]
        /\ \A e \in Employees : assigned[e] # "none" => assigned'[e] = assigned[e]
        /\ \A e \in Employees : assigned[e] = "none" => assigned'[e] \in {"none", "PENDING"}
    BY <1>5 DEF Survey!AddWrite, Survey!LaunchWrite, Survey!Finish
  <2>4. Survey!TypeOK'
    BY <2>1, <2>2, <2>3
  <2>5. \A e \in Employees : Submits(e)' = Submits(e)
    BY <2>1 DEF Submits
  <2>6. SurveyFollows'
    <3>1. \A a \in answers : a.who \in Employees \cup {Survey!NoOne}
      BY DEF Survey!People
    <3>2. \A a \in answers : a.who # Survey!NoOne => assigned'[a.who] = "COMPLETED"
      BY <2>3, <3>1 DEF SurveyFollows
    <3>3. \A d \in Calls : call'[d].do = "submit" =>
             call'[d].who \in Employees /\ assigned'[call'[d].who] # "none"
      BY <2>1, <2>3 DEF SurveyFollows
    <3>4. \A e \in Employees : assigned'[e] = "COMPLETED" <=> assigned[e] = "COMPLETED"
      BY <2>3
    <3> QED
      BY <2>1, <2>5, <3>2, <3>3, <3>4 DEF SurveyFollows
  <2>7. ~overlap' => SurveyAlone'
    <3> SUFFICES ASSUME ~overlap PROVE SurveyAlone'
      BY <2>1
    <3>1. \A d \in Calls : call'[d] = Survey!NoCall
      BY <2>1 DEF SurveyAlone
    <3> QED
      BY <2>1, <3>1 DEF SurveyAlone
  <2> QED
    BY <2>4, <2>6, <2>7
<1>6. ASSUME NEW c \in Calls, Survey!SubmitWrite(c) PROVE SurveyInv'
  <2> PICK e \in Employees : e = call[c].who
    BY <1>6 DEF SurveyFollows, Survey!SubmitWrite, Survey!Finish
  <2>0. \E n \in 0..MaxAnswers : answers' = answers \cup
           {[who |-> e, sheet |-> sheets[e] + 1, nth |-> i] : i \in 1..n}
    <3>1. PICK n \in 0..(IF questions = 0 THEN 0 ELSE MaxAnswers) : answers' = answers \cup
             {[who |-> e, sheet |-> sheets[e] + 1, nth |-> i] : i \in 1..n}
      BY <1>6 DEF Survey!SubmitWrite
    <3>2. n \in 0..MaxAnswers
      OBVIOUS
    <3> QED
      BY <3>1, <3>2
  <2>1. /\ call' = [call EXCEPT ![c] = Survey!NoCall] /\ UNCHANGED <<overlap, status, questions>>
        /\ sheets' = [sheets EXCEPT ![e] = sheets[e] + 1]
        /\ assigned' = [assigned EXCEPT ![e] = "COMPLETED"]
        /\ call[c].do = "submit"
    BY <1>6 DEF Survey!SubmitWrite, Survey!Finish
  <2>2. Submits(e)' = Submits(e) \ {c} /\ c \in Submits(e) /\ Submits(e) \in SUBSET Calls
    BY <2>1 DEF Submits
  <2>3. Cardinality(Submits(e)') = Cardinality(Submits(e)) - 1
    BY <2>2, FS_RemoveElement, CallsCounted
  <2>4. Cardinality(Submits(e)) \in Nat /\ Cardinality(Submits(e)') \in Nat
    BY <2>2, CallsCounted
  <2>5. sheets[e] + 1 + Cardinality(Submits(e)') <= Cardinality(Calls)
    BY <2>3, <2>4 DEF SurveyFollows
  <2>6. \A d \in Employees : d # e => Submits(d)' = Submits(d)
    BY <2>1 DEF Submits
  <2>7. Survey!TypeOK'
    <3>1. sheets[e] + 1 \in 0..Cardinality(Calls)
      BY <2>4, <2>5
    <3>2. answers' \subseteq [who : Survey!People, sheet : 0..Cardinality(Calls), nth : 0..MaxAnswers]
      <4>1. PICK n \in 0..MaxAnswers : answers' = answers \cup
               {[who |-> e, sheet |-> sheets[e] + 1, nth |-> i] : i \in 1..n}
        BY <2>0
      <4>2. \A i \in 1..n : i \in 0..MaxAnswers
        OBVIOUS
      <4>3. e \in Survey!People
        BY DEF Survey!People
      <4> QED
        BY <3>1, <4>1, <4>2, <4>3
    <3> QED
      BY <2>1, <3>1, <3>2
  <2>8. SurveyFollows'
    <3>1. \A d \in Calls : call'[d].do = "submit" =>
             call'[d].who \in Employees /\ assigned'[call'[d].who] # "none"
      BY <2>1 DEF SurveyFollows
    <3>2. \A d \in Employees : assigned'[d] = "COMPLETED" <=> sheets'[d] > 0
      BY <2>1 DEF SurveyFollows
    <3>3. \A d \in Employees : sheets'[d] + Cardinality(Submits(d)') <= Cardinality(Calls)
      BY <2>1, <2>5, <2>6 DEF SurveyFollows
    <3>4. ASSUME NEW a \in answers', a.who # Survey!NoOne PROVE assigned'[a.who] = "COMPLETED"
      <4>1. CASE a \in answers
        <5>1. a.who \in Employees /\ assigned[a.who] = "COMPLETED"
          BY <3>4, <4>1 DEF SurveyFollows, Survey!People
        <5> QED
          BY <2>1, <5>1
      <4>2. CASE a \notin answers
        <5>1. a.who = e
          BY <2>0, <3>4, <4>2
        <5> QED
          BY <2>1, <5>1
      <4> QED
        BY <4>1, <4>2
    <3> QED
      BY <3>1, <3>2, <3>3, <3>4 DEF SurveyFollows
  <2>9. ~overlap' => SurveyAlone'
    <3> SUFFICES ASSUME ~overlap PROVE SurveyAlone'
      BY <2>1
    <3>1. \A d \in Calls : call'[d] = Survey!NoCall
      BY <2>1 DEF SurveyAlone
    <3>2. assigned[e] = "PENDING" /\ sheets[e] = 0
      BY <2>1 DEF SurveyAlone, SurveyFollows
    <3>3. \A d \in Employees : sheets'[d] <= 1
      BY <2>1, <3>2 DEF SurveyAlone
    <3> QED
      BY <3>1, <3>3 DEF SurveyAlone
  <2> QED
    BY <2>7, <2>8, <2>9
<1>7. ASSUME NEW c \in Calls, Survey!Abort(c) PROVE SurveyInv'
  <2> USE <1>7 DEF Survey!Abort, Survey!Finish
  <2>1. \A e \in Employees : Submits(e)' \in SUBSET Submits(e) /\ Submits(e) \in SUBSET Calls
    BY DEF Submits
  <2>2. \A e \in Employees : /\ Cardinality(Submits(e)') <= Cardinality(Submits(e))
                             /\ Cardinality(Submits(e)) \in Nat /\ Cardinality(Submits(e)') \in Nat
    BY <2>1, FS_Subset, CallsCounted
  <2>3. SurveyFollows'
    BY <2>2 DEF SurveyFollows
  <2> QED
    BY <2>3 DEF SurveyAlone
<1>8. ASSUME NEW c \in Calls, NEW who \in SUBSET Employees,
             Survey!AddCheck(c) \/ Survey!LaunchCheck(c, who)
      PROVE  SurveyInv'
  BY <1>3, <1>8 DEF Survey!AddCheck, Survey!LaunchCheck
<1>9. CASE Survey!SubmitElsewhere
  <2>1. /\ UNCHANGED <<status, questions, assigned, sheets, call, overlap>>
        /\ answers' = answers \cup {[who |-> Survey!NoOne, sheet |-> 0, nth |-> 0]}
    BY <1>9 DEF Survey!SubmitElsewhere
  <2>2. Survey!TypeOK'
    <3>1. 0 \in 0..Cardinality(Calls) /\ 0 \in 0..MaxAnswers /\ Survey!NoOne \in Survey!People
      BY DEF Survey!People
    <3> QED
      BY <2>1, <3>1
  <2>3. \A e \in Employees : Submits(e)' = Submits(e)
    BY <2>1 DEF Submits
  <2>4. SurveyFollows' /\ (~overlap' => SurveyAlone')
    BY <2>1, <2>3 DEF SurveyFollows, SurveyAlone
  <2> QED
    BY <2>2, <2>4
<1> QED
  BY <1>1, <1>2, <1>4, <1>5, <1>6, <1>7, <1>8, <1>9 DEF Survey!Next

\* The answers that are counted, one of each employee at most, map to those who have
\* completed the survey.
LEMMA SurveyDone == SurveyInv => Survey!DoneMeansAllDone
<1> SUFFICES ASSUME SurveyInv PROVE Survey!DoneMeansAllDone
  OBVIOUS
<1> USE SurveyBounds DEF SurveyInv, Survey!TypeOK
<1> DEFINE D == {e \in Employees : assigned[e] = "COMPLETED"}
<1>1. ASSUME Survey!Shown > 0,
             \A a, b \in answers : a.who # Survey!NoOne /\ (a.who = b.who => a = b)
      PROVE  Cardinality(D) >= minN
  <2> DEFINE f == [a \in answers |-> a.who]
  <2>1. f \in Injection(answers, D)
    <3>1. \A a \in answers : a.who \in D
      BY <1>1 DEF SurveyFollows, Survey!People
    <3>2. \A a, b \in answers : f[a] = f[b] => a = b
      BY <1>1
    <3> QED
      BY <3>1, <3>2 DEF Injection, IsInjective
  <2>2. IsFiniteSet(D)
    BY PeopleAssumption, FS_Subset DEF PeopleAssumption
  <2> HIDE DEF D, f
  <2>3. Cardinality(answers) <= Cardinality(D) /\ Cardinality(answers) \in Nat
        /\ Cardinality(D) \in Nat
    BY <2>1, <2>2, FS_Injection, FS_CardinalityType
  <2>4. Cardinality(answers) >= minN
    <3>1. Survey!Cardinality(answers) = Cardinality(answers)
      BY DEF Survey!Cardinality, Cardinality
    <3> QED
      BY <1>1, <3>1 DEF Survey!Shown
  <2>5. minN \in Nat
    BY PeopleAssumption DEF PeopleAssumption
  <2> QED
    BY <2>3, <2>4, <2>5
<1>2. Survey!Cardinality(D) = Cardinality(D)
  BY DEF Survey!Cardinality, Cardinality
<1> QED
  BY <1>1, <1>2 DEF Survey!DoneMeansAllDone, SurveyFollows, SurveyAlone
-------------------------------------------------------------------------------
(* Skills and certifications                                                  *)

\* Only a certification whose date is past is listed for expiry.
CertFollows ==
  /\ cert.status = "none" => ~cert.past
  /\ sweep => cert.past
  /\ cert.status = "EXPIRED" => cert.past

\* One call at a time, and the skill is as it was when it was checked.
SkillAlone ==
  /\ \A c, d \in Calls : call[c] # Skill!NoCall /\ call[d] # Skill!NoCall => c = d
  /\ skill.status = "VALIDATED" => Skill!Agrees(skill.self, skill.manager)
  /\ \A c \in Calls :
       /\ call[c].do = "assess" /\ skill.status = "VALIDATED" => skill.self = call[c].level
       /\ call[c].do = "validate" /\ call[c].new = "VALIDATED" =>
            Skill!Agrees(skill.self, call[c].level)

\* Skills: the inductive invariant.
SkillInv == Skill!TypeOK /\ CertFollows /\ (~overlap => SkillAlone)

\* Skills: the invariant holds at the start.
LEMMA SkillInit == Skill!Init => SkillInv
<1> SUFFICES ASSUME Skill!Init PROVE SkillInv
  OBVIOUS
<1> USE DEF Skill!Init, Skill!NoCall, Skill!NoSkill, Skill!Unset
<1>1. Skill!TypeOK
  BY DEF Skill!TypeOK
<1>2. CertFollows /\ SkillAlone
  BY DEF CertFollows, SkillAlone
<1> QED
  BY <1>1, <1>2 DEF SkillInv

\* Skills: every step, and a stutter, keeps the invariant.
LEMMA SkillNext == SkillInv /\ [Skill!Next]_(Skill!vars) => SkillInv'
<1> SUFFICES ASSUME SkillInv, [Skill!Next]_(Skill!vars) PROVE SkillInv'
  OBVIOUS
<1> USE DEF SkillInv, Skill!TypeOK, Skill!NoCall, Skill!Unset
<1>1. CASE UNCHANGED Skill!vars
  BY <1>1 DEF Skill!vars, CertFollows, SkillAlone, Skill!Agrees
<1> DEFINE Row == [do : {"idle", "reset", "assess", "validate", "verify", "revoke"},
                   level : Levels \cup {0}, new : {"none", "PENDING", "VALIDATED", "DISPUTED"}]
<1>2. ASSUME NEW c \in Calls, NEW do, NEW level, NEW new, Skill!Check(c, TRUE, do, level, new),
             [do |-> do, level |-> level, new |-> new] \in Row,
             do = "assess" /\ skill.status = "VALIDATED" => skill.self = level,
             do = "validate" /\ new = "VALIDATED" => Skill!Agrees(skill.self, level)
      PROVE  SkillInv'
  <2> USE <1>2 DEF Skill!Check
  <2>1. Skill!TypeOK' /\ CertFollows'
    BY DEF CertFollows
  <2>2. ~overlap' => SkillAlone'
    BY DEF SkillAlone, Skill!Agrees
  <2> QED
    BY <2>1, <2>2
<1>3. ASSUME NEW c \in Calls, NEW n \in Levels, Skill!AssessCheck(c, n) \/ Skill!ValidateCheck(c, n)
      PROVE  SkillInv'
  <2>1. CASE Skill!AssessCheck(c, n)
    <3>1. \/ skill.status = "VALIDATED" /\ skill.self # n /\ Skill!Check(c, TRUE, "reset", n, "none")
          \/ ~(skill.status = "VALIDATED" /\ skill.self # n) /\ Skill!Check(c, TRUE, "assess", n, "none")
      BY <2>1 DEF Skill!AssessCheck
    <3> QED
      BY <1>2, <3>1
  <2>2. CASE Skill!ValidateCheck(c, n)
    <3>1. \/ Skill!Agrees(skill.self, n) /\ Skill!Check(c, TRUE, "validate", n, "VALIDATED")
          \/ Skill!Check(c, TRUE, "validate", n, "DISPUTED")
      BY <2>2 DEF Skill!ValidateCheck, Skill!Check
    <3> QED
      BY <1>2, <3>1
  <2> QED
    BY <1>3, <2>1, <2>2
<1>4. ASSUME NEW c \in Calls, Skill!VerifyCheck(c) \/ Skill!RevokeCheck(c) PROVE SkillInv'
  BY <1>2, <1>4 DEF Skill!VerifyCheck, Skill!RevokeCheck, Skill!Check
<1>5. ASSUME NEW c \in Calls, Skill!AssessWrite(c) \/ Skill!ValidateWrite(c) PROVE SkillInv'
  <2>1. /\ call' = [call EXCEPT ![c] = Skill!NoCall] /\ UNCHANGED <<cert, sweep, overlap>>
        /\ call[c] # Skill!NoCall
    BY <1>5 DEF Skill!AssessWrite, Skill!ValidateWrite, Skill!Finish
  <2>2. call[c].level \in Levels \cup {0}
        /\ call[c].new \in {"none", "PENDING", "VALIDATED", "DISPUTED"}
    OBVIOUS
  <2>3. skill' \in [self : Levels \cup {0}, manager : Levels \cup {0},
                   status : {"none", "PENDING", "VALIDATED", "DISPUTED"}]
    <3>1. CASE skill' = [self |-> call[c].level, manager |-> 0, status |-> "PENDING"]
      BY <2>2, <3>1
    <3>2. CASE \E st \in {"PENDING", skill.status} :
                 skill' = [skill EXCEPT !.self = call[c].level, !.status = st]
      BY <2>2, <3>2
    <3>3. CASE skill' = [skill EXCEPT !.manager = call[c].level, !.status = call[c].new]
      BY <2>2, <3>3
    <3> QED
      BY <1>5, <3>1, <3>2, <3>3 DEF Skill!AssessWrite, Skill!ValidateWrite
  <2>4. ~overlap => (skill'.status = "VALIDATED" => Skill!Agrees(skill'.self, skill'.manager))
    <3> SUFFICES ASSUME ~overlap, skill'.status = "VALIDATED"
                 PROVE  Skill!Agrees(skill'.self, skill'.manager)
      OBVIOUS
    <3>1. CASE skill' = [skill EXCEPT !.manager = call[c].level, !.status = call[c].new]
               /\ call[c].do = "validate"
      BY <3>1 DEF SkillAlone
    <3>2. CASE /\ \E st \in {"PENDING", skill.status} :
                     skill' = [skill EXCEPT !.self = call[c].level, !.status = st]
               /\ call[c].do = "assess"
      <4>1. skill.status = "VALIDATED" /\ skill'.self = call[c].level
            /\ skill'.manager = skill.manager
        BY <3>2
      <4>2. skill.self = call[c].level
        BY <3>2, <4>1 DEF SkillAlone
      <4> QED
        BY <4>1, <4>2 DEF SkillAlone
    <3>3. CASE skill' = [self |-> call[c].level, manager |-> 0, status |-> "PENDING"]
      BY <3>3
    <3> QED
      BY <1>5, <3>1, <3>2, <3>3 DEF Skill!AssessWrite, Skill!ValidateWrite, Skill!Finish
  <2>5. ~overlap => \A d \in Calls : call'[d] = Skill!NoCall
    BY <2>1 DEF SkillAlone
  <2>6. ~overlap' => SkillAlone'
    BY <2>1, <2>4, <2>5 DEF SkillAlone
  <2> QED
    BY <2>1, <2>3, <2>6 DEF CertFollows
<1>6. ASSUME NEW c \in Calls, Skill!CertWrite(c) \/ Skill!Abort(c) PROVE SkillInv'
  BY <1>6 DEF Skill!CertWrite, Skill!Abort, Skill!Finish, CertFollows, SkillAlone
<1>7. CASE Skill!TimePasses \/ Skill!SweepList \/ Skill!SweepWrite
  <2>1. UNCHANGED <<skill, call, overlap>>
    BY <1>7 DEF Skill!TimePasses, Skill!SweepList, Skill!SweepWrite
  <2>2. cert' \in [status : {"none", "UNVERIFIED", "VERIFIED", "REVOKED", "EXPIRED"}, past : BOOLEAN]
        /\ sweep' \in BOOLEAN /\ CertFollows'
    BY <1>7 DEF Skill!TimePasses, Skill!SweepList, Skill!SweepWrite, CertFollows
  <2> QED
    BY <2>1, <2>2 DEF SkillAlone
<1>8. ASSUME NEW past \in BOOLEAN, Skill!recordCertification(past) PROVE SkillInv'
  BY <1>8 DEF Skill!recordCertification, CertFollows, SkillAlone
<1> QED
  BY <1>1, <1>3, <1>4, <1>5, <1>6, <1>7, <1>8 DEF Skill!Next

\* The invariant implies what the run checks of this part.
LEMMA SkillDone == SkillInv => Skill!DoneMeansAllDone
BY DEF SkillInv, CertFollows, SkillAlone, Skill!DoneMeansAllDone
===============================================================================
