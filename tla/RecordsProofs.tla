----------------------------- MODULE RecordsProofs -----------------------------
(* Proofs about Records for every value of its constants: first an inductive   *)
(* invariant for each of the parts that AccessProofs leaves, policies, mails,  *)
(* webhooks, report exports and the careers page; then the properties of the   *)
(* composition.                                                                *)
EXTENDS AccessProofs, FiniteSetTheorems, SequenceTheorems, TLAPS

-------------------------------------------------------------------------------
(* Policies                                                                   *)

\* What was published is never a draft again, and only a published policy has readers.
Published == policy.status \in {"PUBLISHED", "ARCHIVED"}

PolicyFollows ==
  /\ (\E e \in Employees : acked[e] > 0) => Published
  /\ \A c \in Calls : /\ call[c] # Policy!NoCall => policy.status # "NONE"
                      /\ call[c].do = "acknowledge" => Published /\ call[c].by \in Employees

\* One call at a time, and what it read is still so.
PolicyAlone ==
  /\ \A c, d \in Calls : call[c] # Policy!NoCall /\ call[d] # Policy!NoCall => c = d
  /\ \A c \in Calls :
       /\ call[c].do = "update" => policy.status = "DRAFT" /\ call[c].n = policy.version
       /\ call[c].do = "acknowledge" => call[c].n = policy.content
  /\ \A e \in Employees : acked[e] \in {0, policy.content}
  /\ policy.version = edits

PolicyInv == Policy!TypeOK /\ PolicyFollows /\ (~overlap => PolicyAlone)

LEMMA PolicyInit == Policy!Init => PolicyInv
<1> SUFFICES ASSUME Policy!Init PROVE PolicyInv
  OBVIOUS
<1> USE DEF Policy!Init, Policy!NoCall
<1>1. Policy!TypeOK
  BY DEF Policy!TypeOK
<1>2. PolicyFollows
  BY DEF PolicyFollows
<1>3. PolicyAlone
  BY DEF PolicyAlone
<1> QED
  BY <1>1, <1>2, <1>3 DEF PolicyInv

LEMMA PolicyNext ==
  ASSUME PolicyInv, [Policy!Next]_(Policy!vars)
  PROVE  PolicyInv'
<1> USE DEF PolicyInv, Policy!TypeOK, Policy!NoCall
<1>1. CASE UNCHANGED Policy!vars
  BY <1>1 DEF Policy!vars, PolicyFollows, Published, PolicyAlone
<1>2. ASSUME NEW c \in Calls, Policy!createPolicy(c) PROVE PolicyInv'
  <2>1. (\A e \in Employees : acked[e] = 0) /\ \A d \in Calls : call[d] = Policy!NoCall
    BY <1>2 DEF Policy!createPolicy, PolicyFollows, Published
  <2> USE <1>2, <2>1 DEF Policy!createPolicy
  <2>2. Policy!TypeOK'
    OBVIOUS
  <2>3. PolicyFollows'
    BY DEF PolicyFollows
  <2>4. PolicyAlone'
    BY DEF PolicyAlone
  <2> QED
    BY <2>2, <2>3, <2>4
<1> DEFINE Row == [do : {"idle", "update", "publish", "archive", "acknowledge"},
                   by : Employees \cup {"nobody"}, n : Nat]
<1>3. ASSUME NEW c \in Calls, NEW allowed, NEW next \in Row, Policy!Check(c, allowed, next),
             policy.status # "NONE",
             next.do = "update" => policy.status = "DRAFT" /\ next.n = policy.version,
             next.do = "acknowledge" => Published /\ next.by \in Employees /\ next.n = policy.content
      PROVE  PolicyInv'
  <2>1. Policy!TypeOK' /\ PolicyFollows'
    BY <1>3 DEF Policy!Check, PolicyFollows, Published
  <2>2. ~overlap' => PolicyAlone'
    BY <1>3 DEF Policy!Check, PolicyAlone
  <2> QED
    BY <2>1, <2>2
<1>4. ASSUME NEW c \in Calls,
             Policy!UpdateCheck(c) \/ Policy!PublishCheck(c) \/ Policy!ArchiveCheck(c)
      PROVE  PolicyInv'
  <2>1. CASE Policy!UpdateCheck(c)
    BY <1>3, <2>1 DEF Policy!UpdateCheck, Policy!Check
  <2>2. CASE Policy!PublishCheck(c)
    BY <1>3, <2>2 DEF Policy!PublishCheck, Policy!Check
  <2>3. CASE Policy!ArchiveCheck(c)
    BY <1>3, <2>3 DEF Policy!ArchiveCheck, Policy!Check
  <2> QED
    BY <1>4, <2>1, <2>2, <2>3
<1>5. ASSUME NEW c \in Calls, NEW e \in Employees, Policy!AcknowledgeCheck(c, e)
      PROVE  PolicyInv'
  <2> PICK next : next = [do |-> "acknowledge", by |-> e, n |-> policy.content]
    OBVIOUS
  <2>1. next \in Row /\ next.do = "acknowledge" /\ next.by = e /\ next.n = policy.content
    OBVIOUS
  <2>2. Policy!Check(c, {"PUBLISHED"}, next)
    BY <1>5 DEF Policy!AcknowledgeCheck
  <2>3. policy.status = "PUBLISHED" /\ Published
    BY <2>2 DEF Policy!Check, Published
  <2> QED
    BY <1>3, <2>1, <2>2, <2>3
<1>6. ASSUME NEW c \in Calls, Policy!UpdateWrite(c) PROVE PolicyInv'
  <2> USE <1>6 DEF Policy!UpdateWrite, Policy!Finish
  <2>1. Policy!TypeOK' /\ policy'.status = policy.status
    <3>1. call[c].n \in Nat /\ edits' \in Nat
      OBVIOUS
    <3>2. policy' = [status |-> policy.status, version |-> call[c].n + 1, content |-> edits']
      OBVIOUS
    <3>3. call' \in [Calls -> Row]
      OBVIOUS
    <3>4. call[c].n + 1 \in Nat /\ policy.status \in {"NONE", "DRAFT", "PUBLISHED", "ARCHIVED"}
      BY <3>1
    <3>5. policy' \in [status : {"NONE", "DRAFT", "PUBLISHED", "ARCHIVED"}, version : Nat,
                       content : Nat]
      BY ONLY <3>1, <3>2, <3>4
    <3> QED
      BY <3>1, <3>2, <3>3, <3>5
  <2>2. PolicyFollows'
    BY <2>1 DEF PolicyFollows, Published
  <2>3. ASSUME ~overlap' PROVE PolicyAlone'
    <3>1. policy.status = "DRAFT" /\ call[c].n = policy.version /\ policy.version = edits
      BY <2>3 DEF PolicyAlone
    <3>2. \A e \in Employees : acked[e] = 0
      BY <3>1 DEF PolicyFollows, Published
    <3>3. \A d \in Calls : call'[d] = Policy!NoCall
      BY <2>3 DEF PolicyAlone
    <3> QED
      BY <3>1, <3>2, <3>3 DEF PolicyAlone
  <2> QED
    BY <2>1, <2>2, <2>3
<1>7. ASSUME NEW c \in Calls, Policy!StatusWrite(c) PROVE PolicyInv'
  BY <1>7 DEF Policy!StatusWrite, Policy!Finish, PolicyFollows, Published, PolicyAlone
<1>8. ASSUME NEW c \in Calls, Policy!AcknowledgeWrite(c) PROVE PolicyInv'
  BY <1>8 DEF Policy!AcknowledgeWrite, Policy!Finish, PolicyFollows, Published, PolicyAlone
<1>9. ASSUME NEW c \in Calls, Policy!Abort(c) PROVE PolicyInv'
  BY <1>9 DEF Policy!Abort, Policy!Finish, PolicyFollows, Published, PolicyAlone
<1> QED
  BY <1>1, <1>2, <1>4, <1>5, <1>6, <1>7, <1>8, <1>9 DEF Policy!Next

LEMMA PolicyStands == PolicyInv => Policy!AcknowledgedStands
BY DEF PolicyInv, PolicyFollows, PolicyAlone, Published, Policy!AcknowledgedStands

-------------------------------------------------------------------------------
(* Webhooks                                                                   *)

\* No count runs ahead of the failures reported; who is still active is below Threshold.
HookCounts ==
  /\ hook.consecutiveFailures <= reports /\ inARow <= reports
  /\ \A c \in Calls : /\ call[c] + 1 <= reports
                      /\ call[c] # Hooks!Idle => hook.status # "none"
  /\ hook.status = "none" => hook.consecutiveFailures = 0
  /\ hook.status = "ACTIVE" => hook.consecutiveFailures < Threshold
  /\ \A e \in Events : deliveries[e] <= 1 /\ (deliveries[e] = 1 => fanOut[e] = "done")

\* At most one report in flight: until it writes, the count is one behind.
HookAlone ==
  /\ \A c, d \in Calls : call[c] # Hooks!Idle /\ call[d] # Hooks!Idle => c = d
  /\ \A c \in Calls : call[c] # Hooks!Idle => /\ call[c] = hook.consecutiveFailures
                                              /\ inARow = hook.consecutiveFailures + 1
  /\ (\A c \in Calls : call[c] = Hooks!Idle) => inARow = hook.consecutiveFailures

HookInv == Hooks!TypeOK /\ HookCounts /\ (~overlap => HookAlone)

LEMMA HookBounds == MaxReports \in Nat /\ Threshold \in Nat /\ Threshold > 0 /\ -1 \in Int
BY RecordsAssumption DEF RecordsAssumption

LEMMA HookInit == Hooks!Init => HookInv
<1> SUFFICES ASSUME Hooks!Init PROVE HookInv
  OBVIOUS
<1> USE HookBounds DEF Hooks!Init, Hooks!Idle
<1>1. Hooks!TypeOK
  <2>1. hook \in [status : {"none", "ACTIVE", "INACTIVE"}, subscribed : BOOLEAN,
                 consecutiveFailures : 0..MaxReports]
    OBVIOUS
  <2>2. call \in [Calls -> Hooks!Idle..MaxReports]
    OBVIOUS
  <2>3. deliveries \in [Events -> 0..2] /\ inARow \in 0..MaxReports /\ reports \in 0..MaxReports
    OBVIOUS
  <2> QED
    BY <2>1, <2>2, <2>3 DEF Hooks!TypeOK
<1>2. HookCounts
  BY DEF HookCounts
<1>3. HookAlone
  BY DEF HookAlone
<1> QED
  BY <1>1, <1>2, <1>3 DEF HookInv

LEMMA HookRegisters ==
  ASSUME HookInv, NEW s \in BOOLEAN, Hooks!register(s) \/ Hooks!update(s)
  PROVE  HookInv'
<1> USE HookBounds DEF HookInv, Hooks!TypeOK, HookCounts, HookAlone, Hooks!counting, Hooks!delivering
<1>1. CASE Hooks!register(s)
  BY <1>1 DEF Hooks!register
<1>2. CASE Hooks!update(s)
  BY <1>2 DEF Hooks!update
<1> QED
  BY <1>1, <1>2

\* The listener: no report begins or ends.
LEMMA HookDelivers ==
  ASSUME HookInv, NEW e \in Events,
         Hooks!Emit(e) \/ Hooks!List(e) \/ Hooks!Store(e) \/ Hooks!StoreFails(e)
  PROVE  HookInv'
<1> USE DEF HookInv, Hooks!TypeOK, HookCounts, HookAlone, Hooks!counting, Hooks!Moves
<1>1. CASE Hooks!Emit(e)
  BY <1>1 DEF Hooks!Emit
<1>2. CASE Hooks!List(e)
  BY <1>2 DEF Hooks!List
<1>3. CASE Hooks!Store(e)
  BY <1>3 DEF Hooks!Store
<1>4. CASE Hooks!StoreFails(e)
  BY <1>4 DEF Hooks!StoreFails
<1> QED
  BY <1>1, <1>2, <1>3, <1>4

LEMMA HookReports ==
  ASSUME HookInv, NEW c \in Calls,
         \/ Hooks!ReportFailure(c) \/ Hooks!deactivateOnFailureThreshold(c)
         \/ Hooks!ReportLost(c)
  PROVE  HookInv'
<1> USE HookBounds DEF HookInv, Hooks!TypeOK, HookCounts, Hooks!delivering, Hooks!Ends, Hooks!Idle
<1> DEFINE n == hook.consecutiveFailures
<1>0. /\ n \in Nat /\ inARow \in Nat /\ reports \in Nat /\ hook.status \in {"none", "ACTIVE", "INACTIVE"}
      /\ hook.subscribed \in BOOLEAN /\ \A d \in Calls : call[d] \in -1..MaxReports
  OBVIOUS
<1>1. CASE Hooks!ReportFailure(c)
  <2> USE <1>1 DEF Hooks!ReportFailure
  <2>1. call' = [call EXCEPT ![c] = n] /\ n \in -1..MaxReports
    BY <1>0
  <2>2. Hooks!TypeOK'
    BY <1>0, <2>1
  <2>3. HookCounts'
    BY <1>0, <2>1
  <2>4. ASSUME ~overlap' PROVE HookAlone'
    <3>1. inARow = n /\ \A d \in Calls : call[d] = -1
      BY <2>4 DEF HookAlone
    <3>2. inARow' = n + 1 /\ hook'.consecutiveFailures = n /\ call'[c] = n /\ n # -1
          /\ \A d \in Calls \ {c} : call'[d] = -1
      BY <1>0, <2>1, <3>1
    <3> QED
      BY <3>2 DEF HookAlone
  <2> QED
    BY <2>2, <2>3, <2>4
<1>2. CASE Hooks!deactivateOnFailureThreshold(c)
  <2> USE <1>2 DEF Hooks!deactivateOnFailureThreshold
  <2>1. call[c] \in Nat /\ call[c] + 1 \in 0..MaxReports /\ call[c] + 1 <= reports
    BY <1>0
  <2>2. /\ hook'.consecutiveFailures = call[c] + 1 /\ hook'.subscribed = hook.subscribed
        /\ hook'.status = IF call[c] + 1 >= Threshold THEN "INACTIVE" ELSE hook.status
    BY <1>0
  <2>3. hook' \in [status : {"none", "ACTIVE", "INACTIVE"}, subscribed : BOOLEAN,
                   consecutiveFailures : 0..MaxReports]
    BY <1>0, <2>1
  <2>4. Hooks!TypeOK'
    BY <1>0, <2>3
  <2>5. HookCounts'
    <3>1. hook.status # "none"
      BY <2>1
    <3>2. call'[c] = -1 /\ \A d \in Calls \ {c} : call'[d] = call[d]
      BY <1>0
    <3> QED
      BY <1>0, <2>1, <2>2, <3>1, <3>2
  <2>6. ASSUME ~overlap' PROVE HookAlone'
    <3>1. call[c] = n /\ inARow = n + 1 /\ \A d \in Calls : call'[d] = -1
      BY <1>0, <2>1, <2>6 DEF HookAlone
    <3> QED
      BY <2>2, <3>1 DEF HookAlone
  <2> QED
    BY <2>4, <2>5, <2>6
<1>3. CASE Hooks!ReportLost(c)
  BY <1>3 DEF Hooks!ReportLost
<1> QED
  BY <1>1, <1>2, <1>3

LEMMA HookResets == HookInv /\ Hooks!resetFailureCount => HookInv'
<1> SUFFICES ASSUME HookInv, Hooks!resetFailureCount PROVE HookInv'
  OBVIOUS
<1> USE HookBounds DEF HookInv, Hooks!TypeOK, HookCounts, Hooks!delivering, Hooks!Idle,
                       Hooks!resetFailureCount
<1>0. /\ hook.consecutiveFailures \in Nat /\ inARow \in Nat /\ reports \in Nat
      /\ hook.status \in {"none", "ACTIVE", "INACTIVE"} /\ hook.subscribed \in BOOLEAN
  OBVIOUS
<1>1. /\ hook'.consecutiveFailures = 0 /\ hook'.subscribed = hook.subscribed
      /\ hook'.status = hook.status /\ hook.status # "none"
  BY <1>0
<1>2. hook' \in [status : {"none", "ACTIVE", "INACTIVE"}, subscribed : BOOLEAN,
                 consecutiveFailures : 0..MaxReports]
  BY <1>0
<1>3. Hooks!TypeOK' /\ HookCounts'
  BY <1>0, <1>1, <1>2
<1>4. ~overlap' => HookAlone'
  BY <1>0, <1>1 DEF HookAlone
<1> QED
  BY <1>3, <1>4

LEMMA HookNext == HookInv /\ [Hooks!Next]_(Hooks!vars) => HookInv'
<1> SUFFICES ASSUME HookInv, [Hooks!Next]_(Hooks!vars) PROVE HookInv'
  OBVIOUS
<1>1. CASE UNCHANGED Hooks!vars
  BY <1>1 DEF HookInv, Hooks!TypeOK, HookCounts, HookAlone, Hooks!vars, Hooks!Idle
<1>2. CASE \E s \in BOOLEAN : Hooks!register(s) \/ Hooks!update(s)
  BY <1>2, HookRegisters
<1>3. CASE \E e \in Events : Hooks!Emit(e) \/ Hooks!List(e) \/ Hooks!Store(e) \/ Hooks!StoreFails(e)
  BY <1>3, HookDelivers
<1>4. CASE \E c \in Calls : \/ Hooks!ReportFailure(c) \/ Hooks!deactivateOnFailureThreshold(c)
                            \/ Hooks!ReportLost(c)
  BY <1>4, HookReports
<1>5. CASE Hooks!resetFailureCount
  BY <1>5, HookResets
<1> QED
  BY <1>1, <1>2, <1>3, <1>4, <1>5 DEF Hooks!Next

-------------------------------------------------------------------------------
(* Mails                                                                      *)

Note == [emailSent : BOOLEAN, isRead : BOOLEAN]

\* Marking rows read changes nothing else about them.
LEMMA RowsRead ==
  ASSUME NEW list \in Seq(Note)
  PROVE  /\ Mails!Read(list) \in Seq(Note) /\ Len(Mails!Read(list)) = Len(list)
         /\ \A i \in 1..Len(list) : Mails!Read(list)[i].emailSent = list[i].emailSent
<1>1. list \in [1..Len(list) -> Note] /\ Len(list) \in Nat
  BY LenProperties
<1>2. Mails!Read(list) = [i \in 1..Len(list) |-> [list[i] EXCEPT !.isRead = TRUE]]
  BY <1>1 DEF Mails!Read
<1>3. Mails!Read(list) \in [1..Len(list) -> Note]
  <2>1. \A i \in 1..Len(list) : [list[i] EXCEPT !.isRead = TRUE] \in Note
    BY <1>1 DEF Note
  <2> QED
    BY <1>2, <2>1
<1>4. Mails!Read(list) \in Seq(Note)
  <2>1. \E n \in Nat : Mails!Read(list) \in [1..n -> Note]
    BY <1>1, <1>3
  <2> QED
    BY <2>1, SeqDef, SMTT(30)
<1>5. \A i \in 1..Len(list) : Mails!Read(list)[i].emailSent = list[i].emailSent
  BY <1>1, <1>2 DEF Note
<1> QED
  BY <1>1, <1>3, <1>4, <1>5, LenProperties

\* A mail is sent before its row is inserted; only an insert that threw may be followed
\* by another one.
MailFollows(e) ==
  /\ mails[e] <= 1 /\ Len(rows[e]) <= 2
  /\ handler[e] \in {"none", "find", "flag", "send"} => mails[e] = 0
  /\ handler[e] \notin {"insertFailed", "done"} => Len(rows[e]) = 0
  /\ e \notin failed => Len(rows[e]) <= 1 /\ handler[e] # "insertFailed"
  /\ handler[e] = "insertFailed" =>
       Len(rows[e]) <= 1 /\ (Len(rows[e]) = 1 => rows[e][1].emailSent)
  /\ Len(rows[e]) = 2 => rows[e][1].emailSent /\ ~rows[e][2].emailSent
  /\ mails[e] = 1 /\ handler[e] = "done" /\ e \notin failed =>
       Len(rows[e]) = 1 /\ rows[e][1].emailSent

MailInv == Mails!TypeOK /\ \A e \in Events : MailFollows(e)

LEMMA MailInit == Mails!Init => MailInv
<1> SUFFICES ASSUME Mails!Init PROVE MailInv
  OBVIOUS
<1>1. << >> \in Seq(Note) /\ Len(<< >>) = 0
  OBVIOUS
<1>2. Mails!TypeOK
  BY <1>1 DEF Mails!Init, Mails!TypeOK, Note
<1>3. \A e \in Events : MailFollows(e)
  BY <1>1 DEF Mails!Init, MailFollows
<1> QED
  BY <1>2, <1>3 DEF MailInv

\* What a step of one handler must keep, for everything else stays.
LEMMA MailTurn ==
  ASSUME MailInv, NEW e \in Events,
         NEW next \in {"find", "flag", "send", "insert", "insertFailed", "done"},
         handler' = [handler EXCEPT ![e] = next], mails' \in [Events -> 0..2],
         rows' \in [Events -> Seq(Note)], failed' \in {failed, failed \cup {e}},
         \A d \in Events \ {e} : mails'[d] = mails[d] /\ rows'[d] = rows[d],
         handler'[e] = next => MailFollows(e)'
  PROVE  MailInv'
<1>1. /\ Mails!TypeOK' /\ handler'[e] = next
      /\ \A d \in Events \ {e} : handler'[d] = handler[d] /\ (d \in failed' <=> d \in failed)
  BY DEF MailInv, Mails!TypeOK, Note
<1>2. \A d \in Events \ {e} : MailFollows(d)'
  BY <1>1 DEF MailInv, MailFollows
<1> QED
  BY <1>1, <1>2 DEF MailInv

\* The steps of one handler before the insert.
LEMMA MailHandler ==
  ASSUME MailInv, NEW e \in Events,
         \/ Mails!emit(e) \/ Mails!FindRecipient(e) \/ Mails!Enabled(e) \/ Mails!Send(e)
         \/ Mails!FindFails(e)
  PROVE  MailInv'
<1>0. /\ MailFollows(e) /\ handler[e] \in {"none", "find", "flag", "send"} /\ Len(rows[e]) = 0
      /\ mails[e] = 0 /\ UNCHANGED rows /\ rows \in [Events -> Seq(Note)] /\ mails \in [Events -> 0..2]
      /\ failed' \in {failed, failed \cup {e}}
  BY DEF MailInv, MailFollows, Mails!TypeOK, Note, Mails!At, Mails!emit, Mails!FindRecipient,
         Mails!Enabled, Mails!Send, Mails!FindFails
<1>1. \A d \in {e} : mails' \in {mails, [mails EXCEPT ![d] = 1]}
  BY <1>0 DEF Mails!emit, Mails!FindRecipient, Mails!Enabled, Mails!Send, Mails!FindFails
<1>2. /\ mails' \in [Events -> 0..2] /\ mails'[e] \in {0, 1}
      /\ \A d \in Events \ {e} : mails'[d] = mails[d]
  BY <1>0, <1>1, SMTT(60)
<1>3. PICK next \in {"find", "flag", "send", "insert", "done"} :
        /\ handler' = [handler EXCEPT ![e] = next]
        /\ next \in {"find", "flag", "send", "done"} => UNCHANGED mails
  BY DEF Mails!At, Mails!emit, Mails!FindRecipient, Mails!Enabled, Mails!Send, Mails!FindFails
<1>4. handler'[e] = next => MailFollows(e)'
  BY <1>0, <1>2, <1>3 DEF MailFollows
<1> QED
  BY <1>0, <1>2, <1>3, <1>4, MailTurn

\* The inserts, with what a failed one leaves.
LEMMA MailInsert ==
  ASSUME MailInv, NEW e \in Events,
         \/ Mails!NotSent(e) \/ Mails!InsertSent(e) \/ Mails!InsertNotSent(e)
         \/ Mails!InsertSentFails(e) \/ Mails!InsertFails(e)
  PROVE  MailInv'
<1>0. rows \in [Events -> Seq(Note)] /\ rows[e] \in Seq(Note)
  BY DEF MailInv, Mails!TypeOK, Note
<1>1. MailFollows(e) /\ Len(rows[e]) \in Nat
  BY <1>0 DEF MailInv
<1> DEFINE Grown(row) ==
      /\ rows' \in [Events -> Seq(Note)] /\ \A d \in Events \ {e} : rows'[d] = rows[d]
      /\ Len(rows'[e]) = Len(rows[e]) + 1
      /\ Len(rows[e]) = 0 => rows'[e][1] = row
      /\ Len(rows[e]) = 1 => rows'[e][1] = rows[e][1] /\ rows'[e][2] = row
<1>2. ASSUME NEW row \in Note, rows' = [rows EXCEPT ![e] = Append(rows[e], row)]
      PROVE  Grown(row)
  <2>1. PICK new : new = Append(rows[e], row)
    OBVIOUS
  <2>2. new \in Seq(Note) /\ Len(new) = Len(rows[e]) + 1
    BY <1>0, <2>1
  <2>3. /\ Len(rows[e]) = 0 => new[1] = row
        /\ Len(rows[e]) = 1 => new[1] = rows[e][1] /\ new[2] = row
    BY <1>0, <2>1
  <2>4. rows' = [rows EXCEPT ![e] = new]
    BY <1>2, <2>1
  <2>5. rows'[e] = new
    BY <1>0, <2>4
  <2> QED
    BY <1>0, <2>2, <2>3, <2>4, <2>5
<1> HIDE DEF Grown
<1>3. UNCHANGED mails /\ failed' \in {failed, failed \cup {e}} /\ mails \in [Events -> 0..2]
  BY DEF Mails!NotSent, Mails!InsertSent, Mails!InsertNotSent, Mails!InsertSentFails,
         Mails!InsertFails, Mails!InsertThrows, MailInv, Mails!TypeOK
<1>4. \/ \E row \in Note :
           /\ Grown(row)
           /\ \/ row.emailSent /\ handler[e] = "insert"
              \/ ~row.emailSent /\ handler[e] \in {"flag", "insertFailed"}
      \/ UNCHANGED rows /\ e \in failed'
  <2> DEFINE Row(sent) == [emailSent |-> sent, isRead |-> FALSE]
  <2>1. Row(TRUE) \in Note /\ Row(TRUE).emailSent /\ Row(FALSE) \in Note /\ ~Row(FALSE).emailSent
    BY DEF Note
  <2>2. \/ Mails!Insert(e, TRUE) /\ handler[e] = "insert"
        \/ Mails!Insert(e, FALSE) /\ handler[e] \in {"flag", "insertFailed"}
        \/ UNCHANGED rows /\ e \in failed'
    BY DEF Mails!At, Mails!NotSent, Mails!InsertSent, Mails!InsertNotSent, Mails!InsertSentFails,
           Mails!InsertFails, Mails!InsertThrows
  <2>3. CASE Mails!Insert(e, TRUE) /\ handler[e] = "insert"
    BY <1>2, <2>1, <2>3, Zenon DEF Mails!Insert
  <2>4. CASE Mails!Insert(e, FALSE) /\ handler[e] \in {"flag", "insertFailed"}
    BY <1>2, <2>1, <2>4, Zenon DEF Mails!Insert
  <2> QED
    BY <2>2, <2>3, <2>4, Zenon
<1>5. rows' \in [Events -> Seq(Note)] /\ \A d \in Events \ {e} : rows'[d] = rows[d]
  BY <1>0, <1>4 DEF Grown
<1>6. PICK next \in {"insertFailed", "done"} :
        /\ handler' = [handler EXCEPT ![e] = next]
        /\ next = "insertFailed" => handler[e] = "insert" /\ e \in failed'
  BY DEF Mails!At, Mails!NotSent, Mails!InsertSent, Mails!InsertNotSent, Mails!InsertSentFails,
         Mails!InsertFails, Mails!InsertThrows
<1>7. /\ Len(rows'[e]) \in Nat /\ Len(rows'[e]) <= 2
      /\ next = "insertFailed" => Len(rows'[e]) <= 1 /\ (Len(rows'[e]) = 1 => rows'[e][1].emailSent)
      /\ Len(rows'[e]) = 2 => rows'[e][1].emailSent /\ ~rows'[e][2].emailSent
      /\ e \notin failed' => Len(rows'[e]) = 1 /\ (mails[e] = 0 \/ rows'[e][1].emailSent)
  <2>1. CASE UNCHANGED rows /\ e \in failed'
    <3>1. Len(rows'[e]) = Len(rows[e]) /\ rows'[e] = rows[e]
      BY <2>1
    <3> QED
      BY <1>1, <1>6, <2>1, <3>1 DEF MailFollows
  <2>2. CASE UNCHANGED rows => e \notin failed'
    <3>1. PICK row \in Note :
            /\ Grown(row)
            /\ \/ row.emailSent /\ handler[e] = "insert"
               \/ ~row.emailSent /\ handler[e] \in {"flag", "insertFailed"}
      BY <1>4, <2>2
    <3>2. CASE row.emailSent /\ handler[e] = "insert"
      <4>1. Len(rows[e]) = 0 /\ Len(rows'[e]) = 1 /\ rows'[e][1].emailSent
        BY <1>1, <3>1, <3>2 DEF Grown, MailFollows
      <4> QED
        BY <4>1
    <3>3. CASE handler[e] = "flag"
      <4>1. Len(rows[e]) = 0 /\ Len(rows'[e]) = 1 /\ mails[e] = 0 /\ next = "done"
        <5>1. Len(rows[e]) = 0 /\ mails[e] = 0
          BY <1>1, <3>3 DEF MailFollows
        <5> QED
          BY <1>6, <3>1, <3>3, <5>1 DEF Grown
      <4> QED
        BY <4>1
    <3>4. CASE ~row.emailSent /\ handler[e] = "insertFailed"
      <4>1. Len(rows[e]) <= 1 /\ (Len(rows[e]) = 1 => rows[e][1].emailSent) /\ e \in failed
        BY <1>1, <3>4 DEF MailFollows
      <4>2. Len(rows'[e]) = Len(rows[e]) + 1 /\ next = "done" /\ e \in failed'
        BY <1>3, <1>6, <3>1, <3>4, <4>1 DEF Grown
      <4>3. Len(rows[e]) = 1 => rows'[e][1].emailSent /\ ~rows'[e][2].emailSent
        BY <3>1, <3>4, <4>1 DEF Grown
      <4>4. \A m \in Nat : m <= 1 => m + 1 \in Nat /\ m + 1 <= 2 /\ (m + 1 = 2 => m = 1)
        OBVIOUS
      <4>5. Len(rows'[e]) \in Nat /\ Len(rows'[e]) <= 2 /\ (Len(rows'[e]) = 2 => Len(rows[e]) = 1)
        BY <1>1, <4>1, <4>2, <4>4, Zenon
      <4> QED
        BY <4>2, <4>3, <4>5
    <3> QED
      BY <3>1, <3>2, <3>3, <3>4
  <2> QED
    BY <2>1, <2>2
<1>8. handler'[e] = next => MailFollows(e)'
  BY <1>1, <1>3, <1>4, <1>6, <1>7 DEF MailFollows
<1> QED
  BY <1>3, <1>5, <1>6, <1>8, MailTurn

LEMMA MailCrash == MailInv /\ Mails!Crash => MailInv'
BY DEF MailInv, Mails!TypeOK, MailFollows, Mails!Crash, Mails!Running

\* Rows that were read or not read are the same rows.
LEMMA MailsRead ==
  ASSUME MailInv, UNCHANGED <<handler, mails, failed>>, rows' \in [Events -> Seq(Note)],
         \A e \in Events : rows'[e] \in {rows[e], Mails!Read(rows[e])}
  PROVE  MailInv'
<1>1. ASSUME NEW e \in Events
      PROVE  /\ Len(rows'[e]) = Len(rows[e])
             /\ Len(rows[e]) = 1 => rows'[e][1].emailSent = rows[e][1].emailSent
             /\ Len(rows[e]) = 2 => /\ rows'[e][1].emailSent = rows[e][1].emailSent
                                    /\ rows'[e][2].emailSent = rows[e][2].emailSent
  <2>1. rows[e] \in Seq(Note)
    BY DEF MailInv, Mails!TypeOK, Note
  <2>2. \/ rows'[e] = rows[e]
        \/ /\ Len(rows'[e]) = Len(rows[e])
           /\ \A i \in 1..Len(rows[e]) : rows'[e][i].emailSent = rows[e][i].emailSent
    BY <2>1, RowsRead
  <2>3. 1 \in 1..1 /\ 1 \in 1..2 /\ 2 \in 1..2
    OBVIOUS
  <2> QED
    BY <2>2, <2>3
<1>2. Mails!TypeOK'
  BY DEF MailInv, Mails!TypeOK, Note
<1> QED
  BY <1>1, <1>2 DEF MailInv, MailFollows

LEMMA MailNext == MailInv /\ [Mails!Next]_(Mails!vars) => MailInv'
<1> SUFFICES ASSUME MailInv, [Mails!Next]_(Mails!vars) PROVE MailInv'
  OBVIOUS
<1>0. rows \in [Events -> Seq(Note)] /\ \A e \in Events : Mails!Read(rows[e]) \in Seq(Note)
  BY RowsRead DEF MailInv, Mails!TypeOK, Note
<1>1. CASE UNCHANGED Mails!vars
  BY <1>0, <1>1, MailsRead DEF Mails!vars
<1>2. CASE Mails!Crash
  BY <1>2, MailCrash
<1>3. CASE Mails!markAllRead
  BY <1>0, <1>3, MailsRead DEF Mails!markAllRead
<1>4. ASSUME NEW e \in Events, Mails!markRead(e) PROVE MailInv'
  BY <1>0, <1>4, MailsRead DEF Mails!markRead
<1> QED
  BY <1>1, <1>2, <1>3, <1>4, MailHandler, MailInsert DEF Mails!Next

-------------------------------------------------------------------------------
(* Report exports                                                             *)

\* How often a job may have begun again, and whether its last try has stored.
Again(j)  == IF j \in stalled THEN 1 ELSE 0
Stored(j) == IF job[j].state \in {"stored", "told", "done"} THEN 1 ELSE 0
Told(j)   == IF job[j].state \in {"told", "done"} THEN 1 ELSE 0

\* What a job has stored follows from how far it came and from the attempts it lost; it
\* runs on its last attempt or has another.
JobFollows(j) ==
  /\ ready[j] <= Again(j) + Told(j) /\ ready[j] + Stored(j) <= objects[j] + Told(j)
  /\ Stored(j) <= objects[j]
  /\ objects[j] + job[j].left <= Attempts + Again(j) + Stored(j)
  /\ j \notin lost => objects[j] <= Again(j) + Stored(j)
  /\ job[j].state = "none" => job[j] = Exports!NoJob /\ j \notin stalled \cup lost
  /\ job[j].state \in {"waiting", "loaded", "queried", "stored", "told", "done"} =>
       job[j].left >= 1

Added == {j \in Jobs : job[j].state # "none"}

\* A tick in flight has a due time of its own until it has queued the export.
TicksAlone ==
  /\ \A t, u \in Ticks : tick[t] # "idle" /\ tick[u] # "idle" => t = u
  /\ queued <= dueTimes
  /\ \A t \in Ticks : tick[t] \in {"listed", "read"} => queued < dueTimes
  /\ schedule.next = "due" /\ (\A t \in Ticks : tick[t] # "added") => queued < dueTimes

ExportInv ==
  /\ Exports!TypeOK
  /\ \A j \in Jobs : JobFollows(j)
  /\ queued <= Cardinality(Added)
  /\ ~overlap => TicksAlone

\* The bounds of the part are numbers.
LEMMA ExportBounds == /\ Attempts \in Nat /\ Attempts >= 1 /\ IsFiniteSet(Jobs)
                      /\ Exports!Full = Cardinality(Jobs) /\ Exports!Full \in Nat
<1>1. Exports!Full = Cardinality(Jobs)
  BY DEF Exports!Full, Exports!Cardinality, Cardinality
<1>2. Attempts \in Nat /\ Attempts >= 1 /\ IsFiniteSet(Jobs)
  BY RecordsAssumption DEF RecordsAssumption
<1> QED
  BY <1>1, <1>2, FS_CardinalityType

LEMMA ExportInit == Exports!Init => ExportInv
<1> SUFFICES ASSUME Exports!Init PROVE ExportInv
  OBVIOUS
<1> USE ExportBounds DEF Exports!Init, Exports!NoJob, Exports!NoSchedule
<1>1. Exports!TypeOK
  <2>1. job \in [Jobs -> [state : {"none", "waiting", "loaded", "queried", "stored", "told",
                                   "done", "failed"},
                         left : 0..Attempts, tell : BOOLEAN]]
    OBVIOUS
  <2>2. objects \in [Jobs -> 0..Attempts + 1] /\ ready \in [Jobs -> 0..2]
    OBVIOUS
  <2>3. dueTimes \in 0..Exports!Full /\ queued \in 0..Exports!Full
    OBVIOUS
  <2> QED
    BY <2>1, <2>2, <2>3 DEF Exports!TypeOK
<1>2. \A j \in Jobs : JobFollows(j)
  BY DEF JobFollows, Again, Stored, Told
<1>3. Cardinality(Added) = 0
  <2>1. Added = {}
    BY DEF Added
  <2> QED
    BY <2>1, FS_EmptySet
<1>4. TicksAlone
  BY DEF TicksAlone
<1> QED
  BY <1>1, <1>2, <1>3, <1>4 DEF ExportInv

JobRow == [state : {"none", "waiting", "loaded", "queried", "stored", "told", "done", "failed"},
           left : 0..Attempts, tell : BOOLEAN]

\* What a step of one job must keep, for everything else stays.
LEMMA JobTurn ==
  ASSUME ExportInv, NEW j \in Jobs, NEW new \in JobRow, job' = [job EXCEPT ![j] = new],
         job[j].state # "none", new.state # "none",
         objects' \in [Jobs -> 0..Attempts + 1], ready' \in [Jobs -> 0..2],
         stalled' \subseteq Jobs, lost' \subseteq Jobs,
         \A k \in Jobs \ {j} : /\ objects'[k] = objects[k] /\ ready'[k] = ready[k]
                               /\ (k \in stalled' <=> k \in stalled) /\ (k \in lost' <=> k \in lost),
         UNCHANGED <<report, schedule, Exports!ticks>>,
         job'[j] = new => JobFollows(j)'
  PROVE  ExportInv'
<1>1. /\ \A k \in Jobs \ {j} : job'[k] = job[k] /\ job'[j] = new /\ job' \in [Jobs -> JobRow]
      /\ UNCHANGED <<report, schedule, tick, dueTimes, queued, overlap>>
  BY DEF ExportInv, Exports!TypeOK, JobRow, Exports!ticks
<1>0. job'[j] = new
  BY DEF ExportInv, Exports!TypeOK
<1>2. Exports!TypeOK'
  BY <1>1 DEF ExportInv, Exports!TypeOK, JobRow, Exports!Full, Exports!Cardinality
<1>3. \A k \in Jobs \ {j} : JobFollows(k)'
  BY <1>1 DEF ExportInv, JobFollows, Again, Stored, Told
<1>4. Added' = Added
  BY <1>0, <1>1 DEF Added, ExportInv, Exports!TypeOK
<1>5. ~overlap' => TicksAlone'
  BY <1>1 DEF ExportInv, TicksAlone
<1> QED
  BY <1>0, <1>1, <1>2, <1>3, <1>4, <1>5 DEF ExportInv

\* What is known of the job that takes a step.
LEMMA JobKnown ==
  ASSUME ExportInv, NEW j \in Jobs
  PROVE  /\ job \in [Jobs -> JobRow] /\ job[j] \in JobRow /\ JobFollows(j)
         /\ objects \in [Jobs -> 0..Attempts + 1] /\ ready \in [Jobs -> 0..2]
         /\ stalled \subseteq Jobs /\ lost \subseteq Jobs
BY DEF ExportInv, Exports!TypeOK, JobRow

\* A failed step, with or without attempts left.
LEMMA JobFails ==
  ASSUME ExportInv, NEW j \in Jobs,
         Exports!LoadFails(j) \/ Exports!QueryFails(j) \/ Exports!StoreFails(j)
  PROVE  ExportInv'
<1> USE JobKnown, ExportBounds
<1>1. job[j].state \in {"waiting", "loaded", "queried"} /\ Exports!Fails(j)
  BY DEF Exports!LoadFails, Exports!QueryFails, Exports!StoreFails
<1>2. PICK next \in {"waiting", "failed"} :
           next = IF job[j].left > 1 THEN "waiting" ELSE "failed"
  OBVIOUS
<1>3. PICK left : left = job[j].left - 1
  OBVIOUS
<1>4. /\ job[j].left \in Nat /\ job[j].left >= 1 /\ left \in 0..Attempts
      /\ (next = "waiting" => left >= 1)
  BY <1>1, <1>2, <1>3 DEF JobRow, JobFollows
<1>5. PICK new : new = [[job[j] EXCEPT !.left = left] EXCEPT !.state = next]
  OBVIOUS
<1>6. new \in JobRow /\ new.state = next /\ new.left = left
  BY <1>1, <1>2, <1>4, <1>5 DEF JobRow
<1>7. job' = [job EXCEPT ![j] = new]
  <2>1. job' = [[job EXCEPT ![j] = [@ EXCEPT !.left = left]] EXCEPT ![j] = [@ EXCEPT !.state = next]]
    BY <1>1, <1>2, <1>3 DEF Exports!Fails
  <2> QED
    BY <1>5, <2>1
<1>8. UNCHANGED <<ready, stalled>> /\ UNCHANGED <<report, schedule, Exports!ticks>>
  BY <1>1 DEF Exports!Fails, Exports!Others
<1>9. \/ UNCHANGED <<objects, lost>>
      \/ Exports!Put(j) /\ lost' = lost \cup {j}
  BY DEF Exports!LoadFails, Exports!QueryFails, Exports!StoreFails
<1>10. /\ objects[j] \in Nat /\ Stored(j) = 0 /\ Told(j) = 0 /\ Again(j) \in {0, 1}
       /\ objects[j] + job[j].left <= Attempts + Again(j) /\ ready[j] <= objects[j]
       /\ ready[j] <= Again(j) /\ (j \notin lost => objects[j] <= Again(j)) /\ ready[j] \in Nat
  BY <1>1 DEF JobFollows, Stored, Told, Again
<1>11. /\ objects' \in [Jobs -> 0..Attempts + 1] /\ lost' \subseteq Jobs
       /\ \A k \in Jobs \ {j} : objects'[k] = objects[k] /\ (k \in lost' <=> k \in lost)
       /\ objects'[j] \in Nat
       /\ objects'[j] + left <= Attempts + Again(j) /\ objects'[j] >= objects[j]
       /\ (j \notin lost' => objects'[j] <= Again(j))
  <2>1. CASE UNCHANGED <<objects, lost>>
    BY <1>3, <1>4, <1>10, <2>1
  <2>2. CASE Exports!Put(j) /\ lost' = lost \cup {j}
    <3>1. objects[j] + 1 \in 0..Attempts + 1 /\ objects' = [objects EXCEPT ![j] = objects[j] + 1]
      BY <1>4, <1>10, <2>2 DEF Exports!Put
    <3>2. objects'[j] = objects[j] + 1 /\ objects' \in [Jobs -> 0..Attempts + 1]
      BY <3>1
    <3> QED
      BY <1>3, <1>4, <1>10, <2>2, <3>1, <3>2
  <2> QED
    BY <1>9, <2>1, <2>2
<1>12. job'[j] = new => JobFollows(j)'
  <2> HAVE job'[j] = new
  <2>1. Stored(j)' = 0 /\ Told(j)' = 0 /\ Again(j)' = Again(j) /\ ready'[j] = ready[j]
    BY <1>2, <1>6, <1>8 DEF Stored, Told, Again
  <2>2. job'[j].state = next /\ job'[j].left = left
    BY <1>6
  <2> QED
    BY <1>2, <1>4, <1>10, <1>11, <2>1, <2>2 DEF JobFollows
<1>13. job[j].state # "none" /\ new.state # "none" /\ ready' \in [Jobs -> 0..2] /\ stalled' \subseteq Jobs
  BY <1>1, <1>2, <1>6, <1>8
<1> QED
  BY <1>6, <1>7, <1>8, <1>11, <1>12, <1>13, JobTurn

\* The steps that go on, and the crash that starts the job again.
LEMMA JobMoves ==
  ASSUME ExportInv, NEW j \in Jobs,
         \/ Exports!Load(j) \/ Exports!RunQuery(j) \/ Exports!Store(j) \/ Exports!Notify(j)
         \/ Exports!Complete(j) \/ Exports!Crash(j)
  PROVE  ExportInv'
<1> USE JobKnown, ExportBounds
<1>0. Again(j) \in {0, 1} /\ objects[j] \in Nat /\ ready[j] \in Nat /\ job[j].left \in Nat
  BY DEF Again, JobRow
<1>1. ASSUME NEW next \in {"loaded", "queried", "stored", "told", "done", "waiting"},
             Exports!Moves(j, job[j].state, next), job[j].state \notin {"none", "failed"},
             objects' \in [Jobs -> 0..Attempts + 1], ready' \in [Jobs -> 0..2],
             stalled' \subseteq Jobs, UNCHANGED lost,
             \A k \in Jobs \ {j} : /\ objects'[k] = objects[k] /\ ready'[k] = ready[k]
                                   /\ (k \in stalled' <=> k \in stalled),
             Exports!Others,
             job'[j].state = next /\ job'[j].left = job[j].left /\ job[j].left >= 1 => JobFollows(j)'
      PROVE  ExportInv'
  <2> PICK new : new = [job[j] EXCEPT !.state = next]
    OBVIOUS
  <2>1. new \in JobRow /\ new.state = next /\ new.left = job[j].left /\ new.state # "none"
    BY DEF JobRow
  <2>2. job' = [job EXCEPT ![j] = new]
    BY <1>1 DEF Exports!Moves
  <2>3. job[j].left >= 1
    BY <1>1 DEF JobRow, JobFollows
  <2>4. job'[j] = new => JobFollows(j)'
    BY <1>1, <2>1, <2>3
  <2>5. UNCHANGED <<report, schedule, Exports!ticks>>
    BY <1>1 DEF Exports!Others
  <2> QED
    BY <1>1, <2>1, <2>2, <2>4, <2>5, JobTurn, ZenonT(60)
<1> USE <1>0 DEF JobFollows, Stored, Told, Again
<1>2. CASE Exports!Load(j)
  BY <1>1, <1>2 DEF Exports!Load, Exports!Moves
<1>3. CASE Exports!RunQuery(j)
  BY <1>1, <1>3 DEF Exports!RunQuery, Exports!Moves
<1>4. CASE Exports!Store(j)
  <2>1. objects[j] + 1 \in 0..Attempts + 1 /\ objects' = [objects EXCEPT ![j] = objects[j] + 1]
    BY <1>4 DEF Exports!Store, Exports!Moves, Exports!Put
  <2>2. objects' \in [Jobs -> 0..Attempts + 1] /\ objects'[j] = objects[j] + 1
    BY <2>1
  <2> QED
    BY <1>1, <1>4, <2>1, <2>2 DEF Exports!Store, Exports!Moves
<1>5. CASE Exports!Notify(j)
  <2>1. ready[j] \in 0..1 /\ ready' \in {ready, [ready EXCEPT ![j] = ready[j] + 1]}
    BY <1>5 DEF Exports!Notify, Exports!Moves
  <2>2. ready' \in [Jobs -> 0..2] /\ ready'[j] \in {ready[j], ready[j] + 1}
    BY <2>1
  <2>3. UNCHANGED <<objects, stalled, lost>> /\ \A k \in Jobs \ {j} : ready'[k] = ready[k]
    BY <1>5, <2>1 DEF Exports!Notify
  <2>4. job'[j].state = "told" /\ job'[j].left = job[j].left /\ job[j].left >= 1 => JobFollows(j)'
    BY <1>5, <2>2, <2>3 DEF Exports!Notify, Exports!Moves
  <2> QED
    BY <1>1, <1>5, <2>2, <2>3, <2>4 DEF Exports!Notify, Exports!Moves
<1>6. CASE Exports!Complete(j)
  BY <1>1, <1>6 DEF Exports!Complete, Exports!Moves
<1>7. CASE Exports!Crash(j)
  <2>1. /\ UNCHANGED <<objects, ready, lost>> /\ stalled' = stalled \cup {j} /\ j \notin stalled
        /\ Exports!Moves(j, job[j].state, "waiting") /\ Exports!Others
        /\ job[j].state \in {"loaded", "queried", "stored", "told"}
    BY <1>7 DEF Exports!Crash, Exports!Moves
  <2> QED
    BY <1>1, <2>1
<1> QED
  BY <1>2, <1>3, <1>4, <1>5, <1>6, <1>7

\* triggerExport and TickAdd: a job that was free is queued.
LEMMA JobAdded ==
  ASSUME ExportInv, NEW attempts \in 1..Attempts, NEW tell \in BOOLEAN, Exports!Add(attempts, tell)
  PROVE  /\ job' \in [Jobs -> JobRow] /\ \A j \in Jobs : JobFollows(j)'
         /\ Cardinality(Added') = Cardinality(Added) + 1 /\ Cardinality(Added') <= Exports!Full
         /\ Cardinality(Added) \in Nat /\ UNCHANGED <<objects, ready, stalled, lost>>
<1>1. PICK j \in Jobs :
        /\ job[j] = Exports!NoJob
        /\ job' = [job EXCEPT ![j] = [state |-> "waiting", left |-> attempts, tell |-> tell]]
        /\ UNCHANGED <<objects, ready, stalled, lost>>
  BY DEF Exports!Add
<1>2. job \in [Jobs -> JobRow] /\ job[j].state = "none"
  BY <1>1 DEF ExportInv, Exports!TypeOK, JobRow, Exports!NoJob
<1>3. PICK new : new = [state |-> "waiting", left |-> attempts, tell |-> tell]
  OBVIOUS
<1>4. new \in JobRow /\ new.state = "waiting" /\ new.left >= 1
  BY <1>3, ExportBounds DEF JobRow
<1>5. job' = [job EXCEPT ![j] = new]
  BY <1>1, <1>3
<1>6. job' \in [Jobs -> JobRow] /\ job'[j] = new /\ \A k \in Jobs \ {j} : job'[k] = job[k]
  BY <1>2, <1>4, <1>5
<1>7. \A k \in Jobs : JobFollows(k)'
  <2>1. \A k \in Jobs \ {j} : JobFollows(k)'
    BY <1>1, <1>6 DEF ExportInv, JobFollows, Again, Stored, Told
  <2>2. /\ JobFollows(j) /\ Stored(j) = 0 /\ Told(j) = 0 /\ Again(j) = 0 /\ j \notin stalled \cup lost
        /\ objects[j] \in Nat /\ ready[j] \in Nat
    BY <1>2, JobKnown, ExportBounds DEF JobFollows, Stored, Told, Again
  <2>3. objects[j] = 0 /\ ready[j] = 0
    BY <2>2 DEF JobFollows
  <2>4. new.left \in 1..Attempts /\ Attempts \in Nat
    BY <1>4, ExportBounds DEF JobRow
  <2>5. Stored(j)' = 0 /\ Told(j)' = 0 /\ Again(j)' = 0
    BY <1>1, <1>4, <1>6, <2>2 DEF Stored, Told, Again
  <2>6. JobFollows(j)'
    BY <1>1, <1>4, <1>6, <2>2, <2>3, <2>4, <2>5 DEF JobFollows
  <2> QED
    BY <2>1, <2>6
<1>8. Added' = Added \cup {j} /\ j \notin Added /\ Added \subseteq Jobs /\ Added' \subseteq Jobs
  BY <1>2, <1>4, <1>6 DEF Added
<1>9. IsFiniteSet(Added) /\ Cardinality(Added') <= Exports!Full
  BY <1>8, ExportBounds, FS_Subset
<1>10. Cardinality(Added') = Cardinality(Added) + 1 /\ Cardinality(Added) \in Nat
  BY <1>8, <1>9, FS_AddElement, FS_CardinalityType
<1> QED
  BY <1>1, <1>6, <1>7, <1>9, <1>10

LEMMA ExportTriggered == ExportInv /\ Exports!triggerExport => ExportInv'
<1> SUFFICES ASSUME ExportInv, Exports!triggerExport PROVE ExportInv'
  OBVIOUS
<1>1. Exports!Add(Attempts, TRUE)
  BY DEF Exports!triggerExport
<1>0. Attempts \in 1..Attempts
  BY ExportBounds
<1>2. /\ job' \in [Jobs -> JobRow] /\ \A j \in Jobs : JobFollows(j)'
      /\ Cardinality(Added') = Cardinality(Added) + 1 /\ Cardinality(Added) \in Nat
      /\ UNCHANGED <<objects, ready, stalled, lost>>
  BY <1>0, <1>1, JobAdded
<1>3. UNCHANGED <<report, schedule, tick, dueTimes, queued, overlap>>
  BY DEF Exports!triggerExport, Exports!ticks
<1>4. Exports!TypeOK' /\ (~overlap' => TicksAlone')
  BY <1>2, <1>3 DEF ExportInv, Exports!TypeOK, JobRow, TicksAlone, Exports!Full, Exports!Cardinality
<1>5. queued \in Nat
  BY ExportBounds DEF ExportInv, Exports!TypeOK
<1> QED
  BY <1>2, <1>3, <1>4, <1>5 DEF ExportInv

\* What leaves the jobs alone.
LEMMA JobsStay ==
  ASSUME ExportInv, UNCHANGED Exports!exports, queued' = queued, Exports!TypeOK',
         ~overlap' => TicksAlone'
  PROVE  ExportInv'
<1>1. Added' = Added /\ \A j \in Jobs : JobFollows(j)'
  BY DEF ExportInv, JobFollows, Again, Stored, Told, Exports!exports, Added
<1> QED
  BY <1>1 DEF ExportInv

\* Reports and schedules.
LEMMA ExportSetup ==
  ASSUME ExportInv,
         \/ Exports!save \/ Exports!DeleteSchedules \/ Exports!DeleteReport \/ Exports!create
         \/ Exports!toggleActive \/ Exports!ComesDue
  PROVE  ExportInv'
<1> USE ExportBounds DEF Exports!NoSchedule
<1>0. /\ schedule.active \in BOOLEAN /\ schedule.next \in {"none", "unset", "later", "due"}
      /\ dueTimes \in Nat /\ queued \in Nat /\ overlap \in BOOLEAN
  BY DEF ExportInv, Exports!TypeOK
<1>1. /\ UNCHANGED <<job, objects, ready, stalled, lost, tick, queued, overlap>>
      /\ report' \in {"none", "saved", "deleted"}
      /\ schedule' \in [active : BOOLEAN, next : {"none", "unset", "later", "due"}]
      /\ dueTimes' \in 0..Exports!Full /\ dueTimes' >= dueTimes
      /\ schedule'.next = "due" => schedule.next = "due" \/ dueTimes' = dueTimes + 1
  <2> USE <1>0 DEF ExportInv, Exports!TypeOK, Exports!ticks, Exports!exports
  <2>1. CASE Exports!save
    BY <2>1 DEF Exports!save
  <2>2. CASE Exports!DeleteSchedules
    BY <2>2 DEF Exports!DeleteSchedules
  <2>3. CASE Exports!DeleteReport
    BY <2>3 DEF Exports!DeleteReport
  <2>4. CASE Exports!create
    BY <2>4 DEF Exports!create
  <2>5. CASE Exports!toggleActive
    <3>1. PICK flag \in BOOLEAN : schedule'.active = flag /\ schedule' = [schedule EXCEPT !.active = flag]
      BY <2>5 DEF Exports!toggleActive
    <3> QED
      BY <2>5, <3>1 DEF Exports!toggleActive
  <2>6. CASE Exports!ComesDue
    BY <2>6 DEF Exports!ComesDue
  <2> QED
    BY <2>1, <2>2, <2>3, <2>4, <2>5, <2>6
<1>2. Exports!TypeOK'
  BY <1>1 DEF ExportInv, Exports!TypeOK, Exports!Full, Exports!Cardinality
<1>3. ~overlap' => TicksAlone'
  BY <1>0, <1>1 DEF ExportInv, TicksAlone
<1> QED
  BY <1>1, <1>2, <1>3, JobsStay DEF Exports!exports

\* The dispatcher.
LEMMA ExportTicks ==
  ASSUME ExportInv, NEW t \in Ticks,
         \/ Exports!TickList(t) \/ Exports!TickRead(t) \/ Exports!TickUpdate(t) \/ Exports!TickAbort(t)
  PROVE  ExportInv'
<1>0. /\ schedule.active \in BOOLEAN /\ schedule.next \in {"none", "unset", "later", "due"}
      /\ dueTimes \in Nat /\ queued \in Nat /\ overlap \in BOOLEAN
      /\ tick \in [Ticks -> {"idle", "listed", "read", "added"}]
  BY ExportBounds DEF ExportInv, Exports!TypeOK
<1>1. /\ UNCHANGED <<job, objects, ready, stalled, lost, report, dueTimes, queued>>
      /\ schedule' \in [active : BOOLEAN, next : {"none", "unset", "later", "due"}]
      /\ tick' \in [Ticks -> {"idle", "listed", "read", "added"}] /\ overlap' \in BOOLEAN
      /\ \A u \in Ticks \ {t} : tick'[u] = tick[u]
  <2> USE <1>0 DEF ExportInv, Exports!TypeOK, Exports!exports, Exports!Step
  <2>1. CASE Exports!TickList(t)
    BY <2>1 DEF Exports!TickList
  <2>2. CASE Exports!TickRead(t)
    BY <2>2 DEF Exports!TickRead
  <2>3. CASE Exports!TickUpdate(t)
    BY <2>3 DEF Exports!TickUpdate
  <2>4. CASE Exports!TickAbort(t)
    BY <2>4 DEF Exports!TickAbort
  <2> QED
    BY <2>1, <2>2, <2>3, <2>4
<1>2. ASSUME ~overlap' PROVE TicksAlone'
  <2> USE <1>0, <1>1, <1>2 DEF ExportInv, TicksAlone, Exports!Step
  <2>1. CASE Exports!TickList(t)
    BY <2>1 DEF Exports!TickList
  <2>2. CASE Exports!TickRead(t)
    BY <2>2 DEF Exports!TickRead
  <2>3. CASE Exports!TickUpdate(t)
    <3>1. schedule'.next # "due" /\ tick'[t] = "idle" /\ tick[t] = "added" /\ ~overlap
      BY <2>3 DEF Exports!TickUpdate
    <3> QED
      BY <3>1
  <2>4. CASE Exports!TickAbort(t)
    BY <2>4 DEF Exports!TickAbort
  <2> QED
    BY <2>1, <2>2, <2>3, <2>4
<1>3. Exports!TypeOK'
  BY <1>1 DEF ExportInv, Exports!TypeOK, Exports!Full, Exports!Cardinality
<1> QED
  BY <1>1, <1>2, <1>3, JobsStay DEF Exports!exports

LEMMA ExportQueued ==
  ASSUME ExportInv, NEW t \in Ticks, Exports!TickAdd(t)
  PROVE  ExportInv'
<1>0. /\ dueTimes \in Nat /\ queued \in Nat /\ tick \in [Ticks -> {"idle", "listed", "read", "added"}]
  BY ExportBounds DEF ExportInv, Exports!TypeOK
<1>1. PICK tell \in BOOLEAN : Exports!Add(1, tell)
  BY DEF Exports!TickAdd
<1>2. 1 \in 1..Attempts
  BY ExportBounds
<1>3. /\ job' \in [Jobs -> JobRow] /\ \A j \in Jobs : JobFollows(j)'
      /\ Cardinality(Added') = Cardinality(Added) + 1 /\ Cardinality(Added') <= Exports!Full
      /\ Cardinality(Added) \in Nat /\ UNCHANGED <<objects, ready, stalled, lost>>
  BY <1>1, <1>2, JobAdded
<1>4. /\ tick[t] = "read" /\ tick' = [tick EXCEPT ![t] = "added"] /\ queued' = queued + 1
      /\ UNCHANGED <<report, schedule, dueTimes, overlap>>
  BY DEF Exports!TickAdd, Exports!Step
<1>5. tick'[t] = "added" /\ \A u \in Ticks \ {t} : tick'[u] = tick[u]
  BY <1>0, <1>4
<1>6. queued' <= Cardinality(Added') /\ queued' \in 0..Exports!Full
  BY <1>0, <1>3, <1>4, ExportBounds DEF ExportInv
<1>7. Exports!TypeOK'
  BY <1>0, <1>3, <1>4, <1>6 DEF ExportInv, Exports!TypeOK, JobRow, Exports!Full, Exports!Cardinality
<1>8. ASSUME ~overlap' PROVE TicksAlone'
  <2>1. queued < dueTimes /\ \A u \in Ticks \ {t} : tick[u] = "idle"
    BY <1>0, <1>4, <1>8 DEF ExportInv, TicksAlone
  <2> QED
    BY <1>0, <1>4, <1>5, <2>1 DEF TicksAlone
<1> QED
  BY <1>3, <1>6, <1>7, <1>8 DEF ExportInv

LEMMA ExportNext == ExportInv /\ [Exports!Next]_(Exports!vars) => ExportInv'
<1> SUFFICES ASSUME ExportInv, [Exports!Next]_(Exports!vars) PROVE ExportInv'
  OBVIOUS
<1>1. CASE UNCHANGED Exports!vars
  <2>1. /\ UNCHANGED <<report, schedule, tick, job, objects, ready, dueTimes, queued,
                   overlap, stalled, lost>>
    BY <1>1 DEF Exports!vars
  <2>2. Exports!TypeOK' /\ (~overlap' => TicksAlone')
    BY <2>1 DEF ExportInv, Exports!TypeOK, TicksAlone, Exports!Full, Exports!Cardinality
  <2> QED
    BY <2>1, <2>2, JobsStay DEF Exports!exports
<1>2. CASE Exports!triggerExport
  BY <1>2, ExportTriggered
<1>3. ASSUME NEW j \in Jobs,
             \/ Exports!Load(j) \/ Exports!LoadFails(j) \/ Exports!RunQuery(j)
             \/ Exports!QueryFails(j) \/ Exports!Store(j) \/ Exports!StoreFails(j)
             \/ Exports!Notify(j) \/ Exports!Complete(j) \/ Exports!Crash(j)
      PROVE  ExportInv'
  BY <1>3, JobFails, JobMoves
<1>4. ASSUME NEW t \in Ticks,
             \/ Exports!TickList(t) \/ Exports!TickRead(t) \/ Exports!TickAdd(t)
             \/ Exports!TickUpdate(t) \/ Exports!TickAbort(t)
      PROVE  ExportInv'
  BY <1>4, ExportTicks, ExportQueued
<1> QED
  BY <1>1, <1>2, <1>3, <1>4, ExportSetup DEF Exports!Next

-------------------------------------------------------------------------------
(* Applications from the careers page                                         *)

\* What a call has left behind follows from the step it has come to: its resume is in
\* S3 from the upload on, the candidate exists from its insert or merge on, and at the
\* end there is its application.
CallLeaves(c) ==
  /\ call[c].step = "idle" => call[c] = Apply!NoCall /\ c \notin failed
  /\ call[c].step # "idle" => call[c].req \in Requisitions
  /\ c \in failed => call[c].step = "done"
  /\ c \in objects => call[c].file /\ call[c].step \notin {"idle", "upload"}
  /\ call[c].file /\ call[c].step \in {"find", "merge", "insert", "apply", "queue"} => c \in objects
  /\ call[c].step \in {"upload", "queue"} => call[c].file
  /\ call[c].step \in {"merge", "apply", "queue"} => candidate.exists
  /\ call[c].step \in {"queue", "done"} /\ c \notin failed =>
       candidate.exists /\ call[c].req \in applied
  /\ c \in objects \ failed /\ call[c].step \in {"apply", "queue", "done"} =>
       candidate.resume # Apply!NoResume

\* The candidate's resume and what was parsed from it.
CandidateFollows ==
  /\ candidate.resume # Apply!NoResume => candidate.exists /\ candidate.resume \in objects
  /\ applied # {} => candidate.exists
  /\ ~candidate.exists => candidate.profile = "none"
  /\ jobs \subseteq objects \ failed
  /\ \A c \in jobs : call[c].step = "done"
  /\ candidate.profile = "parsed" =>
       \E c \in objects : call[c].step = "done" /\ call[c].req \in applied

ApplyInv == Apply!TypeOK /\ (\A c \in Calls : CallLeaves(c)) /\ CandidateFollows

LEMMA ApplyInit == Apply!Init => ApplyInv
<1> SUFFICES ASSUME Apply!Init PROVE ApplyInv
  OBVIOUS
<1> USE DEF Apply!Init, Apply!NoRow, Apply!NoCall
<1>1. Apply!TypeOK
  BY DEF Apply!TypeOK
<1>2. \A c \in Calls : CallLeaves(c)
  BY DEF CallLeaves, Apply!NoCall
<1>3. CandidateFollows
  BY DEF CandidateFollows
<1> QED
  BY <1>1, <1>2, <1>3 DEF ApplyInv

\* Only the step of call c changes; what it was called with stays.
LEMMA ApplyGoto ==
  ASSUME Apply!TypeOK, NEW c \in Calls, NEW here, NEW next, Apply!Goto(c, here, next),
         next \in {"find", "merge", "insert", "apply", "queue", "done"}
  PROVE  /\ call[c].step = here /\ call'[c].step = next
         /\ call'[c].req = call[c].req /\ call'[c].file = call[c].file
         /\ \A d \in Calls \ {c} : call'[d] = call[d]
         /\ call' \in [Calls -> [step : {"idle", "upload", "find", "merge", "insert", "apply",
                                         "queue", "done"},
                                 req : Requisitions \cup {"none"}, file : BOOLEAN]]
BY DEF Apply!TypeOK, Apply!Goto

\* A call that stops half-way leaves the rest as it is.
LEMMA ApplyThrows ==
  ASSUME ApplyInv, NEW c \in Calls, NEW here \in {"upload", "find", "merge", "insert", "apply"},
         Apply!Throws(c, here)
  PROVE  ApplyInv'
<1>1. Apply!Goto(c, here, "done") /\ failed' = failed \cup {c}
      /\ UNCHANGED <<candidate, applied, objects, jobs>>
  BY DEF Apply!Throws
<1>2. /\ call[c].step = here /\ call'[c].step = "done"
      /\ call'[c].req = call[c].req /\ call'[c].file = call[c].file
      /\ \A d \in Calls \ {c} : call'[d] = call[d]
      /\ call' \in [Calls -> [step : {"idle", "upload", "find", "merge", "insert", "apply",
                                      "queue", "done"},
                              req : Requisitions \cup {"none"}, file : BOOLEAN]]
  BY <1>1, ApplyGoto DEF ApplyInv
<1>3. Apply!TypeOK'
  BY <1>1, <1>2 DEF ApplyInv, Apply!TypeOK
<1>4. \A d \in Calls : CallLeaves(d)'
  BY <1>1, <1>2 DEF ApplyInv, CallLeaves
<1>5. c \notin jobs
  BY <1>2 DEF ApplyInv, CandidateFollows
<1>6. CandidateFollows'
  BY <1>1, <1>2, <1>5 DEF ApplyInv, CandidateFollows, Apply!TypeOK
<1> QED
  BY <1>3, <1>4, <1>6 DEF ApplyInv

LEMMA ApplyStart ==
  ASSUME ApplyInv, NEW c \in Calls, NEW r \in Requisitions, NEW file \in BOOLEAN,
         Apply!Start(c, r, file)
  PROVE  ApplyInv'
<1>1. UNCHANGED <<candidate, applied, objects, jobs, failed>> /\ call[c] = Apply!NoCall
  BY DEF Apply!Start
<1>2. /\ call'[c].step = (IF file THEN "upload" ELSE "find") /\ call'[c].req = r
      /\ call'[c].file = file /\ call[c].step = "idle"
      /\ \A d \in Calls \ {c} : call'[d] = call[d]
  BY <1>1 DEF ApplyInv, Apply!TypeOK, Apply!Start, Apply!NoCall
<1>3. Apply!TypeOK'
  BY <1>1 DEF ApplyInv, Apply!TypeOK, Apply!Start
<1>4. \A d \in Calls : CallLeaves(d)'
  BY <1>1, <1>2 DEF ApplyInv, CallLeaves
<1>5. CandidateFollows'
  BY <1>1, <1>2 DEF ApplyInv, CandidateFollows, Apply!TypeOK
<1> QED
  BY <1>3, <1>4, <1>5 DEF ApplyInv

\* A step of a call: each writes one table at most.
LEMMA ApplyMoves ==
  ASSUME ApplyInv, NEW c \in Calls,
         \/ Apply!Upload(c) \/ Apply!Find(c) \/ Apply!Merge(c) \/ Apply!Insert(c)
         \/ Apply!Apply(c) \/ Apply!Queue(c)
  PROVE  ApplyInv'
<1> DEFINE Moved(here, next) ==
      /\ call[c].step = here /\ call'[c].step = next
      /\ call'[c].req = call[c].req /\ call'[c].file = call[c].file
      /\ \A d \in Calls \ {c} : call'[d] = call[d]
      /\ call' \in [Calls -> [step : {"idle", "upload", "find", "merge", "insert", "apply",
                                      "queue", "done"},
                              req : Requisitions \cup {"none"}, file : BOOLEAN]]
<1>0. ASSUME NEW here, NEW next \in {"find", "merge", "insert", "apply", "queue", "done"},
             Apply!Goto(c, here, next)
      PROVE  Moved(here, next)
  BY <1>0, ApplyGoto DEF ApplyInv
<1>1. CASE Apply!Upload(c)
  <2>1. /\ Moved("upload", "find") /\ objects' = objects \cup {c}
        /\ UNCHANGED <<candidate, applied, jobs, failed>>
    BY <1>0, <1>1 DEF Apply!Upload
  <2>2. Apply!TypeOK'
    BY <2>1 DEF ApplyInv, Apply!TypeOK
  <2>3. call[c].file
    BY <2>1 DEF ApplyInv, CallLeaves
  <2> QED
    BY <2>1, <2>2 DEF ApplyInv, CallLeaves, CandidateFollows, Apply!TypeOK
<1>2. CASE Apply!Find(c)
  <2>1. /\ UNCHANGED <<candidate, applied, objects, jobs, failed>>
        /\ \/ candidate.exists /\ Moved("find", "merge")
           \/ candidate.exists /\ ~call[c].file /\ Moved("find", "apply")
           \/ ~candidate.exists /\ Moved("find", "insert")
    BY <1>0, <1>2 DEF Apply!Find
  <2>2. Apply!TypeOK'
    BY <2>1 DEF ApplyInv, Apply!TypeOK
  <2> QED
    BY <2>1, <2>2 DEF ApplyInv, CallLeaves, CandidateFollows, Apply!TypeOK
<1>3. CASE Apply!Merge(c)
  <2>1. /\ Moved("merge", "apply") /\ UNCHANGED <<applied, objects, jobs, failed>>
        /\ candidate' = IF call[c].file THEN [candidate EXCEPT !.resume = c] ELSE candidate
    BY <1>0, <1>3 DEF Apply!Merge
  <2>2. Apply!TypeOK'
    BY <2>1 DEF ApplyInv, Apply!TypeOK
  <2> QED
    BY <2>1, <2>2, RecordsAssumption
       DEF ApplyInv, CallLeaves, CandidateFollows, Apply!TypeOK, RecordsAssumption
<1>4. CASE Apply!Insert(c)
  <2>1. /\ Moved("insert", "apply") /\ UNCHANGED <<applied, objects, jobs, failed>>
        /\ ~candidate.exists
        /\ candidate' = [exists |-> TRUE, resume |-> Apply!Resume(c), profile |-> "none"]
    BY <1>0, <1>4 DEF Apply!Insert
  <2>2. Apply!TypeOK'
    BY <2>1 DEF ApplyInv, Apply!TypeOK, Apply!Resume
  <2> QED
    BY <2>1, <2>2, RecordsAssumption
       DEF ApplyInv, CallLeaves, CandidateFollows, Apply!TypeOK, RecordsAssumption, Apply!Resume
<1>5. CASE Apply!Apply(c)
  <2>1. /\ UNCHANGED <<candidate, objects, jobs, failed>> /\ applied' = applied \cup {call[c].req}
        /\ (Moved("apply", "queue") /\ call[c].file) \/ (Moved("apply", "done") /\ ~call[c].file)
    BY <1>0, <1>5 DEF Apply!Apply
  <2>2. Apply!TypeOK'
    BY <2>1 DEF ApplyInv, Apply!TypeOK, CallLeaves
  <2> QED
    BY <2>1, <2>2 DEF ApplyInv, CallLeaves, CandidateFollows, Apply!TypeOK
<1>6. CASE Apply!Queue(c)
  <2>1. /\ UNCHANGED <<candidate, applied, objects, failed>> /\ Moved("queue", "done")
        /\ jobs' \in {jobs, jobs \cup {c}}
    BY <1>0, <1>6 DEF Apply!Queue
  <2>2. Apply!TypeOK'
    BY <2>1 DEF ApplyInv, Apply!TypeOK
  <2>3. c \in objects \ failed
    BY <2>1 DEF ApplyInv, CallLeaves
  <2> QED
    BY <2>1, <2>2, <2>3 DEF ApplyInv, CallLeaves, CandidateFollows, Apply!TypeOK
<1> QED
  BY <1>1, <1>2, <1>3, <1>4, <1>5, <1>6

\* The parsing job, and a recruiter's calls.
LEMMA ApplyOthers ==
  ASSUME ApplyInv,
         Apply!create \/ Apply!update \/ \E c \in Calls : Apply!Parse(c)
  PROVE  ApplyInv'
<1>1. CASE Apply!create
  <2>1. ~candidate.exists /\ UNCHANGED <<applied, objects, jobs, call, failed>>
        /\ candidate' = [exists |-> TRUE, resume |-> Apply!NoResume, profile |-> "none"]
    BY <1>1 DEF Apply!create, Apply!NoRow
  <2> QED
    BY <2>1 DEF ApplyInv, CallLeaves, CandidateFollows, Apply!TypeOK
<1>2. CASE Apply!update
  BY <1>2 DEF Apply!update, ApplyInv, CallLeaves, CandidateFollows, Apply!TypeOK
<1>3. ASSUME NEW c \in Calls, Apply!Parse(c) PROVE ApplyInv'
  <2>1. /\ c \in jobs /\ jobs' = jobs \ {c} /\ UNCHANGED <<applied, objects, call, failed>>
        /\ candidate' \in {candidate, [candidate EXCEPT !.profile = "parsed"]}
    BY <1>3 DEF Apply!Parse
  <2>2. /\ c \in objects \ failed /\ call[c].step = "done" /\ call[c].req \in applied
        /\ candidate.exists
    BY <2>1 DEF ApplyInv, CallLeaves, CandidateFollows
  <2> QED
    BY <2>1, <2>2 DEF ApplyInv, CallLeaves, CandidateFollows, Apply!TypeOK
<1> QED
  BY <1>1, <1>2, <1>3

LEMMA ApplyNext == ApplyInv /\ [Apply!Next]_(Apply!vars) => ApplyInv'
<1> SUFFICES ASSUME ApplyInv, [Apply!Next]_(Apply!vars) PROVE ApplyInv'
  OBVIOUS
<1>1. CASE UNCHANGED Apply!vars
  BY <1>1 DEF Apply!vars, ApplyInv, CallLeaves, CandidateFollows, Apply!TypeOK
<1>2. ASSUME NEW c \in Calls,
             \/ \E r \in Requisitions, file \in BOOLEAN : Apply!Start(c, r, file)
             \/ Apply!Upload(c) \/ Apply!Find(c) \/ Apply!Merge(c) \/ Apply!Insert(c)
             \/ Apply!InsertRefused(c) \/ Apply!Apply(c) \/ Apply!ApplyRefused(c)
             \/ Apply!Queue(c) \/ Apply!Parse(c) \/ Apply!Abort(c)
      PROVE  ApplyInv'
  <2>1. CASE \E r \in Requisitions, file \in BOOLEAN : Apply!Start(c, r, file)
    BY <2>1, ApplyStart
  <2>2. CASE Apply!InsertRefused(c) \/ Apply!ApplyRefused(c) \/ Apply!Abort(c)
    BY <2>2, ApplyThrows DEF Apply!InsertRefused, Apply!ApplyRefused, Apply!Abort
  <2> QED
    BY <1>2, <2>1, <2>2, ApplyMoves, ApplyOthers
<1> QED
  BY <1>1, <1>2, ApplyOthers DEF Apply!Next

\* A parsing job, and a parsed profile, have the application that they stem from.
LEMMA ApplyBacked == ApplyInv => Apply!RecordsAreBacked
<1> SUFFICES ASSUME ApplyInv PROVE Apply!RecordsAreBacked
  OBVIOUS
<1> USE DEF ApplyInv, CandidateFollows, CallLeaves
<1>1. candidate.profile = "parsed" \/ jobs # {} =>
        \E c \in objects : call[c].step = "done" /\ call[c].req \in applied
  BY DEF Apply!TypeOK
<1>2. candidate.exists /\ candidate.resume = Apply!NoResume =>
        \A c \in objects : c \in failed \/ call[c].step \in {"find", "merge", "insert"}
  BY DEF Apply!TypeOK
<1> QED
  BY <1>1, <1>2 DEF Apply!RecordsAreBacked

-------------------------------------------------------------------------------
(* The composition                                                            *)

\* The part that runs keeps its own invariant.
RecordsInv ==
  /\ scope = "accounts" => AccountSerialInv
  /\ scope = "roles" => RoleSerialInv
  /\ scope = "esign" => SignSerialInv
  /\ scope = "policies" => PolicyInv
  /\ scope = "mails" => MailInv
  /\ scope = "webhooks" => HookInv
  /\ scope = "exports" => ExportInv
  /\ scope = "careers" => ApplyInv

LEMMA KeysApart == AccountApart
BY RecordsAssumption DEF RecordsAssumption, AccountApart, Accounts!OneUse

LEMMA NothingApart == Sign!Nothing \notin Documents
BY RecordsAssumption DEF RecordsAssumption

\* A step of the composition is a step, or a stutter, of the part that runs.
LEMMA PartSteps ==
  ASSUME [Next]_vars
  PROVE  /\ scope' = scope
         /\ scope = "accounts" => [Accounts!Next]_(Accounts!vars)
         /\ scope = "roles" => [RoleCache!Next]_(RoleCache!vars)
         /\ scope = "esign" => [Sign!Next]_(Sign!vars)
         /\ scope = "policies" => [Policy!Next]_(Policy!vars)
         /\ scope = "mails" => [Mails!Next]_(Mails!vars)
         /\ scope = "webhooks" => [Hooks!Next]_(Hooks!vars)
         /\ scope = "exports" => [Exports!Next]_(Exports!vars)
         /\ scope = "careers" => [Apply!Next]_(Apply!vars)
<1>1. CASE Next
  BY <1>1 DEF Next
<1>2. CASE UNCHANGED vars
  BY <1>2 DEF vars, accounts, roles, esign, policies, mailing, hooks, exports, careers,
              Accounts!vars, Accounts!keys, Accounts!hist, RoleCache!vars, RoleCache!tables,
              Sign!vars, Sign!files, Sign!rows, Sign!job, Policy!vars, Mails!vars, Hooks!vars,
              Exports!vars, Apply!vars
<1> QED
  BY <1>1, <1>2

LEMMA RecordsInit == Init => RecordsInv
<1> SUFFICES ASSUME Init PROVE RecordsInv
  OBVIOUS
<1>1. scope = "accounts" => AccountSerialInv
  BY KeysApart, AccountSerialInit DEF Init
<1>2. scope = "roles" => RoleSerialInv
  BY RecordsAssumption, RoleSerialInit DEF Init, RecordsAssumption
<1>3. scope = "esign" => SignSerialInv
  BY SignInitSerial DEF Init
<1>4. /\ scope = "policies" => PolicyInv
      /\ scope = "mails" => MailInv
      /\ scope = "webhooks" => HookInv
      /\ scope = "exports" => ExportInv
      /\ scope = "careers" => ApplyInv
  BY PolicyInit, MailInit, HookInit, ExportInit, ApplyInit DEF Init
<1> QED
  BY <1>1, <1>2, <1>3, <1>4 DEF RecordsInv

LEMMA RecordsNext == RecordsInv /\ [Next]_vars => RecordsInv'
<1> SUFFICES ASSUME RecordsInv, [Next]_vars PROVE RecordsInv'
  OBVIOUS
<1> USE PartSteps DEF RecordsInv
<1>1. scope = "accounts" => AccountSerialInv'
  BY KeysApart, AccountSerialNext
<1>2. scope = "roles" => RoleSerialInv'
  BY RoleSerialNext
<1>3. scope = "esign" => SignSerialInv'
  BY NothingApart, SignNextSerial
<1>4. /\ scope = "policies" => PolicyInv'
      /\ scope = "mails" => MailInv'
      /\ scope = "webhooks" => HookInv'
      /\ scope = "exports" => ExportInv'
      /\ scope = "careers" => ApplyInv'
  BY PolicyNext, MailNext, HookNext, ExportNext, ApplyNext
<1> QED
  BY <1>1, <1>2, <1>3, <1>4

LEMMA RecordsAlways == Spec => []RecordsInv
BY RecordsInit, RecordsNext, PTL DEF Spec

\* Whatever part runs, its tables, keys, caches, queues and calls keep their types.
THEOREM TypeCorrect == Spec => []TypeOK
<1>1. RecordsInv => TypeOK
  <2> SUFFICES ASSUME RecordsInv PROVE TypeOK
    OBVIOUS
  <2>1. AccountSerialInv => Accounts!TypeOK
    BY DEF AccountSerialInv, AccountIInv
  <2>2. RoleSerialInv => RoleCache!TypeOK
    BY DEF RoleSerialInv, RoleIInv
  <2>3. SignSerialInv => Sign!TypeOK
    BY DEF SignSerialInv, SignIInv
  <2>4. /\ PolicyInv => Policy!TypeOK
        /\ MailInv => Mails!TypeOK
        /\ HookInv => Hooks!TypeOK
        /\ ExportInv => Exports!TypeOK
        /\ ApplyInv => Apply!TypeOK
    BY DEF PolicyInv, MailInv, HookInv, ExportInv, ApplyInv
  <2> QED
    BY <2>1, <2>2, <2>3, <2>4 DEF RecordsInv, TypeOK
<1> QED
  BY <1>1, RecordsAlways, PTL

\* Whatever overlaps, fails or rolls back: every signature has its audit row and every
\* request its stored file (esignature.service.ts), and every candidate's resume is
\* stored and every parsing job belongs to an application (careers.service.ts).
THEOREM RecordsStayBacked == Spec => []RecordsAreBacked
<1>1. SignSerialInv => Sign!RecordsAreBacked
  BY DEF SignSerialInv, SignIInv
<1>2. RecordsInv => RecordsAreBacked
  BY <1>1, ApplyBacked DEF RecordsInv, RecordsAreBacked
<1> QED
  BY <1>2, RecordsAlways, PTL

\* signDocument, declineRequest and the hourly job: as long as no calls overlap, an
\* answer is final, nothing but time expires a request, and a document never waits
\* for two signatures of one signer.
THEOREM AnswersAreFinal == Spec => AnswerIsFinal
<1>1. RecordsInv /\ [Next]_vars => (scope = "esign" => Sign!AnswersStay)
  BY PartSteps, NothingApart, SignAnswerStep DEF RecordsInv
<1> QED
  BY <1>1, RecordsAlways, PTL DEF Spec, AnswerIsFinal

\* Nobody acknowledges a policy before it is published, however calls overlap; unless
\* they did, it still says what was acknowledged (policy.service.ts: acknowledge, update).
THEOREM AcknowledgedStays == Spec => []AcknowledgedStands
<1>1. RecordsInv => AcknowledgedStands
  BY PolicyStands DEF RecordsInv, AcknowledgedStands
<1> QED
  BY <1>1, RecordsAlways, PTL

\* Between calls, if none overlapped and none stopped half-way, who holds a refresh
\* token may log in and did so after the last reset, and nothing was good for two
\* exchanges (auth.service.ts, session.service.ts).
THEOREM RevokedStaysOut == Spec => []RevokedStayOut
<1>1. RecordsInv => RevokedStayOut
  BY AccountSerialRevoked DEF RecordsInv, RevokedStayOut
<1> QED
  BY <1>1, RecordsAlways, PTL

\* Between requests, if none overlapped and none stopped half-way, what is cached for
\* a user allows exactly what his roles allow (permission-cache.service.ts).
THEOREM CacheStaysCurrent == Spec => []CacheIsCurrent
<1>1. RecordsInv => CacheIsCurrent
  BY RoleSerialCurrent DEF RecordsInv, CacheIsCurrent
<1> QED
  BY <1>1, RecordsAlways, PTL

\* Whatever fails or is redelivered: one mail of an event, and one row of it unless the
\* answer to an insert was lost; one notice of a report that exists and one stored file
\* of a job, unless its worker died or the answer to a store was lost; one delivery of a
\* webhook event that was handled, and no failure counted that was not one
\* (email-dispatch.processor.ts, report-export.processor.ts, webhook-delivery.processor.ts).
THEOREM DeliversOnce == Spec => []DeliveredOnce
<1>1. MailInv => Mails!DeliveredOnce
  <2> SUFFICES ASSUME MailInv PROVE Mails!DeliveredOnce
    OBVIOUS
  <2>1. ASSUME NEW e \in Events
        PROVE  MailFollows(e) /\ rows[e] \in Seq(Note) /\ Len(rows[e]) \in Nat /\ (rows[e] = <<>> <=> Len(rows[e]) = 0)
    BY DEF MailInv, Mails!TypeOK, Note
  <2> QED
    BY <2>1 DEF MailFollows, Mails!DeliveredOnce
<1>2. HookInv => Hooks!DeliveredOnce
  BY DEF HookInv, HookCounts, HookAlone, Hooks!DeliveredOnce, Hooks!TypeOK
<1>3. ExportInv => Exports!DeliveredOnce
  <2> SUFFICES ASSUME ExportInv PROVE Exports!DeliveredOnce
    OBVIOUS
  <2>1. \A j \in Jobs : /\ JobFollows(j) /\ job[j] \in JobRow /\ objects[j] \in Nat /\ ready[j] \in Nat
    BY ExportBounds, JobKnown DEF ExportInv
  <2>2. ~overlap => queued <= dueTimes
    BY DEF ExportInv, TicksAlone
  <2> QED
    BY <2>1, <2>2, ExportBounds DEF Exports!DeliveredOnce, JobFollows, JobRow, Again, Stored, Told
<1>4. RecordsInv => DeliveredOnce
  BY <1>1, <1>2, <1>3 DEF RecordsInv, DeliveredOnce
<1> QED
  BY <1>4, RecordsAlways, PTL
===============================================================================
