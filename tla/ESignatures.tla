------------------------------ MODULE ESignatures ------------------------------
(* Uploaded documents and the e-signature requests about them, for one signer *)
(* and one file name: documents.service.ts, esign.service.ts and its hourly   *)
(* job.                                                                       *)
(*                                                                            *)
(* A call reads and checks, and writes by id after an await.  audit.record    *)
(* uses a connection of its own: called inside a transaction, its row is      *)
(* there before the transaction commits, and stays if it does not.            *)
EXTENDS Naturals, FiniteSetsExt

CONSTANTS
  Documents,    \* uploads of the file; each makes one EmployeeDocument row
  Requests,     \* EsignRequest rows
  Calls,        \* slots for API calls in flight; each is used again and again
  Faults        \* {"abort"}: an await throws or the process dies

VARIABLES
  version,   \* EmployeeDocument.version, 0 before the row exists
  stored,    \* the documents whose file is in S3
  status,    \* EsignRequest.status, NONE before the row exists
  about,     \* EsignRequest.documentId
  signature, \* the requests with base64Signature and documentSha256AtSign
  due,       \* the requests whose expiresAt has passed
  audit,     \* audit rows: request and action
  call,      \* the calls in flight
  batch,     \* the requests the hourly job has listed and not yet expired
  entering,  \* the request of batch whose transaction is open
  overlap    \* history: two calls, or a call and the job, have overlapped

files == <<version, stored>>
rows  == <<status, about, signature>>
job   == <<batch, entering>>
vars  == <<files, rows, due, audit, call, job, overlap>>

Statuses == {"NONE", "PENDING", "SIGNED", "DECLINED", "EXPIRED"}
Nothing  == "nothing"
NoCall   == [do |-> "idle", of |-> Nothing, on |-> Nothing, n |-> 0]
Steps    == {"idle", "store", "insert", "create", "sign", "decline", "commit_create",
             "commit_sign", "commit_decline", "expire_sign", "expire_decline", "log_expired"}

TypeOK ==
  /\ version \in [Documents -> Nat] /\ stored \subseteq Documents
  /\ status \in [Requests -> Statuses]
  /\ about \in [Requests -> Documents \cup {Nothing}]
  /\ signature \subseteq Requests /\ due \subseteq Requests
  /\ audit \subseteq Requests \X Statuses
  /\ call \in [Calls -> [do : Steps, of : Requests \cup {Nothing},
                         on : Documents \cup {Nothing}, n : Nat]]
  /\ batch \subseteq Requests /\ entering \in Requests \cup {Nothing}
  /\ overlap \in BOOLEAN

Init ==
  /\ version = [d \in Documents |-> 0] /\ stored = {}
  /\ status = [r \in Requests |-> "NONE"] /\ about = [r \in Requests |-> Nothing]
  /\ signature = {} /\ due = {} /\ audit = {}
  /\ call = [c \in Calls |-> NoCall]
  /\ batch = {} /\ entering = Nothing /\ overlap = FALSE

Busy == (\E c \in Calls : call[c] # NoCall) \/ batch # {}

\* A call starts; one that is refused changes nothing and is left out.
Start(c, next) ==
  /\ call[c] = NoCall
  /\ call' = [call EXCEPT ![c] = next]
  /\ overlap' = (overlap \/ Busy)
  /\ UNCHANGED <<files, rows, due, audit, job>>

Goto(c, step) == call' = [call EXCEPT ![c].do = step]
Finish(c)     == call' = [call EXCEPT ![c] = NoCall]

-------------------------------------------------------------------------------
(* uploadDocument: the version is one more than the last, then the file goes  *)
(* to S3, then the row is inserted.                                           *)

UploadCheck(c, d) ==
  /\ version[d] = 0 /\ \A b \in Calls : call[b].on # d
  /\ d \notin stored
  /\ Start(c, [do |-> "store", of |-> Nothing, on |-> d,
               n |-> Max({version[b] : b \in Documents}) + 1])

UploadStore(c) ==
  /\ call[c].do = "store"
  /\ stored' = stored \cup {call[c].on}
  /\ Goto(c, "insert")
  /\ UNCHANGED <<version, rows, due, audit, job, overlap>>

UploadInsert(c) ==
  /\ call[c].do = "insert"
  /\ version' = [version EXCEPT ![call[c].on] = call[c].n]
  /\ Finish(c)
  /\ UNCHANGED <<stored, rows, due, audit, job, overlap>>

-------------------------------------------------------------------------------
(* createRequest, signDocument, declineRequest                                *)

CreateCheck(c, r, d) ==
  /\ status[r] = "NONE" /\ \A b \in Calls : call[b].of # r
  /\ version[d] > 0
  /\ ~\E p \in Requests : about[p] = d /\ status[p] = "PENDING"
  /\ Start(c, [do |-> "create", of |-> r, on |-> d, n |-> 0])

\* An answer to a pending request, or to one that turns out to be too late.
Answer(c, r, allowed, step, late) ==
  /\ status[r] \in allowed
  /\ Start(c, [NoCall EXCEPT !.do = IF r \in due THEN late ELSE step, !.of = r])

\* Mutant: a signed document can still be declined.
DeclineSigned(c, r) == Answer(c, r, {"PENDING", "SIGNED"}, "decline", "expire_decline")

SignCheck(c, r)    == Answer(c, r, {"PENDING"}, "sign", "expire_sign")
DeclineCheck(c, r) == Answer(c, r, {"PENDING"}, "decline", "expire_decline")

\* The audit row is written on a connection of its own while the transaction is open.
RecordAudit(c, step, next, action) ==
  /\ call[c].do = step
  /\ audit' = audit \cup {<<call[c].of, action>>}
  /\ IF next = "idle" THEN Finish(c) ELSE Goto(c, next)
  /\ UNCHANGED <<files, rows, due, job, overlap>>

CreateAudit(c)  == RecordAudit(c, "create", "commit_create", "PENDING")
SignAudit(c)    == RecordAudit(c, "sign", "commit_sign", "SIGNED")
DeclineAudit(c) == RecordAudit(c, "decline", "commit_decline", "DECLINED")
ExpiredAudit(c) == RecordAudit(c, "log_expired", "idle", "EXPIRED")

CreateCommit(c) ==
  /\ call[c].do = "commit_create"
  /\ status' = [status EXCEPT ![call[c].of] = "PENDING"]
  /\ about' = [about EXCEPT ![call[c].of] = call[c].on]
  /\ Finish(c)
  /\ UNCHANGED <<files, signature, due, audit, job, overlap>>

\* The update by id, whatever the status is now.
Resolve(c, steps, new, signed) ==
  /\ call[c].do \in steps
  /\ status' = [status EXCEPT ![call[c].of] = new]
  /\ signature' = signature \cup signed
  /\ Finish(c)
  /\ UNCHANGED <<files, about, due, audit, job, overlap>>

\* Mutant: the signature is stored before anything is recorded.
SignUnaudited(c) == Resolve(c, {"sign", "commit_sign"}, "SIGNED", {call[c].of})

SignCommit(c)    == Resolve(c, {"commit_sign"}, "SIGNED", {call[c].of})
DeclineCommit(c) == Resolve(c, {"commit_decline"}, "DECLINED", {})

\* Too late: EXPIRED outside any transaction.  signDocument records it afterwards,
\* declineRequest does not.
ExpireInline(c) ==
  /\ call[c].do \in {"expire_sign", "expire_decline"}
  /\ status' = [status EXCEPT ![call[c].of] = "EXPIRED"]
  /\ IF call[c].do = "expire_sign" THEN Goto(c, "log_expired") ELSE Finish(c)
  /\ UNCHANGED <<files, about, signature, due, audit, job, overlap>>

-------------------------------------------------------------------------------
(* expireStaleRequests, every hour: list what is due, then one transaction    *)
(* for each.                                                                  *)

\* Mutant: the comparison of expiresAt is the wrong way round.
NotYetDue == {r \in Requests \ due : status[r] = "PENDING"}

Stale == {r \in due : status[r] = "PENDING"}

SweepList ==
  /\ batch = {} /\ Stale # {}
  /\ batch' = Stale
  /\ overlap' = (overlap \/ Busy)
  /\ UNCHANGED <<files, rows, due, audit, call, entering>>

SweepAudit(r) ==
  /\ r \in batch /\ entering = Nothing
  /\ entering' = r
  /\ audit' = audit \cup {<<r, "EXPIRED">>}
  /\ UNCHANGED <<files, rows, due, call, batch, overlap>>

SweepCommit ==
  /\ entering # Nothing
  /\ status' = [status EXCEPT ![entering] = "EXPIRED"]
  /\ batch' = batch \ {entering} /\ entering' = Nothing
  /\ UNCHANGED <<files, about, signature, due, audit, call, overlap>>

\* An exception ends the sweep: the rest of the batch waits for another hour.
SweepAbort ==
  /\ "abort" \in Faults /\ batch # {}
  /\ batch' = {} /\ entering' = Nothing
  /\ UNCHANGED <<files, rows, due, audit, call, overlap>>

TimePasses(r) ==
  /\ status[r] = "PENDING" /\ r \notin due
  /\ due' = due \cup {r}
  /\ UNCHANGED <<files, rows, audit, call, job, overlap>>

Abort(c) ==
  /\ "abort" \in Faults /\ call[c] # NoCall
  /\ Finish(c)
  /\ UNCHANGED <<files, rows, due, audit, job, overlap>>

-------------------------------------------------------------------------------
Arrive(c) ==
  \/ \E d \in Documents : UploadCheck(c, d) \/ \E r \in Requests : CreateCheck(c, r, d)
  \/ \E r \in Requests : SignCheck(c, r) \/ DeclineCheck(c, r)

Handle(c) ==
  \/ UploadStore(c) \/ UploadInsert(c)
  \/ CreateAudit(c) \/ CreateCommit(c) \/ SignAudit(c) \/ SignCommit(c)
  \/ DeclineAudit(c) \/ DeclineCommit(c) \/ ExpireInline(c) \/ ExpiredAudit(c)

Sweep == SweepList \/ (\E r \in Requests : SweepAudit(r)) \/ SweepCommit

Next ==
  \/ \E c \in Calls : Arrive(c) \/ Handle(c) \/ Abort(c)
  \/ Sweep \/ SweepAbort
  \/ \E r \in Requests : TimePasses(r)

Spec == Init /\ [][Next]_vars

\* The job runs every hour and goes on until nothing is due.
Fairness == WF_vars(Sweep) /\ \A c \in Calls : WF_vars(Handle(c))

-------------------------------------------------------------------------------
(* Properties *)

\* Whatever overlaps or crashes, nothing is on record without what backs it: a
\* request is about a document whose row and file exist, a row once signed or
\* declined has its audit row, and no signature is kept that was not audited.
RecordsAreBacked ==
  /\ \A d \in Documents : version[d] > 0 => d \in stored
  /\ \A r \in Requests :
       /\ status[r] # "NONE" => about[r] # Nothing /\ version[about[r]] > 0
       /\ status[r] \in {"PENDING", "SIGNED", "DECLINED"} => <<r, status[r]>> \in audit
       /\ r \in signature => <<r, "SIGNED">> \in audit

AnswersStay ==
  ~overlap' =>
    \A r \in Requests :
      /\ status[r] \in {"SIGNED", "DECLINED", "EXPIRED"} => status'[r] = status[r]
      /\ status'[r] = "EXPIRED" => r \in due' \ signature'
      /\ \A p \in Requests \ {r} :
           ~(status'[r] = "PENDING" /\ status'[p] = "PENDING" /\ about'[r] = about'[p])

\* As long as no calls overlap, an answer is final, nothing but time expires a
\* request, and a document never waits for two signatures of one signer.
AnswerIsFinal == [][AnswersStay]_vars

\* Every pending request whose time is over is resolved, by the job or an answer.
StaleIsResolved == \A r \in Requests : []<>(r \in due => status[r] # "PENDING")
===============================================================================
