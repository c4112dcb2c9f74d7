--------------------------------- MODULE Skills ---------------------------------
(* One skill and one certification of an employee: employee-skill.service.ts,  *)
(* employee-certification.service.ts and certification-expiry-cron.processor.  *)
(* Nothing schedules the expiry check, so that one may start at any time.      *)
EXTENDS Integers

CONSTANTS
  Levels,     \* of a skill
  threshold,  \* disputeThreshold
  Calls,      \* slots for calls in flight; each is used again and again
  Faults      \* {"abort"}: an await throws or the process dies

VARIABLES
  skill,    \* EmployeeSkill: selfAssessedLevel, managerValidatedLevel, validationStatus
  cert,     \* EmployeeCertification: verificationStatus, and past: its expiryDate is past
  call,     \* the calls in flight
  sweep,    \* the expiry check has listed the certification as past
  overlap   \* history: two calls overlapped

vars == <<skill, cert, call, sweep, overlap>>

Unset   == 0
NoSkill == [self |-> Unset, manager |-> Unset, status |-> "none"]
NoCall  == [do |-> "idle", level |-> Unset, new |-> "none"]

TypeOK ==
  /\ skill \in [self : Levels \cup {Unset}, manager : Levels \cup {Unset},
                status : {"none", "PENDING", "VALIDATED", "DISPUTED"}]
  /\ cert \in [status : {"none", "UNVERIFIED", "VERIFIED", "REVOKED", "EXPIRED"}, past : BOOLEAN]
  /\ call \in [Calls -> [do : {"idle", "reset", "assess", "validate", "verify", "revoke"},
                         level : Levels \cup {Unset},
                         new : {"none", "PENDING", "VALIDATED", "DISPUTED"}]]
  /\ sweep \in BOOLEAN /\ overlap \in BOOLEAN

Init ==
  /\ skill = NoSkill /\ cert = [status |-> "none", past |-> FALSE]
  /\ call = [c \in Calls |-> NoCall] /\ sweep = FALSE /\ overlap = FALSE

Check(c, ok, do, level, new) ==
  /\ call[c] = NoCall /\ ok
  /\ call' = [call EXCEPT ![c] = [do |-> do, level |-> level, new |-> new]]
  /\ overlap' = (overlap \/ \E b \in Calls : call[b] # NoCall)
  /\ UNCHANGED <<skill, cert, sweep>>

Finish(c, do) ==
  /\ call[c].do = do
  /\ call' = [call EXCEPT ![c] = NoCall]
  /\ UNCHANGED overlap

-------------------------------------------------------------------------------
\* Mutant: a new self-assessment leaves the validation alone.
AssessKeeps(c, level) == Check(c, TRUE, "assess", level, "none")

\* selfAssess
AssessCheck(c, level) ==
  IF skill.status = "VALIDATED" /\ skill.self # level
  THEN Check(c, TRUE, "reset", level, "none")
  ELSE Check(c, TRUE, "assess", level, "none")

AssessWrite(c) ==
  \/ /\ Finish(c, "reset")
     /\ skill' = [self |-> call[c].level, manager |-> Unset, status |-> "PENDING"]
     /\ UNCHANGED <<cert, sweep>>
  \/ /\ Finish(c, "assess")
     /\ skill' = [skill EXCEPT !.self = call[c].level,
                               !.status = IF @ = "none" THEN "PENDING" ELSE @]
     /\ UNCHANGED <<cert, sweep>>

Agrees(self, manager) == self - manager \in -threshold..threshold

\* managerValidate
ValidateCheck(c, level) ==
  Check(c, skill.status # "none", "validate", level,
        IF Agrees(skill.self, level) THEN "VALIDATED" ELSE "DISPUTED")

ValidateWrite(c) ==
  /\ Finish(c, "validate")
  /\ skill' = [skill EXCEPT !.manager = call[c].level, !.status = call[c].new]
  /\ UNCHANGED <<cert, sweep>>

-------------------------------------------------------------------------------
\* One insert; the date of issue may lie so far back that it is past already.
recordCertification(past) ==
  /\ cert.status = "none" /\ cert' = [status |-> "UNVERIFIED", past |-> past]
  /\ UNCHANGED <<skill, call, sweep, overlap>>

\* What is REVOKED or EXPIRED can be verified again.
VerifyCheck(c) ==
  Check(c, cert.status \notin {"none", "VERIFIED"}, "verify", Unset, "none")

RevokeCheck(c) == Check(c, cert.status # "none", "revoke", Unset, "none")

CertWrite(c) ==
  \/ /\ Finish(c, "verify") /\ cert' = [cert EXCEPT !.status = "VERIFIED"]
     /\ UNCHANGED <<skill, sweep>>
  \/ /\ Finish(c, "revoke") /\ cert' = [cert EXCEPT !.status = "REVOKED"]
     /\ UNCHANGED <<skill, sweep>>

\* External: the expiry date passes.
TimePasses ==
  /\ cert.status # "none" /\ ~cert.past /\ cert' = [cert EXCEPT !.past = TRUE]
  /\ UNCHANGED <<skill, call, sweep, overlap>>

SweepList ==
  /\ ~sweep /\ cert.past /\ cert.status # "EXPIRED" /\ sweep' = TRUE
  /\ UNCHANGED <<skill, cert, call, overlap>>

SweepWrite ==
  /\ sweep /\ sweep' = FALSE /\ cert' = [cert EXCEPT !.status = "EXPIRED"]
  /\ UNCHANGED <<skill, call, overlap>>

Abort(c) ==
  /\ "abort" \in Faults /\ call[c] # NoCall /\ Finish(c, call[c].do)
  /\ UNCHANGED <<skill, cert, sweep>>

Next ==
  \/ TimePasses \/ SweepList \/ SweepWrite
  \/ \E past \in BOOLEAN : recordCertification(past)
  \/ \E c \in Calls : \/ AssessWrite(c) \/ ValidateWrite(c) \/ CertWrite(c) \/ Abort(c)
                      \/ VerifyCheck(c) \/ RevokeCheck(c)
                      \/ \E n \in Levels : AssessCheck(c, n) \/ ValidateCheck(c, n)

Spec == Init /\ [][Next]_vars

-------------------------------------------------------------------------------
\* Unless calls overlapped, a skill counts as validated only while the manager's level
\* agrees with the employee's own, however often either of them changes it; and a
\* certification expires only when its date is past.
DoneMeansAllDone ==
  /\ ~overlap => (skill.status = "VALIDATED" => Agrees(skill.self, skill.manager))
  /\ cert.status = "EXPIRED" => cert.past
===============================================================================
