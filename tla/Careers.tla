------------------------------- MODULE Careers -------------------------------
(* Applying on the careers page: careers.controller.ts, candidate.service.ts   *)
(* and resume-parsing.processor.ts, for the calls that carry one email         *)
(* address.  No transaction spans the upload, the candidate, the application   *)
(* and the parsing job; unique indexes refuse a second candidate with the      *)
(* email and a second application of it for a requisition.                     *)
EXTENDS Integers

CONSTANTS
  Requisitions,  \* open requisitions
  Calls,         \* calls of apply
  Faults         \* {"abort"}: an await rejects, or the process dies

VARIABLES
  candidate,  \* the Candidate row: its resume, and where its profileData stems from
  applied,    \* Application rows, by requisition
  objects,    \* resumes in S3, by the call that stored them
  jobs,       \* resume_parsing jobs
  call,       \* the calls
  failed      \* history: calls that were refused or threw

vars == <<candidate, applied, objects, jobs, call, failed>>

NoResume == "no resume"
NoRow    == [exists |-> FALSE, resume |-> NoResume, profile |-> "none"]
NoCall   == [step |-> "idle", req |-> "none", file |-> FALSE]

TypeOK ==
  /\ candidate \in [exists : BOOLEAN, resume : Calls \cup {NoResume}, profile : {"none", "parsed", "stated"}]
  /\ applied \subseteq Requisitions /\ objects \subseteq Calls
  /\ jobs \subseteq Calls /\ failed \subseteq Calls
  /\ call \in [Calls -> [step : {"idle", "upload", "find", "merge", "insert", "apply", "queue", "done"},
                         req : Requisitions \cup {"none"}, file : BOOLEAN]]

Init ==
  /\ candidate = NoRow /\ applied = {} /\ objects = {} /\ jobs = {}
  /\ call = [c \in Calls |-> NoCall] /\ failed = {}

Resume(c) == IF call[c].file THEN c ELSE NoResume

Goto(c, here, next) == call[c].step = here /\ call' = [call EXCEPT ![c].step = next]

Throws(c, here) ==
  /\ Goto(c, here, "done")
  /\ failed' = failed \cup {c}
  /\ UNCHANGED <<candidate, applied, objects, jobs>>

-------------------------------------------------------------------------------
Start(c, r, file) ==
  /\ call[c] = NoCall
  /\ call' = [call EXCEPT ![c] = [step |-> IF file THEN "upload" ELSE "find",
                                  req |-> r, file |-> file]]
  /\ UNCHANGED <<candidate, applied, objects, jobs, failed>>

\* Mutant: the upload is best effort, like the parsing job.
UploadOrNot(c) ==
  /\ Goto(c, "upload", "find")
  /\ objects' \in {objects, objects \cup {c}}
  /\ UNCHANGED <<candidate, applied, jobs, failed>>

Upload(c) ==
  /\ Goto(c, "upload", "find")
  /\ objects' = objects \cup {c}
  /\ UNCHANGED <<candidate, applied, jobs, failed>>

\* A known candidate without a new phone number or resume is left alone.
Find(c) ==
  /\ IF candidate.exists
     THEN Goto(c, "find", "merge") \/ (~call[c].file /\ Goto(c, "find", "apply"))
     ELSE Goto(c, "find", "insert")
  /\ UNCHANGED <<candidate, applied, objects, jobs, failed>>

Merge(c) ==
  /\ Goto(c, "merge", "apply")
  /\ candidate' = IF call[c].file THEN [candidate EXCEPT !.resume = c] ELSE candidate
  /\ UNCHANGED <<applied, objects, jobs, failed>>

Insert(c) ==
  /\ ~candidate.exists /\ Goto(c, "insert", "apply")
  /\ candidate' = [exists |-> TRUE, resume |-> Resume(c), profile |-> "none"]
  /\ UNCHANGED <<applied, objects, jobs, failed>>

InsertRefused(c) == candidate.exists /\ Throws(c, "insert")

Apply(c) ==
  /\ call[c].req \notin applied
  /\ Goto(c, "apply", IF call[c].file THEN "queue" ELSE "done")
  /\ applied' = applied \cup {call[c].req}
  /\ UNCHANGED <<candidate, objects, jobs, failed>>

\* The candidate has the new resume by now.
ApplyRefused(c) == call[c].req \in applied /\ Throws(c, "apply")

\* Redis may refuse: the catch swallows it.
Queue(c) ==
  /\ Goto(c, "queue", "done")
  /\ \/ jobs' = jobs \cup {c}
     \/ "abort" \in Faults /\ UNCHANGED jobs
  /\ UNCHANGED <<candidate, applied, objects, failed>>

\* parseResumeStub; an error is logged, and the job has then succeeded.
Parse(c) ==
  /\ c \in jobs /\ jobs' = jobs \ {c}
  /\ \/ candidate' = [candidate EXCEPT !.profile = "parsed"]
     \/ "abort" \in Faults /\ UNCHANGED candidate
  /\ UNCHANGED <<applied, objects, call, failed>>

\* CandidateService.create, for a recruiter; the index decides if two overlap.
create ==
  /\ ~candidate.exists
  /\ candidate' = [NoRow EXCEPT !.exists = TRUE]
  /\ UNCHANGED <<applied, objects, jobs, call, failed>>

\* CandidateService.update can state a profile, but no resume.
update ==
  /\ candidate.exists /\ candidate.profile # "stated"
  /\ candidate' = [candidate EXCEPT !.profile = "stated"]
  /\ UNCHANGED <<applied, objects, jobs, call, failed>>

Abort(c) ==
  /\ "abort" \in Faults
  /\ \E here \in {"upload", "find", "merge", "insert", "apply"} : Throws(c, here)

Next ==
  \/ create \/ update
  \/ \E c \in Calls :
       \/ \E r \in Requisitions, file \in BOOLEAN : Start(c, r, file)
       \/ Upload(c) \/ Find(c) \/ Merge(c) \/ Insert(c) \/ InsertRefused(c)
       \/ Apply(c) \/ ApplyRefused(c) \/ Queue(c) \/ Parse(c) \/ Abort(c)

Spec == Init /\ [][Next]_vars

-------------------------------------------------------------------------------
\* Whatever fails: a candidate's resume is in S3, who applied is a candidate, and a
\* parsed profile or a parsing job stems from an application whose resume was stored.  A
\* candidate is without a resume only as long as every stored one is of a call that
\* failed, or that has not come to the candidate yet; no failed call is parsed.
RecordsAreBacked ==
  /\ candidate.resume # NoResume => candidate.resume \in objects
  /\ applied # {} => candidate.exists
  /\ candidate.profile = "parsed" \/ jobs # {} => \E c \in objects : call[c].step = "done" /\ call[c].req \in applied
  /\ candidate.exists /\ candidate.resume = NoResume =>
       \A c \in objects : c \in failed \/ call[c].step \in {"find", "merge", "insert"}
  /\ jobs \subseteq objects \ failed
===============================================================================
