------------------------------- MODULE Policies --------------------------------
(* One company policy and its acknowledgements: policy.service.ts.  Every call *)
(* reads the policy, checks its status and writes after an await, by id.       *)
EXTENDS Naturals, FiniteSets

CONSTANTS
  Employees,
  Calls,       \* slots for API calls in flight; each is used again and again
  MaxVersion,  \* bound: versions explored
  Faults       \* {"abort"}: an await throws or the process dies

VARIABLES
  policy,   \* the Policy row: status, version, and content named by its edit
  acked,    \* PolicyAcknowledgement rows: the content each employee saw, 0 for none
  edits,    \* history: updates written so far
  call,     \* the calls in flight
  overlap   \* history: two calls have overlapped

vars == <<policy, acked, edits, call, overlap>>

NoCall == [do |-> "idle", by |-> "nobody", n |-> 0]

TypeOK ==
  /\ policy \in [status : {"NONE", "DRAFT", "PUBLISHED", "ARCHIVED"}, version : Nat, content : Nat]
  /\ acked \in [Employees -> Nat]
  /\ edits \in Nat
  /\ call \in [Calls -> [do : {"idle", "update", "publish", "archive", "acknowledge"},
                         by : Employees \cup {"nobody"}, n : Nat]]
  /\ overlap \in BOOLEAN

Init ==
  /\ policy = [status |-> "NONE", version |-> 0, content |-> 0]
  /\ acked = [e \in Employees |-> 0]
  /\ edits = 0
  /\ call = [c \in Calls |-> NoCall] /\ overlap = FALSE

\* getOrThrow and the status check; a refused call changes nothing and is left out.
Check(c, allowed, next) ==
  /\ call[c] = NoCall
  /\ policy.status \in allowed
  /\ call' = [call EXCEPT ![c] = next]
  /\ overlap' = (overlap \/ \E b \in Calls : call[b] # NoCall)
  /\ UNCHANGED <<policy, acked, edits>>

Finish(c) == call' = [call EXCEPT ![c] = NoCall]

createPolicy(c) ==
  /\ call[c] = NoCall /\ policy.status = "NONE"
  /\ policy' = [status |-> "DRAFT", version |-> 1, content |-> 1]
  /\ edits' = 1
  /\ UNCHANGED <<acked, call, overlap>>

\* Mutant: a published policy can still be updated.
UpdatePublished(c) ==
  policy.version < MaxVersion /\ Check(c, {"DRAFT", "PUBLISHED"},
                                       [NoCall EXCEPT !.do = "update", !.n = policy.version])

UpdateCheck(c) ==
  policy.version < MaxVersion /\ Check(c, {"DRAFT"},
                                       [NoCall EXCEPT !.do = "update", !.n = policy.version])
PublishCheck(c) == Check(c, {"DRAFT"}, [NoCall EXCEPT !.do = "publish"])
ArchiveCheck(c) == Check(c, {"PUBLISHED"}, [NoCall EXCEPT !.do = "archive"])

\* The reader has the content of this moment before him.
AcknowledgeCheck(c, e) ==
  /\ acked[e] = 0
  /\ Check(c, {"PUBLISHED"}, [do |-> "acknowledge", by |-> e, n |-> policy.content])

\* The new version is one more than the one that was read.
UpdateWrite(c) ==
  /\ call[c].do = "update"
  /\ edits' = edits + 1
  /\ policy' = [policy EXCEPT !.version = call[c].n + 1, !.content = edits']
  /\ Finish(c)
  /\ UNCHANGED <<acked, overlap>>

StatusWrite(c) ==
  /\ call[c].do \in {"publish", "archive"}
  /\ policy' = [policy EXCEPT !.status =
                  IF call[c].do = "publish" THEN "PUBLISHED" ELSE "ARCHIVED"]
  /\ Finish(c)
  /\ UNCHANGED <<acked, edits, overlap>>

\* The unique index on policy and employee refuses a second row.
AcknowledgeWrite(c) ==
  /\ call[c].do = "acknowledge"
  /\ acked' = [acked EXCEPT ![call[c].by] = IF @ = 0 THEN call[c].n ELSE @]
  /\ Finish(c)
  /\ UNCHANGED <<policy, edits, overlap>>

Abort(c) ==
  /\ "abort" \in Faults /\ call[c] # NoCall
  /\ Finish(c)
  /\ UNCHANGED <<policy, acked, edits, overlap>>

Next ==
  \E c \in Calls :
    \/ createPolicy(c) \/ UpdateCheck(c) \/ PublishCheck(c) \/ ArchiveCheck(c)
    \/ \E e \in Employees : AcknowledgeCheck(c, e)
    \/ UpdateWrite(c) \/ StatusWrite(c) \/ AcknowledgeWrite(c) \/ Abort(c)

Spec == Init /\ [][Next]_vars

-------------------------------------------------------------------------------
\* Whoever acknowledged a policy did so after it was published, even if calls
\* overlapped; and unless they did, the policy still says what was acknowledged
\* and its version counts every edit.
AcknowledgedStands ==
  /\ (\E e \in Employees : acked[e] > 0) => policy.status \in {"PUBLISHED", "ARCHIVED"}
  /\ ~overlap => /\ \A e \in Employees : acked[e] \in {0, policy.content}
                 /\ policy.version = edits
===============================================================================
