-------------------------------- MODULE Records --------------------------------
(* Parts that answer requests about records of their own: accounts and roles,  *)
(* documents and signatures, policies, mails, reports, applications from the   *)
(* careers page and webhooks.                                                  *)
(*                                                                             *)
(* The parts write no row in common, so their interleavings would show nothing *)
(* more: scope picks one part, and a behaviour is one of that part.  Parts     *)
(* that name a variable alike share it, and what a part does not have stays 0. *)
EXTENDS Integers, Sequences, FiniteSets

CONSTANTS
  Calls, Faults,
  AccountCalls, Tokens, Invites, Resets, MaxChanges, MaxGuesses,  \* Sessions
  Users, Roles, SystemRoles, Permits,                             \* Permissions
  Documents, Requests,                                            \* ESignatures
  Employees, MaxVersion,                                          \* Policies
  Events,                                                         \* Notifications
  Threshold, MaxReports,                                          \* Webhooks
  Jobs, Attempts, Ticks,                                          \* ReportExports
  Requisitions                                                    \* Careers

VARIABLES
  scope,                                   \* the part that runs
  call, overlap, disturbed, objects, failed,
  user, refresh, invite, reset, otp, era, now, chosen, uses,
  live, grants, holds, cache, assigned,
  version, stored, status, about, signature, due, audit, batch, entering,
  policy, acked, edits,
  handler, mails, rows,
  hook, fanOut, deliveries, inARow, reports,
  report, schedule, tick, job, ready, dueTimes, queued, stalled, lost,
  candidate, applied, jobs

Accounts  == INSTANCE Sessions WITH Calls <- AccountCalls
RoleCache == INSTANCE Permissions
Sign      == INSTANCE ESignatures
Policy    == INSTANCE Policies
Mails     == INSTANCE Notifications
Hooks     == INSTANCE Webhooks
Exports   == INSTANCE ReportExports
Apply     == INSTANCE Careers

\* Keys of different kinds are different, and so are rows and the marks for no row;
\* a code takes a guess, a webhook a failure and an export an attempt.
RecordsAssumption ==
  /\ Tokens \cap Invites = {} /\ Tokens \cap Resets = {} /\ Invites \cap Resets = {}
  /\ "guess" \notin Tokens \cup Invites \cup Resets /\ MaxGuesses \in Nat \ {0}
  /\ SystemRoles \subseteq Roles
  /\ Sign!Nothing \notin Documents /\ Apply!NoResume \notin Calls
  /\ Threshold \in Nat \ {0} /\ MaxReports \in Nat
  /\ IsFiniteSet(Jobs) /\ Attempts \in Nat \ {0}
ASSUME RecordsAssumption

accounts == <<user, refresh, invite, reset, otp, era, now, chosen, uses>>
roles    == <<live, grants, holds, cache, assigned>>
esign    == <<version, stored, status, about, signature, due, audit, batch, entering>>
policies == <<policy, acked, edits>>
mailing  == <<handler, mails, rows>>
hooks    == <<hook, fanOut, deliveries, inARow, reports>>
exports  == <<report, schedule, tick, job, ready, dueTimes, queued, stalled, lost>>
careers  == <<candidate, applied, jobs>>

vars == <<scope, call, overlap, disturbed, objects, failed, accounts, roles, esign,
          policies, mailing, hooks, exports, careers>>

NoAccounts == /\ user = 0 /\ refresh = 0 /\ invite = 0 /\ reset = 0 /\ otp = 0
              /\ era = 0 /\ now = 0 /\ chosen = 0 /\ uses = 0
NoRoles    == live = 0 /\ grants = 0 /\ holds = 0 /\ cache = 0 /\ assigned = 0
NoEsign    == /\ version = 0 /\ stored = 0 /\ status = 0 /\ about = 0 /\ signature = 0
              /\ due = 0 /\ audit = 0 /\ batch = 0 /\ entering = 0
NoPolicies == policy = 0 /\ acked = 0 /\ edits = 0
NoMails    == handler = 0 /\ mails = 0 /\ rows = 0
NoHooks    == hook = 0 /\ fanOut = 0 /\ deliveries = 0 /\ inARow = 0 /\ reports = 0
NoExports  == /\ report = 0 /\ schedule = 0 /\ tick = 0 /\ job = 0 /\ ready = 0
              /\ dueTimes = 0 /\ queued = 0 /\ stalled = 0 /\ lost = 0
NoCareers  == candidate = 0 /\ applied = 0 /\ jobs = 0

Init ==
  \/ /\ scope = "accounts" /\ Accounts!Init
     /\ overlap = 0 /\ objects = 0 /\ failed = 0 /\ NoRoles
     /\ NoEsign /\ NoPolicies /\ NoMails /\ NoHooks /\ NoExports /\ NoCareers
  \/ /\ scope = "roles" /\ RoleCache!Init
     /\ overlap = 0 /\ objects = 0 /\ failed = 0 /\ NoAccounts
     /\ NoEsign /\ NoPolicies /\ NoMails /\ NoHooks /\ NoExports /\ NoCareers
  \/ /\ scope = "esign" /\ Sign!Init
     /\ disturbed = 0 /\ objects = 0 /\ failed = 0 /\ NoAccounts
     /\ NoRoles /\ NoPolicies /\ NoMails /\ NoHooks /\ NoExports /\ NoCareers
  \/ /\ scope = "policies" /\ Policy!Init
     /\ disturbed = 0 /\ objects = 0 /\ failed = 0 /\ NoAccounts
     /\ NoRoles /\ NoEsign /\ NoMails /\ NoHooks /\ NoExports /\ NoCareers
  \/ /\ scope = "mails" /\ Mails!Init
     /\ call = 0 /\ overlap = 0 /\ disturbed = 0 /\ objects = 0 /\ NoAccounts
     /\ NoRoles /\ NoEsign /\ NoPolicies /\ NoHooks /\ NoExports /\ NoCareers
  \/ /\ scope = "webhooks" /\ Hooks!Init
     /\ disturbed = 0 /\ objects = 0 /\ failed = 0 /\ NoAccounts
     /\ NoRoles /\ NoEsign /\ NoPolicies /\ NoMails /\ NoExports /\ NoCareers
  \/ /\ scope = "exports" /\ Exports!Init
     /\ call = 0 /\ disturbed = 0 /\ failed = 0 /\ NoAccounts
     /\ NoRoles /\ NoEsign /\ NoPolicies /\ NoMails /\ NoHooks /\ NoCareers
  \/ /\ scope = "careers" /\ Apply!Init
     /\ overlap = 0 /\ disturbed = 0 /\ NoAccounts
     /\ NoRoles /\ NoEsign /\ NoPolicies /\ NoMails /\ NoHooks /\ NoExports

Next ==
  /\ UNCHANGED scope
  /\ \/ /\ scope = "accounts" /\ Accounts!Next
        /\ UNCHANGED <<overlap, objects, failed, roles, esign, policies, mailing, hooks,
                       exports, careers>>
     \/ /\ scope = "roles" /\ RoleCache!Next
        /\ UNCHANGED <<overlap, objects, failed, accounts, esign, policies, mailing, hooks,
                       exports, careers>>
     \/ /\ scope = "esign" /\ Sign!Next
        /\ UNCHANGED <<disturbed, objects, failed, accounts, roles, policies, mailing, hooks,
                       exports, careers>>
     \/ /\ scope = "policies" /\ Policy!Next
        /\ UNCHANGED <<disturbed, objects, failed, accounts, roles, esign, mailing, hooks,
                       exports, careers>>
     \/ /\ scope = "mails" /\ Mails!Next
        /\ UNCHANGED <<call, overlap, disturbed, objects, accounts, roles, esign, policies,
                       hooks, exports, careers>>
     \/ /\ scope = "webhooks" /\ Hooks!Next
        /\ UNCHANGED <<disturbed, objects, failed, accounts, roles, esign, policies, mailing,
                       exports, careers>>
     \/ /\ scope = "exports" /\ Exports!Next
        /\ UNCHANGED <<call, disturbed, failed, accounts, roles, esign, policies, mailing,
                       hooks, careers>>
     \/ /\ scope = "careers" /\ Apply!Next
        /\ UNCHANGED <<overlap, disturbed, accounts, roles, esign, policies, mailing, hooks,
                       exports>>

Spec == Init /\ [][Next]_vars

-------------------------------------------------------------------------------
TypeOK ==
  /\ scope = "accounts" => Accounts!TypeOK
  /\ scope = "roles" => RoleCache!TypeOK
  /\ scope = "esign" => Sign!TypeOK
  /\ scope = "policies" => Policy!TypeOK
  /\ scope = "mails" => Mails!TypeOK
  /\ scope = "exports" => Exports!TypeOK
  /\ scope = "careers" => Apply!TypeOK
  /\ scope = "webhooks" => Hooks!TypeOK

\* No record without what it rests on: the files, rows and audit rows of a signature
\* request, and the resume and application behind a candidate and a parsing job.
RecordsAreBacked ==
  /\ scope = "esign" => Sign!RecordsAreBacked
  /\ scope = "careers" => Apply!RecordsAreBacked

\* As long as no calls overlap, the answer to a signature request is final, only time
\* expires one, and a document never waits for two signatures of one signer.
AnswerIsFinal == [][scope = "esign" => Sign!AnswersStay]_vars

\* A policy was published before it was acknowledged and, unless calls overlapped,
\* still says what was acknowledged and counts every edit.
AcknowledgedStands == scope = "policies" => Policy!AcknowledgedStands

\* Who holds a refresh token may log in and did so after the last reset; nothing is
\* exchanged twice; unless calls overlapped or stopped half-way.
RevokedStayOut == scope = "accounts" => Accounts!RevokedStayOut

\* The cached permissions of a user are those of their roles, which nobody loses by
\* accident, unless requests overlapped or stopped half-way.
CacheIsCurrent == scope = "roles" => RoleCache!CacheIsCurrent

\* A mail, a report, their notifications and a webhook delivery come once at most,
\* or as often as an answer was lost or a worker died, none is announced before it is
\* there, and no failure is counted that was not one.
DeliveredOnce ==
  /\ scope = "mails" => Mails!DeliveredOnce
  /\ scope = "exports" => Exports!DeliveredOnce
  /\ scope = "webhooks" => Hooks!DeliveredOnce
===============================================================================
