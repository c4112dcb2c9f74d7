------------------------------ MODULE Notifications ------------------------------
(* Domain events that become a mail and a notification:                        *)
(* domain-events.service.ts, notification-event-handlers.ts,                   *)
(* email-dispatch.processor.ts, notifications.service.ts and mail.service.ts.  *)
(* emit calls its listeners at once and awaits none, so the handlers of two    *)
(* events run beside each other, and process is called directly: no queue      *)
(* holds an event, and nobody tries again.                                     *)
EXTENDS Integers, Sequences

CONSTANTS
  Events,     \* events that are emitted, each with one employee to be told
  Faults      \* "abort": a database call throws; "mail": SMTP refuses; "crash"

VARIABLES
  handler,   \* where the handler of each event stands
  mails,     \* mails of each event that SMTP took
  rows,      \* Notification rows of each event: emailSent, and isRead
  failed     \* history: events whose handler met a failure that it could notice

vars == <<handler, mails, rows, failed>>

TypeOK ==
  /\ handler \in [Events -> {"none", "find", "flag", "send", "insert", "insertFailed", "done"}]
  /\ mails \in [Events -> 0..2] /\ failed \subseteq Events
  /\ rows \in [Events -> Seq([emailSent : BOOLEAN, isRead : BOOLEAN])]

Init ==
  /\ handler = [e \in Events |-> "none"]
  /\ mails = [e \in Events |-> 0] /\ rows = [e \in Events |-> <<>>] /\ failed = {}

At(e, here, next) == handler[e] = here /\ handler' = [handler EXCEPT ![e] = next]

emit(e) == At(e, "none", "find") /\ UNCHANGED <<mails, rows, failed>>

\* The employee is looked up; without a work email, that was all.
FindRecipient(e) ==
  /\ At(e, "find", "flag") \/ At(e, "find", "done")
  /\ UNCHANGED <<mails, rows, failed>>

Insert(e, sent) == rows' = [rows EXCEPT ![e] = Append(@, [emailSent |-> sent, isRead |-> FALSE])]

\* A template variable that is null, or a template switched off: a row, but no mail.
NotSent(e) ==
  /\ At(e, "flag", "done") /\ Insert(e, FALSE)
  /\ UNCHANGED <<mails, failed>>

Enabled(e) == At(e, "flag", "send") /\ UNCHANGED <<mails, rows, failed>>

\* MailService.send catches what SMTP throws: the caller cannot tell.
Send(e) ==
  /\ At(e, "send", "insert")
  /\ \/ mails' = [mails EXCEPT ![e] = @ + 1]
     \/ "mail" \in Faults /\ UNCHANGED mails
  /\ UNCHANGED <<rows, failed>>

InsertSent(e) ==
  /\ At(e, "insert", "done") /\ Insert(e, TRUE)
  /\ UNCHANGED <<mails, failed>>

\* A call that throws may have been committed: only its answer was lost.
InsertThrows(e, sent) ==
  /\ "abort" \in Faults /\ failed' = failed \cup {e}
  /\ Insert(e, sent) \/ UNCHANGED rows
  /\ UNCHANGED mails

\* The catch takes it for a failed mail.
InsertSentFails(e) == At(e, "insert", "insertFailed") /\ InsertThrows(e, TRUE)

\* Mutant: after the catch, the mail is sent once more.
InsertAndResend(e) ==
  /\ At(e, "insertFailed", "done") /\ Insert(e, TRUE)
  /\ mails' = [mails EXCEPT ![e] = @ + 1]
  /\ UNCHANGED failed

\* It then throws, which the handler of the event catches.
InsertNotSent(e) ==
  /\ At(e, "insertFailed", "done") /\ Insert(e, FALSE)
  /\ UNCHANGED <<mails, failed>>

\* The lookup, or the insert that nothing catches: the handler logs what they throw,
\* and the event is gone.
FindFails(e) ==
  /\ "abort" \in Faults /\ At(e, "find", "done")
  /\ failed' = failed \cup {e}
  /\ UNCHANGED <<mails, rows>>

InsertFails(e) ==
  /\ At(e, "flag", "done") \/ At(e, "insertFailed", "done")
  /\ InsertThrows(e, FALSE)

Running == {e \in Events : handler[e] \notin {"none", "done"}}

\* The process dies with the handlers that it runs.
Crash ==
  /\ "crash" \in Faults /\ Running # {}
  /\ handler' = [e \in Events |-> IF e \in Running THEN "done" ELSE handler[e]]
  /\ failed' = failed \cup Running
  /\ UNCHANGED <<mails, rows>>

Read(list) == [i \in DOMAIN list |-> [list[i] EXCEPT !.isRead = TRUE]]
Unread(e)  == \E i \in DOMAIN rows[e] : ~rows[e][i].isRead

markRead(e) ==
  /\ Unread(e)
  /\ rows' = [rows EXCEPT ![e] = Read(@)]
  /\ UNCHANGED <<handler, mails, failed>>

markAllRead ==
  /\ \E e \in Events : Unread(e)
  /\ rows' = [e \in Events |-> Read(rows[e])]
  /\ UNCHANGED <<handler, mails, failed>>

Next ==
  \/ Crash \/ markAllRead
  \/ \E e \in Events : \/ emit(e) \/ FindRecipient(e) \/ NotSent(e) \/ Enabled(e) \/ Send(e)
                       \/ InsertSent(e) \/ InsertSentFails(e) \/ InsertNotSent(e)
                       \/ FindFails(e) \/ InsertFails(e) \/ markRead(e)

Spec == Init /\ [][Next]_vars

-------------------------------------------------------------------------------
\* Whatever fails, an event is mailed once at most and leaves no notification before
\* the mail was tried.  It leaves one, unless the answer to its insert was lost: then
\* a second one denies the mail that the first tells of.  Unless the handler met a
\* failure, who is mailed is notified, and the notification tells of the mail.
DeliveredOnce ==
  \A e \in Events :
    /\ mails[e] <= 1 /\ Len(rows[e]) <= IF e \in failed THEN 2 ELSE 1
    /\ Len(rows[e]) = 2 => rows[e][1].emailSent /\ ~rows[e][2].emailSent
    /\ rows[e] # <<>> => handler[e] \in {"insertFailed", "done"}
    /\ mails[e] = 1 /\ handler[e] = "done" /\ e \notin failed =>
         rows[e] # <<>> /\ rows[e][1].emailSent
===============================================================================
