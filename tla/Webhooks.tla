------------------------------- MODULE Webhooks -------------------------------
(* One webhook of a company and the events it subscribes to:                   *)
(* webhook.service.ts and webhook-emitter.listener.ts.  The listener stores    *)
(* PENDING deliveries; the worker that would post them, and report success or  *)
(* failure, is not there yet and is external here.                             *)
EXTENDS Integers, FiniteSets

CONSTANTS
  Events,     \* events that are emitted, all of one type
  Threshold,  \* consecutive failures that deactivate a webhook
  MaxReports, \* bound: failures reported
  Calls,      \* slots for deactivateOnFailureThreshold in flight
  Faults      \* {"abort"}: a query or transaction throws; {"crash"}: the process dies

VARIABLES
  hook,        \* Webhook: status, subscribed (the type is in events), consecutiveFailures
  fanOut,      \* the listener, by event
  deliveries,  \* WebhookDelivery rows, by event
  call,        \* the reports in flight: the count they read, or -1
  inARow,      \* history: failures reported since the last success
  reports,     \* history: failures reported
  overlap      \* history: reports overlapped, or one did not end

vars == <<hook, fanOut, deliveries, call, inARow, reports, overlap>>

Idle == -1

TypeOK ==
  /\ hook \in [status : {"none", "ACTIVE", "INACTIVE"}, subscribed : BOOLEAN,
               consecutiveFailures : 0..MaxReports]
  /\ fanOut \in [Events -> {"none", "emitted", "listed", "done"}]
  /\ deliveries \in [Events -> 0..2]
  /\ call \in [Calls -> Idle..MaxReports]
  /\ inARow \in 0..MaxReports /\ reports \in 0..MaxReports /\ overlap \in BOOLEAN

Init ==
  /\ hook = [status |-> "none", subscribed |-> FALSE, consecutiveFailures |-> 0]
  /\ fanOut = [e \in Events |-> "none"] /\ deliveries = [e \in Events |-> 0]
  /\ call = [c \in Calls |-> Idle]
  /\ inARow = 0 /\ reports = 0 /\ overlap = FALSE

delivering == <<fanOut, deliveries>>
counting   == <<call, inARow, reports, overlap>>

-------------------------------------------------------------------------------
register(subscribed) ==
  /\ hook.status = "none"
  /\ hook' = [hook EXCEPT !.status = "ACTIVE", !.subscribed = subscribed]
  /\ UNCHANGED <<delivering, counting>>

update(subscribed) ==
  /\ hook.status # "none" /\ hook.subscribed # subscribed
  /\ hook' = [hook EXCEPT !.subscribed = subscribed]
  /\ UNCHANGED <<delivering, counting>>

-------------------------------------------------------------------------------
(* The listener                                                               *)

Moves(e, here, next) == fanOut[e] = here /\ fanOut' = [fanOut EXCEPT ![e] = next]

\* The service that emits goes on without waiting.
Emit(e) ==
  /\ Moves(e, "none", "emitted")
  /\ UNCHANGED <<hook, deliveries, counting>>

Wanted == hook.status = "ACTIVE" /\ hook.subscribed

List(e) ==
  /\ Moves(e, "emitted", IF Wanted THEN "listed" ELSE "done")
  /\ UNCHANGED <<hook, deliveries, counting>>

Store(e) ==
  /\ Moves(e, "listed", "done")
  /\ deliveries' = [deliveries EXCEPT ![e] = @ + 1]
  /\ UNCHANGED <<hook, counting>>

\* Nobody catches it, and nobody emits the event again; the row may be there.
StoreFails(e) ==
  /\ Faults # {} /\ fanOut[e] \in {"emitted", "listed"}
  /\ Moves(e, fanOut[e], "done")
  /\ deliveries' \in {deliveries, [deliveries EXCEPT ![e] = IF fanOut[e] = "listed" THEN 1 ELSE @]}
  /\ UNCHANGED <<hook, counting>>

-------------------------------------------------------------------------------
(* Failures                                                                   *)

\* External: a delivery failed.
ReportFailure(c) ==
  /\ hook.status # "none" /\ call[c] = Idle /\ reports < MaxReports
  /\ call' = [call EXCEPT ![c] = hook.consecutiveFailures]
  /\ reports' = reports + 1 /\ inARow' = inARow + 1
  /\ overlap' = (overlap \/ \E d \in Calls : call[d] # Idle)
  /\ UNCHANGED <<hook, delivering>>

Ends(c) == call[c] # Idle /\ call' = [call EXCEPT ![c] = Idle]

\* Mutant: one failure too late.
CountToo(c) ==
  LET n == call[c] + 1
  IN /\ Ends(c)
     /\ hook' = [hook EXCEPT !.consecutiveFailures = n,
                             !.status = IF n > Threshold THEN "INACTIVE" ELSE @]
     /\ UNCHANGED <<delivering, inARow, reports, overlap>>

\* The count was read before; nothing makes the webhook ACTIVE again.
deactivateOnFailureThreshold(c) ==
  LET n == call[c] + 1
  IN /\ Ends(c)
     /\ hook' = [hook EXCEPT !.consecutiveFailures = n,
                             !.status = IF n >= Threshold THEN "INACTIVE" ELSE @]
     /\ UNCHANGED <<delivering, inARow, reports, overlap>>

ReportLost(c) ==
  /\ Faults # {} /\ Ends(c) /\ overlap' = TRUE
  /\ UNCHANGED <<hook, delivering, inARow, reports>>

\* External: a delivery succeeded.
resetFailureCount ==
  /\ hook.consecutiveFailures > 0
  /\ hook' = [hook EXCEPT !.consecutiveFailures = 0] /\ inARow' = 0
  /\ overlap' = (overlap \/ \E c \in Calls : call[c] # Idle)
  /\ UNCHANGED <<delivering, call, reports>>

Next ==
  \/ \E s \in BOOLEAN : register(s) \/ update(s)
  \/ \E e \in Events : Emit(e) \/ List(e) \/ Store(e) \/ StoreFails(e)
  \/ \E c \in Calls : ReportFailure(c) \/ deactivateOnFailureThreshold(c) \/ ReportLost(c)
  \/ resetFailureCount

Spec == Init /\ [][Next]_vars

-------------------------------------------------------------------------------
\* Whatever overlaps or fails, an event is stored for a webhook once at most, and only
\* by a fan-out that has ended.  A webhook that is still active has not failed Threshold
\* times in a row: its count is below, and it is the number of failures since the last
\* success, unless reports overlapped or one did not end.
DeliveredOnce ==
  /\ \A e \in Events : /\ deliveries[e] <= 1
                       /\ deliveries[e] = 1 => fanOut[e] = "done"
  /\ hook.status = "ACTIVE" => hook.consecutiveFailures < Threshold
  /\ ~overlap /\ call = [c \in Calls |-> Idle] /\ hook.status = "ACTIVE" =>
       inARow = hook.consecutiveFailures
===============================================================================
