------------------------------- MODULE Interviews -------------------------------
(* One interview panel of one application, its panelists and their scorecards: *)
(* interview.service.ts.  Every write is a statement of its own: nothing here  *)
(* is a transaction.                                                           *)
EXTENDS Naturals, FiniteSets

CONSTANTS
  Panelists,  \* employees
  Calls,      \* slots for calls in flight; each is used again and again
  Faults      \* {"abort"}: an await throws or the process dies

VARIABLES
  stage,      \* Application.stage: the stages this service tells apart
  status,     \* InterviewPanel.status, NONE before the row exists
  panel,      \* InterviewPanelist rows
  lead,       \* the rows with role LEAD
  cards,      \* InterviewScorecard rows, by their panelist
  call,       \* the calls in flight; size: the panelists that were read
  overlap,    \* history: two calls have overlapped
  aborted,    \* history: a call stopped half-way
  changed     \* history: panelists were replaced, or the panel cancelled

vars == <<stage, status, panel, lead, cards, call, overlap, aborted, changed>>

None   == "nobody"
NoCall == [do |-> "idle", who |-> None, todo |-> {}, size |-> 0]

TypeOK ==
  /\ stage \in {"SCREENING", "INTERVIEW", "later"}
  /\ status \in {"NONE", "SCHEDULED", "COMPLETED", "CANCELLED"}
  /\ panel \subseteq Panelists /\ lead \subseteq panel /\ cards \subseteq Panelists
  /\ call \in [Calls -> [do : {"idle", "create", "add", "clear", "card", "count", "complete",
                               "cancel"},
                         who : Panelists \cup {None}, todo : SUBSET Panelists, size : Nat]]
  /\ overlap \in BOOLEAN /\ aborted \in BOOLEAN /\ changed \in BOOLEAN

Init ==
  /\ stage \in {"SCREENING", "INTERVIEW", "later"} /\ status = "NONE"
  /\ panel = {} /\ lead = {} /\ cards = {}
  /\ call = [c \in Calls |-> NoCall]
  /\ overlap = FALSE /\ aborted = FALSE /\ changed = FALSE

Busy        == \E c \in Calls : call[c] # NoCall
At(c, step) == call[c].do = step
Goto(c, step) == call' = [call EXCEPT ![c].do = step]
Finish(c)   == call' = [call EXCEPT ![c] = NoCall]

Start(c, next) ==
  /\ call[c] = NoCall
  /\ call' = [call EXCEPT ![c] = next]
  /\ overlap' = (overlap \/ Busy)
  /\ UNCHANGED <<status, panel, lead, cards, aborted>>

-------------------------------------------------------------------------------
(* schedulePanel.  An application that is still in SCREENING is advanced when *)
(* that is asked for, before the lead is looked at: a refused call advances   *)
(* it too.                                                                    *)

Advances == stage = "SCREENING"

ScheduleCheck(c, who, todo) ==
  /\ status = "NONE" /\ \A b \in Calls : call[b].do # "create"
  /\ Advances \/ stage = "INTERVIEW"
  /\ who \in todo
  /\ Start(c, [do |-> "create", who |-> who, todo |-> todo, size |-> 0])
  /\ stage' = "INTERVIEW" /\ UNCHANGED changed

ScheduleRefused ==
  /\ Advances /\ stage' = "INTERVIEW"
  /\ UNCHANGED <<status, panel, lead, cards, call, overlap, aborted, changed>>

CreatePanel(c) ==
  /\ At(c, "create")
  /\ status' = "SCHEDULED" /\ Goto(c, "add")
  /\ UNCHANGED <<stage, panel, lead, cards, overlap, aborted, changed>>

\* One row after another; a row that is there is refused, and ends the call.
AddPanelist(c, p) ==
  /\ At(c, "add") /\ p \in call[c].todo
  /\ IF p \in panel
     THEN Finish(c) /\ UNCHANGED <<panel, lead>>
     ELSE /\ panel' = panel \cup {p}
          /\ lead' = IF p = call[c].who THEN lead \cup {p} ELSE lead
          /\ IF call[c].todo = {p} THEN Finish(c)
             ELSE call' = [call EXCEPT ![c].todo = @ \ {p}]
  /\ UNCHANGED <<stage, status, cards, overlap, aborted, changed>>

-------------------------------------------------------------------------------
(* assignPanelists: a cancelled panel is not refused, and nobody leads        *)

AssignCheck(c, todo) ==
  /\ status \in {"SCHEDULED", "CANCELLED"} /\ todo # {}
  /\ Start(c, [NoCall EXCEPT !.do = "clear", !.todo = todo])
  /\ UNCHANGED <<stage, changed>>

\* Mutant: only the panelists who are no leads are deleted.
ClearKeepsLead(c) ==
  /\ At(c, "clear")
  /\ panel' = {} /\ changed' = TRUE
  /\ Goto(c, "add")
  /\ UNCHANGED <<stage, status, lead, cards, overlap, aborted>>

ClearPanel(c) ==
  /\ At(c, "clear")
  /\ panel' = {} /\ lead' = {} /\ changed' = TRUE
  /\ Goto(c, "add")
  /\ UNCHANGED <<stage, status, cards, overlap, aborted>>

-------------------------------------------------------------------------------
(* submitScorecard, whatever the status                                       *)

SubmitCheck(c, p) ==
  /\ status # "NONE" /\ p \in panel
  /\ Start(c, [NoCall EXCEPT !.do = "card", !.who = p, !.size = Cardinality(panel)])
  /\ UNCHANGED <<stage, changed>>

SubmitCard(c) ==
  /\ At(c, "card")
  /\ cards' = cards \cup {call[c].who} /\ Goto(c, "count")
  /\ UNCHANGED <<stage, status, panel, lead, overlap, aborted, changed>>

\* Every scorecard of the panel counts, against the panelists that were read.
CountWith(c, n) ==
  /\ At(c, "count")
  /\ IF n >= call[c].size THEN Goto(c, "complete") ELSE Finish(c)
  /\ UNCHANGED <<stage, status, panel, lead, cards, overlap, aborted, changed>>

\* Mutant: the last scorecard is not counted.
CountOthers(c) == CountWith(c, Cardinality(cards \ {call[c].who}))

SubmitCount(c) == CountWith(c, Cardinality(cards))

CompletePanel(c) ==
  /\ At(c, "complete")
  /\ status' = "COMPLETED" /\ Finish(c)
  /\ UNCHANGED <<stage, panel, lead, cards, overlap, aborted, changed>>

CancelCheck(c) ==
  /\ status \in {"SCHEDULED", "CANCELLED"}
  /\ Start(c, [NoCall EXCEPT !.do = "cancel"])
  /\ UNCHANGED <<stage, changed>>

CancelWrite(c) ==
  /\ At(c, "cancel")
  /\ status' = "CANCELLED" /\ changed' = TRUE /\ Finish(c)
  /\ UNCHANGED <<stage, panel, lead, cards, overlap, aborted>>

Abort(c) ==
  /\ "abort" \in Faults /\ call[c] # NoCall
  /\ Finish(c) /\ aborted' = TRUE
  /\ UNCHANGED <<stage, status, panel, lead, cards, overlap, changed>>

\* The application service moves the application on.
StageMoves ==
  /\ stage = "INTERVIEW" /\ stage' = "later"
  /\ UNCHANGED <<status, panel, lead, cards, call, overlap, aborted, changed>>

Next ==
  \/ ScheduleRefused \/ StageMoves
  \/ \E c \in Calls :
       \/ \E todo \in SUBSET Panelists :
            AssignCheck(c, todo) \/ \E who \in Panelists : ScheduleCheck(c, who, todo)
       \/ \E p \in Panelists : AddPanelist(c, p) \/ SubmitCheck(c, p)
       \/ CreatePanel(c) \/ ClearPanel(c) \/ SubmitCard(c) \/ SubmitCount(c) \/ CompletePanel(c)
       \/ CancelCheck(c) \/ CancelWrite(c) \/ Abort(c)

Spec == Init /\ [][Next]_vars

-------------------------------------------------------------------------------
\* A panel belongs to an application that reached INTERVIEW.  Between calls, if
\* the panel was neither changed nor cancelled and no call stopped half-way, even
\* if calls overlapped: the panel is completed when every panelist has submitted;
\* and if none overlapped, only then, and it has one lead.
DoneMeansAllDone ==
  /\ status # "NONE" => stage # "SCREENING"
  /\ ~Busy /\ ~changed /\ ~aborted =>
       /\ panel # {} /\ panel \subseteq cards => status = "COMPLETED"
       /\ ~overlap /\ status # "NONE" => /\ status = "COMPLETED" => panel \subseteq cards
                                         /\ Cardinality(lead) = 1
===============================================================================
