------------------------------- MODULE Sessions --------------------------------
(* One account: how it is created, activated and entered, and how its refresh *)
(* tokens are rotated and revoked: auth.service.ts, token.service.ts,         *)
(* email-verification.service.ts and the account part of users.service.ts.    *)
(*                                                                            *)
(* Refresh tokens, invitations, reset tokens and codes are keys in Redis; a   *)
(* call gets one, and sets or deletes it, or writes the user, after an await. *)
(* Every refresh token has a session of its own, so a session is named by its *)
(* token.  A password is named by the number of the change that chose it.     *)
EXTENDS Naturals, FiniteSets

CONSTANTS
  Tokens,      \* refresh tokens
  Invites,     \* invitation tokens
  Resets,      \* password reset tokens
  Calls,       \* slots for API calls in flight; each is used again and again
  MaxChanges,  \* bound: passwords chosen, and resets and (de)activations
  MaxGuesses,  \* wrong guesses a code takes; 5 in the code
  Faults       \* {"abort"}: an await throws or the process dies

VARIABLES
  user,      \* the User row, and whether its Employee may still log in
  refresh,   \* auth:refresh:*, by token
  invite,    \* the invitation keys that are there
  reset,     \* the reset keys: none, live (usedAt is null) or used
  otp,       \* the code sent by mail: is it there, and its attempts
  call,      \* the calls in flight
  era,       \* history: the era of the account when each token's login began
  now,       \* history: the era, one more after every reset and (de)activation
  chosen,    \* history: the last password somebody chose
  uses,      \* history: how often each token was exchanged, and wrong guesses
  disturbed  \* history: two calls overlapped, or one stopped half-way

keys == <<refresh, invite, reset, otp>>
hist == <<era, now, chosen, uses, disturbed>>
vars == <<user, keys, call, hist>>

None   == "none"
OneUse == Tokens \cup Invites \cup Resets
NoCall == [do |-> "idle", key |-> None, pw |-> 0, flag |-> FALSE, era |-> 0, batch |-> {}]
Steps  == {"idle", "otp", "invite_set", "login", "login_save", "rotate", "issue", "accept",
           "accept_del", "reset", "reset_mark", "set_active", "list_user", "list_session",
           "delete", "guess", "verified"}

TypeOK ==
  /\ user \in [exists : BOOLEAN, active : BOOLEAN, employed : BOOLEAN, pw : Nat, old : BOOLEAN]
  /\ refresh \in [Tokens -> {"none", "live", "gone"}]
  /\ invite \subseteq Invites
  /\ reset \in [Resets -> {"none", "live", "used"}]
  /\ otp \in [live : BOOLEAN, tries : Nat]
  /\ call \in [Calls -> [do : Steps, key : OneUse \cup {None}, pw : Nat, flag : BOOLEAN,
                         era : Nat, batch : SUBSET Tokens]]
  /\ era \in [Tokens -> Nat] /\ now \in Nat /\ chosen \in Nat
  /\ uses \in [OneUse \cup {"guess"} -> Nat] /\ disturbed \in BOOLEAN

Init ==
  /\ user = [exists |-> FALSE, active |-> FALSE, employed |-> TRUE, pw |-> 0, old |-> TRUE]
  /\ refresh = [t \in Tokens |-> "none"] /\ invite = {}
  /\ reset = [p \in Resets |-> "none"] /\ otp = [live |-> FALSE, tries |-> 0]
  /\ call = [c \in Calls |-> NoCall]
  /\ era = [t \in Tokens |-> 0] /\ now = 0 /\ chosen = 0
  /\ uses = [x \in OneUse \cup {"guess"} |-> 0] /\ disturbed = FALSE

Busy == \E c \in Calls : call[c] # NoCall

\* A call starts; one that is refused changes nothing and is left out.
Start(c, next) ==
  /\ call[c] = NoCall
  /\ call' = [call EXCEPT ![c] = next]
  /\ disturbed' = (disturbed \/ Busy)

Goto(c, step) == call' = [call EXCEPT ![c].do = step]
Finish(c)     == call' = [call EXCEPT ![c] = NoCall]
At(c, step)   == call[c].do = step
Key(c)        == call[c].key

-------------------------------------------------------------------------------
(* Getting an account: register, or an invitation                             *)

\* One transaction makes the company, the user and the employee; the code is
\* stored and sent after it.
register(c) ==
  /\ ~user.exists
  /\ user' = [user EXCEPT !.exists = TRUE, !.pw = 1] /\ chosen' = 1
  /\ Start(c, [NoCall EXCEPT !.do = "otp"])
  /\ UNCHANGED <<keys, era, now, uses>>

inviteUser(c, i) ==
  /\ ~user.exists
  /\ user' = [user EXCEPT !.exists = TRUE]
  /\ Start(c, [NoCall EXCEPT !.do = "invite_set", !.key = i])
  /\ UNCHANGED <<keys, era, now, chosen, uses>>

InviteSet(c) ==
  /\ At(c, "invite_set")
  /\ invite' = invite \cup {Key(c)} /\ Finish(c)
  /\ UNCHANGED <<user, refresh, reset, otp, hist>>

\* Another invitation; the earlier ones stay valid.
resendInvite(c, i) ==
  /\ user.exists /\ uses[i] = 0 /\ i \notin invite
  /\ Start(c, [NoCall EXCEPT !.do = "invite_set", !.key = i])
  /\ UNCHANGED <<user, keys, era, now, chosen, uses>>

AcceptCheck(c, i) ==
  /\ i \in invite /\ chosen < MaxChanges
  /\ Start(c, [NoCall EXCEPT !.do = "accept", !.key = i])
  /\ UNCHANGED <<user, keys, era, now, chosen, uses>>

AcceptWrite(c) ==
  /\ At(c, "accept")
  /\ chosen' = chosen + 1
  /\ user' = [user EXCEPT !.pw = chosen', !.active = TRUE, !.old = FALSE]
  /\ Goto(c, "accept_del")
  /\ UNCHANGED <<keys, era, now, uses, disturbed>>

AcceptDelete(c) ==
  /\ At(c, "accept_del")
  /\ invite' = invite \ {Key(c)} /\ uses' = [uses EXCEPT ![Key(c)] = @ + 1]
  /\ call' = [call EXCEPT ![c] = [NoCall EXCEPT !.do = "issue", !.era = now]]
  /\ UNCHANGED <<user, refresh, reset, otp, era, now, chosen, disturbed>>

-------------------------------------------------------------------------------
(* The code that verifies the address                                         *)

\* generateAndSend, from register or from resendVerification.
SendOtp(c) ==
  /\ At(c, "otp")
  /\ otp' = [live |-> TRUE, tries |-> 0] /\ uses' = [uses EXCEPT !["guess"] = 0]
  /\ Finish(c)
  /\ UNCHANGED <<user, refresh, invite, reset, era, now, chosen, disturbed>>

resendVerification(c) ==
  /\ user.exists /\ ~user.active
  /\ Start(c, [NoCall EXCEPT !.do = "otp"])
  /\ UNCHANGED <<user, keys, era, now, chosen, uses>>

\* A guess is compared with the code that was read; flag says whether it is right.
VerifyGet(c, right) ==
  /\ otp.live
  /\ Start(c, [NoCall EXCEPT !.do = "guess", !.pw = otp.tries, !.flag = right])
  /\ UNCHANGED <<user, keys, era, now, chosen, uses>>

\* Mutant: the attempts are not stored.
GuessUncounted(c) ==
  /\ At(c, "guess") /\ ~call[c].flag
  /\ uses' = [uses EXCEPT !["guess"] = @ + 1] /\ uses["guess"] <= MaxGuesses
  /\ Finish(c)
  /\ UNCHANGED <<user, keys, era, now, chosen, disturbed>>

WrongGuess(c) ==
  /\ At(c, "guess") /\ ~call[c].flag
  /\ otp' = IF call[c].pw + 1 >= MaxGuesses THEN [live |-> FALSE, tries |-> 0]
                                   ELSE [live |-> TRUE, tries |-> call[c].pw + 1]
  /\ uses' = [uses EXCEPT !["guess"] = IF @ <= MaxGuesses THEN @ + 1 ELSE @]
  /\ Finish(c)
  /\ UNCHANGED <<user, refresh, invite, reset, era, now, chosen, disturbed>>

RightGuess(c) ==
  /\ At(c, "guess") /\ call[c].flag
  /\ otp' = [live |-> FALSE, tries |-> 0] /\ Goto(c, "verified")
  /\ UNCHANGED <<user, refresh, invite, reset, hist>>

Activate(c) ==
  /\ At(c, "verified")
  /\ user' = [user EXCEPT !.active = TRUE] /\ Finish(c)
  /\ UNCHANGED <<keys, hist>>

-------------------------------------------------------------------------------
(* Entering, and staying in                                                   *)

\* login with the password; flag: the hash has old parameters and is replaced.
login(c) ==
  /\ user.exists /\ user.active /\ user.employed /\ user.pw > 0
  /\ Start(c, [NoCall EXCEPT !.do = "login", !.pw = user.pw, !.flag = user.old, !.era = now])
  /\ UNCHANGED <<user, keys, era, now, chosen, uses>>

loginWithSsoProfile(c) ==
  /\ user.exists /\ user.active /\ user.employed
  /\ Start(c, [NoCall EXCEPT !.do = "login", !.era = now])
  /\ UNCHANGED <<user, keys, era, now, chosen, uses>>

issueRefreshToken(c, t) ==
  /\ call[c].do \in {"login", "issue"}
  /\ refresh[t] = "none"
  /\ refresh' = [refresh EXCEPT ![t] = "live"] /\ era' = [era EXCEPT ![t] = call[c].era]
  /\ IF At(c, "login") THEN Goto(c, "login_save") ELSE Finish(c)
  /\ UNCHANGED <<user, invite, reset, otp, now, chosen, uses, disturbed>>

LoginSave(c) ==
  /\ At(c, "login_save")
  /\ user' = IF call[c].flag THEN [user EXCEPT !.pw = call[c].pw, !.old = FALSE] ELSE user
  /\ Finish(c)
  /\ UNCHANGED <<keys, hist>>

\* refresh: the token is looked up; if it is not there, the session is revoked.
RotateGet(c, t) ==
  /\ refresh[t] # "none"
  /\ Start(c, IF refresh[t] = "live" THEN [NoCall EXCEPT !.do = "rotate", !.key = t]
                                     ELSE [NoCall EXCEPT !.do = "list_session", !.key = t])
  /\ UNCHANGED <<user, keys, era, now, chosen, uses>>

\* The new token is issued for whoever held the old one; nothing is looked up again.
RotateDelete(c) ==
  /\ At(c, "rotate")
  /\ refresh' = [refresh EXCEPT ![Key(c)] = "gone"]
  /\ uses' = [uses EXCEPT ![Key(c)] = @ + 1]
  /\ call' = [call EXCEPT ![c] = [NoCall EXCEPT !.do = "issue", !.era = era[Key(c)]]]
  /\ UNCHANGED <<user, invite, reset, otp, era, now, chosen, disturbed>>

-------------------------------------------------------------------------------
(* Resetting, deactivating, logging out                                       *)

forgotPassword(p) ==
  /\ user.exists /\ reset[p] = "none"
  /\ reset' = [reset EXCEPT ![p] = "live"]
  /\ UNCHANGED <<user, refresh, invite, otp, call, hist>>

ResetCheck(c, p) ==
  /\ reset[p] = "live" /\ now < MaxChanges /\ chosen < MaxChanges
  /\ Start(c, [NoCall EXCEPT !.do = "reset", !.key = p])
  /\ UNCHANGED <<user, keys, era, now, chosen, uses>>

ResetWrite(c) ==
  /\ At(c, "reset")
  /\ chosen' = chosen + 1 /\ now' = now + 1
  /\ user' = [user EXCEPT !.pw = chosen', !.old = FALSE]
  /\ Goto(c, "reset_mark")
  /\ UNCHANGED <<keys, era, uses, disturbed>>

\* Mutant: the sessions are left alone.
MarkAndStop(c) ==
  /\ At(c, "reset_mark")
  /\ reset' = [reset EXCEPT ![Key(c)] = "used"] /\ uses' = [uses EXCEPT ![Key(c)] = @ + 1]
  /\ Finish(c)
  /\ UNCHANGED <<user, refresh, invite, otp, era, now, chosen, disturbed>>

ResetMark(c) ==
  /\ At(c, "reset_mark")
  /\ reset' = [reset EXCEPT ![Key(c)] = "used"] /\ uses' = [uses EXCEPT ![Key(c)] = @ + 1]
  /\ Goto(c, "list_user")
  /\ UNCHANGED <<user, refresh, invite, otp, era, now, chosen, disturbed>>

SetActiveCheck(c, flag) ==
  /\ user.exists /\ now < MaxChanges
  /\ Start(c, [NoCall EXCEPT !.do = "set_active", !.flag = flag])
  /\ UNCHANGED <<user, keys, era, now, chosen, uses>>

SetActiveWrite(c) ==
  /\ At(c, "set_active")
  /\ user' = [user EXCEPT !.active = call[c].flag] /\ now' = now + 1
  /\ Goto(c, "list_user")
  /\ UNCHANGED <<keys, era, chosen, uses, disturbed>>

logout(c, t) ==
  /\ refresh[t] # "none"
  /\ Start(c, [NoCall EXCEPT !.do = "list_session", !.key = t])
  /\ UNCHANGED <<user, keys, era, now, chosen, uses>>

\* revokeUser and revokeSession: the keys are listed, then each one is deleted.
RevokeList(c) ==
  /\ call[c].do \in {"list_user", "list_session"}
  /\ LET live == {t \in Tokens : refresh[t] = "live"}
         mine == IF At(c, "list_user") THEN live ELSE live \cap {Key(c)}
     IN  IF mine = {} THEN Finish(c)
                      ELSE call' = [call EXCEPT ![c] = [NoCall EXCEPT !.do = "delete",
                                                                      !.batch = mine]]
  /\ UNCHANGED <<user, keys, hist>>

RevokeDelete(c, t) ==
  /\ At(c, "delete") /\ t \in call[c].batch
  /\ refresh' = [refresh EXCEPT ![t] = "gone"]
  /\ IF call[c].batch = {t} THEN Finish(c)
                            ELSE call' = [call EXCEPT ![c].batch = @ \ {t}]
  /\ UNCHANGED <<user, invite, reset, otp, hist>>

-------------------------------------------------------------------------------
\* The employee is terminated: no login any more, and no token is revoked.
EmploymentEnds ==
  /\ user.exists /\ user.employed
  /\ user' = [user EXCEPT !.employed = FALSE]
  /\ UNCHANGED <<keys, call, hist>>

\* A key's time to live is over.
Expire ==
  /\ \/ \E t \in Tokens : refresh[t] = "live" /\ refresh' = [refresh EXCEPT ![t] = "gone"]
                          /\ UNCHANGED <<invite, otp>>
     \/ \E i \in invite : invite' = invite \ {i} /\ UNCHANGED <<refresh, otp>>
     \/ otp.live /\ otp' = [live |-> FALSE, tries |-> 0] /\ UNCHANGED <<refresh, invite>>
  /\ UNCHANGED <<user, reset, call, hist>>

Abort(c) ==
  /\ "abort" \in Faults /\ call[c] # NoCall
  /\ Finish(c) /\ disturbed' = TRUE
  /\ UNCHANGED <<user, keys, era, now, chosen, uses>>

Arrive(c) ==
  \/ register(c) \/ resendVerification(c) \/ login(c) \/ loginWithSsoProfile(c)
  \/ \E i \in Invites : inviteUser(c, i) \/ resendInvite(c, i) \/ AcceptCheck(c, i)
  \/ \E p \in Resets : ResetCheck(c, p)
  \/ \E t \in Tokens : RotateGet(c, t) \/ logout(c, t)
  \/ \E flag \in BOOLEAN : VerifyGet(c, flag) \/ SetActiveCheck(c, flag)

Handle(c) ==
  \/ InviteSet(c) \/ AcceptWrite(c) \/ AcceptDelete(c) \/ SendOtp(c)
  \/ WrongGuess(c) \/ RightGuess(c) \/ Activate(c) \/ LoginSave(c) \/ RotateDelete(c)
  \/ ResetWrite(c) \/ ResetMark(c) \/ SetActiveWrite(c) \/ RevokeList(c)
  \/ \E t \in Tokens : issueRefreshToken(c, t) \/ RevokeDelete(c, t)

Next ==
  \/ \E c \in Calls : Arrive(c) \/ Handle(c) \/ Abort(c)
  \/ \E p \in Resets : forgotPassword(p)
  \/ EmploymentEnds \/ Expire

Spec == Init /\ [][Next]_vars

-------------------------------------------------------------------------------
\* Between calls, if none overlapped and none stopped half-way: who holds a
\* refresh token has an active account and logged in after the last reset and the
\* last (de)activation; the password is the one last chosen; no token, invitation
\* or reset was good for two exchanges, and no code for one wrong guess more than
\* it takes.
RevokedStayOut ==
  ~disturbed /\ ~Busy =>
    /\ \A t \in Tokens : refresh[t] = "live" => user.active /\ era[t] = now
    /\ user.pw = chosen
    /\ \A x \in OneUse : uses[x] <= 1
    /\ uses["guess"] <= MaxGuesses
===============================================================================
