----------------------------- MODULE AccessProofs -----------------------------
(* Proofs about the parts of Records that decide who may do what: accounts,    *)
(* roles and signatures.  Each has an inductive invariant in two halves: types *)
(* and what a call knows hold always; as long as nothing overlapped or stopped *)
(* half-way, one call is in flight at a time and what it knows is still so.    *)
EXTENDS Records, WellFoundedInduction, TLAPS

-------------------------------------------------------------------------------
(* Accounts: sessions, invitations, password resets and mailed codes.  First  *)
(* their types.                                                               *)

AccountUserType ==
  [exists : BOOLEAN, active : BOOLEAN, employed : BOOLEAN, pw : Nat, old : BOOLEAN]
AccountCallType ==
  [do : Accounts!Steps, key : Accounts!OneUse \cup {Accounts!None}, pw : Nat,
   flag : BOOLEAN, era : Nat, batch : SUBSET Tokens]

\* The key of a call is of the kind its step is about.
AccountCallOK(k) ==
  /\ k.do \in {"invite_set", "accept", "accept_del"} => k.key \in Invites
  /\ k.do \in {"rotate", "list_session"} => k.key \in Tokens
  /\ k.do \in {"reset", "reset_mark"} => k.key \in Resets

AccountIInv == Accounts!TypeOK /\ \A c \in AccountCalls : AccountCallOK(call[c])

LEMMA AccountTyped == Accounts!TypeOK <=>
  /\ user \in AccountUserType
  /\ refresh \in [Tokens -> {"none", "live", "gone"}]
  /\ invite \subseteq Invites
  /\ reset \in [Resets -> {"none", "live", "used"}]
  /\ otp \in [live : BOOLEAN, tries : Nat]
  /\ call \in [AccountCalls -> AccountCallType]
  /\ era \in [Tokens -> Nat] /\ now \in Nat /\ chosen \in Nat
  /\ uses \in [Accounts!OneUse \cup {"guess"} -> Nat] /\ disturbed \in BOOLEAN
BY DEF Accounts!TypeOK, AccountUserType, AccountCallType

LEMMA AccountNoCallOK ==
  Accounts!NoCall \in AccountCallType /\ AccountCallOK(Accounts!NoCall)
  /\ Accounts!NoCall.do = "idle"
BY DEF Accounts!NoCall, AccountCallType, Accounts!Steps, AccountCallOK, Accounts!None

LEMMA AccountCallStep ==
  ASSUME AccountIInv, NEW c \in AccountCalls, NEW new \in AccountCallType,
         AccountCallOK(new),
         call' = [call EXCEPT ![c] = new]
  PROVE  call' \in [AccountCalls -> AccountCallType]
         /\ \A d \in AccountCalls : AccountCallOK(call'[d])
BY AccountTyped DEF AccountIInv

LEMMA AccountTypeStart ==
  ASSUME AccountIInv, NEW c \in AccountCalls, NEW new \in AccountCallType,
         AccountCallOK(new), Accounts!Start(c, new),
         UNCHANGED <<Accounts!keys, era, now, uses>>, user' \in AccountUserType, chosen' \in Nat
  PROVE  AccountIInv'
<1>1. call' = [call EXCEPT ![c] = new] /\ disturbed' \in BOOLEAN
  BY DEF Accounts!Start, Accounts!Busy, AccountIInv, Accounts!TypeOK
<1>2. call' \in [AccountCalls -> AccountCallType]
      /\ \A d \in AccountCalls : AccountCallOK(call'[d])
  BY <1>1, AccountCallStep
<1>3. Accounts!TypeOK'
  BY <1>1, <1>2, AccountTyped DEF AccountIInv, Accounts!keys, Accounts!TypeOK,
     AccountUserType, AccountCallType
<1> QED
  BY <1>2, <1>3 DEF AccountIInv

\* Where a call goes next.
LEMMA AccountTypeGoto ==
  ASSUME AccountIInv, NEW c \in AccountCalls, NEW step, Accounts!Goto(c, step),
         \/ step \in {"verified", "login_save", "list_user"}
         \/ step = "accept_del" /\ Accounts!At(c, "accept")
         \/ step = "reset_mark" /\ Accounts!At(c, "reset")
  PROVE  call' \in [AccountCalls -> AccountCallType]
         /\ \A d \in AccountCalls : AccountCallOK(call'[d])
<1> DEFINE new == [call[c] EXCEPT !.do = step]
<1>1. call[c] \in AccountCallType /\ AccountCallOK(call[c])
  BY AccountTyped DEF AccountIInv
<1>2. new \in AccountCallType
  BY <1>1 DEF AccountCallType, Accounts!Steps
<1>3. new.do = step /\ new.key = call[c].key
  BY <1>1 DEF AccountCallType
<1>4. call' = [call EXCEPT ![c] = new]
  BY DEF Accounts!Goto
<1> HIDE DEF new
<1>5. AccountCallOK(new)
  BY <1>1, <1>3 DEF AccountCallOK, Accounts!At
<1> QED
  BY <1>2, <1>4, <1>5, AccountCallStep

LEMMA AccountTypeFinish ==
  ASSUME AccountIInv, NEW c \in AccountCalls, Accounts!Finish(c)
  PROVE  call' \in [AccountCalls -> AccountCallType]
         /\ \A d \in AccountCalls : AccountCallOK(call'[d])
BY AccountNoCallOK, AccountCallStep DEF Accounts!Finish

\* Everything but the calls keeps its type.
AccountKeysTyped ==
  /\ user \in AccountUserType
  /\ refresh \in [Tokens -> {"none", "live", "gone"}]
  /\ invite \subseteq Invites
  /\ reset \in [Resets -> {"none", "live", "used"}]
  /\ otp \in [live : BOOLEAN, tries : Nat]
  /\ era \in [Tokens -> Nat] /\ now \in Nat /\ chosen \in Nat
  /\ uses \in [Accounts!OneUse \cup {"guess"} -> Nat] /\ disturbed \in BOOLEAN

LEMMA AccountTypeParts ==
  AccountIInv <=> AccountKeysTyped /\ call \in [AccountCalls -> AccountCallType] /\ \A d \in AccountCalls : AccountCallOK(call[d])
BY AccountTyped DEF AccountIInv, AccountKeysTyped

LEMMA AccountTypeNow ==
  ASSUME AccountKeysTyped', call' \in [AccountCalls -> AccountCallType],
         \A d \in AccountCalls : AccountCallOK(call'[d])
  PROVE  AccountIInv'
BY DEF AccountIInv, Accounts!TypeOK, AccountKeysTyped, AccountUserType, AccountCallType

LEMMA AccountTypeArrive ==
  ASSUME AccountIInv, NEW c \in AccountCalls, Accounts!Arrive(c)
  PROVE  AccountIInv'
<1>1. user \in AccountUserType /\ chosen \in Nat /\ now \in Nat /\ AccountKeysTyped
  BY AccountTypeParts DEF AccountKeysTyped
<1>2. CASE Accounts!register(c)
  <2> DEFINE new == [Accounts!NoCall EXCEPT !.do = "otp"]
  <2>1. new \in AccountCallType /\ AccountCallOK(new)
    BY DEF Accounts!NoCall, AccountCallType, AccountCallOK, Accounts!Steps, Accounts!None
  <2>2. Accounts!Start(c, new) /\ user' \in AccountUserType /\ chosen' \in Nat
        /\ UNCHANGED <<Accounts!keys, era, now, uses>>
    BY <1>1, <1>2 DEF Accounts!register, AccountUserType
  <2> HIDE DEF new
  <2> QED
    BY <2>1, <2>2, AccountTypeStart
<1>3. ASSUME NEW i \in Invites, Accounts!inviteUser(c, i) \/ Accounts!resendInvite(c, i)
      PROVE  AccountIInv'
  <2> DEFINE new == [Accounts!NoCall EXCEPT !.do = "invite_set", !.key = i]
  <2>1. new \in AccountCallType /\ AccountCallOK(new)
    BY DEF Accounts!NoCall, AccountCallType, AccountCallOK, Accounts!Steps, Accounts!None,
       Accounts!OneUse
  <2>2. Accounts!Start(c, new) /\ user' \in AccountUserType /\ chosen' \in Nat
        /\ UNCHANGED <<Accounts!keys, era, now, uses>>
    BY <1>1, <1>3 DEF Accounts!inviteUser, Accounts!resendInvite, AccountUserType
  <2> HIDE DEF new
  <2> QED
    BY <2>1, <2>2, AccountTypeStart
<1>4. ASSUME NEW i \in Invites, Accounts!AcceptCheck(c, i) PROVE AccountIInv'
  <2> DEFINE new == [Accounts!NoCall EXCEPT !.do = "accept", !.key = i]
  <2>1. new \in AccountCallType /\ AccountCallOK(new)
    BY DEF Accounts!NoCall, AccountCallType, AccountCallOK, Accounts!Steps, Accounts!None,
       Accounts!OneUse
  <2>2. Accounts!Start(c, new) /\ user' = user /\ chosen' = chosen
        /\ UNCHANGED <<Accounts!keys, era, now, uses>>
    BY <1>4 DEF Accounts!AcceptCheck
  <2> HIDE DEF new
  <2> QED
    BY <1>1, <2>1, <2>2, AccountTypeStart
<1>5. CASE Accounts!resendVerification(c)
  <2> DEFINE new == [Accounts!NoCall EXCEPT !.do = "otp"]
  <2>1. new \in AccountCallType /\ AccountCallOK(new)
    BY DEF Accounts!NoCall, AccountCallType, AccountCallOK, Accounts!Steps, Accounts!None
  <2>2. Accounts!Start(c, new) /\ user' = user /\ chosen' = chosen
        /\ UNCHANGED <<Accounts!keys, era, now, uses>>
    BY <1>5 DEF Accounts!resendVerification
  <2> HIDE DEF new
  <2> QED
    BY <1>1, <2>1, <2>2, AccountTypeStart
<1>6. CASE Accounts!login(c)
  <2> DEFINE new == [Accounts!NoCall EXCEPT !.do = "login", !.pw = user.pw, !.flag = user.old, !.era = now]
  <2>1. new \in AccountCallType /\ AccountCallOK(new)
    BY <1>1 DEF Accounts!NoCall, AccountCallType, AccountCallOK, Accounts!Steps,
       Accounts!None, AccountUserType
  <2>2. Accounts!Start(c, new) /\ user' = user /\ chosen' = chosen
        /\ UNCHANGED <<Accounts!keys, era, now, uses>>
    BY <1>6 DEF Accounts!login
  <2> HIDE DEF new
  <2> QED
    BY <1>1, <2>1, <2>2, AccountTypeStart
<1>7. CASE Accounts!loginWithSsoProfile(c)
  <2> DEFINE new == [Accounts!NoCall EXCEPT !.do = "login", !.era = now]
  <2>1. new \in AccountCallType /\ AccountCallOK(new)
    BY <1>1 DEF Accounts!NoCall, AccountCallType, AccountCallOK, Accounts!Steps,
       Accounts!None
  <2>2. Accounts!Start(c, new) /\ user' = user /\ chosen' = chosen
        /\ UNCHANGED <<Accounts!keys, era, now, uses>>
    BY <1>7 DEF Accounts!loginWithSsoProfile
  <2> HIDE DEF new
  <2> QED
    BY <1>1, <2>1, <2>2, AccountTypeStart
<1>8. ASSUME NEW p \in Resets, Accounts!ResetCheck(c, p) PROVE AccountIInv'
  <2> DEFINE new == [Accounts!NoCall EXCEPT !.do = "reset", !.key = p]
  <2>1. new \in AccountCallType /\ AccountCallOK(new)
    BY DEF Accounts!NoCall, AccountCallType, AccountCallOK, Accounts!Steps, Accounts!None,
       Accounts!OneUse
  <2>2. Accounts!Start(c, new) /\ user' = user /\ chosen' = chosen
        /\ UNCHANGED <<Accounts!keys, era, now, uses>>
    BY <1>8 DEF Accounts!ResetCheck
  <2> HIDE DEF new
  <2> QED
    BY <1>1, <2>1, <2>2, AccountTypeStart
<1>9. ASSUME NEW t \in Tokens, Accounts!RotateGet(c, t) \/ Accounts!logout(c, t)
      PROVE  AccountIInv'
  <2>1. PICK step \in {"rotate", "list_session"} : Accounts!Start(c, [Accounts!NoCall EXCEPT !.do = step, !.key = t])
    BY <1>9 DEF Accounts!RotateGet, Accounts!logout
  <2> DEFINE new == [Accounts!NoCall EXCEPT !.do = step, !.key = t]
  <2>2. new \in AccountCallType /\ AccountCallOK(new)
    BY DEF Accounts!NoCall, AccountCallType, AccountCallOK, Accounts!Steps, Accounts!None,
       Accounts!OneUse
  <2>3. user' = user /\ chosen' = chosen /\ UNCHANGED <<Accounts!keys, era, now, uses>>
    BY <1>9 DEF Accounts!RotateGet, Accounts!logout
  <2> HIDE DEF new
  <2> QED
    BY <1>1, <2>1, <2>2, <2>3, AccountTypeStart DEF new
<1>10. ASSUME NEW flag \in BOOLEAN, Accounts!VerifyGet(c, flag) PROVE AccountIInv'
  <2> DEFINE new == [Accounts!NoCall EXCEPT !.do = "guess", !.pw = otp.tries, !.flag = flag]
  <2>1. new \in AccountCallType /\ AccountCallOK(new)
    BY <1>1 DEF Accounts!NoCall, AccountCallType, AccountCallOK, Accounts!Steps,
       Accounts!None, AccountKeysTyped
  <2>2. Accounts!Start(c, new) /\ user' = user /\ chosen' = chosen
        /\ UNCHANGED <<Accounts!keys, era, now, uses>>
    BY <1>10 DEF Accounts!VerifyGet
  <2> HIDE DEF new
  <2> QED
    BY <1>1, <2>1, <2>2, AccountTypeStart
<1>11. ASSUME NEW flag \in BOOLEAN, Accounts!SetActiveCheck(c, flag) PROVE AccountIInv'
  <2> DEFINE new == [Accounts!NoCall EXCEPT !.do = "set_active", !.flag = flag]
  <2>1. new \in AccountCallType /\ AccountCallOK(new)
    BY DEF Accounts!NoCall, AccountCallType, AccountCallOK, Accounts!Steps, Accounts!None
  <2>2. Accounts!Start(c, new) /\ user' = user /\ chosen' = chosen
        /\ UNCHANGED <<Accounts!keys, era, now, uses>>
    BY <1>11 DEF Accounts!SetActiveCheck
  <2> HIDE DEF new
  <2> QED
    BY <1>1, <2>1, <2>2, AccountTypeStart
<1> QED
  BY <1>2, <1>3, <1>4, <1>5, <1>6, <1>7, <1>8, <1>9, <1>10, <1>11 DEF Accounts!Arrive

\* The token or session work of a call.
LEMMA AccountTypeTokens ==
  ASSUME AccountIInv, NEW c \in AccountCalls,
         \/ Accounts!RotateDelete(c) \/ Accounts!RevokeList(c)
         \/ \E t \in Tokens : Accounts!issueRefreshToken(c, t) \/ Accounts!RevokeDelete(c, t)
  PROVE  AccountIInv'
<1>1. call[c] \in AccountCallType /\ AccountCallOK(call[c]) /\ AccountKeysTyped
  BY AccountTypeParts
<1>2. CASE Accounts!RotateDelete(c)
  <2> DEFINE new == [Accounts!NoCall EXCEPT !.do = "issue", !.era = era[Accounts!Key(c)]]
  <2>1. Accounts!Key(c) \in Tokens
    BY <1>1, <1>2 DEF Accounts!RotateDelete, Accounts!At, Accounts!Key, AccountCallOK
  <2>2. new \in AccountCallType /\ AccountCallOK(new)
    BY <1>1, <2>1 DEF Accounts!NoCall, AccountCallType, AccountCallOK, Accounts!Steps,
       Accounts!None, AccountKeysTyped
  <2>3. call' = [call EXCEPT ![c] = new]
    BY <1>2 DEF Accounts!RotateDelete
  <2>4. AccountKeysTyped'
    BY <1>1, <1>2, <2>1 DEF Accounts!RotateDelete, AccountKeysTyped, Accounts!OneUse
  <2> HIDE DEF new
  <2> QED
    BY <2>2, <2>3, <2>4, AccountCallStep, AccountTypeNow
<1>3. CASE Accounts!RevokeList(c)
  <2>1. PICK mine \in SUBSET Tokens :
          Accounts!Finish(c) \/ call' = [call EXCEPT ![c] = [Accounts!NoCall EXCEPT !.do = "delete", !.batch = mine]]
    BY <1>3 DEF Accounts!RevokeList
  <2> DEFINE new == [Accounts!NoCall EXCEPT !.do = "delete", !.batch = mine]
  <2>2. new \in AccountCallType /\ AccountCallOK(new)
    BY DEF Accounts!NoCall, AccountCallType, AccountCallOK, Accounts!Steps, Accounts!None
  <2>3. AccountKeysTyped'
    BY <1>1, <1>3 DEF Accounts!RevokeList, AccountKeysTyped, Accounts!keys, Accounts!hist
  <2> HIDE DEF new
  <2> QED
    BY <2>1, <2>2, <2>3, AccountCallStep, AccountTypeFinish, AccountTypeNow DEF new
<1>4. ASSUME NEW t \in Tokens, Accounts!issueRefreshToken(c, t) PROVE AccountIInv'
  <2>1. call[c].era \in Nat
    BY <1>1 DEF AccountCallType
  <2>2. AccountKeysTyped'
    BY <1>1, <1>4, <2>1 DEF Accounts!issueRefreshToken, AccountKeysTyped
  <2>3. Accounts!Goto(c, "login_save") \/ Accounts!Finish(c)
    BY <1>4 DEF Accounts!issueRefreshToken
  <2>4. call' \in [AccountCalls -> AccountCallType]
        /\ \A d \in AccountCalls : AccountCallOK(call'[d])
    BY <2>3, AccountTypeFinish, AccountTypeGoto
  <2> QED
    BY <2>2, <2>4, AccountTypeNow
<1>5. ASSUME NEW t \in Tokens, Accounts!RevokeDelete(c, t) PROVE AccountIInv'
  <2> DEFINE new == [call[c] EXCEPT !.batch = @ \ {t}]
  <2>1. new \in AccountCallType /\ AccountCallOK(new)
    BY <1>1 DEF AccountCallType, AccountCallOK
  <2>2. AccountKeysTyped'
    BY <1>1, <1>5 DEF Accounts!RevokeDelete, AccountKeysTyped, Accounts!hist
  <2>3. Accounts!Finish(c) \/ call' = [call EXCEPT ![c] = new]
    BY <1>5 DEF Accounts!RevokeDelete
  <2> HIDE DEF new
  <2> QED
    BY <2>1, <2>2, <2>3, AccountCallStep, AccountTypeFinish, AccountTypeNow
<1> QED
  BY <1>2, <1>3, <1>4, <1>5

\* The account work of a call.
LEMMA AccountTypeAccount ==
  ASSUME AccountIInv, NEW c \in AccountCalls,
         \/ Accounts!InviteSet(c) \/ Accounts!AcceptWrite(c) \/ Accounts!AcceptDelete(c) \/ Accounts!SendOtp(c)
         \/ Accounts!WrongGuess(c) \/ Accounts!RightGuess(c) \/ Accounts!Activate(c) \/ Accounts!LoginSave(c)
         \/ Accounts!ResetWrite(c) \/ Accounts!ResetMark(c) \/ Accounts!SetActiveWrite(c) \/ Accounts!Abort(c)
  PROVE  AccountIInv'
<1>1. call[c] \in AccountCallType /\ AccountCallOK(call[c]) /\ AccountKeysTyped
  BY AccountTypeParts
<1>2. call[c].pw \in Nat /\ call[c].flag \in BOOLEAN
  BY <1>1 DEF AccountCallType
<1>3. CASE Accounts!InviteSet(c)
  <2>1. AccountKeysTyped'
    BY <1>1, <1>3 DEF Accounts!InviteSet, AccountKeysTyped, Accounts!hist, Accounts!At,
       AccountCallOK, Accounts!Key
  <2> QED
    BY <1>3, <2>1, AccountTypeFinish, AccountTypeNow DEF Accounts!InviteSet
<1>4. CASE Accounts!AcceptWrite(c)
  <2>1. AccountKeysTyped'
    <3>1. chosen' \in Nat /\ now' \in Nat
      BY <1>1, <1>4 DEF Accounts!AcceptWrite, AccountKeysTyped
    <3>2. user' \in AccountUserType
      BY <1>1, <1>4, <3>1 DEF Accounts!AcceptWrite, AccountKeysTyped, AccountUserType
    <3> QED
      BY <1>1, <1>4, <3>1, <3>2 DEF Accounts!AcceptWrite, AccountKeysTyped, Accounts!keys
  <2>2. Accounts!At(c, "accept") /\ Accounts!Goto(c, "accept_del")
    BY <1>4 DEF Accounts!AcceptWrite
  <2> QED
    BY <2>1, <2>2, AccountTypeGoto, AccountTypeNow
<1>5. CASE Accounts!AcceptDelete(c)
  <2> DEFINE new == [Accounts!NoCall EXCEPT !.do = "issue", !.era = now]
  <2>1. Accounts!Key(c) \in Accounts!OneUse
    BY <1>1, <1>5 DEF Accounts!AcceptDelete, Accounts!At, AccountCallOK, Accounts!Key,
       Accounts!OneUse
  <2>2. AccountKeysTyped'
    BY <1>1, <1>5, <2>1 DEF Accounts!AcceptDelete, AccountKeysTyped
  <2>3. new \in AccountCallType /\ AccountCallOK(new)
    BY <1>1 DEF Accounts!NoCall, AccountCallType, AccountCallOK, Accounts!Steps,
       Accounts!None, AccountKeysTyped
  <2>4. call' = [call EXCEPT ![c] = new]
    BY <1>5 DEF Accounts!AcceptDelete
  <2> HIDE DEF new
  <2> QED
    BY <2>2, <2>3, <2>4, AccountCallStep, AccountTypeNow
<1>6. CASE Accounts!SendOtp(c)
  <2>1. AccountKeysTyped'
    BY <1>1, <1>6 DEF Accounts!SendOtp, AccountKeysTyped
  <2> QED
    BY <1>6, <2>1, AccountTypeFinish, AccountTypeNow DEF Accounts!SendOtp
<1>7. CASE Accounts!WrongGuess(c)
  <2>1. otp' \in [live : BOOLEAN, tries : Nat]
    BY <1>2, <1>7 DEF Accounts!WrongGuess
  <2>2. uses' \in [Accounts!OneUse \cup {"guess"} -> Nat]
    BY <1>1, <1>7 DEF Accounts!WrongGuess, AccountKeysTyped
  <2>3. AccountKeysTyped'
    BY <1>1, <1>7, <2>1, <2>2 DEF Accounts!WrongGuess, AccountKeysTyped
  <2> QED
    BY <1>7, <2>3, AccountTypeFinish, AccountTypeNow DEF Accounts!WrongGuess
<1>8. CASE Accounts!RightGuess(c)
  <2>1. AccountKeysTyped'
    BY <1>1, <1>8 DEF Accounts!RightGuess, AccountKeysTyped, Accounts!hist
  <2>2. Accounts!Goto(c, "verified")
    BY <1>8 DEF Accounts!RightGuess
  <2> QED
    BY <2>1, <2>2, AccountTypeGoto, AccountTypeNow
<1>9. CASE Accounts!Activate(c)
  <2>1. AccountKeysTyped'
    BY <1>1, <1>9 DEF Accounts!Activate, AccountKeysTyped, Accounts!hist, Accounts!keys,
       AccountUserType
  <2> QED
    BY <1>9, <2>1, AccountTypeFinish, AccountTypeNow DEF Accounts!Activate
<1>10. CASE Accounts!LoginSave(c)
  <2>1. AccountKeysTyped'
    BY <1>1, <1>2, <1>10 DEF Accounts!LoginSave, AccountKeysTyped, Accounts!hist,
       Accounts!keys, AccountUserType
  <2> QED
    BY <1>10, <2>1, AccountTypeFinish, AccountTypeNow DEF Accounts!LoginSave
<1>11. CASE Accounts!ResetWrite(c)
  <2>1. AccountKeysTyped'
    <3>1. chosen' \in Nat /\ now' \in Nat
      BY <1>1, <1>11 DEF Accounts!ResetWrite, AccountKeysTyped
    <3>2. user' \in AccountUserType
      BY <1>1, <1>11, <3>1 DEF Accounts!ResetWrite, AccountKeysTyped, AccountUserType
    <3> QED
      BY <1>1, <1>11, <3>1, <3>2 DEF Accounts!ResetWrite, AccountKeysTyped, Accounts!keys
  <2>2. Accounts!At(c, "reset") /\ Accounts!Goto(c, "reset_mark")
    BY <1>11 DEF Accounts!ResetWrite
  <2> QED
    BY <2>1, <2>2, AccountTypeGoto, AccountTypeNow
<1>12. CASE Accounts!ResetMark(c)
  <2>1. Accounts!Key(c) \in Resets
    BY <1>1, <1>12 DEF Accounts!ResetMark, Accounts!At, AccountCallOK, Accounts!Key
  <2>2. AccountKeysTyped'
    BY <1>1, <1>12, <2>1 DEF Accounts!ResetMark, AccountKeysTyped, Accounts!OneUse
  <2>3. Accounts!Goto(c, "list_user")
    BY <1>12 DEF Accounts!ResetMark
  <2> QED
    BY <2>2, <2>3, AccountTypeGoto, AccountTypeNow
<1>13. CASE Accounts!SetActiveWrite(c)
  <2>1. AccountKeysTyped'
    BY <1>1, <1>2, <1>13 DEF Accounts!SetActiveWrite, AccountKeysTyped, Accounts!keys,
       AccountUserType
  <2>2. Accounts!Goto(c, "list_user")
    BY <1>13 DEF Accounts!SetActiveWrite
  <2> QED
    BY <2>1, <2>2, AccountTypeGoto, AccountTypeNow
<1>14. CASE Accounts!Abort(c)
  <2>1. AccountKeysTyped'
    BY <1>1, <1>14 DEF Accounts!Abort, AccountKeysTyped, Accounts!keys
  <2> QED
    BY <1>14, <2>1, AccountTypeFinish, AccountTypeNow DEF Accounts!Abort
<1> QED
  BY <1>3, <1>4, <1>5, <1>6, <1>7, <1>8, <1>9, <1>10, <1>11, <1>12, <1>13, <1>14

LEMMA AccountTypeWorld ==
  ASSUME AccountIInv,
         (\E p \in Resets : Accounts!forgotPassword(p)) \/ Accounts!EmploymentEnds \/ Accounts!Expire
  PROVE  AccountIInv'
<1>1. AccountKeysTyped /\ call' = call
  BY AccountTypeParts DEF Accounts!forgotPassword, Accounts!EmploymentEnds,
     Accounts!Expire, Accounts!keys
<1>2. CASE \E p \in Resets : Accounts!forgotPassword(p)
  BY <1>1, <1>2, AccountTypeParts, AccountTypeNow DEF Accounts!forgotPassword,
     AccountKeysTyped, Accounts!hist
<1>3. CASE Accounts!EmploymentEnds
  BY <1>1, <1>3, AccountTypeParts, AccountTypeNow DEF Accounts!EmploymentEnds,
     AccountKeysTyped, Accounts!keys, Accounts!hist, AccountUserType
<1>4. CASE Accounts!Expire
  <2>1. AccountKeysTyped'
    <3>1. refresh' \in [Tokens -> {"none", "live", "gone"}]
      BY <1>1, <1>4 DEF Accounts!Expire, AccountKeysTyped
    <3>2. invite' = invite \/ \E i \in invite : invite' = invite \ {i}
      BY <1>4 DEF Accounts!Expire
    <3>3. otp' = otp \/ otp' = [live |-> FALSE, tries |-> 0]
      BY <1>4 DEF Accounts!Expire
    <3>4. invite' \subseteq Invites
      BY <1>1, <3>2 DEF AccountKeysTyped
    <3>5. [live |-> FALSE, tries |-> 0] \in [live : BOOLEAN, tries : Nat]
      OBVIOUS
    <3>6. otp' \in [live : BOOLEAN, tries : Nat]
      BY <1>1, <3>3, <3>5 DEF AccountKeysTyped
    <3> QED
      BY <1>1, <1>4, <3>1, <3>4, <3>6 DEF Accounts!Expire, AccountKeysTyped, Accounts!hist
  <2> QED
    BY <1>1, <2>1, AccountTypeParts, AccountTypeNow
<1> QED
  BY <1>2, <1>3, <1>4

LEMMA AccountTypeInit == Accounts!Init => AccountIInv
<1> SUFFICES ASSUME Accounts!Init PROVE AccountIInv
  OBVIOUS
<1>1. AccountKeysTyped
  BY DEF Accounts!Init, AccountKeysTyped, AccountUserType
<1>2. call \in [AccountCalls -> AccountCallType]
      /\ \A d \in AccountCalls : AccountCallOK(call[d])
  BY AccountNoCallOK DEF Accounts!Init
<1> QED
  BY <1>1, <1>2, AccountTypeParts

LEMMA AccountTypeNext == AccountIInv /\ [Accounts!Next]_(Accounts!vars) => AccountIInv'
<1> SUFFICES ASSUME AccountIInv, [Accounts!Next]_(Accounts!vars) PROVE AccountIInv'
  OBVIOUS
<1>1. ASSUME NEW c \in AccountCalls,
             Accounts!Arrive(c) \/ Accounts!Handle(c) \/ Accounts!Abort(c)
      PROVE  AccountIInv'
  BY <1>1, AccountTypeArrive, AccountTypeTokens, AccountTypeAccount DEF Accounts!Handle
<1>2. CASE UNCHANGED Accounts!vars
  <2>1. AccountKeysTyped' /\ call' = call
    BY <1>2, AccountTypeParts DEF Accounts!vars, Accounts!keys, Accounts!hist,
       AccountKeysTyped
  <2> QED
    BY <2>1, AccountTypeParts, AccountTypeNow
<1> QED
  BY <1>1, <1>2, AccountTypeWorld DEF Accounts!Next

-------------------------------------------------------------------------------
(* Accounts: calls that do not overlap and run to their end                   *)

\* The token is about to be deleted.
AccountDoomed(k, t) ==
  \/ k.do \in {"reset_mark", "list_user"}
  \/ k.do = "delete" /\ t \in k.batch

AccountAlone ==
  \A c, d \in AccountCalls : call[c] # Accounts!NoCall /\ call[d] # Accounts!NoCall => c = d

\* Whoever holds the token may log in, and did after the last change of the account.
AccountEntitled(t) == user.active /\ era[t] = now

AccountTokensEntitled ==
  \A t \in Tokens : refresh[t] = "live" => AccountEntitled(t) \/ \E c \in AccountCalls : AccountDoomed(call[c], t)

\* A key that is there has not been exchanged.
AccountKeysFresh ==
  /\ \A t \in Tokens : refresh[t] # "gone" => uses[t] = 0
  /\ \A i \in invite : uses[i] = 0
  /\ \A p \in Resets : reset[p] # "used" => uses[p] = 0
  /\ \A x \in Accounts!OneUse : uses[x] <= 1

\* No invitation was sent before there was an account.
AccountNobodyYet == ~user.exists => invite = {} /\ \A i \in Invites : uses[i] = 0

AccountGuessesCounted ==
  /\ uses["guess"] <= MaxGuesses
  /\ otp.live => uses["guess"] = otp.tries /\ otp.tries < MaxGuesses

AccountQuiet ==
  user.pw = chosen /\ AccountKeysFresh /\ AccountNobodyYet /\ AccountGuessesCounted

\* What a call has read is still so.
AccountInformed(k) ==
  /\ k.do \in {"login", "issue"} => user.active /\ k.era = now
  /\ k.do = "rotate" => user.active /\ era[k.key] = now
  /\ k.do \in {"login", "login_save"} /\ k.flag => k.pw = user.pw
  /\ k.do \in {"rotate", "invite_set", "accept", "accept_del", "reset", "reset_mark"} => uses[k.key] = 0
  /\ k.do \in {"invite_set", "accept", "accept_del"} => user.exists
  /\ k.do = "accept_del" => user.active
  /\ k.do = "guess" => uses["guess"] = k.pw /\ k.pw < MaxGuesses

AccountUndisturbed ==
  /\ AccountAlone
  /\ AccountTokensEntitled
  /\ AccountQuiet
  /\ \A c \in AccountCalls : AccountInformed(call[c])

AccountSerialInv == AccountIInv /\ (~disturbed => AccountUndisturbed)

\* Keys of different kinds are different, and a code takes at least one guess.
AccountApart ==
  /\ Tokens \cap Invites = {} /\ Tokens \cap Resets = {} /\ Invites \cap Resets = {}
  /\ "guess" \notin Accounts!OneUse
  /\ MaxGuesses \in Nat \ {0}

LEMMA AccountSerialStep ==
  ASSUME AccountIInv, AccountUndisturbed, NEW c \in AccountCalls, NEW new,
         call' = [call EXCEPT ![c] = new],
         \A d \in AccountCalls : d # c => call[d] = Accounts!NoCall,
         \A t \in Tokens : refresh'[t] = "live" => AccountEntitled(t)' \/ AccountDoomed(new, t),
         AccountQuiet', AccountInformed(new)'
  PROVE  AccountUndisturbed'
<1>1. call'[c] = new /\ \A d \in AccountCalls : d # c => call'[d] = Accounts!NoCall
  BY AccountTypeParts
<1>2. AccountAlone'
  BY <1>1 DEF AccountAlone
<1>3. AccountTokensEntitled'
  BY <1>1 DEF AccountTokensEntitled
<1>4. ASSUME NEW d \in AccountCalls PROVE AccountInformed(call[d])'
  <2>1. CASE d = c
    BY <1>1, <2>1 DEF AccountInformed
  <2>2. CASE d # c
    BY <1>1, <2>2, AccountNoCallOK DEF AccountInformed
  <2> QED
    BY <2>1, <2>2
<1> QED
  BY <1>2, <1>3, <1>4 DEF AccountUndisturbed

LEMMA AccountOnlyOne ==
  ASSUME AccountIInv, AccountUndisturbed, NEW c \in AccountCalls, call[c].do # "idle"
  PROVE  /\ \A d \in AccountCalls : d # c => call[d] = Accounts!NoCall
         /\ \A t \in Tokens : refresh[t] = "live" => AccountEntitled(t) \/ AccountDoomed(call[c], t)
         /\ AccountInformed(call[c]) /\ AccountCallOK(call[c]) /\ call[c] \in AccountCallType
<1>1. \A d \in AccountCalls : d # c => call[d] = Accounts!NoCall
  BY AccountNoCallOK DEF AccountUndisturbed, AccountAlone
<1>2. \A t \in Tokens : ~AccountDoomed(Accounts!NoCall, t)
  BY DEF AccountDoomed, Accounts!NoCall
<1> QED
  BY <1>1, <1>2, AccountTypeParts DEF AccountUndisturbed, AccountTokensEntitled

LEMMA AccountAtRest ==
  ASSUME AccountUndisturbed, ~Accounts!Busy
  PROVE  \A t \in Tokens : refresh[t] = "live" => AccountEntitled(t)
<1>1. \A t \in Tokens : ~AccountDoomed(Accounts!NoCall, t)
  BY DEF AccountDoomed, Accounts!NoCall
<1> QED
  BY <1>1 DEF AccountUndisturbed, AccountTokensEntitled, Accounts!Busy

\* The call ends.
LEMMA AccountSerialFinish ==
  ASSUME AccountIInv, AccountUndisturbed, NEW c \in AccountCalls, call[c].do # "idle",
         Accounts!Finish(c),
         \A t \in Tokens : refresh'[t] = "live" => AccountEntitled(t)', AccountQuiet'
  PROVE  AccountUndisturbed'
<1>1. PICK new : new = Accounts!NoCall
  OBVIOUS
<1>2. AccountInformed(new)'
  BY <1>1, AccountNoCallOK DEF AccountInformed
<1> QED
  BY <1>1, <1>2, AccountOnlyOne, AccountSerialStep DEF Accounts!Finish

\* A call begins alone.
LEMMA AccountSerialStart ==
  ASSUME AccountIInv, AccountUndisturbed, NEW c \in AccountCalls, NEW new,
         Accounts!Start(c, new), ~disturbed',
         UNCHANGED <<Accounts!keys, era, now, uses>>, user'.active = user.active,
         user'.pw = chosen', AccountNobodyYet', AccountInformed(new)'
  PROVE  AccountUndisturbed'
<1>1. /\ ~Accounts!Busy /\ call' = [call EXCEPT ![c] = new]
      /\ refresh' = refresh /\ invite' = invite /\ reset' = reset /\ otp' = otp
      /\ era' = era /\ now' = now /\ uses' = uses
  BY DEF Accounts!Start, Accounts!keys
<1>2. \A t \in Tokens : refresh'[t] = "live" => AccountEntitled(t)'
  BY <1>1, AccountAtRest DEF AccountEntitled
<1>3. AccountKeysFresh' /\ AccountGuessesCounted'
  BY <1>1 DEF AccountUndisturbed, AccountQuiet, AccountKeysFresh, AccountGuessesCounted
<1>4. AccountQuiet'
  BY <1>3 DEF AccountQuiet
<1> QED
  BY <1>1, <1>2, <1>4, AccountSerialStep DEF Accounts!Busy

LEMMA AccountSerialArrive ==
  ASSUME AccountIInv, AccountUndisturbed, NEW c \in AccountCalls, Accounts!Arrive(c),
         ~disturbed'
  PROVE  AccountUndisturbed'
<1>1. AccountKeysTyped /\ AccountQuiet /\ user.pw = chosen /\ AccountNobodyYet
      /\ AccountKeysFresh
  BY AccountTypeParts DEF AccountUndisturbed, AccountQuiet
<1>2. ASSUME NEW new, Accounts!Start(c, new)
      PROVE  \A t \in Tokens : refresh[t] = "live" => AccountEntitled(t)
  BY <1>2, AccountAtRest DEF Accounts!Start
<1>3. CASE Accounts!register(c)
  <2>1. PICK new : new = [Accounts!NoCall EXCEPT !.do = "otp"]
    OBVIOUS
  <2>2. new.do = "otp"
    BY <2>1 DEF Accounts!NoCall
  <2>3. AccountInformed(new)'
    BY <2>2 DEF AccountInformed
  <2>4. Accounts!Start(c, new) /\ user' = [user EXCEPT !.exists = TRUE, !.pw = 1] /\ chosen' = 1
        /\ UNCHANGED <<Accounts!keys, era, now, uses>>
    BY <1>3, <2>1 DEF Accounts!register
  <2>5. user'.active = user.active /\ user'.pw = 1 /\ user'.exists
    BY <1>1, <2>4 DEF AccountKeysTyped, AccountUserType
  <2>6. AccountNobodyYet'
    BY <2>5 DEF AccountNobodyYet
  <2> QED
    BY <2>3, <2>4, <2>5, <2>6, AccountSerialStart
<1>4. ASSUME NEW i \in Invites, Accounts!inviteUser(c, i) \/ Accounts!resendInvite(c, i)
      PROVE  AccountUndisturbed'
  <2>1. PICK new : new = [Accounts!NoCall EXCEPT !.do = "invite_set", !.key = i]
    OBVIOUS
  <2>2. new.do = "invite_set" /\ new.key = i
    BY <2>1 DEF Accounts!NoCall
  <2>3. Accounts!Start(c, new) /\ UNCHANGED <<Accounts!keys, era, now, uses, chosen>>
    BY <1>4, <2>1 DEF Accounts!inviteUser, Accounts!resendInvite
  <2>4. user'.active = user.active /\ user'.pw = user.pw /\ user'.exists
    BY <1>1, <1>4 DEF Accounts!inviteUser, Accounts!resendInvite, AccountKeysTyped,
       AccountUserType
  <2>5. uses[i] = 0
    BY <1>1, <1>4 DEF Accounts!inviteUser, Accounts!resendInvite, AccountNobodyYet
  <2>6. AccountInformed(new)'
    BY <2>2, <2>3, <2>4, <2>5 DEF AccountInformed
  <2>7. AccountNobodyYet' /\ user'.pw = chosen'
    BY <1>1, <2>3, <2>4 DEF AccountNobodyYet
  <2> QED
    BY <2>3, <2>4, <2>6, <2>7, AccountSerialStart
<1>5. ASSUME user' = user, UNCHANGED <<Accounts!keys, era, now, chosen, uses>>
      PROVE  user'.active = user.active /\ user'.pw = chosen' /\ AccountNobodyYet'
  BY <1>1, <1>5 DEF AccountNobodyYet, Accounts!keys
<1>6. ASSUME NEW i \in Invites, Accounts!AcceptCheck(c, i) PROVE AccountUndisturbed'
  <2>1. PICK new : new = [Accounts!NoCall EXCEPT !.do = "accept", !.key = i]
    OBVIOUS
  <2>2. new.do = "accept" /\ new.key = i
    BY <2>1 DEF Accounts!NoCall
  <2>3. Accounts!Start(c, new) /\ user' = user
        /\ UNCHANGED <<Accounts!keys, era, now, chosen, uses>> /\ i \in invite
    BY <1>6, <2>1 DEF Accounts!AcceptCheck
  <2>4. uses'[i] = 0 /\ user'.exists
    BY <1>1, <2>3 DEF AccountKeysFresh, AccountNobodyYet, AccountKeysTyped, AccountUserType
  <2>5. AccountInformed(new)'
    BY <2>2, <2>4 DEF AccountInformed
  <2> QED
    BY <1>5, <2>3, <2>5, AccountSerialStart
<1>7. CASE Accounts!resendVerification(c)
  <2>1. PICK new : new = [Accounts!NoCall EXCEPT !.do = "otp"]
    OBVIOUS
  <2>2. new.do = "otp"
    BY <2>1 DEF Accounts!NoCall
  <2>3. AccountInformed(new)'
    BY <2>2 DEF AccountInformed
  <2>4. Accounts!Start(c, new) /\ user' = user
        /\ UNCHANGED <<Accounts!keys, era, now, chosen, uses>>
    BY <1>7, <2>1 DEF Accounts!resendVerification
  <2> QED
    BY <1>5, <2>3, <2>4, AccountSerialStart
<1>8. CASE Accounts!login(c)
  <2>1. PICK new : new = [Accounts!NoCall EXCEPT !.do = "login", !.pw = user.pw, !.flag = user.old, !.era = now]
    OBVIOUS
  <2>2. new.do = "login" /\ new.pw = user.pw /\ new.era = now
    BY <2>1 DEF Accounts!NoCall
  <2>3. Accounts!Start(c, new) /\ user' = user /\ user.active
        /\ UNCHANGED <<Accounts!keys, era, now, chosen, uses>>
    BY <1>8, <2>1 DEF Accounts!login
  <2>4. AccountInformed(new)'
    BY <2>2, <2>3 DEF AccountInformed
  <2> QED
    BY <1>5, <2>3, <2>4, AccountSerialStart
<1>9. CASE Accounts!loginWithSsoProfile(c)
  <2>1. PICK new : new = [Accounts!NoCall EXCEPT !.do = "login", !.era = now]
    OBVIOUS
  <2>2. new.do = "login" /\ new.flag = FALSE /\ new.era = now
    BY <2>1 DEF Accounts!NoCall
  <2>3. Accounts!Start(c, new) /\ user' = user /\ user.active
        /\ UNCHANGED <<Accounts!keys, era, now, chosen, uses>>
    BY <1>9, <2>1 DEF Accounts!loginWithSsoProfile
  <2>4. AccountInformed(new)'
    BY <2>2, <2>3 DEF AccountInformed
  <2> QED
    BY <1>5, <2>3, <2>4, AccountSerialStart
<1>10. ASSUME NEW p \in Resets, Accounts!ResetCheck(c, p) PROVE AccountUndisturbed'
  <2>1. PICK new : new = [Accounts!NoCall EXCEPT !.do = "reset", !.key = p]
    OBVIOUS
  <2>2. new.do = "reset" /\ new.key = p
    BY <2>1 DEF Accounts!NoCall
  <2>3. Accounts!Start(c, new) /\ user' = user
        /\ UNCHANGED <<Accounts!keys, era, now, chosen, uses>> /\ reset[p] = "live"
    BY <1>10, <2>1 DEF Accounts!ResetCheck
  <2>4. uses'[p] = 0
    BY <1>1, <2>3 DEF AccountKeysFresh
  <2>5. AccountInformed(new)'
    BY <2>2, <2>4 DEF AccountInformed
  <2> QED
    BY <1>5, <2>3, <2>5, AccountSerialStart
<1>11. ASSUME NEW t \in Tokens, Accounts!RotateGet(c, t), refresh[t] = "live"
       PROVE  AccountUndisturbed'
  <2>1. PICK new : new = [Accounts!NoCall EXCEPT !.do = "rotate", !.key = t]
    OBVIOUS
  <2>2. new.do = "rotate" /\ new.key = t
    BY <2>1 DEF Accounts!NoCall
  <2>3. Accounts!Start(c, new) /\ user' = user
        /\ UNCHANGED <<Accounts!keys, era, now, chosen, uses>>
    BY <1>11, <2>1 DEF Accounts!RotateGet
  <2>4. uses'[t] = 0 /\ AccountEntitled(t)
    BY <1>1, <1>2, <1>11, <2>3 DEF AccountKeysFresh
  <2>5. AccountInformed(new)'
    BY <2>2, <2>3, <2>4 DEF AccountInformed, AccountEntitled
  <2> QED
    BY <1>5, <2>3, <2>5, AccountSerialStart
<1>12. ASSUME NEW t \in Tokens,
              Accounts!logout(c, t) \/ (Accounts!RotateGet(c, t) /\ refresh[t] # "live")
       PROVE  AccountUndisturbed'
  <2>1. PICK new : new = [Accounts!NoCall EXCEPT !.do = "list_session", !.key = t]
    OBVIOUS
  <2>2. new.do = "list_session"
    BY <2>1 DEF Accounts!NoCall
  <2>3. Accounts!Start(c, new) /\ user' = user
        /\ UNCHANGED <<Accounts!keys, era, now, chosen, uses>>
    BY <1>12, <2>1 DEF Accounts!RotateGet, Accounts!logout
  <2>4. AccountInformed(new)'
    BY <2>2 DEF AccountInformed
  <2> QED
    BY <1>5, <2>3, <2>4, AccountSerialStart
<1>13. ASSUME NEW flag \in BOOLEAN, Accounts!VerifyGet(c, flag) PROVE AccountUndisturbed'
  <2>1. PICK new : new = [Accounts!NoCall EXCEPT !.do = "guess", !.pw = otp.tries, !.flag = flag]
    OBVIOUS
  <2>2. new.do = "guess" /\ new.pw = otp.tries
    BY <2>1 DEF Accounts!NoCall
  <2>3. Accounts!Start(c, new) /\ user' = user
        /\ UNCHANGED <<Accounts!keys, era, now, chosen, uses>> /\ otp.live
    BY <1>13, <2>1 DEF Accounts!VerifyGet
  <2>4. uses'["guess"] = otp.tries /\ otp.tries < MaxGuesses
    BY <1>1, <2>3 DEF AccountQuiet, AccountGuessesCounted
  <2>5. AccountInformed(new)'
    BY <2>2, <2>4 DEF AccountInformed
  <2> QED
    BY <1>5, <2>3, <2>5, AccountSerialStart
<1>14. ASSUME NEW flag \in BOOLEAN, Accounts!SetActiveCheck(c, flag) PROVE AccountUndisturbed'
  <2>1. PICK new : new = [Accounts!NoCall EXCEPT !.do = "set_active", !.flag = flag]
    OBVIOUS
  <2>2. new.do = "set_active"
    BY <2>1 DEF Accounts!NoCall
  <2>3. Accounts!Start(c, new) /\ user' = user
        /\ UNCHANGED <<Accounts!keys, era, now, chosen, uses>>
    BY <1>14, <2>1 DEF Accounts!SetActiveCheck
  <2>4. AccountInformed(new)'
    BY <2>2 DEF AccountInformed
  <2> QED
    BY <1>5, <2>3, <2>4, AccountSerialStart
<1>15. ASSUME NEW t \in Tokens, Accounts!RotateGet(c, t) \/ Accounts!logout(c, t)
       PROVE  AccountUndisturbed'
  <2>1. CASE Accounts!RotateGet(c, t) /\ refresh[t] = "live"
    BY <1>11, <2>1
  <2>2. CASE Accounts!logout(c, t) \/ (Accounts!RotateGet(c, t) /\ refresh[t] # "live")
    BY <1>12, <2>2
  <2> QED
    BY <1>15, <2>1, <2>2
<1>16. ASSUME NEW i \in Invites,
              Accounts!inviteUser(c, i) \/ Accounts!resendInvite(c, i) \/ Accounts!AcceptCheck(c, i)
       PROVE  AccountUndisturbed'
  BY <1>4, <1>6, <1>16
<1>17. ASSUME NEW flag \in BOOLEAN,
              Accounts!VerifyGet(c, flag) \/ Accounts!SetActiveCheck(c, flag)
       PROVE  AccountUndisturbed'
  BY <1>13, <1>14, <1>17
<1> QED
  BY <1>3, <1>7, <1>8, <1>9, <1>10, <1>15, <1>16, <1>17 DEF Accounts!Arrive

\* The token and session work of the only call.
LEMMA AccountSerialTokens ==
  ASSUME AccountApart, AccountIInv, AccountUndisturbed, NEW c \in AccountCalls,
         \/ Accounts!RotateDelete(c) \/ Accounts!RevokeList(c)
         \/ \E t \in Tokens : Accounts!issueRefreshToken(c, t) \/ Accounts!RevokeDelete(c, t)
  PROVE  AccountUndisturbed'
<1>1. call[c].do # "idle"
  BY DEF Accounts!RotateDelete, Accounts!RevokeList, Accounts!issueRefreshToken,
     Accounts!RevokeDelete, Accounts!At
<1>2. /\ \A d \in AccountCalls : d # c => call[d] = Accounts!NoCall
      /\ \A t \in Tokens : refresh[t] = "live" => AccountEntitled(t) \/ AccountDoomed(call[c], t)
      /\ AccountInformed(call[c]) /\ AccountCallOK(call[c]) /\ call[c] \in AccountCallType
  BY <1>1, AccountOnlyOne
<1>3. AccountKeysTyped /\ user.pw = chosen /\ AccountKeysFresh /\ AccountNobodyYet
      /\ AccountGuessesCounted
  BY AccountTypeParts DEF AccountUndisturbed, AccountQuiet
<1>4. CASE Accounts!RotateDelete(c)
  <2> DEFINE t == Accounts!Key(c)
  <2>1. t \in Tokens /\ user.active /\ era[t] = now /\ uses[t] = 0
    BY <1>2, <1>4 DEF Accounts!RotateDelete, Accounts!At, Accounts!Key, AccountCallOK,
       AccountInformed
  <2>2. /\ refresh' = [refresh EXCEPT ![t] = "gone"] /\ uses' = [uses EXCEPT ![t] = 0 + 1]
        /\ user' = user /\ invite' = invite /\ reset' = reset /\ otp' = otp
        /\ era' = era /\ now' = now /\ chosen' = chosen
    BY <1>4, <2>1 DEF Accounts!RotateDelete
  <2>3. t \in Accounts!OneUse /\ t # "guess" /\ t \notin Invites /\ t \notin Resets
    BY <2>1 DEF AccountApart, Accounts!OneUse
  <2> HIDE DEF t
  <2>4. /\ refresh'[t] = "gone" /\ \A x \in Tokens \ {t} : refresh'[x] = refresh[x]
        /\ uses'[t] = 1 /\ \A x \in (Accounts!OneUse \cup {"guess"}) \ {t} : uses'[x] = uses[x]
    BY <1>3, <2>1, <2>2, <2>3 DEF AccountKeysTyped
  <2>5. AccountKeysFresh'
    BY <1>3, <2>2, <2>3, <2>4 DEF AccountKeysFresh, Accounts!OneUse, AccountKeysTyped
  <2>6. AccountNobodyYet' /\ AccountGuessesCounted'
    BY <1>3, <2>2, <2>3, <2>4 DEF AccountNobodyYet, AccountGuessesCounted, Accounts!OneUse
  <2>7. \A x \in Tokens : refresh'[x] = "live" => AccountEntitled(x)'
    BY <1>2, <1>4, <2>2, <2>4 DEF AccountEntitled, AccountDoomed, Accounts!RotateDelete,
       Accounts!At
  <2>8. PICK new : new = [Accounts!NoCall EXCEPT !.do = "issue", !.era = era[Accounts!Key(c)]]
    OBVIOUS
  <2>9. new.do = "issue" /\ new.era = now
    BY <2>1, <2>8 DEF Accounts!NoCall, t
  <2>10. AccountInformed(new)'
    BY <2>1, <2>2, <2>9 DEF AccountInformed
  <2>11. call' = [call EXCEPT ![c] = new]
    BY <1>4, <2>8 DEF Accounts!RotateDelete
  <2>12. AccountQuiet'
    BY <1>3, <2>2, <2>5, <2>6 DEF AccountQuiet
  <2> QED
    BY <1>2, <2>7, <2>10, <2>11, <2>12, AccountSerialStep
<1>5. CASE Accounts!RevokeList(c)
  <2> DEFINE good == {t \in Tokens : refresh[t] = "live"}
             mine == IF Accounts!At(c, "list_user") THEN good ELSE good \cap {Accounts!Key(c)}
  <2>1. UNCHANGED <<user, refresh, invite, reset, otp, era, now, chosen, uses>>
    BY <1>5 DEF Accounts!RevokeList, Accounts!keys, Accounts!hist
  <2>2. AccountQuiet'
    BY <1>3, <2>1 DEF AccountQuiet, AccountKeysFresh, AccountNobodyYet,
       AccountGuessesCounted
  <2>3. \A t \in Tokens : refresh'[t] = "live" => AccountEntitled(t)' \/ t \in mine
    BY <1>2, <1>5, <2>1 DEF AccountEntitled, AccountDoomed, Accounts!RevokeList, Accounts!At
  <2>4. CASE mine = {}
    <3>1. Accounts!Finish(c) /\ \A t \in Tokens : refresh'[t] = "live" => AccountEntitled(t)'
      BY <1>5, <2>3, <2>4 DEF Accounts!RevokeList
    <3> QED
      BY <1>1, <2>2, <3>1, AccountSerialFinish
  <2>5. CASE mine # {}
    <3>1. PICK new : new = [Accounts!NoCall EXCEPT !.do = "delete", !.batch = mine]
      OBVIOUS
    <3>2. new.do = "delete" /\ new.batch = mine
      BY <3>1 DEF Accounts!NoCall
    <3>3. call' = [call EXCEPT ![c] = new]
      BY <1>5, <2>5, <3>1 DEF Accounts!RevokeList
    <3> HIDE DEF mine
    <3>4. AccountInformed(new)' /\ \A t \in Tokens : t \in mine => AccountDoomed(new, t)
      BY <3>2 DEF AccountInformed, AccountDoomed
    <3> QED
      BY <1>2, <2>2, <2>3, <3>3, <3>4, AccountSerialStep
  <2> QED
    BY <2>4, <2>5
<1>6. ASSUME NEW t \in Tokens, Accounts!issueRefreshToken(c, t) PROVE AccountUndisturbed'
  <2>1. call[c].do \in {"login", "issue"} /\ refresh[t] = "none"
    BY <1>6 DEF Accounts!issueRefreshToken
  <2>2. user.active /\ call[c].era = now
    BY <1>2, <2>1 DEF AccountInformed
  <2>3. /\ refresh' = [refresh EXCEPT ![t] = "live"] /\ era' = [era EXCEPT ![t] = now]
        /\ UNCHANGED <<user, invite, reset, otp, now, chosen, uses>>
    BY <1>6, <2>2 DEF Accounts!issueRefreshToken
  <2>4. \A x \in Tokens : refresh'[x] = "live" => AccountEntitled(x)'
    <3>1. \A x \in Tokens : ~AccountDoomed(call[c], x)
      BY <2>1 DEF AccountDoomed
    <3>2. era'[t] = now /\ \A x \in Tokens \ {t} : era'[x] = era[x] /\ refresh'[x] = refresh[x]
      BY <1>3, <2>3 DEF AccountKeysTyped
    <3> QED
      BY <1>2, <2>2, <2>3, <3>1, <3>2 DEF AccountEntitled
  <2>5. AccountKeysFresh'
    BY <1>3, <2>1, <2>3 DEF AccountKeysFresh, AccountKeysTyped
  <2>6. AccountQuiet'
    BY <1>3, <2>3, <2>5 DEF AccountQuiet, AccountNobodyYet, AccountGuessesCounted
  <2>7. CASE Accounts!Finish(c)
    BY <1>1, <2>4, <2>6, <2>7, AccountSerialFinish
  <2>8. CASE Accounts!At(c, "login") /\ Accounts!Goto(c, "login_save")
    <3>1. PICK new : new = [call[c] EXCEPT !.do = "login_save"]
      OBVIOUS
    <3>2. new.do = "login_save" /\ new.flag = call[c].flag /\ new.pw = call[c].pw
      BY <1>2, <3>1 DEF AccountCallType
    <3>3. call[c].flag => call[c].pw = user.pw
      BY <1>2, <2>8 DEF AccountInformed, Accounts!At
    <3>4. AccountInformed(new)'
      BY <2>3, <3>2, <3>3 DEF AccountInformed
    <3>5. call' = [call EXCEPT ![c] = new]
      BY <2>8, <3>1 DEF Accounts!Goto
    <3> QED
      BY <1>2, <2>4, <2>6, <3>4, <3>5, AccountSerialStep
  <2> QED
    BY <1>6, <2>7, <2>8 DEF Accounts!issueRefreshToken
<1>7. ASSUME NEW t \in Tokens, Accounts!RevokeDelete(c, t) PROVE AccountUndisturbed'
  <2>1. /\ refresh' = [refresh EXCEPT ![t] = "gone"] /\ call[c].do = "delete" /\ t \in call[c].batch
        /\ UNCHANGED <<user, invite, reset, otp, era, now, chosen, uses>>
    BY <1>7 DEF Accounts!RevokeDelete, Accounts!hist, Accounts!At
  <2>2. refresh'[t] = "gone" /\ \A x \in Tokens \ {t} : refresh'[x] = refresh[x]
    BY <1>3, <2>1 DEF AccountKeysTyped
  <2>3. AccountKeysFresh'
    BY <1>3, <2>1, <2>2 DEF AccountKeysFresh
  <2>4. AccountQuiet'
    BY <1>3, <2>1, <2>3 DEF AccountQuiet, AccountNobodyYet, AccountGuessesCounted
  <2>5. \A x \in Tokens : refresh'[x] = "live" => AccountEntitled(x)'
        \/ x \in call[c].batch \ {t}
    BY <1>2, <2>1, <2>2 DEF AccountEntitled, AccountDoomed
  <2>6. CASE call[c].batch = {t}
    <3>1. Accounts!Finish(c) /\ \A x \in Tokens : refresh'[x] = "live" => AccountEntitled(x)'
      BY <1>7, <2>5, <2>6 DEF Accounts!RevokeDelete
    <3> QED
      BY <1>1, <2>4, <3>1, AccountSerialFinish
  <2>7. CASE call[c].batch # {t}
    <3>1. PICK new : new = [call[c] EXCEPT !.batch = @ \ {t}]
      OBVIOUS
    <3>2. new.do = "delete" /\ new.batch = call[c].batch \ {t}
      BY <1>2, <2>1, <3>1 DEF AccountCallType
    <3>3. call' = [call EXCEPT ![c] = new]
      BY <1>7, <2>7, <3>1 DEF Accounts!RevokeDelete
    <3>4. AccountInformed(new)' /\ \A x \in Tokens : x \in call[c].batch \ {t}
          => AccountDoomed(new, x)
      BY <3>2 DEF AccountInformed, AccountDoomed
    <3> QED
      BY <1>2, <2>4, <2>5, <3>3, <3>4, AccountSerialStep
  <2> QED
    BY <2>6, <2>7
<1> QED
  BY <1>4, <1>5, <1>6, <1>7

\* The account work of the only call.
LEMMA AccountSerialAccount ==
  ASSUME AccountApart, AccountIInv, AccountUndisturbed, NEW c \in AccountCalls,
         \/ Accounts!InviteSet(c) \/ Accounts!AcceptWrite(c) \/ Accounts!AcceptDelete(c)
         \/ Accounts!Activate(c) \/ Accounts!LoginSave(c) \/ Accounts!ResetWrite(c) \/ Accounts!ResetMark(c) \/ Accounts!SetActiveWrite(c)
  PROVE  AccountUndisturbed'
<1>1. call[c].do # "idle"
  BY DEF Accounts!InviteSet, Accounts!AcceptWrite, Accounts!AcceptDelete,
     Accounts!Activate, Accounts!LoginSave, Accounts!ResetWrite, Accounts!ResetMark,
     Accounts!SetActiveWrite, Accounts!At
<1>2. /\ \A d \in AccountCalls : d # c => call[d] = Accounts!NoCall
      /\ \A t \in Tokens : refresh[t] = "live" => AccountEntitled(t) \/ AccountDoomed(call[c], t)
      /\ AccountInformed(call[c]) /\ AccountCallOK(call[c]) /\ call[c] \in AccountCallType
  BY <1>1, AccountOnlyOne
<1>3. AccountKeysTyped /\ user.pw = chosen /\ AccountKeysFresh /\ AccountNobodyYet
      /\ AccountGuessesCounted
  BY AccountTypeParts DEF AccountUndisturbed, AccountQuiet
<1>4. call[c].do \notin {"reset_mark", "list_user", "delete"}
      => \A t \in Tokens : ~AccountDoomed(call[c], t)
  BY DEF AccountDoomed
<1>5. CASE Accounts!InviteSet(c)
  <2>1. Accounts!Key(c) \in Invites /\ uses[Accounts!Key(c)] = 0 /\ user.exists
    BY <1>2, <1>5 DEF Accounts!InviteSet, Accounts!At, Accounts!Key, AccountCallOK,
       AccountInformed
  <2>2. invite' = invite \cup {Accounts!Key(c)} /\ Accounts!Finish(c)
        /\ UNCHANGED <<user, refresh, reset, otp, era, now, chosen, uses>>
    BY <1>5 DEF Accounts!InviteSet, Accounts!hist
  <2>3. AccountKeysFresh' /\ AccountNobodyYet' /\ AccountGuessesCounted'
    BY <1>3, <2>1, <2>2 DEF AccountKeysFresh, AccountNobodyYet, AccountGuessesCounted
  <2>4. \A t \in Tokens : refresh'[t] = "live" => AccountEntitled(t)'
    BY <1>2, <1>4, <1>5, <2>2 DEF Accounts!InviteSet, Accounts!At, AccountEntitled
  <2> QED
    BY <1>1, <1>3, <2>2, <2>3, <2>4, AccountSerialFinish DEF AccountQuiet
<1>6. CASE Accounts!AcceptWrite(c)
  <2>1. call[c].do = "accept" /\ uses[Accounts!Key(c)] = 0 /\ user.exists
    BY <1>2, <1>6 DEF Accounts!AcceptWrite, Accounts!At, Accounts!Key, AccountInformed
  <2>2. user' = [user EXCEPT !.pw = chosen', !.active = TRUE, !.old = FALSE]
        /\ UNCHANGED <<refresh, invite, reset, otp, era, now, uses>>
    BY <1>6 DEF Accounts!AcceptWrite, Accounts!keys
  <2>3. user'.pw = chosen' /\ user'.active /\ user'.exists
    BY <1>3, <2>1, <2>2 DEF AccountKeysTyped, AccountUserType
  <2>4. AccountQuiet'
    BY <1>3, <2>2, <2>3 DEF AccountQuiet, AccountKeysFresh, AccountNobodyYet,
       AccountGuessesCounted
  <2>5. PICK new : new = [call[c] EXCEPT !.do = "accept_del"]
    OBVIOUS
  <2>6. new.do = "accept_del" /\ new.key = Accounts!Key(c)
    BY <1>2, <2>5 DEF AccountCallType, Accounts!Key
  <2>7. call' = [call EXCEPT ![c] = new]
    BY <1>6, <2>5 DEF Accounts!AcceptWrite, Accounts!Goto
  <2>8. AccountInformed(new)'
    BY <2>1, <2>2, <2>3, <2>6 DEF AccountInformed
  <2>9. \A t \in Tokens : refresh'[t] = "live" => AccountEntitled(t)'
    BY <1>2, <1>4, <2>1, <2>2, <2>3 DEF AccountEntitled
  <2> QED
    BY <1>2, <2>4, <2>7, <2>8, <2>9, AccountSerialStep
<1>7. CASE Accounts!AcceptDelete(c)
  <2> DEFINE i == Accounts!Key(c)
  <2>1. call[c].do = "accept_del" /\ i \in Invites /\ uses[i] = 0 /\ user.exists /\ user.active
    BY <1>2, <1>7 DEF Accounts!AcceptDelete, Accounts!At, Accounts!Key, AccountCallOK,
       AccountInformed
  <2>2. /\ invite' = invite \ {i} /\ uses' = [uses EXCEPT ![i] = 0 + 1]
        /\ UNCHANGED <<user, refresh, reset, otp, era, now, chosen>>
    BY <1>7, <2>1 DEF Accounts!AcceptDelete
  <2>3. PICK new : new = [Accounts!NoCall EXCEPT !.do = "issue", !.era = now]
    OBVIOUS
  <2>4. call' = [call EXCEPT ![c] = new] /\ new.do = "issue" /\ new.era = now
    BY <1>7, <2>3 DEF Accounts!AcceptDelete, Accounts!NoCall
  <2>5. i \in Accounts!OneUse /\ i # "guess" /\ i \notin Tokens /\ i \notin Resets
    BY <2>1 DEF AccountApart, Accounts!OneUse
  <2> HIDE DEF i
  <2>6. uses'[i] = 1 /\ \A x \in (Accounts!OneUse \cup {"guess"}) \ {i} : uses'[x] = uses[x]
    BY <1>3, <2>2, <2>5 DEF AccountKeysTyped
  <2>7. AccountKeysFresh'
    BY <1>3, <2>2, <2>5, <2>6 DEF AccountKeysFresh, Accounts!OneUse, AccountKeysTyped
  <2>8. AccountNobodyYet' /\ AccountGuessesCounted' /\ user'.pw = chosen'
    BY <1>3, <2>1, <2>2, <2>5, <2>6 DEF AccountNobodyYet, AccountGuessesCounted
  <2>9. AccountInformed(new)' /\ \A t \in Tokens : refresh'[t] = "live" => AccountEntitled(t)'
    BY <1>2, <1>4, <2>1, <2>2, <2>4 DEF AccountInformed, AccountEntitled
  <2> QED
    BY <1>2, <2>4, <2>7, <2>8, <2>9, AccountSerialStep DEF AccountQuiet
<1>8. CASE Accounts!Activate(c)
  <2>1. user' = [user EXCEPT !.active = TRUE] /\ Accounts!Finish(c)
        /\ UNCHANGED <<refresh, invite, reset, otp, era, now, chosen, uses>>
    BY <1>8 DEF Accounts!Activate, Accounts!keys, Accounts!hist
  <2>2. user'.active /\ user'.pw = user.pw /\ user'.exists = user.exists
    BY <1>3, <2>1 DEF AccountKeysTyped, AccountUserType
  <2>3. AccountQuiet'
    BY <1>3, <2>1, <2>2 DEF AccountQuiet, AccountKeysFresh, AccountNobodyYet,
       AccountGuessesCounted
  <2>4. \A t \in Tokens : refresh'[t] = "live" => AccountEntitled(t)'
    BY <1>2, <1>4, <1>8, <2>1, <2>2 DEF Accounts!Activate, Accounts!At, AccountEntitled
  <2> QED
    BY <1>1, <2>1, <2>3, <2>4, AccountSerialFinish
<1>9. CASE Accounts!LoginSave(c)
  <2>1. call[c].do = "login_save" /\ (call[c].flag => call[c].pw = user.pw)
    BY <1>2, <1>9 DEF Accounts!LoginSave, Accounts!At, AccountInformed
  <2>2. /\ user' = IF call[c].flag THEN [user EXCEPT !.pw = call[c].pw, !.old = FALSE] ELSE user
        /\ Accounts!Finish(c) /\ UNCHANGED <<refresh, invite, reset, otp, era, now, chosen, uses>>
    BY <1>9 DEF Accounts!LoginSave, Accounts!keys, Accounts!hist
  <2>3. user'.active = user.active /\ user'.pw = user.pw /\ user'.exists = user.exists
    BY <1>3, <2>1, <2>2 DEF AccountKeysTyped, AccountUserType
  <2>4. AccountQuiet'
    BY <1>3, <2>2, <2>3 DEF AccountQuiet, AccountKeysFresh, AccountNobodyYet,
       AccountGuessesCounted
  <2>5. \A t \in Tokens : refresh'[t] = "live" => AccountEntitled(t)'
    BY <1>2, <1>4, <2>1, <2>2, <2>3 DEF AccountEntitled
  <2> QED
    BY <1>1, <2>2, <2>4, <2>5, AccountSerialFinish
<1>10. CASE Accounts!ResetWrite(c)
  <2>1. call[c].do = "reset" /\ uses[Accounts!Key(c)] = 0
    BY <1>2, <1>10 DEF Accounts!ResetWrite, Accounts!At, Accounts!Key, AccountInformed
  <2>2. user' = [user EXCEPT !.pw = chosen', !.old = FALSE]
        /\ UNCHANGED <<refresh, invite, reset, otp, era, uses>>
    BY <1>10 DEF Accounts!ResetWrite, Accounts!keys
  <2>3. user'.pw = chosen' /\ user'.exists = user.exists
    BY <1>3, <2>2 DEF AccountKeysTyped, AccountUserType
  <2>4. AccountQuiet'
    BY <1>3, <2>2, <2>3 DEF AccountQuiet, AccountKeysFresh, AccountNobodyYet,
       AccountGuessesCounted
  <2>5. PICK new : new = [call[c] EXCEPT !.do = "reset_mark"]
    OBVIOUS
  <2>6. new.do = "reset_mark" /\ new.key = Accounts!Key(c)
    BY <1>2, <2>5 DEF AccountCallType, Accounts!Key
  <2>7. call' = [call EXCEPT ![c] = new]
    BY <1>10, <2>5 DEF Accounts!ResetWrite, Accounts!Goto
  <2>8. AccountInformed(new)' /\ \A t \in Tokens : AccountDoomed(new, t)
    BY <2>1, <2>2, <2>6 DEF AccountInformed, AccountDoomed
  <2> QED
    BY <1>2, <2>4, <2>7, <2>8, AccountSerialStep
<1>11. CASE Accounts!ResetMark(c)
  <2> DEFINE p == Accounts!Key(c)
  <2>1. call[c].do = "reset_mark" /\ p \in Resets /\ uses[p] = 0
    BY <1>2, <1>11 DEF Accounts!ResetMark, Accounts!At, Accounts!Key, AccountCallOK,
       AccountInformed
  <2>2. /\ reset' = [reset EXCEPT ![p] = "used"] /\ uses' = [uses EXCEPT ![p] = 0 + 1]
        /\ UNCHANGED <<user, refresh, invite, otp, era, now, chosen>>
    BY <1>11, <2>1 DEF Accounts!ResetMark
  <2>3. PICK new : new = [call[c] EXCEPT !.do = "list_user"]
    OBVIOUS
  <2>4. call' = [call EXCEPT ![c] = new]
    BY <1>11, <2>3 DEF Accounts!ResetMark, Accounts!Goto
  <2>5. new.do = "list_user"
    BY <1>2, <2>3 DEF AccountCallType
  <2>6. p \in Accounts!OneUse /\ p # "guess" /\ p \notin Tokens /\ p \notin Invites
    BY <2>1 DEF AccountApart, Accounts!OneUse
  <2> HIDE DEF p
  <2>7. /\ uses'[p] = 1 /\ \A x \in (Accounts!OneUse \cup {"guess"}) \ {p} : uses'[x] = uses[x]
        /\ reset'[p] = "used" /\ \A x \in Resets \ {p} : reset'[x] = reset[x]
    BY <1>3, <2>1, <2>2, <2>6 DEF AccountKeysTyped
  <2>8. AccountKeysFresh'
    BY <1>3, <2>2, <2>6, <2>7 DEF AccountKeysFresh, Accounts!OneUse, AccountKeysTyped
  <2>9. AccountNobodyYet' /\ AccountGuessesCounted' /\ user'.pw = chosen'
    BY <1>3, <2>2, <2>6, <2>7 DEF AccountNobodyYet, AccountGuessesCounted, Accounts!OneUse
  <2>10. AccountInformed(new)' /\ \A t \in Tokens : AccountDoomed(new, t)
    BY <2>5 DEF AccountInformed, AccountDoomed
  <2> QED
    BY <1>2, <2>4, <2>8, <2>9, <2>10, AccountSerialStep DEF AccountQuiet
<1>12. CASE Accounts!SetActiveWrite(c)
  <2>1. user' = [user EXCEPT !.active = call[c].flag]
        /\ UNCHANGED <<refresh, invite, reset, otp, era, chosen, uses>>
    BY <1>12 DEF Accounts!SetActiveWrite, Accounts!keys
  <2>2. user'.pw = user.pw /\ user'.exists = user.exists
    BY <1>3, <2>1 DEF AccountKeysTyped, AccountUserType
  <2>3. AccountQuiet'
    BY <1>3, <2>1, <2>2 DEF AccountQuiet, AccountKeysFresh, AccountNobodyYet,
       AccountGuessesCounted
  <2>4. PICK new : new = [call[c] EXCEPT !.do = "list_user"]
    OBVIOUS
  <2>5. call' = [call EXCEPT ![c] = new]
    BY <1>12, <2>4 DEF Accounts!SetActiveWrite, Accounts!Goto
  <2>6. new.do = "list_user"
    BY <1>2, <2>4 DEF AccountCallType
  <2>7. AccountInformed(new)' /\ \A t \in Tokens : AccountDoomed(new, t)
    BY <2>6 DEF AccountInformed, AccountDoomed
  <2> QED
    BY <1>2, <2>3, <2>5, <2>7, AccountSerialStep
<1> QED
  BY <1>5, <1>6, <1>7, <1>8, <1>9, <1>10, <1>11, <1>12

\* The code: a right guess ends it, a wrong one counts, the last one ends it too.
LEMMA AccountSerialGuesses ==
  ASSUME AccountApart, AccountIInv, AccountUndisturbed, NEW c \in AccountCalls,
         Accounts!SendOtp(c) \/ Accounts!WrongGuess(c) \/ Accounts!RightGuess(c)
  PROVE  AccountUndisturbed'
<1>1. call[c].do # "idle"
  BY DEF Accounts!SendOtp, Accounts!WrongGuess, Accounts!RightGuess, Accounts!At
<1>2. /\ \A d \in AccountCalls : d # c => call[d] = Accounts!NoCall
      /\ \A t \in Tokens : refresh[t] = "live" => AccountEntitled(t) \/ AccountDoomed(call[c], t)
      /\ AccountInformed(call[c]) /\ call[c] \in AccountCallType
  BY <1>1, AccountOnlyOne
<1>3. AccountKeysTyped /\ user.pw = chosen /\ AccountKeysFresh /\ AccountNobodyYet
      /\ AccountGuessesCounted
  BY AccountTypeParts DEF AccountUndisturbed, AccountQuiet
<1>4. /\ UNCHANGED <<user, refresh, invite, reset, era, now, chosen>>
      /\ \E n : uses' = [uses EXCEPT !["guess"] = n]
  <2>1. uses = [uses EXCEPT !["guess"] = uses["guess"]]
    BY <1>3 DEF AccountKeysTyped
  <2> QED
    BY <2>1 DEF Accounts!SendOtp, Accounts!WrongGuess, Accounts!RightGuess, Accounts!hist
<1>5. "guess" \notin Accounts!OneUse /\ MaxGuesses \in Nat \ {0}
  BY DEF AccountApart
<1>6. \A x \in Accounts!OneUse : uses'[x] = uses[x]
  BY <1>3, <1>4, <1>5 DEF AccountKeysTyped
<1>7. AccountKeysFresh' /\ AccountNobodyYet' /\ user'.pw = chosen'
  BY <1>3, <1>4, <1>6 DEF AccountKeysFresh, AccountNobodyYet, Accounts!OneUse,
     AccountKeysTyped
<1>8. \A t \in Tokens : refresh'[t] = "live" => AccountEntitled(t)'
  BY <1>2, <1>4 DEF AccountEntitled, AccountDoomed, Accounts!SendOtp, Accounts!WrongGuess,
     Accounts!RightGuess, Accounts!At
<1>9. CASE Accounts!SendOtp(c)
  <2>1. otp' = [live |-> TRUE, tries |-> 0] /\ uses'["guess"] = 0 /\ Accounts!Finish(c)
    BY <1>3, <1>9 DEF Accounts!SendOtp, AccountKeysTyped
  <2>2. AccountGuessesCounted'
    BY <1>5, <2>1 DEF AccountGuessesCounted
  <2> QED
    BY <1>1, <1>7, <1>8, <2>1, <2>2, AccountSerialFinish DEF AccountQuiet
<1>10. CASE Accounts!WrongGuess(c)
  <2>1. PICK n \in Nat : n = call[c].pw
    BY <1>2 DEF AccountCallType
  <2>2. uses["guess"] = n /\ n < MaxGuesses
    BY <1>2, <1>10, <2>1 DEF AccountInformed, Accounts!WrongGuess, Accounts!At
  <2>3. /\ otp' = IF n + 1 >= MaxGuesses THEN [live |-> FALSE, tries |-> 0]
                                        ELSE [live |-> TRUE, tries |-> n + 1]
        /\ uses' = [uses EXCEPT !["guess"] = IF @ <= MaxGuesses THEN @ + 1 ELSE @] /\ Accounts!Finish(c)
    BY <1>10, <2>1 DEF Accounts!WrongGuess
  <2>4. uses'["guess"] = n + 1
    BY <1>3, <1>5, <2>2, <2>3 DEF AccountKeysTyped
  <2>5. AccountGuessesCounted'
    BY <1>5, <2>1, <2>2, <2>3, <2>4 DEF AccountGuessesCounted
  <2> QED
    BY <1>1, <1>7, <1>8, <2>3, <2>5, AccountSerialFinish DEF AccountQuiet
<1>11. CASE Accounts!RightGuess(c)
  <2>1. PICK new : new = [call[c] EXCEPT !.do = "verified"]
    OBVIOUS
  <2>2. call' = [call EXCEPT ![c] = new] /\ otp' = [live |-> FALSE, tries |-> 0] /\ uses' = uses
    BY <1>11, <2>1 DEF Accounts!RightGuess, Accounts!Goto, Accounts!hist
  <2>3. new.do = "verified"
    BY <1>2, <2>1 DEF AccountCallType
  <2>4. AccountInformed(new)' /\ AccountGuessesCounted'
    BY <1>3, <2>2, <2>3 DEF AccountInformed, AccountGuessesCounted
  <2> QED
    BY <1>2, <1>7, <1>8, <2>2, <2>4, AccountSerialStep DEF AccountQuiet
<1> QED
  BY <1>9, <1>10, <1>11

\* Keys expire, the employee leaves, a reset is asked for: whatever a call is doing.
LEMMA AccountSerialWorld ==
  ASSUME AccountIInv, AccountUndisturbed,
         (\E p \in Resets : Accounts!forgotPassword(p)) \/ Accounts!EmploymentEnds \/ Accounts!Expire
  PROVE  AccountUndisturbed'
<1>1. AccountKeysTyped /\ user.pw = chosen /\ AccountKeysFresh /\ AccountNobodyYet
      /\ AccountGuessesCounted
  BY AccountTypeParts DEF AccountUndisturbed, AccountQuiet
<1>2. /\ call' = call /\ era' = era /\ now' = now /\ chosen' = chosen /\ uses' = uses
      /\ user'.pw = user.pw /\ user'.active = user.active /\ user'.exists = user.exists
  BY <1>1 DEF Accounts!forgotPassword, Accounts!EmploymentEnds, Accounts!Expire,
     Accounts!hist, Accounts!keys, AccountKeysTyped, AccountUserType
<1>3. \A t \in Tokens : refresh'[t] \in {refresh[t], "gone"}
  BY <1>1 DEF Accounts!forgotPassword, Accounts!EmploymentEnds, Accounts!Expire,
     Accounts!keys, AccountKeysTyped
<1>4. invite' \subseteq invite
  BY DEF Accounts!forgotPassword, Accounts!EmploymentEnds, Accounts!Expire, Accounts!keys
<1>5. \A p \in Resets : reset'[p] = reset[p] \/ reset[p] = "none"
  BY <1>1 DEF Accounts!forgotPassword, Accounts!EmploymentEnds, Accounts!Expire,
     Accounts!keys, AccountKeysTyped
<1>6. otp' = otp \/ ~otp'.live
  BY DEF Accounts!forgotPassword, Accounts!EmploymentEnds, Accounts!Expire, Accounts!keys
<1>7. AccountTokensEntitled'
  BY <1>2, <1>3 DEF AccountUndisturbed, AccountTokensEntitled, AccountEntitled
<1>8. AccountKeysFresh'
  BY <1>1, <1>2, <1>3, <1>4, <1>5 DEF AccountKeysFresh
<1>9. AccountNobodyYet' /\ AccountGuessesCounted'
  BY <1>1, <1>2, <1>4, <1>6 DEF AccountNobodyYet, AccountGuessesCounted
<1>10. ASSUME NEW d \in AccountCalls PROVE AccountInformed(call[d])'
  BY <1>2 DEF AccountUndisturbed, AccountInformed
<1> QED
  BY <1>1, <1>2, <1>7, <1>8, <1>9, <1>10 DEF AccountUndisturbed, AccountAlone, AccountQuiet

LEMMA AccountSerialNext ==
  AccountApart /\ AccountSerialInv /\ [Accounts!Next]_(Accounts!vars) => AccountSerialInv'
<1> SUFFICES ASSUME AccountApart, AccountSerialInv, [Accounts!Next]_(Accounts!vars)
             PROVE  AccountSerialInv'
  OBVIOUS
<1>1. AccountIInv /\ AccountIInv'
  BY AccountTypeNext DEF AccountSerialInv
<1> SUFFICES ASSUME ~disturbed' PROVE AccountUndisturbed'
  BY <1>1 DEF AccountSerialInv
<1>2. ~disturbed /\ AccountUndisturbed
  <2> SUFFICES ~disturbed
    BY DEF AccountSerialInv
  <2>1. ASSUME NEW c \in AccountCalls, Accounts!Arrive(c) PROVE ~disturbed
    <3>1. \E new : Accounts!Start(c, new)
      BY <2>1, Zenon DEF Accounts!Arrive, Accounts!register, Accounts!resendVerification,
         Accounts!login, Accounts!loginWithSsoProfile, Accounts!inviteUser,
         Accounts!resendInvite, Accounts!AcceptCheck, Accounts!ResetCheck,
         Accounts!RotateGet, Accounts!logout, Accounts!VerifyGet, Accounts!SetActiveCheck
    <3> QED
      BY <3>1 DEF Accounts!Start
  <2>2. ASSUME NEW c \in AccountCalls, Accounts!Handle(c) PROVE ~disturbed
    BY <2>2, Zenon DEF Accounts!Handle, Accounts!InviteSet, Accounts!AcceptWrite,
       Accounts!AcceptDelete, Accounts!SendOtp, Accounts!WrongGuess, Accounts!RightGuess,
       Accounts!Activate, Accounts!LoginSave, Accounts!RotateDelete, Accounts!ResetWrite,
       Accounts!ResetMark, Accounts!SetActiveWrite, Accounts!RevokeList,
       Accounts!issueRefreshToken, Accounts!RevokeDelete, Accounts!hist
  <2>3. ASSUME NEW c \in AccountCalls, Accounts!Abort(c) PROVE ~disturbed
    BY <2>3 DEF Accounts!Abort
  <2>4. (\E p \in Resets : Accounts!forgotPassword(p)) \/ Accounts!EmploymentEnds
        \/ Accounts!Expire => ~disturbed
    BY DEF Accounts!forgotPassword, Accounts!EmploymentEnds, Accounts!Expire, Accounts!hist
  <2>5. UNCHANGED Accounts!vars => ~disturbed
    BY DEF Accounts!vars, Accounts!hist
  <2> QED
    BY <2>1, <2>2, <2>3, <2>4, <2>5 DEF Accounts!Next
<1>3. ASSUME NEW c \in AccountCalls,
             Accounts!Arrive(c) \/ Accounts!Handle(c) \/ Accounts!Abort(c)
      PROVE  AccountUndisturbed'
  BY <1>1, <1>2, <1>3, AccountSerialArrive, AccountSerialTokens, AccountSerialAccount,
     AccountSerialGuesses DEF Accounts!Handle, Accounts!Abort
<1>4. CASE UNCHANGED Accounts!vars
  BY <1>2, <1>4 DEF Accounts!vars, Accounts!keys, Accounts!hist, AccountUndisturbed,
     AccountAlone, AccountTokensEntitled, AccountEntitled, AccountQuiet, AccountKeysFresh,
     AccountNobodyYet, AccountGuessesCounted, AccountInformed
<1> QED
  BY <1>1, <1>2, <1>3, <1>4, AccountSerialWorld DEF Accounts!Next

LEMMA AccountSerialInit == AccountApart /\ Accounts!Init => AccountSerialInv
<1> SUFFICES ASSUME AccountApart, Accounts!Init PROVE AccountSerialInv
  OBVIOUS
<1>1. AccountQuiet
  BY DEF Accounts!Init, AccountQuiet, AccountKeysFresh, AccountNobodyYet,
     AccountGuessesCounted, AccountApart, Accounts!OneUse
<1>2. AccountAlone /\ AccountTokensEntitled /\ \A c \in AccountCalls : AccountInformed(call[c])
  BY AccountNoCallOK DEF Accounts!Init, AccountAlone, AccountTokensEntitled, AccountInformed
<1> QED
  BY <1>1, <1>2, AccountTypeInit DEF AccountSerialInv, AccountUndisturbed

LEMMA AccountSerialRevoked == AccountSerialInv => Accounts!RevokedStayOut
<1> SUFFICES ASSUME AccountSerialInv, ~disturbed, ~Accounts!Busy
             PROVE  /\ \A t \in Tokens : refresh[t] = "live" => user.active /\ era[t] = now
                    /\ user.pw = chosen
                    /\ \A x \in Accounts!OneUse : uses[x] <= 1
                    /\ uses["guess"] <= MaxGuesses
  BY DEF Accounts!RevokedStayOut
<1>1. AccountUndisturbed
  BY DEF AccountSerialInv
<1> QED
  BY <1>1, AccountAtRest DEF AccountUndisturbed, AccountQuiet, AccountKeysFresh,
     AccountGuessesCounted, AccountEntitled
-------------------------------------------------------------------------------
(* Roles and the permission cache: the inductive invariant                    *)

\* What a request in flight has checked or read.
RoleCallOK(k) ==
  /\ k.do \in {"load", "fill", "assign", "remove", "drop_user"} => k.user \in Users
  /\ k.do \in {"assign", "remove"} => k.role \in Roles
  /\ k.do \in {"replace", "delete"} => k.role \in Roles \ SystemRoles
  /\ k.do \in {"fill", "replace"} => k.perms \in SUBSET Permits

RoleIInv ==
  /\ RoleCache!TypeOK
  /\ cache \in [Users -> SUBSET (SUBSET Permits)]
  /\ \A c \in Calls : RoleCallOK(call[c])

\* The entry of u is about to be deleted.
RoleDropped(k, u) ==
  \/ k.do = "drop_user" /\ k.user = u
  \/ k.do = "list_keys"
  \/ k.do = "drop_keys" /\ u \in k.perms

RoleAlone ==
  \A c, d \in Calls : call[c] # RoleCache!NoCall /\ call[d] # RoleCache!NoCall => c = d

\* An entry that is not about to be deleted is what the roles of the user allow.
RoleCacheFollows ==
  \A u \in Users : \A p \in cache[u] : p = RoleCache!Current(u) \/ \E c \in Calls : RoleDropped(call[c], u)

\* What a request has read is still so.
RoleInformed(k) ==
  /\ k.do = "fill" => k.perms = RoleCache!Current(k.user)
  /\ k.do = "delete" => \A u \in Users : k.role \notin holds[u]

RoleUndisturbed ==
  /\ RoleAlone
  /\ RoleCacheFollows
  /\ \A c \in Calls : RoleInformed(call[c])
  /\ holds = assigned

RoleSerialInv == RoleIInv /\ (~disturbed => RoleUndisturbed)

-------------------------------------------------------------------------------
(* Roles: types                                                               *)

RoleSteps == {"idle", "load", "fill", "replace", "delete", "assign", "remove",
          "drop_user", "list_keys", "drop_keys"}

RoleCallType == [do : RoleSteps, user : Users \cup {"nobody"}, role : Roles \cup {"norole"},
             perms : SUBSET (Permits \cup Users)]

LEMMA RoleNoCallOK ==
  RoleCache!NoCall \in RoleCallType /\ RoleCallOK(RoleCache!NoCall)
  /\ RoleCache!NoCall.do = "idle"
BY DEF RoleCache!NoCall, RoleCallType, RoleSteps, RoleCallOK

LEMMA RoleCallTyped == RoleCache!TypeOK <=>
  /\ live \subseteq Roles /\ SystemRoles \subseteq live
  /\ grants \in [Roles -> SUBSET Permits]
  /\ holds \in [Users -> SUBSET live]
  /\ \A u \in Users : cache[u] = {} \/ \E p \in SUBSET Permits : cache[u] = {p}
  /\ call \in [Calls -> RoleCallType]
  /\ assigned \in [Users -> SUBSET Roles] /\ disturbed \in BOOLEAN
BY DEF RoleCache!TypeOK, RoleCallType, RoleSteps

\* A step of one request.
LEMMA RoleCallStep ==
  ASSUME RoleIInv, NEW c \in Calls, NEW new \in RoleCallType, RoleCallOK(new),
         call' = [call EXCEPT ![c] = new]
  PROVE  call' \in [Calls -> RoleCallType] /\ \A d \in Calls : RoleCallOK(call'[d])
BY RoleCallTyped DEF RoleIInv

\* The tables and the cache are as before, or the entry of a user is gone.
LEMMA RoleSameTables ==
  ASSUME RoleIInv, UNCHANGED <<RoleCache!tables, assigned>>, disturbed' \in BOOLEAN,
         call' \in [Calls -> RoleCallType], \A d \in Calls : RoleCallOK(call'[d]),
         cache' \in [Users -> SUBSET (SUBSET Permits)],
         \A u \in Users : \/ cache'[u] \in {cache[u], {}}
                          \/ \E p \in SUBSET Permits : cache'[u] = {p}
  PROVE  RoleIInv'
<1>1. \A u \in Users : cache'[u] = {} \/ \E p \in SUBSET Permits : cache'[u] = {p}
  BY RoleCallTyped DEF RoleIInv
<1>2. live' = live /\ grants' = grants /\ holds' = holds /\ assigned' = assigned
  BY DEF RoleCache!tables
<1>3. RoleCache!TypeOK'
  BY <1>1, <1>2, RoleCallTyped DEF RoleIInv, RoleCache!TypeOK, RoleCallType, RoleSteps
<1> QED
  BY <1>3 DEF RoleIInv

LEMMA RoleTypeStart ==
  ASSUME RoleIInv, NEW c \in Calls, NEW new \in RoleCallType, RoleCallOK(new),
         RoleCache!Start(c, new)
  PROVE  RoleIInv'
<1>1. /\ call' = [call EXCEPT ![c] = new] /\ disturbed' \in BOOLEAN
      /\ UNCHANGED <<RoleCache!tables, assigned>> /\ cache' = cache
  BY DEF RoleCache!Start, RoleCache!Busy, RoleIInv, RoleCache!TypeOK
<1>2. call' \in [Calls -> RoleCallType] /\ \A d \in Calls : RoleCallOK(call'[d])
  BY <1>1, RoleCallStep
<1> QED
  BY <1>1, <1>2, RoleSameTables DEF RoleIInv

LEMMA RoleCurrentPermits ==
  ASSUME RoleIInv, NEW u \in Users
  PROVE  RoleCache!Current(u) \in SUBSET Permits
BY RoleCallTyped DEF RoleIInv, RoleCache!Current

LEMMA RoleTypeFinish ==
  ASSUME RoleIInv, NEW c \in Calls, RoleCache!Finish(c)
  PROVE  call' \in [Calls -> RoleCallType] /\ \A d \in Calls : RoleCallOK(call'[d])
BY RoleNoCallOK, RoleCallStep DEF RoleCache!Finish

LEMMA RoleTypeLookup ==
  ASSUME RoleIInv, NEW c \in Calls, NEW u \in Users,
         RoleCache!LookupMiss(c, u) \/ RoleCache!LookupLoad(c) \/ RoleCache!LookupFill(c)
  PROVE  RoleIInv'
<1>1. call[c] \in RoleCallType /\ RoleCallOK(call[c])
  BY RoleCallTyped DEF RoleIInv
<1>2. CASE RoleCache!LookupMiss(c, u)
  <2> DEFINE new == [RoleCache!NoCall EXCEPT !.do = "load", !.user = u]
  <2>1. new \in RoleCallType /\ RoleCallOK(new)
    BY DEF RoleCache!NoCall, RoleCallType, RoleSteps, RoleCallOK
  <2> HIDE DEF new
  <2>2. RoleCache!Start(c, new)
    BY <1>2 DEF RoleCache!LookupMiss, new
  <2> QED
    BY <2>1, <2>2, RoleTypeStart
<1>3. CASE RoleCache!LookupLoad(c)
  <2> DEFINE new == [call[c] EXCEPT !.do = "fill", !.perms = RoleCache!Current(call[c].user)]
  <2>1. call[c].user \in Users
    BY <1>1, <1>3 DEF RoleCache!LookupLoad, RoleCache!At, RoleCallOK
  <2>2. RoleCache!Current(call[c].user) \in SUBSET Permits
    BY <2>1, RoleCurrentPermits
  <2>3. new \in RoleCallType /\ RoleCallOK(new)
    BY <1>1, <2>1, <2>2 DEF RoleCallType, RoleSteps, RoleCallOK
  <2>4. call' = [call EXCEPT ![c] = new]
    BY <1>3 DEF RoleCache!LookupLoad
  <2>5. UNCHANGED <<RoleCache!tables, assigned>> /\ cache' = cache /\ disturbed' = disturbed
    BY <1>3 DEF RoleCache!LookupLoad
  <2> HIDE DEF new
  <2> QED
    BY <2>3, <2>4, <2>5, RoleCallStep, RoleSameTables DEF RoleIInv, RoleCache!TypeOK
<1>4. CASE RoleCache!LookupFill(c)
  <2>1. call[c].user \in Users /\ call[c].perms \in SUBSET Permits
    BY <1>1, <1>4 DEF RoleCache!LookupFill, RoleCache!At, RoleCallOK
  <2>2. /\ cache' = [cache EXCEPT ![call[c].user] = {call[c].perms}] /\ RoleCache!Finish(c)
        /\ UNCHANGED <<RoleCache!tables, assigned>> /\ disturbed' = disturbed
    BY <1>4 DEF RoleCache!LookupFill
  <2>3. cache' \in [Users -> SUBSET (SUBSET Permits)]
    BY <2>1, <2>2 DEF RoleIInv
  <2>4. \A u2 \in Users : cache'[u2] = cache[u2] \/ \E p \in SUBSET Permits : cache'[u2] = {p}
    BY <2>1, <2>2 DEF RoleIInv
  <2> QED
    BY <2>2, <2>3, <2>4, RoleTypeFinish, RoleSameTables DEF RoleIInv, RoleCache!TypeOK
<1> QED
  BY <1>2, <1>3, <1>4

\* The checks of a request.
LEMMA RoleTypeChecks ==
  ASSUME RoleIInv, NEW c \in Calls, NEW u \in Users, NEW r \in Roles,
         NEW p \in SUBSET Permits,
         \/ RoleCache!ReplaceCheck(c, r, p) \/ RoleCache!DeleteCheck(c, r)
         \/ RoleCache!AssignCheck(c, u, r) \/ RoleCache!RemoveCheck(c, u, r)
  PROVE  RoleIInv'
<1>1. CASE RoleCache!ReplaceCheck(c, r, p)
  <2> DEFINE new == [RoleCache!NoCall EXCEPT !.do = "replace", !.role = r, !.perms = p]
  <2>1. new \in RoleCallType /\ RoleCallOK(new)
    BY <1>1 DEF RoleCache!ReplaceCheck, RoleCache!NoCall, RoleCallType, RoleSteps,
       RoleCallOK
  <2>2. RoleCache!Start(c, new)
    BY <1>1 DEF RoleCache!ReplaceCheck
  <2> HIDE DEF new
  <2> QED
    BY <2>1, <2>2, RoleTypeStart
<1>2. CASE RoleCache!DeleteCheck(c, r)
  <2> DEFINE new == [RoleCache!NoCall EXCEPT !.do = "delete", !.role = r]
  <2>1. new \in RoleCallType /\ RoleCallOK(new)
    BY <1>2 DEF RoleCache!DeleteCheck, RoleCache!NoCall, RoleCallType, RoleSteps, RoleCallOK
  <2>2. RoleCache!Start(c, new)
    BY <1>2 DEF RoleCache!DeleteCheck
  <2> HIDE DEF new
  <2> QED
    BY <2>1, <2>2, RoleTypeStart
<1>3. ASSUME NEW do \in {"assign", "remove"},
             RoleCache!Start(c, [RoleCache!NoCall EXCEPT !.do = do, !.user = u, !.role = r])
      PROVE  RoleIInv'
  <2> DEFINE new == [RoleCache!NoCall EXCEPT !.do = do, !.user = u, !.role = r]
  <2>1. new \in RoleCallType /\ RoleCallOK(new)
    BY DEF RoleCache!NoCall, RoleCallType, RoleSteps, RoleCallOK
  <2> HIDE DEF new
  <2> QED
    BY <1>3, <2>1, RoleTypeStart DEF new
<1> QED
  BY <1>1, <1>2, <1>3 DEF RoleCache!AssignCheck, RoleCache!RemoveCheck

\* The next state of a request after its write.
LEMMA RoleTypeForget ==
  ASSUME RoleIInv, NEW c \in Calls,
         \/ RoleCache!ForgetAll(c)
         \/ RoleCache!ForgetUser(c) /\ call[c].user \in Users
         \/ RoleCache!Finish(c)
  PROVE  call' \in [Calls -> RoleCallType] /\ \A d \in Calls : RoleCallOK(call'[d])
<1>1. call[c] \in RoleCallType
  BY RoleCallTyped DEF RoleIInv
<1>2. CASE RoleCache!ForgetAll(c)
  <2> DEFINE new == [call[c] EXCEPT !.do = "list_keys"]
  <2>1. new \in RoleCallType /\ RoleCallOK(new) /\ call' = [call EXCEPT ![c] = new]
    BY <1>1, <1>2 DEF RoleCache!ForgetAll, RoleCallType, RoleSteps, RoleCallOK
  <2> HIDE DEF new
  <2> QED
    BY <2>1, RoleCallStep
<1>3. CASE RoleCache!ForgetUser(c) /\ call[c].user \in Users
  <2> DEFINE new == [call[c] EXCEPT !.do = "drop_user"]
  <2>1. new \in RoleCallType /\ RoleCallOK(new) /\ call' = [call EXCEPT ![c] = new]
    BY <1>1, <1>3 DEF RoleCache!ForgetUser, RoleCallType, RoleSteps, RoleCallOK
  <2> HIDE DEF new
  <2> QED
    BY <2>1, RoleCallStep
<1> QED
  BY <1>2, <1>3, RoleTypeFinish

LEMMA RoleTypeWrites ==
  ASSUME RoleIInv, NEW c \in Calls,
         RoleCache!ReplaceWrite(c) \/ RoleCache!DeleteWrite(c) \/ RoleCache!AssignWrite(c) \/ RoleCache!RemoveWrite(c)
  PROVE  RoleIInv'
<1>1. call[c] \in RoleCallType /\ RoleCallOK(call[c]) /\ RoleCache!TypeOK
  BY RoleCallTyped DEF RoleIInv
<1>2. cache' = cache /\ disturbed' = disturbed
  BY DEF RoleCache!ReplaceWrite, RoleCache!DeleteWrite, RoleCache!AssignWrite,
     RoleCache!RemoveWrite
<1>3. CASE RoleCache!ReplaceWrite(c)
  <2>1. call[c].role \in Roles /\ call[c].perms \in SUBSET Permits
    BY <1>1, <1>3 DEF RoleCache!ReplaceWrite, RoleCache!At, RoleCallOK
  <2>2. live' = live /\ holds' = holds /\ assigned' = assigned
        /\ grants' \in [Roles -> SUBSET Permits]
    BY <1>1, <1>3, <2>1, RoleCallTyped DEF RoleCache!ReplaceWrite
  <2>3. call' \in [Calls -> RoleCallType] /\ \A d \in Calls : RoleCallOK(call'[d])
    BY <1>3, RoleTypeForget DEF RoleCache!ReplaceWrite
  <2> QED
    BY <1>1, <1>2, <2>2, <2>3, RoleCallTyped DEF RoleIInv, RoleCache!TypeOK, RoleCallType,
       RoleSteps
<1>4. CASE RoleCache!DeleteWrite(c)
  <2> DEFINE r == call[c].role
  <2>1. r \in Roles \ SystemRoles
    BY <1>1, <1>4 DEF RoleCache!DeleteWrite, RoleCache!At, RoleCallOK
  <2>2. /\ live' = live \ {r} /\ grants' = [grants EXCEPT ![r] = {}]
        /\ holds' = [u \in Users |-> holds[u] \ {r}] /\ assigned' = assigned
    BY <1>4 DEF RoleCache!DeleteWrite
  <2>3. live' \subseteq Roles /\ SystemRoles \subseteq live'
        /\ grants' \in [Roles -> SUBSET Permits]
        /\ holds' \in [Users -> SUBSET live']
    BY <1>1, <2>1, <2>2, RoleCallTyped
  <2>4. call' \in [Calls -> RoleCallType] /\ \A d \in Calls : RoleCallOK(call'[d])
    BY <1>4, RoleTypeForget DEF RoleCache!DeleteWrite
  <2> QED
    BY <1>1, <1>2, <2>2, <2>3, <2>4, RoleCallTyped DEF RoleIInv, RoleCache!TypeOK,
       RoleCallType, RoleSteps
<1>5. CASE RoleCache!AssignWrite(c) \/ RoleCache!RemoveWrite(c)
  <2>1. call[c].user \in Users /\ call[c].role \in Roles
    BY <1>1, <1>5 DEF RoleCache!AssignWrite, RoleCache!RemoveWrite, RoleCache!At, RoleCallOK
  <2>2. live' = live /\ grants' = grants /\ holds' \in [Users -> SUBSET live]
        /\ assigned' \in [Users -> SUBSET Roles]
    <3>1. CASE RoleCache!AssignWrite(c)
      BY <1>1, <2>1, <3>1, RoleCallTyped DEF RoleCache!AssignWrite
    <3>2. CASE RoleCache!RemoveWrite(c)
      BY <1>1, <2>1, <3>2, RoleCallTyped DEF RoleCache!RemoveWrite
    <3> QED
      BY <1>5, <3>1, <3>2
  <2>3. call' \in [Calls -> RoleCallType] /\ \A d \in Calls : RoleCallOK(call'[d])
    BY <1>5, <2>1, RoleTypeForget DEF RoleCache!AssignWrite, RoleCache!RemoveWrite
  <2> QED
    BY <1>1, <1>2, <2>2, <2>3, RoleCallTyped DEF RoleIInv, RoleCache!TypeOK, RoleCallType,
       RoleSteps
<1> QED
  BY <1>3, <1>4, <1>5

LEMMA RoleTypeInvalidate ==
  ASSUME RoleIInv, NEW c \in Calls,
         RoleCache!invalidateUser(c) \/ RoleCache!InvalidateList(c) \/ RoleCache!InvalidateDrop(c) \/ RoleCache!Abort(c)
  PROVE  RoleIInv'
<1>1. call[c] \in RoleCallType /\ RoleCallOK(call[c])
      /\ cache \in [Users -> SUBSET (SUBSET Permits)]
  BY RoleCallTyped DEF RoleIInv
<1>2. CASE RoleCache!invalidateUser(c)
  <2>1. cache' = [cache EXCEPT ![call[c].user] = {}] /\ RoleCache!Finish(c)
        /\ UNCHANGED <<RoleCache!tables, assigned>> /\ disturbed' = disturbed
    BY <1>2 DEF RoleCache!invalidateUser
  <2>2. cache' \in [Users -> SUBSET (SUBSET Permits)]
        /\ \A u \in Users : cache'[u] \in {cache[u], {}}
    BY <1>1, <2>1
  <2> QED
    BY <2>1, <2>2, RoleTypeFinish, RoleSameTables DEF RoleIInv, RoleCache!TypeOK
<1>3. CASE RoleCache!InvalidateList(c)
  <2> DEFINE new == [RoleCache!NoCall EXCEPT !.do = "drop_keys", !.perms = {u \in Users : cache[u] # {}}]
  <2>1. new \in RoleCallType /\ RoleCallOK(new)
    BY DEF RoleCache!NoCall, RoleCallType, RoleSteps, RoleCallOK
  <2>2. call' = [call EXCEPT ![c] = new] /\ UNCHANGED <<RoleCache!tables, assigned>>
        /\ cache' = cache
        /\ disturbed' = disturbed
    BY <1>3 DEF RoleCache!InvalidateList
  <2> HIDE DEF new
  <2> QED
    BY <1>1, <2>1, <2>2, RoleCallStep, RoleSameTables DEF RoleIInv, RoleCache!TypeOK
<1>4. CASE RoleCache!InvalidateDrop(c)
  <2>1. cache' = [u \in Users |-> IF u \in call[c].perms THEN {} ELSE cache[u]]
        /\ RoleCache!Finish(c)
        /\ UNCHANGED <<RoleCache!tables, assigned>> /\ disturbed' = disturbed
    BY <1>4 DEF RoleCache!InvalidateDrop
  <2>2. cache' \in [Users -> SUBSET (SUBSET Permits)]
        /\ \A u \in Users : cache'[u] \in {cache[u], {}}
    BY <1>1, <2>1
  <2> QED
    BY <2>1, <2>2, RoleTypeFinish, RoleSameTables DEF RoleIInv, RoleCache!TypeOK
<1>5. CASE RoleCache!Abort(c)
  <2>1. RoleCache!Finish(c) /\ UNCHANGED <<RoleCache!tables, assigned>>
        /\ cache' = cache /\ disturbed' \in BOOLEAN
    BY <1>5 DEF RoleCache!Abort
  <2> QED
    BY <1>1, <2>1, RoleTypeFinish, RoleSameTables
<1> QED
  BY <1>2, <1>3, <1>4, <1>5

LEMMA RoleTypeWorld ==
  ASSUME RoleIInv, (\E r \in Roles : RoleCache!createRole(r)) \/ (\E u \in Users : RoleCache!Expire(u))
  PROVE  RoleIInv'
<1>1. RoleCache!TypeOK /\ cache \in [Users -> SUBSET (SUBSET Permits)]
  BY DEF RoleIInv
<1>2. ASSUME NEW r \in Roles, RoleCache!createRole(r) PROVE RoleIInv'
  <2>1. live' = live \cup {r} /\ UNCHANGED <<grants, holds, cache, call, assigned, disturbed>>
    BY <1>2 DEF RoleCache!createRole
  <2>2. holds' \in [Users -> SUBSET live']
    BY <1>1, <2>1, RoleCallTyped
  <2> QED
    BY <1>1, <2>1, <2>2 DEF RoleIInv, RoleCache!TypeOK
<1>3. ASSUME NEW u \in Users, RoleCache!Expire(u) PROVE RoleIInv'
  <2>1. cache' = [cache EXCEPT ![u] = {}]
        /\ UNCHANGED <<RoleCache!tables, call, assigned, disturbed>>
    BY <1>3 DEF RoleCache!Expire
  <2>2. cache' \in [Users -> SUBSET (SUBSET Permits)]
        /\ \A v \in Users : cache'[v] \in {cache[v], {}}
    BY <1>1, <2>1
  <2>3. call' \in [Calls -> RoleCallType] /\ \A d \in Calls : RoleCallOK(call'[d])
    BY <1>1, <2>1, RoleCallTyped DEF RoleIInv
  <2> QED
    BY <2>1, <2>2, <2>3, RoleSameTables DEF RoleIInv, RoleCache!TypeOK
<1> QED
  BY <1>2, <1>3

LEMMA RoleTypeInit ==
  ASSUME SystemRoles \subseteq Roles
  PROVE  RoleCache!Init => RoleIInv
<1> SUFFICES ASSUME RoleCache!Init PROVE RoleIInv
  OBVIOUS
<1>1. call = [c \in Calls |-> RoleCache!NoCall]
  BY DEF RoleCache!Init
<1>2. call \in [Calls -> RoleCallType] /\ \A c \in Calls : RoleCallOK(call[c])
  BY <1>1, RoleNoCallOK
<1>3. RoleCache!TypeOK
  BY <1>2, RoleCallTyped DEF RoleCache!Init
<1> QED
  BY <1>2, <1>3 DEF RoleIInv, RoleCache!Init

LEMMA RoleTypeNext == RoleIInv /\ [RoleCache!Next]_(RoleCache!vars) => RoleIInv'
<1> SUFFICES ASSUME RoleIInv, [RoleCache!Next]_(RoleCache!vars) PROVE RoleIInv'
  OBVIOUS
<1>1. ASSUME NEW c \in Calls, NEW u \in Users, RoleCache!LookupMiss(c, u) PROVE RoleIInv'
  BY <1>1, RoleTypeLookup
<1>2. ASSUME NEW c \in Calls, RoleCache!LookupLoad(c) \/ RoleCache!LookupFill(c) PROVE RoleIInv'
  <2>1. call[c].user \in Users
    BY <1>2 DEF RoleCache!LookupLoad, RoleCache!LookupFill, RoleCache!At, RoleIInv,
       RoleCallOK
  <2> QED
    BY <1>2, <2>1, RoleTypeLookup
<1>3. ASSUME NEW c \in Calls, NEW u \in Users, NEW r \in Roles, RoleCache!AssignCheck(c, u,
             r) \/ RoleCache!RemoveCheck(c, u, r)
      PROVE  RoleIInv'
  BY <1>3, {} \in SUBSET Permits, RoleTypeChecks
<1>4. ASSUME NEW c \in Calls, NEW r \in Roles, NEW p \in SUBSET Permits,
             RoleCache!ReplaceCheck(c, r, p)
      PROVE  RoleIInv'
  <2>1. [RoleCache!NoCall EXCEPT !.do = "replace", !.role = r, !.perms = p] \in RoleCallType
        /\ RoleCallOK([RoleCache!NoCall EXCEPT !.do = "replace", !.role = r, !.perms = p])
    BY <1>4 DEF RoleCache!ReplaceCheck, RoleCache!NoCall, RoleCallType, RoleSteps,
       RoleCallOK
  <2> QED
    BY <1>4, <2>1, RoleTypeStart DEF RoleCache!ReplaceCheck
<1>5. ASSUME NEW c \in Calls, NEW r \in Roles, RoleCache!DeleteCheck(c, r)
      PROVE  RoleIInv'
  <2>1. [RoleCache!NoCall EXCEPT !.do = "delete", !.role = r] \in RoleCallType
        /\ RoleCallOK([RoleCache!NoCall EXCEPT !.do = "delete", !.role = r])
    BY <1>5 DEF RoleCache!DeleteCheck, RoleCache!NoCall, RoleCallType, RoleSteps, RoleCallOK
  <2> QED
    BY <1>5, <2>1, RoleTypeStart DEF RoleCache!DeleteCheck
<1>6. ASSUME NEW c \in Calls,
             \/ RoleCache!ReplaceWrite(c) \/ RoleCache!DeleteWrite(c) \/ RoleCache!AssignWrite(c) \/ RoleCache!RemoveWrite(c)
             \/ RoleCache!invalidateUser(c) \/ RoleCache!InvalidateList(c) \/ RoleCache!InvalidateDrop(c) \/ RoleCache!Abort(c)
      PROVE  RoleIInv'
  BY <1>6, RoleTypeWrites, RoleTypeInvalidate
<1>7. CASE UNCHANGED RoleCache!vars
  BY <1>7 DEF RoleCache!vars, RoleCache!tables, RoleIInv, RoleCache!TypeOK
<1> QED
  BY <1>1, <1>2, <1>3, <1>4, <1>5, <1>6, <1>7, RoleTypeWorld DEF RoleCache!Next

-------------------------------------------------------------------------------
(* Roles: requests that do not overlap and run to their end                   *)

\* A step of the one request in flight: the entries it leaves are as the roles of
\* their users allow, or it goes on to delete them.
LEMMA RoleSerialStep ==
  ASSUME NEW c \in Calls, NEW new, call' = [call EXCEPT ![c] = new], RoleIInv,
         call' \in [Calls -> RoleCallType],
         \A d \in Calls : d # c => call[d] = RoleCache!NoCall,
         \A u \in Users : \A p \in cache'[u] : p = RoleCache!Current(u)' \/ RoleDropped(new, u),
         new.do = "fill" => \E u \in Users : u = new.user /\ new.perms = RoleCache!Current(u)',
         new.do = "delete" => \A u \in Users : new.role \notin holds'[u],
         holds' = assigned'
  PROVE  RoleUndisturbed'
<1>1. call'[c] = new /\ \A d \in Calls : d # c => call'[d] = RoleCache!NoCall
  BY RoleCallTyped DEF RoleIInv
<1>2. RoleAlone'
  BY <1>1 DEF RoleAlone
<1>3. RoleCacheFollows'
  BY <1>1 DEF RoleCacheFollows
<1>4. RoleInformed(call[c])'
  BY <1>1 DEF RoleInformed
<1>5. ASSUME NEW d \in Calls, d # c PROVE RoleInformed(call[d])'
  BY <1>1, <1>5, RoleNoCallOK DEF RoleInformed
<1>6. \A d \in Calls : RoleInformed(call[d])'
  BY <1>4, <1>5
<1> QED
  BY <1>2, <1>3, <1>6 DEF RoleUndisturbed

\* What is so before a step of the one request in flight.
LEMMA RoleOnlyOne ==
  ASSUME RoleIInv, RoleUndisturbed, NEW c \in Calls, call[c] # RoleCache!NoCall
  PROVE  /\ \A d \in Calls : d # c => call[d] = RoleCache!NoCall
         /\ \A u \in Users : \A p \in cache[u] : p = RoleCache!Current(u) \/ RoleDropped(call[c], u)
<1>1. \A d \in Calls : d # c => call[d] = RoleCache!NoCall
  BY DEF RoleUndisturbed, RoleAlone
<1>2. \A u \in Users : ~RoleDropped(RoleCache!NoCall, u)
  BY RoleNoCallOK DEF RoleDropped, RoleCache!NoCall
<1> QED
  BY <1>1, <1>2 DEF RoleUndisturbed, RoleCacheFollows

\* Nothing is in flight, so nothing is about to be deleted.
LEMMA RoleAtRest ==
  ASSUME RoleUndisturbed, ~RoleCache!Busy
  PROVE  \A u \in Users : \A p \in cache[u] : p = RoleCache!Current(u)
<1>1. \A u \in Users : ~RoleDropped(RoleCache!NoCall, u)
  BY RoleNoCallOK DEF RoleDropped, RoleCache!NoCall
<1> QED
  BY <1>1 DEF RoleUndisturbed, RoleCacheFollows, RoleCache!Busy

\* A request that begins alone.
LEMMA RoleSerialStart ==
  ASSUME RoleIInv, RoleIInv', RoleUndisturbed, NEW c \in Calls, NEW new,
         RoleCache!Start(c, new), ~disturbed',
         new.do # "fill", new.do = "delete" => \A u \in Users : new.role \notin holds[u]
  PROVE  RoleUndisturbed'
<1>1. /\ ~RoleCache!Busy /\ call' = [call EXCEPT ![c] = new] /\ cache' = cache
      /\ live' = live /\ grants' = grants /\ holds' = holds /\ assigned' = assigned
  BY DEF RoleCache!Start, RoleCache!tables
<1>2. \A u \in Users : \A p \in cache[u] : p = RoleCache!Current(u)
  BY <1>1, RoleAtRest
<1>3. \A u \in Users : RoleCache!Current(u)' = RoleCache!Current(u)
  BY <1>1 DEF RoleCache!Current
<1>4. call' \in [Calls -> RoleCallType] /\ \A d \in Calls : d # c => call[d] = RoleCache!NoCall
  BY <1>1, RoleCallTyped DEF RoleIInv, RoleCache!TypeOK, RoleCallType, RoleSteps,
     RoleCache!Busy
<1>5. holds' = assigned'
  BY <1>1 DEF RoleUndisturbed
<1> QED
  BY <1>1, <1>2, <1>3, <1>4, <1>5, RoleSerialStep

\* Steps that leave the tables alone.
LEMMA RoleSerialLookup ==
  ASSUME RoleIInv, RoleIInv', RoleUndisturbed, NEW c \in Calls,
         RoleCache!LookupLoad(c) \/ RoleCache!LookupFill(c)
  PROVE  RoleUndisturbed'
<1>1. call[c] \in RoleCallType /\ RoleCallOK(call[c]) /\ call[c] # RoleCache!NoCall
  BY RoleCallTyped, RoleNoCallOK DEF RoleIInv, RoleCache!LookupLoad, RoleCache!LookupFill,
     RoleCache!At
<1>2. call[c].user \in Users /\ \A u \in Users : ~RoleDropped(call[c], u)
  BY <1>1 DEF RoleCache!LookupLoad, RoleCache!LookupFill, RoleCache!At, RoleCallOK,
     RoleDropped
<1>3. /\ \A d \in Calls : d # c => call[d] = RoleCache!NoCall
      /\ \A u \in Users : \A p \in cache[u] : p = RoleCache!Current(u)
  BY <1>1, <1>2, RoleOnlyOne
<1>4. live' = live /\ grants' = grants /\ holds' = holds /\ assigned' = assigned
      /\ holds' = assigned'
  BY DEF RoleCache!LookupLoad, RoleCache!LookupFill, RoleCache!tables, RoleUndisturbed
<1>5. \A u \in Users : RoleCache!Current(u)' = RoleCache!Current(u)
  BY <1>4 DEF RoleCache!Current
<1>6. call' \in [Calls -> RoleCallType]
  BY DEF RoleIInv, RoleCache!TypeOK, RoleCallType, RoleSteps
<1>7. CASE RoleCache!LookupLoad(c)
  <2>1. PICK new : new = [call[c] EXCEPT !.do = "fill", !.perms = RoleCache!Current(call[c].user)]
    OBVIOUS
  <2>2. call' = [call EXCEPT ![c] = new] /\ cache' = cache
    BY <1>7, <2>1 DEF RoleCache!LookupLoad
  <2>3. new.do = "fill" /\ new.user = call[c].user
        /\ new.perms = RoleCache!Current(call[c].user)
    BY <1>1, <2>1 DEF RoleCallType
  <2>4. \E u \in Users : u = new.user /\ new.perms = RoleCache!Current(u)'
    BY <1>2, <1>5, <2>3
  <2> QED
    BY <1>3, <1>4, <1>5, <1>6, <2>2, <2>3, <2>4, RoleSerialStep
<1>8. CASE RoleCache!LookupFill(c)
  <2>1. cache' = [cache EXCEPT ![call[c].user] = {call[c].perms}] /\ RoleCache!Finish(c)
    BY <1>8 DEF RoleCache!LookupFill
  <2>2. call[c].perms = RoleCache!Current(call[c].user)
    BY <1>8 DEF RoleCache!LookupFill, RoleCache!At, RoleUndisturbed, RoleInformed
  <2>3. \A u \in Users : \A p \in cache'[u] : p = RoleCache!Current(u)'
    BY <1>2, <1>3, <1>5, <2>1, <2>2 DEF RoleIInv
  <2> QED
    BY <1>3, <1>4, <1>6, <2>1, <2>3, RoleNoCallOK, RoleSerialStep DEF RoleCache!Finish
<1> QED
  BY <1>7, <1>8

\* The write of a role: what is cached for anyone may be out of date, and every
\* key is about to be deleted.  Nobody holds a role that is deleted.
LEMMA RoleSerialRoleWrite ==
  ASSUME RoleIInv, RoleIInv', RoleUndisturbed, NEW c \in Calls,
         RoleCache!ReplaceWrite(c) \/ RoleCache!DeleteWrite(c)
  PROVE  RoleUndisturbed'
<1>1. call[c] \in RoleCallType /\ RoleCallOK(call[c]) /\ call[c] # RoleCache!NoCall
  BY RoleCallTyped, RoleNoCallOK DEF RoleIInv, RoleCache!ReplaceWrite,
     RoleCache!DeleteWrite, RoleCache!At
<1>2. /\ \A d \in Calls : d # c => call[d] = RoleCache!NoCall
      /\ \A u \in Users : \A p \in cache[u] : p = RoleCache!Current(u)
  <2>1. \A u \in Users : ~RoleDropped(call[c], u)
    BY DEF RoleCache!ReplaceWrite, RoleCache!DeleteWrite, RoleCache!At, RoleDropped
  <2> QED
    BY <1>1, <2>1, RoleOnlyOne
<1>3. call' \in [Calls -> RoleCallType] /\ cache' = cache
  BY DEF RoleIInv, RoleCache!TypeOK, RoleCallType, RoleSteps, RoleCache!ReplaceWrite,
     RoleCache!DeleteWrite
<1>4. holds' = assigned'
  <2>1. CASE RoleCache!ReplaceWrite(c)
    BY <2>1 DEF RoleCache!ReplaceWrite, RoleUndisturbed
  <2>2. CASE RoleCache!DeleteWrite(c)
    <3>1. \A u \in Users : call[c].role \notin holds[u]
      BY <2>2 DEF RoleCache!DeleteWrite, RoleCache!At, RoleUndisturbed, RoleInformed
    <3>2. [u \in Users |-> holds[u] \ {call[c].role}] = holds
      BY <3>1, RoleCallTyped DEF RoleIInv
    <3> QED
      BY <2>2, <3>2 DEF RoleCache!DeleteWrite, RoleUndisturbed
  <2> QED
    BY <2>1, <2>2
<1>5. CASE RoleCache!ForgetAll(c)
  <2> DEFINE new == [call[c] EXCEPT !.do = "list_keys"]
  <2>1. new.do = "list_keys" /\ call' = [call EXCEPT ![c] = new]
    BY <1>1, <1>5 DEF RoleCallType, RoleCache!ForgetAll
  <2>2. \A u \in Users : RoleDropped(new, u)
    BY <2>1 DEF RoleDropped
  <2> HIDE DEF new
  <2> QED
    BY <1>2, <1>3, <1>4, <2>1, <2>2, RoleSerialStep
<1>6. CASE RoleCache!Finish(c) /\ grants' = grants /\ holds' = holds
  <2>1. \A u \in Users : RoleCache!Current(u)' = RoleCache!Current(u)
    BY <1>6 DEF RoleCache!Current
  <2> QED
    BY <1>2, <1>3, <1>4, <1>6, <2>1, RoleNoCallOK, RoleSerialStep DEF RoleCache!Finish
<1> QED
  BY <1>5, <1>6 DEF RoleCache!ReplaceWrite, RoleCache!DeleteWrite

\* The write of one user's roles: only his entry may be out of date.
LEMMA RoleSerialUserWrite ==
  ASSUME RoleIInv, RoleIInv', RoleUndisturbed, NEW c \in Calls,
         RoleCache!AssignWrite(c) \/ RoleCache!RemoveWrite(c)
  PROVE  RoleUndisturbed'
<1>1. call[c] \in RoleCallType /\ RoleCallOK(call[c]) /\ call[c] # RoleCache!NoCall
  BY RoleCallTyped, RoleNoCallOK DEF RoleIInv, RoleCache!AssignWrite,
     RoleCache!RemoveWrite, RoleCache!At
<1>2. /\ \A d \in Calls : d # c => call[d] = RoleCache!NoCall
      /\ \A u \in Users : \A p \in cache[u] : p = RoleCache!Current(u)
  <2>1. \A u \in Users : ~RoleDropped(call[c], u)
    BY DEF RoleCache!AssignWrite, RoleCache!RemoveWrite, RoleCache!At, RoleDropped
  <2> QED
    BY <1>1, <2>1, RoleOnlyOne
<1>3. call' \in [Calls -> RoleCallType] /\ cache' = cache /\ grants' = grants
  BY DEF RoleIInv, RoleCache!TypeOK, RoleCallType, RoleSteps, RoleCache!AssignWrite,
     RoleCache!RemoveWrite
<1>4. holds' = assigned' /\ \A u \in Users \ {call[c].user} : holds'[u] = holds[u]
  <2>1. holds = assigned /\ holds \in [Users -> SUBSET live]
    BY RoleCallTyped DEF RoleIInv, RoleUndisturbed
  <2>2. CASE RoleCache!AssignWrite(c)
    BY <2>1, <2>2 DEF RoleCache!AssignWrite
  <2>3. CASE RoleCache!RemoveWrite(c)
    BY <2>1, <2>3 DEF RoleCache!RemoveWrite
  <2> QED
    BY <2>2, <2>3
<1>5. \A u \in Users \ {call[c].user} : RoleCache!Current(u)' = RoleCache!Current(u)
  BY <1>3, <1>4 DEF RoleCache!Current
<1>6. CASE RoleCache!ForgetUser(c)
  <2> DEFINE new == [call[c] EXCEPT !.do = "drop_user"]
  <2>1. new.do = "drop_user" /\ new.user = call[c].user /\ call' = [call EXCEPT ![c] = new]
    BY <1>1, <1>6 DEF RoleCallType, RoleCache!ForgetUser
  <2> HIDE DEF new
  <2>2. \A u \in Users : \A p \in cache'[u] : p = RoleCache!Current(u)' \/ RoleDropped(new, u)
    BY <1>2, <1>3, <1>5, <2>1 DEF RoleDropped
  <2> QED
    BY <1>2, <1>3, <1>4, <2>1, <2>2, RoleSerialStep
<1>7. CASE RoleCache!Finish(c) /\ holds' = holds
  <2>1. \A u \in Users : RoleCache!Current(u)' = RoleCache!Current(u)
    BY <1>3, <1>7 DEF RoleCache!Current
  <2> QED
    BY <1>2, <1>3, <1>4, <1>7, <2>1, RoleNoCallOK, RoleSerialStep DEF RoleCache!Finish
<1> QED
  BY <1>6, <1>7 DEF RoleCache!AssignWrite, RoleCache!RemoveWrite

\* The entries that may be out of date are deleted.
LEMMA RoleSerialInvalidate ==
  ASSUME RoleIInv, RoleIInv', RoleUndisturbed, NEW c \in Calls,
         RoleCache!invalidateUser(c) \/ RoleCache!InvalidateList(c) \/ RoleCache!InvalidateDrop(c)
  PROVE  RoleUndisturbed'
<1>1. call[c] \in RoleCallType /\ call[c] # RoleCache!NoCall
  BY RoleCallTyped, RoleNoCallOK DEF RoleIInv, RoleCache!invalidateUser,
     RoleCache!InvalidateList, RoleCache!InvalidateDrop, RoleCache!At
<1>2. /\ \A d \in Calls : d # c => call[d] = RoleCache!NoCall
      /\ \A u \in Users : \A p \in cache[u] : p = RoleCache!Current(u) \/ RoleDropped(call[c], u)
  BY <1>1, RoleOnlyOne
<1>3. call' \in [Calls -> RoleCallType] /\ cache \in [Users -> SUBSET (SUBSET Permits)]
  BY DEF RoleIInv, RoleCache!TypeOK, RoleCallType, RoleSteps
<1>4. live' = live /\ grants' = grants /\ holds' = holds /\ assigned' = assigned
      /\ holds' = assigned'
  BY DEF RoleCache!invalidateUser, RoleCache!InvalidateList, RoleCache!InvalidateDrop,
     RoleCache!tables, RoleUndisturbed
<1>5. \A u \in Users : RoleCache!Current(u)' = RoleCache!Current(u)
  BY <1>4 DEF RoleCache!Current
<1>6. CASE RoleCache!InvalidateList(c)
  <2> DEFINE new == [RoleCache!NoCall EXCEPT !.do = "drop_keys", !.perms = {u \in Users : cache[u] # {}}]
  <2>1. new.do = "drop_keys" /\ new.perms = {u \in Users : cache[u] # {}}
        /\ call' = [call EXCEPT ![c] = new] /\ cache' = cache
    BY <1>6 DEF RoleCache!InvalidateList, RoleCache!NoCall
  <2> HIDE DEF new
  <2>2. \A u \in Users : \A p \in cache'[u] : RoleDropped(new, u)
    BY <2>1 DEF RoleDropped
  <2> QED
    BY <1>2, <1>3, <1>4, <2>1, <2>2, RoleSerialStep
<1>7. CASE RoleCache!invalidateUser(c)
  <2>1. \A u \in Users : \A p \in cache'[u] : p = RoleCache!Current(u)'
    BY <1>2, <1>3, <1>5, <1>7 DEF RoleCache!invalidateUser, RoleCache!At, RoleDropped
  <2> QED
    BY <1>2, <1>3, <1>4, <1>7, <2>1, RoleNoCallOK, RoleSerialStep DEF RoleCache!Finish,
       RoleCache!invalidateUser
<1>8. CASE RoleCache!InvalidateDrop(c)
  <2>1. \A u \in Users : \A p \in cache'[u] : p = RoleCache!Current(u)'
    BY <1>2, <1>3, <1>5, <1>8 DEF RoleCache!InvalidateDrop, RoleCache!At, RoleDropped
  <2> QED
    BY <1>2, <1>3, <1>4, <1>8, <2>1, RoleNoCallOK, RoleSerialStep DEF RoleCache!Finish,
       RoleCache!InvalidateDrop
<1> QED
  BY <1>6, <1>7, <1>8

\* A new role is nobody's yet; an entry that expires is gone.
LEMMA RoleSerialWorld ==
  ASSUME RoleIInv, RoleUndisturbed,
         (\E r \in Roles : RoleCache!createRole(r)) \/ (\E u \in Users : RoleCache!Expire(u))
  PROVE  RoleUndisturbed'
<1>1. grants' = grants /\ holds' = holds /\ assigned' = assigned /\ call' = call
  BY DEF RoleCache!createRole, RoleCache!Expire, RoleCache!tables
<1>2. \A u \in Users : RoleCache!Current(u)' = RoleCache!Current(u)
  BY <1>1 DEF RoleCache!Current
<1>3. \A u \in Users : cache'[u] \in {cache[u], {}}
  BY DEF RoleCache!createRole, RoleCache!Expire, RoleIInv
<1>4. RoleCacheFollows'
  BY <1>1, <1>2, <1>3 DEF RoleUndisturbed, RoleCacheFollows
<1>5. \A d \in Calls : RoleInformed(call[d])'
  <2> SUFFICES ASSUME NEW d \in Calls PROVE RoleInformed(call[d])'
    OBVIOUS
  <2>1. call[d].do = "fill" => call[d].user \in Users
    BY DEF RoleIInv, RoleCallOK
  <2>2. RoleInformed(call[d])
    BY DEF RoleUndisturbed
  <2> QED
    BY <1>1, <1>2, <2>1, <2>2 DEF RoleInformed
<1> QED
  BY <1>1, <1>4, <1>5 DEF RoleUndisturbed, RoleAlone

LEMMA RoleSerialNext == RoleSerialInv /\ [RoleCache!Next]_(RoleCache!vars) => RoleSerialInv'
<1> SUFFICES ASSUME RoleSerialInv, [RoleCache!Next]_(RoleCache!vars) PROVE RoleSerialInv'
  OBVIOUS
<1>1. RoleIInv /\ RoleIInv'
  BY RoleTypeNext DEF RoleSerialInv
<1> SUFFICES ASSUME ~disturbed' PROVE RoleUndisturbed'
  BY <1>1 DEF RoleSerialInv
<1>2. ~disturbed /\ RoleUndisturbed
  <2> SUFFICES ~disturbed
    BY DEF RoleSerialInv
  <2>1. (\E r \in Roles : RoleCache!createRole(r))
        \/ (\E u \in Users : RoleCache!Expire(u)) => ~disturbed
    BY DEF RoleCache!createRole, RoleCache!Expire
  <2>2. ASSUME NEW c \in Calls, \/ RoleCache!LookupLoad(c) \/ RoleCache!LookupFill(c) \/ RoleCache!ReplaceWrite(c) \/ RoleCache!DeleteWrite(c)
                                \/ RoleCache!AssignWrite(c) \/ RoleCache!RemoveWrite(c) \/ RoleCache!invalidateUser(c)
                                \/ RoleCache!InvalidateList(c) \/ RoleCache!InvalidateDrop(c) \/ RoleCache!Abort(c)
        PROVE  ~disturbed
    BY <2>2 DEF RoleCache!LookupLoad, RoleCache!LookupFill, RoleCache!ReplaceWrite,
       RoleCache!DeleteWrite, RoleCache!AssignWrite, RoleCache!RemoveWrite,
       RoleCache!invalidateUser, RoleCache!InvalidateList, RoleCache!InvalidateDrop,
       RoleCache!Abort
  <2>3. ASSUME NEW c \in Calls, NEW u \in Users, RoleCache!LookupMiss(c, u) PROVE ~disturbed
    BY <2>3 DEF RoleCache!LookupMiss, RoleCache!Start
  <2>4. ASSUME NEW c \in Calls, NEW r \in Roles, RoleCache!DeleteCheck(c, r) PROVE ~disturbed
    BY <2>4 DEF RoleCache!DeleteCheck, RoleCache!Start
  <2>5. ASSUME NEW c \in Calls, NEW r \in Roles, NEW p \in SUBSET Permits,
               RoleCache!ReplaceCheck(c, r, p)
        PROVE ~disturbed
    BY <2>5 DEF RoleCache!ReplaceCheck, RoleCache!Start
  <2>6. ASSUME NEW c \in Calls, NEW u \in Users, NEW r \in Roles,
               RoleCache!AssignCheck(c, u, r) \/ RoleCache!RemoveCheck(c, u, r)
        PROVE ~disturbed
    BY <2>6 DEF RoleCache!AssignCheck, RoleCache!RemoveCheck, RoleCache!Start
  <2>7. CASE UNCHANGED RoleCache!vars
    BY <2>7 DEF RoleCache!vars
  <2> QED
    BY <2>1, <2>2, <2>3, <2>4, <2>5, <2>6, <2>7 DEF RoleCache!Next
<1>3. ASSUME NEW c \in Calls, NEW u \in Users, RoleCache!LookupMiss(c, u) PROVE RoleUndisturbed'
  <2>1. [RoleCache!NoCall EXCEPT !.do = "load", !.user = u].do = "load"
    BY DEF RoleCache!NoCall
  <2> QED
    BY <1>1, <1>2, <1>3, <2>1, RoleSerialStart DEF RoleCache!LookupMiss
<1>4. ASSUME NEW c \in Calls, NEW u \in Users, NEW r \in Roles, RoleCache!AssignCheck(c, u,
             r) \/ RoleCache!RemoveCheck(c, u, r)
      PROVE  RoleUndisturbed'
  <2>1. \A do \in {"assign", "remove"} : [RoleCache!NoCall EXCEPT !.do = do, !.user = u, !.role = r].do = do
    BY DEF RoleCache!NoCall
  <2> QED
    BY <1>1, <1>2, <1>4, <2>1, RoleSerialStart DEF RoleCache!AssignCheck,
       RoleCache!RemoveCheck
<1>5. ASSUME NEW c \in Calls, NEW r \in Roles, NEW p \in SUBSET Permits,
             RoleCache!ReplaceCheck(c, r, p)
      PROVE  RoleUndisturbed'
  <2>1. [RoleCache!NoCall EXCEPT !.do = "replace", !.role = r, !.perms = p].do = "replace"
    BY DEF RoleCache!NoCall
  <2> QED
    BY <1>1, <1>2, <1>5, <2>1, RoleSerialStart DEF RoleCache!ReplaceCheck
<1>6. ASSUME NEW c \in Calls, NEW r \in Roles, RoleCache!DeleteCheck(c, r)
      PROVE  RoleUndisturbed'
  <2> DEFINE new == [RoleCache!NoCall EXCEPT !.do = "delete", !.role = r]
  <2>1. new.do = "delete" /\ new.role = r /\ RoleCache!Start(c, new)
        /\ \A u \in Users : r \notin holds[u]
    BY <1>6 DEF RoleCache!NoCall, RoleCache!DeleteCheck
  <2> HIDE DEF new
  <2> QED
    BY <1>1, <1>2, <2>1, RoleSerialStart
<1>7. ASSUME NEW c \in Calls,
             \/ RoleCache!LookupLoad(c) \/ RoleCache!LookupFill(c) \/ RoleCache!ReplaceWrite(c) \/ RoleCache!DeleteWrite(c)
             \/ RoleCache!AssignWrite(c) \/ RoleCache!RemoveWrite(c)
             \/ RoleCache!invalidateUser(c) \/ RoleCache!InvalidateList(c) \/ RoleCache!InvalidateDrop(c) \/ RoleCache!Abort(c)
      PROVE  RoleUndisturbed'
  BY <1>1, <1>2, <1>7, RoleSerialLookup, RoleSerialRoleWrite, RoleSerialUserWrite,
     RoleSerialInvalidate DEF RoleCache!Abort
<1>8. CASE UNCHANGED RoleCache!vars
  BY <1>2, <1>8 DEF RoleCache!vars, RoleCache!tables, RoleUndisturbed, RoleAlone,
     RoleCacheFollows, RoleInformed, RoleDropped, RoleCache!Current
<1> QED
  BY <1>1, <1>2, <1>3, <1>4, <1>5, <1>6, <1>7, <1>8, RoleSerialWorld DEF RoleCache!Next

LEMMA RoleSerialInit ==
  ASSUME SystemRoles \subseteq Roles
  PROVE  RoleCache!Init => RoleSerialInv
<1> SUFFICES ASSUME RoleCache!Init PROVE RoleSerialInv
  OBVIOUS
<1>1. holds = assigned /\ \A c \in Calls : call[c] = RoleCache!NoCall
  BY DEF RoleCache!Init
<1>2. \A u \in Users : cache[u] = {}
  BY DEF RoleCache!Init
<1>3. RoleUndisturbed
  BY <1>1, <1>2, RoleNoCallOK DEF RoleUndisturbed, RoleAlone, RoleCacheFollows, RoleInformed
<1> QED
  BY <1>3, RoleTypeInit DEF RoleSerialInv

LEMMA RoleSerialCurrent == RoleSerialInv => RoleCache!CacheIsCurrent
<1> SUFFICES ASSUME RoleSerialInv, ~disturbed, ~RoleCache!Busy, NEW u \in Users
             PROVE  /\ \A p \in cache[u], q \in Permits : RoleCache!Allowed(p, {q}) <=> q \in RoleCache!Current(u)
                    /\ holds[u] = assigned[u]
  BY DEF RoleCache!CacheIsCurrent
<1>1. \A p \in cache[u] : p = RoleCache!Current(u)
  BY RoleAtRest DEF RoleSerialInv
<1>2. holds = assigned
  BY DEF RoleSerialInv, RoleUndisturbed
<1> QED
  BY <1>1, <1>2 DEF RoleCache!Allowed
-------------------------------------------------------------------------------
(* Documents and signatures: what a call in flight has checked or written      *)
(* stays true until it ends, whatever the other calls and the hourly job do.   *)

SignCallBacked(k) ==
  /\ k.do \in {"store", "insert"} => k.on \in Documents /\ k.n > 0
  /\ k.do = "insert" => k.on \in stored
  /\ k.do \in {"create", "commit_create"} =>
       k.of \in Requests /\ k.on \in Documents /\ version[k.on] > 0
  /\ k.do \notin {"idle", "store", "insert", "create", "commit_create"} =>
       k.of \in Requests /\ status[k.of] # "NONE"
  /\ k.do = "commit_create" => <<k.of, "PENDING">> \in audit
  /\ k.do = "commit_sign" => <<k.of, "SIGNED">> \in audit
  /\ k.do = "commit_decline" => <<k.of, "DECLINED">> \in audit

SignCallsBacked == \A c \in Calls : SignCallBacked(call[c])

SignJobBacked ==
  /\ \A r \in batch : status[r] # "NONE"
  /\ entering # Sign!Nothing => entering \in batch

\* The last version is a maximum: the versions are bounded.
SignVersionsBounded == \E n \in Nat : \A d \in Documents : version[d] <= n

SignIInv ==
  Sign!TypeOK /\ SignCallsBacked /\ SignJobBacked /\ SignVersionsBounded
  /\ Sign!RecordsAreBacked

-------------------------------------------------------------------------------
\* uploadDocument finds the last version with an aggregate: Max of a bounded set of
\* naturals is a member of it, and a bound.
LEMMA SignMaxOfNaturals ==
  ASSUME NEW S \in SUBSET Nat, S # {}, NEW n \in Nat, \A x \in S : x <= n
  PROVE  Sign!Max(S) \in S /\ \A x \in S : x <= Sign!Max(S)
<1> DEFINE T == {m \in Nat : \A x \in S : x <= m}
<1>1. PICK m \in T : \A k \in T : ~(<<k, m>> \in OpToRel(<, Nat))
  <2>1. T \subseteq Nat /\ T # {}
    OBVIOUS
  <2> QED
    BY <2>1, WFMin, NatLessThanWellFounded
<1>2. \A k \in T : m <= k
  <2>1. \A k \in T : ~(k < m)
    BY <1>1, Zenon DEF OpToRel
  <2> QED
    BY <2>1
<1>3. m \in S
  <2>1. CASE m = 0
    <3>1. PICK x \in S : TRUE
      OBVIOUS
    <3>2. x \in Nat /\ x <= 0
      BY <2>1, <3>1
    <3> QED
      BY <2>1, <3>1, <3>2
  <2>2. CASE m # 0
    <3>1. m - 1 \in Nat /\ ~(m <= m - 1)
      BY <2>2
    <3>2. m - 1 \notin T
      BY <1>2, <3>1
    <3>3. PICK x \in S : ~(x <= m - 1)
      BY <3>1, <3>2
    <3>4. x <= m /\ x \in Nat
      BY <3>3
    <3> QED
      BY <3>1, <3>3, <3>4
  <2> QED
    BY <2>1, <2>2
<1>4. m \in S /\ \A x \in S : m >= x
  BY <1>3
<1>5. Sign!Max(S) \in S /\ \A x \in S : Sign!Max(S) >= x
  BY <1>4 DEF Sign!Max
<1>6. \A x \in S : x <= Sign!Max(S)
  BY <1>5
<1> QED
  BY <1>5, <1>6

\* The version an upload is given exceeds 0 and every version there is.
LEMMA SignNextVersion ==
  ASSUME Sign!TypeOK, SignVersionsBounded, NEW d \in Documents
  PROVE  LET n == Sign!Max({version[b] : b \in Documents}) + 1 IN n \in Nat /\ n > 0
<1> DEFINE S == {version[b] : b \in Documents}
<1>1. S \in SUBSET Nat /\ S # {}
  BY DEF Sign!TypeOK
<1>2. PICK n \in Nat : \A x \in S : x <= n
  BY DEF SignVersionsBounded
<1>3. Sign!Max(S) \in Nat
  BY <1>1, <1>2, SignMaxOfNaturals
<1>4. \A m \in Nat : m + 1 \in Nat /\ m + 1 > 0
  OBVIOUS
<1> QED
  BY <1>3, <1>4, Zenon

LEMMA SignInitIInv == Sign!Init => SignIInv
<1> SUFFICES ASSUME Sign!Init PROVE SignIInv
  OBVIOUS
<1>1. Sign!NoCall \in [do : Sign!Steps, of : Requests \cup {Sign!Nothing}, on : Documents \cup {Sign!Nothing}, n : Nat]
  BY DEF Sign!NoCall, Sign!Steps
<1>2. Sign!TypeOK
  BY <1>1 DEF Sign!Init, Sign!TypeOK, Sign!Statuses
<1>3. SignCallsBacked /\ SignJobBacked
  BY DEF Sign!Init, SignCallsBacked, SignCallBacked, Sign!NoCall, SignJobBacked
<1>4. SignVersionsBounded /\ Sign!RecordsAreBacked
  BY DEF Sign!Init, SignVersionsBounded, Sign!RecordsAreBacked
<1> QED
  BY <1>2, <1>3, <1>4 DEF SignIInv

\* A call that begins is well typed and backed; nothing but the calls changes.
LEMMA SignStartKeeps ==
  ASSUME SignIInv, NEW c \in Calls,
         NEW next \in [do : Sign!Steps, of : Requests \cup {Sign!Nothing},
                       on : Documents \cup {Sign!Nothing}, n : Nat],
         Sign!Start(c, next), SignCallBacked(next)
  PROVE  SignIInv'
<1> USE DEF SignIInv, Sign!Start, Sign!files, Sign!rows, Sign!job
<1>1. Sign!TypeOK'
  BY DEF Sign!TypeOK
<1>2. SignCallsBacked'
  BY DEF Sign!TypeOK, SignCallsBacked, SignCallBacked
<1>3. SignJobBacked' /\ SignVersionsBounded' /\ Sign!RecordsAreBacked'
  BY DEF SignJobBacked, SignVersionsBounded, Sign!RecordsAreBacked
<1> QED
  BY <1>1, <1>2, <1>3

LEMMA SignArriveKeeps ==
  ASSUME SignIInv, NEW c \in Calls, Sign!Arrive(c)
  PROVE  SignIInv'
<1> USE DEF Sign!Steps, SignCallBacked
<1>1. ASSUME NEW d \in Documents, Sign!UploadCheck(c, d) PROVE SignIInv'
  <2> DEFINE k == [do |-> "store", of |-> Sign!Nothing, on |-> d,
                   n |-> Sign!Max({version[b] : b \in Documents}) + 1]
  <2>1. k.n \in Nat /\ k.n > 0
    BY SignNextVersion DEF SignIInv
  <2>2. Sign!Start(c, k)
    BY <1>1 DEF Sign!UploadCheck
  <2> HIDE DEF Sign!Start
  <2> QED
    BY <2>1, <2>2, SignStartKeeps
<1>2. ASSUME NEW d \in Documents, NEW r \in Requests, Sign!CreateCheck(c, r, d) PROVE SignIInv'
  BY <1>2, SignStartKeeps DEF Sign!CreateCheck
<1>3. ASSUME NEW r \in Requests, Sign!SignCheck(c, r) \/ Sign!DeclineCheck(c, r) PROVE SignIInv'
  <2>1. status[r] = "PENDING"
    BY <1>3 DEF Sign!SignCheck, Sign!DeclineCheck, Sign!Answer
  <2>2. PICK step \in {"sign", "decline", "expire_sign", "expire_decline"} :
          Sign!Start(c, [Sign!NoCall EXCEPT !.do = step, !.of = r])
    <3>1. CASE r \in due
      BY <1>3, <3>1 DEF Sign!SignCheck, Sign!DeclineCheck, Sign!Answer
    <3>2. CASE r \notin due
      BY <1>3, <3>2 DEF Sign!SignCheck, Sign!DeclineCheck, Sign!Answer
    <3> QED
      BY <3>1, <3>2
  <2> DEFINE k == [Sign!NoCall EXCEPT !.do = step, !.of = r]
  <2>3. /\ k \in [do : Sign!Steps, of : Requests \cup {Sign!Nothing},
                  on : Documents \cup {Sign!Nothing}, n : Nat]
        /\ k.do = step /\ k.of = r
    BY DEF Sign!NoCall
  <2>4. SignCallBacked(k)
    BY <2>1, <2>3
  <2> HIDE DEF k
  <2> QED
    BY <2>2, <2>3, <2>4, SignStartKeeps DEF k
<1> QED
  BY <1>1, <1>2, <1>3 DEF Sign!Arrive

\* What may change without taking from any call what it relies on: files, rows and
\* audit rows come and none goes.
SignGrows ==
  /\ stored \subseteq stored' /\ audit \subseteq audit'
  /\ \A d \in Documents : version[d] > 0 => version'[d] > 0
  /\ \A r \in Requests : status[r] # "NONE" => status'[r] # "NONE"

\* One call goes on or ends while the records grow: every call stays backed.
LEMMA SignCallsStayBacked ==
  ASSUME SignCallsBacked, SignGrows, NEW c \in Calls, SignCallBacked(call[c])',
         \A b \in Calls \ {c} : call'[b] = call[b]
  PROVE  SignCallsBacked'
<1> SUFFICES ASSUME NEW b \in Calls PROVE SignCallBacked(call[b])'
  BY DEF SignCallsBacked
<1>1. CASE b = c
  BY <1>1
<1>2. CASE b # c
  <2>1. call'[b] = call[b] /\ SignCallBacked(call[b])
    BY <1>2 DEF SignCallsBacked
  <2> QED
    BY <2>1 DEF SignCallBacked, SignGrows
<1> QED
  BY <1>1, <1>2

\* The same when it ends.
LEMMA SignCallsEndBacked ==
  ASSUME SignIInv, SignGrows, NEW c \in Calls, Sign!Finish(c)
  PROVE  SignCallsBacked'
<1>1. call'[c] = Sign!NoCall /\ \A b \in Calls \ {c} : call'[b] = call[b]
  BY DEF SignIInv, Sign!TypeOK, Sign!Finish
<1>2. SignCallBacked(call[c])'
  BY <1>1 DEF SignCallBacked, Sign!NoCall
<1> QED
  BY <1>1, <1>2, SignCallsStayBacked DEF SignIInv

\* Every step of a call keeps the invariant, whatever was done since the last one.
LEMMA SignHandleKeeps ==
  ASSUME SignIInv, NEW c \in Calls, Sign!Handle(c), Sign!Nothing \notin Documents
  PROVE  SignIInv'
<1> USE DEF Sign!files, Sign!rows, Sign!job, Sign!Goto, Sign!Finish
<1> DEFINE k == call[c]
<1>0. /\ k \in [do : Sign!Steps, of : Requests \cup {Sign!Nothing}, on : Documents \cup {Sign!Nothing}, n : Nat]
      /\ Sign!NoCall \in [do : Sign!Steps, of : Requests \cup {Sign!Nothing}, on : Documents \cup {Sign!Nothing}, n : Nat]
      /\ SignCallBacked(k)
  BY DEF SignIInv, Sign!TypeOK, SignCallsBacked, Sign!NoCall, Sign!Steps
<1>1. CASE Sign!UploadStore(c)
  <2>1. SignGrows
    BY <1>1 DEF Sign!UploadStore, SignGrows
  <2>2. Sign!TypeOK'
    BY <1>0, <1>1 DEF SignIInv, Sign!TypeOK, Sign!UploadStore, SignCallBacked, Sign!Steps
  <2>3. SignCallBacked(call[c])'
    BY <1>0, <1>1 DEF SignIInv, Sign!TypeOK, Sign!UploadStore, SignCallBacked
  <2>4. SignCallsBacked'
    BY <1>1, <2>1, <2>3, SignCallsStayBacked DEF SignIInv, Sign!TypeOK, Sign!UploadStore
  <2>5. SignJobBacked' /\ SignVersionsBounded' /\ Sign!RecordsAreBacked'
    BY <1>1 DEF SignIInv, Sign!UploadStore, SignJobBacked, SignVersionsBounded,
       Sign!RecordsAreBacked
  <2> QED
    BY <2>2, <2>4, <2>5 DEF SignIInv
<1>2. CASE Sign!UploadInsert(c)
  <2>1. SignGrows
    BY <1>0, <1>2 DEF SignIInv, Sign!TypeOK, Sign!UploadInsert, SignGrows, SignCallBacked
  <2>2. Sign!TypeOK'
    BY <1>0, <1>2 DEF SignIInv, Sign!TypeOK, Sign!UploadInsert
  <2>3. SignCallsBacked'
    BY <1>2, <2>1, SignCallsEndBacked DEF Sign!UploadInsert
  <2>4. SignVersionsBounded'
    <3>1. PICK n \in Nat : \A d \in Documents : version[d] <= n
      BY DEF SignIInv, SignVersionsBounded
    <3>2. \A d \in Documents : version'[d] <= n + k.n
      BY <1>0, <1>2, <3>1 DEF SignIInv, Sign!TypeOK, Sign!UploadInsert
    <3>3. n + k.n \in Nat
      BY <1>0
    <3> QED
      BY <3>2, <3>3 DEF SignVersionsBounded
  <2>5. SignJobBacked' /\ Sign!RecordsAreBacked'
    BY <1>0, <1>2, <2>1 DEF SignIInv, Sign!TypeOK, Sign!UploadInsert, SignJobBacked,
       Sign!RecordsAreBacked, SignCallBacked, SignGrows
  <2> QED
    BY <2>2, <2>3, <2>4, <2>5 DEF SignIInv
<1>3. ASSUME NEW step \in Sign!Steps \ {"idle", "store", "insert"}, NEW next \in Sign!Steps,
             NEW action \in Sign!Statuses, Sign!RecordAudit(c, step, next, action),
             step = "create" => next = "commit_create" /\ action = "PENDING",
             step = "sign" => next = "commit_sign" /\ action = "SIGNED",
             step = "decline" => next = "commit_decline" /\ action = "DECLINED",
             step = "log_expired" => next = "idle",
             step \in {"create", "sign", "decline", "log_expired"}
      PROVE SignIInv'
  <2>1. k.do = step /\ k.of \in Requests
    BY <1>0, <1>3 DEF Sign!RecordAudit, SignCallBacked
  <2>2. SignGrows
    BY <1>3 DEF Sign!RecordAudit, SignGrows
  <2>3. Sign!TypeOK'
    BY <1>0, <1>3, <2>1 DEF SignIInv, Sign!TypeOK, Sign!RecordAudit
  <2>4. SignCallsBacked'
    <3>1. CASE next = "idle"
      BY <1>3, <2>2, <3>1, SignCallsEndBacked DEF Sign!RecordAudit
    <3>2. CASE next # "idle"
      <4>1. SignCallBacked(call[c])'
        BY <1>0, <1>3, <2>1, <3>2 DEF SignIInv, Sign!TypeOK, Sign!RecordAudit,
           SignCallBacked
      <4> QED
        BY <1>3, <2>2, <3>2, <4>1, SignCallsStayBacked DEF SignIInv, Sign!TypeOK,
           Sign!RecordAudit
    <3> QED
      BY <3>1, <3>2
  <2>5. SignJobBacked' /\ SignVersionsBounded' /\ Sign!RecordsAreBacked'
    BY <1>3 DEF SignIInv, Sign!RecordAudit, SignJobBacked, SignVersionsBounded,
       Sign!RecordsAreBacked
  <2> QED
    BY <2>3, <2>4, <2>5 DEF SignIInv
<1>4. CASE Sign!CreateAudit(c) \/ Sign!SignAudit(c) \/ Sign!DeclineAudit(c) \/ Sign!ExpiredAudit(c)
  BY <1>3, <1>4 DEF Sign!CreateAudit, Sign!SignAudit, Sign!DeclineAudit,
     Sign!ExpiredAudit, Sign!Steps, Sign!Statuses
<1>5. CASE Sign!CreateCommit(c)
  <2>1. k.do = "commit_create" /\ k.of \in Requests /\ k.on \in Documents /\ version[k.on] > 0
        /\ <<k.of, "PENDING">> \in audit
    BY <1>0, <1>5 DEF Sign!CreateCommit, SignCallBacked
  <2>2. SignGrows
    BY <1>5, <2>1 DEF SignIInv, Sign!TypeOK, Sign!CreateCommit, SignGrows
  <2>3. Sign!TypeOK'
    BY <1>0, <1>5, <2>1 DEF SignIInv, Sign!TypeOK, Sign!CreateCommit, Sign!Statuses
  <2>4. SignCallsBacked'
    BY <1>5, <2>2, SignCallsEndBacked DEF Sign!CreateCommit
  <2>5. SignJobBacked' /\ SignVersionsBounded'
    BY <1>5, <2>2 DEF SignIInv, Sign!TypeOK, Sign!CreateCommit, SignJobBacked,
       SignVersionsBounded, SignGrows
  <2>6. Sign!RecordsAreBacked'
    BY <1>5, <2>1 DEF SignIInv, Sign!TypeOK, Sign!CreateCommit, Sign!RecordsAreBacked
  <2> QED
    BY <2>3, <2>4, <2>5, <2>6 DEF SignIInv
<1>6. ASSUME NEW new \in {"SIGNED", "DECLINED"}, NEW signed \in SUBSET {k.of},
             k.do \in {"commit_sign", "commit_decline"},
             Sign!Resolve(c, {k.do}, new, signed),
             <<k.of, new>> \in audit, new # "SIGNED" => signed = {}
      PROVE SignIInv'
  <2>1. k.of \in Requests /\ status[k.of] # "NONE"
    BY <1>0, <1>6 DEF SignCallBacked
  <2>2. SignGrows
    BY <1>6, <2>1 DEF SignIInv, Sign!TypeOK, Sign!Resolve, SignGrows
  <2>3. Sign!TypeOK'
    BY <1>0, <1>6, <2>1 DEF SignIInv, Sign!TypeOK, Sign!Resolve, Sign!Statuses
  <2>4. SignCallsBacked'
    BY <1>6, <2>2, SignCallsEndBacked DEF Sign!Resolve
  <2>5. SignJobBacked' /\ SignVersionsBounded'
    BY <1>6, <2>2 DEF SignIInv, Sign!TypeOK, Sign!Resolve, SignJobBacked,
       SignVersionsBounded, SignGrows
  <2>6. Sign!RecordsAreBacked'
    BY <1>6, <2>1 DEF SignIInv, Sign!TypeOK, Sign!Resolve, Sign!RecordsAreBacked
  <2> QED
    BY <2>3, <2>4, <2>5, <2>6 DEF SignIInv
<1>7. CASE Sign!SignCommit(c) \/ Sign!DeclineCommit(c)
  BY <1>0, <1>6, <1>7 DEF Sign!SignCommit, Sign!DeclineCommit, Sign!Resolve, SignCallBacked
<1>8. CASE Sign!ExpireInline(c)
  <2>1. k.of \in Requests /\ status[k.of] # "NONE"
    BY <1>0, <1>8 DEF Sign!ExpireInline, SignCallBacked
  <2>2. SignGrows
    BY <1>8, <2>1 DEF SignIInv, Sign!TypeOK, Sign!ExpireInline, SignGrows
  <2>3. Sign!TypeOK'
    BY <1>0, <1>8, <2>1 DEF SignIInv, Sign!TypeOK, Sign!ExpireInline, Sign!Statuses,
       Sign!Steps
  <2>4. SignCallsBacked'
    <3>1. CASE k.do = "expire_sign"
      <4>1. SignCallBacked(call[c])'
        BY <1>0, <1>8, <2>1, <2>2, <3>1 DEF SignIInv, Sign!TypeOK, Sign!ExpireInline,
           SignCallBacked, SignGrows
      <4> QED
        BY <1>8, <2>2, <3>1, <4>1, SignCallsStayBacked DEF SignIInv, Sign!TypeOK,
           Sign!ExpireInline
    <3>2. CASE k.do # "expire_sign"
      BY <1>8, <2>2, <3>2, SignCallsEndBacked DEF Sign!ExpireInline
    <3> QED
      BY <3>1, <3>2
  <2>5. SignJobBacked' /\ SignVersionsBounded'
    BY <1>8, <2>2 DEF SignIInv, Sign!TypeOK, Sign!ExpireInline, SignJobBacked,
       SignVersionsBounded, SignGrows
  <2>6. Sign!RecordsAreBacked'
    BY <1>8, <2>1 DEF SignIInv, Sign!TypeOK, Sign!ExpireInline, Sign!RecordsAreBacked
  <2> QED
    BY <2>3, <2>4, <2>5, <2>6 DEF SignIInv
<1> QED
  BY <1>1, <1>2, <1>4, <1>5, <1>7, <1>8 DEF Sign!Handle

\* The hourly job, time and failures keep it too.
LEMMA SignOthersKeep ==
  ASSUME SignIInv,
         \/ Sign!Sweep \/ Sign!SweepAbort \/ UNCHANGED Sign!vars
         \/ \E r \in Requests : Sign!TimePasses(r)
         \/ \E c \in Calls : Sign!Abort(c)
  PROVE  SignIInv'
<1> USE DEF Sign!files, Sign!rows, Sign!job
<1>1. CASE Sign!SweepList
  <2>1. Sign!TypeOK'
    BY <1>1 DEF SignIInv, Sign!TypeOK, Sign!SweepList, Sign!Stale
  <2>2. SignCallsBacked'
    BY <1>1 DEF SignIInv, Sign!SweepList, SignCallsBacked, SignCallBacked
  <2>3. SignJobBacked' /\ SignVersionsBounded' /\ Sign!RecordsAreBacked'
    BY <1>1 DEF SignIInv, Sign!SweepList, Sign!Stale, SignJobBacked, SignVersionsBounded,
       Sign!RecordsAreBacked
  <2> QED
    BY <2>1, <2>2, <2>3 DEF SignIInv
<1>2. ASSUME NEW r \in Requests, Sign!SweepAudit(r) PROVE SignIInv'
  <2>1. Sign!TypeOK'
    BY <1>2 DEF SignIInv, Sign!TypeOK, Sign!SweepAudit, Sign!Statuses
  <2>2. SignCallsBacked'
    BY <1>2 DEF SignIInv, Sign!SweepAudit, SignCallsBacked, SignCallBacked
  <2>3. SignJobBacked' /\ SignVersionsBounded' /\ Sign!RecordsAreBacked'
    BY <1>2 DEF SignIInv, Sign!SweepAudit, SignJobBacked, SignVersionsBounded,
       Sign!RecordsAreBacked
  <2> QED
    BY <2>1, <2>2, <2>3 DEF SignIInv
<1>3. CASE Sign!SweepCommit
  <2>1. entering \in Requests /\ status[entering] # "NONE"
    BY <1>3 DEF SignIInv, Sign!TypeOK, Sign!SweepCommit, SignJobBacked
  <2>2. Sign!TypeOK'
    BY <1>3, <2>1 DEF SignIInv, Sign!TypeOK, Sign!SweepCommit, Sign!Statuses
  <2>3. SignGrows
    BY <1>3, <2>1 DEF SignIInv, Sign!TypeOK, Sign!SweepCommit, SignGrows
  <2>4. SignCallsBacked'
    BY <1>3, <2>3 DEF SignIInv, Sign!SweepCommit, SignCallsBacked, SignCallBacked, SignGrows
  <2>5. SignJobBacked' /\ SignVersionsBounded'
    BY <1>3, <2>3 DEF SignIInv, Sign!TypeOK, Sign!SweepCommit, SignJobBacked,
       SignVersionsBounded, SignGrows
  <2>6. Sign!RecordsAreBacked'
    BY <1>3, <2>1 DEF SignIInv, Sign!TypeOK, Sign!SweepCommit, Sign!RecordsAreBacked
  <2> QED
    BY <2>2, <2>4, <2>5, <2>6 DEF SignIInv
<1>4. CASE Sign!SweepAbort
  <2>1. Sign!TypeOK'
    BY <1>4 DEF SignIInv, Sign!TypeOK, Sign!SweepAbort
  <2>2. SignCallsBacked'
    BY <1>4 DEF SignIInv, Sign!SweepAbort, SignCallsBacked, SignCallBacked
  <2>3. SignJobBacked' /\ SignVersionsBounded' /\ Sign!RecordsAreBacked'
    BY <1>4 DEF SignIInv, Sign!SweepAbort, SignJobBacked, SignVersionsBounded,
       Sign!RecordsAreBacked
  <2> QED
    BY <2>1, <2>2, <2>3 DEF SignIInv
<1>5. ASSUME UNCHANGED <<Sign!files, Sign!rows, audit, call, Sign!job, overlap>>,
             due' \subseteq Requests
      PROVE  SignIInv'
  BY <1>5 DEF SignIInv, Sign!TypeOK, SignCallsBacked, SignCallBacked, SignJobBacked,
     SignVersionsBounded, Sign!RecordsAreBacked
<1>6. ASSUME NEW r \in Requests, Sign!TimePasses(r) PROVE SignIInv'
  BY <1>5, <1>6 DEF Sign!TimePasses, SignIInv, Sign!TypeOK
<1>7. CASE UNCHANGED Sign!vars
  BY <1>5, <1>7 DEF Sign!vars, SignIInv, Sign!TypeOK
<1>8. ASSUME NEW c \in Calls, Sign!Abort(c) PROVE SignIInv'
  <2>1. Sign!TypeOK'
    BY <1>8 DEF SignIInv, Sign!TypeOK, Sign!Abort, Sign!Finish, Sign!NoCall, Sign!Steps
  <2>2. SignGrows
    BY <1>8 DEF Sign!Abort, SignGrows
  <2>3. SignCallsBacked'
    BY <1>8, <2>2, SignCallsEndBacked DEF Sign!Abort
  <2>4. SignJobBacked' /\ SignVersionsBounded' /\ Sign!RecordsAreBacked'
    BY <1>8 DEF SignIInv, Sign!Abort, SignJobBacked, SignVersionsBounded,
       Sign!RecordsAreBacked
  <2> QED
    BY <2>1, <2>3, <2>4 DEF SignIInv
<1> QED
  BY <1>1, <1>2, <1>3, <1>4, <1>6, <1>7, <1>8 DEF Sign!Sweep

LEMMA SignNextIInv ==
  ASSUME SignIInv, [Sign!Next]_(Sign!vars), Sign!Nothing \notin Documents
  PROVE  SignIInv'
BY SignArriveKeeps, SignHandleKeeps, SignOthersKeep DEF Sign!Next, Sign!vars

-------------------------------------------------------------------------------
(* Signatures, as long as no calls overlap: one call or the job is at work,    *)
(* what it checked still holds, and the rows agree with each other.            *)

SignInForce(k) ==
  /\ k.do \in {"create", "commit_create"} =>
       /\ status[k.of] = "NONE"
       /\ \A p \in Requests : status[p] = "PENDING" => about[p] # k.on
  /\ k.do \in {"sign", "commit_sign", "decline", "commit_decline"} => status[k.of] = "PENDING"
  /\ k.do \in {"expire_sign", "expire_decline"} => status[k.of] = "PENDING" /\ k.of \in due

SignOneAtATime ==
  \A c \in Calls : call[c] # Sign!NoCall =>
    batch = {} /\ \A b \in Calls \ {c} : call[b] = Sign!NoCall

SignChecksHold ==
  /\ \A c \in Calls : SignInForce(call[c])
  /\ \A r \in batch : status[r] = "PENDING" /\ r \in due

SignRowsAgree ==
  /\ \A r \in signature : status[r] = "SIGNED"
  /\ \A r \in Requests :
       /\ status[r] = "EXPIRED" => r \in due
       /\ \A p \in Requests :
            status[r] = "PENDING" /\ status[p] = "PENDING" /\ about[r] = about[p] => p = r

SignUndisturbed == SignOneAtATime /\ SignChecksHold /\ SignRowsAgree

SignSerialInv == SignIInv /\ (~overlap => SignUndisturbed)

SignFinal(r) == status[r] \in {"SIGNED", "DECLINED", "EXPIRED"}

\* What a step of undisturbed calls does: it leads to undisturbed calls and changes no
\* answer.
SignStepsWell == SignUndisturbed' /\ \A r \in Requests : SignFinal(r) => status'[r] = status[r]

LEMMA SignInitSerial == Sign!Init => SignSerialInv
<1> SUFFICES ASSUME Sign!Init PROVE SignSerialInv
  OBVIOUS
<1>1. SignUndisturbed
  BY DEF Sign!Init, SignUndisturbed, SignOneAtATime, SignChecksHold, SignInForce,
     SignRowsAgree, Sign!NoCall
<1> QED
  BY <1>1, SignInitIInv DEF SignSerialInv

\* Calls and the job only ever add to overlap.
LEMMA SignOverlapStays ==
  ASSUME SignIInv, [Sign!Next]_(Sign!vars), overlap
  PROVE  overlap'
<1>1. ASSUME NEW c \in Calls, Sign!Arrive(c) PROVE overlap'
  BY <1>1 DEF Sign!Arrive, Sign!UploadCheck, Sign!CreateCheck, Sign!SignCheck,
     Sign!DeclineCheck, Sign!Answer, Sign!Start
<1>2. ASSUME NEW c \in Calls, Sign!Handle(c) \/ Sign!Abort(c) PROVE overlap'
  BY <1>2 DEF Sign!Handle, Sign!UploadStore, Sign!UploadInsert, Sign!CreateAudit,
     Sign!SignAudit, Sign!DeclineAudit, Sign!ExpiredAudit, Sign!RecordAudit,
     Sign!CreateCommit, Sign!SignCommit, Sign!DeclineCommit, Sign!Resolve,
     Sign!ExpireInline, Sign!Abort
<1>3. CASE Sign!Sweep \/ Sign!SweepAbort \/ \E r \in Requests : Sign!TimePasses(r)
  BY <1>3 DEF Sign!Sweep, Sign!SweepList, Sign!SweepAudit, Sign!SweepCommit,
     Sign!SweepAbort, Sign!TimePasses
<1>4. CASE UNCHANGED Sign!vars
  BY <1>4 DEF Sign!vars
<1> QED
  BY <1>1, <1>2, <1>3, <1>4 DEF Sign!Next

\* A call that is at work is the only one, and the job is not.
LEMMA SignAlone ==
  ASSUME SignUndisturbed, NEW c \in Calls, call[c].do # "idle"
  PROVE  /\ batch = {} /\ SignInForce(call[c])
         /\ \A b \in Calls \ {c} : call[b] = Sign!NoCall
BY DEF SignUndisturbed, SignOneAtATime, SignChecksHold, Sign!NoCall

\* It stays so while the call goes on with what it checked still in force.
LEMMA SignStaysAlone ==
  ASSUME NEW c \in Calls, batch' = {}, SignInForce(call[c])',
         \A b \in Calls \ {c} : call'[b] = Sign!NoCall
  PROVE  SignOneAtATime' /\ SignChecksHold'
BY DEF SignOneAtATime, SignChecksHold, SignInForce, Sign!NoCall

LEMMA SignHandleSerial ==
  ASSUME SignIInv, SignUndisturbed, NEW c \in Calls, Sign!Handle(c)
  PROVE  SignStepsWell
<1> USE DEF Sign!files, Sign!rows, Sign!job, Sign!Goto, Sign!Finish
<1> DEFINE k == call[c]
<1>0. k.do # "idle" /\ SignCallBacked(k)
  BY DEF SignIInv, SignCallsBacked, Sign!Handle, Sign!UploadStore, Sign!UploadInsert,
     Sign!CreateAudit, Sign!SignAudit,
     Sign!DeclineAudit, Sign!ExpiredAudit, Sign!RecordAudit, Sign!CreateCommit,
     Sign!SignCommit, Sign!DeclineCommit,
     Sign!Resolve, Sign!ExpireInline
<1>1. /\ batch = {} /\ SignInForce(k) /\ SignRowsAgree
      /\ \A b \in Calls \ {c} : call[b] = Sign!NoCall
  BY <1>0, SignAlone DEF SignUndisturbed
<1>2. ASSUME UNCHANGED <<Sign!rows, due, Sign!job>>, SignInForce(call[c])',
             \A b \in Calls \ {c} : call'[b] = call[b]
      PROVE  SignStepsWell
  BY <1>1, <1>2, SignStaysAlone DEF SignStepsWell, SignUndisturbed, SignRowsAgree
<1>3. CASE Sign!UploadStore(c) \/ Sign!UploadInsert(c)
  <2>1. SignInForce(call[c])' /\ \A b \in Calls \ {c} : call'[b] = call[b]
    BY <1>3 DEF SignIInv, Sign!TypeOK, Sign!UploadStore, Sign!UploadInsert, SignInForce,
       Sign!NoCall
  <2> QED
    BY <1>2, <1>3, <2>1 DEF Sign!UploadStore, Sign!UploadInsert
<1>4. CASE Sign!CreateAudit(c) \/ Sign!SignAudit(c) \/ Sign!DeclineAudit(c) \/ Sign!ExpiredAudit(c)
  <2>1. SignInForce(call[c])' /\ \A b \in Calls \ {c} : call'[b] = call[b]
    BY <1>1, <1>4 DEF SignIInv, Sign!TypeOK, Sign!CreateAudit, Sign!SignAudit,
       Sign!DeclineAudit, Sign!ExpiredAudit,
       Sign!RecordAudit, SignInForce, Sign!NoCall
  <2> QED
    BY <1>2, <1>4, <2>1 DEF Sign!CreateAudit, Sign!SignAudit, Sign!DeclineAudit,
       Sign!ExpiredAudit, Sign!RecordAudit
<1>5. CASE Sign!CreateCommit(c)
  <2>1. k.of \in Requests /\ status[k.of] = "NONE"
        /\ \A p \in Requests : status[p] = "PENDING" => about[p] # k.on
    BY <1>0, <1>1, <1>5 DEF Sign!CreateCommit, SignCallBacked, SignInForce
  <2>2. SignRowsAgree'
    BY <1>1, <1>5, <2>1 DEF SignIInv, Sign!TypeOK, Sign!CreateCommit, SignRowsAgree
  <2>3. SignOneAtATime' /\ SignChecksHold'
    <3>1. call'[c] = Sign!NoCall /\ \A b \in Calls \ {c} : call'[b] = Sign!NoCall
      BY <1>1, <1>5 DEF SignIInv, Sign!TypeOK, Sign!CreateCommit
    <3>2. SignInForce(call[c])'
      BY <3>1 DEF SignInForce, Sign!NoCall
    <3> QED
      BY <1>1, <1>5, <3>1, <3>2, SignStaysAlone DEF Sign!CreateCommit
  <2> QED
    BY <1>5, <2>1, <2>2, <2>3 DEF SignStepsWell, SignUndisturbed, SignFinal,
       Sign!CreateCommit, SignIInv, Sign!TypeOK
<1>6. ASSUME NEW new \in {"SIGNED", "DECLINED", "EXPIRED"}, k.of \in Requests,
             status[k.of] = "PENDING", UNCHANGED <<about, due, Sign!job>>,
             status' = [status EXCEPT ![k.of] = new],
             signature' = signature \/ (new = "SIGNED" /\ signature' = signature \cup {k.of}),
             new = "EXPIRED" => k.of \in due
      PROVE  SignRowsAgree' /\ \A r \in Requests : SignFinal(r) => status'[r] = status[r]
  BY <1>1, <1>6 DEF SignIInv, Sign!TypeOK, SignRowsAgree, SignFinal
<1>7. CASE Sign!SignCommit(c) \/ Sign!DeclineCommit(c) \/ Sign!ExpireInline(c)
  <2>1. k.of \in Requests /\ status[k.of] = "PENDING"
    BY <1>0, <1>1, <1>7 DEF Sign!SignCommit, Sign!DeclineCommit, Sign!Resolve,
       Sign!ExpireInline, SignCallBacked, SignInForce
  <2>2. SignRowsAgree' /\ \A r \in Requests : SignFinal(r) => status'[r] = status[r]
    <3>1. CASE Sign!SignCommit(c)
      BY <1>6, <2>1, <3>1 DEF Sign!SignCommit, Sign!Resolve
    <3>2. CASE Sign!DeclineCommit(c)
      BY <1>6, <2>1, <3>2 DEF Sign!DeclineCommit, Sign!Resolve
    <3>3. CASE Sign!ExpireInline(c)
      BY <1>1, <1>6, <2>1, <3>3 DEF Sign!ExpireInline, SignInForce
    <3> QED
      BY <1>7, <3>1, <3>2, <3>3
  <2>3. SignInForce(call[c])' /\ \A b \in Calls \ {c} : call'[b] = call[b]
    BY <1>7 DEF SignIInv, Sign!TypeOK, Sign!SignCommit, Sign!DeclineCommit, Sign!Resolve,
       Sign!ExpireInline, SignInForce, Sign!NoCall
  <2>4. SignOneAtATime' /\ SignChecksHold'
    BY <1>1, <1>7, <2>3, SignStaysAlone DEF Sign!SignCommit, Sign!DeclineCommit,
       Sign!Resolve, Sign!ExpireInline
  <2> QED
    BY <2>2, <2>4 DEF SignStepsWell, SignUndisturbed
<1> QED
  BY <1>3, <1>4, <1>5, <1>7 DEF Sign!Handle

\* A call that begins when nothing is at work: what it has just checked is in force.
LEMMA SignArriveSerial ==
  ASSUME SignIInv, SignUndisturbed, NEW c \in Calls, Sign!Arrive(c), ~overlap'
  PROVE  SignStepsWell
<1> USE DEF Sign!files, Sign!rows, Sign!job
<1>1. ASSUME NEW next, Sign!Start(c, next), SignInForce(next) PROVE SignStepsWell
  <2>1. batch = {} /\ \A b \in Calls : call[b] = Sign!NoCall
    BY <1>1 DEF Sign!Start, Sign!Busy
  <2>2. call'[c] = next /\ \A b \in Calls \ {c} : call'[b] = Sign!NoCall
    BY <1>1, <2>1 DEF SignIInv, Sign!TypeOK, Sign!Start
  <2>3. SignInForce(call[c])' /\ batch' = {}
    BY <1>1, <2>1, <2>2 DEF Sign!Start, SignInForce
  <2> QED
    BY <1>1, <2>2, <2>3, SignStaysAlone DEF Sign!Start, SignStepsWell, SignUndisturbed,
       SignRowsAgree
<1>2. ASSUME NEW d \in Documents, Sign!UploadCheck(c, d) PROVE SignStepsWell
  BY <1>1, <1>2 DEF Sign!UploadCheck, SignInForce
<1>3. ASSUME NEW d \in Documents, NEW r \in Requests, Sign!CreateCheck(c, r, d)
      PROVE  SignStepsWell
  BY <1>1, <1>3 DEF Sign!CreateCheck, SignInForce
<1>4. ASSUME NEW r \in Requests, Sign!SignCheck(c, r) \/ Sign!DeclineCheck(c, r)
      PROVE  SignStepsWell
  <2>1. status[r] = "PENDING"
    BY <1>4 DEF Sign!SignCheck, Sign!DeclineCheck, Sign!Answer
  <2>2. ASSUME NEW step \in {"sign", "decline", "expire_sign", "expire_decline"},
               Sign!Start(c, [Sign!NoCall EXCEPT !.do = step, !.of = r]),
               step \in {"expire_sign", "expire_decline"} => r \in due
        PROVE  SignStepsWell
    <3> DEFINE k == [Sign!NoCall EXCEPT !.do = step, !.of = r]
    <3>1. k.do = step /\ k.of = r
      BY DEF Sign!NoCall
    <3>2. SignInForce(k)
      BY <2>1, <2>2, <3>1 DEF SignInForce
    <3> QED
      BY <1>1, <2>2, <3>2
  <2>3. CASE r \in due
    BY <1>4, <2>2, <2>3 DEF Sign!SignCheck, Sign!DeclineCheck, Sign!Answer
  <2>4. CASE r \notin due
    BY <1>4, <2>2, <2>4 DEF Sign!SignCheck, Sign!DeclineCheck, Sign!Answer
  <2> QED
    BY <2>3, <2>4
<1> QED
  BY <1>2, <1>3, <1>4 DEF Sign!Arrive

\* The job lists what is pending and due, alone, and nobody answers until it is done.
LEMMA SignOthersSerial ==
  ASSUME SignIInv, SignUndisturbed, ~overlap', Sign!Nothing \notin Documents,
         \/ Sign!Sweep \/ Sign!SweepAbort \/ UNCHANGED Sign!vars
         \/ \E r \in Requests : Sign!TimePasses(r)
         \/ \E c \in Calls : Sign!Abort(c)
  PROVE  SignStepsWell
<1> USE DEF Sign!files, Sign!rows, Sign!job, SignStepsWell, SignUndisturbed
<1>1. ASSUME UNCHANGED Sign!rows, due \subseteq due', SignOneAtATime', SignChecksHold'
      PROVE  SignStepsWell
  BY <1>1 DEF SignRowsAgree
<1>2. CASE Sign!SweepList
  <2>1. \A c \in Calls : call[c] = Sign!NoCall
    BY <1>2 DEF Sign!SweepList, Sign!Busy
  <2>2. SignOneAtATime' /\ SignChecksHold'
    BY <1>2, <2>1 DEF Sign!SweepList, Sign!Stale, SignOneAtATime, SignChecksHold,
       SignInForce, Sign!NoCall
  <2> QED
    BY <1>1, <1>2, <2>2 DEF Sign!SweepList
<1>3. ASSUME NEW r \in Requests, Sign!SweepAudit(r) PROVE SignStepsWell
  <2>1. SignOneAtATime' /\ SignChecksHold'
    BY <1>3 DEF Sign!SweepAudit, SignOneAtATime, SignChecksHold, SignInForce
  <2> QED
    BY <1>1, <1>3, <2>1 DEF Sign!SweepAudit
<1>4. CASE Sign!SweepCommit
  <2>1. /\ entering \in batch /\ entering \in Requests
        /\ status[entering] = "PENDING" /\ entering \in due
        /\ \A c \in Calls : call[c] = Sign!NoCall
    BY <1>4 DEF SignIInv, Sign!TypeOK, Sign!SweepCommit, SignJobBacked, SignOneAtATime,
       SignChecksHold
  <2>2. SignRowsAgree'
    BY <1>4, <2>1 DEF SignIInv, Sign!TypeOK, Sign!SweepCommit, SignRowsAgree
  <2>3. SignOneAtATime' /\ SignChecksHold'
    BY <1>4, <2>1 DEF SignIInv, Sign!TypeOK, Sign!SweepCommit, SignOneAtATime,
       SignChecksHold, SignInForce, Sign!NoCall
  <2> QED
    BY <1>4, <2>1, <2>2, <2>3 DEF SignIInv, Sign!TypeOK, Sign!SweepCommit, SignFinal
<1>5. CASE Sign!SweepAbort
  <2>1. SignOneAtATime' /\ SignChecksHold'
    BY <1>5 DEF Sign!SweepAbort, SignOneAtATime, SignChecksHold, SignInForce
  <2> QED
    BY <1>1, <1>5, <2>1 DEF Sign!SweepAbort
<1>6. ASSUME NEW r \in Requests, Sign!TimePasses(r) PROVE SignStepsWell
  <2>1. SignOneAtATime' /\ SignChecksHold'
    BY <1>6 DEF Sign!TimePasses, SignOneAtATime, SignChecksHold, SignInForce
  <2> QED
    BY <1>1, <1>6, <2>1 DEF Sign!TimePasses
<1>7. ASSUME NEW c \in Calls, Sign!Abort(c) PROVE SignStepsWell
  <2>1. SignOneAtATime' /\ SignChecksHold'
    BY <1>7 DEF SignIInv, Sign!TypeOK, Sign!Abort, Sign!Finish, SignOneAtATime,
       SignChecksHold, SignInForce, Sign!NoCall
  <2> QED
    BY <1>1, <1>7, <2>1 DEF Sign!Abort
<1>8. CASE UNCHANGED Sign!vars
  BY <1>1, <1>8 DEF Sign!vars, SignOneAtATime, SignChecksHold, SignInForce
<1> QED
  BY <1>2, <1>3, <1>4, <1>5, <1>6, <1>7, <1>8 DEF Sign!Sweep

LEMMA SignNextSerial ==
  ASSUME SignSerialInv, [Sign!Next]_(Sign!vars), Sign!Nothing \notin Documents
  PROVE  SignSerialInv' /\ (~overlap' => SignStepsWell)
<1>1. ~overlap' => SignUndisturbed
  BY SignOverlapStays DEF SignSerialInv
<1>2. ~overlap' => SignStepsWell
  BY <1>1, SignHandleSerial, SignArriveSerial, SignOthersSerial DEF SignSerialInv, Sign!Next
<1> QED
  BY <1>2, SignNextIInv DEF SignSerialInv, SignStepsWell

LEMMA SignAnswerStep ==
  ASSUME Sign!Nothing \notin Documents, SignSerialInv, [Sign!Next]_(Sign!vars)
  PROVE  Sign!AnswersStay
<1> SUFFICES ASSUME ~overlap' PROVE Sign!AnswersStay
  BY DEF Sign!AnswersStay
<1>1. SignStepsWell
  BY SignNextSerial
<1>2. \A r \in Requests : SignFinal(r) => status'[r] = status[r]
  BY <1>1 DEF SignStepsWell
<1>3. \A r \in Requests : status'[r] = "EXPIRED" => r \in due' \ signature'
  BY <1>1 DEF SignStepsWell, SignUndisturbed, SignRowsAgree
<1>4. \A r \in Requests : \A p \in Requests \ {r} :
        ~(status'[r] = "PENDING" /\ status'[p] = "PENDING" /\ about'[r] = about'[p])
  BY <1>1 DEF SignStepsWell, SignUndisturbed, SignRowsAgree
<1> QED
  BY <1>2, <1>3, <1>4 DEF Sign!AnswersStay, SignFinal
===============================================================================
