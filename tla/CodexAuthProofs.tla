--------------------------- MODULE CodexAuthProofs ---------------------------
(***************************************************************************)
(* Proofs about CodexAuth, for any number of requests and logins and any   *)
(* set of faults.                                                          *)
(*                                                                         *)
(* The argument: only the holder of the mutex is between Lock and Unlock   *)
(* (Exclusive).  The tokens of an answer not yet saved, and of a login not *)
(* yet saved, are known to nobody else (RenewalPrivate, LoginPrivate), so  *)
(* saving them neither repeats an earlier record nor stores a token that   *)
(* another call may have consumed (AccountedInv, ReplacedInv).             *)
(***************************************************************************)
EXTENDS CodexAuth, TLAPS

\* The tokens of requests, logins and the record were issued.
Issued == [access : 0..issued, refresh : 0..issued]

Bounded ==
    /\ kv \in Issued
    /\ held \in [Request -> Issued]
    /\ payload \in [Request -> Issued]
    /\ given \in [Login -> Issued]

Exclusive == \A r \in Request : pc[r] \in Critical => lock = r

\* An answer exists only after the call, and a result only after its cause.
CallInv ==
    \A r \in Request :
        /\ pc[r] \in {"load", "lock", "reload", "send"} => wire[r] = "none"
        /\ pc[r] = "save" => wire[r] = "tokens"
        /\ res[r] = "refreshed" => wire[r] = "tokens" /\ ~Working(r)
        /\ res[r] = "relogin" => wire[r] \in {"denied", "blank"}

\* A void token stays void.
DeniedInv == \A r \in Request : wire[r] = "denied" => held[r].refresh \notin live

Known(n) ==
    \/ n \in {kv.access, kv.refresh}
    \/ \E q \in Request : n \in {held[q].access, held[q].refresh}

Unsaved(t) == t.access # 0 /\ t.refresh \in {0, t.access} /\ ~Known(t.access)

RenewalPrivate ==
    \A r \in Request : Renewing(r) =>
        /\ Unsaved(payload[r])
        /\ \A l \in Login : lpc[l] = "save" => given[l].access # payload[r].access

LoginPrivate ==
    \A l \in Login : lpc[l] = "save" =>
        /\ Unsaved(given[l])
        /\ \A k \in Login \ {l} : lpc[k] = "save" => given[k].access # given[l].access

Accounted(n) ==
    \/ n \in live \cup revoked \cup {0}
    \/ \E r \in Request : Rotated(r) /\ ~Saved(r) /\ held[r].refresh = n

AccountedInv ==
    /\ Accounted(kv.refresh)
    /\ \A r \in Request : Working(r) => Accounted(held[r].refresh)
    /\ \A r \in Request : Renewing(r) => Accounted(payload[r].refresh)
    /\ \A l \in Login : lpc[l] = "save" => Accounted(given[l].refresh)

\* The record that a saved refresh replaced does not come back.
ReplacedInv ==
    \A r \in Request : Saved(r) =>
        /\ held[r].access # 0
        /\ kv.access # held[r].access
        /\ \A q \in Request : Working(q) => held[q].access # held[r].access

ConnectedInv ==
    /\ Connected(kv) => kv.access # 0
    /\ \A r \in Request : Working(r) => held[r].access # 0 /\ held[r].refresh # 0

IInv ==
    /\ TypeOK /\ Bounded /\ Exclusive /\ CallInv /\ DeniedInv
    /\ RenewalPrivate /\ LoginPrivate /\ AccountedInv /\ ReplacedInv /\ ConnectedInv

-----------------------------------------------------------------------------
(* What a step can do to the tokens.                                        *)

\* Nothing is read, stored or issued; a token may be revoked.
Quiet ==
    /\ UNCHANGED <<kv, held, payload, given, issued>>
    /\ live' \subseteq live
    /\ live \cup revoked \subseteq live' \cup revoked'
    /\ \A r \in Request : /\ Working(r)' => Working(r)
                          /\ Renewing(r)' => Renewing(r)
                          /\ Rotated(r)' = Rotated(r)
                          /\ Saved(r)' = Saved(r)
                          /\ wire'[r] = "denied" =>
                                \/ wire[r] = "denied"
                                \/ wire[r] = "pending" /\ held[r].refresh \notin live
                          /\ wire'[r] \in {"none", "pending"} =>
                                wire[r] \in {"none", "pending"}
    /\ \A l \in Login : /\ lpc'[l] = "save" => lpc[l] = "save"
                        /\ lpc[l] = "done" => lpc'[l] = "done"
    /\ Calm => UNCHANGED <<live, revoked>>

\* r, which has made no call yet, reads the record.
Reads(r) ==
    /\ wire[r] = "none" /\ ~Saved(r) /\ ~Saved(r)'
    /\ pc[r] \in {"load", "reload"}
    /\ pc' = [pc EXCEPT ![r] = pc'[r]] /\ pc'[r] \notin {"call", "save"}
    /\ held' \in {held, [held EXCEPT ![r] = kv]}
    /\ Working(r)' => pc[r] = "reload" /\ Connected(kv) /\ held' = [held EXCEPT ![r] = kv]
    /\ \A q \in Request \ {r} : res'[q] = res[q]
    /\ UNCHANGED <<kv, lock, wire, payload, loginVars, serverVars>>

\* The endpoint issues the tokens t to r.
Issues(r, t) ==
    /\ wire[r] = "pending"
    /\ held[r].refresh \in live
    /\ issued' = issued + 1
    /\ wire' = [wire EXCEPT ![r] = "tokens"]
    /\ payload' = [payload EXCEPT ![r] = t]
    /\ t = [access |-> issued', refresh |-> t.refresh]
    /\ \/ t.refresh = issued' /\ live' = (live \ {held[r].refresh}) \cup {issued'}
       \/ t.refresh = 0 /\ live' = live
    /\ fresh' \subseteq fresh \cup {issued'}
    /\ UNCHANGED <<kv, lock, pc, held, res, loginVars, revoked>>

-----------------------------------------------------------------------------
(* Type correctness.                                                        *)

LEMMA InitType == Init => TypeOK
<1> SUFFICES ASSUME Init PROVE TypeOK
  OBVIOUS
<1> USE DEF Init
<1>1. kv \in Tokens /\ NoTokens \in Tokens
  BY DEF Tokens, NoTokens
<1>2. issued \in Nat /\ live \subseteq 1..issued /\ fresh \subseteq 1..issued
  OBVIOUS
<1>3. polls \in [Login -> 0..MaxPolls]
  BY AuthAssumption
<1> QED
  BY <1>1, <1>2, <1>3 DEF TypeOK, Outcomes

LEMMA EndpointStep ==
    ASSUME TypeOK, NEW r \in Request, Endpoint(r)
    PROVE  \/ \E t \in Tokens : Issues(r, t)
           \/ /\ wire[r] = "pending"
              /\ \E answer \in DOMAIN ErrorOf :
                    /\ answer = "denied" => held[r].refresh \notin live
                    /\ wire' = [wire EXCEPT ![r] = answer]
              /\ UNCHANGED <<kv, lock, pc, held, payload, res, loginVars, serverVars>>
<1>1. CASE UNCHANGED <<payload, issued, live, fresh>>
  <2>1. issued' # issued + 1
    BY <1>1 DEF TypeOK
  <2> QED
    BY <1>1, <2>1, Zenon DEF Endpoint, serverVars
<1>2. CASE ~UNCHANGED <<payload, issued, live, fresh>>
  <2>1. issued + 1 \in Nat
    BY DEF TypeOK
  <2>2. /\ wire[r] = "pending"
        /\ held[r].refresh \in live
        /\ issued' = issued + 1
        /\ wire' = [wire EXCEPT ![r] = "tokens"]
        /\ fresh' \subseteq fresh \cup {issued'}
        /\ UNCHANGED <<kv, lock, pc, held, res, loginVars, revoked>>
    BY <1>2, Zenon DEF Endpoint
  <2>3. \E n \in {0, issued'} :
          /\ payload' = [payload EXCEPT ![r] = [access |-> issued', refresh |-> n]]
          /\ \/ n = issued' /\ live' = (live \ {held[r].refresh}) \cup {issued'}
             \/ n = 0 /\ live' = live
    BY <1>2, Zenon DEF Endpoint
  <2>4. PICK n \in {0, issued'} :
          /\ payload' = [payload EXCEPT ![r] = [access |-> issued', refresh |-> n]]
          /\ \/ n = issued' /\ live' = (live \ {held[r].refresh}) \cup {issued'}
             \/ n = 0 /\ live' = live
    BY <2>3
  <2> DEFINE t == [access |-> issued', refresh |-> n]
  <2>5. t \in Tokens /\ t.refresh = n
    BY <2>1, <2>2 DEF Tokens
  <2>6. Issues(r, t)
    BY <2>2, <2>4, <2>5 DEF Issues
  <2> QED
    BY <2>5, <2>6
<1> QED
  BY <1>1, <1>2

LEMMA NextType == TypeOK /\ [Next]_vars => TypeOK'
<1> SUFFICES ASSUME TypeOK, [Next]_vars PROVE TypeOK'
  OBVIOUS
<1> USE AuthAssumption DEF TypeOK, Outcomes, Critical
<1>1. ASSUME NEW r \in Request, Load(r) PROVE TypeOK'
  BY <1>1 DEF Load, ReadRecord, Return, Goto, loginVars, serverVars
<1>2. ASSUME NEW r \in Request, Lock(r) PROVE TypeOK'
  BY <1>2 DEF Lock, Goto, loginVars, serverVars
<1>3. ASSUME NEW r \in Request, Reload(r) PROVE TypeOK'
  BY <1>3 DEF Reload, ReadRecord, Return, Goto, loginVars, serverVars
<1>4. ASSUME NEW r \in Request, SendRefresh(r) PROVE TypeOK'
  BY <1>4 DEF SendRefresh, Goto, loginVars, serverVars
<1>5. ASSUME NEW r \in Request, ReceiveAnswer(r) PROVE TypeOK'
  <2>1. wire[r] # "tokens" => ErrorOf[wire[r]] \in Outcomes
    BY <1>5 DEF ReceiveAnswer, ErrorOf
  <2> QED
    BY <1>5, <2>1 DEF ReceiveAnswer, Return, Goto, loginVars, serverVars
<1>6. ASSUME NEW r \in Request, SaveRefreshed(r) PROVE TypeOK'
  <2>1. Renewed(r) \in Tokens
    BY DEF Renewed, Tokens
  <2> QED
    BY <1>6, <2>1 DEF SaveRefreshed, Return, Goto, loginVars, serverVars
<1>7. ASSUME NEW r \in Request, Unlock(r) PROVE TypeOK'
  BY <1>7 DEF Unlock, Goto, loginVars, serverVars
<1>8. ASSUME NEW r \in Request, Endpoint(r) PROVE TypeOK'
  <2>1. ASSUME NEW t \in Tokens, Issues(r, t) PROVE TypeOK'
    <3>1. /\ live' \subseteq 1..issued'
          /\ revoked' \subseteq 1..issued'
          /\ fresh' \subseteq 1..issued'
          /\ issued' \in Nat
      BY <2>1 DEF Issues
    <3> QED
      BY <2>1, <3>1 DEF Issues, loginVars
  <2>2. ASSUME NEW answer \in DOMAIN ErrorOf, wire' = [wire EXCEPT ![r] = answer],
               UNCHANGED <<kv, lock, pc, held, payload, res, loginVars, serverVars>>
        PROVE  TypeOK'
    BY <2>2 DEF loginVars, serverVars
  <2> QED
    BY <1>8, <2>1, <2>2, EndpointStep, Zenon
<1>9. ASSUME NEW r \in Request, LockFails(r) \/ AbandonCall(r) \/ Crash(r) PROVE TypeOK'
  BY <1>9 DEF LockFails, AbandonCall, Crash, Return, Goto, loginVars, serverVars
<1>10. ASSUME NEW l \in Login, LoginFails(l) \/ BeginDeviceLogin(l) PROVE TypeOK'
  BY <1>10 DEF LoginFails, BeginDeviceLogin, LoginGoto, requestVars
<1>11. ASSUME NEW l \in Login, PollDeviceLogin(l) PROVE TypeOK'
  <2>1. polls' \in [Login -> 0..MaxPolls]
    BY <1>11 DEF PollDeviceLogin
  <2> QED
    BY <1>11, <2>1 DEF PollDeviceLogin, LoginGoto, requestVars
<1>12. ASSUME NEW l \in Login, ExchangeCode(l) PROVE TypeOK'
  <2>1. given' \in [Login -> Tokens]
    BY <1>12 DEF ExchangeCode, Tokens
  <2>2. /\ live' \subseteq 1..issued'
        /\ revoked' \subseteq 1..issued'
        /\ fresh' \subseteq 1..issued'
    BY <1>12 DEF ExchangeCode, LoginGoto
  <2> QED
    BY <1>12, <2>1, <2>2 DEF ExchangeCode, LoginGoto, requestVars
<1>13. ASSUME NEW l \in Login, SaveLogin(l) PROVE TypeOK'
  BY <1>13 DEF SaveLogin, LoginGoto, requestVars
<1>14. CASE LockExpires \/ Logout \/ Expire \/ Revoke
  <2>1. NoTokens \in Tokens
    BY DEF Tokens, NoTokens
  <2>2. CASE LockExpires \/ Logout
    BY <2>1, <2>2 DEF LockExpires, Logout, requestVars, loginVars, serverVars
  <2>3. CASE Expire \/ Revoke
    BY <2>3 DEF Expire, Revoke, requestVars, loginVars
  <2> QED
    BY <1>14, <2>2, <2>3
<1>15. CASE UNCHANGED vars
  BY <1>15 DEF vars, requestVars, loginVars, serverVars
<1> QED
  BY <1>1, <1>2, <1>3, <1>4, <1>5, <1>6, <1>7, <1>8, <1>9, <1>10, <1>11, <1>12,
     <1>13, <1>14, <1>15 DEF Next, RequestStep, LoginStep

\* Every variable keeps to its type, for any number of requests and logins.
THEOREM TypeCorrect == Spec => []TypeOK
  BY InitType, NextType, PTL DEF Spec

-----------------------------------------------------------------------------
(* Every step is quiet, reads, issues or stores.                            *)

\* A refresh is saved.
Stores(r) ==
    /\ pc[r] = "save"
    /\ kv' = Renewed(r)
    /\ pc' = [pc EXCEPT ![r] = "unlock"]
    /\ res' = [res EXCEPT ![r] = "refreshed"]
    /\ UNCHANGED <<lock, held, wire, payload, loginVars, serverVars>>

\* A login receives tokens.
Grants(l) ==
    /\ lpc[l] = "exchange"
    /\ lpc' = [lpc EXCEPT ![l] = "save"]
    /\ issued' = issued + 1
    /\ \E refresh \in {0, issued'} :
          /\ given' = [given EXCEPT ![l] = [access |-> issued', refresh |-> refresh]]
          /\ live' = live \cup ({refresh} \ {0})
    /\ UNCHANGED <<kv, lock, requestVars, revoked>>

LEMMA ReadIsReads ==
    ASSUME TypeOK, CallInv, NEW r \in Request, Load(r) \/ Reload(r)
    PROVE  Reads(r)
<1> QED
  BY DEF TypeOK, CallInv, Load, Reload, ReadRecord, Return, Goto, Reads, Working, Saved

LEMMA QuietSteps ==
    ASSUME TypeOK, CallInv,
           \/ \E r \in Request : Lock(r) \/ SendRefresh(r) \/ ReceiveAnswer(r) \/ Unlock(r)
                                 \/ LockFails(r) \/ AbandonCall(r) \/ Crash(r)
           \/ \E l \in Login : BeginDeviceLogin(l) \/ PollDeviceLogin(l) \/ LoginFails(l)
           \/ LockExpires \/ Expire \/ Revoke \/ UNCHANGED vars
    PROVE  Quiet
<1> USE DEF TypeOK, CallInv, Quiet, Working, Renewing, Rotated, Saved, Goto, Return,
            loginVars, serverVars
<1>1. ASSUME NEW r \in Request, Lock(r) \/ SendRefresh(r) \/ Unlock(r) PROVE Quiet
  BY <1>1 DEF Lock, SendRefresh, Unlock
<1>2. ASSUME NEW r \in Request, ReceiveAnswer(r) PROVE Quiet
  <2>1. wire[r] # "tokens" => ErrorOf[wire[r]] # "refreshed"
    BY <1>2 DEF ReceiveAnswer, ErrorOf
  <2> QED
    BY <1>2, <2>1 DEF ReceiveAnswer
<1>3. ASSUME NEW r \in Request, LockFails(r) \/ AbandonCall(r) \/ Crash(r) PROVE Quiet
  BY <1>3 DEF LockFails, AbandonCall, Crash
<1>4. ASSUME NEW l \in Login, BeginDeviceLogin(l) \/ PollDeviceLogin(l) \/ LoginFails(l)
      PROVE  Quiet
  BY <1>4 DEF BeginDeviceLogin, PollDeviceLogin, LoginFails, LoginGoto, requestVars
<1>5. CASE LockExpires \/ Expire \/ Revoke \/ UNCHANGED vars
  BY <1>5 DEF Calm, LockExpires, Expire, Revoke, vars, requestVars
<1> QED
  BY <1>1, <1>2, <1>3, <1>4, <1>5

LEMMA RefusalQuiet ==
    ASSUME TypeOK, CallInv, NEW r \in Request, NEW answer \in DOMAIN ErrorOf,
           answer = "denied" => held[r].refresh \notin live,
           wire[r] = "pending", wire' = [wire EXCEPT ![r] = answer],
           UNCHANGED <<kv, lock, pc, held, payload, res, loginVars, serverVars>>
    PROVE  Quiet
<1>1. answer # "tokens"
  BY DEF ErrorOf
<1> QED
  BY <1>1 DEF TypeOK, Quiet, Working, Renewing, Rotated, Saved, loginVars, serverVars

LEMMA SaveStep ==
    ASSUME TypeOK, CallInv, NEW r \in Request, SaveRefreshed(r)
    PROVE  Stores(r) \/ Quiet
<1>1. CASE kv' = Renewed(r) /\ Return(r, "refreshed", "unlock")
  BY <1>1 DEF SaveRefreshed, Stores, Return, Goto
<1>2. CASE Return(r, "kv_error", "unlock") /\ UNCHANGED kv
  BY <1>2 DEF TypeOK, CallInv, SaveRefreshed, Quiet, Working, Renewing, Rotated, Saved, Return, Goto,
     loginVars, serverVars
<1> QED
  BY <1>1, <1>2 DEF SaveRefreshed

LEMMA StepKinds ==
    ASSUME TypeOK, CallInv, [Next]_vars
    PROVE  \/ Quiet
           \/ \E r \in Request : Reads(r) \/ Stores(r) \/ \E t \in Tokens : Issues(r, t)
           \/ \E l \in Login : Grants(l) \/ SaveLogin(l)
           \/ Logout
<1>1. ASSUME NEW r \in Request, Endpoint(r)
      PROVE  Quiet \/ \E t \in Tokens : Issues(r, t)
  BY <1>1, EndpointStep, RefusalQuiet, Zenon
<1>2. ASSUME NEW l \in Login, ExchangeCode(l) PROVE Grants(l)
  BY <1>2 DEF ExchangeCode, Grants, LoginGoto
<1> QED
  BY <1>1, <1>2, ReadIsReads, SaveStep, QuietSteps DEF Next, RequestStep, LoginStep

-----------------------------------------------------------------------------
(* The mutex, and what a request knows at each point.                       *)

\* The critical section is entered through Lock only.
LEMMA NextExclusive == TypeOK /\ Exclusive /\ [Next]_vars => Exclusive'
<1> SUFFICES ASSUME TypeOK, Exclusive, [Next]_vars PROVE Exclusive'
  OBVIOUS
<1> USE DEF TypeOK, Exclusive, Critical
<1>1. ASSUME NEW r \in Request, Load(r) \/ Reload(r) PROVE Exclusive'
  BY <1>1 DEF Load, Reload, ReadRecord, Return, Goto
<1>2. ASSUME NEW r \in Request, Lock(r) \/ SendRefresh(r) \/ Unlock(r) PROVE Exclusive'
  BY <1>2, AuthAssumption DEF Lock, SendRefresh, Unlock, Goto
<1>3. ASSUME NEW r \in Request, ReceiveAnswer(r) \/ SaveRefreshed(r) PROVE Exclusive'
  BY <1>3 DEF ReceiveAnswer, SaveRefreshed, Return, Goto
<1>4. ASSUME NEW r \in Request, LockFails(r) \/ AbandonCall(r) \/ Crash(r) PROVE Exclusive'
  BY <1>4 DEF LockFails, AbandonCall, Crash, Return, Goto
<1>5. CASE UNCHANGED <<lock, pc>>
  BY <1>5
<1>6. CASE LockExpires
  BY <1>6 DEF LockExpires, requestVars
<1>7. \/ \E r \in Request : \/ Load(r) \/ Reload(r) \/ Lock(r) \/ SendRefresh(r) \/ Unlock(r)
                            \/ ReceiveAnswer(r) \/ SaveRefreshed(r)
                            \/ LockFails(r) \/ AbandonCall(r) \/ Crash(r)
      \/ LockExpires
      \/ UNCHANGED <<lock, pc>>
  BY Zenon DEF Next, RequestStep, Endpoint, LoginStep, LoginGoto, BeginDeviceLogin,
     PollDeviceLogin, ExchangeCode, SaveLogin, LoginFails, Logout, Expire, Revoke,
     vars, requestVars
<1> QED
  BY <1>1, <1>2, <1>3, <1>4, <1>5, <1>6, <1>7

LEMMA NextCallInv == TypeOK /\ CallInv /\ [Next]_vars => CallInv'
<1> SUFFICES ASSUME TypeOK, CallInv, [Next]_vars PROVE CallInv'
  OBVIOUS
<1> USE DEF TypeOK, CallInv, Working
<1>1. ASSUME NEW r \in Request, Load(r) \/ Reload(r) PROVE CallInv'
  BY <1>1 DEF Load, Reload, ReadRecord, Return, Goto
<1>2. ASSUME NEW r \in Request, Lock(r) \/ SendRefresh(r) \/ Unlock(r) PROVE CallInv'
  BY <1>2 DEF Lock, SendRefresh, Unlock, Goto
<1>3. ASSUME NEW r \in Request, ReceiveAnswer(r) PROVE CallInv'
  <2>1. wire[r] # "tokens" => /\ ErrorOf[wire[r]] # "refreshed"
                              /\ ErrorOf[wire[r]] = "relogin" => wire[r] \in {"denied", "blank"}
    BY <1>3 DEF ReceiveAnswer, ErrorOf
  <2> QED
    BY <1>3, <2>1 DEF ReceiveAnswer, Return, Goto
<1>4. ASSUME NEW r \in Request, SaveRefreshed(r) PROVE CallInv'
  BY <1>4 DEF SaveRefreshed, Return, Goto
<1>5. ASSUME NEW r \in Request, LockFails(r) \/ AbandonCall(r) \/ Crash(r) PROVE CallInv'
  BY <1>5 DEF LockFails, AbandonCall, Crash, Return, Goto
<1>6. ASSUME NEW r \in Request, Endpoint(r) PROVE CallInv'
  <2>1. /\ wire[r] = "pending"
        /\ UNCHANGED <<pc, res>>
        /\ \A q \in Request \ {r} : wire'[q] = wire[q]
    BY <1>6, EndpointStep DEF Issues
  <2> QED
    BY <2>1
<1>7. CASE UNCHANGED <<pc, wire, res>>
  BY <1>7
<1>8. \/ \E r \in Request : \/ Load(r) \/ Reload(r) \/ Lock(r) \/ SendRefresh(r) \/ Unlock(r)
                            \/ ReceiveAnswer(r) \/ SaveRefreshed(r) \/ Endpoint(r)
                            \/ LockFails(r) \/ AbandonCall(r) \/ Crash(r)
      \/ UNCHANGED <<pc, wire, res>>
  BY Zenon DEF Next, RequestStep, LoginStep, LoginGoto, BeginDeviceLogin, LockExpires,
     PollDeviceLogin, ExchangeCode, SaveLogin, LoginFails, Logout, Expire, Revoke,
     vars, requestVars
<1> QED
  BY <1>1, <1>2, <1>3, <1>4, <1>5, <1>6, <1>7, <1>8

-----------------------------------------------------------------------------
(* The tokens.                                                              *)

LEMMA NextBounded == TypeOK /\ CallInv /\ Bounded /\ [Next]_vars => Bounded'
<1> SUFFICES ASSUME TypeOK, CallInv, Bounded, [Next]_vars PROVE Bounded'
  OBVIOUS
<1> USE DEF Bounded, Issued
<1>1. CASE Quiet
  BY <1>1 DEF Quiet
<1>2. ASSUME NEW r \in Request, Reads(r) PROVE Bounded'
  BY <1>2 DEF Reads, loginVars, serverVars
<1>3. ASSUME NEW r \in Request, Stores(r) PROVE Bounded'
  <2>1. Renewed(r) \in Issued
    BY DEF Renewed
  <2> QED
    BY <1>3, <2>1 DEF Stores, loginVars, serverVars
<1>4. ASSUME NEW r \in Request, NEW t \in Tokens, Issues(r, t) PROVE Bounded'
  <2>1. Issued \subseteq Issued' /\ t \in Issued'
    BY <1>4 DEF Issues, TypeOK, Tokens
  <2> HIDE DEF Issued
  <2> QED
    BY <1>4, <2>1 DEF Issues, loginVars
<1>5. ASSUME NEW l \in Login, Grants(l) PROVE Bounded'
  <2>1. Issued \subseteq Issued'
    BY <1>5 DEF Grants, TypeOK
  <2>2. given' \in [Login -> Issued']
    BY <1>5 DEF Grants, TypeOK
  <2> HIDE DEF Issued
  <2> QED
    BY <1>5, <2>1, <2>2 DEF Grants, requestVars
<1>6. ASSUME NEW l \in Login, SaveLogin(l) PROVE Bounded'
  BY <1>6 DEF SaveLogin, LoginGoto, requestVars
<1>7. CASE Logout
  BY <1>7 DEF Logout, NoTokens, TypeOK, requestVars, loginVars, serverVars
<1> QED
  BY <1>1, <1>2, <1>3, <1>4, <1>5, <1>6, <1>7, StepKinds

LEMMA NextDenied ==
    TypeOK /\ CallInv /\ Bounded /\ DeniedInv /\ [Next]_vars => DeniedInv'
<1> SUFFICES ASSUME TypeOK, CallInv, Bounded, DeniedInv, [Next]_vars PROVE DeniedInv'
  OBVIOUS
<1> USE DEF DeniedInv
<1>1. CASE Quiet
  BY <1>1 DEF Quiet
<1>2. ASSUME NEW r \in Request, Reads(r) PROVE DeniedInv'
  BY <1>2 DEF Reads, TypeOK, loginVars, serverVars
<1>3. ASSUME NEW r \in Request, Stores(r) PROVE DeniedInv'
  BY <1>3 DEF Stores, serverVars
<1>4. \A q \in Request : held[q].refresh # issued + 1
  BY DEF Bounded, Issued, TypeOK
<1>5. ASSUME NEW r \in Request, NEW t \in Tokens, Issues(r, t) PROVE DeniedInv'
  BY <1>4, <1>5 DEF Issues, TypeOK
<1>6. ASSUME NEW l \in Login, Grants(l) PROVE DeniedInv'
  BY <1>4, <1>6 DEF Grants, requestVars
<1>7. CASE Logout \/ \E l \in Login : SaveLogin(l)
  BY <1>7 DEF Logout, SaveLogin, LoginGoto, requestVars, serverVars
<1> QED
  BY <1>1, <1>2, <1>3, <1>5, <1>6, <1>7, StepKinds

LEMMA NextConnected ==
    TypeOK /\ CallInv /\ RenewalPrivate /\ LoginPrivate /\ ConnectedInv /\ [Next]_vars
      => ConnectedInv'
<1> SUFFICES ASSUME TypeOK, CallInv, RenewalPrivate, LoginPrivate, ConnectedInv, [Next]_vars
             PROVE  ConnectedInv'
  OBVIOUS
<1> USE DEF ConnectedInv, Connected
<1>1. CASE Quiet
  BY <1>1 DEF Quiet
<1>2. ASSUME NEW r \in Request, Reads(r) PROVE ConnectedInv'
  BY <1>2 DEF Reads, Working, TypeOK
<1>3. ASSUME NEW r \in Request, Stores(r) PROVE ConnectedInv'
  <2>1. payload[r].access # 0
    BY <1>3 DEF Stores, CallInv, RenewalPrivate, Renewing, Unsaved
  <2> QED
    BY <1>3, <2>1 DEF Stores, Renewed, Working, TypeOK
<1>4. ASSUME NEW r \in Request, NEW t \in Tokens, Issues(r, t) PROVE ConnectedInv'
  BY <1>4 DEF Issues, Working
<1>5. ASSUME NEW l \in Login, Grants(l) PROVE ConnectedInv'
  BY <1>5 DEF Grants, Working, requestVars
<1>6. ASSUME NEW l \in Login, SaveLogin(l) PROVE ConnectedInv'
  BY <1>6 DEF SaveLogin, LoginPrivate, Unsaved, LoginGoto, Working, requestVars
<1>7. CASE Logout
  BY <1>7 DEF Logout, NoTokens, Working, requestVars
<1> QED
  BY <1>1, <1>2, <1>3, <1>4, <1>5, <1>6, <1>7, StepKinds

\* A number not yet issued is nobody's token.
LEMMA NewUnknown ==
    ASSUME TypeOK, Bounded
    PROVE  /\ issued + 1 # 0 /\ ~Known(issued + 1)
           /\ \A r \in Request : payload[r].access # issued + 1
           /\ \A l \in Login : given[l].access # issued + 1
  BY DEF TypeOK, Bounded, Issued, Known

LEMMA OneRenewal ==
    ASSUME Exclusive, NEW r \in Request, NEW q \in Request,
           Working(r), Working(q)
    PROVE  r = q
  BY DEF Exclusive, Working, Critical

\* No step tells anyone a token, save the one that stores or issues it.
LEMMA NextRenewalPrivate ==
    TypeOK /\ Bounded /\ Exclusive /\ CallInv /\ RenewalPrivate /\ LoginPrivate /\ [Next]_vars
      => RenewalPrivate'
<1> SUFFICES ASSUME TypeOK, Bounded, Exclusive, CallInv, RenewalPrivate, LoginPrivate,
                    [Next]_vars,
                    NEW q \in Request, Renewing(q)'
             PROVE  /\ Unsaved(payload[q])'
                    /\ \A l \in Login : lpc'[l] = "save" => given'[l].access # payload'[q].access
  BY DEF RenewalPrivate
<1> USE DEF Unsaved, Known
<1>1. CASE Quiet
  BY <1>1 DEF Quiet, RenewalPrivate
<1>2. ASSUME NEW r \in Request, Reads(r)
      PROVE  /\ Unsaved(payload[q])'
             /\ \A l \in Login : lpc'[l] = "save" => given'[l].access # payload'[q].access
  <2>1. Renewing(q) /\ payload'[q] = payload[q] /\ UNCHANGED <<lpc, given, kv>>
    BY <1>2 DEF Reads, Renewing, TypeOK, loginVars
  <2>2. \A p \in Request : held'[p] \in {held[p], kv}
    BY <1>2 DEF Reads, TypeOK
  <2> QED
    BY <2>1, <2>2 DEF RenewalPrivate
<1>3. ASSUME NEW r \in Request, Stores(r) PROVE FALSE
  <2>1. q # r /\ pc[q] \in {"call", "save"}
    BY <1>3 DEF Stores, Renewing, TypeOK
  <2> QED
    BY <1>3, <2>1, OneRenewal DEF Stores, Working
<1>4. ASSUME NEW r \in Request, NEW t \in Tokens, Issues(r, t)
      PROVE  /\ Unsaved(payload[q])'
             /\ \A l \in Login : lpc'[l] = "save" => given'[l].access # payload'[q].access
  <2>1. UNCHANGED <<kv, held, lpc, given>>
    BY <1>4 DEF Issues, loginVars
  <2>2. CASE q = r
    <3>1. payload'[q].access = issued + 1 /\ payload'[q].refresh \in {0, payload'[q].access}
      BY <1>4, <2>2 DEF Issues, TypeOK
    <3> QED
      BY <2>1, <3>1, NewUnknown
  <2>3. CASE q # r
    <3>1. Renewing(q) /\ payload'[q] = payload[q]
      BY <1>4, <2>3 DEF Issues, Renewing, TypeOK
    <3> QED
      BY <2>1, <3>1 DEF RenewalPrivate
  <2> QED
    BY <2>2, <2>3
<1>5. ASSUME NEW l \in Login, Grants(l)
      PROVE  /\ Unsaved(payload[q])'
             /\ \A k \in Login : lpc'[k] = "save" => given'[k].access # payload'[q].access
  <2>1. UNCHANGED <<kv, held, payload, pc, wire>>
    BY <1>5 DEF Grants, requestVars
  <2>2. given'[l].access = issued + 1
    BY <1>5 DEF Grants, TypeOK
  <2>3. \A k \in Login \ {l} : lpc'[k] = lpc[k] /\ given'[k] = given[k]
    BY <1>5 DEF Grants, TypeOK
  <2> QED
    BY <2>1, <2>2, <2>3, NewUnknown DEF RenewalPrivate, Renewing
<1>6. ASSUME NEW l \in Login, SaveLogin(l)
      PROVE  /\ Unsaved(payload[q])'
             /\ \A k \in Login : lpc'[k] = "save" => given'[k].access # payload'[q].access
  <2>1. UNCHANGED <<held, payload, pc, wire, given>> /\ kv' = given[l] /\ lpc[l] = "save"
    BY <1>6 DEF SaveLogin, LoginGoto, requestVars
  <2>2. \A k \in Login : lpc'[k] = "save" => lpc[k] = "save"
    BY <1>6 DEF SaveLogin, LoginGoto, TypeOK
  <2> QED
    BY <2>1, <2>2 DEF RenewalPrivate, LoginPrivate, Renewing
<1>7. CASE Logout
  BY <1>7 DEF Logout, NoTokens, RenewalPrivate, Renewing, requestVars, loginVars
<1> QED
  BY <1>1, <1>2, <1>3, <1>4, <1>5, <1>6, <1>7, StepKinds

LEMMA NextLoginPrivate ==
    TypeOK /\ Bounded /\ CallInv /\ RenewalPrivate /\ LoginPrivate /\ [Next]_vars
      => LoginPrivate'
<1> SUFFICES ASSUME TypeOK, Bounded, CallInv, RenewalPrivate, LoginPrivate, [Next]_vars,
                    NEW l \in Login, lpc'[l] = "save"
             PROVE  /\ Unsaved(given[l])'
                    /\ \A k \in Login \ {l} :
                          lpc'[k] = "save" => given'[k].access # given'[l].access
  BY DEF LoginPrivate
<1> DEFINE Private == /\ Unsaved(given[l])'
                      /\ \A k \in Login \ {l} :
                            lpc'[k] = "save" => given'[k].access # given'[l].access
<1> USE DEF Unsaved, Known
<1>1. CASE Quiet
  BY <1>1 DEF Quiet, LoginPrivate
<1>2. ASSUME NEW r \in Request, Reads(r) PROVE Private
  <2>1. UNCHANGED <<lpc, given, kv>>
    BY <1>2 DEF Reads, loginVars
  <2>2. \A p \in Request : held'[p] \in {held[p], kv}
    BY <1>2 DEF Reads, TypeOK
  <2> QED
    BY <2>1, <2>2 DEF LoginPrivate
<1>3. ASSUME NEW r \in Request, Stores(r) PROVE Private
  <2>1. UNCHANGED <<lpc, given, held>>
    BY <1>3 DEF Stores, loginVars
  <2>2. /\ Unsaved(payload[r])
        /\ given[l].access # payload[r].access
    BY <1>3, <2>1 DEF Stores, CallInv, Renewing, RenewalPrivate
  <2>3. /\ kv'.access = payload[r].access
        /\ kv'.refresh \in {payload[r].access, held[r].refresh}
    BY <1>3, <2>2 DEF Stores, Renewed
  <2> QED
    BY <2>1, <2>2, <2>3 DEF LoginPrivate
<1>4. ASSUME NEW r \in Request, NEW t \in Tokens, Issues(r, t) PROVE Private
  BY <1>4 DEF Issues, LoginPrivate, loginVars
<1>5. ASSUME NEW k \in Login, Grants(k) PROVE Private
  <2>1. UNCHANGED <<kv, held>>
    BY <1>5 DEF Grants, requestVars
  <2>2. given'[k].access = issued + 1 /\ given'[k].refresh \in {0, given'[k].access}
    BY <1>5 DEF Grants, TypeOK
  <2>3. \A j \in Login \ {k} : lpc'[j] = lpc[j] /\ given'[j] = given[j]
    BY <1>5 DEF Grants, TypeOK
  <2> QED
    BY <2>1, <2>2, <2>3, NewUnknown DEF LoginPrivate
<1>6. ASSUME NEW k \in Login, SaveLogin(k) PROVE Private
  <2>1. UNCHANGED <<held, given>> /\ kv' = given[k] /\ lpc[k] = "save"
    BY <1>6 DEF SaveLogin, LoginGoto, requestVars
  <2>2. /\ k # l
        /\ \A j \in Login : lpc'[j] = "save" => lpc[j] = "save"
    BY <1>6 DEF SaveLogin, LoginGoto, TypeOK
  <2> QED
    BY <2>1, <2>2 DEF LoginPrivate
<1>7. CASE Logout
  BY <1>7 DEF Logout, NoTokens, LoginPrivate, requestVars, loginVars
<1> QED
  BY <1>1, <1>2, <1>3, <1>4, <1>5, <1>6, <1>7, StepKinds

\* A saved refresh leaves nothing that could store the replaced record again.
LEMMA NextReplaced == IInv /\ [Next]_vars => ReplacedInv'
<1> SUFFICES ASSUME IInv, [Next]_vars PROVE ReplacedInv'
  OBVIOUS
<1> USE DEF IInv
<1>1. CASE Quiet
  BY <1>1 DEF Quiet, ReplacedInv
<1>2. ASSUME NEW r \in Request, Reads(r) PROVE ReplacedInv'
  <2>1. ~Saved(r)' /\ kv' = kv
    BY <1>2 DEF Reads
  <2>2. \A p \in Request \ {r} : /\ held'[p] = held[p]
                                 /\ Saved(p)' = Saved(p)
                                 /\ Working(p)' = Working(p)
    BY <1>2 DEF Reads, TypeOK, Saved, Working
  <2>3. Working(r)' => held'[r] = kv
    BY <1>2 DEF Reads, TypeOK
  <2> QED
    BY <2>1, <2>2, <2>3 DEF ReplacedInv
<1>3. ASSUME NEW r \in Request, Stores(r) PROVE ReplacedInv'
  <2>1. /\ kv'.access = payload[r].access /\ UNCHANGED held
        /\ ~Known(payload[r].access)
        /\ held[r].access # 0
    BY <1>3 DEF Stores, Renewed, CallInv, Renewing, RenewalPrivate, Unsaved, ConnectedInv, Working
  <2>2. \A q \in Request : ~Working(q)'
    BY <1>3, OneRenewal DEF Stores, Working, TypeOK
  <2>3. \A p \in Request \ {r} : Saved(p)' = Saved(p)
    BY <1>3 DEF Stores, Saved, TypeOK
  <2> QED
    BY <2>1, <2>2, <2>3 DEF ReplacedInv, Known
<1>4. ASSUME NEW r \in Request, NEW t \in Tokens, Issues(r, t) PROVE ReplacedInv'
  BY <1>4 DEF Issues, ReplacedInv, Saved, Working
<1>5. ASSUME NEW l \in Login, Grants(l) PROVE ReplacedInv'
  BY <1>5 DEF Grants, ReplacedInv, Saved, Working, requestVars
<1>6. ASSUME NEW l \in Login, SaveLogin(l) PROVE ReplacedInv'
  BY <1>6 DEF SaveLogin, LoginGoto, ReplacedInv, LoginPrivate, Unsaved, Known, Saved, Working,
     requestVars
<1>7. CASE Logout
  BY <1>7 DEF Logout, NoTokens, ReplacedInv, Saved, Working, requestVars
<1> QED
  BY <1>1, <1>2, <1>3, <1>4, <1>5, <1>6, <1>7, StepKinds

\* A token that is accounted for stays so, unless the request that consumed it
\* is the one that saves.
LEMMA AccountedStays ==
    ASSUME IInv, [Next]_vars, NEW n, Accounted(n),
           \A r \in Request : Stores(r) => n # held[r].refresh \/ ~Rotated(r)
    PROVE  Accounted(n)'
<1> USE DEF IInv, Accounted
<1>1. CASE Quiet
  BY <1>1 DEF Quiet
<1>2. ASSUME NEW r \in Request, Reads(r) PROVE Accounted(n)'
  <2>1. ~Rotated(r) /\ UNCHANGED <<live, revoked>>
    BY <1>2 DEF Reads, Rotated, serverVars
  <2>2. \A p \in Request \ {r} : /\ held'[p] = held[p]
                                 /\ Saved(p)' = Saved(p)
                                 /\ Rotated(p)' = Rotated(p)
    BY <1>2 DEF Reads, TypeOK, Saved, Rotated
  <2> QED
    BY <2>1, <2>2
<1>3. ASSUME NEW r \in Request, Stores(r) PROVE Accounted(n)'
  <2>1. UNCHANGED <<live, revoked, held, wire, payload>>
    BY <1>3 DEF Stores, serverVars
  <2>2. \A p \in Request \ {r} : Saved(p)' = Saved(p)
    BY <1>3 DEF Stores, Saved, TypeOK
  <2> QED
    BY <1>3, <2>1, <2>2 DEF Rotated
<1>4. ASSUME NEW r \in Request, NEW t \in Tokens, Issues(r, t) PROVE Accounted(n)'
  <2>1. /\ UNCHANGED <<held, res, revoked>>
        /\ ~Saved(r) /\ ~Rotated(r)
    BY <1>4 DEF Issues, CallInv, Saved, Rotated
  <2>2. \A p \in Request \ {r} : Rotated(p) => Rotated(p)'
    BY <1>4 DEF Issues, Rotated, TypeOK
  <2>3. n \in live => n \in live' \/ (Rotated(r)' /\ held'[r].refresh = n)
    <3>1. issued' # 0
      BY <1>4 DEF Issues, TypeOK
    <3>2. wire'[r] = "tokens" /\ payload'[r].refresh = t.refresh /\ UNCHANGED held
      BY <1>4 DEF Issues, TypeOK
    <3>3. \/ t.refresh = issued' /\ live' = (live \ {held[r].refresh}) \cup {issued'}
          \/ live' = live
      BY <1>4, Zenon DEF Issues
    <3> QED
      BY <3>1, <3>2, <3>3 DEF Rotated
  <2> QED
    BY <2>1, <2>2, <2>3 DEF Saved
<1>5. ASSUME NEW l \in Login, Grants(l) PROVE Accounted(n)'
  BY <1>5 DEF Grants, Saved, Rotated, requestVars
<1>6. ASSUME NEW l \in Login, SaveLogin(l) PROVE Accounted(n)'
  BY <1>6 DEF SaveLogin, LoginGoto, Saved, Rotated, requestVars
<1>7. CASE Logout
  BY <1>7 DEF Logout, Saved, Rotated, requestVars, serverVars
<1> QED
  BY <1>1, <1>2, <1>3, <1>4, <1>5, <1>6, <1>7, StepKinds

LEMMA NextAccounted == IInv /\ [Next]_vars => AccountedInv'
<1> SUFFICES ASSUME IInv, [Next]_vars PROVE AccountedInv'
  OBVIOUS
<1> USE DEF IInv
<1>1. ASSUME ~ \E r \in Request : Stores(r), NEW n, Accounted(n) PROVE Accounted(n)'
  BY <1>1, AccountedStays
<1>2. Accounted(0)'
  BY DEF Accounted
<1>3. ASSUME NEW r \in Request, Stores(r) PROVE AccountedInv'
  <2>1. /\ Unsaved(payload[r]) /\ Accounted(payload[r].refresh)
        /\ Accounted(held[r].refresh)
    BY <1>3 DEF Stores, CallInv, Renewing, RenewalPrivate, AccountedInv, Working
  <2>2. ASSUME NEW n, Accounted(n), n # held[r].refresh \/ ~Rotated(r) PROVE Accounted(n)'
    <3>1. \A q \in Request : Stores(q) => q = r
      BY <1>3, OneRenewal DEF Stores, Working
    <3> QED
      BY <2>2, <3>1, AccountedStays
  <2>3. Accounted(kv.refresh)'
    <3>1. CASE payload[r].refresh = 0
      BY <1>3, <2>1, <2>2, <3>1 DEF Stores, Renewed, Rotated
    <3>2. CASE payload[r].refresh # 0
      <4>1. payload[r].refresh # held[r].refresh
        BY <2>1, <3>2 DEF Unsaved, Known
      <4>2. kv'.refresh = payload[r].refresh
        BY <1>3, <3>2 DEF Stores, Renewed
      <4> QED
        BY <2>1, <2>2, <4>1, <4>2 DEF Accounted
    <3> QED
      BY <3>1, <3>2
  <2>4. \A q \in Request : ~Working(q)' /\ ~Renewing(q)'
    BY <1>3, OneRenewal DEF Stores, Working, Renewing, TypeOK
  <2>5. ASSUME NEW l \in Login, lpc'[l] = "save" PROVE Accounted(given[l].refresh)'
    <3>1. /\ lpc[l] = "save" /\ UNCHANGED given
          /\ Unsaved(given[l]) /\ Accounted(given[l].refresh)
      BY <1>3, <2>5 DEF Stores, loginVars, LoginPrivate, AccountedInv
    <3>2. CASE given[l].refresh = 0
      BY <1>2, <3>1, <3>2 DEF Accounted
    <3>3. CASE given[l].refresh # held[r].refresh
      BY <2>2, <3>1, <3>3 DEF Accounted
    <3> QED
      BY <3>1, <3>2, <3>3 DEF Unsaved, Known
  <2> QED
    BY <2>3, <2>4, <2>5 DEF AccountedInv
<1>4. CASE ~ \E r \in Request : Stores(r)
  <2>1. ASSUME NEW n, Accounted(n) PROVE Accounted(n)'
    BY <1>1, <1>4, <2>1
  <2>2. Accounted(kv.refresh)'
    <3>1. CASE kv' = kv \/ kv' = NoTokens
      BY <1>2, <2>1, <3>1 DEF AccountedInv, NoTokens, Accounted
    <3>2. ASSUME NEW l \in Login, SaveLogin(l) PROVE Accounted(kv.refresh)'
      BY <2>1, <3>2 DEF SaveLogin, AccountedInv, Accounted
    <3> QED
      BY <1>4, <3>1, <3>2, StepKinds DEF Quiet, Reads, Issues, Grants, Logout
  <2>3. ASSUME NEW q \in Request, Working(q)' PROVE Accounted(held[q].refresh)'
    <3>1. \/ Working(q) /\ held'[q] = held[q]
          \/ held'[q] = kv
      BY <1>4, <2>3, StepKinds DEF Quiet, Reads, Issues, Grants, SaveLogin, LoginGoto, Logout,
         Working, TypeOK, requestVars
    <3> QED
      BY <2>1, <3>1 DEF AccountedInv, Accounted
  <2>4. ASSUME NEW q \in Request, Renewing(q)' PROVE Accounted(payload[q].refresh)'
    <3>1. \/ Renewing(q) /\ payload'[q] = payload[q]
          \/ payload'[q].refresh = 0
          \/ payload'[q].refresh \in live'
      <4>1. CASE Quiet
        BY <2>4, <4>1 DEF Quiet
      <4>2. ASSUME NEW r \in Request, Reads(r) PROVE Renewing(q) /\ payload'[q] = payload[q]
        BY <2>4, <4>2 DEF Reads, Renewing, TypeOK
      <4>3. ASSUME NEW r \in Request, NEW t \in Tokens, Issues(r, t)
            PROVE  \/ Renewing(q) /\ payload'[q] = payload[q]
                   \/ payload'[q].refresh = 0
                   \/ payload'[q].refresh \in live'
        BY <2>4, <4>3 DEF Issues, Renewing, TypeOK
      <4>4. CASE Logout \/ \E l \in Login : Grants(l) \/ SaveLogin(l)
        BY <2>4, <4>4 DEF Logout, Grants, SaveLogin, LoginGoto, Renewing, requestVars
      <4> QED
        BY <1>4, <4>1, <4>2, <4>3, <4>4, StepKinds
    <3> QED
      BY <2>1, <3>1 DEF AccountedInv, Accounted
  <2>5. ASSUME NEW l \in Login, lpc'[l] = "save" PROVE Accounted(given[l].refresh)'
    <3>1. \/ lpc[l] = "save" /\ given'[l] = given[l]
          \/ given'[l].refresh = 0
          \/ given'[l].refresh \in live'
      <4>1. CASE Quiet
        BY <2>5, <4>1 DEF Quiet
      <4>2. CASE UNCHANGED <<lpc, given>>
        BY <2>5, <4>2
      <4>3. ASSUME NEW k \in Login, Grants(k)
            PROVE  \/ lpc[l] = "save" /\ given'[l] = given[l]
                   \/ given'[l].refresh = 0
                   \/ given'[l].refresh \in live'
        BY <2>5, <4>3 DEF Grants, TypeOK
      <4>4. ASSUME NEW k \in Login, SaveLogin(k)
            PROVE  lpc[l] = "save" /\ given'[l] = given[l]
        BY <2>5, <4>4 DEF SaveLogin, LoginGoto, TypeOK
      <4> QED
        BY <1>4, <4>1, <4>2, <4>3, <4>4, StepKinds DEF Reads, Issues, Logout, loginVars
    <3> QED
      BY <2>1, <3>1 DEF AccountedInv, Accounted
  <2> QED
    BY <2>2, <2>3, <2>4, <2>5 DEF AccountedInv
<1> QED
  BY <1>3, <1>4

-----------------------------------------------------------------------------
(* The invariant and what follows from it.                                  *)

LEMMA InitInv == Init => IInv
<1> SUFFICES ASSUME Init PROVE IInv
  OBVIOUS
<1>1. TypeOK
  BY InitType
<1>2. kv \in Issued /\ NoTokens \in Issued
  BY DEF Init, Issued, NoTokens
<1>3. Bounded
  BY <1>2 DEF Init, Bounded
<1>4. Exclusive /\ CallInv /\ DeniedInv /\ RenewalPrivate /\ LoginPrivate
  BY DEF Init, Exclusive, CallInv, DeniedInv, RenewalPrivate, LoginPrivate, Renewing, Working,
     Critical
<1>5. AccountedInv
  BY DEF Init, AccountedInv, Accounted, Working, Renewing
<1>6. ReplacedInv /\ ConnectedInv
  BY DEF Init, ReplacedInv, ConnectedInv, Connected, Saved, Working
<1> QED
  BY <1>1, <1>3, <1>4, <1>5, <1>6 DEF IInv

LEMMA NextInv == IInv /\ [Next]_vars => IInv'
  BY NextType, NextBounded, NextExclusive, NextCallInv, NextDenied, NextRenewalPrivate,
     NextLoginPrivate, NextAccounted, NextReplaced, NextConnected DEF IInv

LEMMA Invariance == Spec => []IInv
  BY InitInv, NextInv, PTL DEF Spec

\* Whoever is between Lock and Unlock of AccessToken holds the mutex, and only
\* a request that is there, has died or failed to unlock does (auth.go:67-71).
THEOREM MutexHeld == Spec => []MutexOwned
<1>1. ASSUME Init PROVE MutexOwned
  <2>1. \A r \in Request : pc[r] = "load" /\ lock # r
    BY <1>1, AuthAssumption DEF Init
  <2> QED
    BY <2>1 DEF MutexOwned, Critical
<1>2. TypeOK /\ Exclusive /\ MutexOwned /\ [Next]_vars => MutexOwned'
  <2> SUFFICES ASSUME TypeOK, Exclusive, MutexOwned, [Next]_vars PROVE MutexOwned'
    OBVIOUS
  <2>1. Exclusive'
    BY NextExclusive
  <2>2. ASSUME NEW r \in Request, lock' = r
        PROVE  pc'[r] \in Critical \cup {"crashed", "done"}
    <3> USE DEF TypeOK, MutexOwned, Critical
    <3>1. ASSUME NEW q \in Request, Load(q) \/ Reload(q) \/ ReceiveAnswer(q) \/ SaveRefreshed(q)
          PROVE  pc'[r] \in Critical \cup {"crashed", "done"}
      BY <2>2, <3>1 DEF Load, Reload, ReadRecord, ReceiveAnswer, SaveRefreshed, Return, Goto
    <3>2. ASSUME NEW q \in Request, Lock(q) \/ SendRefresh(q) \/ Unlock(q)
          PROVE  pc'[r] \in Critical \cup {"crashed", "done"}
      BY <2>2, <3>2, AuthAssumption DEF Lock, SendRefresh, Unlock, Goto
    <3>3. ASSUME NEW q \in Request, LockFails(q) \/ AbandonCall(q) \/ Crash(q)
          PROVE  pc'[r] \in Critical \cup {"crashed", "done"}
      BY <2>2, <3>3 DEF LockFails, AbandonCall, Crash, Return, Goto
    <3>4. CASE pc' = pc /\ (lock' = lock \/ lock' = None)
      BY <2>2, <3>4, AuthAssumption
    <3>5. \/ \E q \in Request : \/ Load(q) \/ Reload(q) \/ ReceiveAnswer(q) \/ SaveRefreshed(q)
                                \/ Lock(q) \/ SendRefresh(q) \/ Unlock(q)
                                \/ LockFails(q) \/ AbandonCall(q) \/ Crash(q)
          \/ pc' = pc /\ (lock' = lock \/ lock' = None)
      BY Zenon DEF Next, RequestStep, Endpoint, LoginStep, LoginGoto, BeginDeviceLogin,
         PollDeviceLogin, ExchangeCode, SaveLogin, LoginFails, Logout, LockExpires, Expire,
         Revoke, vars, requestVars
    <3> QED
      BY <3>1, <3>2, <3>3, <3>4, <3>5
  <2> QED
    BY <2>1, <2>2 DEF Exclusive, MutexOwned
<1>3. IInv => TypeOK /\ Exclusive
  BY DEF IInv
<1> QED
  BY <1>1, <1>2, <1>3, Invariance, PTL DEF Spec

\* No credential is lost to any interleaving: the stored refresh token is
\* usable, revoked by the provider, or consumed by a call whose answer was not
\* saved (auth.go:85-91).
THEOREM NothingLost == Spec => []StoredTokenAccounted
<1>1. IInv => StoredTokenAccounted
  BY DEF IInv, AccountedInv, Accounted, StoredTokenAccounted
<1> QED
  BY <1>1, Invariance, PTL

\* A record whose refresh was saved is never refreshed again (auth.go:73-83).
THEOREM RefreshedOnce == Spec => []NoDoubleRefresh
<1>1. IInv => NoDoubleRefresh
  BY DEF IInv, ReplacedInv, NoDoubleRefresh
<1> QED
  BY <1>1, Invariance, PTL

\* "Log in again" is reported for a token that the provider does not honour or
\* for an empty success answer, never for an outage (refresh.go:54-82).
THEOREM ReloginReported == Spec => []ReloginJustified
<1>1. IInv => ReloginJustified
  BY DEF IInv, CallInv, DeniedInv, ReloginJustified
<1> QED
  BY <1>1, Invariance, PTL

\* While a request refreshes, only admins change the record (auth.go:73-89).
THEOREM RecordStable == Spec => []RecordStableUnderLock
<1>1. Init => RecordStableUnderLock
  BY DEF Init, RecordStableUnderLock, Working
<1>2. IInv /\ RecordStableUnderLock /\ [Next]_vars => RecordStableUnderLock'
  <2> SUFFICES ASSUME IInv, RecordStableUnderLock, [Next]_vars, NEW q \in Request, Working(q)'
               PROVE  \/ kv' \in {held'[q], NoTokens}
                      \/ \E l \in Login : lpc'[l] = "done" /\ kv' = given'[l]
    BY DEF RecordStableUnderLock
  <2> DEFINE Stable == \/ kv' \in {held'[q], NoTokens}
                       \/ \E l \in Login : lpc'[l] = "done" /\ kv' = given'[l]
  <2>1. Working(q) => \/ kv \in {held[q], NoTokens}
                      \/ \E l \in Login : lpc[l] = "done" /\ kv = given[l]
    BY DEF RecordStableUnderLock
  <2>2. CASE Quiet
    BY <2>1, <2>2 DEF Quiet
  <2>3. ASSUME NEW r \in Request, Reads(r) PROVE Stable
    <3>1. UNCHANGED <<kv, lpc, given>>
      BY <2>3 DEF Reads, loginVars
    <3>2. held'[q] = kv \/ (Working(q) /\ held'[q] = held[q])
      BY <2>3 DEF Reads, IInv, TypeOK, Working
    <3> QED
      BY <2>1, <3>1, <3>2
  <2>4. ASSUME NEW r \in Request, Stores(r) PROVE FALSE
    BY <2>4, OneRenewal DEF Stores, Working, IInv, TypeOK
  <2>5. ASSUME NEW r \in Request, NEW t \in Tokens, Issues(r, t) PROVE Stable
    BY <2>1, <2>5 DEF Issues, Working, loginVars
  <2>6. ASSUME NEW k \in Login, Grants(k) PROVE Stable
    <3>1. UNCHANGED <<kv, held, pc>>
      BY <2>6 DEF Grants, requestVars
    <3>2. \A l \in Login : lpc[l] = "done" => lpc'[l] = "done" /\ given'[l] = given[l]
      BY <2>6 DEF Grants, IInv, TypeOK
    <3> QED
      BY <2>1, <3>1, <3>2 DEF Working
  <2>7. ASSUME NEW k \in Login, SaveLogin(k) PROVE Stable
    BY <2>7 DEF SaveLogin, LoginGoto, IInv, TypeOK
  <2>8. CASE Logout
    BY <2>8 DEF Logout
  <2> QED
    BY <2>2, <2>3, <2>4, <2>5, <2>6, <2>7, <2>8, StepKinds DEF IInv
<1> QED
  BY <1>1, <1>2, Invariance, PTL DEF Spec

-----------------------------------------------------------------------------
(* Without failures.                                                        *)

\* A call is waited for, and what it brings is saved.
CalmControl ==
    \A r \in Request :
        /\ wire[r] = "pending" => pc[r] = "call"
        /\ wire[r] = "tokens" => Saved(r) \/ pc[r] \in {"call", "save"}

\* Whoever is about to present a token, or has, presents a usable one.
CalmTokens ==
    /\ revoked = {}
    /\ \A r \in Request :
          /\ Working(r) /\ wire[r] \in {"none", "pending"} => held[r].refresh \in live
          /\ wire[r] # "denied"

LEMMA NextCalmControl ==
    Calm /\ TypeOK /\ CallInv /\ CalmControl /\ [Next]_vars => CalmControl'
<1> SUFFICES ASSUME Calm, TypeOK, CallInv, CalmControl, [Next]_vars PROVE CalmControl'
  OBVIOUS
<1> USE DEF Calm, TypeOK, CalmControl, Saved
<1>1. ASSUME NEW r \in Request, Load(r) \/ Reload(r) PROVE CalmControl'
  BY <1>1 DEF Load, Reload, ReadRecord, Return, Goto, CallInv
<1>2. ASSUME NEW r \in Request, Lock(r) \/ SendRefresh(r) \/ Unlock(r) PROVE CalmControl'
  BY <1>2 DEF Lock, SendRefresh, Unlock, Goto, CallInv
<1>3. ASSUME NEW r \in Request, ReceiveAnswer(r) PROVE CalmControl'
  BY <1>3 DEF ReceiveAnswer, Return, Goto
<1>4. ASSUME NEW r \in Request, SaveRefreshed(r) PROVE CalmControl'
  BY <1>4 DEF SaveRefreshed, Return, Goto
<1>5. ASSUME NEW r \in Request, Endpoint(r) PROVE CalmControl'
  <2>1. /\ wire[r] = "pending"
        /\ UNCHANGED <<pc, res>>
        /\ \A q \in Request \ {r} : wire'[q] = wire[q]
    BY <1>5, EndpointStep DEF Issues
  <2>2. wire'[r] # "pending"
    BY <1>5, EndpointStep DEF Issues, ErrorOf
  <2> QED
    BY <2>1, <2>2
<1>6. CASE UNCHANGED <<pc, wire, res>>
  BY <1>6
<1>7. \/ \E r \in Request : \/ Load(r) \/ Reload(r) \/ Lock(r) \/ SendRefresh(r) \/ Unlock(r)
                            \/ ReceiveAnswer(r) \/ SaveRefreshed(r) \/ Endpoint(r)
                            \/ LockFails(r) \/ AbandonCall(r) \/ Crash(r)
      \/ UNCHANGED <<pc, wire, res>>
  BY Zenon DEF Next, RequestStep, LoginStep, LoginGoto, BeginDeviceLogin, LockExpires,
     PollDeviceLogin, ExchangeCode, SaveLogin, LoginFails, Logout, Expire, Revoke,
     vars, requestVars
<1>8. \A r \in Request : ~LockFails(r) /\ ~AbandonCall(r) /\ ~Crash(r)
  BY DEF LockFails, AbandonCall, Crash
<1> QED
  BY <1>1, <1>2, <1>3, <1>4, <1>5, <1>6, <1>7, <1>8

\* Only the request inside the critical section has a rotation to save.
LEMMA UnsavedIsHolder ==
    ASSUME Exclusive, CalmControl, NEW r \in Request, Rotated(r), ~Saved(r)
    PROVE  pc[r] \in {"call", "save"} /\ lock = r
  BY DEF Exclusive, Critical, CalmControl, Rotated

LEMMA NextCalmTokens ==
    Calm /\ IInv /\ CalmControl /\ CalmTokens /\ [Next]_vars => CalmTokens'
<1> SUFFICES ASSUME Calm, IInv, CalmControl, CalmTokens, [Next]_vars PROVE CalmTokens'
  OBVIOUS
<1> USE DEF IInv, CalmTokens
<1>1. CASE Quiet
  <2>1. ASSUME NEW q \in Request, wire'[q] = "denied" PROVE FALSE
    <3>1. wire[q] = "pending" /\ held[q].refresh \notin live
      BY <1>1, <2>1 DEF Quiet
    <3> QED
      BY <3>1 DEF CalmControl, Working
  <2> QED
    BY <1>1, <2>1 DEF Quiet
<1>2. ASSUME NEW r \in Request, Reads(r) PROVE CalmTokens'
  <2>1. UNCHANGED <<wire, live, revoked>>
    BY <1>2 DEF Reads, serverVars
  <2>2. \A q \in Request \ {r} : Working(q)' = Working(q) /\ held'[q] = held[q]
    BY <1>2 DEF Reads, Working, TypeOK
  <2>3. ASSUME Working(r)' PROVE held'[r].refresh \in live
    <3>1. pc[r] = "reload" /\ Connected(kv) /\ held'[r] = kv
      BY <1>2, <2>3 DEF Reads, TypeOK
    <3>2. lock = r
      BY <3>1 DEF Exclusive, Critical
    <3>3. ~ \E q \in Request : Rotated(q) /\ ~Saved(q)
      BY <3>1, <3>2, UnsavedIsHolder
    <3> QED
      BY <3>1, <3>3 DEF AccountedInv, Accounted, Connected
  <2> QED
    BY <2>1, <2>2, <2>3
<1>3. ASSUME NEW r \in Request, Stores(r) PROVE CalmTokens'
  BY <1>3 DEF Stores, Working, TypeOK, serverVars
<1>4. ASSUME NEW r \in Request, NEW t \in Tokens, Issues(r, t) PROVE CalmTokens'
  <2>1. Working(r)
    BY <1>4 DEF Issues, CalmControl, Working
  <2>2. \A q \in Request \ {r} : ~Working(q)
    BY <2>1, OneRenewal
  <2> QED
    BY <1>4, <2>2 DEF Issues, Working, TypeOK
<1>5. ASSUME NEW l \in Login, Grants(l) PROVE CalmTokens'
  BY <1>5 DEF Grants, Working, requestVars
<1>6. ASSUME NEW l \in Login, SaveLogin(l) PROVE CalmTokens'
  BY <1>6 DEF SaveLogin, LoginGoto, Working, requestVars
<1>7. CASE Logout
  BY <1>7 DEF Logout, Working, requestVars, serverVars
<1> QED
  BY <1>1, <1>2, <1>3, <1>4, <1>5, <1>6, <1>7, StepKinds

LEMMA CalmInvariance == Calm => (Spec => [](IInv /\ CalmControl /\ CalmTokens))
<1> SUFFICES ASSUME Calm PROVE Spec => [](IInv /\ CalmControl /\ CalmTokens)
  OBVIOUS
<1>1. Init => CalmControl /\ CalmTokens
  BY DEF Init, CalmControl, CalmTokens, Working
<1>2. IInv /\ CalmControl /\ CalmTokens /\ [Next]_vars => (IInv /\ CalmControl /\ CalmTokens)'
  BY NextInv, NextCalmControl, NextCalmTokens DEF IInv
<1> QED
  BY <1>1, <1>2, InitInv, PTL DEF Spec

\* Where no request fails, none is told that its token is void (auth.go:67-91).
THEOREM NeverDenied == Spec => []NobodyDenied
<1>1. CASE Calm
  <2>1. CalmTokens => NobodyDenied
    BY DEF CalmTokens, NobodyDenied
  <2> QED
    BY <1>1, <2>1, CalmInvariance, PTL
<1>2. CASE ~Calm
  <2>1. NobodyDenied
    BY <1>2 DEF NobodyDenied
  <2> QED
    BY <2>1, PTL
<1> QED
  BY <1>1, <1>2

\* Where no request fails the stored refresh token is usable whenever the mutex is
\* free: every rotation has been saved (design spec, section 3).
THEOREM EveryRotationSaved == Calm => (Spec => []RotationPersisted)
<1> SUFFICES ASSUME Calm PROVE Spec => []RotationPersisted
  OBVIOUS
<1>1. IInv /\ CalmControl => RotationPersisted
  <2> SUFFICES ASSUME IInv, CalmControl, lock = None PROVE RotationPersisted
    BY DEF RotationPersisted
  <2>1. ~ \E q \in Request : Rotated(q) /\ ~Saved(q)
    BY UnsavedIsHolder, AuthAssumption DEF IInv
  <2> QED
    BY <2>1 DEF IInv, AccountedInv, Accounted, RotationPersisted
<1> QED
  BY <1>1, CalmInvariance, PTL
=============================================================================
