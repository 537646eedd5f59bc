-------------------------- MODULE TokenServiceProofs --------------------------
(***************************************************************************)
(* CodexAuth implements TokenService: AccessToken is atomic, for any       *)
(* number of requests and logins and any set of faults.                    *)
(*                                                                         *)
(* A request takes effect when it reads the record and returns from it,    *)
(* when it saves its renewal, and when it fails.  Each happens once, since *)
(* a request that is still at work has no result (Unanswered).  What the   *)
(* steps do to the credential is known from CredentialProofs.              *)
(***************************************************************************)
EXTENDS CredentialProofs

\* AccessToken returns once.
Unanswered ==
    \A r \in Request :
        pc[r] \in {"load", "lock", "reload", "send", "call", "save"} => res[r] = "none"

LEMMA NextUnanswered == TypeOK /\ Unanswered /\ [Next]_vars => Unanswered'
<1> SUFFICES ASSUME TypeOK, Unanswered, [Next]_vars PROVE Unanswered'
  OBVIOUS
<1> USE DEF TypeOK, Unanswered
<1>1. ASSUME NEW r \in Request, Load(r) \/ Reload(r) PROVE Unanswered'
  BY <1>1 DEF Load, Reload, ReadRecord, Return, Goto
<1>2. ASSUME NEW r \in Request, Lock(r) \/ SendRefresh(r) \/ Unlock(r) \/ Crash(r)
      PROVE  Unanswered'
  BY <1>2 DEF Lock, SendRefresh, Unlock, Crash, Goto
<1>3. ASSUME NEW r \in Request, ReceiveAnswer(r) \/ SaveRefreshed(r) PROVE Unanswered'
  BY <1>3 DEF ReceiveAnswer, SaveRefreshed, Return, Goto
<1>4. ASSUME NEW r \in Request, LockFails(r) \/ AbandonCall(r) PROVE Unanswered'
  BY <1>4 DEF LockFails, AbandonCall, Return, Goto
<1>5. CASE UNCHANGED <<pc, res>>
  BY <1>5
<1>6. \/ \E r \in Request : \/ Load(r) \/ Reload(r) \/ Lock(r) \/ SendRefresh(r) \/ Unlock(r)
                            \/ ReceiveAnswer(r) \/ SaveRefreshed(r)
                            \/ LockFails(r) \/ AbandonCall(r) \/ Crash(r)
      \/ UNCHANGED <<pc, res>>
  BY Zenon DEF Next, RequestStep, Endpoint, LoginStep, LoginGoto, BeginDeviceLogin,
     LockExpires, PollDeviceLogin, ExchangeCode, SaveLogin, LoginFails, Logout, Expire, Revoke,
     vars, requestVars
<1> QED
  BY <1>1, <1>2, <1>3, <1>4, <1>5, <1>6

\* Nobody is given two answers: a request that has a result keeps it.
LEMMA OneAnswer == Spec => []Unanswered
<1>1. Init => Unanswered
  BY DEF Init, Unanswered
<1> QED
  BY <1>1, InitType, NextType, NextUnanswered, PTL DEF Spec

-----------------------------------------------------------------------------
(* The credential of TokenService is that of Credential.                    *)

LEMMA SameCredential ==
    /\ UNCHANGED Cred!credVars <=> UNCHANGED Service!credVars
    /\ Cred!Begin <=> Service!Begin
    /\ Cred!Store <=> Service!Store
    /\ Cred!GiveUp <=> Service!GiveUp
    /\ Cred!Renew <=> Service!Renew
    /\ Cred!Stray <=> Service!Stray
    /\ Cred!Grant <=> Service!Grant
    /\ Cred!Connect <=> Service!Connect
    /\ Cred!Clear <=> Service!Clear
    /\ Cred!Withdraw <=> Service!Withdraw
<1> USE DEF Cred!Nothing, Service!Nothing
<1>1. UNCHANGED Cred!credVars <=> UNCHANGED Service!credVars
  BY DEF Service!credVars, Cred!credVars
<1>2. /\ Cred!Begin <=> Service!Begin
      /\ Cred!Store <=> Service!Store
      /\ Cred!GiveUp <=> Service!GiveUp
  BY DEF Cred!Begin, Service!Begin, Cred!Store, Service!Store, Cred!GiveUp, Service!GiveUp
<1>3. \A n, refresh : Cred!Exchange(n, refresh) <=> Service!Exchange(n, refresh)
  BY DEF Cred!Exchange, Service!Exchange
<1>4. /\ Cred!Renew <=> Service!Renew
      /\ Cred!Stray <=> Service!Stray
  BY <1>3 DEF Cred!Renew, Service!Renew, Cred!Stray, Service!Stray
<1>5. /\ Cred!Grant <=> Service!Grant
      /\ Cred!Connect <=> Service!Connect
      /\ Cred!Clear <=> Service!Clear
      /\ Cred!Withdraw <=> Service!Withdraw
  BY DEF Cred!Grant, Service!Grant, Cred!Connect, Service!Connect, Cred!Clear, Service!Clear,
     Cred!Withdraw, Service!Withdraw
<1> QED
  BY <1>1, <1>2, <1>4, <1>5

LEMMA ServiceMappedInit == Init => Service!ServiceInit
<1> SUFFICES ASSUME Init PROVE Service!ServiceInit
  OBVIOUS
<1>1. Cred!Init
  BY MappedInit
<1>2. Service!Init
  BY <1>1 DEF Cred!Init, Service!Init, Cred!Nothing, Service!Nothing
<1>3. Results = [r \in Request |-> Service!Waiting]
  BY DEF Init, Results, Answered, Service!Waiting
<1> QED
  BY <1>2, <1>3 DEF Init, Service!ServiceInit

-----------------------------------------------------------------------------
(* What a step does to the answers.                                         *)

\* A result is given once, and what it was made of is not touched afterwards.
LEMMA AnswersKept ==
    ASSUME UNCHANGED res,
           \A q \in Request : held'[q] = held[q] \/ res[q] # "cached",
           \A q \in Request : payload'[q] = payload[q] \/ res[q] # "refreshed"
    PROVE  Results' = Results
<1>1. \A q \in Request : Answered(q)' = Answered(q)
  BY DEF Answered
<1> QED
  BY <1>1 DEF Results

LEMMA AnswerGiven ==
    ASSUME TypeOK, NEW r \in Request, res[r] = "none",
           res' = [res EXCEPT ![r] = res'[r]],
           \A q \in Request \ {r} : held'[q] = held[q],
           UNCHANGED <<payload, fresh>>
    PROVE  Service!Answer(r, Answered(r)')
<1>1. Results[r] = Service!Waiting
  BY DEF Results, Answered, Service!Waiting
<1>2. \A q \in Request \ {r} : Answered(q)' = Answered(q)
  BY DEF TypeOK, Answered
<1>3. Results' = [Results EXCEPT ![r] = Answered(r)']
  BY <1>2 DEF Results
<1> QED
  BY <1>1, <1>3 DEF Service!Answer

\* A request that fails.
LEMMA FailureMapped ==
    ASSUME TypeOK, NEW r \in Request, res[r] = "none",
           res' = [res EXCEPT ![r] = res'[r]],
           res'[r] \in Outcomes \ {"none", "cached", "refreshed", "not_configured"},
           UNCHANGED <<held, payload, fresh>>,
           Cred!GiveUp \/ UNCHANGED Cred!credVars
    PROVE  Service!Fail(r)
<1>1. Answered(r)' = Service!Failure
  BY DEF Answered, Service!Failure
<1>2. Service!Answer(r, Service!Failure)
  BY <1>1, AnswerGiven
<1> QED
  BY <1>2, SameCredential DEF Service!Fail

-----------------------------------------------------------------------------
(* Requests.                                                                *)

LEMMA ReadServed ==
    ASSUME IInv, Unanswered, NEW r \in Request, Load(r) \/ Reload(r)
    PROVE  Service!ServiceNext \/ UNCHANGED Service!serviceVars
<1> USE DEF IInv
<1>1. /\ pc[r] \in {"load", "reload"} /\ res[r] = "none"
      /\ UNCHANGED <<kv, payload, fresh>>
      /\ \A q \in Request \ {r} : pc'[q] = pc[q] /\ held'[q] = held[q]
      /\ res' = [res EXCEPT ![r] = res'[r]]
  BY DEF Unanswered, TypeOK, Load, Reload, ReadRecord, Return, Goto, serverVars
<1>2. IF Working(r)' THEN Cred!Begin ELSE UNCHANGED Cred!credVars
  BY ReadMapped
<1>3. CASE pc'[r] \in {"done", "unlock"}
  <2>1. UNCHANGED Cred!credVars /\ UNCHANGED Service!credVars
    BY <1>2, <1>3, SameCredential DEF Working
  <2>2. CASE res'[r] = "kv_error" /\ held' = held
    <3>1. Service!Fail(r)
      BY <1>1, <2>1, <2>2, FailureMapped DEF Outcomes
    <3> QED
      BY <3>1 DEF Service!ServiceNext
  <2>3. CASE res'[r] = "not_configured" /\ ~Connected(kv)
    <3>1. Service!Answer(r, Service!NoRecord)
      BY <1>1, <2>3, AnswerGiven DEF Answered, Service!NoRecord
    <3>2. Service!NotConfigured(r)
      BY <2>1, <2>3, <3>1 DEF Connected, Service!NotConfigured
    <3> QED
      BY <3>2 DEF Service!ServiceNext
  <2>4. CASE res'[r] = "cached" /\ held'[r] = kv /\ Connected(kv) /\ ~Expiring(kv)
    <3>1. Service!Answer(r, Service!Give(kv.access))
      BY <1>1, <2>4, AnswerGiven DEF Answered, Service!Give
    <3>2. Service!Use(r)
      BY <2>1, <2>4, <3>1 DEF Connected, Expiring, Service!Use
    <3> QED
      BY <3>2 DEF Service!ServiceNext
  <2> QED
    BY <1>3, <2>2, <2>3, <2>4 DEF TypeOK, Load, Reload, ReadRecord, Return, Goto
<1>4. CASE pc'[r] \in {"lock", "send"}
  <2>1. UNCHANGED res /\ Expiring(kv) /\ (pc'[r] = "send" => Working(r)')
    BY <1>4 DEF TypeOK, Load, Reload, ReadRecord, Return, Goto, Working
  <2>2. UNCHANGED <<fresh, Results>>
    BY <1>1, <2>1, AnswersKept
  <2>3. CASE pc'[r] = "send"
    <3>1. Service!BeginRenewal
      BY <1>2, <2>1, <2>2, <2>3, SameCredential DEF Expiring, Service!BeginRenewal
    <3> QED
      BY <3>1 DEF Service!ServiceNext
  <2>4. CASE pc'[r] = "lock"
    BY <1>2, <2>2, <2>4, SameCredential DEF Working, Service!serviceVars
  <2> QED
    BY <1>4, <2>3, <2>4
<1>5. pc'[r] \in {"done", "unlock", "lock", "send"}
  BY DEF TypeOK, Load, Reload, ReadRecord, Return, Goto
<1> QED
  BY <1>3, <1>4, <1>5

LEMMA UnansweringSteps ==
    ASSUME IInv, NEW r \in Request, Lock(r) \/ SendRefresh(r) \/ Unlock(r) \/ Crash(r)
    PROVE  Service!ServiceNext \/ UNCHANGED Service!serviceVars
<1>1. UNCHANGED <<res, held, payload, fresh>>
  BY DEF Lock, SendRefresh, Unlock, Crash, serverVars
<1>2. UNCHANGED <<fresh, Results>>
  BY <1>1, AnswersKept
<1>3. CASE Crash(r)
  <2>1. Leaves(r)
    BY <1>3 DEF IInv, TypeOK, Crash, Goto, Leaves, loginVars, serverVars
  <2>2. Cred!GiveUp \/ UNCHANGED Cred!credVars
    BY <2>1, LeavesMapped
  <2> QED
    BY <1>2, <2>2, SameCredential
       DEF Service!ServiceNext, Service!Abandon, Service!serviceVars
<1>4. CASE Lock(r) \/ SendRefresh(r) \/ Unlock(r)
  BY <1>2, <1>4, UnmappedRequestSteps, SameCredential DEF Service!serviceVars
<1> QED
  BY <1>3, <1>4

LEMMA FailuresServed ==
    ASSUME IInv, Unanswered, NEW r \in Request,
           \/ LockFails(r) \/ AbandonCall(r)
           \/ ReceiveAnswer(r) /\ wire[r] # "tokens"
           \/ SaveRefreshed(r) /\ kv' = kv /\ res'[r] # "refreshed"
    PROVE  Service!ServiceNext
<1> USE DEF IInv
<1>1. /\ res[r] = "none"
      /\ res' = [res EXCEPT ![r] = res'[r]]
      /\ UNCHANGED <<held, payload, fresh>>
  BY DEF Unanswered, TypeOK, LockFails, AbandonCall, ReceiveAnswer, SaveRefreshed, Return, Goto,
     serverVars
<1>2. res'[r] \in Outcomes \ {"none", "cached", "refreshed", "not_configured"}
  <2>1. wire[r] \in DOMAIN ErrorOf =>
            ErrorOf[wire[r]] \in Outcomes \ {"none", "cached", "refreshed", "not_configured"}
    BY DEF ErrorOf, Outcomes
  <2> QED
    BY <2>1 DEF TypeOK, LockFails, AbandonCall, ReceiveAnswer, SaveRefreshed, Return, Outcomes
<1>3. Cred!GiveUp \/ UNCHANGED Cred!credVars
  <2>1. CASE AbandonCall(r)
    <3>1. Leaves(r)
      BY <2>1 DEF TypeOK, AbandonCall, Return, Goto, Leaves, loginVars, serverVars
    <3> QED
      BY <3>1, LeavesMapped
  <2> QED
    BY <2>1, UnmappedRequestSteps, ReceiveMapped, SaveMapped
<1>4. Service!Fail(r)
  BY <1>1, <1>2, <1>3, FailureMapped
<1> QED
  BY <1>4 DEF Service!ServiceNext

LEMMA SaveServed ==
    ASSUME IInv, Unanswered, NEW r \in Request, SaveRefreshed(r)
    PROVE  Service!ServiceNext
<1> USE DEF IInv
<1>1. CASE kv' = Renewed(r) /\ Return(r, "refreshed", "unlock")
  <2>1. /\ res[r] = "none" /\ res' = [res EXCEPT ![r] = res'[r]] /\ res'[r] = "refreshed"
        /\ UNCHANGED <<held, payload, fresh>>
    BY <1>1 DEF Unanswered, TypeOK, SaveRefreshed, Return, Goto, serverVars
  <2>2. Pending.access = payload[r].access
    BY HolderRenews DEF SaveRefreshed, CallInv, Critical, Renewing, Renewed
  <2>3. Service!Answer(r, Service!Give(Pending.access))
    BY <2>1, <2>2, AnswerGiven DEF Answered, Service!Give
  <2>4. Service!RenewAndUse(r)
    BY <1>1, <2>3, SaveMapped, SameCredential DEF Service!RenewAndUse
  <2> QED
    BY <2>4 DEF Service!ServiceNext
<1>2. CASE Return(r, "kv_error", "unlock") /\ UNCHANGED kv
  <2>1. res'[r] # "refreshed"
    BY <1>2 DEF TypeOK, Return
  <2> QED
    BY <1>2, <2>1, FailuresServed
<1> QED
  BY <1>1, <1>2 DEF SaveRefreshed

LEMMA ReceiveServed ==
    ASSUME IInv, Unanswered, NEW r \in Request, ReceiveAnswer(r)
    PROVE  Service!ServiceNext \/ UNCHANGED Service!serviceVars
<1>1. CASE wire[r] = "tokens"
  <2>1. UNCHANGED <<res, held, payload, fresh>>
    BY <1>1 DEF ReceiveAnswer, serverVars
  <2>2. UNCHANGED <<fresh, Results>>
    BY <2>1, AnswersKept
  <2> QED
    BY <2>2, ReceiveMapped, SameCredential
       DEF Service!ServiceNext, Service!Abandon, Service!serviceVars
<1> QED
  BY <1>1, FailuresServed

-----------------------------------------------------------------------------
(* The endpoint, logins, admins and time.                                   *)

LEMMA EndpointServed ==
    ASSUME IInv, NEW r \in Request, Endpoint(r)
    PROVE  Service!ServiceNext \/ UNCHANGED Service!serviceVars
<1> USE DEF IInv
<1>1. /\ UNCHANGED <<res, held>> /\ wire[r] = "pending"
      /\ \A q \in Request \ {r} : payload'[q] = payload[q]
      /\ fresh' = fresh \/ fresh' = fresh \cup {issued'}
  BY DEF TypeOK, Endpoint
<1>2. res[r] # "refreshed"
  BY <1>1 DEF CallInv
<1>3. Results' = Results
  BY <1>1, <1>2, AnswersKept
<1>4. Cred!Renew \/ Cred!Stray \/ UNCHANGED Cred!credVars
  BY EndpointMapped
<1>5. CASE UNCHANGED Cred!credVars
  <2>1. issued' = issued
    BY <1>5 DEF Cred!credVars
  <2>2. fresh' = fresh
    BY <2>1 DEF TypeOK, Endpoint
  <2> QED
    BY <1>3, <1>5, <2>2, SameCredential DEF Service!serviceVars
<1>6. CASE Cred!Renew \/ Cred!Stray
  BY <1>1, <1>3, <1>6, SameCredential DEF Service!ServiceNext, Service!Issue
<1> QED
  BY <1>4, <1>5, <1>6

LEMMA LoginServed ==
    ASSUME IInv, NEW l \in Login, LoginStep(l)
    PROVE  Service!ServiceNext \/ UNCHANGED Service!serviceVars
<1> USE DEF IInv
<1>1. UNCHANGED requestVars
  BY DEF LoginStep, LoginFails, BeginDeviceLogin, PollDeviceLogin, ExchangeCode, SaveLogin,
     LoginGoto
<1>2. Results' = Results
  BY <1>1, AnswersKept DEF requestVars
<1>3. Cred!Grant \/ Cred!Connect \/ UNCHANGED Cred!credVars
  BY LoginMapped
<1>4. CASE ExchangeCode(l)
  <2>1. issued' # issued /\ fresh' \in {fresh, fresh \cup {issued'}}
    BY <1>4 DEF TypeOK, ExchangeCode
  <2>2. Cred!Grant
    BY <1>3, <2>1 DEF Cred!Connect, Cred!credVars
  <2> QED
    BY <1>2, <2>1, <2>2, SameCredential DEF Service!ServiceNext, Service!Issue
<1>5. CASE ~ExchangeCode(l)
  <2>1. fresh' = fresh
    BY <1>5 DEF LoginStep, LoginFails, BeginDeviceLogin, PollDeviceLogin, SaveLogin
  <2> QED
    BY <1>2, <1>3, <2>1, SameCredential
       DEF Service!ServiceNext, Service!Issue, Service!Administer, Service!serviceVars
<1> QED
  BY <1>4, <1>5

LEMMA OthersServed ==
    ASSUME IInv, LockExpires \/ Logout \/ Expire \/ Revoke \/ UNCHANGED vars
    PROVE  Service!ServiceNext \/ UNCHANGED Service!serviceVars
<1>1. UNCHANGED <<requestVars, lpc, given>>
  BY DEF LockExpires, Logout, Expire, Revoke, vars, loginVars
<1>2. Results' = Results
  BY <1>1, AnswersKept DEF requestVars
<1>3. CASE LockExpires \/ UNCHANGED vars
  <2>1. UNCHANGED Cred!credVars
    BY <1>3, LockExpiryMapped
  <2> QED
    BY <1>2, <1>3, <2>1, SameCredential
       DEF LockExpires, vars, serverVars, Service!serviceVars
<1>4. CASE Logout \/ Revoke
  <2>1. Cred!Clear \/ Cred!Withdraw
    BY <1>4, AdministrationMapped
  <2> QED
    BY <1>2, <1>4, <2>1, SameCredential
       DEF Logout, Revoke, serverVars, Service!ServiceNext, Service!Administer
<1>5. CASE Expire
  <2>1. UNCHANGED Cred!credVars
    BY <1>5, AdministrationMapped
  <2> QED
    BY <1>2, <1>5, <2>1, SameCredential DEF Expire, Service!ServiceNext, Service!Age
<1> QED
  BY <1>3, <1>4, <1>5

-----------------------------------------------------------------------------
LEMMA NextServed ==
    IInv /\ Unanswered /\ [Next]_vars => [Service!ServiceNext]_(Service!serviceVars)
<1> SUFFICES ASSUME IInv, Unanswered, [Next]_vars
             PROVE  Service!ServiceNext \/ UNCHANGED Service!serviceVars
  OBVIOUS
<1> QED
  BY ReadServed, UnansweringSteps, FailuresServed, SaveServed, ReceiveServed, EndpointServed,
     LoginServed, OthersServed, Zenon DEF Next, RequestStep

\* AccessToken is atomic: every call takes effect at one instant, at which the
\* token it returns is the stored one and fresh, or is stored by the call itself
\* (auth.go:55-93).
THEOREM CallsTakeEffectAtOnce == Spec => CallsAtomic
<1>1. Spec => []IInv
  BY Invariance
<1> QED
  BY <1>1, OneAnswer, ServiceMappedInit, NextServed, PTL
     DEF Spec, CallsAtomic, Service!ServiceSpec
=============================================================================
