---------------------------- MODULE TranslateProofs ----------------------------
(***************************************************************************)
(* Proofs about Translate.  Each of its steps is a step of CodexAuth or    *)
(* leaves the credential alone, so what is proved of CodexAuth holds here; *)
(* ReconnectJustified follows from it and from what the handler keeps of   *)
(* the result of AccessToken.                                              *)
(***************************************************************************)
EXTENDS Translate, CodexAuthProofs

\* The handler takes no part in the steps of the credential.
LEMMA StepImplements == [HandlerNext]_allVars => [Next]_vars
<1> SUFFICES ASSUME [HandlerNext]_allVars PROVE [Next]_vars
  OBVIOUS
<1>1. CASE UNCHANGED allVars
  BY <1>1 DEF allVars
<1>2. ASSUME NEW r \in Request, HandlerStep(r) PROVE [Next]_vars
  <2>1. CASE AccessToken(r) \/ AccessTokenCut(r)
    BY <2>1 DEF AccessToken, AccessTokenCut, Next
  <2>2. CASE ~(AccessToken(r) \/ AccessTokenCut(r))
    BY <1>2, <2>2 DEF HandlerStep, ServeStep, Refuse, Admit, AccessTokenFails, CallCodex,
                      CodexAnswers, Respond, Proceed
  <2> QED
    BY <2>1, <2>2
<1>3. ASSUME NEW r \in Request, NodeDies(r) PROVE [Next]_vars
  BY <1>3 DEF NodeDies, Next
<1>4. ASSUME NEW r \in Request, TokenEnds(r) PROVE [Next]_vars
  BY <1>4 DEF TokenEnds
<1>5. CASE Around
  BY <1>5 DEF Around, Next
<1> QED
  BY <1>1, <1>2, <1>3, <1>4, <1>5 DEF HandlerNext

\* The handlers run the credential as CodexAuth specifies it (auth.go:55-93,
\* called at client.go:46).
THEOREM Implements == HandlerSpec => Spec
BY StepImplements, PTL DEF HandlerSpec, HandlerInit, Spec

-----------------------------------------------------------------------------
(* What the handler knows of its request.                                   *)

Succeeded(r) == res[r] \in {"cached", "refreshed"}

Justified(r) ==
    \/ res[r] = "relogin"
    \/ Succeeded(r) /\ Token(r) \in void

HandlerInv ==
    \A r \in Request :
        /\ at[r] = "check" => pc[r] = "load"
        /\ at[r] \in {"check", "token", "codex"} => answer[r] = "none"
        /\ at[r] = "codex" => pc[r] = "done" /\ Succeeded(r)
        /\ at[r] = "answered" => pc[r] \in {"load", "done"}
        /\ answer[r] = "reconnect" => at[r] = "answered" /\ pc[r] = "done" /\ Justified(r)

\* A call of AccessToken that has returned keeps its result.
LEMMA DoneStays ==
    ASSUME IInv, [Next]_vars, NEW r \in Request, pc[r] = "done"
    PROVE  /\ pc'[r] = "done" /\ res'[r] = res[r] /\ held'[r] = held[r]
           /\ res[r] = "refreshed" => payload'[r] = payload[r]
<1> DEFINE Same == /\ pc'[r] = "done" /\ res'[r] = res[r] /\ held'[r] = held[r]
                   /\ res[r] = "refreshed" => payload'[r] = payload[r]
<1>t. TypeOK /\ (res[r] = "refreshed" => wire[r] = "tokens")
  BY DEF IInv, CallInv
<1>1. ASSUME NEW q \in Request, RequestStep(q) PROVE Same
  BY <1>t, <1>1 DEF RequestStep, Load, Lock, Reload, SendRefresh, ReceiveAnswer, SaveRefreshed,
       Unlock, ReadRecord, Return, Goto, TypeOK
<1>2. ASSUME NEW q \in Request, LockFails(q) \/ AbandonCall(q) \/ Crash(q) PROVE Same
  BY <1>t, <1>2 DEF LockFails, AbandonCall, Crash, Return, Goto, TypeOK
<1>3. ASSUME NEW q \in Request, Endpoint(q) PROVE Same
  BY <1>t, <1>3 DEF Endpoint, TypeOK
<1>4. ASSUME UNCHANGED requestVars PROVE Same
  BY <1>4 DEF requestVars
<1>5. \/ UNCHANGED requestVars
      \/ \E q \in Request : \/ RequestStep(q) \/ LockFails(q) \/ AbandonCall(q) \/ Crash(q)
                            \/ Endpoint(q)
  BY Zenon DEF Next, LoginStep, LoginGoto, BeginDeviceLogin, PollDeviceLogin, ExchangeCode,
     SaveLogin, LoginFails, Logout, LockExpires, Expire, Revoke, vars
<1> QED
  BY <1>1, <1>2, <1>3, <1>4, <1>5

-----------------------------------------------------------------------------
(* Type correctness.                                                        *)

LEMMA NextHandlerType ==
    IInv /\ IInv' /\ HandlerTypeOK /\ HandlerInv /\ [HandlerNext]_allVars => HandlerTypeOK'
<1> SUFFICES ASSUME IInv, IInv', HandlerTypeOK, HandlerInv, [HandlerNext]_allVars
             PROVE  HandlerTypeOK'
  OBVIOUS
<1>t. issued \in Nat /\ issued' \in Nat /\ issued <= issued'
  <2>1. issued \in Nat /\ (issued' = issued \/ issued' = issued + 1)
    BY StepImplements DEF IInv, TypeOK, Next, RequestStep, LoginStep, Load, Lock, Reload,
       SendRefresh, ReceiveAnswer, SaveRefreshed, Unlock, ReadRecord, LockFails, AbandonCall,
       Crash, Endpoint, LoginGoto, BeginDeviceLogin, PollDeviceLogin, ExchangeCode, SaveLogin,
       LoginFails, Logout, LockExpires, Expire, Revoke, vars, serverVars
  <2> QED
    BY <2>1
<1>v. void' = void => void' \subseteq 0..issued'
  BY <1>t DEF HandlerTypeOK
<1>1. CASE UNCHANGED handlerVars
  BY <1>v, <1>1 DEF HandlerTypeOK, handlerVars
<1>2. ASSUME NEW r \in Request, Refuse(r) PROVE HandlerTypeOK'
  BY <1>v, <1>2 DEF Refuse, Respond, HandlerTypeOK, Answers
<1>3. ASSUME NEW r \in Request, Admit(r) \/ CallCodex(r) PROVE HandlerTypeOK'
  BY <1>v, <1>3 DEF Admit, CallCodex, Proceed, HandlerTypeOK
<1>4. ASSUME NEW r \in Request, AccessTokenFails(r) PROVE HandlerTypeOK'
  <2>1. UserMessage[res[r]] \in Answers
    BY <1>4 DEF AccessTokenFails, UserMessage, Answers
  <2> QED
    BY <1>v, <1>4, <2>1 DEF AccessTokenFails, Respond, HandlerTypeOK
<1>5. ASSUME NEW r \in Request, CodexAnswers(r) PROVE HandlerTypeOK'
  BY <1>v, <1>5 DEF CodexAnswers, Respond, HandlerTypeOK, Answers
<1>6. ASSUME NEW r \in Request, NodeDies(r) PROVE HandlerTypeOK'
  BY <1>v, <1>6 DEF NodeDies, HandlerTypeOK
<1>7. ASSUME NEW r \in Request, TokenEnds(r) PROVE HandlerTypeOK'
  <2>1. Token(r) \in 0..issued
    BY DEF IInv, Bounded, Issued, Token
  <2>2. void' \subseteq 0..issued' /\ UNCHANGED <<defects, at, answer>>
    <3>1. 0..issued \subseteq 0..issued'
      BY <1>t
    <3>2. void' = void \cup {Token(r)} /\ UNCHANGED <<defects, at, answer>>
      BY <1>7 DEF TokenEnds
    <3>3. void \subseteq 0..issued
      BY DEF HandlerTypeOK
    <3> QED
      BY <2>1, <3>1, <3>2, <3>3, Zenon
  <2> QED
    BY <2>2 DEF HandlerTypeOK
<1> QED
  BY <1>1, <1>2, <1>3, <1>4, <1>5, <1>6, <1>7
     DEF HandlerNext, HandlerStep, ServeStep, AccessToken, AccessTokenCut, Around, allVars

-----------------------------------------------------------------------------
(* The results of AccessToken reach the user unchanged.                     *)

\* A handler step of r says what it does to r's place and answer, a step of
\* anybody else leaves them alone.
Outside(r) == at'[r] = at[r] /\ answer'[r] = answer[r]

\* The credential runs for r only while r is in AccessToken.
LEMMA LoadIsAccessToken ==
    ASSUME TypeOK, [HandlerNext]_allVars, NEW r \in Request, pc[r] = "load", pc'[r] # "load"
    PROVE  at[r] = "token"
<1>1. CASE UNCHANGED pc
  BY <1>1
<1>2. CASE \E q \in Request : AccessToken(q) \/ AccessTokenCut(q)
  <2> PICK q \in Request : AccessToken(q) \/ AccessTokenCut(q)
    BY <1>2
  <2>1. q = r
    BY DEF AccessToken, AccessTokenCut, RequestStep, Load, Lock, Reload, SendRefresh, ReceiveAnswer,
       SaveRefreshed, Unlock, ReadRecord, Return, Goto, LockFails, AbandonCall, TypeOK
  <2> QED
    BY <2>1 DEF AccessToken, AccessTokenCut
<1>3. CASE \E q \in Request : NodeDies(q)
  BY <1>3 DEF NodeDies, Crash, Goto, vars, requestVars, TypeOK
<1>4. \/ UNCHANGED pc
      \/ \E q \in Request : AccessToken(q) \/ AccessTokenCut(q)
      \/ \E q \in Request : NodeDies(q)
  BY Zenon DEF HandlerNext, HandlerStep, ServeStep, Refuse, Admit, AccessTokenFails, CallCodex,
     CodexAnswers, Respond, Proceed, TokenEnds, Around, Endpoint, LoginStep, LoginGoto,
     BeginDeviceLogin, PollDeviceLogin, ExchangeCode, SaveLogin, LoginFails, Logout,
     LockExpires, Expire, Revoke, vars, allVars, requestVars
<1> QED
  BY <1>1, <1>2, <1>3, <1>4

\* A token that has ended stays ended.
LEMMA VoidStays == [HandlerNext]_allVars => void \subseteq void'
BY DEF HandlerNext, HandlerStep, ServeStep, Refuse, Admit, AccessToken, AccessTokenCut,
   AccessTokenFails, CallCodex,
   CodexAnswers, Respond, Proceed, NodeDies, TokenEnds, Around, handlerVars, allVars

\* A step leaves the place and the answer of r alone, or is a handler step of
\* r, which leaves the credential alone, or ends r.
LEMMA OwnStep ==
    ASSUME HandlerTypeOK, [HandlerNext]_allVars, NEW r \in Request
    PROVE  \/ Outside(r)
           \/ /\ Refuse(r) \/ Admit(r) \/ AccessTokenFails(r) \/ CallCodex(r) \/ CodexAnswers(r)
              /\ UNCHANGED <<vars, defects, void>>
           \/ NodeDies(r)
<1>1. ASSUME NEW q \in Request,
             Refuse(q) \/ Admit(q) \/ AccessTokenFails(q) \/ CallCodex(q) \/ CodexAnswers(q)
      PROVE  UNCHANGED <<vars, defects, void>> /\ (q # r => Outside(r))
  BY <1>1 DEF Refuse, Admit, AccessTokenFails, CallCodex, CodexAnswers, Respond, Proceed,
     Outside, HandlerTypeOK
<1>2. ASSUME NEW q \in Request, NodeDies(q) PROVE q # r => Outside(r)
  BY <1>2 DEF NodeDies, Outside, HandlerTypeOK
<1>3. CASE UNCHANGED <<at, answer>>
  BY <1>3 DEF Outside
<1>4. \/ UNCHANGED <<at, answer>>
      \/ \E q \in Request : \/ Refuse(q) \/ Admit(q) \/ AccessTokenFails(q) \/ CallCodex(q)
                            \/ CodexAnswers(q) \/ NodeDies(q)
  BY Zenon DEF HandlerNext, HandlerStep, ServeStep, AccessToken, AccessTokenCut, TokenEnds,
     Around, handlerVars, allVars
<1> QED
  BY <1>1, <1>2, <1>3, <1>4

LEMMA NextHandlerInv ==
    IInv /\ HandlerTypeOK /\ HandlerInv /\ [HandlerNext]_allVars => HandlerInv'
<1> SUFFICES ASSUME IInv, HandlerTypeOK, HandlerInv, [HandlerNext]_allVars, NEW r \in Request
             PROVE  /\ at'[r] = "check" => pc'[r] = "load"
                    /\ at'[r] \in {"check", "token", "codex"} => answer'[r] = "none"
                    /\ at'[r] = "codex" => pc'[r] = "done" /\ Succeeded(r)'
                    /\ at'[r] = "answered" => pc'[r] \in {"load", "done"}
                    /\ answer'[r] = "reconnect" =>
                          at'[r] = "answered" /\ pc'[r] = "done" /\ Justified(r)'
  BY DEF HandlerInv
<1>1. CASE Outside(r)
  <2>1. CASE pc[r] = "done"
    <3>1. pc'[r] = "done" /\ Succeeded(r)' = Succeeded(r) /\ res'[r] = res[r]
      BY <2>1, StepImplements, DoneStays DEF Succeeded
    <3>2. Token(r)' = Token(r)
      BY <2>1, StepImplements, DoneStays DEF Token
    <3>3. Justified(r) => Justified(r)'
      BY <3>1, <3>2, VoidStays DEF Justified
    <3> QED
      BY <1>1, <2>1, <3>1, <3>3 DEF HandlerInv, Outside
  <2>2. CASE pc[r] = "load" /\ at[r] # "token"
    <3>1. pc'[r] = "load"
      BY <2>2, LoadIsAccessToken DEF IInv
    <3> QED
      BY <1>1, <2>2, <3>1 DEF HandlerInv, Outside
  <2>3. CASE at[r] \in {"token", "gone"}
    BY <1>1, <2>3 DEF HandlerInv, Outside
  <2> QED
    BY <2>1, <2>2, <2>3 DEF HandlerInv, HandlerTypeOK
<1>2. CASE /\ Refuse(r) \/ Admit(r) \/ AccessTokenFails(r) \/ CallCodex(r) \/ CodexAnswers(r)
           /\ UNCHANGED <<vars, defects, void>>
  <2> USE DEF HandlerInv, HandlerTypeOK
  <2>0. pc' = pc /\ Succeeded(r)' = Succeeded(r) /\ Justified(r)' = Justified(r)
    BY <1>2 DEF vars, requestVars, Succeeded, Justified, Token
  <2>1. CASE Refuse(r)
    <3>1. \A i \in DOMAIN Checks : Checks[i] # "reconnect"
      BY DEF Checks
    <3> QED
      BY <2>0, <2>1, <3>1 DEF Refuse, Respond
  <2>2. CASE Admit(r)
    BY <2>0, <2>2 DEF Admit, Proceed
  <2>3. CASE AccessTokenFails(r)
    <3>1. res[r] \in DOMAIN UserMessage /\ UserMessage[res[r]] = "reconnect" => res[r] = "relogin"
      BY DEF UserMessage
    <3> QED
      BY <2>0, <2>3, <3>1 DEF AccessTokenFails, Respond, Justified
  <2>4. CASE CallCodex(r)
    BY <2>0, <2>4 DEF CallCodex, Proceed, Succeeded
  <2>5. CASE CodexAnswers(r)
    BY <2>0, <2>5 DEF CodexAnswers, Respond, Justified
  <2> QED
    BY <1>2, <2>1, <2>2, <2>3, <2>4, <2>5
<1>3. CASE NodeDies(r)
  BY <1>3 DEF NodeDies, HandlerInv, HandlerTypeOK
<1> QED
  BY <1>1, <1>2, <1>3, OwnStep

LEMMA HandlerInvariance == HandlerSpec => [](IInv /\ HandlerTypeOK /\ HandlerInv)
<1>1. HandlerInit => HandlerTypeOK /\ HandlerInv
  BY DEF HandlerInit, Init, HandlerTypeOK, HandlerInv, Answers
<1>2. IInv /\ IInv' /\ (HandlerTypeOK /\ HandlerInv) /\ [HandlerNext]_allVars
      => (HandlerTypeOK /\ HandlerInv)'
  BY NextHandlerType, NextHandlerInv
<1> QED
  BY <1>1, <1>2, Implements, Invariance, PTL DEF HandlerSpec

-----------------------------------------------------------------------------
(* Theorems.                                                                *)

\* The handler's state stays of its type; in particular every answer is one of
\* the messages of the API (api.go:39-75).
THEOREM HandlerTypeCorrect == HandlerSpec => []HandlerTypeOK
BY HandlerInvariance, PTL

\* Only a token, a session or an answer without an access token that the
\* provider did not honour has the user told to reconnect (api.go:64-72).
THEOREM Reconnects == HandlerSpec => []ReconnectJustified
<1>1. IInv /\ HandlerInv /\ ReloginJustified => ReconnectJustified
  BY DEF HandlerInv, Justified, Succeeded, ReloginJustified, ReconnectJustified
<1> QED
  BY <1>1, HandlerInvariance, Implements, ReloginReported, PTL
=============================================================================
