--------------------------- MODULE CredentialProofs ---------------------------
(***************************************************************************)
(* CodexAuth implements Credential, for any number of requests and logins  *)
(* and any set of faults.                                                  *)
(*                                                                         *)
(* The renewal that Credential speaks of is that of the mutex's holder, so *)
(* the argument rests on Exclusive: a request that works on a renewal is   *)
(* the holder.  ConnectedInv and RenewalPrivate say that a renewal under   *)
(* way has a base and that issued tokens are tokens; LoginPrivate, that no *)
(* two logins hold the same tokens.                                        *)
(***************************************************************************)
EXTENDS CodexAuthProofs

Stray(r) == wire[r] = "pending" /\ pc[r] # "call"

\* The mapped variables but the renewal's, and those that are not mapped.
LEMMA StraysKept ==
    ASSUME TypeOK,
           \A q \in Request : Stray(q)' <=> Stray(q),
           \A q \in Request : Stray(q) => held'[q] = held[q]
    PROVE  Strays' = Strays
  BY DEF Strays, Stray

LEMMA GrantedKept ==
    ASSUME UNCHANGED <<lpc, given>>
    PROVE  Granted' = Granted
  BY DEF Granted

LEMMA HolderRenews ==
    ASSUME TypeOK, Exclusive, NEW r \in Request, pc[r] \in Critical
    PROVE  /\ lock = r
           /\ Base = IF Working(r) THEN held[r] ELSE NoTokens
           /\ Pending = IF Renewing(r) THEN Renewed(r) ELSE NoTokens
  BY AuthAssumption DEF Exclusive, Base, Pending

LEMMA MappedInit == Init => Cred!Init
<1> SUFFICES ASSUME Init PROVE Cred!Init
  OBVIOUS
<1>1. Base = NoTokens /\ Pending = NoTokens
  BY DEF Init, Base, Pending
<1>2. Strays = {} /\ Granted = {}
  BY DEF Init, Strays, Granted
<1> QED
  BY <1>1, <1>2 DEF Init, Cred!Init, Cred!Nothing, NoTokens

-----------------------------------------------------------------------------
(* Requests.                                                                *)

LEMMA ReadMapped ==
    ASSUME IInv, NEW r \in Request, Load(r) \/ Reload(r)
    PROVE  IF Working(r)' THEN Cred!Begin ELSE UNCHANGED Cred!credVars
<1> USE DEF IInv
<1>1. Reads(r)
  BY ReadIsReads
<1>2. Strays' = Strays
  <2>1. \A q \in Request : Stray(q)' <=> Stray(q)
    BY <1>1 DEF TypeOK, Reads, Stray
  <2>2. \A q \in Request : Stray(q) => held'[q] = held[q]
    BY <1>1 DEF TypeOK, Reads, Stray
  <2> QED
    BY <2>1, <2>2, StraysKept
<1>3. Granted' = Granted /\ UNCHANGED <<kv, issued, live, revoked>>
  BY <1>1, GrantedKept DEF Reads, loginVars, serverVars
<1>4. \A q \in Request : pc'[q] \notin {"call", "save"} \/ (q # r /\ pc'[q] = pc[q])
  BY <1>1 DEF TypeOK, Reads
<1>5. CASE Working(r)'
  <2>1. pc[r] = "reload" /\ Connected(kv) /\ held'[r] = kv /\ pc'[r] = "send"
    BY <1>1, <1>5 DEF Reads, TypeOK, Working
  <2>2. lock = r /\ lock' = r /\ Base = NoTokens /\ Pending = NoTokens
    BY <2>1, <1>1, HolderRenews DEF Critical, Working, Renewing, Reads
  <2>3. Base' = kv /\ Pending' = NoTokens
    BY <2>1, <2>2, <1>5, AuthAssumption DEF Base, Pending, Working, Renewing
  <2> QED
    BY <1>2, <1>3, <1>5, <2>1, <2>2, <2>3 DEF Cred!Begin, Cred!Nothing, NoTokens, Connected
<1>6. CASE ~Working(r)'
  <2>1. lock' = lock /\ ~Working(r) /\ ~Renewing(r) /\ ~Renewing(r)'
    BY <1>1, <1>6 DEF Reads, Working, Renewing
  <2>2. \A q \in Request \ {r} : /\ Working(q)' = Working(q) /\ Renewing(q)' = Renewing(q)
                                 /\ held'[q] = held[q] /\ Renewed(q)' = Renewed(q)
    BY <1>1 DEF TypeOK, Reads, Working, Renewing, Renewed
  <2>3. Base' = Base /\ Pending' = Pending
    BY <2>1, <2>2, <1>6 DEF Base, Pending, TypeOK
  <2> QED
    BY <1>2, <1>3, <1>6, <2>3 DEF Cred!credVars
<1> QED
  BY <1>5, <1>6

LEMMA UnmappedRequestSteps ==
    ASSUME IInv, NEW r \in Request,
           Lock(r) \/ SendRefresh(r) \/ Unlock(r) \/ LockFails(r)
    PROVE  UNCHANGED Cred!credVars
<1> USE DEF IInv
<1>1. UNCHANGED <<kv, held, payload, lpc, given, issued, live, revoked>>
  BY DEF Lock, SendRefresh, Unlock, LockFails, loginVars, serverVars
<1>2. Strays' = Strays
  <2>1. \A q \in Request : Stray(q)' <=> Stray(q)
    BY DEF TypeOK, CallInv, Lock, SendRefresh, Unlock, LockFails, Return, Goto, Stray
  <2> QED
    BY <1>1, <2>1, StraysKept
<1>3. Base' = Base /\ Pending' = Pending
  <2>1. CASE Lock(r)
    BY <2>1, AuthAssumption DEF TypeOK, Lock, Goto, Base, Pending, Working, Renewing
  <2>2. CASE Unlock(r)
    <3>1. lock = r
      BY <2>2 DEF Unlock, Exclusive, Critical
    <3> QED
      BY <2>2, <3>1 DEF TypeOK, Unlock, Goto, Base, Pending, Working, Renewing
  <2>3. CASE SendRefresh(r)
    <3>1. lock = r /\ lock' = r /\ held' = held /\ payload' = payload
      BY <2>3 DEF SendRefresh, Exclusive, Critical
    <3>2. Working(r) /\ Working(r)' /\ ~Renewing(r) /\ ~Renewing(r)'
      BY <2>3 DEF TypeOK, SendRefresh, Goto, Working, Renewing
    <3> QED
      BY <3>1, <3>2 DEF Base, Pending
  <2>4. CASE LockFails(r)
    <3>1. lock' = lock /\ held' = held /\ payload' = payload
      BY <2>4 DEF LockFails
    <3>2. \A q \in Request : Working(q)' = Working(q) /\ Renewing(q)' = Renewing(q)
      BY <2>4 DEF TypeOK, LockFails, Return, Goto, Working, Renewing
    <3> QED
      BY <3>1, <3>2 DEF TypeOK, Base, Pending, Renewed
  <2> QED
    BY <2>1, <2>2, <2>3, <2>4
<1> QED
  BY <1>1, <1>2, <1>3, GrantedKept DEF Cred!credVars

LEMMA ReceiveMapped ==
    ASSUME IInv, NEW r \in Request, ReceiveAnswer(r)
    PROVE  Cred!GiveUp \/ UNCHANGED Cred!credVars
<1> USE DEF IInv
<1>1. /\ pc[r] = "call" /\ wire[r] \notin {"none", "pending"}
      /\ UNCHANGED <<kv, lock, held, wire, payload, lpc, given, issued, live, revoked>>
  BY DEF ReceiveAnswer, loginVars, serverVars
<1>2. Strays' = Strays
  <2>1. \A q \in Request : Stray(q)' <=> Stray(q)
    BY <1>1 DEF TypeOK, ReceiveAnswer, Return, Goto, Stray
  <2> QED
    BY <1>1, <2>1, StraysKept
<1>3. lock = r /\ lock' = r /\ Base = held[r] /\ held[r] # NoTokens
  BY <1>1, HolderRenews DEF Critical, Working, ConnectedInv, NoTokens
<1>4. CASE wire[r] = "tokens"
  <2>1. Working(r) /\ Working(r)' /\ Renewing(r) /\ Renewing(r)'
    BY <1>1, <1>4 DEF TypeOK, ReceiveAnswer, Goto, Working, Renewing
  <2>2. Base' = Base /\ Pending' = Pending
    BY <1>1, <1>3, <2>1 DEF Base, Pending, Renewed
  <2> QED
    BY <1>1, <1>2, <2>2, GrantedKept DEF Cred!credVars
<1>5. CASE wire[r] # "tokens"
  <2>1. ~Working(r)' /\ ~Renewing(r)'
    BY <1>1, <1>5 DEF TypeOK, ReceiveAnswer, Return, Goto, Working, Renewing
  <2>2. Base' = NoTokens /\ Pending' = NoTokens
    BY <1>3, <2>1 DEF Base, Pending
  <2> QED
    BY <1>1, <1>2, <1>3, <2>2, GrantedKept DEF Cred!GiveUp, Cred!Nothing, NoTokens
<1> QED
  BY <1>4, <1>5

\* The request gives up what it is doing: nothing but its place changes.
Leaves(r) ==
    /\ pc' = [pc EXCEPT ![r] = pc'[r]] /\ pc'[r] \in {"unlock", "crashed"}
    /\ UNCHANGED <<kv, lock, held, wire, payload, lpc, given, issued, live, revoked>>

LEMMA LeavesMapped ==
    ASSUME IInv, NEW r \in Request, Leaves(r)
    PROVE  Cred!GiveUp \/ UNCHANGED Cred!credVars
<1> USE DEF IInv
<1>1. ~Working(r)' /\ ~Renewing(r)'
  BY DEF Leaves, TypeOK, Working, Renewing
<1>2. \A q \in Request \ {r} : pc'[q] = pc[q]
  BY DEF Leaves, TypeOK
<1>3. CASE Working(r)
  <2>1. lock = r /\ lock' = r /\ Base = held[r] /\ held[r] # NoTokens
    BY <1>3, HolderRenews DEF Leaves, Working, Critical, ConnectedInv, NoTokens
  <2>2. Base' = NoTokens /\ Pending' = NoTokens
    BY <1>1, <2>1 DEF Base, Pending
  <2>3. \/ Strays' = Strays
        \/ Pending = NoTokens /\ Strays' = Strays \cup {held[r].refresh}
    <3>1. CASE wire[r] = "pending" /\ pc[r] = "call"
      <4>1. Pending = NoTokens
        BY <2>1, <3>1 DEF Pending, Renewing
      <4>2. Stray(r)' /\ \A q \in Request \ {r} : Stray(q)' <=> Stray(q)
        BY <1>2, <3>1 DEF Leaves, TypeOK, Stray
      <4>3. ~Stray(r) /\ held' = held
        BY <3>1 DEF Stray, Leaves
      <4>4. Strays' = Strays \cup {held[r].refresh}
        BY <4>2, <4>3 DEF Strays, Stray
      <4> QED
        BY <4>1, <4>4
    <3>2. CASE ~(wire[r] = "pending" /\ pc[r] = "call")
      <4>1. \A q \in Request : Stray(q)' <=> Stray(q)
        BY <1>2, <1>3, <3>2 DEF Leaves, TypeOK, CallInv, Working, Stray
      <4> QED
        BY <4>1, StraysKept DEF Leaves
    <3> QED
      BY <3>1, <3>2
  <2> QED
    BY <2>1, <2>2, <2>3, GrantedKept DEF Leaves, Cred!GiveUp, Cred!Nothing, NoTokens
<1>4. CASE ~Working(r)
  <2>1. ~Renewing(r) /\ lock' = lock
    BY <1>4 DEF Working, Renewing, Leaves
  <2>2. \A q \in Request : /\ Working(q)' = Working(q) /\ Renewing(q)' = Renewing(q)
                           /\ held'[q] = held[q] /\ Renewed(q)' = Renewed(q)
    BY <1>1, <1>2, <1>4, <2>1 DEF Leaves, Working, Renewing, Renewed
  <2>3. Base' = Base /\ Pending' = Pending
    BY <2>1, <2>2 DEF Base, Pending, TypeOK
  <2>4. \A q \in Request : Stray(q)' <=> Stray(q)
    BY <1>2, <1>4 DEF Leaves, Stray, Working
  <2> QED
    BY <2>3, <2>4, StraysKept, GrantedKept DEF Leaves, Cred!credVars
<1> QED
  BY <1>3, <1>4

LEMMA SaveMapped ==
    ASSUME IInv, NEW r \in Request, SaveRefreshed(r)
    PROVE  /\ kv' = Renewed(r) => Cred!Store
           /\ kv' = kv => Cred!GiveUp \/ UNCHANGED Cred!credVars
<1> USE DEF IInv
<1>1. /\ pc[r] = "save" /\ wire[r] = "tokens"
      /\ pc' = [pc EXCEPT ![r] = "unlock"]
      /\ UNCHANGED <<lock, held, wire, payload, lpc, given, issued, live, revoked>>
  BY DEF SaveRefreshed, Return, Goto, loginVars, serverVars, CallInv
<1>2. ASSUME kv' = Renewed(r) PROVE Cred!Store
  <2>1. lock = r /\ lock' = r /\ Pending = Renewed(r)
    BY <1>1, HolderRenews DEF Critical, Renewing
  <2>2. Renewed(r).access # 0
    BY <1>1 DEF RenewalPrivate, Renewing, Unsaved, Renewed
  <2>3. ~Working(r)' /\ ~Renewing(r)'
    BY <1>1 DEF TypeOK, Working, Renewing
  <2>4. Base' = NoTokens /\ Pending' = NoTokens
    BY <2>1, <2>3 DEF Base, Pending
  <2>5. \A q \in Request : Stray(q)' <=> Stray(q)
    BY <1>1 DEF TypeOK, Stray
  <2> QED
    BY <1>1, <1>2, <2>1, <2>2, <2>4, <2>5, StraysKept, GrantedKept
       DEF Cred!Store, Cred!Nothing, NoTokens
<1>3. ASSUME kv' = kv PROVE Cred!GiveUp \/ UNCHANGED Cred!credVars
  <2>1. Leaves(r)
    BY <1>1, <1>3 DEF Leaves, TypeOK
  <2> QED
    BY <2>1, LeavesMapped
<1> QED
  BY <1>2, <1>3

\* Once its call is answered, a request that no longer waits is no stray.
LEMMA StrayAnswered ==
    ASSUME TypeOK, NEW r \in Request, wire[r] = "pending", wire'[r] # "pending",
           wire' = [wire EXCEPT ![r] = wire'[r]], UNCHANGED <<pc, held>>
    PROVE  /\ pc[r] = "call" => Strays' = Strays
           /\ pc[r] # "call" => /\ held[r].refresh \in Strays
                                /\ Strays' \in {Strays, Strays \ {held[r].refresh}}
<1>1. ~Stray(r)' /\ \A q \in Request \ {r} : Stray(q)' <=> Stray(q)
  BY DEF TypeOK, Stray
<1>2. CASE pc[r] = "call"
  BY <1>1, <1>2, StraysKept DEF Stray
<1>3. CASE pc[r] # "call"
  <2>1. held[r].refresh \in Strays
    BY <1>3 DEF Strays
  <2>2. Strays \ {held[r].refresh} \subseteq Strays' /\ Strays' \subseteq Strays
    BY <1>1 DEF Strays, Stray
  <2> QED
    BY <1>3, <2>1, <2>2
<1> QED
  BY <1>2, <1>3

LEMMA IssuesMapped ==
    ASSUME IInv, NEW r \in Request, NEW t \in Tokens, Issues(r, t)
    PROVE  Cred!Renew \/ Cred!Stray
<1> USE DEF IInv
<1>1. /\ UNCHANGED <<kv, lock, pc, held, lpc, given, revoked>>
      /\ wire[r] = "pending" /\ wire' = [wire EXCEPT ![r] = "tokens"]
      /\ payload' = [payload EXCEPT ![r] = t]
      /\ t.access = issued'
  BY DEF Issues, loginVars
<1>2. issued \in Nat /\ issued' = issued + 1 /\ held[r] \in Tokens
  BY DEF Issues, TypeOK
<1> DEFINE n == held[r].refresh
           refresh == IF t.refresh = 0 THEN n ELSE t.refresh
<1>3. refresh \in {n, issued + 1} /\ Cred!Exchange(n, refresh)
  BY <1>2 DEF Issues, Cred!Exchange
<1>4. CASE pc[r] = "call"
  <2>1. /\ lock = r /\ lock' = r
        /\ Base = held[r] /\ held[r] # NoTokens
        /\ Pending = NoTokens
    BY <1>1, <1>4, HolderRenews DEF Critical, Working, Renewing, ConnectedInv, NoTokens
  <2>2. Working(r)' /\ Renewing(r)' /\ Renewed(r)' = [access |-> issued', refresh |-> refresh]
    BY <1>1, <1>4 DEF TypeOK, Working, Renewing, Renewed
  <2>3. Base' = Base /\ Pending' = [access |-> issued', refresh |-> refresh]
    BY <1>1, <2>1, <2>2 DEF Base, Pending
  <2>4. Strays' = Strays /\ Granted' = Granted
    BY <1>1, <1>4, StrayAnswered, GrantedKept DEF TypeOK
  <2> QED
    BY <1>1, <1>3, <2>1, <2>3, <2>4 DEF Cred!Renew, Cred!Nothing, NoTokens
<1>5. CASE pc[r] # "call"
  <2>1. ~Renewing(r) /\ ~Renewing(r)'
    BY <1>1, <1>5 DEF CallInv, Renewing
  <2>2. \A q \in Request : Working(q)' = Working(q)
    BY <1>1 DEF Working
  <2>3. \A q \in Request \ {r} : Renewing(q)' = Renewing(q) /\ Renewed(q)' = Renewed(q)
    BY <1>1 DEF TypeOK, Renewing, Renewed
  <2>4. Base' = Base /\ Pending' = Pending
    BY <1>1, <2>1, <2>2, <2>3 DEF TypeOK, Base, Pending
  <2>5. n \in Strays /\ Strays' \in {Strays, Strays \ {n}} /\ Granted' = Granted
    BY <1>1, <1>5, StrayAnswered, GrantedKept DEF TypeOK
  <2> QED
    BY <1>1, <1>3, <2>4, <2>5 DEF Cred!Stray
<1> QED
  BY <1>4, <1>5

LEMMA EndpointMapped ==
    ASSUME IInv, NEW r \in Request, Endpoint(r)
    PROVE  Cred!Renew \/ Cred!Stray \/ UNCHANGED Cred!credVars
<1> USE DEF IInv
<1>1. ASSUME NEW answer \in DOMAIN ErrorOf, wire[r] = "pending",
             wire' = [wire EXCEPT ![r] = answer],
             UNCHANGED <<kv, lock, pc, held, payload, res, loginVars, serverVars>>
      PROVE  Cred!Stray \/ UNCHANGED Cred!credVars
  <2>1. answer \notin {"pending", "tokens"}
    BY DEF ErrorOf
  <2>2. \A q \in Request : /\ Working(q)' = Working(q) /\ Renewing(q)' = Renewing(q)
                           /\ Renewed(q)' = Renewed(q)
    BY <1>1, <2>1 DEF TypeOK, Working, Renewing, Renewed
  <2>3. Base' = Base /\ Pending' = Pending
    BY <1>1, <2>2 DEF TypeOK, Base, Pending
  <2>4. /\ pc[r] = "call" => Strays' = Strays
        /\ pc[r] # "call" => /\ held[r].refresh \in Strays
                             /\ Strays' \in {Strays, Strays \ {held[r].refresh}}
    BY <1>1, <2>1, StrayAnswered DEF TypeOK
  <2>5. Granted' = Granted /\ UNCHANGED <<kv, issued, live, revoked>>
    BY <1>1, GrantedKept DEF loginVars, serverVars
  <2> QED
    BY <2>3, <2>4, <2>5 DEF Cred!Stray, Cred!credVars
<1> QED
  BY <1>1, EndpointStep, IssuesMapped, Zenon

-----------------------------------------------------------------------------
(* Logins, admins, the provider and time.                                   *)

\* A step that leaves the requests and the mutex alone.
LEMMA RenewalKept ==
    ASSUME UNCHANGED <<lock, requestVars>>
    PROVE  Base' = Base /\ Pending' = Pending /\ Strays' = Strays
  BY DEF requestVars, Base, Pending, Strays, Working, Renewing, Renewed

LEMMA LoginMapped ==
    ASSUME IInv, NEW l \in Login, LoginStep(l)
    PROVE  Cred!Grant \/ Cred!Connect \/ UNCHANGED Cred!credVars
<1> USE DEF IInv
<1>1. Base' = Base /\ Pending' = Pending /\ Strays' = Strays /\ revoked' = revoked
  BY RenewalKept DEF LoginStep, LoginFails, BeginDeviceLogin, PollDeviceLogin, ExchangeCode,
     SaveLogin, LoginGoto
<1>2. CASE ExchangeCode(l)
  <2>1. PICK refresh \in {0, issued'} :
           /\ given' = [given EXCEPT ![l] = [access |-> issued', refresh |-> refresh]]
           /\ live' = live \cup ({refresh} \ {0})
    BY <1>2 DEF ExchangeCode
  <2>2. /\ issued' = issued + 1 /\ kv' = kv
        /\ lpc[l] = "exchange" /\ lpc' = [lpc EXCEPT ![l] = "save"]
    BY <1>2 DEF ExchangeCode, LoginGoto
  <2>3. Granted' = Granted \cup {[access |-> issued', refresh |-> refresh]}
    BY <2>1, <2>2 DEF TypeOK, Granted
  <2> QED
    BY <1>1, <2>1, <2>2, <2>3 DEF Cred!Grant
<1>3. ASSUME lpc[l] = "save", lpc' = [lpc EXCEPT ![l] = lpc'[l]], lpc'[l] # "save",
             given' = given, kv' \in {kv, given[l]}, UNCHANGED <<issued, live>>
      PROVE  Cred!Connect
  <2>1. \A k \in Login \ {l} : lpc[k] = "save" => given[k] # given[l]
    BY <1>3 DEF LoginPrivate
  <2>2. Granted' = Granted \ {given[l]} /\ given[l] \in Granted
    BY <1>3, <2>1 DEF TypeOK, Granted
  <2> QED
    BY <1>1, <1>3, <2>2 DEF Cred!Connect
<1>4. CASE SaveLogin(l)
  BY <1>3, <1>4 DEF SaveLogin, LoginGoto, TypeOK
<1>5. CASE LoginFails(l) /\ lpc[l] = "save"
  BY <1>3, <1>5 DEF LoginFails, LoginGoto, TypeOK
<1>6. CASE BeginDeviceLogin(l) \/ PollDeviceLogin(l) \/ (LoginFails(l) /\ lpc[l] # "save")
  <2>1. /\ lpc[l] # "save" /\ lpc' = [lpc EXCEPT ![l] = lpc'[l]] /\ lpc'[l] # "save"
        /\ UNCHANGED <<kv, given, issued, live>>
    BY <1>6 DEF BeginDeviceLogin, PollDeviceLogin, LoginFails, LoginGoto, TypeOK
  <2>2. Granted' = Granted
    BY <2>1 DEF TypeOK, Granted
  <2> QED
    BY <1>1, <2>1, <2>2 DEF Cred!credVars
<1> QED
  BY <1>2, <1>4, <1>5, <1>6 DEF LoginStep

LEMMA LockExpiryMapped ==
    ASSUME LockExpires \/ UNCHANGED vars
    PROVE  UNCHANGED Cred!credVars
<1>1. CASE LockExpires
  <2>1. lock \in Request /\ ~Working(lock) /\ ~Renewing(lock) /\ lock' = None
    BY <1>1 DEF LockExpires, Working, Renewing
  <2>2. UNCHANGED <<kv, pc, held, wire, lpc, given, issued, live, revoked>>
    BY <1>1 DEF LockExpires, requestVars, loginVars, serverVars
  <2>3. Base' = Base /\ Pending' = Pending /\ Strays' = Strays
    BY <2>1, <2>2 DEF Base, Pending, Strays
  <2> QED
    BY <2>2, <2>3, GrantedKept DEF Cred!credVars
<1>2. CASE UNCHANGED vars
  <2>1. UNCHANGED <<kv, lock, requestVars, lpc, given, issued, live, revoked>>
    BY <1>2 DEF vars, loginVars, serverVars
  <2> QED
    BY <2>1, RenewalKept, GrantedKept DEF Cred!credVars
<1> QED
  BY <1>1, <1>2

LEMMA AdministrationMapped ==
    ASSUME Logout \/ Expire \/ Revoke
    PROVE  /\ Logout => Cred!Clear
           /\ Revoke => Cred!Withdraw
           /\ Expire => UNCHANGED Cred!credVars
<1>1. UNCHANGED <<lock, requestVars, lpc, given>>
  BY DEF Logout, Expire, Revoke, loginVars
<1>2. Base' = Base /\ Pending' = Pending /\ Strays' = Strays /\ Granted' = Granted
  BY <1>1, RenewalKept, GrantedKept
<1> QED
  BY <1>2 DEF Logout, Expire, Revoke, Cred!Clear, Cred!Withdraw, Cred!Nothing, NoTokens,
     Cred!credVars, serverVars

LEMMA NextMapped == IInv /\ [Next]_vars => [Cred!Next]_(Cred!credVars)
<1> SUFFICES ASSUME IInv, [Next]_vars PROVE Cred!Next \/ UNCHANGED Cred!credVars
  OBVIOUS
<1> USE DEF Cred!Next
<1>1. ASSUME NEW r \in Request, RequestStep(r) PROVE Cred!Next \/ UNCHANGED Cred!credVars
  <2>1. CASE SaveRefreshed(r)
    <3>1. kv' = Renewed(r) \/ kv' = kv
      BY <2>1 DEF SaveRefreshed
    <3> QED
      BY <2>1, <3>1, SaveMapped
  <2> QED
    BY <1>1, <2>1, ReadMapped, UnmappedRequestSteps, ReceiveMapped, Zenon DEF RequestStep
<1>2. ASSUME NEW r \in Request, AbandonCall(r) \/ Crash(r)
      PROVE  Cred!Next \/ UNCHANGED Cred!credVars
  <2>1. Leaves(r)
    BY <1>2 DEF IInv, TypeOK, AbandonCall, Crash, Return, Goto, Leaves, loginVars, serverVars
  <2> QED
    BY <2>1, LeavesMapped, Zenon
<1>3. ASSUME NEW r \in Request, Endpoint(r) PROVE Cred!Next \/ UNCHANGED Cred!credVars
  BY <1>3, EndpointMapped, Zenon
<1>4. ASSUME NEW l \in Login, LoginStep(l) PROVE Cred!Next \/ UNCHANGED Cred!credVars
  BY <1>4, LoginMapped, Zenon
<1>5. CASE LockExpires \/ UNCHANGED vars
  BY <1>5, LockExpiryMapped
<1>6. CASE Logout \/ Expire \/ Revoke
  BY <1>6, AdministrationMapped
<1>7. ASSUME NEW r \in Request, LockFails(r) PROVE Cred!Next \/ UNCHANGED Cred!credVars
  BY <1>7, UnmappedRequestSteps
<1> QED
  BY <1>1, <1>2, <1>3, <1>4, <1>5, <1>6, <1>7 DEF Next

\* The renewals of all nodes are a sequence, each of the record stored when it
\* began, and beside them only given-up calls use the credential
\* (auth.go:55-93, refresh.go:28-87).
THEOREM CredentialKept == Spec => CredentialImplemented
<1>1. Spec => []IInv
  BY Invariance
<1> QED
  BY <1>1, MappedInit, NextMapped, PTL DEF Spec, CredentialImplemented, Cred!Spec
=============================================================================
