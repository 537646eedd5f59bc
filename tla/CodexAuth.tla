------------------------------ MODULE CodexAuth ------------------------------
(***************************************************************************)
(* Package server/codexauth: the one Codex credential record that all      *)
(* translation requests of a Mattermost cluster share, the refresh of its  *)
(* single-use refresh token under a cluster mutex, the admin's device-code *)
(* login and the logout.                                                   *)
(*                                                                         *)
(* A request is one call of Authenticator.AccessToken, on any node; a      *)
(* login is one `/aitranslate login` with its polling goroutine.  Both run *)
(* once: traffic is modelled by having many of them.  The provider's auth  *)
(* server, the KV store and the cluster mutex are external and modelled by *)
(* what the code relies on.                                                *)
(***************************************************************************)
EXTENDS Naturals

CONSTANTS
    Request,   \* calls of AccessToken
    Login,     \* device-code logins
    None,      \* no holder of the mutex
    MaxPolls,  \* polls answered before the 15 minute deadline of a login
    Faults     \* the failures the environment may produce

ASSUME AuthAssumption ==
    /\ None \notin Request
    /\ MaxPolls \in Nat
    /\ Faults \subseteq {"cancel", "crash", "kv", "login", "network", "revoke"}

\* No request fails, dies or is cut short, and the provider withdraws nothing;
\* what becomes of logins is another matter.
Calm == Faults \subseteq {"login"}

VARIABLES
    kv,       \* the KV record codex_oauth_tokens
    lock,     \* holder of the cluster mutex codex_oauth_refresh
    pc,       \* where each request is in AccessToken
    held,     \* the local `tokens` of each request
    wire,     \* what became of the refresh call of each request
    payload,  \* the tokens in the answer to that call
    res,      \* what AccessToken returned
    lpc,      \* where each login is
    polls,    \* polls of each login that were answered and repeated
    given,    \* the tokens a login's code exchange returned
    issued,   \* number of access tokens issued; ids are 1..issued
    live,     \* refresh tokens the provider honours
    revoked,  \* refresh tokens the provider withdrew
    fresh     \* access tokens that do not expire within refreshSkew

requestVars == <<pc, held, wire, payload, res>>
loginVars   == <<lpc, polls, given>>
serverVars  == <<issued, live, revoked, fresh>>
vars == <<kv, lock, requestVars, loginVars, serverVars>>

-----------------------------------------------------------------------------
(* Token ids are numbers; 0 is the empty string.  A missing record reads as *)
(* the zero struct, so it is the record of two empty strings.  The          *)
(* last_refresh stamp is written and never read, and left out.              *)
Tokens   == [access : Nat, refresh : Nat]
NoTokens == [access |-> 0, refresh |-> 0]

\* Store.Load reports ok: the record has a refresh token.
Connected(t) == t.refresh # 0

\* accessTokenExpiringWithin; a token without a readable exp is never fresh.
Expiring(t) == t.access \notin fresh

\* Mutant: a rate limit taken for a dead refresh token.
LimitIsRelogin == [limited |-> "relogin", denied |-> "relogin",
                   blank |-> "relogin", broken |-> "upstream"]

\* The class of error that refreshTokens makes of an answer without tokens.
ErrorOf == [limited |-> "quota", denied |-> "relogin",
            blank |-> "relogin", broken |-> "upstream"]

Outcomes == {"none", "cached", "refreshed", "not_configured", "kv_error",
             "lock_error", "quota", "relogin", "upstream"}

\* The holder of the mutex is between Lock and Unlock.
Critical == {"reload", "send", "call", "save", "unlock"}

TypeOK ==
    /\ kv \in Tokens
    /\ lock \in Request \cup {None}
    /\ pc \in [Request -> Critical \cup {"load", "lock", "done", "crashed"}]
    /\ held \in [Request -> Tokens]
    /\ wire \in [Request -> {"none", "pending", "tokens"} \cup DOMAIN ErrorOf]
    /\ payload \in [Request -> Tokens]
    /\ res \in [Request -> Outcomes]
    /\ lpc \in [Login -> {"start", "poll", "exchange", "save", "done", "failed"}]
    /\ polls \in [Login -> 0..MaxPolls]
    /\ given \in [Login -> Tokens]
    /\ issued \in Nat
    /\ live \subseteq 1..issued
    /\ revoked \subseteq 1..issued
    /\ fresh \subseteq 1..issued

\* The plugin starts without a record, or with one that an earlier login left.
Init ==
    /\ issued \in {0, 1}
    /\ kv = [access |-> issued, refresh |-> issued]
    /\ live = 1..issued
    /\ revoked = {}
    /\ fresh \in SUBSET live
    /\ lock = None
    /\ pc = [r \in Request |-> "load"]
    /\ held = [r \in Request |-> NoTokens]
    /\ wire = [r \in Request |-> "none"]
    /\ payload = [r \in Request |-> NoTokens]
    /\ res = [r \in Request |-> "none"]
    /\ lpc = [l \in Login |-> "start"]
    /\ polls = [l \in Login |-> 0]
    /\ given = [l \in Login |-> NoTokens]

-----------------------------------------------------------------------------
(* AccessToken.  Every return after Lock passes through the deferred Unlock. *)

Goto(r, at) == pc' = [pc EXCEPT ![r] = at]

Return(r, outcome, exit) ==
    /\ res' = [res EXCEPT ![r] = outcome]
    /\ Goto(r, exit)

\* Load the record and return from it, or go on to `next` if it is expiring.
ReadRecord(r, exit, next) ==
    /\ \/ /\ "kv" \in Faults
          /\ Return(r, "kv_error", exit)
          /\ UNCHANGED held
       \/ /\ ~Connected(kv)
          /\ Return(r, "not_configured", exit)
          /\ UNCHANGED held
       \/ /\ Connected(kv)
          /\ held' = [held EXCEPT ![r] = kv]
          /\ \/ /\ ~Expiring(kv)
                /\ Return(r, "cached", exit)
             \/ /\ Expiring(kv)
                /\ Goto(r, next)
                /\ UNCHANGED res
    /\ UNCHANGED <<kv, lock, wire, payload, loginVars, serverVars>>

Load(r)   == pc[r] = "load" /\ ReadRecord(r, "done", "lock")

\* Mutant: the record is not read again under the mutex.
KeepRecord(r) ==
    /\ pc[r] = "reload"
    /\ Goto(r, "send")
    /\ UNCHANGED <<kv, lock, held, wire, payload, res, loginVars, serverVars>>

Reload(r) == pc[r] = "reload" /\ ReadRecord(r, "unlock", "send")

\* Mutant: a mutex that excludes nobody, as one per node would.
LockAnyway(r) ==
    /\ pc[r] = "lock"
    /\ lock' = r
    /\ Goto(r, "reload")
    /\ UNCHANGED <<kv, held, wire, payload, res, loginVars, serverVars>>

Lock(r) ==
    /\ pc[r] = "lock"
    /\ lock = None
    /\ lock' = r
    /\ Goto(r, "reload")
    /\ UNCHANGED <<kv, held, wire, payload, res, loginVars, serverVars>>

\* Mutant: without the mutex the request makes do with the token it has read.
UseOldToken(r) ==
    /\ pc[r] = "lock"
    /\ "cancel" \in Faults
    /\ Return(r, "cached", "done")
    /\ UNCHANGED <<kv, lock, held, wire, payload, loginVars, serverVars>>

LockFails(r) ==
    /\ pc[r] = "lock"
    /\ "cancel" \in Faults
    /\ Return(r, "lock_error", "done")
    /\ UNCHANGED <<kv, lock, held, wire, payload, loginVars, serverVars>>

\* Mutant: the mutex is given back before the call.
SendUnlocked(r) ==
    /\ pc[r] = "send"
    /\ lock' = None
    /\ wire' = [wire EXCEPT ![r] = "pending"]
    /\ Goto(r, "call")
    /\ UNCHANGED <<kv, held, payload, res, loginVars, serverVars>>

SendRefresh(r) ==
    /\ pc[r] = "send"
    /\ wire' = [wire EXCEPT ![r] = "pending"]
    /\ Goto(r, "call")
    /\ UNCHANGED <<kv, lock, held, payload, res, loginVars, serverVars>>

\* Mutant: an answer without tokens is retried, without a bound.
RetryRefresh(r) ==
    /\ pc[r] = "call"
    /\ wire[r] \notin {"none", "pending"}
    /\ Goto(r, IF wire[r] = "tokens" THEN "save" ELSE "send")
    /\ UNCHANGED <<kv, lock, held, wire, payload, res, loginVars, serverVars>>

ReceiveAnswer(r) ==
    /\ pc[r] = "call"
    /\ wire[r] \notin {"none", "pending"}
    /\ \/ /\ wire[r] = "tokens"
          /\ Goto(r, "save")
          /\ UNCHANGED res
       \/ /\ wire[r] # "tokens"
          /\ Return(r, ErrorOf[wire[r]], "unlock")
    /\ UNCHANGED <<kv, lock, held, wire, payload, loginVars, serverVars>>

\* Mutant: a call without an answer is made again.
CallAgain(r) ==
    /\ pc[r] = "call"
    /\ Faults \cap {"cancel", "network"} # {}
    /\ Goto(r, "send")
    /\ UNCHANGED <<kv, lock, held, wire, payload, res, loginVars, serverVars>>

\* The request context ends or the connection breaks; the call may still be
\* on its way to the endpoint, or its answer on the way back.
AbandonCall(r) ==
    /\ pc[r] = "call"
    /\ Faults \cap {"cancel", "network"} # {}
    /\ Return(r, "upstream", "unlock")
    /\ UNCHANGED <<kv, lock, held, wire, payload, loginVars, serverVars>>

\* Mutant: the rotated refresh token is dropped.
KeepOldRefresh(r) == [access |-> payload[r].access, refresh |-> held[r].refresh]

\* The tokens to store: an answer without a refresh token keeps the old one.
Renewed(r) ==
    [access  |-> payload[r].access,
     refresh |-> IF payload[r].refresh = 0 THEN held[r].refresh
                                           ELSE payload[r].refresh]

SaveRefreshed(r) ==
    /\ pc[r] = "save"
    /\ \/ /\ kv' = Renewed(r)
          /\ Return(r, "refreshed", "unlock")
       \/ /\ "kv" \in Faults
          /\ Return(r, "kv_error", "unlock")
          /\ UNCHANGED kv
    /\ UNCHANGED <<lock, held, wire, payload, loginVars, serverVars>>

\* A failed delete of the mutex key leaves the mutex to expire.
Unlock(r) ==
    /\ pc[r] = "unlock"
    /\ \/ lock' = None
       \/ "kv" \in Faults /\ UNCHANGED lock
    /\ Goto(r, "done")
    /\ UNCHANGED <<kv, held, wire, payload, res, loginVars, serverVars>>

\* The node that runs the request goes down.
Crash(r) ==
    /\ "crash" \in Faults
    /\ pc[r] \notin {"load", "done", "crashed"}
    /\ Goto(r, "crashed")
    /\ UNCHANGED <<kv, lock, held, wire, payload, res, loginVars, serverVars>>

\* The mutex key is refreshed while its holder runs and expires when it stops.
LockExpires ==
    /\ lock \in {r \in Request : pc[r] \in {"done", "crashed"}}
    /\ lock' = None
    /\ UNCHANGED <<kv, requestVars, loginVars, serverVars>>

-----------------------------------------------------------------------------
(* Device-code login and logout.  Neither takes the mutex.                  *)

LoginGoto(l, at) ==
    /\ lpc' = [lpc EXCEPT ![l] = at]
    /\ UNCHANGED <<lock, requestVars, revoked>>

\* The connection of a call of the login breaks, Save fails, or the goroutine
\* dies with its node.
LoginFails(l) ==
    /\ "login" \in Faults
    /\ lpc[l] \in {"start", "poll", "exchange", "save"}
    /\ LoginGoto(l, "failed")
    /\ UNCHANGED <<kv, polls, given, issued, live, fresh>>

BeginDeviceLogin(l) ==
    /\ lpc[l] = "start"
    /\ LoginGoto(l, "poll")
    /\ UNCHANGED <<kv, polls, given, issued, live, fresh>>

\* Mutant: the deadline is looked at one poll late.
PollLate(l) ==
    /\ lpc[l] = "poll"
    /\ \/ polls[l] <= MaxPolls /\ polls' = [polls EXCEPT ![l] = @ + 1] /\ LoginGoto(l, "poll")
       \/ UNCHANGED polls /\ (LoginGoto(l, "exchange") \/ LoginGoto(l, "failed"))
    /\ UNCHANGED <<kv, given, issued, live, fresh>>

\* Mutant: no deadline.
PollForever(l) ==
    /\ lpc[l] = "poll"
    /\ \/ polls' = [polls EXCEPT ![l] = (@ + 1) % (MaxPolls + 1)] /\ LoginGoto(l, "poll")
       \/ UNCHANGED polls /\ (LoginGoto(l, "exchange") \/ LoginGoto(l, "failed"))
    /\ UNCHANGED <<kv, given, issued, live, fresh>>

\* The poll that is out is answered.  403 and 404, the user has not entered the
\* code yet: poll again if the deadline has not passed by now, which is the only
\* time it is looked at; 200: exchange the code; anything else is an error.
PollDeviceLogin(l) ==
    /\ lpc[l] = "poll"
    /\ \/ polls[l] < MaxPolls /\ polls' = [polls EXCEPT ![l] = @ + 1] /\ LoginGoto(l, "poll")
       \/ UNCHANGED polls /\ (LoginGoto(l, "exchange") \/ LoginGoto(l, "failed"))
    /\ UNCHANGED <<kv, given, issued, live, fresh>>

\* Only a missing access token is refused; the refresh token may be missing.
ExchangeCode(l) ==
    /\ lpc[l] = "exchange"
    /\ issued' = issued + 1
    /\ \E refresh \in {0, issued'} :
          /\ given' = [given EXCEPT ![l] = [access |-> issued', refresh |-> refresh]]
          /\ live' = live \cup ({refresh} \ {0})
    /\ fresh' \in {fresh, fresh \cup {issued'}}
    /\ LoginGoto(l, "save")
    /\ UNCHANGED <<kv, polls>>

SaveLogin(l) ==
    /\ lpc[l] = "save"
    /\ kv' = given[l]
    /\ LoginGoto(l, "done")
    /\ UNCHANGED <<polls, given, issued, live, fresh>>

Logout ==
    /\ kv' = NoTokens
    /\ UNCHANGED <<lock, requestVars, loginVars, serverVars>>

-----------------------------------------------------------------------------
(* The provider's token endpoint and the passing of time.                   *)

\* A refresh token is single-use when the endpoint rotates it; some answers
\* carry no new refresh token and leave the old one in force.
Endpoint(r) ==
    /\ wire[r] = "pending"
    /\ \/ /\ held[r].refresh \in live
          /\ issued' = issued + 1
          /\ wire' = [wire EXCEPT ![r] = "tokens"]
          /\ fresh' \in {fresh, fresh \cup {issued'}}
          /\ \/ /\ payload' = [payload EXCEPT ![r] = [access |-> issued', refresh |-> issued']]
                /\ live' = (live \ {held[r].refresh}) \cup {issued'}
             \/ /\ payload' = [payload EXCEPT ![r] = [access |-> issued', refresh |-> 0]]
                /\ UNCHANGED live
       \/ /\ \E answer \in DOMAIN ErrorOf :
                /\ answer = "denied" => held[r].refresh \notin live
                /\ wire' = [wire EXCEPT ![r] = answer]
          /\ UNCHANGED <<payload, issued, live, fresh>>
    /\ UNCHANGED <<kv, lock, pc, held, res, loginVars, revoked>>

\* The stored access token comes within refreshSkew of its expiry.  (Whether
\* another token is fresh is never looked at.)
Expire ==
    /\ kv.access \in fresh
    /\ fresh' = fresh \ {kv.access}
    /\ UNCHANGED <<kv, lock, requestVars, loginVars, issued, live, revoked>>

\* The provider withdraws the stored refresh token.
Revoke ==
    /\ "revoke" \in Faults
    /\ kv.refresh \in live
    /\ live' = live \ {kv.refresh}
    /\ revoked' = revoked \cup {kv.refresh}
    /\ UNCHANGED <<kv, lock, requestVars, loginVars, issued, fresh>>

-----------------------------------------------------------------------------
RequestStep(r) ==
    \/ Load(r) \/ Lock(r) \/ Reload(r) \/ SendRefresh(r)
    \/ ReceiveAnswer(r) \/ SaveRefreshed(r) \/ Unlock(r)

LoginStep(l) ==
    \/ BeginDeviceLogin(l) \/ PollDeviceLogin(l) \/ ExchangeCode(l)
    \/ SaveLogin(l) \/ LoginFails(l)

Next ==
    \/ \E r \in Request : \/ RequestStep(r) \/ Endpoint(r)
                          \/ LockFails(r) \/ AbandonCall(r) \/ Crash(r)
    \/ \E l \in Login : LoginStep(l)
    \/ LockExpires \/ Logout \/ Expire \/ Revoke

Spec == Init /\ [][Next]_vars

(* A running goroutine is scheduled, the mutex of a dead holder expires, and *)
(* the token endpoint answers a refresh.  The last is an assumption on the   *)
(* provider: the HTTP client of the plugin has no timeout of its own.  No    *)
(* such assumption is made of the calls of a login, which run without a      *)
(* context that ends (command.go:77); no fault has to happen.                *)
Fairness ==
    /\ \A r \in Request : WF_vars(RequestStep(r)) /\ WF_vars(Endpoint(r))
    /\ \A l \in Login : WF_vars(SaveLogin(l))
    /\ WF_vars(LockExpires)

FairSpec == Spec /\ Fairness

-----------------------------------------------------------------------------
(* Properties.                                                              *)

Saved(r)   == res[r] = "refreshed"
Rotated(r) == wire[r] = "tokens" /\ payload[r].refresh # 0
Working(r) == pc[r] \in {"send", "call", "save"}

\* The stored refresh token is usable, or withdrawn by the provider, or was
\* consumed by a call whose answer has not been saved: either its request is
\* about to save it, or it was abandoned, died or failed to save.  So no
\* interleaving of requests, logins and logouts loses the credential; only a
\* failure between the endpoint and Store.Save does (auth.go:85-91).
StoredTokenAccounted ==
    \/ kv.refresh \in live \cup revoked \cup {0}
    \/ \E r \in Request : Rotated(r) /\ ~Saved(r) /\ held[r].refresh = kv.refresh

\* Once a refresh was saved, nobody refreshes the same record again: whoever
\* waited for the mutex sees the new record when it re-reads (auth.go:73-83).
NoDoubleRefresh ==
    \A r, q \in Request : Saved(r) /\ Working(q) => held[q] # held[r]

\* While a request refreshes, the record stays the one it read unless an admin
\* logs in or out: no other request's refresh comes in between.
RecordStableUnderLock ==
    \A r \in Request : Working(r) =>
        kv \in {held[r], NoTokens} \cup {given[l] : l \in {k \in Login : lpc[k] = "done"}}

\* The mutex is held by whoever is inside AccessToken's critical section, and
\* by nobody whose request has returned normally.
MutexOwned ==
    \A r \in Request :
        /\ pc[r] \in Critical => lock = r
        /\ lock = r => pc[r] \in Critical \cup {"crashed", "done"}

\* A request that reports that the admin has to log in again presented a token
\* the provider no longer honours, or got a success answer without an access
\* token; rate limits and outages are never reported so (refresh.go:54-82).
ReloginJustified ==
    \A r \in Request :
        res[r] = "relogin" => held[r].refresh \notin live \/ wire[r] = "blank"

\* Where no request fails, none is told that its refresh token is void: the
\* mutex and the re-read keep concurrent requests from presenting the
\* single-use token twice, whatever admins do meanwhile and however their logins
\* end (auth.go:67-91).
NobodyDenied == Calm => \A r \in Request : wire[r] # "denied"

\* A login is waiting for one answer: to its k-th poll, or to its exchange.
AwaitsPoll(l, k)  == lpc[l] = "poll" /\ polls[l] = k
AwaitsExchange(l) == lpc[l] = "exchange"

\* No login polls for ever, also when nobody ever enters the code: it ends, or
\* the provider leaves it waiting for one and the same answer, on which the
\* deadline, looked at between polls only, has no hold (codexadmin.go:24-36).
LoginsEnd ==
    \A l \in Login :
        \/ <>[](lpc[l] \in {"start", "done", "failed"})
        \/ \E k \in 0..MaxPolls : <>[]AwaitsPoll(l, k)
        \/ <>[]AwaitsExchange(l)

\* No holder keeps the mutex for ever, whatever happens to it.
MutexReleased == \A r \in Request : lock = r ~> lock # r

-----------------------------------------------------------------------------
(* What all of it amounts to.  The renewal under way is that of the holder  *)
(* of the mutex.                                                            *)

Renewing(r) == pc[r] \in {"call", "save"} /\ wire[r] = "tokens"

Base == IF lock # None /\ Working(lock) THEN held[lock] ELSE NoTokens

Pending == IF lock # None /\ Renewing(lock) THEN Renewed(lock) ELSE NoTokens

Strays == {held[r].refresh : r \in {q \in Request : wire[q] = "pending" /\ pc[q] # "call"}}

Granted == {given[l] : l \in {k \in Login : lpc[k] = "save"}}

Cred == INSTANCE Credential WITH
            record <- kv, base <- Base, pending <- Pending, strays <- Strays, granted <- Granted

\* The mutex and the re-read make the renewals of all nodes a sequence, in which
\* each renews what the one before it, or an admin, has stored; a renewal is
\* stored as the endpoint issued it or dropped; and beside that only calls that
\* were given up use the credential (auth.go:55-93, refresh.go:28-87).
CredentialImplemented == Cred!Spec

\* What a call was given, as of the instant at which it read or saved the record.
Answered(r) ==
    CASE res[r] = "cached"         -> [kind |-> "token", token |-> held[r].access]
      [] res[r] = "refreshed"      -> [kind |-> "token", token |-> payload[r].access]
      [] res[r] = "not_configured" -> [kind |-> "not_configured", token |-> 0]
      [] res[r] = "none"           -> [kind |-> "none", token |-> 0]
      [] OTHER                     -> [kind |-> "error", token |-> 0]

Results == [r \in Request |-> Answered(r)]

Service == INSTANCE TokenService WITH
               record <- kv, base <- Base, pending <- Pending, strays <- Strays, granted <- Granted,
               Client <- Request, answer <- Results

\* AccessToken is atomic: each call takes effect at one instant, at which the
\* token it returns is the stored one, fresh or renewed by the call itself; so a
\* call that starts after a logout never returns the token that was deleted,
\* and no call returns a token that it failed to save (auth.go:55-93).
CallsAtomic == Service!ServiceSpec

-----------------------------------------------------------------------------
(* What the documentation says and the code does not do.                    *)

\* "Run /aitranslate logout to revoke and delete the stored tokens"
\* (README.md:41): once deleted, only a login stores tokens again.
LogoutIsFinal ==
    [][~Connected(kv) /\ Connected(kv') => \E l \in Login : lpc[l] = "save"]_vars

\* "done=true means tokens were obtained and saved" (devicecode.go:80), and
\* Load's "ok is false when none are stored yet" (store.go:26): a login that
\* is done has connected the plugin.
LoginConnects ==
    [][\A l \in Login : lpc[l] # "done" /\ lpc'[l] = "done" => Connected(kv')]_vars

\* "The refresh token is single-use -- the new one MUST be persisted" (design
\* spec section 3): while no request is at work, the stored token is not one
\* that the endpoint has consumed.
RotationPersisted ==
    lock = None => kv.refresh \in live \cup revoked \cup {0}
=============================================================================
