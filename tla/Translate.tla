------------------------------ MODULE Translate ------------------------------
(***************************************************************************)
(* The path of a translation request: the router and handleTranslate       *)
(* (api.go), the Codex client (translate/codex) and the classes of errors  *)
(* (translate/translator.go), on top of the credential of CodexAuth.  Each *)
(* request of CodexAuth is the AccessToken call of one HTTP request here.  *)
(*                                                                         *)
(* The texts themselves are left out: a request has a set of defects, and  *)
(* an answer is a translation or the message of one error.                 *)
(***************************************************************************)
EXTENDS CodexAuth, Sequences

CONSTANT Defects  \* what may be wrong with a request

\* What handleTranslate refuses, in the order in which it looks: no user, a
\* body that is not JSON, a post that the user may not read, no text, and a
\* language that is not supported.
Checks == <<"unauthorized", "malformed", "forbidden", "empty", "unsupported">>

ASSUME DefectsAssumption == Defects \subseteq {Checks[i] : i \in DOMAIN Checks}

VARIABLES
    defects,  \* what is wrong with each request
    at,       \* where each request is in handleTranslate
    answer,   \* the response of each request
    void      \* access tokens that Codex does not accept

handlerVars == <<defects, at, answer, void>>
allVars == <<vars, handlerVars>>

\* The error that the user is shown; 503 for the first three, else 502.
UserMessage == [not_configured |-> "setup", relogin |-> "reconnect", quota |-> "limited",
                upstream |-> "failed", kv_error |-> "failed", lock_error |-> "failed"]

Answers == {"none", "text", "setup", "reconnect", "limited", "failed"} \cup Defects

HandlerTypeOK ==
    /\ defects \in [Request -> SUBSET Defects]
    /\ at \in [Request -> {"check", "token", "codex", "answered", "gone"}]
    /\ answer \in [Request -> Answers]
    /\ void \subseteq 0..issued

HandlerInit ==
    /\ Init
    /\ defects \in [Request -> SUBSET Defects]
    /\ at = [r \in Request |-> "check"]
    /\ answer = [r \in Request |-> "none"]
    /\ void = {}

-----------------------------------------------------------------------------
(* handleTranslate.                                                         *)

Respond(r, a) ==
    /\ at' = [at EXCEPT ![r] = "answered"]
    /\ answer' = [answer EXCEPT ![r] = a]
    /\ UNCHANGED <<vars, defects, void>>

Proceed(r, phase) ==
    /\ at' = [at EXCEPT ![r] = phase]
    /\ UNCHANGED <<vars, defects, answer, void>>

\* The first check that fails answers the request.
Refuse(r) ==
    /\ at[r] = "check"
    /\ \E i \in DOMAIN Checks :
          /\ Checks[i] \in defects[r]
          /\ \A j \in 1..(i - 1) : Checks[j] \notin defects[r]
          /\ Respond(r, Checks[i])

Admit(r) ==
    /\ at[r] = "check"
    /\ defects[r] = {}
    /\ Proceed(r, "token")

\* AccessToken runs.  The Codex client looks at the language again before; it
\* asks the same table as the handler and finds the same.
AccessToken(r) ==
    /\ at[r] = "token"
    /\ "unsupported" \notin defects[r]
    /\ RequestStep(r)
    /\ UNCHANGED handlerVars

\* Its wait for the mutex or its refresh call is cut short.
AccessTokenCut(r) ==
    /\ at[r] = "token"
    /\ LockFails(r) \/ AbandonCall(r)
    /\ UNCHANGED handlerVars

\* Mutant: the error is shown as it is.
RawError(r) ==
    /\ at[r] = "token"
    /\ pc[r] = "done"
    /\ res[r] \in DOMAIN UserMessage
    /\ Respond(r, res[r])

AccessTokenFails(r) ==
    /\ at[r] = "token"
    /\ pc[r] = "done"
    /\ res[r] \in DOMAIN UserMessage
    /\ Respond(r, UserMessage[res[r]])

\* Codex is called with the token that AccessToken returned.
CallCodex(r) ==
    /\ at[r] = "token"
    /\ pc[r] = "done"
    /\ res[r] \in {"cached", "refreshed"}
    /\ Proceed(r, "codex")

Token(r) == IF res[r] = "refreshed" THEN payload[r].access ELSE held[r].access

\* Mutant: a rate limit of Codex taken for a token it does not accept.
LimitReconnects(r) ==
    /\ at[r] = "codex"
    /\ \/ Token(r) \notin void /\ Respond(r, "text")
       \/ Respond(r, "reconnect")
       \/ Respond(r, "failed")

\* Mutant: AccessToken is called again when Codex does not accept the token.
AskAgain(r) ==
    /\ at[r] = "codex"
    /\ \/ Token(r) \notin void /\ Respond(r, "text")
       \/ Token(r) \in void /\ Proceed(r, "token")
       \/ Respond(r, "limited")
       \/ Respond(r, "failed")

\* 200 with a text; 401 or 403; 429; and anything else, a lost connection and
\* an answer without a text included.
CodexAnswers(r) ==
    /\ at[r] = "codex"
    /\ \/ Token(r) \notin void /\ Respond(r, "text")
       \/ Token(r) \in void /\ Respond(r, "reconnect")
       \/ Respond(r, "limited")
       \/ Respond(r, "failed")

\* The node that serves the request goes down, in AccessToken or outside it.
NodeDies(r) ==
    /\ at[r] \in {"check", "token", "codex"}
    /\ "crash" \in Faults
    /\ at' = [at EXCEPT ![r] = "gone"]
    /\ Crash(r) \/ (pc[r] \in {"load", "done"} /\ UNCHANGED vars)
    /\ UNCHANGED <<defects, answer, void>>

\* The access token of a request ends: it expires, which a fresh stored one does
\* not do yet, or the provider withdraws it.  (Whether a token that nobody
\* presents has ended is never looked at.)
TokenEnds(r) ==
    /\ at[r] = "codex"
    /\ Token(r) \notin void
    /\ \/ Token(r) \notin fresh \/ Token(r) # kv.access
       \/ "revoke" \in Faults
    /\ void' = void \cup {Token(r)}
    /\ UNCHANGED <<vars, defects, at, answer>>

-----------------------------------------------------------------------------
\* What the plugin does by itself for a request.
ServeStep(r) ==
    \/ Refuse(r) \/ Admit(r) \/ AccessToken(r)
    \/ AccessTokenFails(r) \/ CallCodex(r)

HandlerStep(r) == ServeStep(r) \/ AccessTokenCut(r) \/ CodexAnswers(r)

Around ==
    /\ \/ \E r \in Request : Endpoint(r)
       \/ \E l \in Login : LoginStep(l)
       \/ LockExpires \/ Logout \/ Expire \/ Revoke
    /\ UNCHANGED handlerVars

HandlerNext ==
    \/ \E r \in Request : HandlerStep(r) \/ NodeDies(r) \/ TokenEnds(r)
    \/ Around

HandlerSpec == HandlerInit /\ [][HandlerNext]_allVars

(* As in CodexAuth, a goroutine that can run does, the mutex of a dead       *)
(* holder expires, and the token endpoint answers; and Codex answers, or the *)
(* connection to it breaks.  The last two are assumptions on the provider.   *)
(* No context has to end and no other fault has to happen.                   *)
HandlerFairness ==
    /\ \A r \in Request :
          /\ WF_allVars(ServeStep(r))
          /\ WF_allVars(CodexAnswers(r))
          /\ WF_allVars(Endpoint(r) /\ UNCHANGED handlerVars)
    /\ \A l \in Login : WF_allVars(SaveLogin(l) /\ UNCHANGED handlerVars)
    /\ WF_allVars(LockExpires /\ UNCHANGED handlerVars)

FairHandlerSpec == HandlerSpec /\ HandlerFairness

-----------------------------------------------------------------------------
(* Properties.                                                              *)

\* A user is told that an admin must reconnect only if the provider did not
\* accept what this request presented, or gave it no access token: no failure
\* of the KV store, the mutex or the network and no rate limit ends so, at the
\* token endpoint or at Codex (api.go:64-72, client.go:83-96).
ReconnectJustified ==
    \A r \in Request : answer[r] = "reconnect" =>
        \/ res[r] = "relogin" /\ (held[r].refresh \notin live \/ wire[r] = "blank")
        \/ res[r] \in {"cached", "refreshed"} /\ Token(r) \in void

\* Every request is answered unless its node goes down, whatever became of those
\* that held the mutex before it.
RequestsAnswered == \A r \in Request : <>(at[r] \in {"answered", "gone"})

-----------------------------------------------------------------------------
(* What a comment says and the code does not do.                            *)

\* "ErrReloginRequired means the stored OAuth session is invalid/expired"
\* (translator.go:16): when a user is told to have an admin reconnect, the
\* stored refresh token is of no use.
ReconnectNeeded ==
    [][\A r \in Request :
          answer[r] # "reconnect" /\ answer'[r] = "reconnect" => kv.refresh \notin live]_allVars
=============================================================================
