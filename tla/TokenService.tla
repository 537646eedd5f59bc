----------------------------- MODULE TokenService -----------------------------
(***************************************************************************)
(* What package codexauth promises the callers of AccessToken: although a  *)
(* call may read the record, wait for the mutex, read again, call the      *)
(* provider and save, it takes effect at one instant.  It is given the     *)
(* access token that is stored at that instant, and either the token is    *)
(* not about to expire or the call itself has just renewed it.  Nobody     *)
(* renews a token that is not about to expire, and every renewal that is   *)
(* stored is the answer of one call.                                       *)
(*                                                                         *)
(* The credential is that of Credential; fresh says which access tokens    *)
(* are not about to expire.                                                *)
(***************************************************************************)
EXTENDS Credential

CONSTANT Client   \* calls of AccessToken

VARIABLES
    fresh,   \* access tokens that do not expire within refreshSkew
    answer   \* what each call is given

serviceVars == <<credVars, fresh, answer>>

Waiting     == [kind |-> "none", token |-> 0]
NoRecord    == [kind |-> "not_configured", token |-> 0]
Failure     == [kind |-> "error", token |-> 0]
Give(token) == [kind |-> "token", token |-> token]

ServiceInit ==
    /\ Init
    /\ fresh \in SUBSET live
    /\ answer = [c \in Client |-> Waiting]

-----------------------------------------------------------------------------
Answer(c, a) ==
    /\ answer[c] = Waiting
    /\ answer' = [answer EXCEPT ![c] = a]
    /\ UNCHANGED fresh

Use(c) ==
    /\ record.refresh # 0
    /\ record.access \in fresh
    /\ Answer(c, Give(record.access))
    /\ UNCHANGED credVars

NotConfigured(c) ==
    /\ record.refresh = 0
    /\ Answer(c, NoRecord)
    /\ UNCHANGED credVars

BeginRenewal ==
    /\ record.access \notin fresh
    /\ Begin
    /\ UNCHANGED <<fresh, answer>>

RenewAndUse(c) ==
    /\ Store
    /\ Answer(c, Give(pending.access))

\* The KV store, the mutex or the renewal fails, or the caller goes away.
Fail(c) ==
    /\ Answer(c, Failure)
    /\ GiveUp \/ UNCHANGED credVars

-----------------------------------------------------------------------------
\* A renewal dies with its node.
Abandon == GiveUp /\ UNCHANGED <<fresh, answer>>

\* The provider issues a token, or answers a call that nobody waits for.
Issue ==
    /\ Renew \/ Stray \/ Grant
    /\ fresh' \in {fresh, fresh \cup {issued'}}
    /\ UNCHANGED answer

Administer == (Connect \/ Clear \/ Withdraw) /\ UNCHANGED <<fresh, answer>>

Age ==
    /\ fresh' = fresh \ {record.access}
    /\ UNCHANGED <<credVars, answer>>

ServiceNext ==
    \/ \E c \in Client : Use(c) \/ NotConfigured(c) \/ RenewAndUse(c) \/ Fail(c)
    \/ BeginRenewal \/ Abandon \/ Issue \/ Administer \/ Age

ServiceSpec == ServiceInit /\ [][ServiceNext]_serviceVars
=============================================================================
