------------------------------ MODULE Credential ------------------------------
(***************************************************************************)
(* What package codexauth promises of the credential that all nodes share, *)
(* without mutex, calls, answers and outcomes: renewals happen one at a    *)
(* time, each renews the record that was stored when it began, and what    *)
(* the provider issued for it is stored as issued or not at all.  Calls    *)
(* that were given up may still reach the provider, and admins store and   *)
(* delete the record at any time.  CodexAuth implements it.                *)
(*                                                                         *)
(* Tokens are numbered in the order of issue; 0 is no token.               *)
(***************************************************************************)
EXTENDS Naturals

VARIABLES
    record,   \* the stored tokens
    base,     \* the record that is being renewed
    pending,  \* its renewal, if the provider has issued it
    strays,   \* refresh tokens of renewals given up while they were called for
    granted,  \* tokens of logins that are not stored yet
    issued,   \* number of access tokens issued
    live,     \* refresh tokens the provider honours
    revoked   \* refresh tokens the provider withdrew

credVars == <<record, base, pending, strays, granted, issued, live, revoked>>

Nothing == [access |-> 0, refresh |-> 0]

Init ==
    /\ issued \in {0, 1}
    /\ record = [access |-> issued, refresh |-> issued]
    /\ base = Nothing
    /\ pending = Nothing
    /\ strays = {}
    /\ granted = {}
    /\ live = 1..issued
    /\ revoked = {}

-----------------------------------------------------------------------------
(* Renewals.                                                                *)

Begin ==
    /\ base = Nothing
    /\ record.refresh # 0
    /\ base' = record
    /\ UNCHANGED <<record, pending, strays, granted, issued, live, revoked>>

\* The provider exchanges n for a new access token.  `refresh` is the refresh
\* token that is good from now on: a new one, or n itself.
Exchange(n, refresh) ==
    /\ n \in live
    /\ issued' = issued + 1
    /\ \/ refresh = n /\ UNCHANGED live
       \/ refresh = issued' /\ live' = (live \ {n}) \cup {issued'}

Renew ==
    /\ base # Nothing
    /\ pending = Nothing
    /\ \E refresh \in {base.refresh, issued + 1} :
          /\ Exchange(base.refresh, refresh)
          /\ pending' = [access |-> issued', refresh |-> refresh]
    /\ UNCHANGED <<record, base, strays, granted, revoked>>

Store ==
    /\ pending # Nothing
    /\ record' = pending
    /\ base' = Nothing
    /\ pending' = Nothing
    /\ UNCHANGED <<strays, granted, issued, live, revoked>>

\* What was issued, if anything, is dropped.
GiveUp ==
    /\ base # Nothing
    /\ base' = Nothing
    /\ pending' = Nothing
    /\ \/ UNCHANGED strays
       \/ pending = Nothing /\ strays' = strays \cup {base.refresh}
    /\ UNCHANGED <<record, granted, issued, live, revoked>>

\* A call that was given up reaches the provider, and nobody has the answer.
Stray ==
    \E n \in strays :
        /\ strays' \in {strays, strays \ {n}}
        /\ \/ UNCHANGED <<issued, live>>
           \/ \E refresh \in {n, issued + 1} : Exchange(n, refresh)
        /\ UNCHANGED <<record, base, pending, granted, revoked>>

-----------------------------------------------------------------------------
(* Admins and the provider.                                                 *)

Grant ==
    /\ issued' = issued + 1
    /\ \E refresh \in {0, issued'} :
          /\ granted' = granted \cup {[access |-> issued', refresh |-> refresh]}
          /\ live' = live \cup ({refresh} \ {0})
    /\ UNCHANGED <<record, base, pending, strays, revoked>>

\* The tokens of a login are stored, or it fails.
Connect ==
    \E t \in granted :
        /\ granted' = granted \ {t}
        /\ record' \in {record, t}
        /\ UNCHANGED <<base, pending, strays, issued, live, revoked>>

Clear ==
    /\ record' = Nothing
    /\ UNCHANGED <<base, pending, strays, granted, issued, live, revoked>>

Withdraw ==
    /\ record.refresh \in live
    /\ live' = live \ {record.refresh}
    /\ revoked' = revoked \cup {record.refresh}
    /\ UNCHANGED <<record, base, pending, strays, granted, issued>>

-----------------------------------------------------------------------------
Next ==
    \/ Begin \/ Renew \/ Store \/ GiveUp \/ Stray
    \/ Grant \/ Connect \/ Clear \/ Withdraw

Spec == Init /\ [][Next]_credVars
=============================================================================
