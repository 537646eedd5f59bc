----------------------------- MODULE MCCodexAuth -----------------------------
(* Values for model checking CodexAuth. *)
EXTENDS CodexAuth, TLC

\* Requests are interchangeable, and so are logins: nothing orders them.
MCSymmetry == Permutations(Request) \cup Permutations(Login)
=============================================================================
