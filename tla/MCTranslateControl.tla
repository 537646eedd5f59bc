-------------------------- MODULE MCTranslateControl --------------------------
(* A page with controls for model checking. *)
EXTENDS TranslateControl

\* The server's default language is the one the controls start with.
MCInit == ControlInit /\ default = DefaultLanguage

MCSpec == MCInit /\ [][ControlNext]_allVars /\ ControlFairness
=============================================================================
