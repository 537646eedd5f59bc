----------------------------- MODULE MCTranslate -----------------------------
(* Translate as it is model-checked. *)
EXTENDS Translate
=============================================================================
