------------------------------ MODULE MCPostMenu ------------------------------
(* Values for model checking PostMenu. *)
EXTENDS PostMenu, TLC

\* Posts are interchangeable, and so are languages.
MCSymmetry == Permutations(Post) \cup Permutations(Lang)
=============================================================================
