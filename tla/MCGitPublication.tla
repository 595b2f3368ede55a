-------------------------- MODULE MCGitPublication --------------------------
(* Two objects, two attempts each, two crashes anywhere and a few steps of *)
(* other programs anywhere.                                                 *)
EXTENDS GitPublication
=============================================================================
