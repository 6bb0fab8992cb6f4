------------------------------- MODULE MCProcess -------------------------------
(***************************************************************************)
(* Instances of module Process for TLC.                                    *)
(***************************************************************************)
EXTENDS Process, TLC

Sym == Permutations(Handle)
=============================================================================
