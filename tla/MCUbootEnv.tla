----------------------------- MODULE MCUbootEnv -----------------------------
(***************************************************************************)
(* Instances of UbootEnv.                                                  *)
(***************************************************************************)
EXTENDS UbootEnv

MCValues == {"a", "b", "c"}
=============================================================================
