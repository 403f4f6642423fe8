---------------------------- MODULE MCBakeryLock ----------------------------
(***************************************************************************)
(* The instance of BakeryLock that TLC checks: three CPUs, so that a CPU   *)
(* may overtake one that another one waits for, and tickets up to 7, so    *)
(* that they grow while the lock changes hands.                            *)
(***************************************************************************)
EXTENDS BakeryLock
=============================================================================
