-------------------------- MODULE MCWatchdogRegistry --------------------------
(***************************************************************************)
(* WatchdogRegistry for TLC: three drivers and two ids, so that ids run    *)
(* out; two drivers claim the alias 0, which the misc node goes with.      *)
(***************************************************************************)
EXTENDS WatchdogRegistry

CONSTANTS w1, w2, w3

Aliases == [w \in Wdd |-> CASE w = w1 -> 0 [] w = w2 -> 0 [] OTHER -> NoAlias]

=============================================================================
