------------------------ MODULE MCWatchdogKeepalive ------------------------
(***************************************************************************)
(* An instance of WatchdogKeepalive: one timeout the hardware can do alone *)
(* and one for which the worker has to ping several times.                 *)
(***************************************************************************)
EXTENDS WatchdogKeepalive

MCTimeouts == {7, 17}
=============================================================================
