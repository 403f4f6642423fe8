------------------------------- MODULE MCPsci -------------------------------
(***************************************************************************)
(* An instance of Psci: a cluster of two CPUs and a cluster of one in a    *)
(* system, and one request for each way through psci_cpu_suspend.          *)
(***************************************************************************)
EXTENDS Psci

MCCPUs == {0, 1, 2}

MCDomains == {"system", "cluster0", "cluster1"}

MCAnc ==
  [c \in MCCPUs |-> <<IF c < 2 THEN "cluster0" ELSE "cluster1", "system">>]

Composite(cpu, cluster, system) ==
  [l \in 0..2 |-> CASE l = 0 -> cpu [] l = 1 -> cluster [] OTHER -> system]

MCRequests ==
  {Composite(OFF, OFF, OFF), Composite(OFF, RETN, RUN),
   Composite(OFF, RUN, RUN), Composite(RETN, RETN, RUN),
   Composite(RETN, RUN, RUN)}
=============================================================================
