----------------------------- MODULE DwWdtProofs -----------------------------
(***************************************************************************)
(* Proofs about DwWdt, for every clock rate, number of periods and set of  *)
(* requests.                                                               *)
(***************************************************************************)
EXTENDS DwWdt, WellFoundedInduction, TLAPS

-----------------------------------------------------------------------------
(* The arithmetic of periods.                                              *)

\* Integer division by the clock rate.
LEMMA DivFacts ==
    ASSUME NEW x \in Nat, NEW r \in Nat \ {0}
    PROVE  /\ x \div r \in Nat
           /\ (x \div r) * r <= x
           /\ x < (x \div r + 1) * r
  OBVIOUS

\* Cancelling a positive factor.
LEMMA Cancel ==
    ASSUME NEW a \in Nat, NEW b \in Nat, NEW r \in Nat \ {0}, a * r < b * r
    PROVE  a < b
  OBVIOUS

\* dw_wdt_top_in_seconds is a whole number of seconds.
LEMMA SecondsNat ==
    ASSUME NEW i \in Top
    PROVE  dw_wdt_top_in_seconds(i) \in Nat
  BY DivFacts, PowersAssumption, DwAssumption DEF dw_wdt_top_in_seconds, Top

\* Of two periods that differ, the longer one lasts more whole seconds, if it
\* lasts a second at all.
LEMMA SecondsGrow ==
    ASSUME NEW i \in Top, NEW j \in Top, i < j, dw_wdt_top_in_seconds(j) >= 1
    PROVE  dw_wdt_top_in_seconds(i) < dw_wdt_top_in_seconds(j)
  <1> DEFINE x == 2 ^ (Shift + i)
             y == 2 ^ (Shift + j)
             a == x \div Rate
             b == y \div Rate
  <1>0. i \in 0 .. MaxTop /\ j \in 0 .. MaxTop /\ j \in i + 1 .. MaxTop
    BY DwAssumption DEF Top
  <1>1. x \in Nat /\ y \in Nat /\ 2 * x <= y /\ Rate \in Nat \ {0}
    BY <1>0, PowersAssumption, DwAssumption
  <1>2. a = dw_wdt_top_in_seconds(i) /\ b = dw_wdt_top_in_seconds(j)
    BY DEF dw_wdt_top_in_seconds
  <1>3. /\ a \in Nat /\ a * Rate <= x
        /\ b \in Nat /\ y < (b + 1) * Rate
    BY <1>1, DivFacts
  <1> HIDE DEF x, y, a, b
  <1>4. (2 * a) * Rate = 2 * (a * Rate)
    BY <1>1, <1>3
  <1>5. (2 * a) * Rate < (b + 1) * Rate
    <2>1. a * Rate \in Nat /\ (b + 1) * Rate \in Nat
      BY <1>1, <1>3
    <2> QED BY <1>1, <1>3, <1>4, <2>1
  <1>6. 2 * a < b + 1
    <2>1. 2 * a \in Nat /\ b + 1 \in Nat
      BY <1>3
    <2> QED BY <1>1, <1>5, <2>1, Cancel
  <1> QED BY <1>2, <1>3, <1>6

\* A non-empty set of natural numbers has a least element.
LEMMA LeastExists ==
    ASSUME NEW S, S \subseteq Nat, S # {}
    PROVE  \E i \in S : \A j \in S : i <= j
  <1> DEFINE R == OpToRel(<, Nat)
  <1>1. PICK i \in S : \A j \in S : ~(<<j, i>> \in R)
    <2>1. IsWellFoundedOn(R, Nat)
      BY NatLessThanWellFounded
    <2> HIDE DEF R
    <2> QED BY <2>1, WFMin
  <1>2. \A j \in S : i <= j
    <2> SUFFICES ASSUME NEW j \in S
                 PROVE  i <= j
      OBVIOUS
    <2>1. i \in Nat /\ j \in Nat
      OBVIOUS
    <2>2. ~(j < i)
      BY <1>1, <2>1 DEF OpToRel
    <2> QED BY <2>1, <2>2
  <1> QED BY <1>2

\* The search of dw_wdt_set_timeout stays in the field.
LEMMA TopForInField ==
    ASSUME NEW s \in Nat
    PROVE  TopFor(s) \in Top
  <1> DEFINE enough == {i \in Top : dw_wdt_top_in_seconds(i) >= s}
  <1>1. CASE enough = {}
    BY <1>1, DwAssumption DEF TopFor, Top
  <1>2. CASE enough # {}
    <2>1. enough \subseteq Nat
      BY DwAssumption DEF Top
    <2>2. \E i \in enough : \A j \in enough : i <= j
      <3> HIDE DEF enough
      <3> QED BY <1>2, <2>1, LeastExists
    <2>3. TopFor(s) = CHOOSE i \in enough : \A j \in enough : i <= j
      BY <1>2 DEF TopFor
    <2>4. TopFor(s) \in enough
      <3> HIDE DEF enough
      <3> QED BY <2>2, <2>3
    <2> QED BY <2>4
  <1> QED BY <1>1, <1>2

\* The search finds a period of at least a second again from its own seconds.
LEMMA TopForFindsAgain ==
    ASSUME NEW i \in Top, dw_wdt_top_in_seconds(i) >= 1
    PROVE  TopFor(dw_wdt_top_in_seconds(i)) = i
  <1> DEFINE s == dw_wdt_top_in_seconds(i)
             enough == {j \in Top : dw_wdt_top_in_seconds(j) >= s}
  <1>1. s \in Nat /\ i \in enough
    BY SecondsNat
  <1>2. \A j \in enough : i <= j
    <2> SUFFICES ASSUME NEW j \in enough, j < i
                 PROVE  FALSE
      BY DwAssumption DEF Top
    <2>1. dw_wdt_top_in_seconds(j) < s
      BY SecondsGrow
    <2> QED BY <2>1, SecondsNat
  <1>3. TopFor(s) = CHOOSE k \in enough : \A j \in enough : k <= j
    BY <1>1 DEF TopFor
  <1>4. enough \subseteq Nat
    BY DwAssumption DEF Top
  <1> HIDE DEF enough, s
  <1>5. TopFor(s) = i
    <2>1. \A k \in enough : (\A j \in enough : k <= j) => k = i
      BY <1>1, <1>2, <1>4
    <2> QED BY <1>1, <1>2, <1>3, <2>1
  <1> QED BY <1>5 DEF s

-----------------------------------------------------------------------------
(* What holds for every kind of reset line.                                *)

\* remove asserts only what probe has deasserted; on a line of its own the
\* driver is the only one to do so.
LineHeld ==
    /\ line = "own" => deassert = IF phase = "off" THEN 0 ELSE 1
    /\ line # "none" /\ phase # "off" => deassert >= 1

\* What resume will restore resets the system when it expires.
SavedResets == phase = "suspended" /\ saved.en => ~saved.resp

\* Until it is registered, a running watchdog has the timeout that probe read
\* from its period.
BootTimeout == phase = "probed" /\ en => timeout = dw_wdt_top_in_seconds(top)

BaseInv ==
    /\ TypeOK
    /\ ClocksFollowPhase
    /\ AlwaysResets
    /\ RestartFires
    /\ LineHeld
    /\ SavedResets
    /\ BootTimeout

\* One assignment of the registers and of the timeout.
LEMMA RegistersTyped ==
    ASSUME TypeOK
    PROVE  /\ \A i \in Top : dw_wdt_top_in_seconds(i) \in Nat
           /\ TopFor(timeout) \in Top
           /\ dw_wdt_top_in_seconds(TopFor(timeout)) \in Nat
           /\ 0 \in Top
  BY SecondsNat, TopForInField, DwAssumption DEF TypeOK, Top

\* The base invariant holds at the start.
LEMMA BaseInit == Init => BaseInv
  <1> SUFFICES ASSUME Init PROVE BaseInv
    OBVIOUS
  <1>1. 0 \in Top
    BY DwAssumption DEF Top
  <1>2. TypeOK
    BY <1>1 DEF Init, TypeOK, Phase, Regs
  <1> QED BY <1>2 DEF Init, BaseInv,
    ClocksFollowPhase, AlwaysResets, RestartFires, LineHeld, SavedResets,
    BootTimeout

\* The timeout that probe takes over is a number of seconds.
LEMMA InitTimeoutNat == watchdog_init_timeout(Default) \in Nat
  BY DwAssumption DEF watchdog_init_timeout

\* Every step keeps BaseInv.
\* Every step keeps BaseInv.
LEMMA BaseStep == BaseInv /\ [Next]_vars => BaseInv'
  <1> SUFFICES ASSUME BaseInv, [Next]_vars
               PROVE  BaseInv'
    OBVIOUS
  <1> USE DEF hwVars, clkVars, wddVars, DwBecomes, Dw, dw_wdt_ping,
              dw_wdt_set_timeout, dw_wdt_arm_system_reset, dw_wdt_start,
              ResetRegs, ClkDisable
  <1>a. TypeOK /\ LineHeld
    BY DEF BaseInv
  <1>b. /\ \A i \in Top : dw_wdt_top_in_seconds(i) \in Nat
        /\ TopFor(timeout) \in Top
        /\ dw_wdt_top_in_seconds(TopFor(timeout)) \in Nat
        /\ 0 \in Top
    BY <1>a, RegistersTyped
  <1>1. CASE Probe
    <2>1. timeout' \in Nat
      BY <1>a, <1>b, <1>1, InitTimeoutNat DEF Probe, TypeOK
    <2>2. deassert' \in Nat /\ clk' \in Nat /\ pclk' \in Nat
      BY <1>a, <1>1 DEF Probe, TypeOK
    <2>3. TypeOK'
      BY <1>a, <1>1, <2>1, <2>2 DEF Probe, TypeOK, Phase
    <2> QED
      BY <1>a, <1>1, <2>3 DEF Probe, TypeOK, BaseInv,
         ClocksFollowPhase, AlwaysResets, RestartFires, LineHeld, SavedResets,
         BootTimeout
  <1>2. CASE ProbeFails
    <2>1. TypeOK'
      BY <1>a, <1>2 DEF ProbeFails, TypeOK
    <2> QED
      BY <1>a, <1>2, <2>1 DEF ProbeFails, TypeOK, BaseInv,
         ClocksFollowPhase, AlwaysResets, RestartFires, LineHeld, SavedResets,
         BootTimeout
  <1>3. CASE Register
    <2>1. TypeOK'
      BY <1>a, <1>b, <1>3 DEF Register, TypeOK, Phase
    <2> QED
      BY <1>a, <1>3, <2>1 DEF Register, TypeOK, BaseInv,
         ClocksFollowPhase, AlwaysResets, RestartFires, LineHeld, SavedResets,
         BootTimeout
  <1>4. CASE RegisterFails
    <2>1. TypeOK'
      BY <1>a, <1>4 DEF RegisterFails, TypeOK, Phase
    <2> QED
      BY <1>a, <1>4, <2>1 DEF RegisterFails, TypeOK, BaseInv,
         ClocksFollowPhase, AlwaysResets, RestartFires, LineHeld, SavedResets,
         BootTimeout
  <1>5. CASE Remove
    <2>1. DwBecomes(ResetRegs(Dw)) \/ DwBecomes(Dw)
      BY <1>5 DEF Remove
    <2>2. /\ en' \in BOOLEAN /\ resp' \in BOOLEAN
          /\ top' \in Top /\ period' \in Top /\ timeout' \in Nat
      BY <1>a, <1>b, <2>1 DEF TypeOK
    <2>3. deassert' \in Nat /\ clk' \in Nat /\ pclk' \in Nat
      BY <1>a, <1>5 DEF Remove, TypeOK, LineHeld
    <2>4. TypeOK'
      BY <1>a, <1>5, <2>2, <2>3 DEF Remove, TypeOK, Phase
    <2>5. ClocksFollowPhase'
      BY <1>a, <1>5 DEF Remove, BaseInv, ClocksFollowPhase
    <2>6. LineHeld'
      BY <1>a, <1>5 DEF Remove, LineHeld, TypeOK
    <2>7. (AlwaysResets /\ RestartFires /\ SavedResets /\ BootTimeout)'
      BY <1>a, <1>5 DEF Remove, BaseInv, AlwaysResets, RestartFires,
         SavedResets, BootTimeout
    <2> QED BY <2>4, <2>5, <2>6, <2>7 DEF BaseInv
  <1>6. CASE Start
    <2>1. TypeOK'
      BY <1>a, <1>b, <1>6 DEF Start, TypeOK
    <2> QED
      BY <1>a, <1>6, <2>1 DEF Start, TypeOK, BaseInv,
         ClocksFollowPhase, AlwaysResets, RestartFires, LineHeld, SavedResets,
         BootTimeout
  <1>7. CASE Stop
    <2>1. TypeOK'
      BY <1>a, <1>b, <1>7 DEF Stop, TypeOK
    <2> QED
      BY <1>a, <1>7, <2>1 DEF Stop, TypeOK, BaseInv,
         ClocksFollowPhase, AlwaysResets, RestartFires, LineHeld, SavedResets,
         BootTimeout
  <1>8. CASE Ping
    <2>1. TypeOK'
      BY <1>a, <1>8 DEF Ping, TypeOK
    <2> QED
      BY <1>a, <1>8, <2>1 DEF Ping, TypeOK, BaseInv,
         ClocksFollowPhase, AlwaysResets, RestartFires, LineHeld, SavedResets,
         BootTimeout
  <1>9. CASE SetTimeout
    <2>1. PICK s \in Request :
            DwBecomes(LET d == dw_wdt_set_timeout(Dw, s)
                      IN  IF active \/ hw_running THEN dw_wdt_ping(d) ELSE d)
      BY <1>9 DEF SetTimeout
    <2>2. TopFor(s) \in Top /\ dw_wdt_top_in_seconds(TopFor(s)) \in Nat
      BY <1>b, TopForInField, DwAssumption
    <2>3. TypeOK'
      BY <1>a, <1>9, <2>1, <2>2 DEF SetTimeout, TypeOK
    <2> QED
      BY <1>a, <1>9, <2>1, <2>3 DEF SetTimeout, BaseInv,
         ClocksFollowPhase, AlwaysResets, RestartFires, LineHeld, SavedResets,
         BootTimeout
  <1>10. CASE Restart
    <2>1. TypeOK'
      BY <1>a, <1>b, <1>10 DEF Restart, TypeOK, Phase
    <2> QED
      BY <1>a, <1>10, <2>1 DEF Restart, TypeOK, BaseInv,
         ClocksFollowPhase, AlwaysResets, RestartFires, LineHeld, SavedResets,
         BootTimeout
  <1>11. CASE Suspend
    <2>1. DwBecomes(ResetRegs(Dw)) \/ DwBecomes(Dw)
      BY <1>11 DEF Suspend
    <2>2. /\ en' \in BOOLEAN /\ resp' \in BOOLEAN
          /\ top' \in Top /\ period' \in Top /\ timeout' \in Nat
      BY <1>a, <1>b, <2>1 DEF TypeOK
    <2>3. saved' \in Regs /\ clk' \in Nat /\ pclk' \in Nat
      BY <1>a, <1>11 DEF Suspend, TypeOK, Regs
    <2>4. TypeOK'
      BY <1>a, <1>11, <2>2, <2>3 DEF Suspend, TypeOK, Phase
    <2>5. ClocksFollowPhase'
      BY <1>a, <1>11 DEF Suspend, BaseInv, ClocksFollowPhase
    <2>6. LineHeld'
      BY <1>a, <1>11 DEF Suspend, LineHeld, TypeOK
    <2>7. (AlwaysResets /\ RestartFires /\ SavedResets /\ BootTimeout)'
      BY <1>a, <1>11 DEF Suspend, BaseInv, AlwaysResets, RestartFires,
         SavedResets, BootTimeout
    <2> QED BY <2>4, <2>5, <2>6, <2>7 DEF BaseInv
  <1>12. CASE Resume
    <2>1. TypeOK'
      BY <1>a, <1>12 DEF Resume, TypeOK, Phase, Regs
    <2> QED
      BY <1>a, <1>12, <2>1 DEF Resume, TypeOK, BaseInv,
         ClocksFollowPhase, AlwaysResets, RestartFires, LineHeld, SavedResets,
         BootTimeout
  <1>13. CASE ResumeFails
    <2>1. TypeOK'
      BY <1>a, <1>13 DEF ResumeFails, TypeOK, Phase
    <2> QED
      BY <1>a, <1>13, <2>1 DEF ResumeFails, TypeOK, BaseInv,
         ClocksFollowPhase, AlwaysResets, RestartFires, LineHeld, SavedResets,
         BootTimeout
  <1>14. CASE UNCHANGED vars
    BY <1>a, <1>14 DEF vars, TypeOK, BaseInv,
       ClocksFollowPhase, AlwaysResets, RestartFires, LineHeld, SavedResets,
       BootTimeout
  <1> QED BY <1>1, <1>2, <1>3, <1>4, <1>5, <1>6, <1>7,
             <1>8, <1>9, <1>10, <1>11, <1>12, <1>13, <1>14 DEF Next

\* The base invariant holds always.
LEMMA BaseHolds == Spec => []BaseInv
  BY BaseInit, BaseStep, PTL DEF Spec

\* For every reset line, rate and set of periods every variable keeps its type:
\* dw_wdt_set_timeout and the saved registers never leave the TOP field.
THEOREM DwTypes == Spec => []TypeOK
  <1>1. BaseInv => TypeOK
    BY DEF BaseInv
  <1> QED BY <1>1, BaseHolds, PTL

\* A registered watchdog resets the system and does not only interrupt
\* (dw_wdt_start, dw_wdt_resume), and a restart fires.
THEOREM DwBase == Spec => [](AlwaysResets /\ RestartFires)
  <1>1. BaseInv => AlwaysResets /\ RestartFires
    BY DEF BaseInv
  <1> QED BY <1>1, BaseHolds, PTL

\* Both clocks are balanced on every path: probe and its failures, registration
\* that fails, suspend, a resume that fails, and remove.
THEOREM DwClocks == Spec => []ClocksFollowPhase
  <1>1. BaseInv => ClocksFollowPhase
    BY DEF BaseInv
  <1> QED BY <1>1, BaseHolds, PTL

-----------------------------------------------------------------------------
(* The period that the boot loader chose.                                  *)

\* watchdog_dev_register starts a watchdog that is running already, with a
\* timeout rounded down to seconds: the search of dw_wdt_set_timeout finds the
\* same period, for every rate and every period of at least a second.
THEOREM BootPeriodSurvives == Spec => BootPeriodKept
  <1> DEFINE Kept == phase = "probed" /\ phase' = "on" /\ en /\ timeout >= 1
                       => period' = top
  <1>1. ASSUME BaseInv, [Next]_vars
        PROVE  Kept
    <2> SUFFICES ASSUME phase = "probed", phase' = "on", en, timeout >= 1
                 PROVE  period' = top
      OBVIOUS
    <2>1. Register
      BY <1>1 DEF Next, Probe, ProbeFails, RegisterFails, Remove, Start, Stop,
         Ping, SetTimeout, Restart, Suspend, Resume, ResumeFails, vars
    <2>2. top \in Top /\ timeout = dw_wdt_top_in_seconds(top)
      BY <1>1 DEF BaseInv, TypeOK, BootTimeout
    <2>3. TopFor(timeout) = top
      BY <2>2, TopForFindsAgain
    <2>4. period' = TopFor(timeout)
      BY <2>1 DEF Register, DwBecomes, Dw, dw_wdt_start, dw_wdt_ping,
         dw_wdt_set_timeout, dw_wdt_arm_system_reset
    <2> QED BY <2>3, <2>4
  <1>2. BaseInv /\ [Next]_vars => [Kept]_vars
    BY <1>1
  <1> QED BY BaseInit, BaseStep, <1>2, PTL DEF Spec, BootPeriodKept

-----------------------------------------------------------------------------
(* A reset line that the driver does not share.                            *)

\* The register agrees with wdd->timeout, so that every kick loads what the
\* core believes in.
TopApplied == phase = "on" /\ en => dw_wdt_top_in_seconds(top) = timeout

\* The same of what resume will restore, and the core knows that it will run.
SavedApplied ==
    phase = "suspended" /\ saved.en =>
        /\ dw_wdt_top_in_seconds(saved.top) = timeout
        /\ active \/ hw_running

FedInv ==
    /\ NoSilentHardware
    /\ PeriodApplied
    /\ TopApplied
    /\ SavedApplied

\* FedInv holds at the start.
LEMMA FedInit == Init => FedInv
  BY DEF Init, FedInv, NoSilentHardware, PeriodApplied, TopApplied,
     SavedApplied

\* Every step keeps FedInv: a set_timeout loads the new period because hardware
\* that counts is pinged, and stop either resets the device or sets
\* WDOG_HW_RUNNING.
LEMMA FedStep ==
    ASSUME "shared" \notin ResetLine
    PROVE  BaseInv /\ FedInv /\ [Next]_vars => FedInv'
  <1> SUFFICES ASSUME BaseInv, FedInv, [Next]_vars
               PROVE  FedInv'
    OBVIOUS
  <1> USE DEF hwVars, clkVars, wddVars, DwBecomes, Dw, dw_wdt_ping,
              dw_wdt_set_timeout, dw_wdt_arm_system_reset, dw_wdt_start,
              ResetRegs
  <1>a. TypeOK /\ LineHeld
    BY DEF BaseInv
  <1>1. CASE Probe
    BY <1>a, <1>1 DEF Probe, TypeOK, FedInv,
       NoSilentHardware, PeriodApplied, TopApplied, SavedApplied
  <1>2. CASE ProbeFails
    BY <1>a, <1>2 DEF ProbeFails, TypeOK, FedInv,
       NoSilentHardware, PeriodApplied, TopApplied, SavedApplied
  <1>3. CASE Register
    BY <1>a, <1>3 DEF Register, TypeOK, FedInv,
       NoSilentHardware, PeriodApplied, TopApplied, SavedApplied
  <1>4. CASE RegisterFails
    BY <1>a, <1>4 DEF RegisterFails, TypeOK, FedInv,
       NoSilentHardware, PeriodApplied, TopApplied, SavedApplied
  <1>5. CASE Remove
    BY <1>a, <1>5 DEF Remove, TypeOK, FedInv,
       NoSilentHardware, PeriodApplied, TopApplied, SavedApplied
  <1>6. CASE Start
    BY <1>a, <1>6 DEF Start, TypeOK, FedInv,
       NoSilentHardware, PeriodApplied, TopApplied, SavedApplied
  <1>7. CASE Stop
    <2>1. CASE line = "none"
      BY <1>a, <1>7, <2>1 DEF Stop, Asserts, TypeOK, FedInv,
         NoSilentHardware, PeriodApplied, TopApplied, SavedApplied
    <2>2. CASE line = "own"
      <3>1. DwBecomes(ResetRegs(Dw))
        BY <1>a, <1>7, <2>2 DEF Stop, Asserts, LineHeld
      <3>2. ~en' /\ phase' = "on"
        BY <1>7, <3>1 DEF Stop
      <3> QED BY <3>2 DEF FedInv,
    NoSilentHardware, PeriodApplied, TopApplied, SavedApplied
    <2> QED BY <1>a, <2>1, <2>2, DwAssumption DEF TypeOK
  <1>8. CASE Ping
    BY <1>a, <1>8 DEF Ping, TypeOK, FedInv,
       NoSilentHardware, PeriodApplied, TopApplied, SavedApplied
  <1>9. CASE SetTimeout
    <2>1. PICK s \in Request :
            DwBecomes(LET d == dw_wdt_set_timeout(Dw, s)
                      IN  IF active \/ hw_running THEN dw_wdt_ping(d) ELSE d)
      BY <1>9 DEF SetTimeout
    <2>2. CASE active \/ hw_running
      BY <1>a, <1>9, <2>1, <2>2 DEF SetTimeout, TypeOK, FedInv,
         NoSilentHardware, PeriodApplied, TopApplied, SavedApplied
    <2>3. CASE ~(active \/ hw_running)
      BY <1>a, <1>9, <2>1, <2>3 DEF SetTimeout, TypeOK, FedInv,
         NoSilentHardware, PeriodApplied, TopApplied, SavedApplied
    <2> QED BY <2>2, <2>3
  <1>10. CASE Restart
    BY <1>a, <1>10 DEF Restart, TypeOK, FedInv,
       NoSilentHardware, PeriodApplied, TopApplied, SavedApplied
  <1>11. CASE Suspend
    BY <1>a, <1>11 DEF Suspend, TypeOK, FedInv,
       NoSilentHardware, PeriodApplied, TopApplied, SavedApplied
  <1>12. CASE Resume
    BY <1>a, <1>12 DEF Resume, TypeOK, FedInv,
       NoSilentHardware, PeriodApplied, TopApplied, SavedApplied
  <1>13. CASE ResumeFails
    BY <1>a, <1>13 DEF ResumeFails, TypeOK, FedInv,
       NoSilentHardware, PeriodApplied, TopApplied, SavedApplied
  <1>14. CASE UNCHANGED vars
    BY <1>14 DEF vars, FedInv,
       NoSilentHardware, PeriodApplied, TopApplied, SavedApplied
  <1> QED BY <1>1, <1>2, <1>3, <1>4, <1>5, <1>6, <1>7,
             <1>8, <1>9, <1>10, <1>11, <1>12, <1>13, <1>14 DEF Next

\* FedInv holds always where no reset line is shared.
LEMMA FedHolds ==
    ASSUME "shared" \notin ResetLine
    PROVE  Spec => []FedInv
  <1>1. BaseInv /\ FedInv /\ [Next]_vars => FedInv'
    BY FedStep
  <1> QED BY BaseInit, BaseStep, FedInit, <1>1, PTL DEF Spec

\* With a reset line of its own, or none, hardware that counts is one the core
\* knows to count: across stop, restart, suspend, a lost register file and
\* resume.
THEOREM DwKnown ==
    ASSUME "shared" \notin ResetLine
    PROVE  Spec => []NoSilentHardware
  <1>1. FedInv => NoSilentHardware
    BY DEF FedInv
  <1>2. Spec => []FedInv
    BY FedHolds
  <1> QED BY <1>1, <1>2, PTL

\* And the countdown was loaded with the period that wdd->timeout says, for
\* every rate, period and request.
THEOREM DwFed ==
    ASSUME "shared" \notin ResetLine
    PROVE  Spec => []PeriodApplied
  <1>1. FedInv => PeriodApplied
    BY DEF FedInv
  <1>2. Spec => []FedInv
    BY FedHolds
  <1> QED BY <1>1, <1>2, PTL

-----------------------------------------------------------------------------
(* The timeout that the user asked for.                                    *)

\* A longer period does not last fewer seconds.
LEMMA SecondsMonotone ==
    ASSUME NEW i \in Top, NEW j \in Top, i <= j
    PROVE  dw_wdt_top_in_seconds(i) <= dw_wdt_top_in_seconds(j)
  <1>1. CASE i = j
    BY <1>1, SecondsNat
  <1>2. CASE i # j /\ dw_wdt_top_in_seconds(j) >= 1
    <2>1. i < j
      BY <1>2, DwAssumption DEF Top
    <2> QED BY <1>2, <2>1, SecondsGrow, SecondsNat
  <1>3. CASE i # j /\ ~(dw_wdt_top_in_seconds(j) >= 1)
    <2> DEFINE x == 2 ^ (Shift + i)
               y == 2 ^ (Shift + j)
    <2>1. i \in 0 .. MaxTop /\ j \in i + 1 .. MaxTop /\ j \in 0 .. MaxTop
      BY <1>3, DwAssumption DEF Top
    <2>2. x \in Nat /\ y \in Nat /\ 2 * x <= y /\ Rate \in Nat \ {0}
      BY <2>1, PowersAssumption, DwAssumption
    <2>3. y \div Rate = 0
      BY <1>3, SecondsNat DEF dw_wdt_top_in_seconds
    <2> HIDE DEF x, y
    <2>4. y < (0 + 1) * Rate
      BY <2>2, <2>3, DivFacts
    <2>5. /\ x \div Rate \in Nat
          /\ (x \div Rate) * Rate <= x
      BY <2>2, DivFacts
    <2>6. (x \div Rate) * Rate < 1 * Rate
      <3>1. (x \div Rate) * Rate \in Nat
        BY <2>2, <2>5
      <3> QED BY <2>2, <2>4, <2>5, <3>1
    <2>7. x \div Rate < 1
      BY <2>2, <2>5, <2>6, Cancel
    <2>8. x \div Rate = 0
      BY <2>5, <2>7
    <2> QED BY <2>3, <2>8 DEF dw_wdt_top_in_seconds, x, y
  <1> QED BY <1>1, <1>2, <1>3

\* t seconds are what a request for s seconds gets: enough, or all there is,
\* and no more than is needed.
Granted(s, t) ==
    /\ t >= s \/ t = dw_wdt_top_in_seconds(MaxTop)
    /\ \A i \in Top :
         dw_wdt_top_in_seconds(i) >= s => t <= dw_wdt_top_in_seconds(i)

\* The search of dw_wdt_set_timeout grants.
LEMMA SearchGrants ==
    ASSUME NEW s \in Nat
    PROVE  Granted(s, dw_wdt_top_in_seconds(TopFor(s)))
  <1> DEFINE enough == {i \in Top : dw_wdt_top_in_seconds(i) >= s}
  <1>1. CASE enough = {}
    BY <1>1 DEF TopFor, Granted
  <1>2. CASE enough # {}
    <2>1. enough \subseteq Nat /\ enough \subseteq Top
      BY DwAssumption DEF Top
    <2>2. TopFor(s) = CHOOSE i \in enough : \A j \in enough : i <= j
      BY <1>2 DEF TopFor
    <2>3. TopFor(s) \in enough /\ \A j \in enough : TopFor(s) <= j
      <3> HIDE DEF enough
      <3>1. \E i \in enough : \A j \in enough : i <= j
        BY <1>2, <2>1, LeastExists
      <3> QED BY <2>2, <3>1
    <2> QED BY <2>3, SecondsMonotone DEF Granted
  <1> QED BY <1>1, <1>2

\* The seconds of a period are granted as they are, also where they are 0.
LEMMA SecondsAgain ==
    ASSUME NEW i \in Top
    PROVE  LET t == dw_wdt_top_in_seconds(i)
           IN  dw_wdt_top_in_seconds(TopFor(t)) = t
  <1> DEFINE t == dw_wdt_top_in_seconds(i)
  <1>1. CASE t >= 1
    BY <1>1, TopForFindsAgain
  <1>2. CASE ~(t >= 1)
    <2>1. t = 0
      BY <1>2, SecondsNat
    <2>2. TopFor(t) \in Top /\ dw_wdt_top_in_seconds(TopFor(t)) \in Nat
      BY <2>1, TopForInField, SecondsNat
    <2>3. dw_wdt_top_in_seconds(TopFor(t)) <= t
      BY <2>1, SearchGrants DEF Granted
    <2> QED BY <2>1, <2>2, <2>3
  <1> QED BY <1>1, <1>2

\* wdd->timeout of a registered device is the length of some period.
WholePeriod ==
    phase \in {"on", "suspended"} =>
        \E i \in Top : timeout = dw_wdt_top_in_seconds(i)

\* While the device is registered its timeout changes only to what a valid
\* request of the user gets.
TimeoutIsUsers ==
    [][phase = "on" /\ timeout' # timeout =>
         \E s \in Request : /\ ~watchdog_timeout_invalid(s)
                            /\ Granted(s, timeout')]_vars

\* A start recomputes the timeout from its whole seconds and finds it again.
LEMMA TimeoutStep ==
    ASSUME BaseInv, WholePeriod, [Next]_vars
    PROVE  /\ WholePeriod'
           /\ phase = "on" /\ timeout' # timeout =>
                \E s \in Request : /\ ~watchdog_timeout_invalid(s)
                                   /\ Granted(s, timeout')
  <1>1. /\ TypeOK /\ timeout \in Nat
        /\ TopFor(timeout) \in Top
    BY RegistersTyped DEF BaseInv, TypeOK
  <1>2. phase = "on" => dw_wdt_top_in_seconds(TopFor(timeout)) = timeout
    BY SecondsAgain DEF WholePeriod
  <1>3. dw_wdt_start(Dw).timeout = dw_wdt_top_in_seconds(TopFor(timeout))
    BY DEF dw_wdt_start, dw_wdt_ping, dw_wdt_set_timeout,
       dw_wdt_arm_system_reset, Dw
  <1>4. CASE Register
    <2>1. phase = "probed"
          /\ timeout' = dw_wdt_top_in_seconds(TopFor(timeout))
      BY <1>3, <1>4 DEF Register, DwBecomes
    <2> QED BY <1>1, <2>1 DEF WholePeriod
  <1>5. CASE Start
    <2>1. phase = "on" /\ phase' = "on" /\ timeout' = timeout
      BY <1>2, <1>3, <1>5 DEF Start, DwBecomes, dw_wdt_ping, Dw
    <2> QED BY <2>1 DEF WholePeriod
  <1>6. CASE SetTimeout
    <2>1. PICK s \in Request :
            /\ ~watchdog_timeout_invalid(s)
            /\ DwBecomes(LET d == dw_wdt_set_timeout(Dw, s)
                         IN  IF active \/ hw_running THEN dw_wdt_ping(d) ELSE d)
      BY <1>6 DEF SetTimeout
    <2>2. timeout' = dw_wdt_top_in_seconds(TopFor(s))
      BY <2>1 DEF DwBecomes, dw_wdt_set_timeout, dw_wdt_ping, Dw
    <2>3. s \in Nat /\ TopFor(s) \in Top
      BY TopForInField, DwAssumption
    <2> QED BY <2>1, <2>2, <2>3, SearchGrants DEF WholePeriod
  <1>7. CASE Probe \/ ProbeFails \/ RegisterFails \/ ResumeFails
    BY <1>7 DEF Probe, ProbeFails, RegisterFails, ResumeFails, wddVars,
       WholePeriod
  <1>8. CASE Remove \/ Stop \/ Ping \/ Restart \/ Suspend \/ Resume
    <2>1. /\ timeout' = timeout
          /\ phase \in {"on", "suspended"} \/ phase' \notin {"on", "suspended"}
      BY <1>8 DEF Remove, Stop, Ping, Restart, Suspend, Resume, DwBecomes, Dw,
         ResetRegs, dw_wdt_ping, dw_wdt_arm_system_reset
    <2> QED BY <2>1 DEF WholePeriod
  <1>9. CASE UNCHANGED vars
    BY <1>9 DEF vars, wddVars, WholePeriod
  <1> QED BY <1>4, <1>5, <1>6, <1>7, <1>8, <1>9 DEF Next

\* For every rate and on every reset line, a shared one too, the timeout of a
\* registered watchdog is the user's: stop, start, suspend, a lost register
\* file and resume leave it alone though dw_wdt_start computes it anew from
\* seconds that were rounded down, and a request gets the shortest period
\* that is long enough, or the longest.
THEOREM UserTimeoutKept == Spec => TimeoutIsUsers
  <1> DEFINE A == phase = "on" /\ timeout' # timeout =>
                    \E s \in Request : /\ ~watchdog_timeout_invalid(s)
                                       /\ Granted(s, timeout')
  <1>1. Init => WholePeriod
    BY DEF Init, WholePeriod
  <1>2. BaseInv /\ WholePeriod /\ [Next]_vars => WholePeriod' /\ [A]_vars
    BY TimeoutStep
  <1> QED BY BaseHolds, <1>1, <1>2, PTL DEF Spec, TimeoutIsUsers

=============================================================================
