----------------------------- MODULE PsciProofs -----------------------------
(***************************************************************************)
(* Proofs about Psci, for any number of CPUs, any tree of power domains    *)
(* and any set of valid requests.                                          *)
(*                                                                         *)
(* IInv says for each CPU what its label implies (PhaseInv), who switches  *)
(* whom on and how far that has got (SpinInv), and how the states of the   *)
(* domains follow from what the CPUs ask for (CoordInv).  LockInv ties     *)
(* psci_locks to the labels; nothing in IInv needs it.                     *)
(***************************************************************************)
EXTENDS Psci, WellFoundedInduction, TLAPS

CallType == [kind: Kinds, end: 0..MaxLvl, lvl: 0..MaxLvl,
             next: Labels, states: [0..MaxLvl -> States],
             target: CPUs \cup {None}]

\* psci_cpu_on_start, with the spin lock of the target.
OnLabels == {"on_set", "on_flush", "on_again", "on_reflush", "on_power",
             "on_undo", "on_ctx"}

Locking == {"lock", "locked", "unlock"}

\* What the label of c says about the call it executes.
CallInv(c) ==
  LET k == call[c]
  IN  /\ pc[c] \in Locking =>
           k.kind \in {"off", "suspend", "system", "standby", "wake", "boot"}
      /\ pc[c] \in {"lock", "unlock"} => k.lvl \in 1..k.end
      /\ pc[c] = "locked" => k.lvl = k.end
      /\ pc[c] = "unlock" => k.next \in {"run", "off_set", "asleep", "wfi"}
      /\ pc[c] \in OnLabels \cup {"on_lock", "last_on"} => k.target \in CPUs
      /\ pc[c] \in {"lock", "locked"} /\ k.kind \notin {"wake", "boot"} =>
           \A l, m \in Levels : l <= m => k.states[m] <= k.states[l]
      /\ pc[c] \in {"lock", "locked"} /\ k.kind \in {"suspend", "system"} =>
           k.states[0] = OFF

\* The phases of a CPU.  It executes, or will when it has released its locks;
Awake(c) ==
  \/ Executing(c)
  \/ pc[c] = "unlock" /\ call[c].next = "run"

\* it is in retention;
Retained(c) ==
  \/ pc[c] = "wfi"
  \/ pc[c] = "unlock" /\ call[c].next = "wfi"
  \/ pc[c] \in {"lock", "locked"} /\ call[c].kind = "wake"

Boots(c) == pc[c] \in {"lock", "locked"} /\ call[c].kind = "boot"

\* it is suspended to power down, up to the end of its warm boot;
Suspended(c) ==
  \/ pc[c] = "asleep"
  \/ pc[c] = "unlock" /\ call[c].next = "asleep"
  \/ Boots(c) /\ susplvl[c] # INVALID

\* it is off;
SwitchedOff(c) == pc[c] \in {"off_inv", "down"}

\* or it boots after a CPU_ON.
ComesUp(c) == Boots(c) /\ susplvl[c] = INVALID

\* Above level n, c asks for RUN.
RunAbove(c, n) == \A l \in Levels : l > n => req[c][l] = RUN

\* A CPU that is neither off nor coming up is ON, and nobody switches it on.
LiveInv(c) ==
  \/ SwitchedOff(c)
  \/ ComesUp(c)
  \/ aff[c] = "ON" /\ mem[c] = "ON" /\ spin[c] = None /\ ~powered[c]

\* What each phase means for the state of the CPU.
PhaseInv(c) ==
  /\ Awake(c) => RunAbove(c, 0)
  /\ Retained(c) => RunAbove(c, call[c].end)
  /\ Suspended(c) => /\ susplvl[c] # INVALID
                     /\ RunAbove(c, susplvl[c])
                     /\ ctx[c] /\ local[c] = OFF
                     /\ Boots(c) => call[c].end = susplvl[c]
  /\ ~Suspended(c) => susplvl[c] = INVALID
  /\ ComesUp(c) => /\ call[c].end = MaxLvl
                   /\ aff[c] = "ON_PENDING" /\ mem[c] = "ON_PENDING"
                   /\ ~powered[c]
                   /\ ctx[c] \/ spin[c] # None
  /\ SwitchedOff(c) =>
       /\ aff[c] # "ON" /\ mem[c] # "ON"
       /\ powered[c] => /\ aff[c] = "ON_PENDING" /\ mem[c] = "ON_PENDING"
                        /\ ctx[c] \/ spin[c] # None
       /\ spin[c] = None => aff[c] = mem[c]

\* c has the spin lock of t: how far psci_cpu_on_start has got.  Between the
\* first store and the check, t may still invalidate its cache line; after
\* the check has failed it no longer can.
SwitchInv(c, t) ==
  /\ pc[c] \in OnLabels
  /\ call[c].target = t
  /\ pc[c] # "on_ctx" => SwitchedOff(t) /\ ~powered[t]
  /\ pc[c] = "on_ctx" => powered[t] \/ ComesUp(t)
  /\ pc[c] = "on_set" => aff[t] = "OFF" /\ mem[t] = "OFF"
  /\ pc[c] = "on_flush" => aff[t] = "ON_PENDING" \/ pc[t] = "down"
  /\ pc[c] \in {"on_again", "on_reflush"} => pc[t] = "down"
  /\ pc[c] = "on_reflush" => aff[t] = "ON_PENDING"
  /\ pc[c] = "on_power" => aff[t] = "ON_PENDING" /\ mem[t] = "ON_PENDING"

SpinInv ==
  \A c, t \in CPUs :
    /\ spin[t] = c => SwitchInv(c, t)
    /\ pc[c] \in OnLabels /\ call[c].target = t => spin[t] = c

\* No CPU asks for a deeper state at a higher level.
MonoInv ==
  \A c \in CPUs : \A l, m \in Levels : l <= m => req[c][m] <= req[c][l]

\* The domain above c at level l is in the shallowest state asked for.
Shallow(c, l) ==
  LET d == Anc[c][l]
  IN  /\ \A e \in Under(d) : node[d] <= req[e][l]
      /\ \E e \in Under(d) : node[d] = req[e][l]

CoordInv == \A c \in CPUs, l \in Levels : Shallow(c, l)

Cpu(c) == CallInv(c) /\ LiveInv(c) /\ PhaseInv(c)

\* The inductive invariant.
IInv ==
  /\ TypeOK
  /\ \A c \in CPUs : Cpu(c)
  /\ SpinInv
  /\ MonoInv
  /\ CoordInv

-----------------------------------------------------------------------------
(* Lemmas about the operators.                                             *)

\* A set of naturals has a least element.
LEMMA LeastNat ==
  ASSUME NEW T, T \subseteq Nat, T # {}
  PROVE  \E x \in T : \A y \in T : x <= y
  <1> DEFINE R == {ss \in Nat \X Nat : ss[1] < ss[2]}
  <1>1. IsWellFoundedOn(R, Nat)
    BY NatLessThanWellFounded DEF OpToRel
  <1>2. PICK x \in T : \A y \in T : ~(<<y, x>> \in R)
    BY <1>1, WFMin
  <1>3. ASSUME NEW y \in T PROVE x <= y
    <2>1. ~(<<y, x>> \in R)
      BY <1>2
    <2>2. x \in Nat /\ y \in Nat
      OBVIOUS
    <2>3. <<y, x>> \in Nat \X Nat /\ <<y, x>>[1] = y /\ <<y, x>>[2] = x
      BY <2>2
    <2>4. ~(y < x)
      BY <2>1, <2>3
    <2> QED BY <2>2, <2>4
  <1> QED BY <1>3

\* No level of a valid request is deeper than any level below it.
LEMMA RequestMonotone ==
  ASSUME NEW s, ValidRequest(s), NEW l \in Levels, NEW m \in Levels, l <= m
  PROVE  s[m] <= s[l]
  <1>1. /\ MaxLvl \in Nat
        /\ s \in [0..MaxLvl -> States]
        /\ \A k \in Levels : s[k] <= s[k - 1]
    BY PsciAssumption DEF ValidRequest
  <1>2. \A k \in 0..MaxLvl : s[k] \in Int
    BY <1>1 DEF States, RUN, RETN, OFF
  <1> DEFINE T == {k \in Levels : l <= k /\ ~(s[k] <= s[l])}
  <1>3. SUFFICES ASSUME T # {} PROVE FALSE
    OBVIOUS
  <1>4. T \subseteq Nat
    BY <1>1 DEF Levels
  <1>5. PICK k \in T : \A j \in T : k <= j
    BY <1>3, <1>4, LeastNat
  <1>6. k \in Levels /\ l <= k /\ ~(s[k] <= s[l])
    OBVIOUS
  <1> HIDE DEF T
  <1>7. k # l
    BY <1>2, <1>6 DEF Levels
  <1>8. k - 1 \in Levels /\ l <= k - 1 /\ k - 1 < k
    BY <1>1, <1>6, <1>7 DEF Levels
  <1>9. k - 1 \notin T
    BY <1>5, <1>8, <1>4, <1>6
  <1>10. s[k - 1] <= s[l]
    BY <1>8, <1>9 DEF T
  <1>11. s[k] <= s[k - 1]
    BY <1>1, <1>6
  <1>12. {k, k - 1, l} \subseteq 0..MaxLvl
    BY <1>1, <1>6, <1>8 DEF Levels
  <1> QED BY <1>2, <1>6, <1>10, <1>11, <1>12

\* psci_find_target_suspend_lvl finds a level.
LEMMA SuspendLevel ==
  ASSUME NEW s, ValidRequest(s)
  PROVE  target_suspend_lvl(s) \in 0..MaxLvl
  <1>1. MaxLvl \in Nat /\ s[0] # RUN
    BY PsciAssumption DEF ValidRequest
  <1> DEFINE T == {n \in 0..MaxLvl : s[MaxLvl - n] # RUN}
  <1>2. MaxLvl \in T /\ T \subseteq Nat
    BY <1>1
  <1>3. PICK n \in T : \A j \in T : n <= j
    BY <1>2, LeastNat
  <1>4. n \in 0..MaxLvl /\ s[MaxLvl - n] # RUN
    OBVIOUS
  <1>5. ASSUME NEW k \in (MaxLvl - n + 1)..MaxLvl PROVE s[k] = RUN
    <2>1. MaxLvl - k \in 0..MaxLvl /\ MaxLvl - k < n
            /\ MaxLvl - (MaxLvl - k) = k
      BY <1>1, <1>4
    <2>2. MaxLvl - k \notin T
      BY <1>3, <1>4, <2>1
    <2> QED BY <2>1, <2>2
  <1>6. MaxLvl - n \in 0..MaxLvl
    BY <1>1, <1>4
  <1> QED BY <1>4, <1>5, <1>6 DEF target_suspend_lvl

\* plat_get_target_pwr_state is the least state that is asked for.
LEMMA TargetIsLeast ==
  ASSUME NEW asked, NEW c \in CPUs, NEW l \in Levels,
         \A e \in CPUs : asked[e][l] \in States
  PROVE  LET d == Anc[c][l]
             x == TargetPwrState(asked, d, l)
         IN  /\ x \in States
             /\ \A e \in Under(d) : x <= asked[e][l]
             /\ \E e \in Under(d) : x = asked[e][l]
  <1> DEFINE d == Anc[c][l]
             T == {asked[e][l] : e \in Under(d)}
  <1>1. c \in Under(d) /\ Under(d) \subseteq CPUs
    BY DEF Under
  <1>2. T \subseteq States /\ T # {}
    BY <1>1
  <1>3. T \subseteq Nat
    BY <1>2 DEF States, RUN, RETN, OFF
  <1>4. PICK x \in T : \A y \in T : x <= y
    BY <1>2, <1>3, LeastNat
  <1>5. \E y \in T : \A e \in Under(d) : y <= asked[e][l]
    BY <1>4
  <1>6. /\ TargetPwrState(asked, d, l) \in T
        /\ \A e \in Under(d) : TargetPwrState(asked, d, l) <= asked[e][l]
    BY <1>5 DEF TargetPwrState
  <1> QED BY <1>2, <1>6

-----------------------------------------------------------------------------
(* What the shared pieces of the actions do to the CPU that executes them. *)

\* A CPU without a call.
LEMMA IdleTyped ==
  /\ Idle \in CallType
  /\ Idle.states \in [0..MaxLvl -> States]
  /\ Idle.end = 0 /\ Idle.lvl = 0 /\ Idle.kind = "none" /\ Idle.next = "run"
  /\ Idle.target = None
  <1>1. 0 \in 0..MaxLvl
    BY PsciAssumption
  <1>2. [l \in 0..MaxLvl |-> RUN] \in [0..MaxLvl -> States]
    BY DEF States
  <1> QED BY <1>1, <1>2 DEF Idle, CallType, Kinds, Labels

\* A call that takes the locks begins.
LEMMA BeginStep ==
  ASSUME TypeOK, NEW c \in CPUs, NEW kind \in Kinds, NEW end \in 0..MaxLvl,
         NEW s \in [0..MaxLvl -> States], Begin(c, kind, end, s)
  PROVE  /\ pc' \in [CPUs -> Labels] /\ call' \in [CPUs -> CallType]
         /\ \A e \in CPUs \ {c} : pc'[e] = pc[e] /\ call'[e] = call[e]
         /\ pc'[c] = IF end = 0 THEN "locked" ELSE "lock"
         /\ call'[c].kind = kind /\ call'[c].end = end /\ call'[c].states = s
         /\ call'[c].lvl = IF end = 0 THEN 0 ELSE 1
  <1> DEFINE k == [Idle EXCEPT !.kind = kind, !.end = end, !.states = s,
                               !.lvl = IF end = 0 THEN 0 ELSE 1]
  <1>1. (IF end = 0 THEN 0 ELSE 1) \in 0..MaxLvl
    BY PsciAssumption
  <1>2. /\ k \in CallType
        /\ k.kind = kind /\ k.end = end /\ k.states = s
        /\ k.lvl = IF end = 0 THEN 0 ELSE 1
    BY <1>1, IdleTyped DEF CallType
  <1>3. /\ pc' = [pc EXCEPT ![c] = IF end = 0 THEN "locked" ELSE "lock"]
        /\ call' = [call EXCEPT ![c] = k]
    BY DEF Begin, Goto
  <1> HIDE DEF k
  <1>4. pc \in [CPUs -> Labels] /\ call \in [CPUs -> CallType]
    BY DEF TypeOK, CallType
  <1> QED BY <1>2, <1>3, <1>4 DEF Labels

\* A call ends.
LEMMA ReturnStep ==
  ASSUME TypeOK, NEW c \in CPUs, NEW next \in Labels, Return(c, next)
  PROVE  /\ pc' \in [CPUs -> Labels] /\ call' \in [CPUs -> CallType]
         /\ \A e \in CPUs \ {c} : pc'[e] = pc[e] /\ call'[e] = call[e]
         /\ pc'[c] = next /\ call'[c] = Idle
  BY IdleTyped DEF Return, Goto, TypeOK, CallType

\* Either there is no lock to release or the release loop begins.
LEMMA ReleaseStep ==
  ASSUME TypeOK, NEW c \in CPUs, NEW next \in Labels, Release(c, next)
  PROVE  /\ pc' \in [CPUs -> Labels] /\ call' \in [CPUs -> CallType]
         /\ \A e \in CPUs \ {c} : pc'[e] = pc[e] /\ call'[e] = call[e]
         /\ \/ /\ pc'[c] = next /\ call'[c] = Idle /\ call[c].end = 0
            \/ /\ pc'[c] = "unlock" /\ call'[c].next = next
               /\ call[c].end # 0
               /\ call'[c].kind = call[c].kind /\ call'[c].end = call[c].end
               /\ call'[c].lvl = call[c].lvl
  <1>1. CASE call[c].end = 0
    <2>1. Return(c, next)
      BY <1>1 DEF Release
    <2> QED BY <1>1, <2>1, ReturnStep
  <1>2. CASE call[c].end # 0
    <2>1. /\ pc' = [pc EXCEPT ![c] = "unlock"]
          /\ call' = [call EXCEPT ![c] = [call[c] EXCEPT !.next = next]]
      BY <1>2 DEF Release, Goto
    <2>2. pc \in [CPUs -> Labels] /\ call \in [CPUs -> CallType]
      BY DEF TypeOK, CallType
    <2> DEFINE k == [call[c] EXCEPT !.next = next]
    <2>3. /\ k \in CallType /\ k.next = next /\ k.kind = call[c].kind
          /\ k.end = call[c].end /\ k.lvl = call[c].lvl
      BY <2>2 DEF CallType
    <2>4. call' = [call EXCEPT ![c] = k]
      BY <2>1
    <2> HIDE DEF k
    <2>5. pc' \in [CPUs -> Labels] /\ call' \in [CPUs -> CallType]
      BY <2>1, <2>2, <2>3, <2>4 DEF Labels
    <2> QED BY <1>2, <2>1, <2>2, <2>3, <2>4, <2>5
  <1> QED BY <1>1, <1>2

\* A CPU belongs to a domain at one level only.
LEMMA UnderLevel ==
  ASSUME NEW c \in CPUs, NEW l \in Levels, NEW e \in Under(Anc[c][l])
  PROVE  e \in CPUs /\ Anc[e][l] = Anc[c][l]
  <1>1. PICK k \in Levels : Anc[e][k] = Anc[c][l]
    BY DEF Under
  <1>2. e \in CPUs
    BY DEF Under
  <1> QED BY <1>1, <1>2, TreeAssumption

\* psci_do_state_coordination: every domain gets the shallowest state its CPUs
\* ask for, although the loop stops at the first one that stays in RUN.
LEMMA Coordination ==
  ASSUME TypeOK, MonoInv, CoordInv, NEW c \in CPUs, StateCoordination(c),
         RunAbove(c, 0),
         \A l, m \in Levels : l <= m => call[c].states[m] <= call[c].states[l]
  PROVE  /\ req' \in [CPUs -> [Levels -> States]]
         /\ node' \in [Domains -> States]
         /\ local' \in [CPUs -> States]
         /\ \A e \in CPUs \ {c} : req'[e] = req[e] /\ local'[e] = local[e]
         /\ local'[c] = call[c].states[0]
         /\ \A l \in Levels : l > call[c].end => req'[c][l] = RUN
         /\ MonoInv' /\ CoordInv'
  <1> DEFINE s == call[c].states
             end == call[c].end
             asked == [req EXCEPT ![c] =
                         [l \in Levels |-> IF l <= end THEN s[l] ELSE @[l]]]
             target(l) ==
               IF \E k \in 1..l : TargetPwrState(asked, Anc[c][k], k) = RUN
               THEN RUN ELSE TargetPwrState(asked, Anc[c][l], l)
             mine == {Anc[c][l] : l \in 1..end}
  <1>1. /\ req' = asked
        /\ node' = [d \in Domains |->
                      IF d \in mine
                      THEN target(CHOOSE l \in Levels : Anc[c][l] = d)
                      ELSE node[d]]
        /\ local' = [local EXCEPT ![c] = s[0]]
    BY DEF StateCoordination
  <1>2. /\ MaxLvl \in Nat /\ end \in 0..MaxLvl /\ s \in [0..MaxLvl -> States]
        /\ Levels \subseteq 0..MaxLvl /\ 0 \in 0..MaxLvl
        /\ req \in [CPUs -> [Levels -> States]]
        /\ node \in [Domains -> States] /\ local \in [CPUs -> States]
        /\ Anc \in [CPUs -> [Levels -> Domains]]
    BY PsciAssumption DEF TypeOK, Levels
  <1>3. /\ asked \in [CPUs -> [Levels -> States]]
        /\ \A e \in CPUs \ {c} : asked[e] = req[e]
        /\ \A l \in Levels : asked[c][l] = IF l <= end THEN s[l] ELSE req[c][l]
    BY <1>2
  <1>4. \A l \in Levels : l > end => asked[c][l] = RUN
    BY <1>2, <1>3 DEF RunAbove, Levels
  <1>5. \A e \in CPUs, l \in Levels : asked[e][l] \in States
    BY <1>3
  <1> HIDE DEF asked
  <1>6. ASSUME NEW e \in CPUs, NEW l \in Levels, NEW m \in Levels, l <= m
        PROVE  asked[e][m] <= asked[e][l]
    <2>1. CASE e # c
      BY <1>3, <1>6, <2>1 DEF MonoInv
    <2>2. CASE e = c /\ m <= end
      <3>1. l <= end
        BY <1>2, <1>6, <2>2 DEF Levels
      <3> QED BY <1>3, <1>6, <2>2, <3>1
    <2>3. CASE e = c /\ ~(m <= end)
      <3>1. m > end
        BY <1>2, <2>3 DEF Levels
      <3>2. asked[c][m] = 0 /\ asked[c][l] \in States
        BY <1>4, <1>5, <3>1 DEF RUN
      <3> QED BY <2>3, <3>2 DEF States, RUN, RETN, OFF
    <2> QED BY <2>1, <2>2, <2>3
  <1>7. ASSUME NEW l \in Levels
        PROVE  /\ target(l) \in States
               /\ \A e \in Under(Anc[c][l]) : target(l) <= asked[e][l]
               /\ \E e \in Under(Anc[c][l]) : target(l) = asked[e][l]
    <2>1. CASE \E k \in 1..l : TargetPwrState(asked, Anc[c][k], k) = RUN
      <3>1. PICK k \in 1..l : TargetPwrState(asked, Anc[c][k], k) = RUN
        BY <2>1
      <3>2. k \in Levels /\ k <= l /\ l \in k..MaxLvl
        BY <1>2 DEF Levels
      <3>3. PICK e \in Under(Anc[c][k]) : asked[e][k] = RUN
        BY <1>5, <3>1, <3>2, TargetIsLeast
      <3>4. e \in CPUs /\ Anc[e][k] = Anc[c][k]
        BY <3>2, UnderLevel
      <3>5. Anc[e][l] = Anc[c][l]
        BY <3>2, <3>4, TreeAssumption
      <3>6. e \in Under(Anc[c][l])
        BY <3>4, <3>5 DEF Under
      <3>7. asked[e][l] <= asked[e][k] /\ asked[e][l] \in States
        BY <1>5, <1>6, <3>2, <3>4
      <3>8. asked[e][l] = RUN
        BY <3>3, <3>7 DEF States, RUN, RETN, OFF
      <3>9. target(l) = RUN
        BY <2>1
      <3>10. \A f \in Under(Anc[c][l]) : RUN <= asked[f][l]
        BY <1>5 DEF Under, States, RUN, RETN, OFF
      <3> QED BY <3>6, <3>8, <3>9, <3>10 DEF States
    <2>2. CASE ~\E k \in 1..l : TargetPwrState(asked, Anc[c][k], k) = RUN
      <3>1. target(l) = TargetPwrState(asked, Anc[c][l], l)
        BY <2>2
      <3> QED BY <1>5, <3>1, TargetIsLeast
    <2> QED BY <2>1, <2>2
  <1> HIDE DEF target
  <1>8. ASSUME NEW l \in Levels
        PROVE  (CHOOSE k \in Levels : Anc[c][k] = Anc[c][l]) = l
    <2>1. \A k \in Levels : Anc[c][k] = Anc[c][l] => k = l
      BY TreeAssumption
    <2> QED BY <2>1
  <1>9. /\ \A l \in 1..end : node'[Anc[c][l]] = target(l)
        /\ \A d \in Domains \ mine : node'[d] = node[d]
        /\ node' \in [Domains -> States]
    <2>1. ASSUME NEW d \in Domains, d \in mine
          PROVE  \E l \in 1..end : d = Anc[c][l] /\ node'[d] = target(l)
      <3>1. PICK l \in 1..end : d = Anc[c][l]
        BY <2>1
      <3>2. l \in Levels
        BY <1>2 DEF Levels
      <3>3. (CHOOSE k \in Levels : Anc[c][k] = d) = l
        BY <1>8, <3>1, <3>2
      <3> QED BY <1>1, <2>1, <3>1, <3>3
    <2>2. ASSUME NEW l \in 1..end PROVE node'[Anc[c][l]] = target(l)
      <3>1. l \in Levels
        BY <1>2 DEF Levels
      <3>2. Anc[c][l] \in Domains /\ Anc[c][l] \in mine
        BY <1>2, <3>1
      <3> QED BY <1>1, <1>8, <3>1, <3>2
    <2>3. \A d \in Domains \ mine : node'[d] = node[d]
      BY <1>1
    <2>4. ASSUME NEW d \in Domains PROVE node'[d] \in States
      <3>1. CASE d \in mine
        <4>1. PICK l \in 1..end : node'[d] = target(l)
          BY <2>1, <3>1
        <4>2. l \in Levels
          BY <1>2 DEF Levels
        <4> QED BY <1>7, <4>1, <4>2
      <3>2. CASE d \notin mine
        BY <1>2, <2>3, <3>2
      <3> QED BY <3>1, <3>2
    <2>5. node' = [d \in Domains |-> node'[d]]
      BY <1>1
    <2> QED BY <2>2, <2>3, <2>4, <2>5
  <1>10. ASSUME NEW b \in CPUs, NEW l \in Levels
         PROVE  Shallow(b, l)'
    <2> DEFINE d == Anc[b][l]
    <2>1. d \in Domains
      BY <1>2
    <2>2. CASE d \in mine
      <3>1. PICK k \in 1..end : d = Anc[c][k]
        BY <2>2
      <3>2. k \in Levels
        BY <1>2 DEF Levels
      <3>3. k = l
        BY <3>1, <3>2, TreeAssumption
      <3>4. node'[d] = target(l) /\ d = Anc[c][l]
        BY <1>9, <3>1, <3>3
      <3> QED BY <1>1, <1>7, <3>4 DEF Shallow
    <2>3. CASE d \notin mine
      <3>1. node'[d] = node[d]
        BY <1>9, <2>1, <2>3
      <3>2. ASSUME NEW e \in Under(d) PROVE asked[e][l] = req[e][l]
        <4>1. e \in CPUs /\ Anc[e][l] = d
          BY UnderLevel
        <4>2. CASE e # c
          BY <1>3, <4>1, <4>2
        <4>3. CASE e = c
          <5>1. ~(l \in 1..end)
            BY <2>3, <4>1, <4>3
          <5>2. ~(l <= end)
            BY <1>2, <5>1 DEF Levels
          <5> QED BY <1>3, <4>3, <5>2
        <4> QED BY <4>2, <4>3
      <3>3. Shallow(b, l)
        BY DEF CoordInv
      <3> QED BY <1>1, <3>1, <3>2, <3>3 DEF Shallow
    <2> QED BY <2>2, <2>3
  <1>11. CoordInv'
    BY <1>10 DEF CoordInv
  <1>12. MonoInv'
    BY <1>1, <1>6 DEF MonoInv
  <1>13. /\ local' \in [CPUs -> States] /\ local'[c] = s[0]
         /\ \A e \in CPUs \ {c} : local'[e] = local[e]
    BY <1>1, <1>2
  <1>14. \A l \in Levels : l > end => req'[c][l] = RUN
    BY <1>1, <1>4
  <1> QED BY <1>1, <1>3, <1>9, <1>11, <1>12, <1>13, <1>14

\* psci_set_pwr_domains_to_run: a CPU that wakes up takes its domains along.
LEMMA Resume ==
  ASSUME TypeOK, MonoInv, CoordInv, NEW c \in CPUs, SetToRun(c),
         RunAbove(c, call[c].end)
  PROVE  /\ req' \in [CPUs -> [Levels -> States]]
         /\ node' \in [Domains -> States]
         /\ local' \in [CPUs -> States]
         /\ {aff', mem'} \subseteq [CPUs -> {"OFF", "ON_PENDING", "ON"}]
         /\ \A e \in CPUs \ {c} :
              /\ req'[e] = req[e] /\ local'[e] = local[e]
              /\ aff'[e] = aff[e] /\ mem'[e] = mem[e]
         /\ aff'[c] = "ON" /\ mem'[c] = "ON"
         /\ RunAbove(c, 0)'
         /\ MonoInv' /\ CoordInv'
  <1> DEFINE end == call[c].end
             mine == {Anc[c][l] : l \in 1..end}
  <1>1. /\ req' = [req EXCEPT ![c] =
                     [l \in Levels |-> IF l <= end THEN RUN ELSE @[l]]]
        /\ node' = [d \in Domains |-> IF d \in mine THEN RUN ELSE node[d]]
        /\ aff' = [aff EXCEPT ![c] = "ON"]
        /\ mem' = [mem EXCEPT ![c] = "ON"]
        /\ local' = [local EXCEPT ![c] = RUN]
    BY DEF SetToRun
  <1>2. /\ MaxLvl \in Nat /\ end \in 0..MaxLvl
        /\ req \in [CPUs -> [Levels -> States]]
        /\ node \in [Domains -> States] /\ local \in [CPUs -> States]
        /\ Anc \in [CPUs -> [Levels -> Domains]]
        /\ RUN \in States
    BY PsciAssumption DEF TypeOK, States
  <1>3. \A l \in Levels : req'[c][l] = RUN
    <2>1. \A l \in Levels : ~(l <= end) => l > end
      BY <1>2 DEF Levels
    <2> QED BY <1>1, <1>2, <2>1 DEF RunAbove
  <1>4. /\ req' \in [CPUs -> [Levels -> States]]
        /\ \A e \in CPUs \ {c} : req'[e] = req[e]
    BY <1>1, <1>2
  <1>5. /\ node' \in [Domains -> States] /\ local' \in [CPUs -> States]
        /\ {aff', mem'} \subseteq [CPUs -> {"OFF", "ON_PENDING", "ON"}]
        /\ \A e \in CPUs \ {c} :
              local'[e] = local[e] /\ aff'[e] = aff[e] /\ mem'[e] = mem[e]
        /\ aff'[c] = "ON" /\ mem'[c] = "ON"
    BY <1>1, <1>2 DEF TypeOK
  <1>6. \A x \in States : RUN <= x
    BY DEF States, RUN, RETN, OFF
  <1>7. MonoInv'
    <2>1. ASSUME NEW e \in CPUs, NEW l \in Levels, NEW m \in Levels, l <= m
          PROVE  req'[e][m] <= req'[e][l]
      <3>1. CASE e = c
        BY <1>2, <1>3, <1>6, <3>1
      <3>2. CASE e # c
        BY <1>4, <2>1, <3>2 DEF MonoInv
      <3> QED BY <3>1, <3>2
    <2> QED BY <2>1 DEF MonoInv
  <1>8. ASSUME NEW b \in CPUs, NEW l \in Levels
        PROVE  Shallow(b, l)'
    <2> DEFINE d == Anc[b][l]
    <2>1. d \in Domains
      BY <1>2
    <2>2. CASE d \in mine
      <3>1. PICK k \in 1..end : d = Anc[c][k]
        BY <2>2
      <3>2. k \in Levels
        BY <1>2 DEF Levels
      <3>3. k = l
        BY <3>1, <3>2, TreeAssumption
      <3>4. c \in Under(d) /\ Under(d) \subseteq CPUs
        BY <3>1, <3>2 DEF Under
      <3>5. node'[d] = RUN
        BY <1>1, <2>1, <2>2
      <3> QED BY <1>3, <1>4, <1>6, <3>4, <3>5 DEF Shallow
    <2>3. CASE d \notin mine
      <3>1. node'[d] = node[d]
        BY <1>1, <2>1, <2>3
      <3>2. ASSUME NEW e \in Under(d) PROVE req'[e][l] = req[e][l]
        <4>1. e \in CPUs /\ Anc[e][l] = d
          BY UnderLevel
        <4>2. CASE e # c
          BY <1>4, <4>1, <4>2
        <4>3. CASE e = c
          <5>1. ~(l \in 1..end)
            BY <2>3, <4>1, <4>3
          <5>2. l > end
            BY <1>2, <5>1 DEF Levels
          <5> QED BY <1>3, <4>3, <5>2 DEF RunAbove
        <4> QED BY <4>2, <4>3
      <3>3. Shallow(b, l)
        BY DEF CoordInv
      <3> QED BY <3>1, <3>2, <3>3 DEF Shallow
    <2> QED BY <2>2, <2>3
  <1>9. CoordInv'
    BY <1>8 DEF CoordInv
  <1> QED BY <1>3, <1>4, <1>5, <1>7, <1>9 DEF RunAbove

-----------------------------------------------------------------------------
(* Steps that leave the other CPUs alone.                                  *)

\* Nothing about CPU e changes.
Same(e) ==
  /\ aff'[e] = aff[e] /\ mem'[e] = mem[e] /\ local'[e] = local[e]
  /\ susplvl'[e] = susplvl[e] /\ req'[e] = req[e] /\ spin'[e] = spin[e]
  /\ ctx'[e] = ctx[e] /\ powered'[e] = powered[e] /\ pc'[e] = pc[e]
  /\ call'[e] = call[e]

\* What is known about a CPU stays known when nothing about it changes.
LEMMA SameCpu ==
  ASSUME NEW e, Same(e), Cpu(e)
  PROVE  Cpu(e)'
  <1> USE DEF Awake, Executing, RunAbove, Retained, Boots, Suspended,
              SwitchedOff, ComesUp
  <1>1. CallInv(e)'
    BY DEF Same, Cpu, CallInv
  <1>2. LiveInv(e)'
    BY DEF Same, Cpu, LiveInv
  <1>3. PhaseInv(e)'
    BY DEF Same, Cpu, PhaseInv
  <1> QED BY <1>1, <1>2, <1>3 DEF Cpu

\* A step of a CPU that switches nobody on: what is left to show is that it
\* does not get in the way of a CPU that switches it on.
LEMMA OwnStep ==
  ASSUME IInv, NEW c \in CPUs, \A e \in CPUs \ {c} : Same(e), spin' = spin,
         pc[c] \notin OnLabels, pc'[c] \notin OnLabels,
         TypeOK', MonoInv', CoordInv', Cpu(c)',
         \A x \in CPUs : spin[c] = x => SwitchInv(x, c)'
  PROVE  IInv'
  <1>1. \A e \in CPUs : Cpu(e)'
    BY SameCpu DEF IInv
  <1>2. ASSUME NEW x \in CPUs, NEW t \in CPUs, spin'[t] = x
        PROVE  SwitchInv(x, t)'
    <2>1. CASE t = c
      BY <1>2, <2>1
    <2>2. CASE t # c
      <3>1. SwitchInv(x, t)
        BY <1>2 DEF IInv, SpinInv
      <3>2. x # c
        BY <3>1 DEF SwitchInv
      <3>3. Same(x) /\ Same(t)
        BY <2>2, <3>2
      <3> QED BY <3>1, <3>3 DEF Same, SwitchInv, SwitchedOff, ComesUp, Boots
    <2> QED BY <2>1, <2>2
  <1>3. ASSUME NEW x \in CPUs, NEW t \in CPUs,
               pc'[x] \in OnLabels, call'[x].target = t
        PROVE  spin'[t] = x
    <2>1. Same(x)
      BY <1>3
    <2> QED BY <1>3, <2>1 DEF Same, IInv, SpinInv
  <1>4. SpinInv'
    BY <1>2, <1>3 DEF SpinInv
  <1> QED BY <1>1, <1>4 DEF IInv

\* The states of the CPU and of its domains are left alone, too.
LEMMA CallStep ==
  ASSUME IInv, NEW c \in CPUs, spin[c] = None,
         UNCHANGED <<aff, mem, susplvl, req, node, spin, ctx, powered>>,
         local' \in [CPUs -> States], pc' \in [CPUs -> Labels],
         call' \in [CPUs -> CallType], owner' \in [Domains -> CPUs \cup {None}],
         \A e \in CPUs \ {c} :
           pc'[e] = pc[e] /\ call'[e] = call[e] /\ local'[e] = local[e],
         pc[c] \notin OnLabels, pc'[c] \notin OnLabels, Cpu(c)'
  PROVE  IInv'
  <1>1. \A e \in CPUs \ {c} : Same(e)
    BY DEF Same
  <1>2. TypeOK'
    BY DEF IInv, TypeOK, CallType
  <1>3. MonoInv' /\ CoordInv'
    BY DEF IInv, MonoInv, CoordInv, Shallow
  <1>4. \A x \in CPUs : spin[c] # x
    BY PsciAssumption
  <1> QED BY <1>1, <1>2, <1>3, <1>4, OwnStep

\* A CPU that executes.
LEMMA AwakeFacts ==
  ASSUME IInv, NEW c \in CPUs, Awake(c)
  PROVE  /\ aff[c] = "ON" /\ mem[c] = "ON" /\ spin[c] = None
         /\ powered[c] = FALSE /\ susplvl[c] = INVALID /\ RunAbove(c, 0)
  <1>1. Cpu(c) /\ powered[c] \in BOOLEAN
    BY DEF IInv, TypeOK
  <1>2. ~SwitchedOff(c) /\ ~ComesUp(c) /\ ~Suspended(c)
    BY DEF Awake, Executing, SwitchedOff, ComesUp, Suspended, Boots
  <1> QED BY <1>1, <1>2 DEF Cpu, LiveInv, PhaseInv

\* What has to be shown of a CPU that executes after the step.
LEMMA AwakeStays ==
  ASSUME NEW c \in CPUs, Awake(c)', CallInv(c)', aff'[c] = "ON", mem'[c] = "ON",
         spin'[c] = None, powered'[c] = FALSE, susplvl'[c] = INVALID,
         RunAbove(c, 0)'
  PROVE  Cpu(c)'
  <1>1. ~SwitchedOff(c)' /\ ~ComesUp(c)' /\ ~Suspended(c)' /\ ~Retained(c)'
    BY DEF Awake, Executing, SwitchedOff, ComesUp, Suspended, Boots, Retained
  <1> QED BY <1>1 DEF Cpu, LiveInv, PhaseInv

\* A step of a CPU that executes, within its own call.
LEMMA AwakeStep ==
  ASSUME IInv, NEW c \in CPUs, Awake(c), Awake(c)', CallInv(c)',
         UNCHANGED <<aff, mem, susplvl, req, node, spin, ctx, powered, owner>>,
         local' \in [CPUs -> States], pc' \in [CPUs -> Labels],
         call' \in [CPUs -> CallType],
         \A e \in CPUs \ {c} :
           pc'[e] = pc[e] /\ call'[e] = call[e] /\ local'[e] = local[e],
         pc[c] \notin OnLabels, pc'[c] \notin OnLabels
  PROVE  IInv'
  <1>1. Cpu(c)'
    BY AwakeFacts, AwakeStays DEF RunAbove
  <1>2. spin[c] = None /\ owner' \in [Domains -> CPUs \cup {None}]
    BY AwakeFacts DEF IInv, TypeOK
  <1> QED BY <1>1, <1>2, CallStep

-----------------------------------------------------------------------------
(* The actions.                                                            *)

\* The calls of the normal world, up to the first lock.
LEMMA CallsKeep ==
  ASSUME IInv, NEW c \in CPUs,
         \/ \E t \in CPUs : psci_cpu_on(c, t)
         \/ psci_cpu_off(c)
         \/ \E s \in Requests : psci_cpu_suspend(c, s)
         \/ psci_system_suspend(c)
         \/ standby_wakes(c)
  PROVE  IInv'
  <1> USE DEF psciVars, cpuVars, lockVars
  <1>1. /\ TypeOK /\ MaxLvl \in Nat \ {0}
        /\ pc \in [CPUs -> Labels] /\ call \in [CPUs -> CallType]
        /\ local \in [CPUs -> States]
    BY PsciAssumption DEF IInv, TypeOK, CallType
  <1>2. Awake(c) /\ pc[c] \in {"run", "standby"}
    BY DEF psci_cpu_on, psci_cpu_off, psci_cpu_suspend, psci_system_suspend,
           standby_wakes, Awake, Executing
  <1>3. ASSUME NEW t \in CPUs, psci_cpu_on(c, t) PROVE IInv'
    <2> DEFINE k == [Idle EXCEPT !.kind = "on", !.target = t]
    <2>1. k \in CallType /\ k.target = t
      BY IdleTyped DEF CallType, Kinds
    <2>2. /\ pc' = [pc EXCEPT ![c] = "on_lock"] /\ call' = [call EXCEPT ![c] = k]
          /\ UNCHANGED <<psciVars, lockVars, ctx, powered>>
      BY <1>3 DEF psci_cpu_on, Goto
    <2> HIDE DEF k
    <2>3. /\ pc' \in [CPUs -> Labels] /\ call' \in [CPUs -> CallType]
          /\ pc'[c] = "on_lock" /\ call'[c] = k
          /\ \A e \in CPUs \ {c} : pc'[e] = pc[e] /\ call'[e] = call[e]
      BY <1>1, <2>1, <2>2 DEF Labels
    <2>4. Awake(c)' /\ CallInv(c)'
      BY <2>1, <2>3 DEF Awake, Executing, CallInv, OnLabels, Locking
    <2> QED BY <1>1, <1>2, <2>2, <2>3, <2>4, AwakeStep DEF OnLabels
  <1>4. CASE psci_system_suspend(c)
    <2> DEFINE k == [Idle EXCEPT !.kind = "system", !.target = 0]
    <2>1. k \in CallType /\ k.target = 0
      BY IdleTyped, PsciAssumption DEF CallType, Kinds
    <2>2. /\ pc' = [pc EXCEPT ![c] = "last_on"] /\ call' = [call EXCEPT ![c] = k]
          /\ UNCHANGED <<psciVars, lockVars, ctx, powered>>
      BY <1>4 DEF psci_system_suspend, Goto
    <2> HIDE DEF k
    <2>3. /\ pc' \in [CPUs -> Labels] /\ call' \in [CPUs -> CallType]
          /\ pc'[c] = "last_on" /\ call'[c] = k
          /\ \A e \in CPUs \ {c} : pc'[e] = pc[e] /\ call'[e] = call[e]
      BY <1>1, <2>1, <2>2 DEF Labels
    <2>4. Awake(c)' /\ CallInv(c)'
      BY <2>1, <2>3, PsciAssumption
         DEF Awake, Executing, CallInv, OnLabels, Locking
    <2> QED BY <1>1, <1>2, <2>2, <2>3, <2>4, AwakeStep DEF OnLabels
  <1>5. CASE psci_cpu_off(c)
    <2> DEFINE off == [l \in 0..MaxLvl |-> OFF]
    <2>1. /\ off \in [0..MaxLvl -> States] /\ MaxLvl \in 0..MaxLvl
          /\ \A l, m \in Levels : off[m] <= off[l]
      BY <1>1 DEF States, Levels, OFF
    <2>2. Begin(c, "off", MaxLvl, off) /\ UNCHANGED <<psciVars, lockVars, ctx, powered>>
      BY <1>5 DEF psci_cpu_off
    <2> HIDE DEF off
    <2>3. /\ pc' \in [CPUs -> Labels] /\ call' \in [CPUs -> CallType]
          /\ \A e \in CPUs \ {c} : pc'[e] = pc[e] /\ call'[e] = call[e]
          /\ pc'[c] = "lock" /\ call'[c].kind = "off" /\ call'[c].end = MaxLvl
          /\ call'[c].states = off /\ call'[c].lvl = 1
      BY <1>1, <2>1, <2>2, BeginStep DEF Kinds
    <2>4. Awake(c)' /\ CallInv(c)'
      BY <1>1, <2>1, <2>3 DEF Awake, Executing, CallInv, OnLabels, Locking
    <2> QED BY <1>1, <1>2, <2>2, <2>3, <2>4, AwakeStep DEF OnLabels
  <1>6. ASSUME NEW s \in Requests, psci_cpu_suspend(c, s) PROVE IInv'
    <2> DEFINE end == target_suspend_lvl(s)
               kind == IF s[0] = OFF THEN "suspend" ELSE "standby"
    <2>1. ValidRequest(s) /\ s \in [0..MaxLvl -> States]
      BY PsciAssumption DEF ValidRequest
    <2>2. end \in 0..MaxLvl /\ kind \in Kinds /\ s[0] \in States
      BY <1>1, <2>1, SuspendLevel DEF Kinds
    <2>3. UNCHANGED <<aff, mem, susplvl, req, node, owner, spin, ctx, powered>>
      BY <1>6 DEF psci_cpu_suspend
    <2>4. CASE s[0] # OFF /\ end = 0
      <3>1. /\ local' = [local EXCEPT ![c] = s[0]] /\ call' = call
            /\ pc' = [pc EXCEPT ![c] = "standby"]
        BY <1>6, <2>4 DEF psci_cpu_suspend, Goto
      <3>2. /\ pc' \in [CPUs -> Labels] /\ local' \in [CPUs -> States]
            /\ pc'[c] = "standby"
            /\ \A e \in CPUs \ {c} : pc'[e] = pc[e] /\ local'[e] = local[e]
        BY <1>1, <2>2, <3>1 DEF Labels
      <3>3. Awake(c)' /\ CallInv(c)'
        BY <3>2 DEF Awake, Executing, CallInv, OnLabels, Locking
      <3> QED BY <1>1, <1>2, <2>3, <3>1, <3>2, <3>3, AwakeStep DEF OnLabels
    <2>5. CASE ~(s[0] # OFF /\ end = 0)
      <3>1. Begin(c, kind, end, s) /\ local' = local
        BY <1>6, <2>5 DEF psci_cpu_suspend
      <3>2. \A l, m \in Levels : l <= m => s[m] <= s[l]
        BY <2>1, RequestMonotone
      <3>3. kind \notin {"boot", "wake"} /\ (kind = "suspend" => s[0] = OFF)
              /\ kind # "system" /\ kind \in {"suspend", "standby"}
        OBVIOUS
      <3> HIDE DEF end, kind
      <3>4. /\ pc' \in [CPUs -> Labels] /\ call' \in [CPUs -> CallType]
            /\ \A e \in CPUs \ {c} : pc'[e] = pc[e] /\ call'[e] = call[e]
            /\ pc'[c] = IF end = 0 THEN "locked" ELSE "lock"
            /\ call'[c].kind = kind /\ call'[c].end = end
            /\ call'[c].states = s /\ call'[c].lvl = IF end = 0 THEN 0 ELSE 1
        BY <1>1, <2>1, <2>2, <3>1, BeginStep
      <3>5. Awake(c)'
        BY <3>3, <3>4 DEF Awake, Executing
      <3>6. CallInv(c)'
        BY <1>1, <2>2, <3>2, <3>3, <3>4 DEF CallInv, OnLabels, Locking
      <3> QED BY <1>1, <1>2, <2>3, <3>1, <3>4, <3>5, <3>6, AwakeStep
              DEF OnLabels
    <2> QED BY <2>4, <2>5
  <1>7. CASE standby_wakes(c)
    <2>1. /\ local' = [local EXCEPT ![c] = RUN] /\ call' = call
          /\ pc' = [pc EXCEPT ![c] = "run"]
          /\ UNCHANGED <<aff, mem, susplvl, req, node, owner, spin, ctx, powered>>
      BY <1>7 DEF standby_wakes, Goto
    <2>2. /\ pc' \in [CPUs -> Labels] /\ local' \in [CPUs -> States]
          /\ pc'[c] = "run"
          /\ \A e \in CPUs \ {c} : pc'[e] = pc[e] /\ local'[e] = local[e]
      BY <1>1, <2>1 DEF Labels, States
    <2>3. Awake(c)' /\ CallInv(c)'
      BY <2>2 DEF Awake, Executing, CallInv, OnLabels, Locking
    <2> QED BY <1>1, <1>2, <2>1, <2>2, <2>3, AwakeStep DEF OnLabels
  <1> QED BY <1>3, <1>4, <1>5, <1>6, <1>7

\* psci_is_last_on_cpu, and the ways out of a call that change nothing.
LEMMA NoChangeKeep ==
  ASSUME IInv, NEW c \in CPUs,
         \/ is_last_on_cpu(c)
         \/ svc_off_denied(c)
         \/ suspend_abandoned(c)
  PROVE  IInv'
  <1> USE DEF psciVars, cpuVars, lockVars
  <1>1. /\ TypeOK /\ MaxLvl \in Nat \ {0} /\ CallInv(c)
        /\ pc \in [CPUs -> Labels] /\ call \in [CPUs -> CallType]
        /\ local \in [CPUs -> States]
    BY PsciAssumption DEF IInv, TypeOK, CallType, Cpu
  <1>2. UNCHANGED <<aff, mem, local, susplvl, req, node, owner, spin, ctx, powered>>
    BY DEF is_last_on_cpu, svc_off_denied, suspend_abandoned
  <1>3. ASSUME Awake(c), Awake(c)', CallInv(c)', pc' \in [CPUs -> Labels],
               call' \in [CPUs -> CallType],
               \A e \in CPUs \ {c} : pc'[e] = pc[e] /\ call'[e] = call[e],
               pc[c] \notin OnLabels, pc'[c] \notin OnLabels
        PROVE  IInv'
    BY <1>1, <1>2, <1>3, AwakeStep
  <1>4. CASE Return(c, "run") /\ pc[c] = "last_on"
    <2>1. /\ pc' \in [CPUs -> Labels] /\ call' \in [CPUs -> CallType]
          /\ \A e \in CPUs \ {c} : pc'[e] = pc[e] /\ call'[e] = call[e]
          /\ pc'[c] = "run"
      BY <1>1, <1>4, ReturnStep DEF Labels
    <2> QED BY <1>3, <1>4, <2>1
            DEF Awake, Executing, CallInv, OnLabels, Locking
  <1>5. CASE is_last_on_cpu(c)
    <2> DEFINE t == call[c].target
    <2>1. CASE t # c /\ aff[t] # "OFF"
      BY <1>4, <1>5, <2>1 DEF is_last_on_cpu
    <2>2. CASE ~(t # c /\ aff[t] # "OFF") /\ t + 1 \in CPUs
      <3> DEFINE k == [call[c] EXCEPT !.target = t + 1]
      <3>1. k \in CallType /\ k.target = t + 1
        BY <1>1, <2>2 DEF CallType
      <3>2. pc[c] = "last_on" /\ pc' = pc /\ call' = [call EXCEPT ![c] = k]
        BY <1>5, <2>2 DEF is_last_on_cpu
      <3> HIDE DEF k
      <3>3. /\ call' \in [CPUs -> CallType] /\ call'[c] = k
            /\ \A e \in CPUs \ {c} : call'[e] = call[e]
        BY <1>1, <3>1, <3>2
      <3> QED BY <1>1, <1>3, <2>2, <3>1, <3>2, <3>3
              DEF Awake, Executing, CallInv, OnLabels, Locking
    <2>3. CASE ~(t # c /\ aff[t] # "OFF") /\ t + 1 \notin CPUs
      <3> DEFINE off == [l \in 0..MaxLvl |-> OFF]
      <3>1. /\ off \in [0..MaxLvl -> States] /\ MaxLvl \in 0..MaxLvl
            /\ off[0] = OFF /\ \A l, m \in Levels : off[m] <= off[l]
        BY <1>1 DEF States, Levels, OFF
      <3>2. Begin(c, "system", MaxLvl, off) /\ pc[c] = "last_on"
        BY <1>5, <2>3 DEF is_last_on_cpu
      <3> HIDE DEF off
      <3>3. /\ pc' \in [CPUs -> Labels] /\ call' \in [CPUs -> CallType]
            /\ \A e \in CPUs \ {c} : pc'[e] = pc[e] /\ call'[e] = call[e]
            /\ pc'[c] = "lock" /\ call'[c].kind = "system"
            /\ call'[c].end = MaxLvl /\ call'[c].states = off
            /\ call'[c].lvl = 1
        BY <1>1, <3>1, <3>2, BeginStep DEF Kinds
      <3>4. Awake(c)' /\ CallInv(c)' /\ Awake(c)
        BY <1>1, <3>1, <3>2, <3>3 DEF Awake, Executing, CallInv, OnLabels, Locking
      <3> QED BY <1>3, <3>2, <3>3, <3>4 DEF OnLabels
    <2> QED BY <2>1, <2>2, <2>3
  <1>6. CASE svc_off_denied(c) \/ suspend_abandoned(c)
    <2>1. Release(c, "run") /\ pc[c] = "locked" /\ Awake(c)
      BY <1>6 DEF svc_off_denied, suspend_abandoned, Awake, Executing
    <2>2. /\ pc' \in [CPUs -> Labels] /\ call' \in [CPUs -> CallType]
          /\ \A e \in CPUs \ {c} : pc'[e] = pc[e] /\ call'[e] = call[e]
          /\ \/ pc'[c] = "run"
             \/ /\ pc'[c] = "unlock" /\ call'[c].next = "run"
                /\ call[c].end # 0
                /\ call'[c].kind = call[c].kind /\ call'[c].end = call[c].end
                /\ call'[c].lvl = call[c].lvl
      BY <1>1, <2>1, ReleaseStep DEF Labels
    <2>3. Awake(c)'
      BY <2>2 DEF Awake, Executing
    <2>4. call[c].end \in 0..MaxLvl
      BY <1>1 DEF CallType
    <2>5. CallInv(c)'
      BY <1>1, <2>1, <2>2, <2>4 DEF CallInv, OnLabels, Locking
    <2> QED BY <1>3, <2>1, <2>2, <2>3, <2>5 DEF OnLabels
  <1> QED BY <1>5, <1>6

\* A CPU that is neither off nor coming up.
LEMMA LiveFacts ==
  ASSUME IInv, NEW c \in CPUs, ~SwitchedOff(c), ~ComesUp(c)
  PROVE  /\ aff[c] = "ON" /\ mem[c] = "ON" /\ spin[c] = None
         /\ powered[c] = FALSE
  <1>1. Cpu(c) /\ powered[c] \in BOOLEAN
    BY DEF IInv, TypeOK
  <1> QED BY <1>1 DEF Cpu, LiveInv

\* The loop that takes the locks.  Somebody may still be storing the context
\* of a CPU that takes its locks to boot.
LEMMA AcquireKeeps ==
  ASSUME IInv, NEW c \in CPUs, acquire_lock(c)
  PROVE  IInv'
  <1> USE DEF psciVars, cpuVars, lockVars
  <1> DEFINE d == Anc[c][call[c].lvl]
             last == call[c].lvl = call[c].end
             k == [call[c] EXCEPT !.lvl = IF last THEN @ ELSE @ + 1]
  <1>1. /\ TypeOK /\ MaxLvl \in Nat \ {0} /\ Cpu(c) /\ CallInv(c)
        /\ pc \in [CPUs -> Labels] /\ call \in [CPUs -> CallType]
        /\ Anc \in [CPUs -> [Levels -> Domains]]
        /\ owner \in [Domains -> CPUs \cup {None}]
    BY PsciAssumption DEF IInv, TypeOK, CallType, Cpu
  <1>2. /\ pc[c] = "lock" /\ owner' = [owner EXCEPT ![d] = c]
        /\ pc' = [pc EXCEPT ![c] = IF last THEN "locked" ELSE "lock"]
        /\ call' = [call EXCEPT ![c] = k]
        /\ UNCHANGED <<aff, mem, local, susplvl, req, node, spin, ctx, powered>>
    BY DEF acquire_lock, Goto
  <1>3. /\ call[c].lvl \in 1..call[c].end /\ call[c].end \in 0..MaxLvl
        /\ call[c] \in CallType
    BY <1>1, <1>2 DEF CallInv, CallType
  <1>4. (IF last THEN call[c].lvl ELSE call[c].lvl + 1) \in 1..call[c].end
    <2>1. call[c].lvl \in Nat /\ call[c].end \in Nat
      BY <1>1, <1>3
    <2>2. CASE last
      BY <1>3, <2>2
    <2>3. CASE ~last
      BY <1>3, <2>1, <2>3
    <2> QED BY <2>2, <2>3
  <1>5. (IF last THEN call[c].lvl ELSE call[c].lvl + 1) \in 0..MaxLvl
    BY <1>1, <1>3, <1>4
  <1>6. /\ k \in CallType /\ k.kind = call[c].kind /\ k.end = call[c].end
        /\ k.states = call[c].states
        /\ k.lvl = IF last THEN call[c].lvl ELSE call[c].lvl + 1
    BY <1>3, <1>5 DEF CallType
  <1>7. call[c].lvl \in Levels
    BY <1>1, <1>3 DEF Levels
  <1>8. owner' \in [Domains -> CPUs \cup {None}]
    BY <1>1, <1>2, <1>7
  <1> HIDE DEF k, d
  <1>9. /\ pc' \in [CPUs -> Labels] /\ call' \in [CPUs -> CallType]
        /\ pc'[c] = IF last THEN "locked" ELSE "lock"
        /\ call'[c] = k
        /\ \A e \in CPUs \ {c} : pc'[e] = pc[e] /\ call'[e] = call[e]
    BY <1>1, <1>2, <1>6 DEF Labels
  <1>10. CallInv(c)'
    <2>1. last => k.lvl = k.end
      BY <1>6
    <2> HIDE DEF last
    <2> QED BY <1>1, <1>2, <1>4, <1>6, <1>9, <2>1 DEF CallInv, OnLabels, Locking
  <1> HIDE DEF last
  <1>11. /\ Awake(c)' <=> Awake(c)
         /\ Retained(c)' <=> Retained(c)
         /\ Boots(c)' <=> Boots(c)
         /\ Suspended(c)' <=> Suspended(c)
         /\ ComesUp(c)' <=> ComesUp(c)
         /\ ~SwitchedOff(c) /\ ~SwitchedOff(c)'
         /\ call'[c].end = call[c].end
         /\ pc[c] \notin OnLabels /\ pc'[c] \notin OnLabels
    BY <1>2, <1>6, <1>9 DEF Awake, Executing, Retained, Boots, Suspended,
                            ComesUp, SwitchedOff, OnLabels
  <1>12. Cpu(c)'
    <2>1. LiveInv(c)'
      BY <1>1, <1>2, <1>11 DEF Cpu, LiveInv
    <2>2. PhaseInv(c)'
      BY <1>1, <1>2, <1>11 DEF Cpu, PhaseInv, RunAbove
    <2> QED BY <1>10, <2>1, <2>2 DEF Cpu
  <1>13. CASE spin[c] = None
    BY <1>1, <1>2, <1>8, <1>9, <1>11, <1>12, <1>13, CallStep DEF TypeOK
  <1>14. CASE spin[c] # None
    <2>1. \A e \in CPUs \ {c} : Same(e)
      BY <1>2, <1>9 DEF Same
    <2>2. TypeOK' /\ MonoInv' /\ CoordInv'
      BY <1>2, <1>8, <1>9
         DEF IInv, TypeOK, CallType, MonoInv, CoordInv, Shallow
    <2>3. ASSUME NEW x \in CPUs, spin[c] = x PROVE SwitchInv(x, c)'
      <3>1. SwitchInv(x, c)
        BY <2>3 DEF IInv, SpinInv
      <3>2. x # c
        BY <1>11, <3>1 DEF SwitchInv
      <3>3. Same(x)
        BY <2>1, <3>2
      <3>4. pc[x] = "on_ctx"
        BY <1>11, <3>1 DEF SwitchInv, OnLabels
      <3> QED BY <1>2, <1>11, <3>1, <3>3, <3>4 DEF Same, SwitchInv, OnLabels
    <2> QED BY <1>2, <1>11, <1>12, <2>1, <2>2, <2>3, OwnStep
  <1> QED BY <1>13, <1>14

\* The loop that gives the locks back, and where the call goes on after it.
LEMMA ReleaseKeeps ==
  ASSUME IInv, NEW c \in CPUs, release_lock(c)
  PROVE  IInv'
  <1> USE DEF psciVars, cpuVars, lockVars
  <1> DEFINE d == Anc[c][call[c].lvl]
             k == [call[c] EXCEPT !.lvl = @ - 1]
  <1>1. /\ TypeOK /\ MaxLvl \in Nat \ {0} /\ Cpu(c) /\ CallInv(c)
        /\ pc \in [CPUs -> Labels] /\ call \in [CPUs -> CallType]
        /\ Anc \in [CPUs -> [Levels -> Domains]]
        /\ owner \in [Domains -> CPUs \cup {None}]
        /\ local \in [CPUs -> States]
    BY PsciAssumption DEF IInv, TypeOK, CallType, Cpu
  <1>2. /\ pc[c] = "unlock" /\ owner' = [owner EXCEPT ![d] = None]
        /\ UNCHANGED <<aff, mem, local, susplvl, req, node, spin, ctx, powered>>
    BY DEF release_lock
  <1>3. /\ call[c].lvl \in 1..call[c].end /\ call[c].end \in 0..MaxLvl
        /\ call[c] \in CallType
        /\ call[c].next \in {"run", "off_set", "asleep", "wfi"}
    BY <1>1, <1>2 DEF CallInv, CallType
  <1>4. call[c].lvl \in Levels
    BY <1>1, <1>3 DEF Levels
  <1>5. owner' \in [Domains -> CPUs \cup {None}]
    BY <1>1, <1>2, <1>4
  <1>6. ~SwitchedOff(c) /\ ~ComesUp(c)
    BY <1>2 DEF SwitchedOff, ComesUp, Boots
  <1>7. /\ aff[c] = "ON" /\ mem[c] = "ON" /\ spin[c] = None
        /\ powered[c] = FALSE
    BY <1>6, LiveFacts
  <1>8. ASSUME pc' \in [CPUs -> Labels], call' \in [CPUs -> CallType],
               \A e \in CPUs \ {c} : pc'[e] = pc[e] /\ call'[e] = call[e],
               pc'[c] \notin OnLabels, Cpu(c)'
        PROVE  IInv'
    BY <1>1, <1>2, <1>5, <1>7, <1>8, CallStep DEF OnLabels
  <1>9. PhaseInv(c)
    BY <1>1 DEF Cpu
  <1>10. CASE call[c].lvl > 1
    <2>1. call[c].lvl - 1 \in 1..call[c].end /\ call[c].lvl - 1 \in 0..MaxLvl
      BY <1>1, <1>3, <1>10
    <2>2. /\ k \in CallType /\ k.kind = call[c].kind /\ k.end = call[c].end
          /\ k.lvl = call[c].lvl - 1 /\ k.next = call[c].next
      BY <1>3, <2>1 DEF CallType
    <2>3. pc' = pc /\ call' = [call EXCEPT ![c] = k]
      BY <1>10 DEF release_lock
    <2> HIDE DEF k
    <2>4. /\ call' \in [CPUs -> CallType] /\ call'[c] = k
          /\ \A e \in CPUs \ {c} : call'[e] = call[e]
      BY <1>1, <2>2, <2>3
    <2>5. CallInv(c)'
      BY <1>1, <1>2, <1>3, <2>1, <2>2, <2>3, <2>4
         DEF CallInv, OnLabels, Locking
    <2>6. /\ Awake(c)' <=> Awake(c)
          /\ Retained(c)' <=> Retained(c)
          /\ ~Boots(c)' /\ ~Boots(c)
          /\ Suspended(c)' <=> Suspended(c)
          /\ ~ComesUp(c)' /\ ~SwitchedOff(c)'
          /\ call'[c].end = call[c].end
      BY <1>2, <2>2, <2>3, <2>4
         DEF Awake, Executing, Retained, Boots, Suspended, ComesUp, SwitchedOff
    <2>7. PhaseInv(c)'
      BY <1>2, <1>9, <2>6 DEF PhaseInv, RunAbove
    <2>8. LiveInv(c)'
      BY <1>2, <1>7 DEF LiveInv
    <2> QED BY <1>1, <1>2, <1>8, <2>3, <2>4, <2>5, <2>7, <2>8
            DEF Cpu, OnLabels
  <1>11. CASE ~(call[c].lvl > 1) /\ call[c].next = "wfi"
    <2>1. pc' = [pc EXCEPT ![c] = "wfi"] /\ call' = call
      BY <1>11 DEF release_lock, Goto
    <2>2. /\ pc' \in [CPUs -> Labels] /\ pc'[c] = "wfi"
          /\ \A e \in CPUs \ {c} : pc'[e] = pc[e]
      BY <1>1, <2>1 DEF Labels
    <2>3. CallInv(c)'
      BY <2>2 DEF CallInv, OnLabels, Locking
    <2>4. Retained(c) /\ ~Suspended(c)
      BY <1>2, <1>11 DEF Retained, Suspended, Boots
    <2>5. ~Awake(c)' /\ ~Suspended(c)' /\ ~ComesUp(c)' /\ ~SwitchedOff(c)'
      BY <2>2 DEF Awake, Executing, Boots, Suspended, ComesUp, SwitchedOff
    <2>6. PhaseInv(c)'
      BY <1>2, <1>9, <2>1, <2>4, <2>5 DEF PhaseInv, RunAbove
    <2>7. LiveInv(c)'
      BY <1>2, <1>7 DEF LiveInv
    <2> QED BY <1>1, <1>8, <2>1, <2>2, <2>3, <2>6, <2>7 DEF Cpu, OnLabels
  <1>12. CASE ~(call[c].lvl > 1) /\ call[c].next # "wfi"
    <2>1. Return(c, call[c].next)
      BY <1>12 DEF release_lock
    <2>2. call[c].next \in Labels
      BY <1>3 DEF Labels
    <2>3. /\ pc' \in [CPUs -> Labels] /\ call' \in [CPUs -> CallType]
          /\ \A e \in CPUs \ {c} : pc'[e] = pc[e] /\ call'[e] = call[e]
          /\ pc'[c] = call[c].next
      BY <1>1, <2>1, <2>2, ReturnStep
    <2>4. pc'[c] \in {"run", "off_set", "asleep"}
      BY <1>3, <1>12, <2>3
    <2>5. CallInv(c)'
      BY <2>4 DEF CallInv, OnLabels, Locking
    <2>6. /\ Awake(c)' <=> Awake(c)
          /\ ~Retained(c)' /\ ~Boots(c)' /\ ~ComesUp(c)' /\ ~SwitchedOff(c)'
          /\ Suspended(c)' <=> Suspended(c)
      BY <1>2, <2>3, <2>4
         DEF Awake, Executing, Retained, Boots, Suspended, ComesUp, SwitchedOff
    <2>7. PhaseInv(c)'
      BY <1>2, <1>9, <2>6 DEF PhaseInv, RunAbove
    <2>8. LiveInv(c)'
      BY <1>2, <1>7 DEF LiveInv
    <2> QED BY <1>8, <2>3, <2>4, <2>5, <2>7, <2>8 DEF Cpu, OnLabels
  <1> QED BY <1>10, <1>11, <1>12

\* psci_cpu_suspend_finish, psci_cpu_on_finish and the end of a standby: the
\* CPU and its domains are set to run.
LEMMA WakeStep ==
  ASSUME IInv, NEW c \in CPUs, pc[c] = "locked", SetToRun(c),
         RunAbove(c, call[c].end), Release(c, "run"),
         spin[c] = None, powered[c] = FALSE,
         susplvl' \in [CPUs -> 0..MaxLvl \cup {INVALID}],
         ctx' \in [CPUs -> BOOLEAN], susplvl'[c] = INVALID,
         \A e \in CPUs \ {c} : susplvl'[e] = susplvl[e] /\ ctx'[e] = ctx[e],
         UNCHANGED <<owner, spin, powered>>
  PROVE  IInv'
  <1>1. /\ TypeOK /\ MonoInv /\ CoordInv /\ CallInv(c)
        /\ call[c].end \in 0..MaxLvl /\ MaxLvl \in Nat
    BY PsciAssumption DEF IInv, Cpu, TypeOK
  <1>2. /\ req' \in [CPUs -> [Levels -> States]]
        /\ node' \in [Domains -> States]
        /\ local' \in [CPUs -> States]
        /\ {aff', mem'} \subseteq [CPUs -> {"OFF", "ON_PENDING", "ON"}]
        /\ \A e \in CPUs \ {c} :
              /\ req'[e] = req[e] /\ local'[e] = local[e]
              /\ aff'[e] = aff[e] /\ mem'[e] = mem[e]
        /\ aff'[c] = "ON" /\ mem'[c] = "ON"
        /\ RunAbove(c, 0)'
        /\ MonoInv' /\ CoordInv'
    BY <1>1, Resume
  <1>3. /\ pc' \in [CPUs -> Labels] /\ call' \in [CPUs -> CallType]
        /\ \A e \in CPUs \ {c} : pc'[e] = pc[e] /\ call'[e] = call[e]
        /\ \/ pc'[c] = "run"
           \/ /\ pc'[c] = "unlock" /\ call'[c].next = "run"
              /\ call[c].end # 0
              /\ call'[c].kind = call[c].kind /\ call'[c].end = call[c].end
              /\ call'[c].lvl = call[c].lvl
    BY <1>1, ReleaseStep DEF Labels
  <1>4. Awake(c)' /\ pc'[c] \notin OnLabels
    BY <1>3 DEF Awake, Executing, OnLabels
  <1>5. CallInv(c)'
    BY <1>1, <1>3 DEF CallInv, OnLabels, Locking
  <1>6. Cpu(c)'
    BY <1>2, <1>4, <1>5, AwakeStays
  <1>7. \A e \in CPUs \ {c} : Same(e)
    BY <1>2, <1>3 DEF Same
  <1>8. TypeOK'
    BY <1>2, <1>3 DEF IInv, TypeOK, CallType
  <1>9. \A x \in CPUs : spin[c] # x
    BY PsciAssumption
  <1> QED BY <1>2, <1>4, <1>6, <1>7, <1>8, <1>9, OwnStep DEF OnLabels

\* A CPU comes back from retention, or to the end of the warm boot.
LEMMA FinishersKeep ==
  ASSUME IInv, NEW c \in CPUs,
         \/ standby_finisher(c)
         \/ cpu_on_finish(c)
         \/ cpu_suspend_finish(c)
  PROVE  IInv'
  <1> USE DEF psciVars, cpuVars, lockVars
  <1>1. /\ Cpu(c) /\ PhaseInv(c)
        /\ susplvl \in [CPUs -> 0..MaxLvl \cup {INVALID}]
        /\ ctx \in [CPUs -> BOOLEAN]
    BY DEF IInv, TypeOK, Cpu
  <1>2. /\ pc[c] = "locked" /\ SetToRun(c) /\ Release(c, "run")
        /\ UNCHANGED <<owner, spin, powered>>
    BY DEF standby_finisher, cpu_on_finish, cpu_suspend_finish
  <1>3. ~SwitchedOff(c)
    BY <1>2 DEF SwitchedOff
  <1>4. CASE standby_finisher(c)
    <2>1. call[c].kind = "wake" /\ UNCHANGED <<susplvl, ctx>>
      BY <1>4 DEF standby_finisher
    <2>2. Retained(c) /\ ~Suspended(c) /\ ~ComesUp(c)
      BY <1>2, <2>1 DEF Retained, Suspended, ComesUp, Boots
    <2>3. spin[c] = None /\ powered[c] = FALSE
      BY <1>3, <2>2, LiveFacts
    <2>4. RunAbove(c, call[c].end) /\ susplvl[c] = INVALID
      BY <1>1, <2>2 DEF PhaseInv
    <2> QED BY <1>1, <1>2, <2>1, <2>3, <2>4, WakeStep
  <1>5. CASE cpu_on_finish(c)
    <2>1. /\ call[c].kind = "boot" /\ aff[c] = "ON_PENDING" /\ spin[c] = None
          /\ ctx' = [ctx EXCEPT ![c] = FALSE] /\ susplvl' = susplvl
      BY <1>5 DEF cpu_on_finish
    <2>2. ComesUp(c)
      BY <1>3, <2>1, LiveFacts
    <2>3. ~Suspended(c)
      BY <1>2, <2>2 DEF Suspended, ComesUp
    <2>4. /\ susplvl[c] = INVALID /\ powered[c] = FALSE
          /\ call[c].end = MaxLvl
      BY <1>1, <2>2, <2>3 DEF PhaseInv, IInv, TypeOK
    <2>5. RunAbove(c, call[c].end)
      BY <2>4, PsciAssumption DEF RunAbove, Levels
    <2>6. ctx' \in [CPUs -> BOOLEAN] /\ \A e \in CPUs \ {c} : ctx'[e] = ctx[e]
      BY <1>1, <2>1
    <2> QED BY <1>1, <1>2, <2>1, <2>4, <2>5, <2>6, WakeStep
  <1>6. CASE cpu_suspend_finish(c)
    <2>1. /\ call[c].kind = "boot" /\ aff[c] # "ON_PENDING"
          /\ ctx' = [ctx EXCEPT ![c] = FALSE]
          /\ susplvl' = [susplvl EXCEPT ![c] = INVALID]
      BY <1>6 DEF cpu_suspend_finish
    <2>2. ~ComesUp(c)
      BY <1>1, <2>1 DEF PhaseInv
    <2>3. Boots(c) /\ Suspended(c)
      BY <1>2, <2>1, <2>2 DEF Suspended, ComesUp, Boots
    <2>4. spin[c] = None /\ powered[c] = FALSE
      BY <1>3, <2>2, LiveFacts
    <2>5. RunAbove(c, call[c].end)
      BY <1>1, <2>3 DEF PhaseInv
    <2>6. /\ ctx' \in [CPUs -> BOOLEAN]
          /\ susplvl' \in [CPUs -> 0..MaxLvl \cup {INVALID}]
          /\ susplvl'[c] = INVALID
          /\ \A e \in CPUs \ {c} : susplvl'[e] = susplvl[e] /\ ctx'[e] = ctx[e]
      BY <1>1, <2>1
    <2> QED BY <1>2, <2>4, <2>5, <2>6, WakeStep
  <1> QED BY <1>4, <1>5, <1>6

\* CPU_OFF and CPU_SUSPEND under the locks: what the CPU asks for is
\* coordinated with the requests of the others.
LEMMA CoordinationKeeps ==
  ASSUME IInv, NEW c \in CPUs, pwr_domain_off(c) \/ suspend_start(c)
  PROVE  IInv'
  <1> USE DEF psciVars, cpuVars, lockVars
  <1> DEFINE kind == call[c].kind
  <1>1. /\ TypeOK /\ MonoInv /\ CoordInv /\ Cpu(c) /\ CallInv(c)
        /\ call[c].end \in 0..MaxLvl /\ MaxLvl \in Nat
        /\ susplvl \in [CPUs -> 0..MaxLvl \cup {INVALID}]
        /\ ctx \in [CPUs -> BOOLEAN]
    BY PsciAssumption DEF IInv, Cpu, TypeOK
  <1>2. /\ pc[c] = "locked" /\ StateCoordination(c)
        /\ kind \in {"off", "suspend", "system", "standby"}
        /\ UNCHANGED <<aff, mem, owner, spin, powered>>
    BY DEF pwr_domain_off, suspend_start
  <1>3. PICK next \in {"off_set", "asleep", "wfi"} :
          /\ Release(c, next)
          /\ next = "asleep" => kind \in {"suspend", "system"}
          /\ susplvl' = [susplvl EXCEPT ![c] =
                           IF next = "asleep" THEN call[c].end ELSE @]
          /\ ctx' = [ctx EXCEPT ![c] = IF next = "asleep" THEN TRUE ELSE @]
    <2>1. CASE pwr_domain_off(c)
      <3>1. Release(c, "off_set") /\ UNCHANGED <<susplvl, ctx>>
        BY <2>1 DEF pwr_domain_off
      <3>2. /\ susplvl' = [susplvl EXCEPT ![c] = susplvl[c]]
            /\ ctx' = [ctx EXCEPT ![c] = ctx[c]]
        BY <1>1, <3>1
      <3> QED BY <3>1, <3>2
    <2>2. CASE suspend_start(c) /\ kind = "standby"
      <3>1. /\ Release(c, "wfi")
            /\ susplvl' = [susplvl EXCEPT ![c] = @]
            /\ ctx' = [ctx EXCEPT ![c] = @]
        BY <2>2 DEF suspend_start
      <3> QED BY <3>1
    <2>3. CASE suspend_start(c) /\ kind # "standby"
      <3>1. /\ Release(c, "asleep")
            /\ susplvl' = [susplvl EXCEPT ![c] = call[c].end]
            /\ ctx' = [ctx EXCEPT ![c] = TRUE]
            /\ kind \in {"suspend", "system"}
        BY <2>3 DEF suspend_start
      <3> QED BY <3>1
    <2> QED BY <2>1, <2>2, <2>3
  <1>4. Awake(c)
    BY <1>2 DEF Awake, Executing
  <1>5. /\ aff[c] = "ON" /\ mem[c] = "ON" /\ spin[c] = None
        /\ powered[c] = FALSE /\ susplvl[c] = INVALID /\ RunAbove(c, 0)
    BY <1>4, AwakeFacts
  <1>6. \A l, m \in Levels : l <= m => call[c].states[m] <= call[c].states[l]
    BY <1>1, <1>2 DEF CallInv
  <1>7. /\ req' \in [CPUs -> [Levels -> States]]
        /\ node' \in [Domains -> States]
        /\ local' \in [CPUs -> States]
        /\ \A e \in CPUs \ {c} : req'[e] = req[e] /\ local'[e] = local[e]
        /\ local'[c] = call[c].states[0]
        /\ \A l \in Levels : l > call[c].end => req'[c][l] = RUN
        /\ MonoInv' /\ CoordInv'
    BY <1>1, <1>2, <1>5, <1>6, Coordination
  <1>8. /\ pc' \in [CPUs -> Labels] /\ call' \in [CPUs -> CallType]
        /\ \A e \in CPUs \ {c} : pc'[e] = pc[e] /\ call'[e] = call[e]
        /\ \/ /\ pc'[c] = next /\ call'[c] = Idle /\ call[c].end = 0
           \/ /\ pc'[c] = "unlock" /\ call'[c].next = next
              /\ call[c].end # 0
              /\ call'[c].kind = call[c].kind /\ call'[c].end = call[c].end
              /\ call'[c].lvl = call[c].lvl
    BY <1>1, <1>3, ReleaseStep DEF Labels
  <1>9. /\ susplvl' \in [CPUs -> 0..MaxLvl \cup {INVALID}]
        /\ ctx' \in [CPUs -> BOOLEAN]
        /\ \A e \in CPUs \ {c} : susplvl'[e] = susplvl[e] /\ ctx'[e] = ctx[e]
        /\ next = "asleep" => susplvl'[c] = call[c].end /\ ctx'[c]
        /\ next # "asleep" => susplvl'[c] = INVALID
    BY <1>1, <1>3, <1>5
  <1>10. CallInv(c)'
    BY <1>1, <1>2, <1>8 DEF CallInv, OnLabels, Locking
  <1>11. /\ ~Awake(c)' /\ ~SwitchedOff(c)' /\ ~Boots(c)'
         /\ pc'[c] \notin OnLabels
         /\ Suspended(c)' <=> next = "asleep"
         /\ Retained(c)' => call'[c].end = call[c].end
    BY <1>8, IdleTyped DEF Awake, Executing, SwitchedOff, Boots, Suspended, Retained,
                OnLabels
  <1>12. ~ComesUp(c)'
    BY <1>11 DEF ComesUp
  <1>13. next = "asleep" => local'[c] = OFF /\ susplvl'[c] # INVALID
    BY <1>1, <1>2, <1>3, <1>7, <1>9 DEF CallInv, INVALID
  <1>15. LiveInv(c)'
    BY <1>2, <1>5 DEF LiveInv
  <1>16. PhaseInv(c)'
    <2>1. Retained(c)' => \A l \in Levels : l > call'[c].end => req'[c][l] = RUN
      BY <1>7, <1>11
    <2>2. Suspended(c)' =>
            \A l \in Levels : l > susplvl'[c] => req'[c][l] = RUN
      BY <1>7, <1>9, <1>11
    <2> QED BY <1>9, <1>11, <1>12, <1>13, <2>1, <2>2 DEF PhaseInv, RunAbove
  <1>17. \A e \in CPUs \ {c} : Same(e)
    BY <1>2, <1>7, <1>8, <1>9 DEF Same
  <1>18. TypeOK'
    BY <1>2, <1>7, <1>8, <1>9 DEF IInv, TypeOK, CallType
  <1>19. \A x \in CPUs : spin[c] # x
    BY <1>5, PsciAssumption
  <1> QED BY <1>2, <1>7, <1>10, <1>11, <1>15, <1>16, <1>17, <1>18, <1>19,
             OwnStep DEF Cpu, OnLabels

\* The end of CPU_OFF, when another CPU may already be switching c on again:
\* the invalidation of the cache line does no harm because on_flush looks at
\* the state once more.
LEMMA OffKeeps ==
  ASSUME IInv, NEW c \in CPUs, off_set(c) \/ off_inv(c)
  PROVE  IInv'
  <1> USE DEF psciVars, cpuVars, lockVars
  <1>1. /\ TypeOK /\ MonoInv /\ CoordInv /\ Cpu(c) /\ PhaseInv(c)
        /\ aff \in [CPUs -> {"OFF", "ON_PENDING", "ON"}]
        /\ mem \in [CPUs -> {"OFF", "ON_PENDING", "ON"}]
        /\ pc \in [CPUs -> Labels]
    BY DEF IInv, Cpu, TypeOK
  <1>2. UNCHANGED <<local, susplvl, req, node, owner, spin, ctx, powered, call>>
    BY DEF off_set, off_inv
  <1>3. MonoInv' /\ CoordInv'
    BY <1>1, <1>2 DEF MonoInv, CoordInv, Shallow
  <1>4. ~Suspended(c)
    BY DEF off_set, off_inv, Suspended, Boots
  <1>5. CASE off_set(c)
    <2>1. /\ pc[c] = "off_set" /\ aff' = [aff EXCEPT ![c] = "OFF"]
          /\ mem' = [mem EXCEPT ![c] = "OFF"]
          /\ pc' = [pc EXCEPT ![c] = "off_inv"]
      BY <1>5 DEF off_set, Goto
    <2>2. spin[c] = None /\ powered[c] = FALSE
      BY <2>1, LiveFacts DEF SwitchedOff, ComesUp, Boots
    <2>3. TypeOK' /\ \A e \in CPUs \ {c} : Same(e)
      BY <1>1, <1>2, <2>1 DEF TypeOK, Same, Labels
    <2>4. pc'[c] = "off_inv" /\ aff'[c] = "OFF" /\ mem'[c] = "OFF"
      BY <1>1, <2>1
    <2>5. Cpu(c)'
      <3>1. CallInv(c)'
        BY <2>4 DEF CallInv, OnLabels, Locking
      <3>2. /\ SwitchedOff(c)' /\ ~Awake(c)' /\ ~Retained(c)'
            /\ ~Suspended(c)' /\ ~ComesUp(c)'
        BY <2>4 DEF SwitchedOff, Awake, Executing, Retained, Suspended,
                    ComesUp, Boots
      <3>3. susplvl'[c] = INVALID
        BY <1>1, <1>2, <1>4 DEF PhaseInv
      <3> QED BY <1>2, <2>2, <2>4, <3>1, <3>2, <3>3 DEF Cpu, LiveInv, PhaseInv
    <2>6. \A x \in CPUs : spin[c] # x
      BY <2>2, PsciAssumption
    <2> QED BY <1>2, <1>3, <2>1, <2>3, <2>4, <2>5, <2>6, OwnStep DEF OnLabels
  <1>6. CASE off_inv(c)
    <2>1. /\ pc[c] = "off_inv" /\ aff' = [aff EXCEPT ![c] = mem[c]]
          /\ mem' = mem /\ pc' = [pc EXCEPT ![c] = "down"]
      BY <1>6 DEF off_inv, Goto
    <2>2. TypeOK' /\ \A e \in CPUs \ {c} : Same(e)
      BY <1>1, <1>2, <2>1 DEF TypeOK, Same, Labels
    <2>3. pc'[c] = "down" /\ aff'[c] = mem[c]
      BY <1>1, <2>1
    <2>4. Cpu(c)'
      <3>1. CallInv(c)'
        BY <2>3 DEF CallInv, OnLabels, Locking
      <3>2. /\ SwitchedOff(c)' /\ ~Awake(c)' /\ ~Retained(c)'
            /\ ~Suspended(c)' /\ ~ComesUp(c)' /\ SwitchedOff(c)
        BY <2>1, <2>3 DEF SwitchedOff, Awake, Executing, Retained, Suspended,
                          ComesUp, Boots
      <3>3. susplvl'[c] = INVALID
        BY <1>1, <1>2, <1>4 DEF PhaseInv
      <3>4. PhaseInv(c)'
        BY <1>1, <1>2, <2>1, <2>3, <3>2, <3>3 DEF PhaseInv
      <3> QED BY <3>1, <3>2, <3>4 DEF Cpu, LiveInv
    <2>5. ASSUME NEW x \in CPUs, spin[c] = x PROVE SwitchInv(x, c)'
      <3>1. SwitchInv(x, c)
        BY <2>5 DEF IInv, SpinInv
      <3>2. x # c
        BY <2>1, <3>1 DEF SwitchInv, OnLabels
      <3>3. pc'[x] = pc[x] /\ call'[x] = call[x] /\ SwitchedOff(c)'
        BY <2>2, <2>3, <3>2 DEF Same, SwitchedOff
      <3>4. pc[x] \notin {"on_again", "on_reflush"}
        BY <2>1, <3>1 DEF SwitchInv
      <3>5. pc[x] = "on_ctx" => powered[c]
        BY <2>1, <3>1 DEF SwitchInv, ComesUp, Boots
      <3> QED BY <1>2, <2>1, <2>3, <3>1, <3>3, <3>4, <3>5 DEF SwitchInv
    <2> QED BY <1>2, <1>3, <2>1, <2>2, <2>3, <2>4, <2>5, OwnStep DEF OnLabels
  <1> QED BY <1>5, <1>6

\* A CPU in retention takes the locks again.
LEMMA WfiKeeps ==
  ASSUME IInv, NEW c \in CPUs, wfi_wakes(c)
  PROVE  IInv'
  <1> USE DEF psciVars, cpuVars, lockVars
  <1>1. /\ TypeOK /\ Cpu(c) /\ PhaseInv(c) /\ call[c].end \in 0..MaxLvl
        /\ MaxLvl \in Nat \ {0} /\ local \in [CPUs -> States]
        /\ owner \in [Domains -> CPUs \cup {None}]
    BY PsciAssumption DEF IInv, Cpu, TypeOK
  <1>2. /\ pc[c] = "wfi" /\ Begin(c, "wake", call[c].end, Idle.states)
        /\ UNCHANGED <<aff, mem, local, susplvl, req, node, owner, spin, ctx,
                       powered>>
    BY DEF wfi_wakes
  <1>3. /\ pc' \in [CPUs -> Labels] /\ call' \in [CPUs -> CallType]
        /\ \A e \in CPUs \ {c} : pc'[e] = pc[e] /\ call'[e] = call[e]
        /\ pc'[c] = IF call[c].end = 0 THEN "locked" ELSE "lock"
        /\ call'[c].kind = "wake" /\ call'[c].end = call[c].end
        /\ call'[c].lvl = IF call[c].end = 0 THEN 0 ELSE 1
    BY <1>1, <1>2, BeginStep, IdleTyped DEF Kinds
  <1>4. spin[c] = None /\ aff[c] = "ON" /\ mem[c] = "ON" /\ powered[c] = FALSE
    BY <1>2, LiveFacts DEF SwitchedOff, ComesUp, Boots
  <1>5. Retained(c) /\ ~Suspended(c)
    BY <1>2 DEF Retained, Suspended, Boots
  <1>6. /\ ~Awake(c)' /\ ~Suspended(c)' /\ ~ComesUp(c)' /\ ~SwitchedOff(c)'
        /\ pc'[c] \notin OnLabels
    BY <1>3 DEF Awake, Executing, Suspended, ComesUp, Boots, SwitchedOff,
                OnLabels
  <1>7. CallInv(c)'
    BY <1>1, <1>3 DEF CallInv, OnLabels, Locking
  <1>8. PhaseInv(c)'
    BY <1>1, <1>2, <1>3, <1>5, <1>6 DEF PhaseInv, RunAbove
  <1>9. Cpu(c)'
    BY <1>2, <1>4, <1>7, <1>8 DEF Cpu, LiveInv
  <1> QED BY <1>1, <1>2, <1>3, <1>4, <1>6, <1>9, CallStep DEF OnLabels

\* The warm boot, of a CPU that sleeps or of one that is switched on, whose
\* context may still be on its way.
LEMMA WarmbootKeeps ==
  ASSUME IInv, NEW c \in CPUs, warmboot(c)
  PROVE  IInv'
  <1> USE DEF psciVars, cpuVars, lockVars
  <1> DEFINE end == IF susplvl[c] = INVALID THEN MaxLvl ELSE susplvl[c]
  <1>1. /\ TypeOK /\ MonoInv /\ CoordInv /\ Cpu(c) /\ PhaseInv(c) /\ LiveInv(c)
        /\ MaxLvl \in Nat \ {0}
        /\ susplvl[c] \in 0..MaxLvl \cup {INVALID}
        /\ powered \in [CPUs -> BOOLEAN]
    BY PsciAssumption DEF IInv, Cpu, TypeOK
  <1>2. /\ Entering(c) /\ powered' = [powered EXCEPT ![c] = FALSE]
        /\ Begin(c, "boot", end, Idle.states)
        /\ UNCHANGED <<aff, mem, local, susplvl, req, node, owner, spin, ctx>>
    BY DEF warmboot
  <1>3. end \in 0..MaxLvl
    BY <1>1
  <1>4. susplvl[c] = INVALID => end = MaxLvl
    OBVIOUS
  <1>5. susplvl[c] # INVALID => end = susplvl[c]
    OBVIOUS
  <1> HIDE DEF end
  <1>6. /\ pc' \in [CPUs -> Labels] /\ call' \in [CPUs -> CallType]
        /\ \A e \in CPUs \ {c} : pc'[e] = pc[e] /\ call'[e] = call[e]
        /\ pc'[c] = IF end = 0 THEN "locked" ELSE "lock"
        /\ call'[c].kind = "boot" /\ call'[c].end = end
        /\ call'[c].lvl = IF end = 0 THEN 0 ELSE 1
    BY <1>1, <1>2, <1>3, BeginStep, IdleTyped DEF Kinds
  <1>7. /\ powered' \in [CPUs -> BOOLEAN] /\ powered'[c] = FALSE
        /\ \A e \in CPUs \ {c} : powered'[e] = powered[e]
    BY <1>1, <1>2
  <1>8. /\ TypeOK' /\ \A e \in CPUs \ {c} : Same(e)
        /\ MonoInv' /\ CoordInv'
    BY <1>1, <1>2, <1>6, <1>7
       DEF TypeOK, CallType, Same, MonoInv, CoordInv, Shallow
  <1>9. CallInv(c)'
    BY <1>1, <1>3, <1>6 DEF CallInv, OnLabels, Locking
  <1>10. /\ ~Awake(c)' /\ ~Retained(c)' /\ ~SwitchedOff(c)' /\ Boots(c)'
         /\ pc'[c] \notin OnLabels /\ pc[c] \notin OnLabels
    BY <1>2, <1>6 DEF Awake, Executing, Retained, SwitchedOff, Boots, OnLabels,
                      Entering
  <1>11. CASE pc[c] = "asleep"
    <2>1. Suspended(c) /\ ~SwitchedOff(c) /\ ~ComesUp(c)
      BY <1>11 DEF Suspended, SwitchedOff, ComesUp, Boots
    <2>2. spin[c] = None /\ aff[c] = "ON" /\ mem[c] = "ON"
      BY <2>1, LiveFacts
    <2>3. /\ susplvl[c] # INVALID /\ RunAbove(c, susplvl[c])
          /\ ctx[c] /\ local[c] = OFF
      BY <1>1, <2>1 DEF PhaseInv
    <2>4. Suspended(c)' /\ ~ComesUp(c)'
      BY <1>2, <1>10, <2>3 DEF Suspended, ComesUp
    <2>5. PhaseInv(c)'
      BY <1>2, <1>5, <1>6, <1>10, <2>3, <2>4 DEF PhaseInv, RunAbove
    <2>6. Cpu(c)'
      BY <1>2, <1>7, <1>9, <2>2, <2>5 DEF Cpu, LiveInv
    <2>7. \A x \in CPUs : spin[c] # x
      BY <2>2, PsciAssumption
    <2> QED BY <1>2, <1>8, <1>10, <2>6, <2>7, OwnStep
  <1>12. CASE pc[c] = "down" /\ powered[c]
    <2>1. SwitchedOff(c) /\ ~Suspended(c)
      BY <1>12 DEF SwitchedOff, Suspended, Boots
    <2>2. /\ susplvl[c] = INVALID /\ aff[c] = "ON_PENDING"
          /\ mem[c] = "ON_PENDING" /\ (ctx[c] \/ spin[c] # None)
      BY <1>1, <1>12, <2>1 DEF PhaseInv
    <2>3. ComesUp(c)'
      BY <1>2, <1>10, <2>2 DEF ComesUp
    <2>4. ~Suspended(c)'
      BY <1>2, <1>6, <2>2 DEF Suspended
    <2>5. PhaseInv(c)'
      BY <1>2, <1>4, <1>6, <1>7, <1>10, <2>2, <2>3, <2>4 DEF PhaseInv
    <2>6. Cpu(c)'
      BY <1>9, <2>3, <2>5 DEF Cpu, LiveInv
    <2>7. ASSUME NEW x \in CPUs, spin[c] = x PROVE SwitchInv(x, c)'
      <3>1. SwitchInv(x, c)
        BY <2>7 DEF IInv, SpinInv
      <3>2. x # c
        BY <1>10, <3>1 DEF SwitchInv
      <3>3. pc'[x] = pc[x] /\ call'[x] = call[x]
        BY <1>6, <3>2
      <3>4. pc[x] = "on_ctx"
        BY <1>12, <3>1 DEF SwitchInv
      <3> QED BY <2>3, <3>1, <3>3, <3>4 DEF SwitchInv, OnLabels
    <2> QED BY <1>2, <1>8, <1>10, <2>6, <2>7, OwnStep
  <1> QED BY <1>2, <1>11, <1>12 DEF Entering

-----------------------------------------------------------------------------
(* CPU_ON: one CPU acts on the state of another.                           *)

\* The CPU that c switches on is another one, and down or coming up.
LEMMA TargetFacts ==
  ASSUME IInv, NEW c \in CPUs, pc[c] \in OnLabels
  PROVE  LET t == call[c].target
         IN  /\ t \in CPUs /\ t # c /\ spin[t] = c /\ SwitchInv(c, t)
             /\ pc[t] \notin OnLabels
             /\ SwitchedOff(t) \/ ComesUp(t)
             /\ Awake(c) /\ Cpu(t)
  <1> DEFINE t == call[c].target
  <1>1. Awake(c) /\ t \in CPUs
    BY DEF IInv, Cpu, CallInv, OnLabels, Awake, Executing
  <1>2. spin[t] = c /\ SwitchInv(c, t) /\ Cpu(t)
    BY <1>1 DEF IInv, SpinInv
  <1>3. SwitchedOff(t) \/ ComesUp(t)
    BY <1>2 DEF SwitchInv, Cpu, LiveInv
  <1>4. ~SwitchedOff(c) /\ ~ComesUp(c)
    BY DEF SwitchedOff, ComesUp, Boots, OnLabels
  <1>5. t # c
    BY <1>3, <1>4
  <1>6. pc[t] \notin OnLabels
    BY <1>3 DEF SwitchedOff, ComesUp, Boots, OnLabels
  <1> QED BY <1>1, <1>2, <1>3, <1>5, <1>6

\* A step of c on the CPU t that it switches on.
LEMMA TargetStep ==
  ASSUME IInv, NEW c \in CPUs, NEW t \in CPUs, t # c,
         \A e \in CPUs \ {c, t} : Same(e), Awake(c), pc[t] \notin OnLabels,
         UNCHANGED <<local, susplvl, req, node, owner>>,
         pc' \in [CPUs -> Labels], call' \in [CPUs -> CallType], TypeOK',
         aff'[c] = aff[c], mem'[c] = mem[c], spin'[c] = spin[c],
         powered'[c] = powered[c], pc'[t] = pc[t],
         Awake(c)', CallInv(c)', Cpu(t)',
         spin[t] \in {c, None}, spin'[t] \in {c, None},
         pc[c] \in OnLabels => call[c].target = t,
         pc'[c] \in OnLabels => call'[c].target = t /\ spin'[t] = c,
         spin'[t] = c => SwitchInv(c, t)'
  PROVE  IInv'
  <1>1. /\ aff[c] = "ON" /\ mem[c] = "ON" /\ spin[c] = None
        /\ powered[c] = FALSE /\ susplvl[c] = INVALID /\ RunAbove(c, 0)
    BY AwakeFacts
  <1>2. Cpu(c)'
    BY <1>1, AwakeStays DEF RunAbove
  <1>3. \A e \in CPUs : Cpu(e)'
    BY <1>2, SameCpu DEF IInv
  <1>4. MonoInv' /\ CoordInv'
    BY DEF IInv, MonoInv, CoordInv, Shallow
  <1>5. None \notin CPUs
    BY PsciAssumption
  <1>6. ASSUME NEW x \in CPUs, NEW u \in CPUs, spin'[u] = x
        PROVE  SwitchInv(x, u)'
    <2>1. CASE u = t
      BY <1>5, <1>6, <2>1
    <2>2. CASE u # t
      <3>1. u # c
        BY <1>1, <1>5, <1>6
      <3>2. Same(u) /\ SwitchInv(x, u)
        BY <1>6, <2>2, <3>1 DEF Same, IInv, SpinInv
      <3>3. x # c /\ x # t
        BY <2>2, <3>2 DEF SwitchInv
      <3>4. Same(x)
        BY <3>3
      <3> QED BY <3>2, <3>4 DEF Same, SwitchInv, SwitchedOff, ComesUp, Boots
    <2> QED BY <2>1, <2>2
  <1>7. ASSUME NEW x \in CPUs, NEW u \in CPUs,
               pc'[x] \in OnLabels, call'[x].target = u
        PROVE  spin'[u] = x
    <2>1. CASE x = c
      BY <1>7, <2>1
    <2>2. CASE x # c
      <3>1. Same(x)
        BY <1>7, <2>2
      <3>2. spin[u] = x
        BY <1>7, <3>1 DEF Same, IInv, SpinInv
      <3>3. u # t /\ u # c
        BY <1>1, <1>5, <2>2, <3>2
      <3> QED BY <3>2, <3>3 DEF Same
    <2> QED BY <2>1, <2>2
  <1>8. SpinInv'
    BY <1>6, <1>7 DEF SpinInv
  <1> QED BY <1>3, <1>4, <1>8 DEF IInv

\* What has to be shown of a CPU that stays down.
LEMMA StaysOff ==
  ASSUME NEW t \in CPUs, Cpu(t), SwitchedOff(t), pc'[t] = pc[t],
         susplvl'[t] = susplvl[t],
         aff'[t] # "ON", mem'[t] # "ON",
         powered'[t] => /\ aff'[t] = "ON_PENDING" /\ mem'[t] = "ON_PENDING"
                        /\ ctx'[t] \/ spin'[t] # None,
         spin'[t] = None => aff'[t] = mem'[t]
  PROVE  Cpu(t)'
  <1>1. SwitchedOff(t)'
    BY DEF SwitchedOff
  <1>2. /\ ~Awake(t)' /\ ~Retained(t)' /\ ~Suspended(t)' /\ ~ComesUp(t)'
        /\ ~Suspended(t)
    BY <1>1 DEF SwitchedOff, Awake, Executing, Retained, Suspended, ComesUp,
                Boots
  <1>3. CallInv(t)'
    BY <1>1 DEF SwitchedOff, CallInv, OnLabels, Locking
  <1>4. susplvl'[t] = INVALID
    BY <1>2 DEF Cpu, PhaseInv
  <1> QED BY <1>1, <1>2, <1>3, <1>4 DEF Cpu, LiveInv, PhaseInv

\* The spin lock is taken, or CPU_ON returns.
LEMMA OnLockKeeps ==
  ASSUME IInv, NEW c \in CPUs, on_lock(c)
  PROVE  IInv'
  <1> USE DEF psciVars, cpuVars, lockVars
  <1>0. PICK t \in CPUs : t = call[c].target
    BY DEF on_lock, IInv, Cpu, CallInv
  <1>1. /\ TypeOK /\ CallInv(c) /\ pc[c] = "on_lock" /\ spin[t] = None
        /\ pc \in [CPUs -> Labels] /\ call \in [CPUs -> CallType]
        /\ local \in [CPUs -> States] /\ spin \in [CPUs -> CPUs \cup {None}]
        /\ UNCHANGED <<aff, mem, local, susplvl, req, node, owner, ctx, powered>>
    BY <1>0 DEF IInv, Cpu, TypeOK, CallType, on_lock
  <1>2. t \in CPUs /\ Awake(c)
    BY <1>0, <1>1 DEF CallInv, Awake, Executing
  <1>3. CASE aff[t] # "OFF"
    <2>1. Return(c, "run") /\ spin' = spin
      BY <1>0, <1>3 DEF on_lock
    <2>2. /\ pc' \in [CPUs -> Labels] /\ call' \in [CPUs -> CallType]
          /\ \A e \in CPUs \ {c} : pc'[e] = pc[e] /\ call'[e] = call[e]
          /\ pc'[c] = "run"
      BY <1>1, <2>1, ReturnStep DEF Labels
    <2>3. Awake(c)' /\ CallInv(c)'
      BY <2>2 DEF Awake, Executing, CallInv, OnLabels, Locking
    <2> QED BY <1>1, <1>2, <2>1, <2>2, <2>3, AwakeStep DEF OnLabels
  <1>4. CASE aff[t] = "OFF"
    <2>1. /\ spin' = [spin EXCEPT ![t] = c]
          /\ pc' = [pc EXCEPT ![c] = "on_set"] /\ call' = call
      BY <1>0, <1>4 DEF on_lock, Goto
    <2>2. aff[c] = "ON"
      BY <1>2, AwakeFacts
    <2>3. t # c
      BY <1>4, <2>2
    <2>4. Cpu(t) /\ SwitchedOff(t)
      BY <1>2, <1>4 DEF IInv, Cpu, LiveInv, PhaseInv
    <2>5. aff[t] = "OFF" /\ mem[t] = "OFF" /\ ~powered[t]
      BY <1>1, <1>4, <2>4 DEF Cpu, PhaseInv
    <2>6. /\ spin' \in [CPUs -> CPUs \cup {None}] /\ spin'[t] = c
          /\ \A e \in CPUs \ {t} : spin'[e] = spin[e]
          /\ pc' \in [CPUs -> Labels] /\ pc'[c] = "on_set"
          /\ \A e \in CPUs \ {c} : pc'[e] = pc[e]
      BY <1>1, <1>2, <2>1 DEF Labels
    <2>7. TypeOK' /\ \A e \in CPUs \ {c, t} : Same(e)
      BY <1>1, <2>1, <2>6 DEF TypeOK, Same
    <2>8. Cpu(t)'
      BY <1>0, <1>1, <1>2, <2>3, <2>4, <2>5, <2>6, StaysOff
    <2>9. Awake(c)' /\ CallInv(c)'
      BY <1>0, <2>1, <2>6 DEF Awake, Executing, CallInv, OnLabels, Locking
    <2>10. SwitchedOff(t)'
      BY <2>3, <2>4, <2>6 DEF SwitchedOff
    <2>11. SwitchInv(c, t)'
      BY <1>0, <1>1, <2>1, <2>5, <2>6, <2>10 DEF SwitchInv, OnLabels
    <2>12. pc[c] \notin OnLabels /\ pc[t] \notin OnLabels
      BY <1>1, <2>4 DEF OnLabels, SwitchedOff
    <2>13. call'[c].target = t
      BY <1>0, <2>1
    <2> QED BY <1>1, <1>2, <2>1, <2>3, <2>6, <2>7, <2>8, <2>9, <2>11, <2>12,
               <2>13, TargetStep
  <1> QED BY <1>3, <1>4

\* The state of the target is stored in the caches or flushed to memory.
LEMMA AffKeeps ==
  ASSUME IInv, NEW c \in CPUs,
         \/ on_set(c) \/ on_again(c) \/ pwr_domain_on_fails(c)
         \/ on_flush(c) \/ on_reflush(c)
  PROVE  IInv'
  <1> USE DEF psciVars, cpuVars, lockVars
  <1>0. PICK t \in CPUs : t = call[c].target
    BY TargetFacts DEF OnLabels, on_set, on_again, on_flush, on_reflush,
                       pwr_domain_on_fails, Store
  <1>1. /\ TypeOK /\ pc[c] \in OnLabels \ {"on_ctx"}
        /\ pc \in [CPUs -> Labels] /\ call \in [CPUs -> CallType]
        /\ aff \in [CPUs -> {"OFF", "ON_PENDING", "ON"}]
        /\ mem \in [CPUs -> {"OFF", "ON_PENDING", "ON"}]
        /\ UNCHANGED <<local, susplvl, req, node, owner, spin, ctx, powered,
                       call>>
    BY DEF IInv, TypeOK, CallType, OnLabels, on_set, on_again, on_flush,
           on_reflush, pwr_domain_on_fails, Store
  <1>2. /\ t # c /\ spin[t] = c /\ SwitchInv(c, t)
        /\ pc[t] \notin OnLabels /\ Awake(c) /\ Cpu(t)
    BY <1>0, <1>1, TargetFacts
  <1>3. SwitchedOff(t) /\ ~powered[t] /\ aff[t] # "ON" /\ mem[t] # "ON"
    BY <1>1, <1>2 DEF SwitchInv, Cpu, PhaseInv
  <1>4. None # c
    BY PsciAssumption
  <1>5. ASSUME pc' \in [CPUs -> Labels], \A e \in CPUs \ {c} : pc'[e] = pc[e],
               pc'[c] \in OnLabels \ {"on_ctx", "on_set"},
               aff' \in [CPUs -> {"OFF", "ON_PENDING", "ON"}],
               mem' \in [CPUs -> {"OFF", "ON_PENDING", "ON"}],
               \A e \in CPUs \ {t} : aff'[e] = aff[e] /\ mem'[e] = mem[e],
               aff'[t] # "ON", mem'[t] # "ON",
               pc'[c] = "on_flush" => aff'[t] = "ON_PENDING",
               pc'[c] \in {"on_again", "on_reflush"} => pc[t] = "down",
               pc'[c] = "on_reflush" => aff'[t] = "ON_PENDING",
               pc'[c] = "on_power" =>
                 aff'[t] = "ON_PENDING" /\ mem'[t] = "ON_PENDING"
        PROVE  IInv'
    <2>1. TypeOK' /\ \A e \in CPUs \ {c, t} : Same(e)
      BY <1>1, <1>5 DEF TypeOK, Same
    <2>2. Cpu(t)'
      BY <1>1, <1>2, <1>3, <1>4, <1>5, StaysOff
    <2>3. SwitchedOff(t)' /\ ~powered'[t] /\ pc'[t] = pc[t]
      BY <1>1, <1>2, <1>3, <1>5 DEF SwitchedOff
    <2>4. call'[c].target = t
      BY <1>0, <1>1
    <2>5. Awake(c)' /\ CallInv(c)'
      BY <1>2, <1>5, <2>4
         DEF Awake, Executing, CallInv, OnLabels, Locking
    <2>6. SwitchInv(c, t)'
      BY <1>5, <2>3, <2>4 DEF SwitchInv, OnLabels
    <2> QED BY <1>0, <1>1, <1>2, <1>5, <2>1, <2>2, <2>4, <2>5, <2>6,
               TargetStep
  <1>6. CASE on_set(c)
    <2>1. /\ pc' = [pc EXCEPT ![c] = "on_flush"] /\ mem' = mem
          /\ aff' = [aff EXCEPT ![t] = "ON_PENDING"]
      BY <1>0, <1>6 DEF on_set, Store, Goto
    <2>2. pc'[c] = "on_flush" /\ aff'[t] = "ON_PENDING"
      BY <1>1, <2>1
    <2> QED BY <1>1, <1>3, <1>5, <2>1, <2>2 DEF OnLabels, Labels
  <1>7. CASE on_again(c)
    <2>1. /\ pc' = [pc EXCEPT ![c] = "on_reflush"] /\ mem' = mem
          /\ aff' = [aff EXCEPT ![t] = "ON_PENDING"] /\ pc[c] = "on_again"
      BY <1>0, <1>7 DEF on_again, Store, Goto
    <2>2. pc'[c] = "on_reflush" /\ aff'[t] = "ON_PENDING" /\ pc[t] = "down"
      BY <1>1, <1>2, <2>1 DEF SwitchInv
    <2> QED BY <1>1, <1>3, <1>5, <2>1, <2>2 DEF OnLabels, Labels
  <1>8. CASE pwr_domain_on_fails(c)
    <2>1. /\ pc' = [pc EXCEPT ![c] = "on_undo"] /\ mem' = mem
          /\ aff' = [aff EXCEPT ![t] = "OFF"]
      BY <1>0, <1>8 DEF pwr_domain_on_fails, Store, Goto
    <2>2. pc'[c] = "on_undo" /\ aff'[t] = "OFF"
      BY <1>1, <2>1
    <2> QED BY <1>1, <1>3, <1>5, <2>1, <2>2 DEF OnLabels, Labels
  <1>9. CASE on_flush(c)
    <2>1. /\ mem' = [mem EXCEPT ![t] = aff[t]] /\ aff' = aff
          /\ pc' = [pc EXCEPT ![c] = IF aff[t] = "ON_PENDING"
                                     THEN "on_power" ELSE "on_again"]
          /\ pc[c] = "on_flush"
      BY <1>0, <1>9 DEF on_flush, Goto
    <2>2. aff[t] = "ON_PENDING" \/ pc[t] = "down"
      BY <1>2, <2>1 DEF SwitchInv
    <2>3. /\ pc'[c] = IF aff[t] = "ON_PENDING" THEN "on_power" ELSE "on_again"
          /\ mem'[t] = aff[t]
      BY <1>1, <2>1
    <2> QED BY <1>1, <1>3, <1>5, <2>1, <2>2, <2>3 DEF OnLabels, Labels
  <1>10. CASE on_reflush(c)
    <2>1. /\ mem' = [mem EXCEPT ![t] = aff[t]] /\ aff' = aff
          /\ pc' = [pc EXCEPT ![c] = "on_power"] /\ pc[c] = "on_reflush"
      BY <1>0, <1>10 DEF on_reflush, Goto
    <2>2. aff[t] = "ON_PENDING" /\ pc'[c] = "on_power" /\ mem'[t] = aff[t]
      BY <1>1, <1>2, <2>1 DEF SwitchInv
    <2> QED BY <1>1, <1>3, <1>5, <2>1, <2>2 DEF OnLabels, Labels
  <1> QED BY <1>6, <1>7, <1>8, <1>9, <1>10

\* The target is switched on.
LEMMA PowerKeeps ==
  ASSUME IInv, NEW c \in CPUs, pwr_domain_on(c)
  PROVE  IInv'
  <1> USE DEF psciVars, cpuVars, lockVars
  <1>0. PICK t \in CPUs : t = call[c].target
    BY TargetFacts DEF OnLabels, pwr_domain_on
  <1>1. /\ TypeOK /\ pc[c] = "on_power" /\ pc[c] \in OnLabels
        /\ pc \in [CPUs -> Labels] /\ call \in [CPUs -> CallType]
        /\ powered \in [CPUs -> BOOLEAN]
        /\ UNCHANGED <<aff, mem, local, susplvl, req, node, owner, spin, ctx,
                       call>>
        /\ pc' = [pc EXCEPT ![c] = "on_ctx"]
        /\ powered' = [powered EXCEPT ![t] = TRUE]
    BY <1>0 DEF IInv, TypeOK, CallType, OnLabels, pwr_domain_on, Goto
  <1>2. /\ t # c /\ spin[t] = c /\ SwitchInv(c, t)
        /\ pc[t] \notin OnLabels /\ Awake(c) /\ Cpu(t)
    BY <1>0, <1>1, TargetFacts
  <1>3. SwitchedOff(t) /\ aff[t] = "ON_PENDING" /\ mem[t] = "ON_PENDING"
    BY <1>1, <1>2 DEF SwitchInv
  <1>4. None # c
    BY PsciAssumption
  <1>5. /\ pc' \in [CPUs -> Labels] /\ pc'[c] = "on_ctx"
        /\ \A e \in CPUs \ {c} : pc'[e] = pc[e]
        /\ powered' \in [CPUs -> BOOLEAN] /\ powered'[t] = TRUE
        /\ \A e \in CPUs \ {t} : powered'[e] = powered[e]
    BY <1>1, <1>2 DEF Labels
  <1>6. TypeOK' /\ \A e \in CPUs \ {c, t} : Same(e)
    BY <1>1, <1>5 DEF TypeOK, Same
  <1>7. Cpu(t)'
    BY <1>0, <1>1, <1>2, <1>3, <1>4, <1>5, StaysOff
  <1>8. call'[c].target = t
    BY <1>0, <1>1
  <1>9. Awake(c)' /\ CallInv(c)'
    BY <1>2, <1>5, <1>8 DEF Awake, Executing, CallInv, OnLabels, Locking
  <1>10. SwitchInv(c, t)'
    BY <1>5, <1>8 DEF SwitchInv, OnLabels
  <1> QED BY <1>0, <1>1, <1>2, <1>5, <1>6, <1>7, <1>8, <1>9, <1>10, TargetStep

\* The two ends of CPU_ON give the spin lock back.
LEMMA OnReturnsKeeps ==
  ASSUME IInv, NEW c \in CPUs, on_undo(c) \/ on_ctx(c)
  PROVE  IInv'
  <1> USE DEF psciVars, cpuVars, lockVars
  <1>0. PICK t \in CPUs : t = call[c].target
    BY TargetFacts DEF OnLabels, on_undo, on_ctx
  <1>1. /\ TypeOK /\ pc[c] \in {"on_undo", "on_ctx"} /\ pc[c] \in OnLabels
        /\ mem \in [CPUs -> {"OFF", "ON_PENDING", "ON"}]
        /\ ctx \in [CPUs -> BOOLEAN] /\ spin \in [CPUs -> CPUs \cup {None}]
        /\ aff \in [CPUs -> {"OFF", "ON_PENDING", "ON"}]
        /\ UNCHANGED <<aff, local, susplvl, req, node, owner, powered>>
        /\ spin' = [spin EXCEPT ![t] = None] /\ Return(c, "run")
    BY <1>0 DEF IInv, TypeOK, OnLabels, on_undo, on_ctx
  <1>2. /\ t # c /\ spin[t] = c /\ SwitchInv(c, t)
        /\ pc[t] \notin OnLabels /\ Awake(c) /\ Cpu(t)
    BY <1>0, <1>1, TargetFacts
  <1>3. PICK m \in {"OFF", "ON_PENDING", "ON"}, b \in BOOLEAN :
          /\ mem' = [mem EXCEPT ![t] = m] /\ ctx' = [ctx EXCEPT ![t] = b]
          /\ \/ pc[c] = "on_undo" /\ m = aff[t]
             \/ pc[c] = "on_ctx" /\ b /\ m = mem[t]
    <2>1. CASE on_undo(c)
      <3>1. /\ pc[c] = "on_undo" /\ mem' = [mem EXCEPT ![t] = aff[t]]
            /\ ctx' = [ctx EXCEPT ![t] = ctx[t]]
            /\ aff[t] \in {"OFF", "ON_PENDING", "ON"} /\ ctx[t] \in BOOLEAN
        BY <1>0, <1>1, <1>2, <2>1 DEF on_undo
      <3> QED BY <3>1
    <2>2. CASE on_ctx(c)
      <3>1. /\ pc[c] = "on_ctx" /\ mem' = [mem EXCEPT ![t] = mem[t]]
            /\ ctx' = [ctx EXCEPT ![t] = TRUE]
            /\ mem[t] \in {"OFF", "ON_PENDING", "ON"}
        BY <1>0, <1>1, <1>2, <2>2 DEF on_ctx
      <3> QED BY <3>1
    <2> QED BY <2>1, <2>2
  <1>4. /\ pc' \in [CPUs -> Labels] /\ call' \in [CPUs -> CallType]
        /\ \A e \in CPUs \ {c} : pc'[e] = pc[e] /\ call'[e] = call[e]
        /\ pc'[c] = "run"
    BY <1>1, ReturnStep DEF Labels
  <1>5. /\ mem' \in [CPUs -> {"OFF", "ON_PENDING", "ON"}]
        /\ ctx' \in [CPUs -> BOOLEAN] /\ spin' \in [CPUs -> CPUs \cup {None}]
        /\ mem'[t] = m /\ ctx'[t] = b /\ spin'[t] = None
        /\ \A e \in CPUs \ {t} :
             mem'[e] = mem[e] /\ ctx'[e] = ctx[e] /\ spin'[e] = spin[e]
    BY <1>1, <1>2, <1>3
  <1>6. TypeOK' /\ \A e \in CPUs \ {c, t} : Same(e)
    BY <1>1, <1>4, <1>5 DEF TypeOK, CallType, Same
  <1>7. Awake(c)' /\ CallInv(c)'
    BY <1>4 DEF Awake, Executing, CallInv, OnLabels, Locking
  <1>8. PhaseInv(t) /\ LiveInv(t) /\ CallInv(t)
    BY <1>2 DEF Cpu
  <1>9. Cpu(t)'
    <2>1. CASE pc[c] = "on_undo"
      <3>1. SwitchedOff(t) /\ ~powered[t]
        BY <1>2, <2>1 DEF SwitchInv
      <3>2. aff[t] # "ON" /\ m = aff[t]
        BY <1>3, <1>8, <2>1, <3>1 DEF PhaseInv
      <3> QED BY <1>1, <1>2, <1>4, <1>5, <3>1, <3>2, StaysOff
    <2>2. CASE pc[c] = "on_ctx" /\ SwitchedOff(t)
      <3>1. powered[t]
        BY <1>2, <2>2 DEF SwitchInv, SwitchedOff, ComesUp, Boots
      <3>2. aff[t] = "ON_PENDING" /\ mem[t] = "ON_PENDING"
        BY <1>8, <2>2, <3>1 DEF PhaseInv
      <3>3. b /\ m = mem[t]
        BY <1>3, <2>2
      <3>4. /\ ctx'[t] /\ aff'[t] = "ON_PENDING" /\ mem'[t] = "ON_PENDING"
            /\ pc'[t] = pc[t] /\ susplvl'[t] = susplvl[t]
        BY <1>1, <1>2, <1>4, <1>5, <3>2, <3>3
      <3> QED BY <1>2, <2>2, <3>4, StaysOff
    <2>3. CASE pc[c] = "on_ctx" /\ ~SwitchedOff(t)
      <3>1. ComesUp(t)
        BY <1>0, <1>1, <1>2, <2>3, TargetFacts
      <3>2. /\ pc'[t] = pc[t] /\ call'[t] = call[t] /\ aff'[t] = aff[t]
            /\ mem'[t] = mem[t] /\ ctx'[t] /\ powered'[t] = powered[t]
            /\ susplvl'[t] = susplvl[t] /\ req'[t] = req[t]
            /\ local'[t] = local[t]
        BY <1>1, <1>2, <1>3, <1>4, <1>5, <2>3
      <3>3. /\ ComesUp(t)' /\ ~Awake(t)' /\ ~Retained(t)' /\ ~Suspended(t)'
            /\ ~SwitchedOff(t)' /\ ~Suspended(t)
        BY <3>1, <3>2 DEF ComesUp, Boots, Awake, Executing, Retained,
                          Suspended, SwitchedOff
      <3>4. CallInv(t)'
        BY <1>8, <3>2 DEF CallInv
      <3>5. PhaseInv(t)'
        BY <1>8, <3>1, <3>2, <3>3 DEF PhaseInv
      <3> QED BY <3>3, <3>4, <3>5 DEF Cpu, LiveInv
    <2> QED BY <1>1, <2>1, <2>2, <2>3
  <1>10. pc'[c] \notin OnLabels /\ None # c
    BY <1>4, PsciAssumption DEF OnLabels
  <1>11. call[c].target = t
    BY <1>0
  <1> QED BY <1>1, <1>2, <1>4, <1>5, <1>6, <1>7, <1>9, <1>10, <1>11, TargetStep

-----------------------------------------------------------------------------
(* The theorems.                                                           *)

\* After psci_setup the primary CPU runs and the others are down.
LEMMA InitIInv == Init => IInv
  <1> SUFFICES ASSUME Init PROVE IInv
    OBVIOUS
  <1>1. /\ MaxLvl \in Nat \ {0} /\ Primary \in CPUs /\ None \notin CPUs
        /\ Anc \in [CPUs -> [Levels -> Domains]]
    BY PsciAssumption
  <1>2. /\ pc \in [CPUs -> Labels] /\ call \in [CPUs -> CallType]
        /\ \A c \in CPUs : pc[c] = IF c = Primary THEN "run" ELSE "down"
    BY <1>1, IdleTyped DEF Init, Labels
  <1>3. /\ {aff, mem} \subseteq [CPUs -> {"OFF", "ON_PENDING", "ON"}]
        /\ local \in [CPUs -> States]
        /\ susplvl \in [CPUs -> 0..MaxLvl \cup {INVALID}]
        /\ req \in [CPUs -> [Levels -> States]]
        /\ node \in [Domains -> States]
        /\ owner \in [Domains -> CPUs \cup {None}]
        /\ spin \in [CPUs -> CPUs \cup {None}]
        /\ ctx \in [CPUs -> BOOLEAN]
        /\ powered \in [CPUs -> BOOLEAN]
    BY DEF Init, States
  <1>4. TypeOK
    BY <1>2, <1>3 DEF TypeOK, CallType
  <1>5. ASSUME NEW c \in CPUs PROVE Cpu(c)
    <2>1. CallInv(c)
      BY <1>2 DEF CallInv, OnLabels, Locking
    <2>2. /\ ~Retained(c) /\ ~Suspended(c) /\ ~ComesUp(c)
          /\ Awake(c) => c = Primary
          /\ SwitchedOff(c) <=> c # Primary
      BY <1>2 DEF Retained, Suspended, ComesUp, Boots, Awake, Executing,
                  SwitchedOff
    <2>3. LiveInv(c)
      BY <2>2 DEF LiveInv, Init
    <2>4. c = Primary => RunAbove(c, 0)
      BY DEF Init, RunAbove
    <2>5. PhaseInv(c)
      BY <2>2, <2>4 DEF PhaseInv, Init
    <2> QED BY <2>1, <2>3, <2>5 DEF Cpu
  <1>6. SpinInv
    BY <1>1, <1>2 DEF SpinInv, Init, OnLabels
  <1>7. ASSUME NEW c \in CPUs, NEW l \in Levels
        PROVE  req[c][l] = IF c = Primary THEN RUN ELSE OFF
    BY DEF Init
  <1>8. MonoInv
    BY <1>7 DEF MonoInv, RUN, OFF
  <1>9. ASSUME NEW c \in CPUs, NEW l \in Levels PROVE Shallow(c, l)
    <2> DEFINE d == Anc[c][l]
    <2>1. d \in Domains /\ c \in Under(d) /\ Under(d) \subseteq CPUs
      BY <1>1 DEF Under
    <2>2. node[d] = IF Primary \in Under(d) THEN RUN ELSE OFF
      BY <2>1 DEF Init
    <2> HIDE DEF d
    <2>3. CASE Primary \in Under(d)
      BY <1>7, <2>1, <2>2, <2>3 DEF d, Shallow, RUN, OFF
    <2>4. CASE Primary \notin Under(d)
      BY <1>7, <2>1, <2>2, <2>4 DEF d, Shallow, RUN, OFF
    <2> QED BY <2>3, <2>4
  <1>10. CoordInv
    BY <1>9 DEF CoordInv
  <1> QED BY <1>4, <1>5, <1>6, <1>8, <1>10 DEF IInv

\* Every step keeps the invariant.
LEMMA NextIInv ==
  ASSUME IInv, [Next]_vars
  PROVE  IInv'
  <1>1. CASE Next
    <2>1. PICK c \in CPUs : Request(c) \/ Progress(c)
      BY <1>1 DEF Next
    <2>2. CASE Request(c)
      BY <2>2, CallsKeep, WfiKeeps, WarmbootKeeps DEF Request
    <2>3. CASE Progress(c)
      BY <2>3, OnLockKeeps, AffKeeps, PowerKeeps, OnReturnsKeeps, NoChangeKeep,
         AcquireKeeps, ReleaseKeeps, CoordinationKeeps, OffKeeps,
         FinishersKeep, WarmbootKeeps DEF Progress
    <2> QED BY <2>1, <2>2, <2>3
  <1>2. CASE UNCHANGED vars
    <2> USE DEF vars, psciVars, cpuVars, lockVars
    <2>1. TypeOK' /\ MonoInv' /\ CoordInv'
      BY <1>2 DEF IInv, TypeOK, MonoInv, CoordInv, Shallow
    <2>2. \A e \in CPUs : Same(e)
      BY <1>2 DEF Same
    <2>3. \A e \in CPUs : Cpu(e)'
      BY <2>2, SameCpu DEF IInv
    <2>4. SpinInv'
      BY <1>2 DEF IInv, SpinInv, SwitchInv, SwitchedOff, ComesUp, Boots
    <2> QED BY <2>1, <2>3, <2>4 DEF IInv
  <1> QED BY <1>1, <1>2

\* The inductive invariant.
THEOREM PsciInvariant == Spec => []IInv
  BY InitIInv, NextIInv, PTL DEF Spec

\* Every variable of the power state coordination keeps its type: no lock
\* loop runs past end_pwrlvl, no level or state leaves its range.
THEOREM TypeCorrect == Spec => []TypeOK
  <1>1. IInv => TypeOK
    BY DEF IInv
  <1> QED BY <1>1, PsciInvariant, PTL

\* psci_warmboot_entrypoint never finds the CPU OFF in memory, whatever the race of
\* its CPU_OFF with the CPU_ON of another CPU.
THEOREM NoPanic == Spec => []NeverPanics
  <1>1. ASSUME IInv, NEW c \in CPUs, Entering(c)
        PROVE  mem[c] # "OFF"
    <2>1. Cpu(c)
      BY <1>1 DEF IInv
    <2>2. CASE pc[c] = "asleep"
      <3>1. mem[c] = "ON"
        BY <1>1, <2>2, LiveFacts DEF SwitchedOff, ComesUp, Boots
      <3> QED BY <3>1
    <2>3. CASE pc[c] = "down" /\ powered[c]
      BY <2>1, <2>3 DEF Cpu, PhaseInv, SwitchedOff
    <2> QED BY <1>1, <2>2, <2>3 DEF Entering
  <1>2. IInv => NeverPanics
    BY <1>1 DEF NeverPanics
  <1> QED BY <1>2, PsciInvariant, PTL

\* A CPU never executes in a domain that another CPU's request has taken out
\* of RUN: psci_do_state_coordination respects every request.
THEOREM ExecutesPowered == Spec => []RunsInPoweredDomains
  <1>1. ASSUME IInv, NEW c \in CPUs, Executing(c)
        PROVE  aff[c] = "ON" /\ \A l \in Levels : node[Anc[c][l]] = RUN
    <2>1. Awake(c)
      BY <1>1 DEF Awake
    <2>2. aff[c] = "ON" /\ RunAbove(c, 0)
      BY <1>1, <2>1, AwakeFacts
    <2>3. ASSUME NEW l \in Levels PROVE node[Anc[c][l]] = RUN
      <3>1. l > 0 /\ Anc[c][l] \in Domains /\ c \in Under(Anc[c][l])
        BY PsciAssumption DEF Levels, Under
      <3>2. req[c][l] = RUN
        BY <2>2, <3>1 DEF RunAbove
      <3>3. node[Anc[c][l]] <= req[c][l]
        BY <1>1, <3>1 DEF IInv, CoordInv, Shallow
      <3>4. node[Anc[c][l]] \in States
        BY <1>1, <3>1 DEF IInv, TypeOK
      <3> QED BY <3>2, <3>3, <3>4 DEF States, RUN, RETN, OFF
    <2> QED BY <2>2, <2>3
  <1>2. IInv => RunsInPoweredDomains
    BY <1>1 DEF RunsInPoweredDomains
  <1> QED BY <1>2, PsciInvariant, PTL

\* Every domain is in the shallowest state its CPUs have asked for, though
\* the coordination stops at the first domain that stays in RUN.  The proof
\* gives more than the property: it also holds while the domain is locked.
THEOREM DomainsCoordinated == Spec => []ShallowestWins
  <1>1. IInv => ShallowestWins
    BY DEF IInv, CoordInv, Shallow, ShallowestWins
  <1> QED BY <1>1, PsciInvariant, PTL

\* The warm boot ends with a context to return to and with the assertions of
\* psci_cpu_on_finish and psci_cpu_suspend_finish.
THEOREM BootsWithContext == Spec => []EntersWithContext
  <1>1. ASSUME IInv, NEW c \in CPUs, pc[c] = "locked", call[c].kind = "boot",
               spin[c] = None
        PROVE  /\ ctx[c]
               /\ \/ aff[c] = "ON_PENDING" /\ susplvl[c] = INVALID
                  \/ aff[c] = "ON" /\ local[c] = OFF /\ susplvl[c] = call[c].end
    <2>1. Boots(c) /\ ~SwitchedOff(c) /\ PhaseInv(c)
      BY <1>1 DEF Boots, SwitchedOff, IInv, Cpu
    <2>2. CASE susplvl[c] = INVALID
      <3>1. ComesUp(c)
        BY <2>1, <2>2 DEF ComesUp
      <3> QED BY <1>1, <2>1, <2>2, <3>1 DEF PhaseInv
    <2>3. CASE susplvl[c] # INVALID
      <3>1. Suspended(c) /\ ~ComesUp(c)
        BY <2>1, <2>3 DEF Suspended, ComesUp
      <3>2. aff[c] = "ON"
        BY <1>1, <2>1, <3>1, LiveFacts
      <3> QED BY <2>1, <3>1, <3>2 DEF PhaseInv
    <2> QED BY <2>2, <2>3
  <1>2. IInv => EntersWithContext
    BY <1>1 DEF EntersWithContext
  <1> QED BY <1>2, PsciInvariant, PTL

-----------------------------------------------------------------------------
(* The domain locks, by the labels of the CPUs.                            *)

\* The levels whose locks c has.
Holds(c, l) ==
  LET k == call[c]
  IN  \/ pc[c] = "lock" /\ l < k.lvl
      \/ pc[c] = "locked" /\ l <= k.end
      \/ pc[c] = "unlock" /\ l <= k.lvl

\* psci_locks agree with where the CPUs are.
LockInv ==
  \A c \in CPUs, d \in Domains :
    owner[d] = c <=> \E l \in Levels : Anc[c][l] = d /\ Holds(c, l)

\* c leaves the locks alone: it holds the same ones before and after, and if
\* it starts to wait, then for the lowest.
Aside(c) ==
  /\ owner' = owner
  /\ pc[c] # "lock"
  /\ pc'[c] = "lock" => call'[c].lvl = 1
  /\ \A l \in Levels : Holds(c, l)' <=> Holds(c, l)

\* Only acquire_lock and release_lock touch the locks.
LEMMA LockStep ==
  ASSUME IInv, NEW c \in CPUs, Request(c) \/ Progress(c)
  PROVE  /\ \A e \in CPUs \ {c} : pc'[e] = pc[e] /\ call'[e] = call[e]
         /\ acquire_lock(c) \/ release_lock(c) \/ Aside(c)
  <1>1. /\ TypeOK /\ CallInv(c) /\ MaxLvl \in Nat \ {0}
        /\ pc \in [CPUs -> Labels] /\ call \in [CPUs -> CallType]
    BY PsciAssumption DEF IInv, Cpu, TypeOK, CallType
  <1> DEFINE Others == \A e \in CPUs \ {c} : pc'[e] = pc[e] /\ call'[e] = call[e]
  \* A call that takes locks begins;
  <1>2. ASSUME pc[c] \notin Locking, owner' = owner,
               NEW kind \in Kinds, NEW end \in 0..MaxLvl,
               NEW s \in [0..MaxLvl -> States], Begin(c, kind, end, s)
        PROVE  Others /\ Aside(c)
    <2>1. /\ Others
          /\ pc'[c] = IF end = 0 THEN "locked" ELSE "lock"
          /\ call'[c].end = end
          /\ call'[c].lvl = IF end = 0 THEN 0 ELSE 1
      BY <1>1, <1>2, BeginStep
    <2>2. ASSUME NEW l \in Levels PROVE ~Holds(c, l) /\ ~Holds(c, l)'
      <3>1. ~(l < 1) /\ ~(l <= 0)
        BY <1>1 DEF Levels
      <3> QED BY <1>2, <2>1, <3>1 DEF Holds, Locking
    <2> QED BY <1>2, <2>1, <2>2 DEF Aside, Locking
  \* it ends with the locks to be released, or without locks;
  <1>3. ASSUME pc[c] = "locked", owner' = owner,
               NEW next \in Labels \ Locking, Release(c, next)
        PROVE  Others /\ Aside(c)
    <2>1. Others
      BY <1>1, <1>3, ReleaseStep
    <2>2. CASE call[c].end = 0
      <3>1. pc'[c] = next
        BY <1>1, <1>3, <2>2, ReleaseStep
      <3>2. \A l \in Levels : ~(l <= 0)
        BY <1>1 DEF Levels
      <3> QED BY <1>3, <2>1, <2>2, <3>1, <3>2 DEF Aside, Holds, Locking
    <2>3. CASE call[c].end # 0
      <3>1. pc'[c] = "unlock" /\ call'[c].lvl = call[c].lvl
        BY <1>1, <1>3, <2>3, ReleaseStep
      <3>2. call[c].lvl = call[c].end
        BY <1>1, <1>3 DEF CallInv
      <3> QED BY <1>3, <2>1, <3>1, <3>2 DEF Aside, Holds
    <2> QED BY <2>2, <2>3
  \* or c is elsewhere before and after.
  <1>4. ASSUME pc[c] \notin Locking, pc'[c] \notin Locking, owner' = owner
        PROVE  Aside(c)
    BY <1>4 DEF Aside, Holds, Locking
  <1>5. ASSUME NEW next \in Labels \ Locking, Return(c, next)
        PROVE  Others /\ pc'[c] \notin Locking
    BY <1>1, <1>5, ReturnStep
  <1>6. ASSUME NEW next \in Labels \ Locking, Goto(c, next)
        PROVE  /\ pc'[c] \notin Locking
               /\ \A e \in CPUs \ {c} : pc'[e] = pc[e]
    BY <1>1, <1>6 DEF Goto
  <1>7. /\ {"run", "on_lock", "on_set", "on_flush", "on_again", "on_reflush",
            "on_power", "on_undo", "on_ctx", "last_on", "off_set", "off_inv",
            "wfi", "standby", "asleep", "down"} \subseteq Labels \ Locking
        /\ {"off", "suspend", "system", "standby", "wake", "boot"} \subseteq Kinds
    BY DEF Labels, Locking, Kinds
  <1>8. Idle.states \in [0..MaxLvl -> States]
        /\ [l \in 0..MaxLvl |-> OFF] \in [0..MaxLvl -> States]
    BY IdleTyped DEF States
  <1>9. CASE acquire_lock(c) \/ release_lock(c)
    <2>1. Others
      BY <1>1, <1>9 DEF acquire_lock, release_lock, Goto, Return
    <2> QED BY <1>9, <2>1
  \* CPU_ON;
  <1>10. CASE \E t \in CPUs : psci_cpu_on(c, t)
    <2>1. pc[c] \notin Locking /\ owner' = owner /\ Goto(c, "on_lock") /\ Others
      BY <1>1, <1>10 DEF psci_cpu_on, Locking, lockVars, Goto
    <2> QED BY <1>4, <1>6, <1>7, <2>1
  <1>11. CASE on_lock(c) \/ is_last_on_cpu(c)
    <2>1. CASE on_lock(c)
      <3>1. pc[c] \notin Locking /\ owner' = owner
        BY <2>1 DEF on_lock, Locking
      <3>2. Return(c, "run") \/ (Goto(c, "on_set") /\ call' = call)
        BY <2>1 DEF on_lock
      <3> QED BY <1>4, <1>5, <1>6, <1>7, <3>1, <3>2
    <2>2. CASE is_last_on_cpu(c)
      <3>1. pc[c] \notin Locking /\ owner' = owner
        BY <2>2 DEF is_last_on_cpu, Locking, lockVars
      <3>2. \/ Return(c, "run")
            \/ pc' = pc /\ Others
            \/ Begin(c, "system", MaxLvl, [l \in 0..MaxLvl |-> OFF])
        BY <1>1, <2>2 DEF is_last_on_cpu
      <3>3. MaxLvl \in 0..MaxLvl
        BY <1>1
      <3> QED BY <1>2, <1>4, <1>5, <1>7, <1>8, <3>1, <3>2, <3>3
    <2> QED BY <1>11, <2>1, <2>2
  <1>12. CASE \/ on_set(c) \/ on_flush(c) \/ on_again(c) \/ on_reflush(c)
              \/ pwr_domain_on(c) \/ pwr_domain_on_fails(c)
              \/ off_set(c) \/ off_inv(c)
    <2>1. pc[c] \notin Locking /\ owner' = owner /\ call' = call
      BY <1>12 DEF on_set, on_flush, on_again, on_reflush, pwr_domain_on,
                   pwr_domain_on_fails, off_set, off_inv, Store, Locking, lockVars
    <2>2. \E next \in Labels \ Locking : Goto(c, next)
      BY <1>7, <1>12 DEF on_set, on_flush, on_again, on_reflush, pwr_domain_on,
                   pwr_domain_on_fails, off_set, off_inv, Store
    <2> QED BY <1>4, <1>6, <2>1, <2>2
  <1>13. CASE on_undo(c) \/ on_ctx(c)
    <2>1. pc[c] \notin Locking /\ owner' = owner /\ Return(c, "run")
      BY <1>13 DEF on_undo, on_ctx, Locking
    <2> QED BY <1>4, <1>5, <1>7, <2>1
  \* CPU_OFF and the suspends;
  <1>14. CASE psci_cpu_off(c) \/ wfi_wakes(c) \/ warmboot(c)
    <2>1. pc[c] \notin Locking /\ owner' = owner
      BY <1>14 DEF psci_cpu_off, wfi_wakes, warmboot, Entering, Locking, lockVars
    <2>2. \E kind \in Kinds, end \in 0..MaxLvl, s \in [0..MaxLvl -> States] :
            Begin(c, kind, end, s)
      <3>1. /\ MaxLvl \in 0..MaxLvl /\ call[c].end \in 0..MaxLvl
            /\ susplvl[c] # INVALID => susplvl[c] \in 0..MaxLvl
        BY <1>1 DEF TypeOK
      <3>2. CASE psci_cpu_off(c)
        BY <1>7, <1>8, <3>1, <3>2 DEF psci_cpu_off
      <3>3. CASE wfi_wakes(c)
        BY <1>7, <1>8, <3>1, <3>3 DEF wfi_wakes
      <3>4. CASE warmboot(c)
        BY <1>7, <1>8, <3>1, <3>4 DEF warmboot
      <3> QED BY <1>14, <3>2, <3>3, <3>4
    <2> QED BY <1>2, <2>1, <2>2
  <1>15. ASSUME NEW s \in Requests, psci_cpu_suspend(c, s)
         PROVE  Others /\ Aside(c)
    <2>1. pc[c] \notin Locking /\ owner' = owner
      BY <1>15 DEF psci_cpu_suspend, Locking, lockVars
    <2>2. /\ target_suspend_lvl(s) \in 0..MaxLvl
          /\ s \in [0..MaxLvl -> States]
      BY PsciAssumption, SuspendLevel DEF ValidRequest
    <2>3. \/ Goto(c, "standby") /\ call' = call
          \/ Begin(c, IF s[0] = OFF THEN "suspend" ELSE "standby",
                   target_suspend_lvl(s), s)
      BY <1>15 DEF psci_cpu_suspend
    <2>4. (IF s[0] = OFF THEN "suspend" ELSE "standby") \in Kinds
      BY <1>7
    <2> QED BY <1>2, <1>4, <1>6, <1>7, <2>1, <2>2, <2>3, <2>4
  <1>16. CASE psci_system_suspend(c) \/ standby_wakes(c)
    <2>1. pc[c] \notin Locking /\ owner' = owner /\ Others
      BY <1>1, <1>16 DEF psci_system_suspend, standby_wakes, Locking, lockVars, Goto
    <2>2. Goto(c, "last_on") \/ Goto(c, "run")
      BY <1>16 DEF psci_system_suspend, standby_wakes
    <2> QED BY <1>4, <1>6, <1>7, <2>1, <2>2
  \* and the critical sections.
  <1>17. CASE \/ svc_off_denied(c) \/ pwr_domain_off(c) \/ suspend_abandoned(c)
              \/ suspend_start(c) \/ standby_finisher(c) \/ cpu_on_finish(c)
              \/ cpu_suspend_finish(c)
    <2>1. pc[c] = "locked" /\ owner' = owner
      BY <1>17 DEF svc_off_denied, pwr_domain_off, suspend_abandoned,
                   suspend_start, standby_finisher, cpu_on_finish,
                   cpu_suspend_finish, lockVars
    <2>2. \E next \in Labels \ Locking : Release(c, next)
      BY <1>7, <1>17 DEF svc_off_denied, pwr_domain_off, suspend_abandoned,
                   suspend_start, standby_finisher, cpu_on_finish,
                   cpu_suspend_finish
    <2> QED BY <1>3, <2>1, <2>2
  <1> HIDE DEF Others
  <1>18. CASE Request(c)
    BY <1>10, <1>14, <1>15, <1>16, <1>18 DEF Request, Others
  <1>19. CASE Progress(c)
    BY <1>9, <1>11, <1>12, <1>13, <1>14, <1>17, <1>19 DEF Progress
  <1> QED BY <1>18, <1>19 DEF Others

\* A domain is above a CPU at one level.
LEMMA OneLevel ==
  ASSUME NEW c \in CPUs, NEW e \in CPUs, NEW l \in Levels, NEW k \in Levels,
         Anc[c][l] = Anc[e][k]
  PROVE  l = k
  BY TreeAssumption

\* What acquire_lock and release_lock do to the locks of c.
LEMMA AcquireRelease ==
  ASSUME IInv, NEW c \in CPUs, acquire_lock(c) \/ release_lock(c)
  PROVE  LET v == call[c].lvl
         IN  /\ v \in Levels /\ Anc[c][v] \in Domains
             /\ acquire_lock(c) =>
                  /\ owner[Anc[c][v]] = None
                  /\ owner' = [owner EXCEPT ![Anc[c][v]] = c]
                  /\ pc[c] = "lock" /\ ~Holds(c, v)
                  /\ \A l \in Levels : Holds(c, l)' <=> Holds(c, l) \/ l = v
                  /\ pc'[c] = "lock" => call'[c].lvl = v + 1
             /\ release_lock(c) =>
                  /\ owner' = [owner EXCEPT ![Anc[c][v]] = None]
                  /\ pc[c] = "unlock" /\ pc'[c] # "lock" /\ Holds(c, v)
                  /\ \A l \in Levels : Holds(c, l)' <=> Holds(c, l) /\ l # v
  <1> DEFINE v == call[c].lvl
  <1>1. /\ TypeOK /\ CallInv(c) /\ MaxLvl \in Nat \ {0}
        /\ pc \in [CPUs -> Labels] /\ call \in [CPUs -> CallType]
        /\ Anc \in [CPUs -> [Levels -> Domains]]
    BY PsciAssumption DEF IInv, Cpu, TypeOK, CallType
  <1>2. pc[c] \in {"lock", "unlock"} /\ v \in 1..call[c].end
          /\ call[c].end \in 0..MaxLvl
    BY <1>1 DEF acquire_lock, release_lock, CallInv, CallType
  <1>3. v \in Levels /\ Anc[c][v] \in Domains /\ v \in Nat
    BY <1>1, <1>2 DEF Levels
  <1>4. Levels \subseteq Nat \ {0}
    BY <1>1 DEF Levels
  <1>5. ASSUME acquire_lock(c)
        PROVE  /\ owner[Anc[c][v]] = None
               /\ owner' = [owner EXCEPT ![Anc[c][v]] = c]
               /\ pc[c] = "lock" /\ ~Holds(c, v)
               /\ \A l \in Levels : Holds(c, l)' <=> Holds(c, l) \/ l = v
               /\ pc'[c] = "lock" => call'[c].lvl = v + 1
    <2>1. /\ owner[Anc[c][v]] = None
          /\ owner' = [owner EXCEPT ![Anc[c][v]] = c]
          /\ pc[c] = "lock"
          /\ pc' = [pc EXCEPT ![c] = IF v = call[c].end THEN "locked" ELSE "lock"]
          /\ call' = [call EXCEPT ![c].lvl = IF v = call[c].end THEN v ELSE v + 1]
      BY <1>5 DEF acquire_lock, Goto
    <2>2. /\ pc'[c] = IF v = call[c].end THEN "locked" ELSE "lock"
          /\ call'[c].lvl = IF v = call[c].end THEN v ELSE v + 1
          /\ call'[c].end = call[c].end
      BY <1>1, <2>1 DEF CallType
    <2>3. ASSUME NEW l \in Levels PROVE Holds(c, l)' <=> Holds(c, l) \/ l = v
      BY <1>2, <1>3, <1>4, <2>1, <2>2 DEF Holds
    <2>4. ~Holds(c, v)
      BY <1>3, <2>1 DEF Holds
    <2> QED BY <2>1, <2>2, <2>3, <2>4
  <1>6. ASSUME release_lock(c)
        PROVE  /\ owner' = [owner EXCEPT ![Anc[c][v]] = None]
               /\ pc[c] = "unlock" /\ pc'[c] # "lock" /\ Holds(c, v)
               /\ \A l \in Levels : Holds(c, l)' <=> Holds(c, l) /\ l # v
    <2>1. owner' = [owner EXCEPT ![Anc[c][v]] = None] /\ pc[c] = "unlock"
      BY <1>6 DEF release_lock
    <2>2. Holds(c, v)
      BY <1>3, <2>1 DEF Holds
    <2>3. CASE v > 1
      <3>1. /\ pc' = pc
            /\ call' = [call EXCEPT ![c].lvl = v - 1]
        BY <1>6, <2>3 DEF release_lock
      <3>2. call'[c].lvl = v - 1
        BY <1>1, <3>1 DEF CallType
      <3>3. ASSUME NEW l \in Levels PROVE Holds(c, l)' <=> Holds(c, l) /\ l # v
        BY <1>3, <1>4, <2>1, <3>1, <3>2 DEF Holds
      <3> QED BY <2>1, <2>2, <3>1, <3>3
    <2>4. CASE ~(v > 1)
      <3>1. v = 1
        BY <1>2, <1>3, <2>4
      <3>2. call[c].next \in {"run", "off_set", "asleep", "wfi"}
        BY <1>1, <2>1 DEF CallInv
      <3>3. pc'[c] = call[c].next
        BY <1>1, <1>6, <2>4, <3>2 DEF release_lock, Goto, Return
      <3>4. ASSUME NEW l \in Levels PROVE Holds(c, l)' <=> Holds(c, l) /\ l # v
        BY <1>4, <2>1, <3>1, <3>2, <3>3 DEF Holds
      <3> QED BY <2>1, <2>2, <3>2, <3>3, <3>4
    <2> QED BY <2>3, <2>4
  <1> QED BY <1>3, <1>5, <1>6

\* The locks of the CPUs that do not move stay as they are.
LEMMA OthersHold ==
  ASSUME NEW e \in CPUs, pc'[e] = pc[e], call'[e] = call[e]
  PROVE  \A l \in Levels : Holds(e, l)' <=> Holds(e, l)
  BY DEF Holds

\* Nobody has a lock after psci_setup.
LEMMA InitLocks == Init => LockInv
  BY PsciAssumption DEF Init, LockInv, Holds

\* Every step keeps psci_locks and the labels in agreement.
LEMMA NextLocks ==
  ASSUME IInv, LockInv, [Next]_vars
  PROVE  LockInv'
  <1>1. CASE UNCHANGED vars
    BY <1>1 DEF vars, lockVars, LockInv, Holds
  <1>2. CASE Next
    <2>1. PICK c \in CPUs : Request(c) \/ Progress(c)
      BY <1>2 DEF Next
    <2>2. \A e \in CPUs \ {c} : pc'[e] = pc[e] /\ call'[e] = call[e]
      BY <2>1, LockStep
    <2>3. \A e \in CPUs \ {c}, l \in Levels : Holds(e, l)' <=> Holds(e, l)
      BY <2>2, OthersHold
    <2>4. None \notin CPUs /\ owner \in [Domains -> CPUs \cup {None}]
      BY PsciAssumption DEF IInv, TypeOK
    <2>5. CASE Aside(c)
      <3>1. \A e \in CPUs, l \in Levels : Holds(e, l)' <=> Holds(e, l)
        BY <2>3, <2>5 DEF Aside
      <3> QED BY <2>5, <3>1 DEF LockInv, Aside
    <2> DEFINE v == call[c].lvl
               a == Anc[c][v]
    <2>6. CASE acquire_lock(c)
      <3>1. /\ v \in Levels /\ a \in Domains /\ owner[a] = None
            /\ owner' = [owner EXCEPT ![a] = c]
            /\ \A l \in Levels : Holds(c, l)' <=> Holds(c, l) \/ l = v
        BY <2>6, AcquireRelease
      <3> HIDE DEF v, a
      <3>2. SUFFICES ASSUME NEW e \in CPUs, NEW d \in Domains
                     PROVE  owner'[d] = e <=>
                              \E l \in Levels : Anc[e][l] = d /\ Holds(e, l)'
        BY DEF LockInv
      <3>3. owner[d] = e <=> \E l \in Levels : Anc[e][l] = d /\ Holds(e, l)
        BY DEF LockInv
      <3>4. owner'[d] = IF d = a THEN c ELSE owner[d]
        BY <2>4, <3>1
      <3>5. CASE e # c
        <4>1. d = a => owner[d] # e
          BY <2>4, <3>1
        <4> QED BY <2>3, <3>3, <3>4, <3>5, <4>1
      <3>6. CASE e = c /\ d = a
        BY <3>1, <3>4, <3>6 DEF a
      <3>7. CASE e = c /\ d # a
        BY <3>1, <3>3, <3>4, <3>7 DEF a
      <3> QED BY <3>5, <3>6, <3>7
    <2>7. CASE release_lock(c)
      <3>1. /\ v \in Levels /\ a \in Domains /\ Holds(c, v)
            /\ owner' = [owner EXCEPT ![a] = None]
            /\ \A l \in Levels : Holds(c, l)' <=> Holds(c, l) /\ l # v
        BY <2>7, AcquireRelease
      <3>2. owner[a] = c
        BY <3>1 DEF LockInv
      <3> HIDE DEF v
      <3>3. \A l \in Levels : Anc[c][l] = a => l = v
        BY <3>1, OneLevel
      <3> HIDE DEF a
      <3>4. SUFFICES ASSUME NEW e \in CPUs, NEW d \in Domains
                     PROVE  owner'[d] = e <=>
                              \E l \in Levels : Anc[e][l] = d /\ Holds(e, l)'
        BY DEF LockInv
      <3>5. owner[d] = e <=> \E l \in Levels : Anc[e][l] = d /\ Holds(e, l)
        BY DEF LockInv
      <3>6. owner'[d] = IF d = a THEN None ELSE owner[d]
        BY <2>4, <3>1
      <3>7. CASE e # c
        <4>1. d = a => owner[d] # e
          BY <3>2, <3>7
        <4>2. d = a => owner'[d] # e
          BY <2>4, <3>6
        <4> QED BY <2>3, <3>5, <3>6, <3>7, <4>1, <4>2
      <3>8. CASE e = c /\ d = a
        BY <2>4, <3>1, <3>3, <3>6, <3>8
      <3>9. CASE e = c /\ d # a
        BY <3>1, <3>5, <3>6, <3>9 DEF a
      <3> QED BY <3>7, <3>8, <3>9
    <2> QED BY <2>1, <2>5, <2>6, <2>7, LockStep
  <1> QED BY <1>1, <1>2

\* A CPU has the locks its label says it has, and nobody else has them.
LEMMA LocksHold == Spec => []LockInv
  BY PsciInvariant, InitLocks, NextLocks, PTL DEF Spec

\* Two CPUs below one domain are never both past psci_acquire_pwr_domain_locks
\* for it and before psci_release_pwr_domain_locks.
Exclusive ==
  \A c, e \in CPUs, l \in Levels :
    c # e /\ Anc[c][l] = Anc[e][l] => ~(Holds(c, l) /\ Holds(e, l))

\* psci_locks exclude, by the labels of the CPUs and not by the locks' own
\* record: while a CPU coordinates the states of its domains nobody else
\* below them does, so that the model may take a critical section as a step.
THEOREM SectionsExclude == Spec => []Exclusive
  <1>1. IInv /\ LockInv => Exclusive
    <2>1. SUFFICES ASSUME IInv, LockInv, NEW c \in CPUs, NEW e \in CPUs,
                          NEW l \in Levels, Anc[c][l] = Anc[e][l],
                          Holds(c, l), Holds(e, l)
                   PROVE  c = e
      BY DEF Exclusive
    <2>2. Anc[c][l] \in Domains
      BY PsciAssumption
    <2>3. owner[Anc[c][l]] = c /\ owner[Anc[c][l]] = e
      BY <2>1, <2>2 DEF LockInv
    <2> QED BY <2>3
  <1> QED BY <1>1, PsciInvariant, LocksHold, PTL

\* c waits: for the spin lock of the CPU it switches on, for a domain lock,
\* or in psci_cpu_on_finish for its own spin lock.
Blocked(c) ==
  \/ pc[c] = "on_lock" /\ spin[call[c].target] # None
  \/ pc[c] = "lock" /\ owner[Anc[c][call[c].lvl]] # None
  \/ /\ pc[c] = "locked" /\ call[c].kind = "boot"
     /\ aff[c] = "ON_PENDING" /\ spin[c] # None

\* c is in the firmware, under a lock or on its way to one, and does not wait.
GoesOn(c) ==
  /\ pc[c] \in OnLabels \cup Locking \cup {"on_lock"}
  /\ ~Blocked(c)

\* If a CPU waits for a lock, another one is on its way to release one.
NoCircularWait == (\E c \in CPUs : Blocked(c)) => \E c \in CPUs : GoesOn(c)

\* Whoever has a spin lock is in psci_cpu_on_start and waits for nobody.
LEMMA SpinHolder ==
  ASSUME IInv, NEW t \in CPUs, spin[t] # None
  PROVE  \E c \in CPUs : GoesOn(c)
  <1>1. PICK c \in CPUs : spin[t] = c
    BY DEF IInv, TypeOK
  <1>2. pc[c] \in OnLabels
    BY <1>1 DEF IInv, SpinInv, SwitchInv
  <1>3. ~Blocked(c)
    BY <1>2 DEF Blocked, OnLabels
  <1> QED BY <1>2, <1>3 DEF GoesOn

\* Domain locks are taken upwards and spin locks are held without waiting: of
\* the CPUs that wait, the one at the highest level waits for one that does
\* not, or that waits for a spin lock.
LEMMA BlockedGoesOn ==
  ASSUME IInv, LockInv, NEW c \in CPUs, Blocked(c)
  PROVE  \E e \in CPUs : GoesOn(e)
  <1>1. /\ MaxLvl \in Nat \ {0} /\ Levels = 1..MaxLvl
        /\ Anc \in [CPUs -> [Levels -> Domains]]
        /\ owner \in [Domains -> CPUs \cup {None}]
        /\ call \in [CPUs -> CallType]
        /\ \A e \in CPUs : CallInv(e)
    BY PsciAssumption DEF IInv, Cpu, TypeOK, CallType, Levels
  <1>2. CASE pc[c] = "on_lock"
    <2>1. call[c].target \in CPUs /\ spin[call[c].target] # None
      BY <1>1, <1>2 DEF CallInv, Blocked
    <2> QED BY <2>1, SpinHolder
  <1>3. CASE pc[c] = "locked"
    BY <1>3, SpinHolder DEF Blocked
  <1>4. CASE pc[c] = "lock"
    <2> DEFINE Waits(e) == pc[e] = "lock" /\ owner[Anc[e][call[e].lvl]] # None
               Height(e) == MaxLvl - call[e].lvl
               T == {Height(e) : e \in {f \in CPUs : Waits(f)}}
    <2>1. \A e \in CPUs : Waits(e) => /\ call[e].lvl \in Levels
                                      /\ Height(e) \in Nat
      <3>1. SUFFICES ASSUME NEW e \in CPUs, Waits(e)
                     PROVE  call[e].lvl \in Levels /\ Height(e) \in Nat
        OBVIOUS
      <3>2. call[e].lvl \in 1..call[e].end /\ call[e].end \in 0..MaxLvl
        BY <1>1, <3>1 DEF CallInv, CallType
      <3> QED BY <1>1, <3>2
    <2>2. T \subseteq Nat /\ T # {}
      <3>1. Waits(c)
        BY <1>4 DEF Blocked
      <3> QED BY <2>1, <3>1
    \* Of the CPUs that wait for a domain lock, one at the highest level:
    <2>3. PICK x \in T : \A y \in T : x <= y
      BY <2>2, LeastNat
    <2>4. PICK e \in CPUs : Waits(e) /\ x = Height(e)
      BY <2>3
    <2> DEFINE v == call[e].lvl
    <2>5. v \in Levels /\ Anc[e][v] \in Domains
      BY <1>1, <2>1, <2>4
    <2>6. PICK f \in CPUs : owner[Anc[e][v]] = f
      BY <1>1, <2>4, <2>5
    \* whoever has the lock it waits for
    <2>7. Holds(f, v)
      <3>1. \E l \in Levels : Anc[f][l] = Anc[e][v] /\ Holds(f, l)
        BY <2>5, <2>6 DEF LockInv
      <3> QED BY <2>5, <3>1, OneLevel
    <2>8. pc[f] \in Locking
      BY <2>7 DEF Holds, Locking
    \* does not wait for a domain lock, since it would be at a higher level;
    <2>9. ~Waits(f)
      <3>1. SUFFICES ASSUME Waits(f) PROVE FALSE
        OBVIOUS
      <3>2. v < call[f].lvl
        BY <2>7, <3>1 DEF Holds
      <3>3. Height(e) <= Height(f)
        BY <2>3, <2>4, <3>1
      <3>4. call[f].lvl \in Levels
        BY <2>1, <3>1
      <3> QED BY <1>1, <2>5, <3>2, <3>3, <3>4
    \* if it waits for its spin lock, the one who has that goes on.
    <2>10. CASE Blocked(f)
      <3>1. spin[f] # None
        BY <2>8, <2>9, <2>10 DEF Blocked, Locking
      <3> QED BY <3>1, SpinHolder
    <2>11. CASE ~Blocked(f)
      BY <2>8, <2>11 DEF GoesOn
    <2> QED BY <2>10, <2>11
  <1> QED BY <1>2, <1>3, <1>4 DEF Blocked

\* The order of psci_acquire_pwr_domain_locks, from the lowest level up, and
\* the spin lock taken inside it by psci_cpu_on_finish cannot make the CPUs
\* wait for each other in a circle, on any tree of domains.
THEOREM SomebodyGoesOn == Spec => []NoCircularWait
  <1>1. IInv /\ LockInv => NoCircularWait
    BY BlockedGoesOn DEF NoCircularWait
  <1> QED BY <1>1, PsciInvariant, LocksHold, PTL

-----------------------------------------------------------------------------
(* The domain locks are FairLocks, as far as safety goes.                  *)

\* What c is to the lock of domain d.
AskState(d, c) ==
  CASE owner[d] = c -> "holding"
    [] owner[d] # c /\ pc[c] = "lock" /\ Anc[c][call[c].lvl] = d -> "waiting"
    [] OTHER -> "idle"

\* The lock of d, shared by the CPUs below d.
DomainLock(d) ==
  INSTANCE FairLock WITH CPUs <- Under(d),
                         lock <- [c \in Under(d) |-> AskState(d, c)]


\* Nobody asks for a lock in psci_setup.
LEMMA AskInit ==
  ASSUME NEW d \in Domains, Init
  PROVE  DomainLock(d)!Init
  BY PsciAssumption DEF Init, DomainLock!Init, AskState, Under

\* A step of c moves nobody else at the lock of d, and c by one step.
LEMMA AskStep ==
  ASSUME NEW d \in Domains, NEW c \in Under(d), NEW to,
         \A e \in CPUs \ {c} : AskState(d, e)' = AskState(d, e),
         AskState(d, c)' = to
  PROVE  /\ AskState(d, c) = to => UNCHANGED [e \in Under(d) |-> AskState(d, e)]
         /\ AskState(d, c) = "idle" /\ to = "waiting" => DomainLock(d)!Ask(c)
         /\ AskState(d, c) = "waiting" /\ to = "holding"
              /\ (\A e \in Under(d) : AskState(d, e) # "holding") =>
              DomainLock(d)!Take(c)
         /\ AskState(d, c) = "holding" /\ to = "idle" => DomainLock(d)!Drop(c)
  <1>1. Under(d)' = Under(d) /\ Under(d) \subseteq CPUs
    BY DEF Under
  <1>2. [e \in Under(d) |-> AskState(d, e)]' =
          [[e \in Under(d) |-> AskState(d, e)] EXCEPT ![c] = to]
    BY <1>1
  <1> HIDE DEF AskState
  <1> QED BY <1>1, <1>2 DEF DomainLock!Ask, DomainLock!Take, DomainLock!Drop

\* Who stays where it is and keeps its locks is the same to every lock.
LEMMA AskSame ==
  ASSUME NEW d \in Domains, NEW e \in CPUs,
         pc'[e] = pc[e], call'[e] = call[e], owner'[d] = e <=> owner[d] = e
  PROVE  AskState(d, e)' = AskState(d, e)
  BY DEF AskState

\* acquire_lock takes one lock and perhaps asks for the next, release_lock
\* drops one; every other step asks for the lowest or leaves the locks alone.
LEMMA AskNext ==
  ASSUME NEW d \in Domains, IInv, LockInv, [Next]_vars
  PROVE  [DomainLock(d)!Next]_([c \in Under(d) |-> AskState(d, c)])
  <1> DEFINE F == [c \in Under(d) |-> AskState(d, c)]
  <1>1. CASE UNCHANGED vars
    <2>1. UNCHANGED F
      BY <1>1 DEF vars, lockVars, AskState, Under
    <2> QED BY <2>1
  <1>2. CASE Next
    <2>1. PICK c \in CPUs : Request(c) \/ Progress(c)
      BY <1>2 DEF Next
    <2>2. /\ \A e \in CPUs \ {c} : pc'[e] = pc[e] /\ call'[e] = call[e]
          /\ acquire_lock(c) \/ release_lock(c) \/ Aside(c)
      BY <2>1, LockStep
    <2>3. None \notin CPUs /\ owner \in [Domains -> CPUs \cup {None}]
      BY PsciAssumption DEF IInv, TypeOK
    <2>4. \A e \in CPUs : owner[d] = e <=>
                            \E l \in Levels : Anc[e][l] = d /\ Holds(e, l)
      BY DEF LockInv
    <2>5. c \notin Under(d) => /\ owner[d] # c
                               /\ \A l \in Levels : Anc[c][l] # d
      BY <2>4 DEF Under
    <2> DEFINE v == call[c].lvl
               a == Anc[c][v]
    \* The others do not move;
    <2>6. \A e \in CPUs \ {c} : AskState(d, e)' = AskState(d, e)
      <3>1. SUFFICES ASSUME NEW e \in CPUs \ {c}
                     PROVE  owner'[d] = e <=> owner[d] = e
        BY <2>2, AskSame
      <3>2. CASE Aside(c)
        BY <3>2 DEF Aside
      <3>3. CASE acquire_lock(c)
        <4>1. a \in Domains /\ owner[a] = None /\ owner' = [owner EXCEPT ![a] = c]
          BY <3>3, AcquireRelease
        <4> QED BY <2>3, <4>1
      <3>4. CASE release_lock(c)
        <4>1. /\ v \in Levels /\ a \in Domains /\ Holds(c, v)
              /\ owner' = [owner EXCEPT ![a] = None]
          BY <3>4, AcquireRelease
        <4>2. owner[a] = c
          BY <4>1 DEF LockInv
        <4> QED BY <2>3, <4>1, <4>2
      <3> QED BY <2>2, <3>2, <3>3, <3>4
    <2>7. c \notin Under(d) => UNCHANGED F
      BY <2>6 DEF Under
    <2>8. SUFFICES ASSUME c \in Under(d)
                   PROVE  DomainLock(d)!Next \/ UNCHANGED F
      BY <2>7
    <2>9. SUFFICES \/ AskState(d, c)' = AskState(d, c)
                   \/ AskState(d, c) = "idle" /\ AskState(d, c)' = "waiting"
                   \/ /\ AskState(d, c) = "waiting" /\ AskState(d, c)' = "holding"
                      /\ \A e \in Under(d) : AskState(d, e) # "holding"
                   \/ AskState(d, c) = "holding" /\ AskState(d, c)' = "idle"
      <3> DEFINE to == AskState(d, c)'
      <3>1. /\ AskState(d, c) = to => UNCHANGED F
            /\ AskState(d, c) = "idle" /\ to = "waiting" => DomainLock(d)!Ask(c)
            /\ AskState(d, c) = "waiting" /\ to = "holding"
                 /\ (\A e \in Under(d) : AskState(d, e) # "holding") =>
                 DomainLock(d)!Take(c)
            /\ AskState(d, c) = "holding" /\ to = "idle" => DomainLock(d)!Drop(c)
        BY <2>6, <2>8, AskStep
      <3> QED BY <2>8, <2>9, <3>1 DEF DomainLock!Next
    <2>10. CASE Aside(c)
      BY <2>10 DEF Aside, AskState
    <2>11. CASE acquire_lock(c)
      <3>1. /\ v \in Levels /\ a \in Domains /\ owner[a] = None
            /\ owner' = [owner EXCEPT ![a] = c]
            /\ pc[c] = "lock"
            /\ \A l \in Levels : Holds(c, l)' <=> Holds(c, l) \/ l = v
        BY <2>11, AcquireRelease
      <3>2. CASE d = a
        <4>1. AskState(d, c) = "waiting" /\ AskState(d, c)' = "holding"
          BY <2>3, <3>1, <3>2 DEF AskState
        <4>2. \A e \in Under(d) : AskState(d, e) # "holding"
          BY <2>3, <3>1, <3>2 DEF AskState, Under
        <4> QED BY <4>1, <4>2
      <3>3. CASE d # a
        <4>1. owner'[d] = owner[d]
          BY <2>3, <3>1, <3>3
        <4> QED BY <3>1, <3>3, <4>1 DEF AskState
      <3> QED BY <3>2, <3>3
    <2>12. CASE release_lock(c)
      <3>1. /\ v \in Levels /\ a \in Domains /\ Holds(c, v)
            /\ owner' = [owner EXCEPT ![a] = None]
            /\ pc[c] = "unlock" /\ pc'[c] # "lock"
        BY <2>12, AcquireRelease
      <3>2. owner[a] = c
        BY <3>1 DEF LockInv
      <3>3. owner'[d] = IF d = a THEN None ELSE owner[d]
        BY <2>3, <3>1
      <3> QED BY <2>3, <3>1, <3>2, <3>3 DEF AskState
    <2> QED BY <2>2, <2>10, <2>11, <2>12
  <1> QED BY <1>1, <1>2

\* Every psci_locks[d] is used as FairLock says a lock is: nobody takes it
\* without having asked, twice or past its holder, and nobody drops it who
\* has not got it, whatever early exit the call takes.
THEOREM DomainLockImplements ==
  ASSUME NEW d \in Domains
  PROVE  Spec => DomainLock(d)!Safety
  <1>1. Init => DomainLock(d)!Init
    BY AskInit
  <1>2. IInv /\ LockInv /\ [Next]_vars =>
          [DomainLock(d)!Next]_([c \in Under(d) |-> AskState(d, c)])
    BY AskNext
  <1> QED BY <1>1, <1>2, PsciInvariant, LocksHold, PTL DEF Spec, DomainLock!Safety
=============================================================================
