----------------------- MODULE WatchdogRegistryProofs -----------------------
(***************************************************************************)
(* Proofs about WatchdogRegistry, for every set of devices, every aliasing *)
(* of ids and every limit on them: types, IdsExact, MiscIsZero,            *)
(* NotifiersLive and UnboundForgotten; and ZeroMeansRegistered where       *)
(* nothing fails and there are more ids than devices.                      *)
(*                                                                         *)
(* Registering and unregistering are operators from a registry record to   *)
(* the records it may become, so the proof is about them first: what       *)
(* __watchdog_register_device makes of a registry in which ids, misc node  *)
(* and chains are in order is in order again, unless the thread died.      *)
(***************************************************************************)
EXTENDS WatchdogRegistry, FiniteSetTheorems, WellFoundedInduction,
        SequenceTheorems, TLAPS

Rets == {"OK", "EBUSY", "ENOMEM", "ENOSPC", "oops"}

RegistryType ==
    [ida: SUBSET Nat, id: [Wdd -> Nat],
     wd_data: [Wdd -> {"NULL", "live", "failed"}],
     misc: {"none", "legacy"} \cup Wdd, reboot: SUBSET Wdd,
     restart: SUBSET Wdd, ret: Rets]

(***************************************************************************)
(* The properties of a registry record s.                                  *)
(***************************************************************************)
IsLive(s, w) == s.wd_data[w] = "live"

\* The ids in use are those of the live devices, each of one.
Ids(s) ==
    /\ \A i \in s.ida : \E w \in Wdd : IsLive(s, w) /\ s.id[w] = i
    /\ \A w \in Wdd : IsLive(s, w) => s.id[w] \in s.ida
    /\ \A v, w \in Wdd : IsLive(s, v) /\ IsLive(s, w) /\ s.id[v] = s.id[w]
                           => v = w

Misc(s) == \A w \in Wdd : s.misc = w <=> IsLive(s, w) /\ s.id[w] = 0

Chains(s) ==
    /\ \A w \in s.reboot \cup s.restart : IsLive(s, w)
    /\ s.reboot \subseteq StopOnReboot

Good(s) == s \in RegistryType /\ Ids(s) /\ Misc(s) /\ Chains(s)

\* From s to n only what belongs to w has changed.
Keeps(s, n, w) ==
    /\ \A v \in Wdd : v # w => n.id[v] = s.id[v] /\ n.wd_data[v] = s.wd_data[v]
    /\ n.reboot \subseteq s.reboot \cup {w}
    /\ n.restart \subseteq s.restart \cup {w}

(***************************************************************************)
(* The inductive invariant.  Before watchdog_init nothing is live; the     *)
(* deferred list holds every device once, bound and not live; it is empty  *)
(* when the mutex is free after watchdog_init.                             *)
(***************************************************************************)
ListInv ==
    /\ \A i \in DOMAIN deferred : /\ driver[deferred[i]] = "bound"
                                  /\ wd_data[deferred[i]] # "live"
    /\ \A i, j \in DOMAIN deferred : deferred[i] = deferred[j] => i = j

PhaseInv ==
    /\ ~done => \A w \in Wdd : wd_data[w] # "live"
    /\ init = "running" => mutex = "init" /\ done
    /\ done /\ mutex = "free" => deferred = <<>>

UnboundInv == \A w \in Wdd : driver[w] = "unbound" => wd_data[w] # "live"

Inv ==
    /\ TypeOK
    /\ Alive => Good(Registry)
    /\ Chains(Registry)
    /\ ListInv
    /\ PhaseInv
    /\ UnboundInv

-----------------------------------------------------------------------------
(* The operators.                                                          *)

\* The natural numbers are well ordered.
LEMMA LeastNat ==
  ASSUME NEW T, T \subseteq Nat, T # {}
  PROVE  \E x \in T : \A y \in T : x <= y
  <1> DEFINE R == {ss \in Nat \X Nat : ss[1] < ss[2]}
  <1>1. IsWellFoundedOn(R, Nat)
    BY NatLessThanWellFounded DEF OpToRel
  <1>2. PICK x \in T : \A y \in T : ~(<<y, x>> \in R)
    BY <1>1, WFMin
  <1>3. ASSUME NEW y \in T PROVE x <= y
    <2>1. ~(<<y, x>> \in R)
      BY <1>2
    <2>2. x \in Nat /\ y \in Nat
      OBVIOUS
    <2>3. <<y, x>> \in Nat \X Nat /\ <<y, x>>[1] = y /\ <<y, x>>[2] = x
      BY <2>2
    <2>4. ~(y < x)
      BY <2>1, <2>3
    <2> QED BY <2>2, <2>4
  <1> QED BY <1>3

\* watchdog_ida gives out ids that are free.
LEMMA IdaGet ==
  ASSUME NEW s, NEW low \in Nat, NEW high \in Nat
  PROVE  LET i == ida_simple_get(s, low, high)
         IN  i = -1 \/ (i \in Nat /\ i \notin s.ida)
  <1> DEFINE free == {i \in low .. high - 1 : i \notin s.ida}
  <1>1. CASE free = {}
    BY <1>1 DEF ida_simple_get
  <1>2. CASE free # {}
    <2>1. free \subseteq Nat
      OBVIOUS
    <2>2. \E i \in free : \A j \in free : i <= j
      BY <1>2, <2>1, LeastNat
    <2>3. ida_simple_get(s, low, high) \in free
      BY <1>2, <2>2 DEF ida_simple_get
    <2> QED BY <2>1, <2>3
  <1> QED BY <1>1, <1>2

\* The id that watchdog_register_device tries first is free or there is none.
LEMMA FirstIdFree ==
  ASSUME NEW s, NEW w \in Wdd
  PROVE  LET i == FirstId(s, w)
         IN  i = -1 \/ (i \in Nat /\ i \notin s.ida)
  <1>1. 0 \in Nat /\ MaxDogs \in Nat /\ (Alias[w] = -1 \/ Alias[w] \in Nat)
    BY RegistryAssumption DEF NoAlias
  <1>2. CASE Alias[w] = NoAlias
    BY <1>1, <1>2, IdaGet DEF FirstId
  <1>3. CASE Alias[w] # NoAlias
    <2>1. Alias[w] \in Nat /\ Alias[w] + 1 \in Nat
      BY <1>1, <1>3 DEF NoAlias
    <2> DEFINE a == ida_simple_get(s, Alias[w], Alias[w] + 1)
    <2>2. a = -1 \/ (a \in Nat /\ a \notin s.ida)
      BY <2>1, IdaGet
    <2>3. FirstId(s, w) = IF a < 0 THEN ida_simple_get(s, 0, MaxDogs) ELSE a
      BY <1>3 DEF FirstId
    <2> HIDE DEF a
    <2>4. CASE a < 0
      BY <1>1, <2>3, <2>4, IdaGet
    <2>5. CASE ~(a < 0)
      BY <2>2, <2>3, <2>5
    <2> QED BY <2>4, <2>5
  <1> QED BY <1>2, <1>3

\* What watchdog_dev_register makes of a registry, field by field.
LEMMA DevRegister ==
  ASSUME NEW s \in RegistryType, NEW w \in Wdd,
         NEW n \in watchdog_dev_register(s, w)
  PROVE  /\ n \in RegistryType
         /\ n.ida = s.ida /\ n.id = s.id
         /\ n.reboot = s.reboot /\ n.restart = s.restart
         /\ \A v \in Wdd : v # w => n.wd_data[v] = s.wd_data[v]
         /\ \/ /\ n.ret = "OK" /\ n.wd_data[w] = "live"
               /\ s.id[w] = 0 => s.misc = "none" /\ n.misc = w
               /\ s.id[w] # 0 => n.misc = s.misc
            \/ /\ n.ret \in {"EBUSY", "ENOMEM", "oops"}
               /\ n.wd_data[w] \in {"failed", "NULL", s.wd_data[w]}
               /\ n.misc = s.misc
  <1> DEFINE failed == [s EXCEPT !.wd_data[w] = "failed"]
  <1>1. \/ n = [failed EXCEPT !.ret = "EBUSY"]
        \/ n = [failed EXCEPT !.ret = "ENOMEM"]
        \/ n = [s EXCEPT !.ret = "ENOMEM"]
        \/ n = [s EXCEPT !.wd_data[w] = "NULL", !.ret = "oops"]
        \/ /\ ~(s.id[w] = 0 /\ s.misc # "none")
           /\ n = [s EXCEPT !.wd_data[w] = "live",
                            !.misc = IF s.id[w] = 0 THEN w ELSE @, !.ret = "OK"]
    BY DEF watchdog_dev_register, IfFails
  <1>2. CASE n = [failed EXCEPT !.ret = "EBUSY"]
    BY <1>2 DEF RegistryType, Rets
  <1>3. CASE n = [failed EXCEPT !.ret = "ENOMEM"]
    BY <1>3 DEF RegistryType, Rets
  <1>4. CASE n = [s EXCEPT !.ret = "ENOMEM"]
    BY <1>4 DEF RegistryType, Rets
  <1>5. CASE n = [s EXCEPT !.wd_data[w] = "NULL", !.ret = "oops"]
    BY <1>5 DEF RegistryType, Rets
  <1>6. CASE /\ ~(s.id[w] = 0 /\ s.misc # "none")
             /\ n = [s EXCEPT !.wd_data[w] = "live",
                              !.misc = IF s.id[w] = 0 THEN w ELSE @, !.ret = "OK"]
    BY <1>6 DEF RegistryType, Rets
  <1> QED BY <1>1, <1>2, <1>3, <1>4, <1>5, <1>6

\* Taking an id and making the node: the registry stays in order.
LEMMA WithIdGood ==
  ASSUME NEW s, Good(s), NEW w \in Wdd, ~IsLive(s, w),
         NEW i, i = -1 \/ (i \in Nat /\ i \notin s.ida),
         NEW n \in WithId(s, w, i)
  PROVE  /\ n \in RegistryType /\ Chains(n) /\ Keeps(s, n, w)
         /\ n.reboot = s.reboot /\ n.restart = s.restart
         /\ n.ret # "oops" => Good(n)
         /\ n.ret = "OK" <=> IsLive(n, w)
  <1>1. CASE i = -1
    <2>1. n = [s EXCEPT !.ret = "ENOSPC"]
      BY <1>1 DEF WithId
    <2>2. /\ n \in RegistryType /\ n.ida = s.ida /\ n.id = s.id
          /\ n.wd_data = s.wd_data /\ n.misc = s.misc /\ n.reboot = s.reboot
          /\ n.restart = s.restart /\ n.ret = "ENOSPC"
      BY <2>1 DEF Good, RegistryType, Rets
    <2> QED BY <2>2 DEF Good, Ids, Misc, Chains, Keeps, IsLive
  <1>2. CASE i \in Nat /\ i \notin s.ida
    <2> DEFINE p == [s EXCEPT !.ida = @ \cup {i}, !.id[w] = i]
    <2>1. PICK m \in watchdog_dev_register(p, w) :
            n = IF m.ret \in {"OK", "oops"} THEN m ELSE ida_simple_remove(m, i)
      BY <1>2 DEF WithId
    <2>2. /\ p \in RegistryType /\ p.ida = s.ida \cup {i} /\ p.id[w] = i
          /\ \A v \in Wdd : v # w => p.id[v] = s.id[v]
          /\ p.wd_data = s.wd_data /\ p.misc = s.misc
          /\ p.reboot = s.reboot /\ p.restart = s.restart
      BY <1>2 DEF Good, RegistryType
    <2> HIDE DEF p
    <2>3. /\ m \in RegistryType
          /\ m.ida = p.ida /\ m.id = p.id
          /\ m.reboot = p.reboot /\ m.restart = p.restart
          /\ \A v \in Wdd : v # w => m.wd_data[v] = p.wd_data[v]
          /\ \/ /\ m.ret = "OK" /\ m.wd_data[w] = "live"
                /\ p.id[w] = 0 => p.misc = "none" /\ m.misc = w
                /\ p.id[w] # 0 => m.misc = p.misc
             \/ /\ m.ret \in {"EBUSY", "ENOMEM", "oops"}
                /\ m.wd_data[w] \in {"failed", "NULL", p.wd_data[w]}
                /\ m.misc = p.misc
      BY <2>1, <2>2, DevRegister
    <2>4. /\ n \in RegistryType /\ n.id = m.id /\ n.wd_data = m.wd_data
          /\ n.misc = m.misc /\ n.reboot = s.reboot /\ n.restart = s.restart
          /\ n.ret = m.ret
          /\ n.ida = IF m.ret \in {"OK", "oops"} THEN s.ida \cup {i} ELSE s.ida
      <3>1. CASE m.ret \in {"OK", "oops"}
        BY <2>1, <2>2, <2>3, <3>1
      <3>2. CASE m.ret \notin {"OK", "oops"}
        <4>1. n = [m EXCEPT !.ida = @ \ {i}]
          BY <2>1, <3>2 DEF ida_simple_remove
        <4>2. m.ida \ {i} = s.ida /\ s.ida \in SUBSET Nat
          BY <1>2, <2>2, <2>3 DEF Good, RegistryType
        <4> QED BY <2>2, <2>3, <3>2, <4>1, <4>2 DEF RegistryType
      <3> QED BY <3>1, <3>2
    <2>5. Keeps(s, n, w)
      BY <2>2, <2>3, <2>4 DEF Keeps
    <2>6. n.ret = "OK" <=> IsLive(n, w)
      BY <2>2, <2>3, <2>4 DEF IsLive
    <2>7. Chains(n)
      <3>1. w \notin s.reboot \cup s.restart
        BY DEF Good, Chains
      <3>2. s.reboot \cup s.restart \subseteq Wdd
        BY DEF Good, RegistryType
      <3> QED BY <2>4, <2>5, <3>1, <3>2 DEF Good, Chains, Keeps, IsLive
    <2>8. CASE n.ret = "OK"
      <3>1. n.id[w] = i /\ IsLive(n, w) /\ n.ida = s.ida \cup {i}
        BY <2>2, <2>3, <2>4, <2>6, <2>8
      <3>2. \A v \in Wdd : v # w =>
              n.id[v] = s.id[v] /\ (IsLive(n, v) <=> IsLive(s, v))
        BY <2>5 DEF Keeps, IsLive
      <3>3. Ids(n)
        BY <1>2, <3>1, <3>2 DEF Good, Ids
      <3>4. Misc(n)
        <4>1. /\ i = 0 => s.misc = "none" /\ n.misc = w
              /\ i # 0 => n.misc = s.misc
          BY <2>2, <2>3, <2>4, <2>8
        <4>2. s.misc # w
          BY DEF Good, Misc
        <4>3. "none" \notin Wdd
          BY RegistryAssumption
        <4> QED BY <3>1, <3>2, <4>1, <4>2, <4>3 DEF Good, Misc
      <3> QED BY <2>4, <2>5, <2>6, <2>7, <3>3, <3>4 DEF Good
    <2>9. CASE n.ret # "OK"
      <3>1. ~IsLive(n, w) /\ n.misc = s.misc
        BY <2>2, <2>3, <2>4, <2>6, <2>9
      <3>2. \A v \in Wdd :
              (IsLive(n, v) <=> IsLive(s, v)) /\ (v # w => n.id[v] = s.id[v])
        BY <2>5, <3>1 DEF Keeps, IsLive
      <3>3. n.ret # "oops" => Ids(n)
        <4>1. n.ret # "oops" => n.ida = s.ida
          BY <2>4, <2>9
        <4> QED BY <3>1, <3>2, <4>1 DEF Good, Ids
      <3>4. Misc(n)
        BY <3>1, <3>2 DEF Good, Misc
      <3> QED BY <2>4, <2>5, <2>6, <2>7, <3>3, <3>4 DEF Good
    <2> QED BY <2>8, <2>9
  <1> QED BY <1>1, <1>2

\* watchdog_dev_unregister of a live device, and its id given back.
LEMMA UnregisterLive ==
  ASSUME NEW s, s \in RegistryType, Ids(s), Misc(s), NEW w \in Wdd, IsLive(s, w),
         Chains(s), w \notin s.reboot \cup s.restart
  PROVE  LET m == watchdog_dev_unregister(s, w)
             n == ida_simple_remove(m, s.id[w])
         IN  /\ m \in RegistryType /\ m.ret = "OK"
             /\ Good(n) /\ ~IsLive(n, w) /\ Keeps(s, n, w)
             /\ n.reboot = s.reboot /\ n.restart = s.restart /\ n.ret = "OK"
  <1> DEFINE i == s.id[w]
             m == [s EXCEPT !.wd_data[w] = "NULL",
                            !.misc = IF s.id[w] = 0 THEN "none" ELSE @,
                            !.ret = "OK"]
             n == [m EXCEPT !.ida = @ \ {i}]
  <1>1. watchdog_dev_unregister(s, w) = m /\ ida_simple_remove(m, s.id[w]) = n
    BY DEF watchdog_dev_unregister, ida_simple_remove, IsLive
  <1>2. /\ m \in RegistryType /\ m.ret = "OK" /\ m.ida = s.ida
        /\ m.id = s.id /\ m.reboot = s.reboot /\ m.restart = s.restart
        /\ m.wd_data[w] = "NULL"
        /\ \A v \in Wdd : v # w => m.wd_data[v] = s.wd_data[v]
        /\ m.misc = IF s.id[w] = 0 THEN "none" ELSE s.misc
    <2> DEFINE b == IF s.id[w] = 0 THEN "none" ELSE s.misc
    <2>1. m = [s EXCEPT !.wd_data[w] = "NULL", !.misc = b, !.ret = "OK"]
      BY DEF RegistryType
    <2>2. b \in {"none", "legacy"} \cup Wdd
      BY DEF RegistryType
    <2> HIDE DEF b, m
    <2>3. /\ m \in RegistryType /\ m.ret = "OK" /\ m.ida = s.ida
          /\ m.id = s.id /\ m.reboot = s.reboot /\ m.restart = s.restart
          /\ m.wd_data = [s.wd_data EXCEPT ![w] = "NULL"] /\ m.misc = b
      BY <2>1, <2>2 DEF RegistryType, Rets
    <2> QED BY <2>3 DEF b, RegistryType
  <1> HIDE DEF m
  <1>3. /\ n \in RegistryType /\ n.ret = "OK" /\ n.ida = s.ida \ {i}
        /\ n.id = s.id /\ n.reboot = s.reboot /\ n.restart = s.restart
        /\ n.wd_data = m.wd_data /\ n.misc = m.misc
    BY <1>2 DEF RegistryType
  <1> HIDE DEF n
  <1>4. ~IsLive(n, w) /\ Keeps(s, n, w)
    BY <1>2, <1>3 DEF IsLive, Keeps
  <1>5. \A v \in Wdd : v # w => (IsLive(n, v) <=> IsLive(s, v))
    BY <1>4 DEF Keeps, IsLive
  <1>6. Ids(n)
    BY <1>3, <1>4, <1>5 DEF Ids
  <1>7. Misc(n)
    <2>1. "none" \notin Wdd
      BY RegistryAssumption
    <2>2. \A v \in Wdd : IsLive(s, v) /\ s.id[v] = s.id[w] => v = w
      BY DEF Ids
    <2> QED BY <1>2, <1>3, <1>4, <1>5, <2>1, <2>2 DEF Misc
  <1>8. Chains(n)
    <2>1. s.reboot \cup s.restart \subseteq Wdd
      BY DEF RegistryType
    <2> QED BY <1>3, <1>5, <2>1 DEF Chains
  <1> QED BY <1>1, <1>2, <1>3, <1>4, <1>6, <1>7, <1>8 DEF Good

\* The notifiers of a device that just went live.
LEMMA NotifiersGood ==
  ASSUME NEW s, Good(s), NEW w \in Wdd, IsLive(s, w), s.ret = "OK",
         w \notin s.reboot \cup s.restart, NEW n \in Notifiers(s, w)
  PROVE  /\ Good(n) /\ Keeps(s, n, w) /\ n.ret # "oops"
         /\ n.ret = "OK" <=> IsLive(n, w)
  <1> DEFINE undone == ida_simple_remove(watchdog_dev_unregister(s, w), s.id[w])
             with(r) == [r EXCEPT !.restart = @ \cup {w}]
             booted == [s EXCEPT !.reboot = @ \cup {w}]
             fail == [undone EXCEPT !.ret = "ENOMEM"]
  <1>1. /\ Good(undone) /\ ~IsLive(undone, w) /\ Keeps(s, undone, w)
        /\ undone.reboot = s.reboot /\ undone.restart = s.restart
    BY UnregisterLive DEF Good
  <1>2. PICK r \in {s, booted, fail} :
          /\ n = r \/ (r.ret = "OK" /\ n = with(r))
          /\ r = booted => r = s \/ w \in StopOnReboot
    <2> DEFINE rebooted == IF w \notin StopOnReboot THEN {s}
                           ELSE {booted} \cup IfFails({fail})
    <2>1. Notifiers(s, w) =
            UNION {IF r.ret = "OK" /\ w \in Restart
                   THEN {with(r)} \cup IfFails({r}) ELSE {r} : r \in rebooted}
      BY DEF Notifiers
    <2>2. PICK r \in rebooted : n \in IF r.ret = "OK" /\ w \in Restart
                                      THEN {with(r)} \cup IfFails({r}) ELSE {r}
      BY <2>1
    <2>3. n = r \/ (r.ret = "OK" /\ n = with(r))
      BY <2>2 DEF IfFails
    <2>4. r \in {s, booted, fail} /\ (r = booted => r = s \/ w \in StopOnReboot)
      BY <2>2 DEF IfFails
    <2> QED BY <2>3, <2>4
  <1> HIDE DEF undone
  <1>3. CASE r = fail
    <2>1. /\ fail \in RegistryType /\ fail.ret = "ENOMEM" /\ fail.id = undone.id
          /\ fail.wd_data = undone.wd_data /\ fail.ida = undone.ida
          /\ fail.misc = undone.misc /\ fail.reboot = undone.reboot
          /\ fail.restart = undone.restart
      BY <1>1 DEF Good, RegistryType, Rets
    <2> HIDE DEF fail
    <2>2. n = fail
      BY <1>2, <1>3, <2>1
    <2> QED BY <1>1, <2>1, <2>2 DEF Good, Ids, Misc, Chains, IsLive, Keeps
  <1>4. ASSUME r \in {s, booted} PROVE Good(r) /\ Keeps(s, r, w) /\ IsLive(r, w)
                                       /\ r.ret = "OK"
    <2>1. CASE r = s
      BY <2>1 DEF Keeps
    <2>2. CASE r = booted
      <3>1. /\ r \in RegistryType /\ r.ret = "OK" /\ r.id = s.id
            /\ r.wd_data = s.wd_data /\ r.ida = s.ida
            /\ r.misc = s.misc /\ r.reboot = s.reboot \cup {w}
            /\ r.restart = s.restart
        BY <2>2 DEF Good, RegistryType
      <3>2. w \in StopOnReboot \/ r = s
        BY <1>2, <2>2
      <3> QED BY <3>1, <3>2 DEF Good, Ids, Misc, Chains, IsLive, Keeps
    <2> QED BY <1>4, <2>1, <2>2
  <1>5. CASE r \in {s, booted}
    <2>1. Good(r) /\ Keeps(s, r, w) /\ IsLive(r, w) /\ r.ret = "OK"
      BY <1>4, <1>5
    <2>2. CASE n = r
      BY <2>1, <2>2
    <2>3. CASE n = with(r)
      <3>1. /\ n \in RegistryType /\ n.ret = "OK" /\ n.id = r.id
            /\ n.wd_data = r.wd_data /\ n.ida = r.ida
            /\ n.misc = r.misc /\ n.reboot = r.reboot
            /\ n.restart = r.restart \cup {w}
        BY <2>1, <2>3 DEF Good, RegistryType
      <3> QED BY <2>1, <3>1 DEF Good, Ids, Misc, Chains, IsLive, Keeps
    <2> QED BY <1>2, <2>2, <2>3
  <1> QED BY <1>2, <1>3, <1>5

\* __watchdog_register_device, of a device that is not live.
LEMMA RegisterGood ==
  ASSUME NEW s, Good(s), NEW w \in Wdd, ~IsLive(s, w),
         NEW n \in core_register_device(s, w)
  PROVE  /\ n \in RegistryType /\ Chains(n) /\ Keeps(s, n, w)
         /\ n.ret # "oops" => Good(n)
         /\ n.ret = "OK" <=> IsLive(n, w)
  <1> DEFINE first == WithId(s, w, FirstId(s, w))
             again == UNION {IF m.ret = "EBUSY" /\ m.id[w] = 0
                             THEN WithId(m, w, ida_simple_get(m, 1, MaxDogs))
                             ELSE {m} : m \in first}
  <1>1. PICK k \in again :
          n \in IF k.ret = "OK" THEN Notifiers(k, w) ELSE {k}
    BY DEF core_register_device
  <1>2. PICK m \in first :
          k \in IF m.ret = "EBUSY" /\ m.id[w] = 0
                THEN WithId(m, w, ida_simple_get(m, 1, MaxDogs)) ELSE {m}
    OBVIOUS
  <1>3. /\ m \in RegistryType /\ Chains(m) /\ Keeps(s, m, w)
        /\ m.reboot = s.reboot /\ m.restart = s.restart
        /\ m.ret # "oops" => Good(m)
        /\ m.ret = "OK" <=> IsLive(m, w)
    BY FirstIdFree, WithIdGood
  <1> HIDE DEF first, again
  <1>4. /\ k \in RegistryType /\ Chains(k) /\ Keeps(s, k, w)
        /\ k.reboot = s.reboot /\ k.restart = s.restart
        /\ k.ret # "oops" => Good(k)
        /\ k.ret = "OK" <=> IsLive(k, w)
    <2>1. CASE m.ret = "EBUSY" /\ m.id[w] = 0
      <3> DEFINE i == ida_simple_get(m, 1, MaxDogs)
      <3>1. i = -1 \/ (i \in Nat /\ i \notin m.ida)
        BY RegistryAssumption, IdaGet
      <3>2. k \in WithId(m, w, i) /\ Good(m) /\ ~IsLive(m, w)
        BY <1>2, <1>3, <2>1
      <3> HIDE DEF i
      <3>3. /\ k \in RegistryType /\ Chains(k) /\ Keeps(m, k, w)
            /\ k.reboot = m.reboot /\ k.restart = m.restart
            /\ k.ret # "oops" => Good(k)
            /\ k.ret = "OK" <=> IsLive(k, w)
        BY <3>1, <3>2, WithIdGood
      <3> QED BY <1>3, <3>3 DEF Keeps
    <2>2. CASE ~(m.ret = "EBUSY" /\ m.id[w] = 0)
      BY <1>2, <1>3, <2>2
    <2> QED BY <2>1, <2>2
  <1>5. CASE k.ret = "OK"
    <2>1. w \notin k.reboot \cup k.restart
      BY <1>4 DEF Good, Chains
    <2>2. n \in Notifiers(k, w) /\ IsLive(k, w) /\ Good(k)
      BY <1>1, <1>4, <1>5
    <2>3. /\ Good(n) /\ Keeps(k, n, w) /\ n.ret # "oops"
          /\ n.ret = "OK" <=> IsLive(n, w)
      BY <1>5, <2>1, <2>2, NotifiersGood
    <2> QED BY <1>4, <2>3 DEF Keeps, Good
  <1>6. CASE k.ret # "OK"
    BY <1>1, <1>4, <1>6
  <1> QED BY <1>5, <1>6

\* __watchdog_unregister_device
LEMMA UnregisterGood ==
  ASSUME NEW s, Good(s), NEW w \in Wdd
  PROVE  LET n == core_unregister_device(s, w)
         IN  /\ n \in RegistryType /\ Chains(n) /\ Keeps(s, n, w)
             /\ n.ret # "oops" => Good(n) /\ ~IsLive(n, w)
  <1> DEFINE p == [s EXCEPT !.restart = @ \ {w},
                            !.reboot = IF w \in StopOnReboot THEN @ \ {w} ELSE @]
             m == watchdog_dev_unregister(p, w)
             n == core_unregister_device(s, w)
  <1>1. /\ p \in RegistryType /\ p.restart = s.restart \ {w}
        /\ p.reboot = s.reboot \ {w} /\ p.id = s.id /\ p.ida = s.ida
        /\ p.wd_data = s.wd_data /\ p.misc = s.misc
    <2>1. p = [s EXCEPT !.restart = @ \ {w}, !.reboot = s.reboot \ {w}]
      BY DEF Good, Chains, RegistryType
    <2> QED BY <2>1 DEF Good, RegistryType
  <1>2. n = IF m.ret = "oops" THEN m ELSE ida_simple_remove(m, s.id[w])
    BY DEF core_unregister_device
  <1> HIDE DEF p
  <1>3. Ids(p) /\ Misc(p) /\ Chains(p) /\ Keeps(s, p, w)
    BY <1>1 DEF Good, Ids, Misc, Chains, Keeps, IsLive
  <1>4. CASE IsLive(s, w)
    <2>1. IsLive(p, w) /\ w \notin p.reboot \cup p.restart
      BY <1>1, <1>4 DEF IsLive
    <2>2. LET q == ida_simple_remove(m, p.id[w])
          IN  /\ m \in RegistryType /\ m.ret = "OK"
              /\ Good(q) /\ ~IsLive(q, w) /\ Keeps(p, q, w)
      BY <1>1, <1>3, <2>1, UnregisterLive
    <2> HIDE DEF m
    <2>3. n = ida_simple_remove(m, p.id[w])
      BY <1>1, <1>2, <2>2
    <2> QED BY <1>3, <2>2, <2>3 DEF Good, Keeps
  <1>5. CASE ~IsLive(s, w)
    <2>1. m = [p EXCEPT !.ret = "oops"]
      BY <1>1, <1>5 DEF watchdog_dev_unregister, IsLive
    <2>2. /\ m \in RegistryType /\ m.ret = "oops" /\ m.id = p.id
          /\ m.wd_data = p.wd_data /\ m.reboot = p.reboot
          /\ m.restart = p.restart
      BY <1>1, <2>1 DEF RegistryType, Rets
    <2> QED BY <1>2, <1>3, <2>2 DEF Chains, Keeps, IsLive
  <1> QED BY <1>4, <1>5

\* It comes back when the device is live.
LEMMA UnregisterReturns ==
  ASSUME NEW s, Good(s), NEW w \in Wdd, IsLive(s, w)
  PROVE  core_unregister_device(s, w).ret # "oops"
  <1> DEFINE p == [s EXCEPT !.restart = @ \ {w},
                            !.reboot = IF w \in StopOnReboot THEN @ \ {w} ELSE @]
             m == watchdog_dev_unregister(p, w)
  <1>1. p.wd_data = s.wd_data /\ p.id = s.id
    BY DEF Good, RegistryType
  <1>2. p \in RegistryType
    BY DEF Good, RegistryType
  <1>3. core_unregister_device(s, w) =
          IF m.ret = "oops" THEN m ELSE ida_simple_remove(m, s.id[w])
    BY DEF core_unregister_device
  <1> HIDE DEF p
  <1>4. m = [p EXCEPT !.wd_data[w] = "NULL",
                      !.misc = IF p.id[w] = 0 THEN "none" ELSE @, !.ret = "OK"]
    BY <1>1 DEF watchdog_dev_unregister, IsLive
  <1>5. m.ret = "OK"
    BY <1>2, <1>4 DEF RegistryType
  <1>6. core_unregister_device(s, w) = [m EXCEPT !.ida = @ \ {s.id[w]}]
    BY <1>3, <1>5 DEF ida_simple_remove
  <1>7. DOMAIN m = DOMAIN p
    BY <1>4
  <1> QED BY <1>2, <1>5, <1>6, <1>7 DEF RegistryType

\* A wdd that is freed leaves nothing behind, if it was not live.
LEMMA FreshGood ==
  ASSUME NEW s \in RegistryType, NEW w \in Wdd, ~IsLive(s, w)
  PROVE  LET n == Fresh(s, w)
         IN  /\ n \in RegistryType /\ ~IsLive(n, w)
             /\ \A v \in Wdd : v # w =>
                  n.id[v] = s.id[v] /\ n.wd_data[v] = s.wd_data[v]
             /\ n.reboot = s.reboot /\ n.restart = s.restart
             /\ Chains(s) => Chains(n)
             /\ Good(s) => Good(n)
  <1> DEFINE n == Fresh(s, w)
  <1>1. /\ n \in RegistryType /\ n.wd_data[w] = "NULL"
        /\ \A v \in Wdd : v # w =>
             n.id[v] = s.id[v] /\ n.wd_data[v] = s.wd_data[v]
        /\ n.reboot = s.reboot /\ n.restart = s.restart
        /\ n.ida = s.ida /\ n.misc = s.misc
    BY DEF Fresh, RegistryType
  <1> HIDE DEF n
  <1>2. \A v \in Wdd : IsLive(n, v) <=> IsLive(s, v)
    BY <1>1 DEF IsLive
  <1>3. Chains(s) => Chains(n)
    <2>1. s.reboot \cup s.restart \subseteq Wdd
      BY DEF RegistryType
    <2> QED BY <1>1, <1>2, <2>1 DEF Chains
  <1>4. Ids(s) => Ids(n)
    BY <1>1, <1>2 DEF Ids
  <1>5. Misc(s) => Misc(n)
    BY <1>1, <1>2 DEF Misc
  <1> QED BY <1>1, <1>2, <1>3, <1>4, <1>5 DEF Good, n

\* watchdog_deferred_registration_del takes the one entry for w off a list
\* that has every device once.
LEMMA DeferredDel ==
  ASSUME NEW list \in Seq(Wdd), NEW w \in Wdd,
         \A i, j \in DOMAIN list : list[i] = list[j] => i = j
  PROVE  LET d == watchdog_deferred_registration_del(list, w)
         IN  /\ d \in Seq(Wdd)
             /\ \A i \in DOMAIN d :
                  d[i] # w /\ \E j \in DOMAIN list : d[i] = list[j]
             /\ \A i, j \in DOMAIN d : d[i] = d[j] => i = j
  <1> DEFINE at == {i \in DOMAIN list : list[i] = w}
             first == CHOOSE i \in at : \A j \in at : i <= j
             d == watchdog_deferred_registration_del(list, w)
  <1>1. Len(list) \in Nat /\ DOMAIN list = 1 .. Len(list)
    OBVIOUS
  <1>2. CASE at = {}
    <2>1. d = list
      BY <1>2 DEF watchdog_deferred_registration_del
    <2> QED BY <1>2, <2>1
  <1>3. CASE at # {}
    <2>1. PICK k \in DOMAIN list : list[k] = w
      BY <1>3
    <2>2. at = {k} /\ k \in Nat
      BY <1>1, <2>1
    <2>3. first = k
      BY <2>2
    <2>4. d = [i \in 1 .. Len(list) - 1 |->
                 IF i < k THEN list[i] ELSE list[i + 1]]
      BY <1>3, <2>3 DEF watchdog_deferred_registration_del
    <2> HIDE DEF d, at, first
    <2>5. k \in 1 .. Len(list) /\ Len(list) - 1 \in Nat
      BY <1>1, <2>1
    <2>6. \A i \in 1 .. Len(list) - 1 :
            /\ i < k => i \in DOMAIN list /\ i # k
            /\ ~(i < k) => i + 1 \in DOMAIN list /\ i + 1 # k
      BY <1>1, <2>5
    <2>7. /\ DOMAIN d = 1 .. Len(list) - 1
          /\ \A i \in DOMAIN d : d[i] = IF i < k THEN list[i] ELSE list[i + 1]
      BY <2>4
    <2>8. \A i \in DOMAIN d : d[i] # w /\ \E j \in DOMAIN list : d[i] = list[j]
      BY <2>1, <2>6, <2>7
    <2>9. \A i, j \in DOMAIN d : d[i] = d[j] => i = j
      BY <1>1, <2>5, <2>6, <2>7
    <2>10. d \in Seq(Wdd)
      <3>1. \A j \in DOMAIN list : list[j] \in Wdd
        BY <1>1
      <3>2. \A i \in 1 .. Len(list) - 1 : d[i] \in Wdd
        BY <2>7, <2>8, <3>1
      <3> QED BY <2>4, <2>5, <2>7, <3>2, IsASeq
    <2> QED BY <2>8, <2>9, <2>10 DEF d
  <1> QED BY <1>2, <1>3

-----------------------------------------------------------------------------
(* The steps.                                                              *)

\* The variables, gathered into the record the operations work on.
LEMMA RegistryFields ==
  ASSUME TypeOK
  PROVE  /\ Registry \in RegistryType /\ Registry.ret = "OK"
         /\ \A w \in Wdd : IsLive(Registry, w) <=> wd_data[w] = "live"
         /\ Registry.wd_data = wd_data /\ Registry.id = id
         /\ Registry.reboot = reboot /\ Registry.restart = restart
  BY DEF Registry, RegistryType, TypeOK, Rets, IsLive

\* The variables take the values of a registry record.
LEMMA Becomes ==
  ASSUME NEW n \in RegistryType, RegistryBecomes(n)
  PROVE  /\ ida' \subseteq Nat /\ id' \in [Wdd -> Nat]
         /\ wd_data' \in [Wdd -> {"NULL", "live", "failed"}]
         /\ misc' \in {"none", "legacy"} \cup Wdd
         /\ reboot' \subseteq Wdd /\ restart' \subseteq Wdd
         /\ wd_data' = n.wd_data
         /\ Chains(n) => Chains(Registry)'
         /\ Good(n) => Good(Registry)'
  <1>1. /\ ida' = n.ida /\ id' = n.id /\ wd_data' = n.wd_data
        /\ misc' = n.misc /\ reboot' = n.reboot /\ restart' = n.restart
    BY DEF RegistryBecomes
  <1>2. /\ ida' \subseteq Nat /\ id' \in [Wdd -> Nat]
        /\ wd_data' \in [Wdd -> {"NULL", "live", "failed"}]
        /\ misc' \in {"none", "legacy"} \cup Wdd
        /\ reboot' \subseteq Wdd /\ restart' \subseteq Wdd
    BY <1>1 DEF RegistryType
  <1>3. Chains(n) => Chains(Registry)'
    BY <1>1 DEF Chains, Registry, IsLive
  <1>4. Good(n) => Good(Registry)'
    <2>1. Ids(n) => Ids(Registry)'
      BY <1>1 DEF Ids, Registry, IsLive
    <2>2. Misc(n) => Misc(Registry)'
      BY <1>1 DEF Misc, Registry, IsLive
    <2>3. Registry' \in RegistryType
      BY <1>2 DEF Registry, RegistryType, Rets
    <2> QED BY <1>3, <2>1, <2>2, <2>3 DEF Good, RegistryType, Rets
  <1> QED BY <1>1, <1>2, <1>3, <1>4

\* The invariant holds at the start.
LEMMA InitInv == Init => Inv
  <1> SUFFICES ASSUME Init PROVE Inv
    OBVIOUS
  <1>1. TypeOK
    <2>1. deferred \in Seq(Wdd)
      BY EmptySeq DEF Init
    <2>2. /\ id \in [Wdd -> Nat] /\ ida \subseteq Nat
          /\ wd_data \in [Wdd -> {"NULL", "live", "failed"}]
          /\ driver \in [Wdd -> {"unbound", "bound"}]
      BY DEF Init
    <2> QED BY <2>1, <2>2 DEF Init, TypeOK
  <1>2. /\ Registry.ida = {} /\ Registry.misc = "none" /\ Registry.reboot = {}
        /\ Registry.restart = {} /\ \A w \in Wdd : ~IsLive(Registry, w)
    BY DEF Init, Registry, IsLive
  <1>3. Good(Registry)
    <2>1. "none" \notin Wdd
      BY RegistryAssumption
    <2> QED BY <1>1, <1>2, <2>1, RegistryFields DEF Good, Ids, Misc, Chains
  <1> QED BY <1>1, <1>3 DEF Inv, Good, Init, ListInv, PhaseInv, UnboundInv

\* A driver registers its device.
LEMMA ProbeInv ==
  ASSUME Inv, NEW w \in Wdd, Probe(w)
  PROVE  Inv'
  <1>1. /\ TypeOK /\ Alive /\ Good(Registry) /\ ~IsLive(Registry, w)
        /\ Registry \in RegistryType /\ mutex = "free" /\ init # "running"
        /\ driver[w] = "unbound" /\ wd_data[w] # "live"
        /\ init' = init /\ done' = done
    BY RegistryFields DEF Inv, Probe, Alive, PhaseInv, UnboundInv
  <1>2. CASE done
    <2>1. PICK s \in core_register_device(Registry, w) :
            /\ RegistryBecomes(IF s.ret \in {"OK", "oops"}
                               THEN s ELSE Fresh(s, w))
            /\ driver' = [driver EXCEPT
                            ![w] = IF s.ret \in {"OK", "oops"} THEN "bound"
                                                               ELSE @]
            /\ mutex' = IF s.ret = "oops" THEN "dead" ELSE "free"
      BY <1>2 DEF Probe
    <2> DEFINE n == IF s.ret \in {"OK", "oops"} THEN s ELSE Fresh(s, w)
    <2>2. /\ s \in RegistryType /\ Chains(s) /\ Keeps(Registry, s, w)
          /\ s.ret # "oops" => Good(s)
          /\ s.ret = "OK" <=> IsLive(s, w)
      BY <1>1, RegisterGood
    <2>3. /\ n \in RegistryType /\ Chains(n)
          /\ \A v \in Wdd : v # w => n.wd_data[v] = wd_data[v]
          /\ s.ret # "oops" => Good(n)
          /\ IsLive(n, w) => s.ret = "OK"
      <3>1. CASE s.ret \in {"OK", "oops"}
        BY <1>1, <2>2, <3>1, RegistryFields DEF Keeps
      <3>2. CASE s.ret \notin {"OK", "oops"}
        BY <1>1, <2>2, <3>2, RegistryFields, FreshGood DEF Keeps
      <3> QED BY <3>1, <3>2
    <2> HIDE DEF n
    <2>4. RegistryBecomes(n)
      BY <2>1 DEF n
    <2>5. deferred' = deferred /\ deferred = <<>>
      BY <1>1, <1>2 DEF Probe, Inv, PhaseInv
    <2>6. driver' \in [Wdd -> {"unbound", "bound"}]
      BY <1>1, <2>1 DEF TypeOK
    <2>7. mutex' \in {"free", "dead"} /\ (mutex' # "dead" => s.ret # "oops")
      BY <2>1
    <2>8. TypeOK'
      BY <1>1, <2>3, <2>4, <2>5, <2>6, <2>7, Becomes DEF TypeOK
    <2>9. (Alive => Good(Registry))' /\ Chains(Registry)'
      BY <2>3, <2>4, <2>7, Becomes DEF Alive
    <2>10. ListInv'
      BY <2>5 DEF ListInv
    <2>11. PhaseInv'
      BY <1>1, <1>2, <2>5 DEF PhaseInv
    <2>12. UnboundInv'
      <3>1. wd_data' = n.wd_data
        BY <2>3, <2>4, Becomes
      <3>2. ASSUME NEW v \in Wdd, driver'[v] = "unbound"
            PROVE  wd_data'[v] # "live"
        <4>1. CASE v = w
          <5>1. s.ret # "OK"
            BY <1>1, <2>1, <3>2, <4>1 DEF TypeOK
          <5> QED BY <2>3, <3>1, <4>1, <5>1 DEF IsLive
        <4>2. CASE v # w
          <5>1. driver[v] = "unbound"
            BY <1>1, <2>1, <3>2, <4>2 DEF TypeOK
          <5> QED BY <2>3, <3>1, <4>2, <5>1 DEF Inv, UnboundInv
        <4> QED BY <4>1, <4>2
      <3> QED BY <3>2 DEF UnboundInv
    <2> QED BY <2>8, <2>9, <2>10, <2>11, <2>12 DEF Inv
  <1>3. CASE ~done
    <2>1. /\ deferred' = Append(deferred, w)
          /\ driver' = [driver EXCEPT ![w] = "bound"]
          /\ UNCHANGED registryVars /\ mutex' = mutex
      BY <1>3 DEF Probe
    <2>2. /\ ida' = ida /\ id' = id /\ wd_data' = wd_data /\ misc' = misc
          /\ reboot' = reboot /\ restart' = restart
      BY <2>1 DEF registryVars
    <2>3. TypeOK'
      BY <1>1, <2>1, <2>2 DEF TypeOK
    <2>4. (Alive => Good(Registry))' /\ Chains(Registry)'
      BY <1>1, <2>2 DEF Good, Ids, Misc, Chains, IsLive, Registry
    <2>5. ListInv'
      <3>1. deferred \in Seq(Wdd) /\ driver \in [Wdd -> {"unbound", "bound"}]
        BY <1>1 DEF TypeOK
      <3>2. /\ DOMAIN deferred = 1 .. Len(deferred)
            /\ DOMAIN deferred' = 1 .. Len(deferred) + 1
            /\ \A i \in DOMAIN deferred :
                 deferred'[i] = deferred[i] /\ deferred[i] \in Wdd
            /\ deferred'[Len(deferred) + 1] = w /\ Len(deferred) \in Nat
        BY <2>1, <3>1
      <3>3. \A i \in DOMAIN deferred : deferred[i] # w
        BY <1>1 DEF Inv, ListInv
      <3>4. \A i \in DOMAIN deferred' :
              i \in DOMAIN deferred \/ i = Len(deferred) + 1
        BY <3>2
      <3>5. \A i, j \in DOMAIN deferred' : deferred'[i] = deferred'[j] => i = j
        BY <3>2, <3>3, <3>4 DEF Inv, ListInv
      <3>6. \A i \in DOMAIN deferred' : /\ driver'[deferred'[i]] = "bound"
                                        /\ wd_data'[deferred'[i]] # "live"
        BY <1>1, <2>1, <2>2, <3>1, <3>2, <3>4 DEF Inv, ListInv
      <3> QED BY <3>5, <3>6 DEF ListInv
    <2>6. PhaseInv'
      BY <1>1, <1>3, <2>2 DEF Inv, PhaseInv
    <2>7. UnboundInv'
      BY <1>1, <2>1, <2>2 DEF Inv, UnboundInv, TypeOK
    <2> QED BY <2>3, <2>4, <2>5, <2>6, <2>7 DEF Inv
  <1> QED BY <1>2, <1>3

\* A driver unregisters its device, or takes it off the deferred list.
LEMMA RemoveInv ==
  ASSUME Inv, NEW w \in Wdd, Remove(w)
  PROVE  Inv'
  <1> DEFINE s == IF done THEN core_unregister_device(Registry, w) ELSE Registry
             n == IF s.ret = "oops" THEN s ELSE Fresh(s, w)
  <1>1. /\ TypeOK /\ Alive /\ Good(Registry) /\ Registry \in RegistryType
        /\ mutex = "free" /\ init # "running" /\ driver[w] = "bound"
        /\ init' = init /\ done' = done /\ Registry.ret = "OK"
    BY RegistryFields DEF Inv, Remove, Alive, PhaseInv
  <1>2. /\ s \in RegistryType /\ Chains(s) /\ Keeps(Registry, s, w)
        /\ s.ret # "oops" => Good(s) /\ ~IsLive(s, w)
    <2>1. CASE done
      BY <1>1, <2>1, UnregisterGood
    <2>2. CASE ~done
      <3>1. ~IsLive(Registry, w)
        BY <1>1, <2>2, RegistryFields DEF Inv, PhaseInv
      <3> QED BY <1>1, <2>2, <3>1 DEF Good, Keeps
    <2> QED BY <2>1, <2>2
  <1>3. /\ RegistryBecomes(n)
        /\ driver' = [driver EXCEPT ![w] = IF s.ret = "oops" THEN @
                                                           ELSE "unbound"]
        /\ mutex' = IF s.ret = "oops" THEN "dead" ELSE "free"
        /\ deferred' = IF done THEN deferred
                       ELSE watchdog_deferred_registration_del(deferred, w)
    BY DEF Remove
  <1> HIDE DEF s
  <1>4. /\ n \in RegistryType /\ Chains(n)
        /\ \A v \in Wdd : v # w => n.wd_data[v] = wd_data[v]
        /\ s.ret # "oops" => Good(n) /\ ~IsLive(n, w)
    <2>1. CASE s.ret = "oops"
      BY <1>1, <1>2, <2>1, RegistryFields DEF Keeps
    <2>2. CASE s.ret # "oops"
      BY <1>1, <1>2, <2>2, RegistryFields, FreshGood DEF Keeps
    <2> QED BY <2>1, <2>2
  <1> HIDE DEF n
  <1>5. wd_data' = n.wd_data
    BY <1>3, <1>4, Becomes
  <1>6. /\ driver' \in [Wdd -> {"unbound", "bound"}]
        /\ \A v \in Wdd : v # w => driver'[v] = driver[v]
        /\ s.ret = "oops" => driver'[w] = "bound"
    BY <1>1, <1>3 DEF TypeOK
  <1>7. mutex' \in {"free", "dead"} /\ (mutex' # "dead" => s.ret # "oops")
    BY <1>3
  <1>8. deferred' \in Seq(Wdd) /\ ListInv'
    <2>1. CASE done
      <3>1. deferred' = <<>>
        BY <1>1, <1>3, <2>1 DEF Inv, PhaseInv
      <3> QED BY <3>1, EmptySeq DEF ListInv
    <2>2. CASE ~done
      <3>1. deferred' = watchdog_deferred_registration_del(deferred, w)
        BY <1>3, <2>2
      <3>2. /\ deferred \in Seq(Wdd)
            /\ \A i, j \in DOMAIN deferred : deferred[i] = deferred[j] => i = j
        BY <1>1 DEF Inv, TypeOK, ListInv
      <3>3. /\ deferred' \in Seq(Wdd)
            /\ \A i \in DOMAIN deferred' :
                 /\ deferred'[i] # w
                 /\ \E j \in DOMAIN deferred : deferred'[i] = deferred[j]
            /\ \A i, j \in DOMAIN deferred' : deferred'[i] = deferred'[j] => i = j
        BY <3>1, <3>2, DeferredDel
      <3>4. \A j \in DOMAIN deferred : deferred[j] \in Wdd
        BY <3>2
      <3>5. \A i \in DOMAIN deferred' : /\ driver'[deferred'[i]] = "bound"
                                        /\ wd_data'[deferred'[i]] # "live"
        BY <1>4, <1>5, <1>6, <3>3, <3>4 DEF Inv, ListInv
      <3> QED BY <3>3, <3>5 DEF ListInv
    <2> QED BY <2>1, <2>2
  <1>9. TypeOK'
    BY <1>1, <1>3, <1>4, <1>6, <1>7, <1>8, Becomes DEF TypeOK
  <1>10. (Alive => Good(Registry))' /\ Chains(Registry)'
    BY <1>3, <1>4, <1>7, Becomes DEF Alive
  <1>11. PhaseInv'
    <2>1. ~done => \A v \in Wdd : wd_data'[v] # "live"
      <3> SUFFICES ASSUME ~done, NEW v \in Wdd PROVE wd_data'[v] # "live"
        OBVIOUS
      <3>1. s.ret = "OK"
        BY <1>1 DEF s
      <3> QED BY <1>4, <1>5, <3>1 DEF Inv, PhaseInv, IsLive
    <2>2. done => deferred' = <<>>
      BY <1>1, <1>3 DEF Inv, PhaseInv
    <2> QED BY <1>1, <2>1, <2>2 DEF PhaseInv
  <1>12. UnboundInv'
    <2> SUFFICES ASSUME NEW v \in Wdd, driver'[v] = "unbound"
                 PROVE  wd_data'[v] # "live"
      BY DEF UnboundInv
    <2>1. CASE v = w
      BY <1>4, <1>5, <1>6, <2>1 DEF IsLive
    <2>2. CASE v # w
      BY <1>4, <1>5, <1>6, <2>2 DEF Inv, UnboundInv
    <2> QED BY <2>1, <2>2
  <1> QED BY <1>8, <1>9, <1>10, <1>11, <1>12 DEF Inv

\* watchdog_deferred_registration takes the next device off the list.
LEMMA DeferredNextInv ==
  ASSUME Inv, DeferredNext
  PROVE  Inv'
  <1> DEFINE w == Head(deferred)
  <1>1. /\ TypeOK /\ mutex = "init" /\ init = "running" /\ done
        /\ Good(Registry) /\ deferred \in Seq(Wdd) /\ deferred # <<>>
    BY DEF Inv, DeferredNext, Alive, PhaseInv, TypeOK
  <1>2. /\ Len(deferred) \in Nat /\ DOMAIN deferred = 1 .. Len(deferred)
        /\ 1 \in DOMAIN deferred /\ w = deferred[1] /\ w \in Wdd
        /\ Tail(deferred) \in Seq(Wdd)
        /\ DOMAIN Tail(deferred) = 1 .. Len(deferred) - 1
        /\ \A i \in 1 .. Len(deferred) - 1 : Tail(deferred)[i] = deferred[i + 1]
    BY <1>1
  <1>3. /\ driver[w] = "bound" /\ wd_data[w] # "live" /\ ~IsLive(Registry, w)
    BY <1>1, <1>2, RegistryFields DEF Inv, ListInv
  <1> HIDE DEF w
  <1>4. PICK n \in core_register_device(Registry, w) :
          /\ RegistryBecomes(n)
          /\ mutex' = IF n.ret = "oops" THEN "dead" ELSE mutex
          /\ init' = IF n.ret = "oops" THEN "failed" ELSE init
    BY DEF DeferredNext, w
  <1>5. deferred' = Tail(deferred) /\ done' = done /\ driver' = driver
    BY DEF DeferredNext
  <1>6. /\ n \in RegistryType /\ Chains(n) /\ Keeps(Registry, n, w)
        /\ n.ret # "oops" => Good(n)
    BY <1>1, <1>2, <1>3, RegisterGood
  <1>7. \A v \in Wdd : v # w => wd_data'[v] = wd_data[v]
    BY <1>1, <1>4, <1>6, Becomes, RegistryFields DEF Keeps
  <1>8. TypeOK'
    BY <1>1, <1>2, <1>4, <1>5, <1>6, Becomes DEF TypeOK
  <1>9. (Alive => Good(Registry))' /\ Chains(Registry)'
    BY <1>4, <1>6, Becomes DEF Alive
  <1>10. ListInv'
    <2>1. \A i \in DOMAIN deferred' :
            /\ i + 1 \in DOMAIN deferred /\ deferred'[i] = deferred[i + 1]
            /\ i + 1 # 1 /\ i \in Int
      BY <1>2, <1>5
    <2>2. \A i \in DOMAIN deferred' : deferred'[i] # w /\ deferred'[i] \in Wdd
      BY <1>1, <1>2, <2>1 DEF Inv, ListInv
    <2>3. \A i \in DOMAIN deferred' : /\ driver'[deferred'[i]] = "bound"
                                      /\ wd_data'[deferred'[i]] # "live"
      BY <1>5, <1>7, <2>1, <2>2 DEF Inv, ListInv
    <2>4. \A i, j \in DOMAIN deferred' : deferred'[i] = deferred'[j] => i = j
      <3> SUFFICES ASSUME NEW i \in DOMAIN deferred', NEW j \in DOMAIN deferred',
                          deferred'[i] = deferred'[j]
                   PROVE  i = j
        OBVIOUS
      <3>1. i + 1 = j + 1
        BY <2>1 DEF Inv, ListInv
      <3> QED BY <2>1, <3>1
    <2> QED BY <2>3, <2>4 DEF ListInv
  <1>11. PhaseInv'
    BY <1>1, <1>4, <1>5 DEF PhaseInv
  <1>12. UnboundInv'
    BY <1>3, <1>5, <1>7 DEF Inv, UnboundInv
  <1> QED BY <1>8, <1>9, <1>10, <1>11, <1>12 DEF Inv

\* A step that leaves the registry, the drivers and the list alone.
LEMMA FrameInv ==
  ASSUME Inv, TypeOK', UNCHANGED <<registryVars, deferred, driver>>, PhaseInv',
         mutex = "dead" => mutex' = "dead"
  PROVE  Inv'
  <1>1. /\ ida' = ida /\ id' = id /\ wd_data' = wd_data /\ misc' = misc
        /\ reboot' = reboot /\ restart' = restart
        /\ deferred' = deferred /\ driver' = driver
    BY DEF registryVars
  <1>2. (Alive => Good(Registry))' /\ Chains(Registry)'
    BY <1>1 DEF Inv, Alive, Good, Ids, Misc, Chains, IsLive, Registry
  <1>3. ListInv' /\ UnboundInv'
    BY <1>1 DEF Inv, ListInv, UnboundInv
  <1> QED BY <1>2, <1>3 DEF Inv

\* A legacy module takes or leaves the misc node.
LEMMA LegacyInv ==
  ASSUME Inv, LegacyLoad \/ LegacyUnload
  PROVE  Inv'
  <1>1. /\ misc \in {"none", "legacy"} /\ misc' \in {"none", "legacy"}
        /\ UNCHANGED <<init, mutex, done, deferred, ida, id, wd_data, reboot,
                       restart, driver>>
    BY DEF LegacyLoad, LegacyUnload
  <1>2. TypeOK'
    BY <1>1 DEF Inv, TypeOK
  <1>3. Chains(Registry)'
    BY <1>1 DEF Inv, Chains, Registry, IsLive
  <1>4. (Alive => Good(Registry))'
    <2> SUFFICES ASSUME Alive, Good(Registry) PROVE Good(Registry)'
      BY <1>1 DEF Inv, Alive
    <2>1. Registry' \in RegistryType
      BY <1>2 DEF TypeOK, Registry, RegistryType, Rets
    <2>2. Ids(Registry)'
      BY <1>1 DEF Good, Ids, Registry, IsLive
    <2>3. Misc(Registry)'
      <3>1. \A v \in Wdd : v # misc /\ v # misc'
        BY <1>1, RegistryAssumption
      <3> QED BY <1>1, <3>1 DEF Good, Misc, Registry, IsLive
    <2> QED BY <1>3, <2>1, <2>2, <2>3 DEF Good, RegistryType, Rets
  <1>5. ListInv' /\ PhaseInv' /\ UnboundInv'
    BY <1>1 DEF Inv, ListInv, PhaseInv, UnboundInv
  <1> QED BY <1>2, <1>3, <1>4, <1>5 DEF Inv

\* Every step keeps the invariant.
LEMMA NextInv == Inv /\ [Next]_vars => Inv'
  <1> SUFFICES ASSUME Inv, [Next]_vars PROVE Inv'
    OBVIOUS
  <1>1. CASE \E w \in Wdd : Probe(w) \/ Remove(w)
    BY <1>1, ProbeInv, RemoveInv
  <1>2. CASE InitFails
    <2>1. PhaseInv' /\ TypeOK'
      BY <1>2 DEF InitFails, Inv, PhaseInv, TypeOK, registryVars
    <2> QED BY <1>2, <2>1, FrameInv DEF InitFails
  <1>3. CASE InitDeferred
    <2>1. PhaseInv' /\ TypeOK'
      BY <1>3 DEF InitDeferred, Inv, PhaseInv, TypeOK, registryVars
    <2> QED BY <1>3, <2>1, FrameInv DEF InitDeferred
  <1>4. CASE DeferredNext
    BY <1>4, DeferredNextInv
  <1>5. CASE DeferredDone
    <2>1. PhaseInv' /\ TypeOK'
      BY <1>5 DEF DeferredDone, Inv, PhaseInv, TypeOK, registryVars
    <2>2. mutex # "dead"
      BY <1>5 DEF DeferredDone, Inv, PhaseInv
    <2> QED BY <1>5, <2>1, <2>2, FrameInv DEF DeferredDone
  <1>6. CASE LegacyLoad \/ LegacyUnload
    BY <1>6, LegacyInv
  <1>7. CASE UNCHANGED vars
    <2>1. PhaseInv' /\ TypeOK'
      BY <1>7 DEF vars, Inv, PhaseInv, TypeOK
    <2> QED BY <1>7, <2>1, FrameInv DEF vars, registryVars
  <1> QED BY <1>1, <1>2, <1>3, <1>4, <1>5, <1>6, <1>7 DEF Next

\* The invariant holds always.
LEMMA RegistryInvariant == Spec => []Inv
  <1>1. Init => Inv
    BY InitInv
  <1>2. Inv /\ [Next]_vars => Inv'
    BY NextInv
  <1> QED BY <1>1, <1>2, PTL DEF Spec

-----------------------------------------------------------------------------
(* The results.                                                            *)

\* Every variable keeps its type, whatever fails.
THEOREM TypeCorrect == Spec => []TypeOK
  <1>1. Inv => TypeOK
    BY DEF Inv
  <1> QED BY <1>1, RegistryInvariant, PTL

\* For any devices, aliases, limit and failures: as long as no thread has
\* died, an id is allocated exactly while one registered device has it.
THEOREM IdsNeverLeak == Spec => []IdsExact
  <1>1. Inv => IdsExact
    <2> SUFFICES ASSUME Inv, Alive PROVE IdsExact
      BY DEF IdsExact
    <2>1. Registry.ida = ida /\ Registry.id = id /\ Registry.wd_data = wd_data
      BY DEF Registry
    <2>2. Ids(Registry)
      BY DEF Inv, Good
    <2> QED BY <2>1, <2>2 DEF Ids, IsLive, IdsExact, Live
  <1> QED BY <1>1, RegistryInvariant, PTL

\* As long as no thread has died, the misc node belongs to the registered
\* device with id 0, also after the retry behind a legacy module.
THEOREM MiscFollowsIdZero == Spec => []MiscIsZero
  <1>1. Inv => MiscIsZero
    <2> SUFFICES ASSUME Inv, Alive PROVE MiscIsZero
      BY DEF MiscIsZero
    <2>1. Registry.misc = misc /\ Registry.id = id /\ Registry.wd_data = wd_data
      BY DEF Registry
    <2>2. Misc(Registry)
      BY DEF Inv, Good
    <2> QED BY <2>1, <2>2 DEF Misc, IsLive, MiscIsZero, Live
  <1> QED BY <1>1, RegistryInvariant, PTL

\* The reboot and restart chains hold registered devices only, even after a
\* thread has died in the registry.
THEOREM ChainsHoldLive == Spec => []NotifiersLive
  <1>1. Inv => NotifiersLive
    <2> SUFFICES ASSUME Inv, NEW w \in reboot \cup restart PROVE w \in Live
      BY DEF NotifiersLive
    <2>1. /\ Registry.reboot = reboot /\ Registry.restart = restart
          /\ Registry.wd_data = wd_data
      BY DEF Registry
    <2>2. w \in Wdd
      BY DEF Inv, TypeOK
    <2> QED BY <2>1, <2>2 DEF Inv, Chains, IsLive, Live
  <1> QED BY <1>1, RegistryInvariant, PTL

\* The wdd of an unbound driver is on no list and no chain and has no node,
\* whether registration was deferred, failed or completed.
THEOREM NothingDangles == Spec => []UnboundForgotten
  <1>1. Inv => UnboundForgotten
    <2> SUFFICES ASSUME Inv, NEW w \in Wdd, driver[w] = "unbound"
                 PROVE  ~Listed(w) /\ w \notin Live \cup reboot \cup restart
      BY DEF UnboundForgotten
    <2>1. ~Listed(w)
      BY DEF Inv, ListInv, Listed
    <2>2. wd_data[w] # "live"
      BY DEF Inv, UnboundInv
    <2>3. /\ Registry.reboot = reboot /\ Registry.restart = restart
          /\ Registry.wd_data = wd_data
      BY DEF Registry
    <2> QED BY <2>1, <2>2, <2>3 DEF Inv, Chains, IsLive, Live
  <1> QED BY <1>1, RegistryInvariant, PTL

-----------------------------------------------------------------------------
(***************************************************************************)
(* When does 0 from watchdog_register_device mean that the device is       *)
(* registered?  Nobody looks at the result of a deferred registration, so  *)
(* it must not fail: nothing it needs may fail, and an id must be left for *)
(* every device even when a legacy module keeps id 0 from all of them.     *)
(***************************************************************************)
Roomy ==
    /\ MayFail = FALSE
    /\ IsFiniteSet(Wdd) /\ Cardinality(Wdd) < MaxDogs

\* A device that is not registered finds an id other than 0: by the
\* pigeonhole principle the others cannot have them all.
LEMMA IdLeft ==
  ASSUME Roomy, NEW s, Good(s), NEW w \in Wdd, ~IsLive(s, w)
  PROVE  \E i \in 1 .. MaxDogs - 1 : i \notin s.ida
  <1> SUFFICES ASSUME \A i \in 1 .. MaxDogs - 1 : i \in s.ida PROVE FALSE
    OBVIOUS
  <1> DEFINE S == 1 .. MaxDogs - 1
             T == Wdd \ {w}
             f == [i \in S |-> CHOOSE v \in Wdd : IsLive(s, v) /\ s.id[v] = i]
  <1>1. \A i \in S : \E v \in Wdd : IsLive(s, v) /\ s.id[v] = i
    BY DEF Good, Ids
  <1>2. \A i \in S : f[i] \in Wdd /\ IsLive(s, f[i]) /\ s.id[f[i]] = i
    BY <1>1
  <1>3. f \in [S -> T]
    BY <1>2
  <1>4. MaxDogs \in Nat \ {0} /\ IsFiniteSet(Wdd) /\ Cardinality(Wdd) < MaxDogs
    BY RegistryAssumption DEF Roomy
  <1>5. IsFiniteSet(S) /\ Cardinality(S) = MaxDogs - 1
    <2>1. IsFiniteSet(S) /\ Cardinality(S) = IF 1 > MaxDogs - 1 THEN 0
                                             ELSE MaxDogs - 1 - 1 + 1
      BY <1>4, FS_Interval
    <2> QED BY <1>4, <2>1
  <1>6. IsFiniteSet(T) /\ Cardinality(T) = Cardinality(Wdd) - 1
    BY <1>4, FS_RemoveElement
  <1>7. Cardinality(Wdd) \in Nat
    BY <1>4, FS_CardinalityType
  <1>8. Cardinality(T) < Cardinality(S)
    BY <1>4, <1>5, <1>6, <1>7
  <1> HIDE DEF S, T, f
  <1>9. PICK x, y \in S : x # y /\ f[x] = f[y]
    BY <1>3, <1>5, <1>6, <1>8, FS_PigeonHole
  <1> QED BY <1>2, <1>9

\* watchdog_ida gives out an id if one is left.
LEMMA IdaFinds ==
  ASSUME NEW s, NEW low \in Nat, NEW high \in Nat,
         \E i \in low .. high - 1 : i \notin s.ida
  PROVE  LET i == ida_simple_get(s, low, high)
         IN  i \in low .. high - 1 /\ i \notin s.ida
  <1> DEFINE free == {i \in low .. high - 1 : i \notin s.ida}
  <1>1. free # {} /\ free \subseteq Nat
    OBVIOUS
  <1>2. \E i \in free : \A j \in free : i <= j
    BY <1>1, LeastNat
  <1>3. ida_simple_get(s, low, high) \in free
    BY <1>1, <1>2 DEF ida_simple_get
  <1> QED BY <1>3

\* watchdog_dev_register where nothing fails: only a misc node that somebody
\* else has stops it.
LEMMA DevRegisterSucceeds ==
  ASSUME MayFail = FALSE, NEW s \in RegistryType, NEW w \in Wdd,
         NEW n \in watchdog_dev_register(s, w)
  PROVE  /\ n.id = s.id
         /\ \/ n.ret = "OK"
            \/ n.ret = "EBUSY" /\ s.id[w] = 0
  <1>1. \/ n = [[s EXCEPT !.wd_data[w] = "failed"] EXCEPT !.ret = "EBUSY"]
           /\ s.id[w] = 0
        \/ n = [s EXCEPT !.wd_data[w] = "live",
                         !.misc = IF s.id[w] = 0 THEN w ELSE @, !.ret = "OK"]
    BY DEF watchdog_dev_register, IfFails
  <1> QED BY <1>1 DEF RegistryType

\* So with an id the device is registered, or it was id 0 that was taken.
LEMMA WithIdSucceeds ==
  ASSUME MayFail = FALSE, NEW s, Good(s), NEW w \in Wdd,
         NEW i \in Nat, NEW n \in WithId(s, w, i)
  PROVE  n.ret = "OK" \/ (n.ret = "EBUSY" /\ n.id[w] = 0 /\ i = 0)
  <1> DEFINE p == [s EXCEPT !.ida = @ \cup {i}, !.id[w] = i]
  <1>1. PICK m \in watchdog_dev_register(p, w) :
          n = IF m.ret \in {"OK", "oops"} THEN m ELSE ida_simple_remove(m, i)
    BY DEF WithId
  <1>2. p \in RegistryType /\ p.id[w] = i
    BY DEF Good, RegistryType
  <1> HIDE DEF p
  <1>3. m.id = p.id /\ (m.ret = "OK" \/ (m.ret = "EBUSY" /\ p.id[w] = 0))
    BY <1>2, DevRegisterSucceeds
  <1>4. m \in RegistryType
    BY <1>2, DevRegister
  <1>5. n.id = m.id /\ n.ret = m.ret
    BY <1>1, <1>4 DEF ida_simple_remove, RegistryType
  <1> QED BY <1>2, <1>3, <1>5

\* __watchdog_register_device succeeds, if need be at the second attempt.
LEMMA RegisterSucceeds ==
  ASSUME Roomy, NEW s, Good(s), NEW w \in Wdd, ~IsLive(s, w),
         NEW n \in core_register_device(s, w)
  PROVE  n.ret = "OK"
  <1> DEFINE first == WithId(s, w, FirstId(s, w))
             again == UNION {IF m.ret = "EBUSY" /\ m.id[w] = 0
                             THEN WithId(m, w, ida_simple_get(m, 1, MaxDogs))
                             ELSE {m} : m \in first}
  <1>0. MayFail = FALSE /\ MaxDogs \in Nat /\ 0 \in Nat /\ 1 \in Nat
    BY RegistryAssumption DEF Roomy
  <1>1. PICK k \in again :
          n \in IF k.ret = "OK" THEN Notifiers(k, w) ELSE {k}
    BY DEF core_register_device
  <1>2. PICK m \in first :
          k \in IF m.ret = "EBUSY" /\ m.id[w] = 0
                THEN WithId(m, w, ida_simple_get(m, 1, MaxDogs)) ELSE {m}
    OBVIOUS
  <1>3. FirstId(s, w) \in Nat /\ FirstId(s, w) \notin s.ida
    <2>1. FirstId(s, w) = -1 \/ (FirstId(s, w) \in Nat /\ FirstId(s, w) \notin s.ida)
      BY FirstIdFree
    <2>2. \E i \in 0 .. MaxDogs - 1 : i \notin s.ida
      <3>1. PICK i \in 1 .. MaxDogs - 1 : i \notin s.ida
        BY IdLeft
      <3>2. i \in 0 .. MaxDogs - 1
        BY <1>0
      <3> QED BY <3>1, <3>2
    <2> DEFINE g == ida_simple_get(s, 0, MaxDogs)
               a == ida_simple_get(s, Alias[w], Alias[w] + 1)
    <2>3. g \in Nat /\ g # -1
      <3>1. g \in 0 .. MaxDogs - 1
        BY <1>0, <2>2, IdaFinds
      <3> QED BY <1>0, <3>1
    <2>4. \/ FirstId(s, w) = g
          \/ FirstId(s, w) = a /\ ~(a < 0)
      BY DEF FirstId
    <2> HIDE DEF g, a
    <2>5. FirstId(s, w) # -1
      BY <2>3, <2>4
    <2> QED BY <2>1, <2>5
  <1>4. /\ m.ret # "oops" => Good(m)
        /\ m.ret = "OK" <=> IsLive(m, w)
        /\ m.ret = "OK" \/ (m.ret = "EBUSY" /\ m.id[w] = 0)
    <2>1. m.ret # "oops" => Good(m)
      BY <1>3, WithIdGood
    <2>2. m.ret = "OK" <=> IsLive(m, w)
      BY <1>3, WithIdGood
    <2>3. m.ret = "OK" \/ (m.ret = "EBUSY" /\ m.id[w] = 0)
      <3> DEFINE i == FirstId(s, w)
      <3>1. i \in Nat /\ m \in WithId(s, w, i)
        BY <1>3
      <3> HIDE DEF i, first, again
      <3> QED BY <1>0, <3>1, WithIdSucceeds
    <2> QED BY <2>1, <2>2, <2>3
  <1> HIDE DEF first, again
  <1>5. k.ret = "OK"
    <2>1. CASE m.ret = "OK"
      BY <1>2, <2>1
    <2>2. CASE m.ret = "EBUSY" /\ m.id[w] = 0
      <3> DEFINE i == ida_simple_get(m, 1, MaxDogs)
      <3>1. Good(m) /\ ~IsLive(m, w) /\ k \in WithId(m, w, i)
        BY <1>2, <1>4, <2>2
      <3>2. i \in 1 .. MaxDogs - 1 /\ i \notin m.ida
        BY <1>0, <3>1, IdLeft, IdaFinds
      <3>3. i \in Nat /\ i # 0
        BY <1>0, <3>2
      <3> HIDE DEF i
      <3> QED BY <1>0, <3>1, <3>3, WithIdSucceeds
    <2> QED BY <1>4, <2>1, <2>2
  <1>6. k \in RegistryType
    <2>1. CASE m.ret = "OK"
      BY <1>2, <1>4, <2>1 DEF Good
    <2>2. CASE m.ret = "EBUSY" /\ m.id[w] = 0
      <3> DEFINE i == ida_simple_get(m, 1, MaxDogs)
      <3>1. Good(m) /\ ~IsLive(m, w) /\ k \in WithId(m, w, i)
        BY <1>2, <1>4, <2>2
      <3>2. i = -1 \/ (i \in Nat /\ i \notin m.ida)
        BY <1>0, IdaGet
      <3> HIDE DEF i
      <3> QED BY <3>1, <3>2, WithIdGood
    <2> QED BY <1>4, <2>1, <2>2
  <1>7. n \in Notifiers(k, w)
    BY <1>1, <1>5
  <1> QED
    <2> DEFINE booted == IF w \notin StopOnReboot THEN k
                         ELSE [k EXCEPT !.reboot = @ \cup {w}]
    <2>1. n = booted \/ n = [booted EXCEPT !.restart = @ \cup {w}]
      BY <1>0, <1>7 DEF Notifiers, IfFails
    <2>2. booted.ret = "OK" /\ booted \in RegistryType
      BY <1>5, <1>6 DEF RegistryType
    <2> HIDE DEF booted
    <2> QED BY <2>1, <2>2 DEF RegistryType

\* The entries of the other devices stay on the list.
LEMMA DeferredDelKeeps ==
  ASSUME NEW list \in Seq(Wdd), NEW w \in Wdd,
         \A i, j \in DOMAIN list : list[i] = list[j] => i = j,
         NEW l \in DOMAIN list, list[l] # w
  PROVE  LET d == watchdog_deferred_registration_del(list, w)
         IN  \E i \in DOMAIN d : d[i] = list[l]
  <1> DEFINE at == {i \in DOMAIN list : list[i] = w}
             first == CHOOSE i \in at : \A j \in at : i <= j
             d == watchdog_deferred_registration_del(list, w)
  <1>1. Len(list) \in Nat /\ DOMAIN list = 1 .. Len(list)
    OBVIOUS
  <1>2. CASE at = {}
    BY <1>2 DEF watchdog_deferred_registration_del
  <1>3. CASE at # {}
    <2>1. PICK k \in DOMAIN list : list[k] = w
      BY <1>3
    <2>2. at = {k} /\ k \in Nat
      BY <1>1, <2>1
    <2>3. first = k
      BY <2>2
    <2>4. d = [i \in 1 .. Len(list) - 1 |->
                 IF i < k THEN list[i] ELSE list[i + 1]]
      BY <1>3, <2>3 DEF watchdog_deferred_registration_del
    <2> HIDE DEF d, at, first
    <2>5. k # l
      BY <2>1
    <2>6. CASE l < k
      <3>1. l \in 1 .. Len(list) - 1
        BY <1>1, <2>1, <2>6
      <3> QED BY <2>4, <2>6, <3>1 DEF d
    <2>7. CASE ~(l < k)
      <3>1. /\ l - 1 \in 1 .. Len(list) - 1 /\ ~(l - 1 < k) /\ l - 1 + 1 = l
        BY <1>1, <2>1, <2>5, <2>7
      <3>2. l - 1 \in DOMAIN d /\ d[l - 1] = list[l]
        BY <2>4, <3>1
      <3> QED BY <3>2 DEF d
    <2> QED BY <2>6, <2>7
  <1> QED BY <1>2, <1>3

\* Every bound driver's device is registered or waits on the list, and
\* nobody died.
BoundInv ==
    /\ Alive
    /\ \A w \in Wdd : driver[w] = "bound" => wd_data[w] = "live" \/ Listed(w)

\* Every step keeps it.
LEMMA BoundInvNext ==
  ASSUME Roomy, Inv, BoundInv, [Next]_vars
  PROVE  BoundInv'
  <1>1. ASSUME NEW w \in Wdd, Probe(w) PROVE BoundInv'
    <2>1. /\ TypeOK /\ Good(Registry) /\ ~IsLive(Registry, w)
          /\ mutex = "free" /\ driver[w] = "unbound" /\ Alive
          /\ driver \in [Wdd -> {"unbound", "bound"}] /\ deferred \in Seq(Wdd)
      BY <1>1, RegistryFields DEF Inv, Probe, Alive, UnboundInv, TypeOK
    <2>2. CASE done
      <3>1. PICK s \in core_register_device(Registry, w) :
              /\ RegistryBecomes(IF s.ret \in {"OK", "oops"}
                                 THEN s ELSE Fresh(s, w))
              /\ driver' = [driver EXCEPT
                              ![w] = IF s.ret \in {"OK", "oops"} THEN "bound"
                                                                 ELSE @]
              /\ mutex' = IF s.ret = "oops" THEN "dead" ELSE "free"
        BY <1>1, <2>2 DEF Probe
      <3>2. /\ s \in RegistryType /\ Keeps(Registry, s, w)
            /\ s.ret = "OK" <=> IsLive(s, w)
        BY <2>1, RegisterGood
      <3>3. s.ret = "OK"
        BY <2>1, RegisterSucceeds
      <3>4. RegistryBecomes(s)
        BY <3>1, <3>3
      <3>5. /\ wd_data'[w] = "live"
            /\ \A v \in Wdd : v # w => wd_data'[v] = wd_data[v]
        BY <2>1, <3>2, <3>3, <3>4, Becomes, RegistryFields DEF Keeps, IsLive
      <3>6. /\ \A v \in Wdd : v # w => driver'[v] = driver[v]
            /\ mutex' # "dead" /\ deferred' = deferred
        BY <1>1, <2>1, <2>2, <3>1, <3>3 DEF Probe
      <3> QED BY <3>5, <3>6 DEF BoundInv, Alive, Listed
    <2>3. CASE ~done
      <3>1. /\ deferred' = Append(deferred, w)
            /\ driver' = [driver EXCEPT ![w] = "bound"]
            /\ wd_data' = wd_data /\ mutex' = mutex
        BY <1>1, <2>3 DEF Probe, registryVars
      <3>2. /\ DOMAIN deferred = 1 .. Len(deferred) /\ Len(deferred) \in Nat
            /\ DOMAIN deferred' = 1 .. Len(deferred) + 1
            /\ \A i \in DOMAIN deferred : deferred'[i] = deferred[i]
            /\ deferred'[Len(deferred) + 1] = w
        BY <2>1, <3>1
      <3>3. /\ DOMAIN deferred \subseteq DOMAIN deferred'
            /\ Len(deferred) + 1 \in DOMAIN deferred'
        BY <3>2
      <3>4. \A v \in Wdd : v = w \/ Listed(v) => Listed(v)'
        BY <3>2, <3>3 DEF Listed
      <3>5. \A v \in Wdd : v # w => driver'[v] = driver[v]
        BY <2>1, <3>1
      <3> QED BY <2>1, <3>1, <3>4, <3>5 DEF BoundInv, Alive
    <2> QED BY <2>2, <2>3
  <1>2. ASSUME NEW w \in Wdd, Remove(w) PROVE BoundInv'
    <2> DEFINE s == IF done THEN core_unregister_device(Registry, w)
                    ELSE Registry
               n == IF s.ret = "oops" THEN s ELSE Fresh(s, w)
    <2>1. /\ TypeOK /\ Good(Registry) /\ Registry \in RegistryType
          /\ Registry.ret = "OK" /\ mutex = "free" /\ driver[w] = "bound"
          /\ driver \in [Wdd -> {"unbound", "bound"}]
      BY <1>2, RegistryFields DEF Inv, BoundInv, Remove, TypeOK
    <2>2. /\ s \in RegistryType /\ Keeps(Registry, s, w)
          /\ s.ret # "oops" /\ ~IsLive(s, w)
      <3>1. CASE done
        <4>1. IsLive(Registry, w)
          <5>1. ~Listed(w)
            BY <2>1, <3>1 DEF Inv, PhaseInv, Listed
          <5> QED BY <2>1, <5>1, RegistryFields DEF BoundInv
        <4>2. core_unregister_device(Registry, w).ret # "oops"
          BY <2>1, <4>1, UnregisterReturns
        <4> QED BY <2>1, <3>1, <4>2, UnregisterGood
      <3>2. CASE ~done
        <4>1. ~IsLive(Registry, w)
          BY <2>1, <3>2, RegistryFields DEF Inv, PhaseInv
        <4> QED BY <2>1, <3>2, <4>1 DEF Keeps
      <3> QED BY <3>1, <3>2
    <2>3. /\ RegistryBecomes(n)
          /\ driver' = [driver EXCEPT ![w] = IF s.ret = "oops" THEN @
                                                             ELSE "unbound"]
          /\ mutex' = IF s.ret = "oops" THEN "dead" ELSE "free"
          /\ deferred' = IF done THEN deferred
                         ELSE watchdog_deferred_registration_del(deferred, w)
      BY <1>2 DEF Remove
    <2> HIDE DEF s
    <2>4. n \in RegistryType /\ \A v \in Wdd : v # w => n.wd_data[v] = s.wd_data[v]
      BY <2>2, FreshGood
    <2> HIDE DEF n
    <2>5. \A v \in Wdd : v # w => wd_data'[v] = wd_data[v]
      BY <2>1, <2>2, <2>3, <2>4, Becomes, RegistryFields DEF Keeps
    <2>6. /\ mutex' # "dead" /\ driver'[w] = "unbound"
          /\ \A v \in Wdd : v # w => driver'[v] = driver[v]
      BY <2>1, <2>2, <2>3
    <2>7. ASSUME NEW v \in Wdd, v # w, Listed(v) PROVE Listed(v)'
      <3>1. PICK l \in DOMAIN deferred : deferred[l] = v
        BY <2>7 DEF Listed
      <3>2. CASE done
        BY <2>3, <3>1, <3>2 DEF Listed
      <3>3. CASE ~done
        <4>1. /\ deferred \in Seq(Wdd)
              /\ \A i, j \in DOMAIN deferred : deferred[i] = deferred[j] => i = j
          BY <2>1 DEF Inv, TypeOK, ListInv
        <4>2. \E i \in DOMAIN deferred' : deferred'[i] = deferred[l]
          BY <2>3, <2>7, <3>1, <3>3, <4>1, DeferredDelKeeps
        <4> QED BY <3>1, <4>2 DEF Listed
      <3> QED BY <3>2, <3>3
    <2> QED BY <2>5, <2>6, <2>7 DEF BoundInv, Alive
  <1>3. CASE DeferredNext
    <2> DEFINE w == Head(deferred)
    <2>1. /\ TypeOK /\ Good(Registry) /\ deferred \in Seq(Wdd)
          /\ deferred # <<>> /\ mutex = "init"
      BY <1>3 DEF Inv, BoundInv, DeferredNext, TypeOK, PhaseInv
    <2>2. /\ Len(deferred) \in Nat /\ DOMAIN deferred = 1 .. Len(deferred)
          /\ 1 \in DOMAIN deferred /\ w = deferred[1] /\ w \in Wdd
          /\ DOMAIN Tail(deferred) = 1 .. Len(deferred) - 1
          /\ \A i \in 1 .. Len(deferred) - 1 :
               Tail(deferred)[i] = deferred[i + 1]
      BY <2>1
    <2>3. ~IsLive(Registry, w)
      BY <2>1, <2>2, RegistryFields DEF Inv, ListInv
    <2> HIDE DEF w
    <2>4. PICK n \in core_register_device(Registry, w) :
            /\ RegistryBecomes(n)
            /\ mutex' = IF n.ret = "oops" THEN "dead" ELSE mutex
      BY <1>3 DEF DeferredNext, w
    <2>5. /\ n \in RegistryType /\ Keeps(Registry, n, w)
          /\ n.ret = "OK" <=> IsLive(n, w)
      BY <2>1, <2>2, <2>3, RegisterGood
    <2>6. n.ret = "OK"
      BY <2>1, <2>2, <2>3, RegisterSucceeds
    <2>7. /\ wd_data'[w] = "live"
          /\ \A v \in Wdd : v # w => wd_data'[v] = wd_data[v]
      BY <2>1, <2>4, <2>5, <2>6, Becomes, RegistryFields DEF Keeps, IsLive
    <2>8. ASSUME NEW v \in Wdd, v # w, Listed(v) PROVE Listed(v)'
      <3>1. PICK l \in DOMAIN deferred : deferred[l] = v
        BY <2>8 DEF Listed
      <3>2. l - 1 \in 1 .. Len(deferred) - 1 /\ l - 1 + 1 = l
        BY <2>2, <2>8, <3>1
      <3>3. deferred' = Tail(deferred)
        BY <1>3 DEF DeferredNext
      <3>4. l - 1 \in DOMAIN deferred' /\ deferred'[l - 1] = v
        BY <2>2, <3>1, <3>2, <3>3
      <3> QED BY <3>4 DEF Listed
    <2>9. driver' = driver /\ mutex' # "dead"
      BY <1>3, <2>1, <2>4, <2>6 DEF DeferredNext
    <2> QED BY <2>7, <2>8, <2>9 DEF BoundInv, Alive
  <1>4. CASE \/ InitFails \/ InitDeferred \/ DeferredDone
             \/ LegacyLoad \/ LegacyUnload \/ UNCHANGED vars
    <2>1. /\ wd_data' = wd_data /\ driver' = driver /\ deferred' = deferred
          /\ mutex' = mutex \/ mutex' \in {"init", "free"}
      BY <1>4 DEF InitFails, InitDeferred, DeferredDone, LegacyLoad,
                  LegacyUnload, vars, registryVars
    <2> QED BY <2>1 DEF BoundInv, Alive, Listed
  <1> QED BY <1>1, <1>2, <1>3, <1>4 DEF Next

\* If nothing fails and there are more ids than devices, then a driver that
\* was told 0 has its device registered once registration is immediate,
\* whatever aliases the devices have and whenever a legacy module comes and
\* goes; and no thread dies in the registry.
THEOREM RoomyZeroMeansRegistered ==
  ASSUME Roomy
  PROVE  Spec => [](ZeroMeansRegistered /\ Alive)
  <1>1. Init => BoundInv
    BY DEF Init, BoundInv, Alive
  <1>2. Inv /\ BoundInv /\ [Next]_vars => BoundInv'
    BY BoundInvNext
  <1>3. Inv /\ BoundInv => ZeroMeansRegistered /\ Alive
    BY DEF Inv, BoundInv, PhaseInv, Listed, ZeroMeansRegistered, Live
  <1> QED BY <1>1, <1>2, <1>3, RegistryInvariant, PTL DEF Spec
=============================================================================

