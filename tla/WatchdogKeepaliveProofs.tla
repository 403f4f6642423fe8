---------------------- MODULE WatchdogKeepaliveProofs ----------------------
(***************************************************************************)
(* Proofs about WatchdogKeepalive, for every set of timeouts, every        *)
(* hardware and every latency of the worker: types, NeverEarly, NeverLate, *)
(* the refinement of WatchdogPromise, and that hardware which can be       *)
(* stopped resets the machine only for an active user.                     *)
(*                                                                         *)
(* The invariant says of the timer, the queued work and the hardware of an *)
(* active watchdog: the hardware resets late enough or a ping is sure to   *)
(* come in time (EarlyInv), and it resets early enough and no ping that is *)
(* still to come can put it off too far (LateInv).                         *)
(***************************************************************************)
EXTENDS WatchdogKeepalive, TLAPS

\* The hardware cannot wait as long as to.
Beyond(to) == MaxHw # 0 /\ to > MaxHw

(***************************************************************************)
(* What the proofs ask of the timeouts.  A timeout beyond the hardware is  *)
(* so by at least the latency of the worker.  And if there is a minimum    *)
(* distance between pings then the hardware periods are not too different, *)
(* because watchdog_release may cancel the ping that would have put a new  *)
(* period into force.                                                      *)
(***************************************************************************)
Uniform ==
  /\ \A to \in Timeouts : Beyond(to) => MaxHw + Latency <= to
  /\ MinHw # 0 =>
       \A s, to \in Timeouts :
         /\ hw_heartbeat(s) <= to + MinHw + Latency
         /\ ~Beyond(to) => to <= hw_heartbeat(s)
         /\ Beyond(to) => MinHw + Latency + MaxHw \div 2 <= hw_heartbeat(s)

WdData == [timeout: Timeouts, active: BOOLEAN, running: BOOLEAN,
           can_stop: BOOLEAN, open: BOOLEAN, last_keepalive: 0..MaxTime,
           last_hw_keepalive: -1..MaxTime, timer: Nat \cup {Off}]

(***************************************************************************)
(* The invariant, of a wd_data record w, the instant q at which work was   *)
(* queued and the instant h of the reset, as parameters.                   *)
(***************************************************************************)
DueOf(w) == w.last_keepalive + w.timeout

\* Instants lie where they belong, and the hardware counts from its last ping.
ClockInv(w, q, h) ==
  /\ now \in 0..MaxTime /\ w \in WdData
  /\ q \in 0..MaxTime \cup {Off} /\ h \in Nat \cup {Off}
  /\ w.last_keepalive <= now
  /\ 0 <= w.last_hw_keepalive /\ w.last_hw_keepalive <= now
  /\ w.timer # Off => now <= w.timer
  /\ q # Off => q <= now /\ now <= q + Latency
  /\ ~Alive(w) => h = Off
  /\ Alive(w) =>
       /\ now <= h
       /\ \E s \in Timeouts : h = w.last_hw_keepalive + hw_heartbeat(s)

\* The ping at instant t comes before the hardware resets at h.
Feeds(t, h) == t # Off /\ t + Latency < h

EarlyInv(w, q, h) ==
  w.active => h >= DueOf(w) - MinHw \/ Feeds(w.timer, h) \/ Feeds(q, h)

\* The last instant at which a ping of the worker is still wanted.
LastPing(w) == DueOf(w) - hw_heartbeat(w.timeout)

LateInv(w, q, h) ==
  w.active =>
    /\ h <= DueOf(w) + MinHw + Latency
    /\ w.timer # Off => w.timer <= LastPing(w) + MinHw
    /\ q # Off => q <= LastPing(w) + MinHw
    /\ w.timer # Off /\ q # Off => q <= w.last_keepalive
    /\ w.last_hw_keepalive > LastPing(w) => w.timer = Off /\ q = Off

\* The two bounds need Uniform; the order of the clocks does not.
Good(w, q, h) ==
  /\ ClockInv(w, q, h)
  /\ Uniform => EarlyInv(w, q, h) /\ LateInv(w, q, h)

\* The inductive invariant.
Inv ==
  /\ Good(wd, queued, hw)
  /\ reset \in BOOLEAN
  /\ reset => hw # Off /\ hw <= now

-----------------------------------------------------------------------------
(* The operators.                                                          *)

\* The period of the hardware: the timeout, or max_hw_heartbeat if that is
\* shorter.
LEMMA HeartbeatFacts ==
  ASSUME NEW to \in Timeouts
  PROVE  /\ to \in Nat /\ hw_heartbeat(to) \in Nat
         /\ 1 < hw_heartbeat(to) /\ hw_heartbeat(to) <= to
         /\ Beyond(to) => hw_heartbeat(to) = MaxHw /\ MaxHw < to /\ MaxHw # 0
         /\ ~Beyond(to) => hw_heartbeat(to) = to
         /\ hw_heartbeat(to) \div 2 \in Nat /\ 0 < hw_heartbeat(to) \div 2
         /\ MinHw + Latency + hw_heartbeat(to) \div 2 < hw_heartbeat(to)
  BY KeepaliveAssumption DEF hw_heartbeat, Beyond

\* What update_worker does to the timer; it changes nothing else.
LEMMA UpdateWorker ==
  ASSUME NEW w \in WdData
  PROVE  /\ update_worker(w) = [w EXCEPT !.timer = update_worker(w).timer]
         /\ ~need_worker(w) => update_worker(w).timer = Off
         /\ need_worker(w) /\ next_keepalive(w) > 0 =>
              update_worker(w).timer = now + next_keepalive(w)
         /\ need_worker(w) /\ ~(next_keepalive(w) > 0) =>
              update_worker(w).timer = w.timer
  BY DEF update_worker, WdData

\* update_worker leaves the clocks in order.
LEMMA UpdateClock ==
  ASSUME NEW w, NEW q, NEW h, ClockInv(w, q, h)
  PROVE  ClockInv(update_worker(w), q, h)
  <1>1. w \in WdData /\ now \in Nat /\ next_keepalive(w) \in Int
    <2>1. w \in WdData /\ now \in Nat /\ w.timeout \in Timeouts
      BY KeepaliveAssumption DEF ClockInv, WdData
    <2>2. /\ w.timeout \in Nat /\ hw_heartbeat(w.timeout) \in Nat
          /\ hw_heartbeat(w.timeout) \div 2 \in Nat
      BY <2>1, HeartbeatFacts
    <2>3. w.last_keepalive \in Nat
      BY <2>1, KeepaliveAssumption DEF WdData
    <2> QED BY <2>1, <2>2, <2>3 DEF next_keepalive
  <1>2. /\ update_worker(w) = [w EXCEPT !.timer = update_worker(w).timer]
        /\ \/ update_worker(w).timer = Off
           \/ update_worker(w).timer = w.timer
           \/ /\ update_worker(w).timer = now + next_keepalive(w)
              /\ next_keepalive(w) > 0
    BY <1>1, UpdateWorker
  <1>3. PICK t : update_worker(w) = [w EXCEPT !.timer = t] /\
                 (t = Off \/ t = w.timer \/ (t \in Nat /\ t > now))
    BY <1>1, <1>2
  <1> QED BY <1>1, <1>3 DEF ClockInv, WdData, Alive

\* Only the open bit changes.
LEMMA OpenBit ==
  ASSUME NEW w, NEW q, NEW h, Good(w, q, h), NEW b \in BOOLEAN
  PROVE  Good([w EXCEPT !.open = b], q, h)
  BY DEF Good, ClockInv, EarlyInv, LateInv, WdData, Alive, DueOf, LastPing, Feeds

\* A ping of user space, or a start, that reaches the hardware.
LEMMA PingNow ==
  ASSUME NEW w \in WdData, now \in 0..MaxTime, Alive(w),
         w.last_keepalive = now, w.last_hw_keepalive = now,
         NEW q \in 0..MaxTime \cup {Off},
         q # Off => q <= now /\ now <= q + Latency
  PROVE  Good(update_worker(w), q, now + hw_heartbeat(w.timeout))
  <1> DEFINE to == w.timeout
             H == hw_heartbeat(w.timeout)
             h == now + H
             u == update_worker(w)
  <1>1. /\ to \in Timeouts /\ to \in Nat /\ H \in Nat /\ 1 < H /\ H <= to
        /\ Beyond(to) => H = MaxHw /\ MaxHw < to /\ MaxHw # 0
        /\ ~Beyond(to) => H = to
        /\ H \div 2 \in Nat /\ 0 < H \div 2 /\ MinHw + Latency + H \div 2 < H
    BY HeartbeatFacts DEF WdData
  <1>2. now \in Nat /\ MinHw \in Nat /\ Latency \in Nat /\ MaxTime \in Nat
    BY KeepaliveAssumption
  <1>3. PICK t : /\ u = [w EXCEPT !.timer = t]
                 /\ w.active /\ ~Beyond(to) => t = Off
                 /\ ~(w.active /\ ~Beyond(to)) =>
                      /\ t \in Nat /\ now < t /\ t <= now + H \div 2
                      /\ w.active => t <= now + to - H
    <2>1. need_worker(w) <=> ~(w.active /\ ~Beyond(to))
      BY <1>1 DEF need_worker, Beyond, Alive, WdData
    <2>2. /\ next_keepalive(w) \in Int
          /\ Beyond(to) \/ ~w.active => next_keepalive(w) > 0
          /\ next_keepalive(w) <= H \div 2
          /\ w.active => next_keepalive(w) <= to - H
      BY <1>1, <1>2 DEF next_keepalive
    <2> HIDE DEF H
    <2>3. u = [w EXCEPT !.timer = u.timer]
      BY UpdateWorker
    <2>4. CASE need_worker(w)
      <3>1. u.timer = now + next_keepalive(w)
        BY <2>1, <2>2, <2>4, UpdateWorker
      <3>2. /\ u.timer \in Nat /\ now < u.timer /\ u.timer <= now + H \div 2
            /\ w.active => u.timer <= now + to - H
        BY <1>1, <1>2, <2>1, <2>2, <2>4, <3>1
      <3> QED BY <2>1, <2>3, <2>4, <3>2, Zenon
    <2>5. CASE ~need_worker(w)
      <3>1. u.timer = Off
        BY <2>5, UpdateWorker
      <3> QED BY <2>1, <2>3, <2>5, <3>1
    <2> QED BY <2>4, <2>5
  <1> HIDE DEF H, u
  <1>4. /\ u \in WdData /\ u.timeout = to /\ u.active = w.active
        /\ u.running = w.running /\ u.timer = t
        /\ u.last_keepalive = now /\ u.last_hw_keepalive = now
    BY <1>3 DEF WdData
  <1>5. ClockInv(u, q, h)
    BY <1>1, <1>2, <1>3, <1>4 DEF ClockInv, Alive, H
  <1>6. EarlyInv(u, q, h)
    BY <1>1, <1>2, <1>3, <1>4 DEF EarlyInv, Feeds, DueOf, Off
  <1>7. LateInv(u, q, h)
    <2>0. hw_heartbeat(u.timeout) = H
      BY <1>4, Zenon DEF H
    <2>1. LastPing(u) = now + to - H /\ DueOf(u) = now + to
      BY <1>1, <1>2, <1>4, <2>0 DEF LastPing, DueOf
    <2> QED BY <1>1, <1>2, <1>3, <1>4, <2>1 DEF LateInv
  <1> QED BY <1>5, <1>6, <1>7 DEF Good, H, u

\* A ping of user space that comes too early is scheduled.
LEMMA PingDeferred ==
  ASSUME NEW w, NEW q, NEW h, ClockInv(w, q, h), Alive(w), TooEarly(w),
         w.last_keepalive = now
  PROVE  Good([w EXCEPT !.timer = w.last_hw_keepalive + MinHw], q, h)
  <1> DEFINE to == w.timeout
             H == hw_heartbeat(w.timeout)
             t == w.last_hw_keepalive + MinHw
             u == [w EXCEPT !.timer = t]
  <1>1. /\ w \in WdData /\ to \in Timeouts /\ to \in Nat /\ H \in Nat /\ H <= to
    BY HeartbeatFacts DEF WdData, ClockInv
  <1>2. now \in Nat /\ MinHw \in Nat /\ Latency \in Nat /\ MaxTime \in Nat
    BY KeepaliveAssumption DEF ClockInv
  <1>3. PICK s \in Timeouts : h = w.last_hw_keepalive + hw_heartbeat(s)
    BY DEF ClockInv
  <1>4. /\ hw_heartbeat(s) \in Nat /\ MinHw + Latency < hw_heartbeat(s)
    BY <1>2, HeartbeatFacts
  <1>5. w.last_hw_keepalive \in Nat /\ w.last_hw_keepalive <= now /\ now < t
    BY <1>1, <1>2 DEF ClockInv, TooEarly, WdData
  <1>6. t \in Nat /\ MinHw # 0
    BY <1>2, <1>5
  <1>7. Uniform => hw_heartbeat(s) <= to + MinHw + Latency
    BY <1>1, <1>6 DEF Uniform
  <1>8. /\ u \in WdData /\ u.timeout = to /\ u.active = w.active
        /\ u.running = w.running /\ u.timer = t
        /\ u.last_keepalive = now /\ u.last_hw_keepalive = w.last_hw_keepalive
    BY <1>1, <1>6 DEF WdData
  <1> HIDE DEF H, u, t
  <1>9. ClockInv(u, q, h)
    BY <1>1, <1>2, <1>5, <1>6, <1>8 DEF ClockInv, Alive
  <1>10. EarlyInv(u, q, h)
    BY <1>2, <1>3, <1>4, <1>5, <1>6, <1>8 DEF EarlyInv, Feeds, Off, t
  <1>11. Uniform => LateInv(u, q, h)
    <2>0. hw_heartbeat(u.timeout) = H
      BY <1>8, Zenon DEF H
    <2>1. LastPing(u) = now + to - H /\ DueOf(u) = now + to
      BY <1>1, <1>2, <1>8, <2>0 DEF LastPing, DueOf
    <2>2. q # Off => q \in Nat /\ q <= now
      BY <1>2 DEF ClockInv
    <2> QED BY <1>1, <1>2, <1>3, <1>4, <1>5, <1>7, <1>8, <2>1, <2>2 DEF LateInv, t
  <1> QED BY <1>9, <1>10, <1>11 DEF Good, u, t

\* watchdog_release after such a ping: the timer is decided again.
LEMMA ReleaseDeferred ==
  ASSUME NEW w, NEW q, NEW h, ClockInv(w, q, h), w.active, TooEarly(w),
         w.last_keepalive = now
  PROVE  Good(update_worker(w), q, h)
  <1> DEFINE to == w.timeout
             H == hw_heartbeat(w.timeout)
             u == update_worker(w)
  <1>1. /\ w \in WdData /\ to \in Timeouts /\ to \in Nat /\ H \in Nat /\ 1 < H
        /\ H <= to
        /\ Beyond(to) => H = MaxHw /\ MaxHw < to /\ MaxHw # 0
        /\ ~Beyond(to) => H = to
        /\ H \div 2 \in Nat /\ 0 < H \div 2
    BY HeartbeatFacts DEF WdData, ClockInv
  <1>2. now \in Nat /\ MinHw \in Nat /\ Latency \in Nat /\ MaxTime \in Nat
    BY KeepaliveAssumption DEF ClockInv
  <1>3. PICK s \in Timeouts : h = w.last_hw_keepalive + hw_heartbeat(s)
    BY DEF ClockInv, Alive
  <1>4. hw_heartbeat(s) \in Nat
    BY HeartbeatFacts
  <1>5. /\ w.last_hw_keepalive \in Nat /\ w.last_hw_keepalive <= now
        /\ now < w.last_hw_keepalive + MinHw
    BY <1>1, <1>2 DEF ClockInv, TooEarly, WdData
  <1>6. Uniform => /\ hw_heartbeat(s) <= to + MinHw + Latency
                   /\ ~Beyond(to) => to <= hw_heartbeat(s)
                   /\ Beyond(to) =>
                        MinHw + Latency + H \div 2 <= hw_heartbeat(s)
    <2>1. MinHw # 0
      BY <1>2, <1>5
    <2> QED BY <1>1, <2>1 DEF Uniform
  <1>7. PICK t : /\ u = [w EXCEPT !.timer = t]
                 /\ ~Beyond(to) => t = Off
                 /\ Beyond(to) => /\ t \in Nat /\ now < t /\ t <= now + H \div 2
                                  /\ t <= now + to - H
    <2>1. need_worker(w) <=> Beyond(to)
      BY <1>1 DEF need_worker, Beyond
    <2>2. /\ next_keepalive(w) \in Int
          /\ Beyond(to) => next_keepalive(w) > 0
          /\ next_keepalive(w) <= H \div 2 /\ next_keepalive(w) <= to - H
      BY <1>1, <1>2 DEF next_keepalive
    <2> HIDE DEF H
    <2>3. u = [w EXCEPT !.timer = u.timer]
      BY <1>1, UpdateWorker
    <2>4. CASE Beyond(to)
      <3>1. u.timer = now + next_keepalive(w)
        BY <1>1, <2>1, <2>2, <2>4, UpdateWorker
      <3>2. /\ u.timer \in Nat /\ now < u.timer /\ u.timer <= now + H \div 2
            /\ u.timer <= now + to - H
        BY <1>1, <1>2, <2>2, <2>4, <3>1
      <3> QED BY <2>3, <2>4, <3>2, Zenon
    <2>5. CASE ~Beyond(to)
      <3>1. u.timer = Off
        BY <1>1, <2>1, <2>5, UpdateWorker
      <3> QED BY <2>3, <2>5, <3>1
    <2> QED BY <2>4, <2>5
  <1>8. ClockInv(u, q, h)
    BY UpdateClock
  <1> HIDE DEF H, u
  <1>9. /\ u.timeout = to /\ u.active /\ u.timer = t
        /\ u.last_keepalive = now /\ u.last_hw_keepalive = w.last_hw_keepalive
    BY <1>1, <1>7 DEF WdData
  <1>10. Uniform => EarlyInv(u, q, h)
    BY <1>1, <1>2, <1>3, <1>4, <1>5, <1>6, <1>7, <1>9 DEF EarlyInv, Feeds, DueOf, Off
  <1>11. Uniform => LateInv(u, q, h)
    <2>0. hw_heartbeat(u.timeout) = H
      BY <1>9, Zenon DEF H
    <2>1. LastPing(u) = now + to - H /\ DueOf(u) = now + to
      BY <1>1, <1>2, <1>9, <2>0 DEF LastPing, DueOf
    <2>2. q # Off => q \in Nat /\ q <= now
      BY <1>2 DEF ClockInv
    <2> QED BY <1>1, <1>2, <1>3, <1>4, <1>5, <1>6, <1>7, <1>9, <2>1, <2>2 DEF LateInv
  <1> QED BY <1>8, <1>10, <1>11 DEF Good, u

\* The worker's ping, when it comes too early for the hardware.
LEMMA WorkerDeferred ==
  ASSUME NEW w, NEW q, NEW h, Good(w, q, h), q # Off, Alive(w), TooEarly(w)
  PROVE  Good([w EXCEPT !.timer = w.last_hw_keepalive + MinHw], Off, h)
  <1> DEFINE t == w.last_hw_keepalive + MinHw
             u == [w EXCEPT !.timer = t]
  <1>1. w \in WdData /\ w.timeout \in Timeouts /\ ClockInv(w, q, h)
    BY DEF WdData, Good, ClockInv
  <1>2. now \in Nat /\ MinHw \in Nat /\ Latency \in Nat /\ MaxTime \in Nat
    BY <1>1, KeepaliveAssumption DEF ClockInv
  <1>3. PICK s \in Timeouts : h = w.last_hw_keepalive + hw_heartbeat(s)
    BY <1>1 DEF ClockInv
  <1>4. hw_heartbeat(s) \in Nat /\ MinHw + Latency < hw_heartbeat(s)
    BY <1>2, HeartbeatFacts
  <1>5. w.last_hw_keepalive \in Nat /\ t \in Nat /\ now < t
    BY <1>1, <1>2 DEF ClockInv, TooEarly, WdData
  <1>6. /\ u \in WdData /\ u.timeout = w.timeout /\ u.active = w.active
        /\ u.running = w.running /\ u.timer = t
        /\ u.last_keepalive = w.last_keepalive
        /\ u.last_hw_keepalive = w.last_hw_keepalive
    BY <1>1, <1>5 DEF WdData
  <1> HIDE DEF u, t
  <1>7. ClockInv(u, Off, h)
    BY <1>1, <1>2, <1>5, <1>6 DEF ClockInv, Alive
  <1>8. EarlyInv(u, Off, h)
    BY <1>2, <1>3, <1>4, <1>5, <1>6 DEF EarlyInv, Feeds, Off, t
  <1>9. Uniform => LateInv(u, Off, h)
    <2>1. LastPing(u) = LastPing(w) /\ DueOf(u) = DueOf(w)
      BY <1>6, Zenon DEF LastPing, DueOf
    <2>2. LastPing(w) \in Int
      <3>1. w.last_keepalive \in Nat
        BY <1>1, <1>2 DEF WdData
      <3>2. w.timeout \in Nat /\ hw_heartbeat(w.timeout) \in Nat
        BY <1>1, HeartbeatFacts
      <3> QED BY <3>1, <3>2 DEF LastPing, DueOf
    <2> QED BY <1>2, <1>5, <1>6, <2>1, <2>2 DEF Good, LateInv, t
  <1> QED BY <1>7, <1>8, <1>9 DEF Good, u, t

\* The worker's ping, when it reaches the hardware.
LEMMA WorkerPing ==
  ASSUME NEW w, NEW q, NEW h, Good(w, q, h), q # Off, Alive(w)
  PROVE  Good(update_worker([w EXCEPT !.last_hw_keepalive = now]), Off,
              now + hw_heartbeat(w.timeout))
  <1> DEFINE to == w.timeout
             H == hw_heartbeat(w.timeout)
             v == [w EXCEPT !.last_hw_keepalive = now]
             u == update_worker(v)
             n == next_keepalive(v)
  <1>1. /\ w \in WdData /\ to \in Timeouts /\ to \in Nat /\ H \in Nat /\ 1 < H
        /\ H <= to
        /\ Beyond(to) => H = MaxHw /\ MaxHw < to /\ MaxHw # 0
        /\ ~Beyond(to) => H = to
        /\ H \div 2 \in Nat /\ 0 < H \div 2 /\ MinHw + Latency + H \div 2 < H
    BY HeartbeatFacts DEF WdData, Good, ClockInv
  <1>2. now \in Nat /\ MinHw \in Nat /\ Latency \in Nat /\ MaxTime \in Nat
    BY KeepaliveAssumption DEF Good, ClockInv
  <1>3. /\ v \in WdData /\ v.timeout = to /\ v.active = w.active
        /\ v.running = w.running /\ v.timer = w.timer
        /\ v.last_keepalive = w.last_keepalive /\ v.last_hw_keepalive = now
    BY <1>1, <1>2 DEF WdData, Good, ClockInv
  <1>4. w.last_keepalive \in Nat
    BY <1>1, <1>2 DEF WdData
  <1>5. /\ n \in Int
        /\ n <= H \div 2
        /\ w.active => n <= w.last_keepalive + to - H - now
        /\ w.active /\ ~(n > 0) => n = w.last_keepalive + to - H - now
    <2> HIDE DEF v
    <2>1. hw_heartbeat(v.timeout) = H
      BY <1>3, Zenon
    <2> HIDE DEF H
    <2> QED BY <1>1, <1>2, <1>3, <1>4, <2>1 DEF next_keepalive
  <1>6. need_worker(v) <=> Beyond(to) \/ ~w.active
    BY <1>1, <1>3 DEF need_worker, Beyond, Alive, WdData
  <1>7. /\ u = [v EXCEPT !.timer = u.timer]
        /\ ~need_worker(v) => u.timer = Off
        /\ need_worker(v) /\ n > 0 => u.timer = now + n
        /\ need_worker(v) /\ ~(n > 0) => u.timer = w.timer
    BY <1>3, UpdateWorker
  <1>8. ClockInv(v, Off, now + H)
    <2> HIDE DEF v
    <2>1. /\ w.last_keepalive <= now /\ (w.timer # Off => now <= w.timer)
          /\ now \in 0..MaxTime
      BY DEF Good, ClockInv
    <2>2. Alive(v)
      BY <1>3 DEF Alive
    <2>3. \E s \in Timeouts : now + H = now + hw_heartbeat(s)
      BY <1>1
    <2> HIDE DEF H
    <2> QED BY <1>1, <1>2, <1>3, <2>1, <2>2, <2>3 DEF ClockInv
  <1>9. ClockInv(u, Off, now + H)
    BY <1>8, UpdateClock
  <1> HIDE DEF v, n
  <1>10. /\ u.timeout = to /\ u.active = w.active
         /\ u.last_keepalive = w.last_keepalive /\ u.last_hw_keepalive = now
    BY <1>3, <1>7 DEF WdData
  <1> HIDE DEF H, u
  <1>11. EarlyInv(u, Off, now + H)
    <2> SUFFICES ASSUME w.active
                 PROVE  now + H >= DueOf(u) - MinHw \/ Feeds(u.timer, now + H)
      BY <1>10 DEF EarlyInv
    <2>1. DueOf(u) = w.last_keepalive + to
      BY <1>10 DEF DueOf
    <2>2. CASE ~need_worker(v)
      <3>1. H = to /\ w.last_keepalive <= now
        BY <1>1, <1>6, <2>2 DEF Good, ClockInv
      <3> QED BY <1>1, <1>2, <1>4, <2>1, <3>1
    <2>3. CASE need_worker(v) /\ n > 0
      BY <1>1, <1>2, <1>5, <1>7, <2>3 DEF Feeds, Off
    <2>4. CASE need_worker(v) /\ ~(n > 0)
      BY <1>1, <1>2, <1>4, <1>5, <2>1, <2>4
    <2> QED BY <2>2, <2>3, <2>4
  <1>12. ASSUME Uniform PROVE LateInv(u, Off, now + H)
    <2> SUFFICES ASSUME w.active PROVE LateInv(u, Off, now + H)
      BY <1>10 DEF LateInv
    <2>1. /\ hw_heartbeat(u.timeout) = H /\ hw_heartbeat(w.timeout) = H
      BY <1>10, Zenon DEF H
    <2>2. /\ LastPing(w) = w.last_keepalive + to - H
          /\ LastPing(u) = w.last_keepalive + to - H
          /\ DueOf(u) = w.last_keepalive + to
      BY <1>1, <1>2, <1>4, <1>10, <2>1 DEF LastPing, DueOf
    <2>3. /\ q \in Nat /\ now <= q + Latency
          /\ q <= LastPing(w) + MinHw
          /\ w.timer # Off => w.timer \in Nat /\ w.timer <= LastPing(w) + MinHw
          /\ w.timer # Off => q <= w.last_keepalive
      BY <1>2, <1>12 DEF Good, ClockInv, LateInv, WdData
    <2>4. now + H <= DueOf(u) + MinHw + Latency
      BY <1>1, <1>2, <1>4, <2>2, <2>3
    <2>5. u.timer # Off => u.timer <= LastPing(u) + MinHw
      BY <1>1, <1>2, <1>4, <1>5, <1>6, <1>7, <2>2, <2>3
    <2>6. ASSUME now > LastPing(u) PROVE u.timer = Off
      <3>1. CASE ~Beyond(to)
        BY <1>6, <1>7, <3>1
      <3>2. CASE Beyond(to)
        <4>1. H + Latency <= to
          BY <1>1, <1>12, <3>2 DEF Uniform
        <4>2. ~(n > 0)
          BY <1>1, <1>2, <1>4, <1>5, <2>2, <2>6
        <4>3. u.timer = w.timer
          BY <1>6, <1>7, <3>2, <4>2
        <4>4. w.timer = Off
          BY <1>1, <1>2, <1>4, <2>2, <2>3, <2>6, <4>1
        <4> QED BY <4>3, <4>4
      <3> QED BY <3>1, <3>2
    <2> QED BY <1>10, <2>4, <2>5, <2>6, Zenon DEF LateInv
  <1> QED BY <1>9, <1>11, <1>12 DEF Good, u, v, H

\* The hrtimer expires and queues the work, if it is not queued.
LEMMA Expire ==
  ASSUME NEW w, NEW q, NEW h, Good(w, q, h), w.timer # Off, w.timer <= now
  PROVE  Good([w EXCEPT !.timer = Off], IF q = Off THEN now ELSE q, h)
  <1> DEFINE u == [w EXCEPT !.timer = Off]
             p == IF q = Off THEN now ELSE q
  <1>1. w \in WdData /\ ClockInv(w, q, h)
    BY DEF WdData, Good, ClockInv
  <1>2. now \in Nat /\ MinHw \in Nat /\ Latency \in Nat /\ MaxTime \in Nat
    BY <1>1, KeepaliveAssumption DEF ClockInv
  <1>3. /\ w.timer = now /\ p # Off /\ p \in 0..MaxTime /\ p <= now
        /\ now <= p + Latency /\ (q # Off => p = q) /\ (q = Off => p = now)
    BY <1>1, <1>2 DEF ClockInv, WdData, Off
  <1>4. /\ u \in WdData /\ u.timeout = w.timeout /\ u.active = w.active
        /\ u.running = w.running /\ u.timer = Off
        /\ u.last_keepalive = w.last_keepalive
        /\ u.last_hw_keepalive = w.last_hw_keepalive
    BY <1>1 DEF WdData
  <1> HIDE DEF u, p
  <1>5. ClockInv(u, p, h)
    BY <1>1, <1>3, <1>4 DEF ClockInv, Alive
  <1>6. LastPing(u) = LastPing(w) /\ DueOf(u) = DueOf(w)
    BY <1>4, Zenon DEF LastPing, DueOf
  <1>7. Uniform => EarlyInv(u, p, h)
    <2>1. Feeds(w.timer, h) \/ Feeds(q, h) => Feeds(p, h)
      BY <1>1, <1>2, <1>3 DEF Feeds, ClockInv
    <2> QED BY <1>4, <1>6, <2>1, Zenon DEF Good, EarlyInv
  <1>8. Uniform => LateInv(u, p, h)
    BY <1>3, <1>4, <1>6 DEF Good, LateInv
  <1> QED BY <1>5, <1>7, <1>8 DEF Good, u, p

\* Without an active user only the clocks matter.
LEMMA Inactive ==
  ASSUME NEW w, NEW q, NEW h, ClockInv(w, q, h), ~w.active
  PROVE  Good(w, q, h) /\ Good(update_worker(w), q, h)
  <1>1. ClockInv(update_worker(w), q, h)
    BY UpdateClock
  <1>2. w \in WdData
    BY DEF ClockInv
  <1>3. ~update_worker(w).active
    <2>1. PICK t : update_worker(w) = [w EXCEPT !.timer = t]
      BY <1>2, UpdateWorker
    <2> QED BY <1>2, <2>1 DEF WdData
  <1> QED BY <1>1, <1>3 DEF Good, EarlyInv, LateInv

\* watchdog_ping
LEMMA Ping ==
  ASSUME NEW w, NEW q, NEW h, ClockInv(w, q, h)
  PROVE  Good(ping(w), q, IF Alive(w) /\ ~TooEarly(w)
                          THEN now + hw_heartbeat(w.timeout) ELSE h)
  <1> DEFINE v == [w EXCEPT !.last_keepalive = now]
             x == [v EXCEPT !.last_hw_keepalive = now]
  <1>1. /\ w \in WdData /\ now \in 0..MaxTime /\ now \in -1..MaxTime
        /\ q \in 0..MaxTime \cup {Off}
        /\ q # Off => q <= now /\ now <= q + Latency
    BY KeepaliveAssumption DEF ClockInv
  <1>2. /\ v \in WdData /\ v.last_keepalive = now /\ v.timeout = w.timeout
        /\ v.last_hw_keepalive = w.last_hw_keepalive /\ v.timer = w.timer
        /\ v.active = w.active /\ v.running = w.running
    BY <1>1 DEF WdData
  <1>3. /\ x \in WdData /\ x.last_keepalive = now /\ x.timeout = w.timeout
        /\ x.last_hw_keepalive = now
        /\ x.active = w.active /\ x.running = w.running
    BY <1>1 DEF WdData
  <1>4. CASE ~Alive(w)
    <2>1. ping(w) = w /\ ~w.active
      BY <1>4 DEF ping, Alive
    <2> QED BY <1>4, <2>1, Inactive
  <1> HIDE DEF v
  <1>5. CASE Alive(w) /\ TooEarly(w)
    <2>1. TooEarly(v) /\ Alive(v) /\ ClockInv(v, q, h)
      BY <1>1, <1>2, <1>5 DEF TooEarly, Alive, ClockInv
    <2>2. ping(w) = [v EXCEPT !.timer = v.last_hw_keepalive + MinHw]
      BY <1>5, <2>1 DEF ping, ping_inner, v
    <2> QED BY <1>2, <1>5, <2>1, <2>2, PingDeferred
  <1>6. CASE Alive(w) /\ ~TooEarly(w)
    <2>1. ~TooEarly(v) /\ Alive(x)
      BY <1>2, <1>3, <1>6 DEF TooEarly, Alive
    <2>2. ping(w) = update_worker(x)
      BY <1>6, <2>1 DEF ping, ping_inner, v
    <2> HIDE DEF x
    <2>3. Good(update_worker(x), q, now + hw_heartbeat(x.timeout))
      BY <1>1, <1>3, <2>1, PingNow
    <2> QED BY <1>3, <1>6, <2>2, <2>3
  <1> QED BY <1>4, <1>5, <1>6

\* The timer is decided once more after a ping of an active watchdog.
LEMMA PingAgain ==
  ASSUME NEW w, NEW q, NEW h, ClockInv(w, q, h), w.active
  PROVE  Good(update_worker(ping(w)), q, IF Alive(w) /\ ~TooEarly(w)
              THEN now + hw_heartbeat(w.timeout) ELSE h)
  <1> DEFINE v == [w EXCEPT !.last_keepalive = now]
             x == [v EXCEPT !.last_hw_keepalive = now]
             y == ping(w)
             g == IF Alive(w) /\ ~TooEarly(w)
                  THEN now + hw_heartbeat(w.timeout) ELSE h
  <1>1. /\ w \in WdData /\ now \in 0..MaxTime /\ now \in -1..MaxTime
        /\ q \in 0..MaxTime \cup {Off}
        /\ q # Off => q <= now /\ now <= q + Latency
    BY KeepaliveAssumption DEF ClockInv
  <1>2. Alive(w) /\ Good(y, q, g) /\ ClockInv(y, q, g) /\ y \in WdData
    <2>1. Alive(w)
      BY DEF Alive
    <2>2. Good(y, q, g)
      BY Ping
    <2> QED BY <2>1, <2>2 DEF Good, ClockInv
  <1>3. CASE TooEarly(w)
    <2>1. TooEarly(v)
      BY <1>1, <1>3 DEF TooEarly, WdData
    <2>2. y = [v EXCEPT !.timer = v.last_hw_keepalive + MinHw]
      BY <1>2, <2>1 DEF ping, ping_inner
    <2>3. /\ y.active /\ y.last_keepalive = now
          /\ y.last_hw_keepalive = w.last_hw_keepalive
      BY <1>1, <2>2 DEF WdData
    <2> HIDE DEF y, g
    <2>4. TooEarly(y)
      BY <1>3, <2>3 DEF TooEarly
    <2>5. Good(update_worker(y), q, g)
      BY <1>2, <2>3, <2>4, ReleaseDeferred
    <2> QED BY <2>5 DEF y, g
  <1>4. CASE ~TooEarly(w)
    <2>1. ~TooEarly(v)
      BY <1>1, <1>4 DEF TooEarly, WdData
    <2>2. y = update_worker(x)
      BY <1>2, <2>1 DEF ping, ping_inner
    <2>3. /\ x \in WdData /\ x.last_keepalive = now /\ x.timeout = w.timeout
          /\ x.last_hw_keepalive = now /\ x.active
      BY <1>1 DEF WdData
    <2> HIDE DEF x
    <2>4. PICK t : y = [x EXCEPT !.timer = t]
      BY <2>2, <2>3, UpdateWorker
    <2> HIDE DEF y
    <2>5. /\ y.last_keepalive = now /\ y.timeout = w.timeout
          /\ y.last_hw_keepalive = now /\ y.active
      BY <2>3, <2>4 DEF WdData
    <2>6. Good(update_worker(y), q, now + hw_heartbeat(y.timeout))
      BY <1>1, <1>2, <2>5, PingNow DEF Alive
    <2> QED BY <1>2, <1>4, <2>5, <2>6 DEF y
  <1> QED BY <1>3, <1>4

\* watchdog_start
LEMMA Start ==
  ASSUME NEW w, NEW q, NEW h, Good(w, q, h)
  PROVE  Good(start(w), q, IF w.active THEN h ELSE now + hw_heartbeat(w.timeout))
  <1>1. CASE w.active
    BY <1>1 DEF start
  <1>2. CASE ~w.active
    <2> DEFINE x == [w EXCEPT !.active = TRUE, !.last_keepalive = now,
                              !.last_hw_keepalive = now]
    <2>1. /\ w \in WdData /\ now \in 0..MaxTime /\ now \in -1..MaxTime
          /\ q \in 0..MaxTime \cup {Off}
          /\ q # Off => q <= now /\ now <= q + Latency
      BY KeepaliveAssumption DEF Good, ClockInv
    <2>2. /\ x \in WdData /\ x.last_keepalive = now /\ x.timeout = w.timeout
          /\ x.last_hw_keepalive = now /\ x.active
      BY <2>1 DEF WdData
    <2>3. start(w) = update_worker(x)
      BY <1>2 DEF start
    <2> HIDE DEF x
    <2>4. Good(update_worker(x), q, now + hw_heartbeat(x.timeout))
      BY <2>1, <2>2, PingNow DEF Alive
    <2> QED BY <1>2, <2>2, <2>3, <2>4
  <1> QED BY <1>1, <1>2

\* watchdog_stop
LEMMA Stop ==
  ASSUME NEW w, NEW q, NEW h, ClockInv(w, q, h), w.active
  PROVE  LET g == IF w.can_stop THEN Off ELSE h
         IN  /\ Good(stop(w), q, g) /\ Good(update_worker(stop(w)), q, g)
             /\ ~stop(w).active
  <1> DEFINE v == [w EXCEPT !.active = FALSE, !.running = ~w.can_stop]
             g == IF w.can_stop THEN Off ELSE h
  <1>1. w \in WdData
    BY DEF ClockInv
  <1>2. /\ v \in WdData /\ ~v.active /\ v.running = ~w.can_stop
        /\ v.timer = w.timer /\ v.last_keepalive = w.last_keepalive
        /\ v.last_hw_keepalive = w.last_hw_keepalive
    BY <1>1 DEF WdData
  <1>3. stop(w) = update_worker(v)
    BY DEF stop
  <1> HIDE DEF v
  <1>4. ClockInv(v, q, g)
    BY <1>1, <1>2 DEF ClockInv, Alive
  <1> HIDE DEF g
  <1>5. Good(stop(w), q, g)
    BY <1>2, <1>3, <1>4, Inactive
  <1>6. ~stop(w).active
    <2>1. PICK t : stop(w) = [v EXCEPT !.timer = t]
      BY <1>2, <1>3, UpdateWorker
    <2> QED BY <1>2, <2>1 DEF WdData
  <1>7. ClockInv(stop(w), q, g)
    BY <1>5 DEF Good
  <1>8. Good(update_worker(stop(w)), q, g)
    BY <1>6, <1>7, Inactive
  <1> QED BY <1>5, <1>6, <1>8 DEF g

-----------------------------------------------------------------------------
(* The steps.                                                              *)

\* A step that takes no time leads to the state the operators computed.
LEMMA Carry ==
  ASSUME NEW w, NEW q, NEW h, Good(w, q, h),
         now' = now, wd' = w, queued' = q, hw' = h
  PROVE  Good(wd, queued, hw)'
  BY DEF Good, ClockInv, EarlyInv, LateInv, Alive, DueOf, LastPing, Feeds

\* The invariant holds at the start.
LEMMA InitInv == Init => Inv
  <1> SUFFICES ASSUME Init PROVE Inv
    OBVIOUS
  <1>1. PICK to \in Timeouts, can_stop \in BOOLEAN :
          /\ wd = update_worker(
                    [timeout |-> to, active |-> FALSE, running |-> TRUE,
                     can_stop |-> can_stop, open |-> FALSE, last_keepalive |-> 0,
                     last_hw_keepalive |-> 0, timer |-> Off])
          /\ hw = hw_heartbeat(to)
    BY DEF Init
  <1> DEFINE w == [timeout |-> to, active |-> FALSE, running |-> TRUE,
                   can_stop |-> can_stop, open |-> FALSE, last_keepalive |-> 0,
                   last_hw_keepalive |-> 0, timer |-> Off]
  <1>2. /\ now = 0 /\ now \in 0..MaxTime /\ reset = FALSE
        /\ 0 \in 0..MaxTime /\ 0 \in -1..MaxTime
        /\ queued \in 0..MaxTime \cup {Off}
        /\ queued # Off => queued <= now /\ now <= queued + Latency
    BY KeepaliveAssumption DEF Init
  <1>3. /\ w \in WdData /\ w.last_keepalive = now /\ w.last_hw_keepalive = now
        /\ Alive(w) /\ w.timeout = to
    BY <1>2 DEF WdData, Alive
  <1> HIDE DEF w
  <1>4. Good(update_worker(w), queued, now + hw_heartbeat(w.timeout))
    BY <1>2, <1>3, PingNow
  <1>5. now + hw_heartbeat(w.timeout) = hw
    BY <1>1, <1>2, <1>3, HeartbeatFacts
  <1> QED BY <1>1, <1>2, <1>4, <1>5 DEF Inv, w

\* Time passes before the next event only.
LEMMA TickInv == Inv /\ Tick => Good(wd, queued, hw)'
  <1> SUFFICES ASSUME Inv, Tick PROVE Good(wd, queued, hw)'
    OBVIOUS
  <1>1. /\ now \in Nat /\ MaxTime \in Nat /\ Latency \in Nat /\ now < MaxTime
        /\ now' = now + 1 /\ wd' = wd /\ queued' = queued /\ hw' = hw
    BY KeepaliveAssumption DEF Inv, Good, ClockInv, Tick
  <1>2. now' \in 0..MaxTime
    BY <1>1
  <1>3. ClockInv(wd, queued, hw)'
    <2>1. /\ wd \in WdData /\ queued \in 0..MaxTime \cup {Off}
          /\ hw \in Nat \cup {Off} /\ wd.last_keepalive \in Nat
          /\ wd.last_hw_keepalive \in Int /\ wd.timer \in Nat \cup {Off}
          /\ ClockInv(wd, queued, hw)
      BY <1>1 DEF Inv, Good, ClockInv, WdData
    <2>2. now' \in 0..MaxTime
      BY <1>1
    <2>3. wd.last_keepalive <= now' /\ wd.last_hw_keepalive <= now'
      BY <1>1, <2>1 DEF ClockInv
    <2>4. wd.timer # Off => now' <= wd.timer
      BY <1>1, <2>1 DEF Tick
    <2>5. queued # Off => queued <= now' /\ now' <= queued + Latency
      BY <1>1, <2>1 DEF Tick, ClockInv
    <2>6. Alive(wd) => now' <= hw
      BY <1>1, <2>1 DEF Tick, ClockInv, Off
    <2> QED BY <1>1, <2>1, <2>2, <2>3, <2>4, <2>5, <2>6 DEF ClockInv, Alive
  <1>4. Uniform => EarlyInv(wd, queued, hw)' /\ LateInv(wd, queued, hw)'
    BY <1>1 DEF Inv, Good, EarlyInv, LateInv, DueOf, LastPing, Feeds
  <1> QED BY <1>3, <1>4 DEF Good

\* Every step keeps the invariant.
LEMMA NextInv == Inv /\ [Next]_vars => Inv'
  <1> SUFFICES ASSUME Inv, [Next]_vars PROVE Inv'
    OBVIOUS
  <1>0. Good(wd, queued, hw) /\ ClockInv(wd, queued, hw) /\ wd \in WdData
    BY DEF Inv, Good, ClockInv
  <1>1. CASE watchdog_open
    <2>1. Good(start(wd), queued, Started(wd))
      BY <1>0, Start DEF Started
    <2>2. Good([start(wd) EXCEPT !.open = TRUE], queued, Started(wd))
      BY <2>1, OpenBit
    <2> QED BY <1>1, <2>2, Carry DEF watchdog_open, Inv
  <1>2. CASE watchdog_write
    <2>1. Good(ping(wd), queued, Reloaded(wd))
      BY <1>0, Ping DEF Reloaded
    <2> QED BY <1>2, <2>1, Carry DEF watchdog_write, Inv
  <1>3. ASSUME NEW to \in Timeouts, ioctl_settimeout(to) PROVE Inv'
    <2> DEFINE v == [wd EXCEPT !.timeout = to]
               w == update_worker(v)
    <2>1. ClockInv(v, queued, hw)
      BY <1>0 DEF ClockInv, WdData, Alive
    <2>2. ClockInv(w, queued, hw)
      BY <2>1, UpdateClock
    <2>3. Good(ping(w), queued, Reloaded(w))
      BY <2>2, Ping DEF Reloaded
    <2>4. /\ wd' = ping(w) /\ hw' = Reloaded(w)
          /\ now' = now /\ queued' = queued /\ reset' = reset /\ ~reset
      BY <1>3 DEF ioctl_settimeout
    <2> HIDE DEF w
    <2> QED BY <2>3, <2>4, Carry DEF Inv
  <1>4. CASE ioctl_disablecard
    <2>1. Good(stop(wd), queued, Stopped)
      BY <1>0, <1>4, Stop DEF Stopped, ioctl_disablecard
    <2> QED BY <1>4, <2>1, Carry DEF ioctl_disablecard, Inv
  <1>5. CASE ioctl_enablecard
    <2>1. Good(start(wd), queued, Started(wd))
      BY <1>0, Start DEF Started
    <2> QED BY <1>5, <2>1, Carry DEF ioctl_enablecard, Inv
  <1>6. ASSUME NEW allowed \in BOOLEAN, watchdog_release(allowed) PROVE Inv'
    <2>1. PICK u, g : /\ wd' = [u EXCEPT !.open = FALSE] /\ hw' = g
                      /\ Good(u, queued, g)
      <3>1. CASE ~wd.active
        BY <1>0, <1>6, <3>1, Inactive DEF watchdog_release
      <3>2. CASE wd.active /\ allowed
        <4>1. Good(update_worker(stop(wd)), queued, Stopped)
          BY <1>0, <3>2, Stop DEF Stopped
        <4> QED BY <1>6, <3>2, <4>1 DEF watchdog_release
      <3>3. CASE wd.active /\ ~allowed
        <4>1. Good(update_worker(ping(wd)), queued, Reloaded(wd))
          BY <1>0, <3>3, PingAgain DEF Reloaded
        <4> QED BY <1>6, <3>3, <4>1 DEF watchdog_release
      <3> QED BY <3>1, <3>2, <3>3
    <2>2. Good([u EXCEPT !.open = FALSE], queued, g)
      BY <2>1, OpenBit
    <2> QED BY <1>6, <2>1, <2>2, Carry DEF watchdog_release, Inv
  <1>7. CASE watchdog_timer_expired
    <2>1. Good([wd EXCEPT !.timer = Off],
               IF queued = Off THEN now ELSE queued, hw)
      BY <1>0, <1>7, Expire DEF watchdog_timer_expired
    <2> QED BY <1>7, <2>1, Carry DEF watchdog_timer_expired, Inv
  <1>8. CASE watchdog_ping_work
    <2>1. CASE ~Alive(wd)
      <3>1. ClockInv(wd, Off, hw)
        BY <1>0 DEF ClockInv, Off
      <3>2. Good(wd, Off, hw)
        BY <2>1, <3>1, Inactive DEF Alive
      <3> QED BY <1>8, <2>1, <3>2, Carry DEF watchdog_ping_work, Reloaded, Inv
    <2>2. CASE Alive(wd) /\ TooEarly(wd)
      <3>1. Good(ping_inner(wd), Off, hw)
        BY <1>0, <1>8, <2>2, WorkerDeferred DEF ping_inner, watchdog_ping_work
      <3> QED BY <1>8, <2>2, <3>1, Carry DEF watchdog_ping_work, Reloaded, Inv
    <2>3. CASE Alive(wd) /\ ~TooEarly(wd)
      <3>1. Good(ping_inner(wd), Off, now + hw_heartbeat(wd.timeout))
        BY <1>0, <1>8, <2>3, WorkerPing DEF ping_inner, watchdog_ping_work
      <3> QED BY <1>8, <2>3, <3>1, Carry DEF watchdog_ping_work, Reloaded, Inv
    <2> QED BY <2>1, <2>2, <2>3
  <1>9. CASE Fire
    BY <1>0, <1>9, Carry DEF Fire, Inv
  <1>10. CASE Tick
    BY <1>10, TickInv DEF Tick, Inv
  <1>11. CASE UNCHANGED vars
    BY <1>0, <1>11, Carry DEF vars, Inv
  <1> QED
    BY <1>1, <1>2, <1>3, <1>4, <1>5, <1>6, <1>7, <1>8, <1>9, <1>10, <1>11
    DEF Next

\* The types are a part of the invariant.
LEMMA InvImpliesTypeOK == Inv => TypeOK
  BY DEF Inv, Good, ClockInv, WdData, TypeOK

\* The times are numbers.
LEMMA DueTypes ==
  ASSUME Inv
  PROVE  wd.timeout \in Nat /\ wd.last_keepalive \in Nat /\ Due \in Nat
  <1>1. wd \in WdData /\ MaxTime \in Nat /\ Timeouts \subseteq Nat
    BY KeepaliveAssumption DEF Inv, Good, ClockInv
  <1>2. wd.timeout \in Timeouts /\ wd.last_keepalive \in 0..MaxTime
    BY <1>1 DEF WdData
  <1>3. wd.timeout \in Nat
    BY <1>2, HeartbeatFacts
  <1>4. wd.last_keepalive \in Nat
    BY <1>1, <1>2
  <1> QED BY <1>3, <1>4 DEF Due

\* The hardware is due only when the promise allows a reset.
LEMMA FireInTime ==
  ASSUME Inv, Uniform, wd.active, hw # Off, hw <= now
  PROVE  now >= Due - MinHw
  <1>1. /\ now \in Nat /\ Latency \in Nat /\ MinHw \in Nat
        /\ hw \in Nat /\ ClockInv(wd, queued, hw)
        /\ wd.timer \in Nat \cup {Off} /\ queued \in Int
        /\ EarlyInv(wd, queued, hw)
    BY KeepaliveAssumption DEF Inv, Good, ClockInv, WdData, Off
  <1>2. ~Feeds(wd.timer, hw) /\ ~Feeds(queued, hw)
    BY <1>1 DEF Feeds, ClockInv
  <1>3. hw >= DueOf(wd) - MinHw
    BY <1>1, <1>2 DEF EarlyInv
  <1>4. DueOf(wd) = Due /\ Due \in Int
    BY DueTypes DEF DueOf, Due
  <1> QED BY <1>1, <1>3, <1>4

\* And it is due before the promise has run out.
LEMMA ResetInTime ==
  ASSUME Inv, Uniform, wd.active
  PROVE  hw \in Nat /\ now <= hw /\ hw <= Due + MinHw + Latency
  BY DEF Inv, Good, ClockInv, LateInv, Alive, Due, DueOf, WdData, Off

\* Every instant the core keeps is of its type: the timer is never armed in
\* the past, the last pings never lie in the future.
THEOREM TypeCorrect == Spec => []TypeOK
  <1>1. Init => Inv
    BY InitInv
  <1>2. Inv /\ [Next]_vars => Inv'
    BY NextInv
  <1>3. Inv => TypeOK
    BY InvImpliesTypeOK
  <1> QED BY <1>1, <1>2, <1>3, PTL DEF Spec

\* For timeouts that are Uniform: an active watchdog never resets the machine
\* more than min_hw_heartbeat_ms before one timeout after the last sign of
\* life, for every latency, minimum distance and hardware period.
THEOREM ResetsNotEarly ==
  ASSUME Uniform
  PROVE  Spec => []NeverEarly
  <1>1. Init => Inv
    BY InitInv
  <1>2. Inv /\ [Next]_vars => Inv'
    BY NextInv
  <1>3. Inv => NeverEarly
    BY FireInTime DEF NeverEarly, Inv
  <1> QED BY <1>1, <1>2, <1>3, PTL DEF Spec

\* And a machine whose user space is silent is reset at most the minimum
\* distance and the latency of the worker after that instant.
THEOREM ResetsNotLate ==
  ASSUME Uniform
  PROVE  Spec => []NeverLate
  <1>1. Init => Inv
    BY InitInv
  <1>2. Inv /\ [Next]_vars => Inv'
    BY NextInv
  <1>3. Inv => NeverLate
    <2> SUFFICES ASSUME Inv, wd.active PROVE now <= Due + MinHw + Latency
      BY DEF NeverLate
    <2>1. now \in Int /\ MinHw \in Int /\ Latency \in Int
      BY KeepaliveAssumption DEF Inv, Good, ClockInv
    <2> QED BY <2>1, ResetInTime, DueTypes
  <1> QED BY <1>1, <1>2, <1>3, PTL DEF Spec

-----------------------------------------------------------------------------
(* The refinement of WatchdogPromise.                                      *)

ModeChoice ==
  /\ wd.active => Mode = "user" /\ Promised = Due
  /\ ~wd.active => Promised = 0 /\ Mode # "user"
  /\ ~wd.active /\ ~wd.running => Mode = "off"
  /\ ~wd.active /\ wd.running =>
       \/ Mode = "kernel" /\ (InTime(wd.timer) \/ InTime(queued))
       \/ Mode = "unfed" /\ ~(InTime(wd.timer) \/ InTime(queued))

\* The refinement mapping as a case distinction.
LEMMA ModeChosen == ModeChoice
  BY DEF ModeChoice, Mode, Promised

\* What the helpers do to the fields the promise speaks of.
LEMMA UpdateFields ==
  ASSUME NEW w \in WdData
  PROVE  LET u == update_worker(w)
         IN  /\ u \in [timeout: Timeouts, active: BOOLEAN, running: BOOLEAN,
                       can_stop: BOOLEAN, open: BOOLEAN,
                       last_keepalive: 0..MaxTime,
                       last_hw_keepalive: -1..MaxTime, timer: {u.timer}]
             /\ u.active = w.active /\ u.running = w.running
             /\ u.open = w.open /\ u.timeout = w.timeout
             /\ u.last_keepalive = w.last_keepalive
             /\ u.can_stop = w.can_stop
             /\ u.last_hw_keepalive = w.last_hw_keepalive
  <1>1. PICK t : update_worker(w) = [w EXCEPT !.timer = t]
    BY UpdateWorker
  <1> QED BY <1>1 DEF WdData

\* What watchdog_ping changes for the promise.
LEMMA PingFields ==
  ASSUME NEW w \in WdData, now \in 0..MaxTime
  PROVE  LET u == ping(w)
         IN  /\ u.active = w.active /\ u.running = w.running
             /\ u.open = w.open /\ u.timeout = w.timeout
             /\ Alive(w) => u.last_keepalive = now
             /\ u.can_stop = w.can_stop
  <1> DEFINE v == [w EXCEPT !.last_keepalive = now]
             x == [v EXCEPT !.last_hw_keepalive = now]
  <1>0. now \in -1..MaxTime
    BY KeepaliveAssumption
  <1>1. CASE ~Alive(w)
    BY <1>1 DEF ping
  <1>2. CASE Alive(w) /\ TooEarly(v)
    <2>1. ping(w) = [v EXCEPT !.timer = v.last_hw_keepalive + MinHw]
      BY <1>2 DEF ping, ping_inner
    <2> QED BY <2>1 DEF WdData
  <1>3. CASE Alive(w) /\ ~TooEarly(v)
    <2>1. ping(w) = update_worker(x)
      BY <1>3 DEF ping, ping_inner
    <2>2. /\ x \in WdData /\ x.active = w.active /\ x.running = w.running
          /\ x.open = w.open /\ x.timeout = w.timeout /\ x.last_keepalive = now
          /\ x.can_stop = w.can_stop
      BY <1>0 DEF WdData
    <2> HIDE DEF x
    <2> QED BY <2>1, <2>2, UpdateFields
  <1> QED BY <1>1, <1>2, <1>3

\* What watchdog_start changes for the promise.
LEMMA StartFields ==
  ASSUME NEW w \in WdData, now \in 0..MaxTime, ~w.active
  PROVE  LET u == start(w)
         IN  /\ u.active /\ u.open = w.open /\ u.timeout = w.timeout
             /\ u.last_keepalive = now
             /\ [u EXCEPT !.open = TRUE].active
             /\ [u EXCEPT !.open = TRUE].open
             /\ [u EXCEPT !.open = TRUE].timeout = w.timeout
             /\ [u EXCEPT !.open = TRUE].last_keepalive = now
  <1> DEFINE x == [w EXCEPT !.active = TRUE, !.last_keepalive = now,
                            !.last_hw_keepalive = now]
  <1>1. now \in -1..MaxTime
    BY KeepaliveAssumption
  <1>2. start(w) = update_worker(x)
    BY DEF start
  <1>3. /\ x \in WdData /\ x.active /\ x.open = w.open /\ x.timeout = w.timeout
        /\ x.last_keepalive = now
    BY <1>1 DEF WdData
  <1> HIDE DEF x
  <1>4. PICK t : update_worker(x) = [x EXCEPT !.timer = t]
    BY <1>3, UpdateWorker
  <1> QED BY <1>2, <1>3, <1>4 DEF WdData

\* A ping of the worker without an active user leaves the next one in time.
LEMMA WorkerFeeds ==
  ASSUME Inv, watchdog_ping_work, ~wd.active, wd.running,
         InTime(wd.timer) \/ InTime(queued)
  PROVE  InTime(wd.timer)'
  <1>1. /\ wd \in WdData /\ now \in 0..MaxTime /\ now \in Nat /\ Latency \in Nat
        /\ MinHw \in Nat /\ now \in -1..MaxTime /\ wd.timeout \in Timeouts
        /\ wd.last_hw_keepalive \in Nat /\ wd.last_hw_keepalive + MinHw \in Nat
    BY KeepaliveAssumption DEF Inv, Good, ClockInv, WdData
  <1>2. CASE TooEarly(wd)
    <2>1. /\ wd' = [wd EXCEPT !.timer = wd.last_hw_keepalive + MinHw]
          /\ hw' = hw
      BY <1>2 DEF watchdog_ping_work, ping_inner, Reloaded, Alive
    <2>2. wd.last_hw_keepalive + MinHw + Latency < hw
      BY DEF InTime
    <2>3. /\ wd'.timer = wd.last_hw_keepalive + MinHw
          /\ wd'.last_hw_keepalive = wd.last_hw_keepalive
      BY <1>1, <2>1 DEF WdData
    <2> QED BY <1>1, <2>1, <2>2, <2>3 DEF InTime, Off
  <1>3. CASE ~TooEarly(wd)
    <2> DEFINE x == [wd EXCEPT !.last_hw_keepalive = now]
               H == hw_heartbeat(wd.timeout)
    <2>1. wd' = update_worker(x) /\ hw' = now + H
      BY <1>3 DEF watchdog_ping_work, ping_inner, Reloaded, Alive
    <2>2. /\ x \in WdData /\ ~x.active /\ x.running /\ x.timeout = wd.timeout
          /\ x.last_hw_keepalive = now
      BY <1>1 DEF WdData
    <2> HIDE DEF x
    <2>3. /\ H \in Nat /\ 0 < H \div 2 /\ H \div 2 \in Nat /\ 1 < H
          /\ MinHw + Latency + H \div 2 < H /\ H <= wd.timeout
          /\ wd.timeout \in Nat
      BY <1>1, HeartbeatFacts
    <2>4. next_keepalive(x) = H \div 2 /\ need_worker(x)
      BY <2>2, <2>3 DEF next_keepalive, need_worker
    <2> HIDE DEF H
    <2>5. update_worker(x).timer = now + H \div 2
      BY <2>2, <2>3, <2>4, UpdateWorker
    <2>6. update_worker(x).last_hw_keepalive = now
      BY <2>2, UpdateFields
    <2> QED BY <1>1, <2>1, <2>3, <2>5, <2>6 DEF InTime, Off
  <1> QED BY <1>2, <1>3

\* The timer that expires without an active user queues the work in time.
LEMMA ExpiryFeeds ==
  ASSUME Inv, watchdog_timer_expired, InTime(wd.timer) \/ InTime(queued)
  PROVE  InTime(queued)'
  <1>1. /\ wd' = [wd EXCEPT !.timer = Off] /\ hw' = hw
        /\ wd.timer # Off /\ wd.timer <= now
        /\ queued' = IF queued = Off THEN now ELSE queued
    BY DEF watchdog_timer_expired
  <1>2. wd'.last_hw_keepalive = wd.last_hw_keepalive
    BY <1>1 DEF Inv, Good, ClockInv, WdData
  <1>3. wd.timer = now /\ now \in Nat /\ Latency \in Nat
    BY <1>1, KeepaliveAssumption DEF Inv, Good, ClockInv, WdData, Off
  <1>4. queued # Off => queued \in Nat /\ queued <= now
    BY KeepaliveAssumption DEF Inv, Good, ClockInv
  <1>5. hw \in Int /\ queued' # Off /\ (queued' = queued \/ queued' = now)
    BY <1>1, <1>3 DEF Inv, Good, ClockInv, Off
  <1>6. queued' + Latency < hw
    BY <1>1, <1>3, <1>4, <1>5 DEF InTime
  <1> QED BY <1>1, <1>2, <1>5, <1>6 DEF InTime

\* The hardware does not reset before a ping that comes in time.
LEMMA FireUnfed ==
  ASSUME Inv, hw # Off, hw <= now
  PROVE  ~InTime(wd.timer) /\ ~InTime(queued)
  <1>1. /\ now \in Nat /\ Latency \in Nat /\ hw \in Nat
        /\ wd.timer \in Nat \cup {Off} /\ queued \in Int
        /\ wd.timer # Off => now <= wd.timer
        /\ queued # Off => now <= queued + Latency
    BY KeepaliveAssumption DEF Inv, Good, ClockInv, WdData, Off
  <1> QED BY <1>1 DEF InTime

\* A step of user space on the open device that leaves it without an active
\* user, or finds and leaves it so, hands the watchdog back.
LEMMA HandsBack ==
  ASSUME ~reset, reset' = reset, now' = now, wd.open, wd'.open \in BOOLEAN,
         ~wd'.active, ~wd.active => wd'.running = wd.running,
         wd.running \in BOOLEAN, wd'.running \in BOOLEAN,
         ModeChoice, ModeChoice'
  PROVE  Promise!HandBack
  BY DEF ModeChoice, Promise!HandBack

\* A step that makes or keeps the watchdog active with a new sign of life.
LEMMA Feeding ==
  ASSUME ~reset, reset' = reset, now' = now, wd.open \/ wd'.open,
         wd'.active, wd'.last_keepalive = now, wd'.timeout \in Timeouts,
         ModeChoice'
  PROVE  Promise!Feed
  BY DEF ModeChoice, Promise!Feed, Due

\* Every step of the core is a step of the promise, or none.
LEMMA StepRefines ==
  ASSUME Uniform, Inv, [Next]_vars
  PROVE  [Promise!Next]_(Promise!vars)
  <1> USE ModeChosen
  <1>0. /\ wd \in WdData /\ now \in 0..MaxTime /\ wd.active \in BOOLEAN
        /\ wd.running \in BOOLEAN /\ wd.open \in BOOLEAN
        /\ wd.timeout \in Timeouts
    BY DEF Inv, Good, ClockInv, WdData
  <1>p. ModeChoice /\ ModeChoice'
    BY ModeChosen, PTL
  <1>1. CASE watchdog_open
    <2>1. CASE wd.active
      <3>1. start(wd) = wd
        BY <2>1 DEF start
      <3>2. /\ wd' = [wd EXCEPT !.open = TRUE] /\ ~wd.open /\ ~reset
            /\ now' = now /\ reset' = reset
        BY <1>1, <3>1 DEF watchdog_open
      <3>3. /\ wd'.open /\ wd'.active /\ wd'.last_keepalive = wd.last_keepalive
            /\ wd'.timeout = wd.timeout
        BY <1>0, <2>1, <3>2 DEF WdData
      <3>4. Promise!Reopen
        BY <1>p, <2>1, <3>2, <3>3 DEF ModeChoice, Promise!Reopen, Due
      <3> QED BY <3>4 DEF Promise!Next
    <2>2. CASE ~wd.active
      <3>1. /\ wd'.active /\ wd'.open /\ wd'.timeout = wd.timeout
            /\ wd'.last_keepalive = now
        BY <1>0, <1>1, <2>2, StartFields DEF watchdog_open
      <3>2. Promise!Feed
        BY <1>0, <1>1, <1>p, <3>1, Feeding DEF watchdog_open
      <3> QED BY <3>2 DEF Promise!Next
    <2> QED BY <2>1, <2>2
  <1>2. CASE watchdog_write
    <2>1. /\ wd'.active = wd.active /\ wd'.running = wd.running
          /\ wd'.open = wd.open /\ wd'.timeout = wd.timeout
          /\ Alive(wd) => wd'.last_keepalive = now
      BY <1>0, <1>2, PingFields DEF watchdog_write
    <2>2. CASE wd.active
      <3>1. Promise!Feed
        BY <1>0, <1>2, <1>p, <2>1, <2>2, Feeding DEF watchdog_write, Alive
      <3> QED BY <3>1 DEF Promise!Next
    <2>3. CASE ~wd.active
      <3>1. Promise!HandBack
        BY <1>0, <1>2, <1>p, <2>1, <2>3, HandsBack DEF watchdog_write
      <3> QED BY <3>1 DEF Promise!Next
    <2> QED BY <2>2, <2>3
  <1>3. ASSUME NEW to \in Timeouts, ioctl_settimeout(to)
        PROVE  [Promise!Next]_(Promise!vars)
    <2> DEFINE v == [wd EXCEPT !.timeout = to]
               w == update_worker(v)
    <2>1. /\ v \in WdData /\ v.active = wd.active /\ v.running = wd.running
          /\ v.open = wd.open /\ v.timeout = to
      BY <1>0 DEF WdData
    <2>2. ClockInv(v, queued, hw)
      BY DEF Inv, Good, ClockInv, WdData, Alive
    <2>3. w \in WdData
      BY <2>2, UpdateClock DEF ClockInv
    <2> HIDE DEF v
    <2>4. /\ w.active = wd.active /\ w.running = wd.running
          /\ w.open = wd.open /\ w.timeout = to
      BY <2>1, UpdateFields
    <2>5. wd' = ping(w) /\ ~reset /\ now' = now /\ reset' = reset /\ wd.open
      BY <1>3 DEF ioctl_settimeout, v
    <2> HIDE DEF w
    <2>6. /\ wd'.active = wd.active /\ wd'.running = wd.running
          /\ wd'.open = wd.open /\ wd'.timeout = to
          /\ wd.active => wd'.last_keepalive = now
      BY <1>0, <2>3, <2>4, <2>5, PingFields DEF Alive
    <2>7. CASE wd.active
      <3>1. Promise!Feed
        BY <1>3, <1>p, <2>5, <2>6, <2>7, Feeding
      <3> QED BY <3>1 DEF Promise!Next
    <2>8. CASE ~wd.active
      <3>1. Promise!HandBack
        BY <1>0, <1>p, <2>5, <2>6, <2>8, HandsBack
      <3> QED BY <3>1 DEF Promise!Next
    <2> QED BY <2>7, <2>8
  <1>4. CASE ioctl_disablecard
    <2>1. ClockInv(wd, queued, hw) /\ wd.active /\ wd' = stop(wd)
      BY <1>4 DEF Inv, Good, ioctl_disablecard
    <2>2. wd' \in WdData /\ ~wd'.active
      BY <2>1, Stop DEF Good, ClockInv
    <2>3. wd'.open \in BOOLEAN /\ wd'.running \in BOOLEAN
      BY <2>2 DEF WdData
    <2>4. Promise!HandBack
      BY <1>0, <1>4, <1>p, <2>1, <2>2, <2>3, HandsBack DEF ioctl_disablecard
    <2> QED BY <2>4 DEF Promise!Next
  <1>5. CASE ioctl_enablecard
    <2>1. CASE wd.active
      <3>1. wd' = wd /\ now' = now /\ reset' = reset
        BY <1>5, <2>1 DEF start, ioctl_enablecard
      <3> QED BY <1>p, <2>1, <3>1 DEF ModeChoice, Due, Promise!vars
    <2>2. CASE ~wd.active
      <3>1. /\ wd'.active /\ wd'.open = wd.open /\ wd'.timeout = wd.timeout
            /\ wd'.last_keepalive = now
        BY <1>0, <1>5, <2>2, StartFields DEF ioctl_enablecard
      <3>2. Promise!Feed
        BY <1>0, <1>5, <1>p, <3>1, Feeding DEF ioctl_enablecard
      <3> QED BY <3>2 DEF Promise!Next
    <2> QED BY <2>1, <2>2
  <1>6. ASSUME NEW allowed \in BOOLEAN, watchdog_release(allowed)
        PROVE  [Promise!Next]_(Promise!vars)
    <2>0. ~reset /\ now' = now /\ reset' = reset /\ wd.open
      BY <1>6 DEF watchdog_release
    <2>1. CASE wd.active /\ ~allowed
      <3> DEFINE w == ping(wd)
      <3>1. Alive(wd) /\ ClockInv(wd, queued, hw)
        BY <2>1 DEF Alive, Inv, Good
      <3>2. w \in WdData
        BY <3>1, Ping DEF Good, ClockInv
      <3>3. w.active /\ w.timeout = wd.timeout /\ w.last_keepalive = now
        BY <1>0, <2>1, <3>1, PingFields
      <3>4. wd' = [update_worker(w) EXCEPT !.open = FALSE]
        BY <1>6, <2>1 DEF watchdog_release
      <3> HIDE DEF w
      <3>5. PICK t : update_worker(w) = [w EXCEPT !.timer = t]
        BY <3>2, UpdateWorker
      <3>6. /\ wd'.active /\ wd'.timeout = wd.timeout
            /\ wd'.last_keepalive = now
        BY <3>2, <3>3, <3>4, <3>5 DEF WdData
      <3>7. Promise!Feed
        BY <1>0, <1>p, <2>0, <3>6, Feeding
      <3> QED BY <3>7 DEF Promise!Next
    <2>2. CASE ~(wd.active /\ ~allowed)
      <3>1. PICK w \in WdData :
              /\ wd' = [update_worker(w) EXCEPT !.open = FALSE]
              /\ ~w.active
              /\ ~wd.active => w = wd
        <4>1. CASE ~wd.active
          BY <1>0, <1>6, <4>1 DEF watchdog_release
        <4>2. CASE wd.active
          <5>1. stop(wd) \in WdData /\ ~stop(wd).active
            BY <4>2, Stop DEF Inv, Good, ClockInv
          <5> QED BY <1>6, <2>2, <4>2, <5>1 DEF watchdog_release
        <4> QED BY <4>1, <4>2
      <3>2. PICK t : update_worker(w) = [w EXCEPT !.timer = t]
        BY UpdateWorker
      <3>3. /\ ~wd'.active /\ wd'.open \in BOOLEAN /\ wd'.running \in BOOLEAN
            /\ ~wd.active => wd'.running = wd.running
        BY <3>1, <3>2 DEF WdData
      <3>4. Promise!HandBack
        BY <1>0, <1>p, <2>0, <3>3, HandsBack
      <3> QED BY <3>4 DEF Promise!Next
    <2> QED BY <2>1, <2>2
  <1>7. CASE watchdog_timer_expired
    <2>1. /\ wd' = [wd EXCEPT !.timer = Off] /\ hw' = hw /\ ~reset
          /\ now' = now /\ reset' = reset /\ wd.timer # Off /\ wd.timer <= now
          /\ queued' = IF queued = Off THEN now ELSE queued
      BY <1>7 DEF watchdog_timer_expired
    <2>2. /\ wd'.active = wd.active /\ wd'.running = wd.running
          /\ wd'.open = wd.open /\ wd'.timeout = wd.timeout
          /\ wd'.last_keepalive = wd.last_keepalive /\ wd'.timer = Off
          /\ wd'.last_hw_keepalive = wd.last_hw_keepalive
      BY <1>0, <2>1 DEF WdData
    <2>3. InTime(wd.timer) \/ InTime(queued) => InTime(queued)'
      BY <1>7, ExpiryFeeds
    <2>4. UNCHANGED <<now, wd.open, Promised, reset>>
      BY <1>p, <2>1, <2>2 DEF ModeChoice, Due
    <2>5. Mode' = Mode \/ (Mode = "unfed" /\ Mode' = "kernel")
      BY <1>0, <1>p, <2>2, <2>3 DEF ModeChoice
    <2> QED BY <2>1, <2>4, <2>5 DEF Promise!Next, Promise!TakeOver, Promise!vars
  <1>8. CASE watchdog_ping_work
    <2>1. ~reset /\ now' = now /\ reset' = reset
      BY <1>8 DEF watchdog_ping_work
    <2>2. /\ wd'.active = wd.active /\ wd'.running = wd.running
          /\ wd'.open = wd.open /\ wd'.timeout = wd.timeout
          /\ wd'.last_keepalive = wd.last_keepalive
      <3> DEFINE x == [wd EXCEPT !.last_hw_keepalive = now]
      <3>1. now \in -1..MaxTime
        BY <1>0, KeepaliveAssumption
      <3>2. /\ x \in WdData
            /\ x.active = wd.active /\ x.running = wd.running
            /\ x.open = wd.open /\ x.timeout = wd.timeout
            /\ x.last_keepalive = wd.last_keepalive
        BY <1>0, <3>1 DEF WdData
      <3>3. \/ wd' = wd
            \/ wd' = [wd EXCEPT !.timer = wd.last_hw_keepalive + MinHw]
            \/ wd' = update_worker(x)
        BY <1>8 DEF watchdog_ping_work, ping_inner
      <3> HIDE DEF x
      <3>4. PICK t : update_worker(x) = [x EXCEPT !.timer = t]
        BY <3>2, UpdateWorker
      <3> QED BY <1>0, <3>2, <3>3, <3>4 DEF WdData
    <2>3. UNCHANGED <<now, wd.open, Promised, reset>>
      BY <1>p, <2>1, <2>2 DEF ModeChoice, Due
    <2>4. Mode' = Mode \/ (Mode = "unfed" /\ Mode' = "kernel")
      BY <1>0, <1>8, <1>p, <2>2, WorkerFeeds DEF ModeChoice
    <2> QED BY <2>1, <2>3, <2>4 DEF Promise!Next, Promise!TakeOver, Promise!vars
  <1>9. CASE Fire
    <2>1. /\ ~reset /\ reset' = TRUE /\ hw # Off /\ hw <= now
          /\ UNCHANGED <<now, wd, queued, hw>>
      BY <1>9 DEF Fire
    <2>2. Mode' = Mode /\ Promised' = Promised
      BY <2>1 DEF Mode, Promised, InTime, Due
    <2>3. Mode = "unfed" \/ (Mode = "user" /\ now >= Promised - MinHw)
      <3>1. CASE wd.active
        BY <1>p, <2>1, <3>1, FireInTime DEF ModeChoice
      <3>2. CASE ~wd.active
        <4>1. wd.running
          BY <2>1, <3>2 DEF Inv, Good, ClockInv, Alive
        <4>2. ~InTime(wd.timer) /\ ~InTime(queued)
          BY <2>1, FireUnfed
        <4> QED BY <1>p, <3>2, <4>1, <4>2 DEF ModeChoice
      <3> QED BY <3>1, <3>2
    <2>4. Promise!Reset
      BY <2>1, <2>2, <2>3 DEF Promise!Reset
    <2> QED BY <2>4 DEF Promise!Next
  <1>10. CASE Tick
    <2>1. /\ ~reset /\ reset' = reset /\ now' = now + 1
          /\ UNCHANGED <<wd, queued, hw>> /\ (hw = Off \/ now < hw)
      BY <1>10 DEF Tick
    <2>2. Mode' = Mode /\ Promised' = Promised
      BY <2>1 DEF Mode, Promised, InTime, Due
    <2>3. Mode = "user" => now < Promised + (MinHw + Latency)
      <3> SUFFICES ASSUME wd.active PROVE now < Due + (MinHw + Latency)
        BY <1>p DEF ModeChoice
      <3>1. now \in Int /\ MinHw \in Int /\ Latency \in Int
        BY KeepaliveAssumption DEF Inv, Good, ClockInv
      <3> QED BY <2>1, <3>1, ResetInTime, DueTypes DEF Off
    <2>4. Promise!Tick
      BY <2>1, <2>2, <2>3 DEF Promise!Tick
    <2> QED BY <2>4 DEF Promise!Next
  <1>11. CASE UNCHANGED vars
    BY <1>11 DEF vars, Mode, Promised, InTime, Due, Promise!vars
  <1> QED
    BY <1>1, <1>2, <1>3, <1>4, <1>5, <1>6, <1>7, <1>8, <1>9, <1>10, <1>11
    DEF Next

\* At the start the kernel feeds the hardware in time.
LEMMA InitRefines == Init => Promise!Init
  <1> SUFFICES ASSUME Init PROVE Promise!Init
    OBVIOUS
  <1>1. PICK to \in Timeouts, can_stop \in BOOLEAN :
          /\ wd = update_worker(
                    [timeout |-> to, active |-> FALSE, running |-> TRUE,
                     can_stop |-> can_stop, open |-> FALSE, last_keepalive |-> 0,
                     last_hw_keepalive |-> 0, timer |-> Off])
          /\ hw = hw_heartbeat(to)
    BY DEF Init
  <1> DEFINE w == [timeout |-> to, active |-> FALSE, running |-> TRUE,
                   can_stop |-> can_stop, open |-> FALSE, last_keepalive |-> 0,
                   last_hw_keepalive |-> 0, timer |-> Off]
             H == hw_heartbeat(to)
  <1>2. 0 \in 0..MaxTime /\ 0 \in -1..MaxTime /\ MinHw \in Nat /\ Latency \in Nat
    BY KeepaliveAssumption
  <1>3. /\ w \in WdData /\ w.last_hw_keepalive = 0 /\ w.timeout = to
        /\ ~w.active /\ w.running /\ ~w.open
    BY <1>2 DEF WdData
  <1> HIDE DEF w
  <1>4. /\ H \in Nat /\ 0 < H \div 2 /\ H \div 2 \in Nat /\ 1 < H
        /\ MinHw + Latency + H \div 2 < H /\ H <= to /\ to \in Nat
    BY HeartbeatFacts
  <1>5. next_keepalive(w) = H \div 2 /\ need_worker(w)
    BY <1>3, <1>4 DEF next_keepalive, need_worker
  <1> HIDE DEF H
  <1>6. now = 0 /\ reset = FALSE
    BY DEF Init
  <1>7. /\ wd.timer = H \div 2 /\ wd.last_hw_keepalive = 0 /\ ~wd.open
        /\ ~wd.active /\ wd.running /\ wd.open \in BOOLEAN
    <2>1. wd = update_worker(w)
      BY <1>1 DEF w
    <2>2. wd.timer = now + H \div 2
      BY <1>3, <1>4, <1>5, <2>1, UpdateWorker
    <2>3. /\ wd.last_hw_keepalive = 0 /\ wd.open = w.open /\ w.open \in BOOLEAN
          /\ wd.active = w.active /\ wd.running = w.running
      BY <1>3, <2>1, UpdateFields DEF WdData
    <2> QED BY <1>3, <1>4, <1>6, <2>2, <2>3
  <1>8. InTime(wd.timer)
    BY <1>1, <1>2, <1>4, <1>7 DEF InTime, Off, H
  <1> QED BY <1>6, <1>7, <1>8 DEF Promise!Init, Mode, Promised

\* For timeouts that are Uniform the core's timer, worker and hardware are
\* the watchdog that WatchdogPromise describes.
THEOREM PromiseImplemented ==
  ASSUME Uniform
  PROVE  Spec => PromiseKept
  <1>1. Init => Inv
    BY InitInv
  <1>2. Inv /\ [Next]_vars => Inv'
    BY NextInv
  <1>3. Init => Promise!Init
    BY InitRefines
  <1>4. Inv /\ [Next]_vars => [Promise!Next]_(Promise!vars)
    BY StepRefines
  <1> QED BY <1>1, <1>2, <1>3, <1>4, PTL DEF Spec, PromiseKept, Promise!Spec
-----------------------------------------------------------------------------
(***************************************************************************)
(* Hardware that has a stop operation (wdd->ops->stop).  watchdog_release  *)
(* may leave hardware that cannot be stopped running without a ping in     *)
(* time; a driver with a stop operation never gets there, whatever the     *)
(* timeouts are: Uniform is not needed.                                    *)
(***************************************************************************)

\* Stoppable hardware runs without an active user only until the first open,
\* and until then the kernel feeds it in time.
KernelHolds ==
  wd.can_stop /\ wd.running /\ ~wd.active =>
    ~wd.open /\ (InTime(wd.timer) \/ InTime(queued))

\* Hardware that the driver can stop resets the machine only for a user: the
\* device was opened, and neither a magic close nor WDIOS_DISABLECARD has
\* stopped it since.
ResetNeedsUser == reset /\ wd.can_stop => wd.active

\* Somebody uses it, it is off, or it cannot be stopped.
UserHolds(w) == w.can_stop /\ w.running => w.active

\* watchdog_ping, also after a new timeout, takes nobody's place.
LEMMA PingHolds ==
  ASSUME NEW w \in WdData, now \in 0..MaxTime, UserHolds(w)
  PROVE  UserHolds(ping(w))
  BY PingFields DEF UserHolds

\* Nor does the decision about the timer.
LEMMA UpdateHolds ==
  ASSUME NEW w \in WdData, UserHolds(w)
  PROVE  UserHolds(update_worker(w))
  BY UpdateFields DEF UserHolds

\* watchdog_stop of hardware that can be stopped stops it.
LEMMA StopHolds ==
  ASSUME NEW w \in WdData
  PROVE  UserHolds(stop(w))
  <1> DEFINE x == [w EXCEPT !.active = FALSE, !.running = ~w.can_stop]
  <1>1. x \in WdData /\ x.running = ~x.can_stop
    BY DEF WdData
  <1>2. stop(w) = update_worker(x)
    BY DEF stop
  <1> HIDE DEF x
  <1>3. UserHolds(x)
    BY <1>1 DEF UserHolds
  <1> QED BY <1>1, <1>2, <1>3, UpdateHolds

\* Every step of user space on the open device leaves it in a user's hands.
LEMMA UserStepHolds ==
  ASSUME Inv, KernelHolds, wd.open,
         \/ watchdog_write
         \/ \E to \in Timeouts : ioctl_settimeout(to)
         \/ ioctl_disablecard
         \/ ioctl_enablecard
         \/ \E allowed \in BOOLEAN : watchdog_release(allowed)
  PROVE  UserHolds(wd')
  <1>0. /\ wd \in WdData /\ now \in 0..MaxTime /\ UserHolds(wd)
        /\ ClockInv(wd, queued, hw)
    BY DEF Inv, Good, ClockInv, KernelHolds, UserHolds
  <1>1. CASE watchdog_write
    BY <1>0, <1>1, PingHolds DEF watchdog_write
  <1>2. ASSUME NEW to \in Timeouts, ioctl_settimeout(to)
        PROVE  UserHolds(wd')
    <2> DEFINE v == [wd EXCEPT !.timeout = to]
               w == update_worker(v)
    <2>1. v \in WdData /\ UserHolds(v)
      BY <1>0 DEF WdData, UserHolds
    <2>2. ClockInv(v, queued, hw)
      BY <1>0 DEF ClockInv, WdData, Alive
    <2>3. wd' = ping(w)
      BY <1>2 DEF ioctl_settimeout
    <2> HIDE DEF v
    <2>4. w \in WdData
      BY <2>2, UpdateClock DEF ClockInv
    <2>5. UserHolds(w)
      BY <2>1, UpdateHolds
    <2> HIDE DEF w
    <2> QED BY <1>0, <2>3, <2>4, <2>5, PingHolds
  <1>3. CASE ioctl_disablecard
    BY <1>0, <1>3, StopHolds DEF ioctl_disablecard
  <1>4. CASE ioctl_enablecard
    <2>1. CASE wd.active
      BY <1>0, <1>4, <2>1 DEF ioctl_enablecard, start
    <2>2. CASE ~wd.active
      <3>1. wd'.active
        BY <1>0, <1>4, <2>2, StartFields DEF ioctl_enablecard
      <3> QED BY <3>1 DEF UserHolds
    <2> QED BY <2>1, <2>2
  <1>5. ASSUME NEW allowed \in BOOLEAN, watchdog_release(allowed)
        PROVE  UserHolds(wd')
    <2>1. PICK w \in WdData :
            /\ wd' = [update_worker(w) EXCEPT !.open = FALSE]
            /\ UserHolds(w)
      <3>1. CASE ~wd.active
        BY <1>0, <1>5, <3>1 DEF watchdog_release
      <3>2. CASE wd.active /\ allowed
        <4>1. stop(wd) \in WdData
          BY <1>0, <3>2, Stop DEF Good, ClockInv
        <4> QED BY <1>0, <1>5, <3>2, <4>1, StopHolds DEF watchdog_release
      <3>3. CASE wd.active /\ ~allowed
        <4>1. ping(wd) \in WdData
          BY <1>0, Ping DEF Good, ClockInv
        <4> QED BY <1>0, <1>5, <3>3, <4>1, PingHolds DEF watchdog_release
      <3> QED BY <3>1, <3>2, <3>3
    <2>2. PICK t : update_worker(w) = [w EXCEPT !.timer = t]
      BY UpdateWorker
    <2> QED BY <2>1, <2>2 DEF WdData, UserHolds
  <1> QED BY <1>1, <1>2, <1>3, <1>4, <1>5

\* The kernel holds stoppable hardware at the start, and no step takes it
\* away except for a user.
LEMMA KernelHoldsNext == Inv /\ KernelHolds /\ [Next]_vars => KernelHolds'
  <1> SUFFICES ASSUME Inv, KernelHolds, [Next]_vars PROVE KernelHolds'
    OBVIOUS
  <1>0. wd \in WdData /\ now \in 0..MaxTime
    BY DEF Inv, Good, ClockInv
  <1>1. CASE watchdog_open
    <2>1. CASE wd.active
      <3>1. wd' = [wd EXCEPT !.open = TRUE]
        BY <1>1, <2>1 DEF watchdog_open, start
      <3>2. wd'.active
        BY <1>0, <2>1, <3>1 DEF WdData
      <3> QED BY <3>2 DEF KernelHolds
    <2>2. CASE ~wd.active
      <3>1. wd'.active
        BY <1>0, <1>1, <2>2, StartFields DEF watchdog_open
      <3> QED BY <3>1 DEF KernelHolds
    <2> QED BY <2>1, <2>2
  <1>2. CASE \/ watchdog_write
             \/ \E to \in Timeouts : ioctl_settimeout(to)
             \/ ioctl_disablecard
             \/ ioctl_enablecard
             \/ \E allowed \in BOOLEAN : watchdog_release(allowed)
    <2>1. wd.open
      BY <1>2 DEF watchdog_write, ioctl_settimeout, ioctl_disablecard,
                  ioctl_enablecard, watchdog_release
    <2>2. UserHolds(wd')
      BY <1>2, <2>1, UserStepHolds
    <2> QED BY <2>2 DEF UserHolds, KernelHolds
  <1>3. CASE watchdog_timer_expired
    <2>1. /\ wd' = [wd EXCEPT !.timer = Off] /\ hw' = hw /\ now' = now
          /\ wd.timer # Off /\ wd.timer <= now
          /\ queued' = IF queued = Off THEN now ELSE queued
      BY <1>3 DEF watchdog_timer_expired
    <2>2. /\ wd'.active = wd.active /\ wd'.running = wd.running
          /\ wd'.open = wd.open /\ wd'.can_stop = wd.can_stop
          /\ wd'.last_hw_keepalive = wd.last_hw_keepalive
      BY <1>0, <2>1 DEF WdData
    <2>3. InTime(wd.timer) \/ InTime(queued) => InTime(queued)'
      BY <1>3, ExpiryFeeds
    <2> QED BY <2>2, <2>3 DEF KernelHolds
  <1>4. CASE watchdog_ping_work
    <2>1. /\ wd'.active = wd.active /\ wd'.running = wd.running
          /\ wd'.open = wd.open /\ wd'.can_stop = wd.can_stop
      <3> DEFINE x == [wd EXCEPT !.last_hw_keepalive = now]
      <3>1. now \in -1..MaxTime
        BY <1>0, KeepaliveAssumption
      <3>2. /\ x \in WdData
            /\ x.active = wd.active /\ x.running = wd.running
            /\ x.open = wd.open /\ x.can_stop = wd.can_stop
        BY <1>0, <3>1 DEF WdData
      <3>3. \/ wd' = wd
            \/ wd' = [wd EXCEPT !.timer = wd.last_hw_keepalive + MinHw]
            \/ wd' = update_worker(x)
        BY <1>4 DEF watchdog_ping_work, ping_inner
      <3> HIDE DEF x
      <3>4. PICK t : update_worker(x) = [x EXCEPT !.timer = t]
        BY <3>2, UpdateWorker
      <3> QED BY <1>0, <3>2, <3>3, <3>4 DEF WdData
    <2>2. ~wd.active /\ wd.running /\ (InTime(wd.timer) \/ InTime(queued))
            => InTime(wd.timer)'
      BY <1>4, WorkerFeeds
    <2> QED BY <2>1, <2>2 DEF KernelHolds
  <1>5. CASE Fire \/ Tick \/ UNCHANGED vars
    BY <1>5 DEF Fire, Tick, vars, KernelHolds, InTime
  <1> QED BY <1>1, <1>2, <1>3, <1>4, <1>5 DEF Next

\* The reset itself: hardware without a user is fed or off.
LEMMA ResetNeedsUserNext ==
  Inv /\ KernelHolds /\ ResetNeedsUser /\ [Next]_vars => ResetNeedsUser'
  <1> SUFFICES ASSUME Inv, KernelHolds, ResetNeedsUser, [Next]_vars,
                      reset', wd'.can_stop
               PROVE  wd'.active
    BY DEF ResetNeedsUser
  <1>1. CASE Fire
    <2>1. hw # Off /\ hw <= now /\ wd' = wd
      BY <1>1 DEF Fire
    <2>2. Alive(wd)
      BY <2>1 DEF Inv, Good, ClockInv
    <2>3. ~InTime(wd.timer) /\ ~InTime(queued)
      BY <2>1, FireUnfed
    <2> QED BY <2>1, <2>2, <2>3 DEF KernelHolds, Alive
  <1>2. CASE UNCHANGED vars
    BY <1>2 DEF vars, ResetNeedsUser
  <1>3. CASE Next /\ ~Fire
    <2>1. ~reset /\ reset' = reset
      BY <1>3 DEF Next, watchdog_open, watchdog_write, ioctl_settimeout,
                  ioctl_disablecard, ioctl_enablecard, watchdog_release,
                  watchdog_timer_expired, watchdog_ping_work, Tick
    <2> QED BY <2>1
  <1> QED BY <1>1, <1>2, <1>3

\* Hardware with a stop operation never resets the machine behind the back
\* of user space: only an active user who stays silent brings the reset, for
\* every set of timeouts, heartbeat limits and latency of the worker.
THEOREM StoppableResetsForUserOnly == Spec => []ResetNeedsUser
  <1>1. Init => Inv /\ KernelHolds /\ ResetNeedsUser
    <2> SUFFICES ASSUME Init PROVE Inv /\ KernelHolds /\ ResetNeedsUser
      OBVIOUS
    <2>1. Promise!Init
      BY InitRefines
    <2>2. ~wd.open /\ Mode = "kernel"
      BY <2>1 DEF Promise!Init
    <2>3. InTime(wd.timer) \/ InTime(queued)
      BY <2>2 DEF Mode
    <2>4. Inv /\ reset = FALSE
      BY InitInv DEF Init
    <2> QED BY <2>2, <2>3, <2>4 DEF KernelHolds, ResetNeedsUser
  <1>2. Inv /\ KernelHolds /\ ResetNeedsUser /\ [Next]_vars
          => (Inv /\ KernelHolds /\ ResetNeedsUser)'
    BY NextInv, KernelHoldsNext, ResetNeedsUserNext
  <1> QED BY <1>1, <1>2, PTL DEF Spec
=============================================================================
