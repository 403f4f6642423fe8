-------------------------- MODULE BakeryLockProofs --------------------------
(***************************************************************************)
(* Proofs about BakeryLock, for up to 256 CPUs and any range of tickets:   *)
(* the holder is first, no wake-up is lost, tickets do not wrap around,    *)
(* and the loads and stores implement the safety part of FairLock.         *)
(*                                                                         *)
(* The heart of the invariant is Behind(c, d): d has no ticket, or has one *)
(* of lower priority than c's, or is choosing one that will be.  Whoever   *)
(* has been passed by the loop of bakery_lock_get is behind.               *)
(***************************************************************************)
EXTENDS BakeryLock, FiniteSets, FiniteSetTheorems, WellFoundedInduction, TLAPS

Resting == {"idle", "sev"}             \* has no ticket
Doorway == {"scan", "publish"}         \* is choosing one
Looping == {"look", "wfe", "recheck"}  \* compares it with the others

Precedes(c, d) == PRIORITY(number[c], c) < PRIORITY(number[d], d)

Behind(c, d) ==
  CASE pc[d] \in Resting -> TRUE
    [] pc[d] = "scan"    -> they[d] <= c \/ number[c] <= my_ticket[d]
    [] pc[d] = "publish" -> number[c] <= my_ticket[d]
    [] OTHER             -> Precedes(c, d)

\* The loop of bakery_lock_get of c is beyond d.
Passed(c, d) == pc[c] = "cs" \/ (pc[c] \in Looping /\ d < they[c])

\* What the word and the locals of CPU c hold at each label.
LocalInv(c) ==
  /\ choosing[c] <=> pc[c] \in Doorway
  /\ number[c] = 0 <=> pc[c] \in Resting \cup Doorway
  /\ pc[c] \in Looping \cup {"cs"} => my_ticket[c] = number[c]
  /\ pc[c] \in Looping \cup {"scan"} => they[c] \in CPUs \ {c}
  /\ pc[c] \in {"wfe", "recheck"} =>
       /\ Ahead(c, their_ticket[c])
       /\ number[they[c]] = their_ticket[c] \/ Behind(c, they[c])

OrderInv == \A c, d \in CPUs : c # d /\ Passed(c, d) => Behind(c, d)

-----------------------------------------------------------------------------
(* Why tickets do not wrap around.  While a CPU has a high ticket nobody   *)
(* enters the doorway, and it waits for all CPUs that are in the doorway:  *)
(* until the last of the high tickets is dropped each CPU publishes at     *)
(* most one more.                                                          *)

High(t) == t # 0 /\ t + N >= TicketRange

Outside == {c \in CPUs : pc[c] \notin Doorway}

\* The ticket a CPU has or has seen in the doorway.
Seen(c) == IF pc[c] \in Doorway THEN my_ticket[c] ELSE number[c]

RoomInv ==
  /\ \A c \in CPUs : Seen(c) + N < TicketRange + Cardinality(Outside)
  /\ \A c, d \in CPUs : High(number[c]) /\ pc[d] \in Doorway =>
       /\ ~Passed(c, d)
       /\ they[c] = d => pc[c] = "look"
  /\ \A d \in CPUs : pc[d] \in Doorway /\ High(my_ticket[d]) =>
       \E c \in CPUs : number[c] = my_ticket[d]

Inv == TypeOK /\ (\A c \in CPUs : LocalInv(c)) /\ OrderInv /\ RoomInv

-----------------------------------------------------------------------------
(* Arithmetic and cardinality.                                             *)

\* CPU indices are the numbers below N, and fit into the low byte of a
\* priority.
LEMMA CpuFacts ==
  /\ \A c \in CPUs : c \in Nat /\ c < N /\ c < 256
  /\ \A i \in Nat : i < N => i \in CPUs
  BY BakeryAssumption DEF CPUs

\* The loops skip me and nobody else.
LEMMA IndexFacts ==
  ASSUME NEW me \in CPUs, NEW i \in 0..N
  PROVE  /\ Index(me, i) \in 0..N
         /\ Index(me, i) < N => Index(me, i) \in CPUs \ {me}
         /\ \A c \in CPUs \ {me} : Index(me, i) <= c <=> i <= c
         /\ \A c \in CPUs : Index(me, i) >= N => c = me \/ c < i
  BY BakeryAssumption DEF Index, CPUs

\* A higher ticket is a lower priority, and equal tickets are told apart.
LEMMA PriorityOrder ==
  ASSUME NEW c \in CPUs, NEW d \in CPUs, c # d, NEW s \in Nat, NEW t \in Nat
  PROVE  /\ s < t => PRIORITY(s, c) < PRIORITY(t, d)
         /\ PRIORITY(s, c) < PRIORITY(t, d) <=> ~(PRIORITY(t, d) < PRIORITY(s, c))
  BY BakeryAssumption DEF PRIORITY, CPUs

\* The type invariant, CPU by CPU.
LEMMA Typed ==
  ASSUME TypeOK, NEW c \in CPUs
  PROVE  /\ choosing[c] \in BOOLEAN /\ pc[c] \in Labels
         /\ number[c] \in Nat /\ number[c] < TicketRange
         /\ my_ticket[c] \in Nat /\ my_ticket[c] < TicketRange
         /\ their_ticket[c] \in Nat /\ their_ticket[c] < TicketRange
         /\ they[c] \in 0..N /\ event[c] \in BOOLEAN
  BY BakeryAssumption DEF TypeOK

\* Tickets in range are stored as they are.
LEMMA ModFact ==
  ASSUME NEW t \in Nat, NEW r \in Nat, t < r
  PROVE  t % r = t
  OBVIOUS

\* Cardinalities of sets of CPUs.
LEMMA SomeCPUs ==
  ASSUME NEW S \in SUBSET CPUs
  PROVE  /\ Cardinality(S) \in 0..N
         /\ \A c \in CPUs \ S : /\ Cardinality(S) < N
                               /\ Cardinality(S \cup {c}) = Cardinality(S) + 1
  <1>1. IsFiniteSet(CPUs) /\ Cardinality(CPUs) = N
    BY BakeryAssumption, FS_Interval DEF CPUs
  <1>2. /\ IsFiniteSet(S)
        /\ Cardinality(S) \in Nat
        /\ Cardinality(S) <= N
        /\ S # CPUs => Cardinality(S) < N
    BY <1>1, FS_Subset, FS_CardinalityType
  <1>3. \A c \in CPUs \ S : Cardinality(S \cup {c}) = Cardinality(S) + 1
    BY <1>2, FS_AddElement
  <1> QED BY <1>2, <1>3, BakeryAssumption

\* The same of the CPUs outside the doorway.
LEMMA OutsideFinite ==
  /\ Cardinality(Outside) \in 0..N
  /\ \A c \in CPUs \ Outside :
       /\ Cardinality(Outside) < N
       /\ Cardinality(Outside \cup {c}) = Cardinality(Outside) + 1
  <1>1. Outside \in SUBSET CPUs
    BY DEF Outside
  <1> QED BY <1>1, SomeCPUs

-----------------------------------------------------------------------------
(* One lemma per action.                                                   *)

\* Whether d is behind c depends on d's locals and the two tickets only.
LEMMA BehindFrame ==
  ASSUME NEW c \in CPUs, NEW d \in CPUs, Behind(c, d),
         pc'[d] = pc[d], they'[d] = they[d], my_ticket'[d] = my_ticket[d],
         number'[c] = number[c], number'[d] = number[d]
  PROVE  Behind(c, d)'
  BY DEF Behind, Precedes

\* The loop of bakery_get_ticket that looks for the highest ticket.
LEMMA ScanInv ==
  ASSUME Inv, NEW me \in CPUs, scan(me)
  PROVE  Inv'
  <1> DEFINE next == Index(me, they[me] + 1)
             ticket == IF number[they[me]] > my_ticket[me]
                       THEN number[they[me]] ELSE my_ticket[me]
  <1>1. TypeOK /\ pc[me] = "scan" /\ they[me] \in CPUs \ {me}
    BY DEF Inv, LocalInv, Looping, scan
  <1>2. they[me] + 1 \in 0..N
    BY <1>1, CpuFacts, BakeryAssumption
  <1>3. /\ next \in 0..N
        /\ next < N => next \in CPUs \ {me}
        /\ \A c \in CPUs \ {me} : next <= c <=> they[me] + 1 <= c
        /\ next >= N => \A c \in CPUs : c = me \/ c < they[me] + 1
    BY <1>2, IndexFacts
  <1>4. /\ ticket \in Nat /\ ticket < TicketRange
        /\ ticket \in {number[they[me]], my_ticket[me]}
        /\ ticket >= number[they[me]] /\ ticket >= my_ticket[me]
    BY <1>1, Typed
  <1>5. /\ my_ticket' = [my_ticket EXCEPT ![me] = ticket]
        /\ they' = [they EXCEPT ![me] = next]
        /\ pc' = [pc EXCEPT ![me] = IF next < N THEN "scan" ELSE "publish"]
        /\ UNCHANGED <<choosing, number, their_ticket, event>>
    BY DEF scan
  <1> HIDE DEF next, ticket
  <1>6. TypeOK'
    BY <1>1, <1>3, <1>4, <1>5, BakeryAssumption DEF TypeOK, Labels
  <1>7. /\ my_ticket'[me] = ticket /\ they'[me] = next
        /\ pc'[me] = IF next < N THEN "scan" ELSE "publish"
        /\ \A c \in CPUs \ {me} : /\ my_ticket'[c] = my_ticket[c]
                                 /\ they'[c] = they[c] /\ pc'[c] = pc[c]
    BY <1>1, <1>5 DEF TypeOK
  <1>8. ASSUME NEW c \in CPUs, NEW d \in CPUs \ {c}, Behind(c, d)
        PROVE  Behind(c, d)'
    <2>1. CASE d # me
      BY <1>5, <1>7, <1>8, <2>1, BehindFrame
    <2>2. CASE d = me
      <3>1. they[me] <= c \/ number[c] <= my_ticket[me]
        BY <1>1, <1>8, <2>2 DEF Behind, Resting
      <3>2. next <= c \/ number[c] <= ticket
        BY <1>1, <1>3, <1>4, <3>1, <2>2, Typed, CpuFacts
      <3>3. next < N \/ number[c] <= ticket
        BY <1>3, <3>2, <2>2, CpuFacts, BakeryAssumption
      <3> QED BY <1>5, <1>7, <2>2, <3>2, <3>3 DEF Behind, Resting
    <2> QED BY <2>1, <2>2
  <1>9. ASSUME NEW c \in CPUs PROVE LocalInv(c)'
    <2>1. LocalInv(c)
      BY DEF Inv
    <2>2. CASE c = me
      BY <1>1, <1>3, <1>5, <1>7, <2>1, <2>2 DEF LocalInv, Resting, Doorway, Looping
    <2>3. CASE c # me
      BY <1>5, <1>7, <1>8, <2>1, <2>3 DEF LocalInv, Looping, Ahead
    <2> QED BY <2>2, <2>3
  <1>10. OrderInv'
    BY <1>1, <1>3, <1>7, <1>8 DEF OrderInv, Inv, Passed, Looping
  <1>11. RoomInv'
    <2>1. \A c \in CPUs : pc'[c] \in Doorway <=> pc[c] \in Doorway
      BY <1>1, <1>7 DEF Doorway
    <2>2. Outside' = Outside
      BY <2>1 DEF Outside
    <2>3. ticket # my_ticket[me] => ticket = Seen(they[me])
      BY <1>1, <1>4, Typed DEF Inv, LocalInv, Seen
    <2>4. \A c \in CPUs : Seen(c)' = IF c = me THEN ticket ELSE Seen(c)
      BY <1>1, <1>5, <1>7 DEF Seen, Doorway
    <2>5. ASSUME NEW c \in CPUs
          PROVE  Seen(c)' + N < TicketRange + Cardinality(Outside')
      <3>1. Seen(me) = my_ticket[me]
        BY <1>1 DEF Seen, Doorway
      <3>2. PICK d \in CPUs : Seen(c)' = Seen(d)
        BY <1>1, <1>4, <2>3, <2>4, <3>1
      <3> QED BY <3>2, <2>2 DEF Inv, RoomInv
    <2>6. ASSUME NEW c \in CPUs, NEW d \in CPUs, High(number[c]), pc'[d] \in Doorway
          PROVE  ~Passed(c, d)' /\ (they'[c] = d => pc'[c] = "look")
      <3>1. c # me
        BY <1>1, <2>6 DEF Inv, LocalInv, High, Doorway
      <3> QED BY <3>1, <1>7, <2>1, <2>6 DEF Inv, RoomInv, Passed
    <2>7. ASSUME NEW d \in CPUs, pc'[d] \in Doorway, High(my_ticket'[d])
          PROVE  \E c \in CPUs : number[c] = my_ticket'[d]
      BY <1>1, <1>4, <1>7, <2>1, <2>7 DEF Inv, RoomInv
    <2> QED BY <1>5, <2>5, <2>6, <2>7 DEF RoomInv, High
  <1> QED BY <1>6, <1>9, <1>10, <1>11 DEF Inv

\* bakery_get_ticket raises the flag of the doorway.
LEMMA EnterDoorwayInv ==
  ASSUME Inv, NEW me \in CPUs, enter_doorway(me)
  PROVE  Inv'
  <1> DEFINE first == Index(me, 0)
  <1>1. TypeOK /\ pc[me] = "idle" /\ number[me] = 0
    BY DEF Inv, LocalInv, Resting, enter_doorway
  <1>2. /\ first \in 0..N
        /\ first < N => first \in CPUs \ {me}
        /\ \A c \in CPUs \ {me} : first <= c
        /\ first >= N => \A c \in CPUs : c = me
    BY IndexFacts, CpuFacts, BakeryAssumption
  <1>3. /\ choosing' = [choosing EXCEPT ![me] = TRUE]
        /\ number' = number
        /\ my_ticket' = [my_ticket EXCEPT ![me] = 0]
        /\ they' = [they EXCEPT ![me] = first]
        /\ pc' = [pc EXCEPT ![me] = IF first < N THEN "scan" ELSE "publish"]
        /\ UNCHANGED <<their_ticket, event>>
    BY <1>1 DEF enter_doorway, TypeOK
  <1> HIDE DEF first
  <1>4. TypeOK'
    BY <1>1, <1>2, <1>3, BakeryAssumption DEF TypeOK, Labels
  <1>5. /\ choosing'[me] /\ my_ticket'[me] = 0 /\ they'[me] = first
        /\ pc'[me] = IF first < N THEN "scan" ELSE "publish"
        /\ \A c \in CPUs \ {me} :
             /\ choosing'[c] = choosing[c] /\ my_ticket'[c] = my_ticket[c]
             /\ they'[c] = they[c] /\ pc'[c] = pc[c]
    BY <1>1, <1>3 DEF TypeOK
  <1>6. ASSUME NEW c \in CPUs, NEW d \in CPUs \ {c}, Behind(c, d)
        PROVE  Behind(c, d)'
    <2>1. CASE d # me
      BY <1>3, <1>5, <1>6, <2>1, BehindFrame
    <2>2. CASE d = me
      BY <1>2, <1>5, <2>2, CpuFacts, BakeryAssumption DEF Behind, Resting
    <2> QED BY <2>1, <2>2
  <1>7. ASSUME NEW c \in CPUs PROVE LocalInv(c)'
    <2>1. LocalInv(c)
      BY DEF Inv
    <2>2. CASE c = me
      BY <1>1, <1>2, <1>3, <1>5, <2>2 DEF LocalInv, Resting, Doorway, Looping
    <2>3. CASE c # me
      BY <1>3, <1>5, <1>6, <2>1, <2>3 DEF LocalInv, Looping, Ahead
    <2> QED BY <2>2, <2>3
  <1>8. OrderInv'
    BY <1>5, <1>6 DEF OrderInv, Inv, Passed, Looping
  <1>9. RoomInv'
    <2>1. \A c \in CPUs : number[c] + N < TicketRange /\ ~High(number[c])
      BY <1>1, Typed, BakeryAssumption DEF enter_doorway, RoomForTickets, High
    <2>2. \A d \in CPUs : pc'[d] \in Doorway => ~High(my_ticket'[d])
      BY <1>5, <2>1 DEF Inv, RoomInv, High
    <2>3. ASSUME NEW c \in CPUs
          PROVE  Seen(c)' + N < TicketRange + Cardinality(Outside')
      <3>1. Cardinality(Outside') \in Nat
        BY SomeCPUs, BakeryAssumption DEF Outside
      <3>2. N < TicketRange
        BY <1>1, <2>1, BakeryAssumption
      <3>3. Seen(c)' \in Nat /\ Seen(c)' + N < TicketRange
        BY <1>1, <1>3, <1>4, <1>5, <2>1, <2>2, <3>2, Typed, BakeryAssumption DEF Seen, High, TypeOK
      <3> QED BY <3>1, <3>3, BakeryAssumption
    <2> QED BY <1>3, <2>1, <2>2, <2>3 DEF RoomInv
  <1> QED BY <1>4, <1>7, <1>8, <1>9 DEF Inv

\* The ticket is published.  Here the number must fit: RoomInv says it does.
LEMMA PublishInv ==
  ASSUME Inv, NEW me \in CPUs, publish(me)
  PROVE  Inv'
  <1> DEFINE first == Index(me, 0)
             ticket == my_ticket[me] + 1
  <1>1. TypeOK /\ pc[me] = "publish" /\ number[me] = 0
    BY DEF Inv, LocalInv, Resting, Doorway, publish
  <1>2. /\ first \in 0..N
        /\ first < N => first \in CPUs \ {me}
        /\ \A c \in CPUs \ {me} : first <= c
        /\ first >= N => \A c \in CPUs : c = me
    BY IndexFacts, CpuFacts, BakeryAssumption
  <1>3. me \in CPUs \ Outside
    BY <1>1 DEF Outside, Doorway
  <1>4. ticket \in Nat \ {0} /\ ticket + N < TicketRange + Cardinality(Outside) + 1
    <2>1. my_ticket[me] + N < TicketRange + Cardinality(Outside)
      BY <1>1 DEF Inv, RoomInv, Seen, Doorway
    <2> QED BY <1>1, <2>1, Typed, OutsideFinite, BakeryAssumption
  <1>5. ticket < TicketRange /\ ticket % TicketRange = ticket
    <2>1. ticket < TicketRange
      <3> HIDE DEF ticket
      <3>1. Cardinality(Outside) \in Nat /\ Cardinality(Outside) < N
        <4>1. Cardinality(Outside) \in 0..N
          BY OutsideFinite
        <4>2. Cardinality(Outside) < N
          BY <1>3, OutsideFinite
        <4> QED BY <4>1, <4>2, BakeryAssumption
      <3> QED BY <1>4, <3>1, BakeryAssumption
    <2> QED BY <1>4, <2>1, ModFact, BakeryAssumption
  <1>6. /\ my_ticket' = [my_ticket EXCEPT ![me] = ticket]
        /\ choosing' = [choosing EXCEPT ![me] = FALSE]
        /\ number' = [number EXCEPT ![me] = ticket]
        /\ they' = [they EXCEPT ![me] = first]
        /\ pc' = [pc EXCEPT ![me] = IF first < N THEN "look" ELSE "cs"]
        /\ UNCHANGED <<their_ticket, event>>
    BY <1>5 DEF publish
  <1>7. my_ticket[me] \in Nat /\ my_ticket[me] < ticket
    BY <1>1, Typed
  <1> HIDE DEF first, ticket
  <1>8. TypeOK'
    BY <1>1, <1>2, <1>4, <1>5, <1>6, BakeryAssumption DEF TypeOK, Labels
  <1>9. /\ ~choosing'[me] /\ my_ticket'[me] = ticket /\ they'[me] = first
        /\ number'[me] = ticket
        /\ pc'[me] = IF first < N THEN "look" ELSE "cs"
        /\ \A c \in CPUs \ {me} :
             /\ choosing'[c] = choosing[c] /\ my_ticket'[c] = my_ticket[c]
             /\ number'[c] = number[c] /\ they'[c] = they[c] /\ pc'[c] = pc[c]
    BY <1>1, <1>6 DEF TypeOK
  <1>10. ASSUME NEW c \in CPUs \ {me}, NEW d \in CPUs \ {c}, Behind(c, d)
         PROVE  Behind(c, d)'
    <2>1. CASE d # me
      BY <1>9, <1>10, <2>1, BehindFrame
    <2>2. CASE d = me
      <3>1. number[c] < ticket
        BY <1>1, <1>4, <1>7, <1>10, <2>2, Typed DEF Behind, Resting
      <3>2. Precedes(c, me)'
        BY <1>1, <1>4, <1>9, <3>1, Typed, PriorityOrder DEF Precedes
      <3> QED BY <1>9, <2>2, <3>2 DEF Behind, Resting
    <2> QED BY <2>1, <2>2
  <1>11. ASSUME NEW d \in CPUs \ {me} PROVE ~Passed(me, d)' /\ pc'[me] = "look"
    BY <1>2, <1>9, CpuFacts, BakeryAssumption DEF Passed, Looping
  <1>12. ASSUME NEW c \in CPUs PROVE LocalInv(c)'
    <2>1. LocalInv(c)
      BY DEF Inv
    <2>2. CASE c = me
      BY <1>2, <1>4, <1>9, <2>2 DEF LocalInv, Resting, Doorway, Looping
    <2>3. CASE c # me /\ pc[c] \in {"wfe", "recheck"}
      <3>1. they[c] \in CPUs \ {c} /\ Ahead(c, their_ticket[c])
        BY <2>1, <2>3 DEF LocalInv, Looping
      <3>2. number'[they[c]] = their_ticket[c] \/ Behind(c, they[c])'
        BY <1>1, <1>9, <1>10, <2>1, <2>3, <3>1 DEF LocalInv, Ahead
      <3> QED BY <1>6, <1>9, <2>1, <2>3, <3>1, <3>2 DEF LocalInv, Ahead
    <2>4. CASE c # me /\ pc[c] \notin {"wfe", "recheck"}
      BY <1>9, <2>1, <2>4 DEF LocalInv
    <2> QED BY <2>2, <2>3, <2>4
  <1>13. OrderInv'
    BY <1>9, <1>10, <1>11 DEF OrderInv, Inv, Passed
  <1>14. RoomInv'
    <2>1. Outside' = Outside \cup {me}
      BY <1>9 DEF Outside, Doorway
    <2>2. Cardinality(Outside') = Cardinality(Outside) + 1
      BY <1>3, <2>1, OutsideFinite
    <2>3. \A c \in CPUs : Seen(c)' = IF c = me THEN ticket ELSE Seen(c)
      BY <1>9 DEF Seen, Doorway
    <2>4. \A c \in CPUs : Seen(c) \in Nat
      BY <1>1, Typed DEF Seen
    <2>5. ASSUME NEW c \in CPUs
          PROVE  Seen(c)' + N < TicketRange + Cardinality(Outside')
      BY <1>4, <2>2, <2>3, <2>4, OutsideFinite, BakeryAssumption DEF Inv, RoomInv
    <2>6. ASSUME NEW c \in CPUs, NEW d \in CPUs, High(number'[c]),
                 pc'[d] \in Doorway
          PROVE  ~Passed(c, d)' /\ (they'[c] = d => pc'[c] = "look")
      <3>1. d # me
        BY <1>9, <2>6 DEF Doorway
      <3> QED BY <1>9, <1>11, <2>6, <3>1 DEF Inv, RoomInv, Passed
    <2>7. ASSUME NEW d \in CPUs, pc'[d] \in Doorway, High(my_ticket'[d])
          PROVE  \E c \in CPUs : number'[c] = my_ticket'[d]
      <3>1. d # me
        BY <1>9, <2>7 DEF Doorway
      <3>2. PICK c \in CPUs : number[c] = my_ticket[d]
        BY <1>9, <2>7, <3>1 DEF Inv, RoomInv
      <3>3. c # me
        BY <1>1, <1>9, <2>7, <3>1, <3>2 DEF High
      <3> QED BY <1>9, <3>1, <3>2, <3>3
    <2> QED BY <2>5, <2>6, <2>7 DEF RoomInv, High
  <1> QED BY <1>8, <1>12, <1>13, <1>14 DEF Inv

\* The steps from look to wfe, from wfe to recheck and back: waiting for a CPU
\* whose ticket was found to be ahead.
LEMMA WaitInv ==
  ASSUME Inv, NEW me \in CPUs, pc[me] \in Looping,
         NEW label \in {"wfe", "recheck"}, pc' = [pc EXCEPT ![me] = label],
         NEW t \in 0..(TicketRange - 1),
         their_ticket' = [their_ticket EXCEPT ![me] = t],
         Ahead(me, t), number[they[me]] = t \/ Behind(me, they[me]),
         pc[me] = "look" => ~choosing[they[me]],
         event' \in [CPUs -> BOOLEAN],
         UNCHANGED <<choosing, number, they, my_ticket>>
  PROVE  Inv'
  <1>1. TypeOK /\ they[me] \in CPUs \ {me}
    BY DEF Inv, LocalInv
  <1>2. TypeOK'
    BY <1>1 DEF TypeOK, Labels
  <1>3. /\ pc'[me] = label /\ their_ticket'[me] = t
        /\ \A c \in CPUs \ {me} :
             pc'[c] = pc[c] /\ their_ticket'[c] = their_ticket[c]
    BY <1>1 DEF TypeOK
  <1>4. ASSUME NEW c \in CPUs, NEW d \in CPUs \ {c}, Behind(c, d)
        PROVE  Behind(c, d)'
    <2>1. CASE d # me
      BY <1>3, <1>4, <2>1, BehindFrame
    <2>2. CASE d = me
      BY <1>3, <1>4, <2>2 DEF Behind, Resting, Looping, Precedes
    <2> QED BY <2>1, <2>2
  <1>5. ASSUME NEW c \in CPUs PROVE LocalInv(c)'
    <2>1. LocalInv(c)
      BY DEF Inv
    <2>2. CASE c = me
      BY <1>1, <1>3, <1>4, <2>1, <2>2 DEF LocalInv, Resting, Doorway, Looping, Ahead
    <2>3. CASE c # me
      BY <1>3, <1>4, <2>1, <2>3 DEF LocalInv, Looping, Ahead
    <2> QED BY <2>2, <2>3
  <1>6. \A c, d \in CPUs : Passed(c, d)' <=> Passed(c, d)
    BY <1>3 DEF Passed, Looping
  <1>7. OrderInv'
    BY <1>4, <1>6 DEF OrderInv, Inv
  <1>8. RoomInv'
    <2>1. \A c \in CPUs : pc'[c] \in Doorway <=> pc[c] \in Doorway
      BY <1>3 DEF Doorway, Looping
    <2>2. Outside' = Outside
      BY <2>1 DEF Outside
    <2>3. \A c \in CPUs : Seen(c)' = Seen(c)
      BY <2>1 DEF Seen
    <2>4. ASSUME NEW c \in CPUs, NEW d \in CPUs, High(number[c]), pc[d] \in Doorway
          PROVE  they[c] = d => pc'[c] = "look"
      <3>1. they[c] = d => pc[c] = "look"
        BY <2>4 DEF Inv, RoomInv
      <3>2. c = me => they[c] # d
        BY <2>4, <3>1 DEF Inv, LocalInv
      <3> QED BY <1>3, <3>1, <3>2
    <2> QED BY <1>6, <2>1, <2>2, <2>3, <2>4 DEF Inv, RoomInv
  <1> QED BY <1>2, <1>5, <1>7, <1>8 DEF Inv

\* On to the next CPU: the one that is passed is behind, and if it is in the
\* doorway then the tickets are low.
LEMMA AdvanceInv ==
  ASSUME Inv, NEW me \in CPUs, pc[me] \in Looping, Advance(me),
         Behind(me, they[me]),
         ~(pc[they[me]] \in Doorway /\ High(number[me])),
         UNCHANGED <<choosing, number, my_ticket, event>>
  PROVE  Inv'
  <1> DEFINE next == Index(me, they[me] + 1)
  <1>1. TypeOK /\ they[me] \in CPUs \ {me}
    BY DEF Inv, LocalInv
  <1>2. they[me] + 1 \in 0..N
    BY <1>1, CpuFacts, BakeryAssumption
  <1>3. /\ next \in 0..N
        /\ next < N => next \in CPUs \ {me}
        /\ \A c \in CPUs \ {me} : next <= c <=> they[me] + 1 <= c
        /\ next >= N => \A c \in CPUs : c = me \/ c < they[me] + 1
    BY <1>2, IndexFacts
  <1>4. /\ they' = [they EXCEPT ![me] = next]
        /\ their_ticket' = [their_ticket EXCEPT ![me] = 0]
        /\ pc' = [pc EXCEPT ![me] = IF next < N THEN "look" ELSE "cs"]
    BY DEF Advance
  <1> HIDE DEF next
  <1>5. TypeOK'
    BY <1>1, <1>3, <1>4, BakeryAssumption DEF TypeOK, Labels
  <1>6. /\ they'[me] = next /\ pc'[me] = IF next < N THEN "look" ELSE "cs"
        /\ \A c \in CPUs \ {me} : /\ pc'[c] = pc[c] /\ they'[c] = they[c]
                                 /\ their_ticket'[c] = their_ticket[c]
    BY <1>1, <1>4 DEF TypeOK
  <1>7. ASSUME NEW c \in CPUs, NEW d \in CPUs \ {c}, Behind(c, d)
        PROVE  Behind(c, d)'
    <2>1. CASE d # me
      BY <1>6, <1>7, <2>1, BehindFrame
    <2>2. CASE d = me
      BY <1>6, <1>7, <2>2 DEF Behind, Resting, Looping, Precedes
    <2> QED BY <2>1, <2>2
  <1>8. ASSUME NEW c \in CPUs PROVE LocalInv(c)'
    <2>1. LocalInv(c)
      BY DEF Inv
    <2>2. CASE c = me
      BY <1>3, <1>6, <2>1, <2>2 DEF LocalInv, Resting, Doorway, Looping
    <2>3. CASE c # me
      BY <1>6, <1>7, <2>1, <2>3 DEF LocalInv, Looping, Ahead
    <2> QED BY <2>2, <2>3
  <1>9. ASSUME NEW d \in CPUs \ {me}, Passed(me, d)'
        PROVE  d = they[me] \/ Passed(me, d)
    BY <1>1, <1>3, <1>6, <1>9, CpuFacts, BakeryAssumption DEF Passed, Looping
  <1>10. OrderInv'
    BY <1>6, <1>7, <1>9 DEF OrderInv, Inv, Passed
  <1>11. RoomInv'
    <2>1. \A c \in CPUs : pc'[c] \in Doorway <=> pc[c] \in Doorway
      BY <1>6 DEF Doorway, Looping
    <2>2. Outside' = Outside
      BY <2>1 DEF Outside
    <2>3. \A c \in CPUs : Seen(c)' = Seen(c)
      BY <2>1 DEF Seen
    <2>4. ASSUME NEW c \in CPUs, NEW d \in CPUs, High(number[c]), pc[d] \in Doorway
          PROVE  ~Passed(c, d)' /\ (they'[c] = d => pc'[c] = "look")
      <3>1. CASE c = me
        BY <1>3, <1>6, <1>9, <2>4, <3>1, CpuFacts, BakeryAssumption
           DEF Inv, RoomInv, Doorway, Looping
      <3>2. CASE c # me
        BY <1>6, <2>4, <3>2 DEF Inv, RoomInv, Passed
      <3> QED BY <3>1, <3>2
    <2> QED BY <2>1, <2>2, <2>3, <2>4 DEF Inv, RoomInv
  <1> QED BY <1>5, <1>8, <1>10, <1>11 DEF Inv

\* The loop of bakery_lock_get looks at the next CPU.
LEMMA LookInv ==
  ASSUME Inv, NEW me \in CPUs, look(me)
  PROVE  Inv'
  <1>1. TypeOK /\ pc[me] = "look" /\ they[me] \in CPUs \ {me}
    BY DEF Inv, LocalInv, Looping, look
  <1>2. my_ticket[me] = number[me] /\ ~choosing[they[me]]
    BY <1>1 DEF Inv, LocalInv, Looping, look
  <1>3. CASE Ahead(me, number[they[me]])
    <2>1. number[they[me]] \in 0..(TicketRange - 1)
      BY <1>1 DEF TypeOK
    <2> QED BY <1>1, <1>2, <1>3, <2>1, WaitInv DEF look, Looping, TypeOK
  <1>4. CASE ~Ahead(me, number[they[me]])
    <2>1. pc[they[me]] \notin Doorway
      BY <1>1, <1>2 DEF Inv, LocalInv
    <2>2. Behind(me, they[me])
      <3>1. CASE number[they[me]] = 0
        <4>1. pc[they[me]] \in Resting
          BY <1>1, <2>1, <3>1 DEF Inv, LocalInv
        <4> QED BY <4>1 DEF Behind, Resting
      <3>2. CASE number[they[me]] # 0
        <4>1. Precedes(me, they[me])
          BY <1>1, <1>2, <1>4, <3>2, Typed, PriorityOrder DEF Ahead, Precedes
        <4> QED BY <2>1, <4>1 DEF Behind, Doorway
      <3> QED BY <3>1, <3>2
    <2> QED BY <1>1, <1>4, <2>1, <2>2, AdvanceInv DEF look, Looping
  <1> QED BY <1>3, <1>4

\* An event wakes a CPU that sleeps.
LEMMA WfeInv ==
  ASSUME Inv, NEW me \in CPUs, wfe(me)
  PROVE  Inv'
  <1>1. /\ TypeOK /\ pc[me] = "wfe"
        /\ Ahead(me, their_ticket[me])
        /\ number[they[me]] = their_ticket[me] \/ Behind(me, they[me])
    BY DEF Inv, LocalInv, wfe
  <1>2. /\ their_ticket' = [their_ticket EXCEPT ![me] = their_ticket[me]]
        /\ their_ticket[me] \in 0..(TicketRange - 1)
        /\ event' \in [CPUs -> BOOLEAN]
    BY <1>1 DEF TypeOK, wfe
  <1> QED BY <1>1, <1>2, WaitInv DEF wfe, Looping

\* A CPU that waits looks at the other ticket again.
LEMMA RecheckInv ==
  ASSUME Inv, NEW me \in CPUs, recheck(me)
  PROVE  Inv'
  <1>1. /\ TypeOK /\ pc[me] = "recheck" /\ they[me] \in CPUs
        /\ Ahead(me, their_ticket[me])
        /\ number[they[me]] = their_ticket[me] \/ Behind(me, they[me])
    BY DEF Inv, LocalInv, recheck, Looping
  <1>2. CASE number[they[me]] = their_ticket[me]
    <2>1. /\ their_ticket' = [their_ticket EXCEPT ![me] = their_ticket[me]]
          /\ their_ticket[me] \in 0..(TicketRange - 1)
          /\ event' \in [CPUs -> BOOLEAN]
      BY <1>1, <1>2 DEF TypeOK, recheck
    <2> QED BY <1>1, <1>2, <2>1, WaitInv DEF recheck, Looping
  <1>3. CASE number[they[me]] # their_ticket[me]
    <2>1. ~(pc[they[me]] \in Doorway /\ High(number[me]))
      BY <1>1 DEF Inv, RoomInv
    <2> QED BY <1>1, <1>3, <2>1, AdvanceInv DEF recheck, Looping
  <1> QED BY <1>2, <1>3

\* bakery_lock_release gives the ticket back.
LEMMA ReleaseInv ==
  ASSUME Inv, NEW me \in CPUs, bakery_lock_release(me)
  PROVE  Inv'
  <1>1. TypeOK /\ pc[me] = "cs"
    BY DEF Inv, bakery_lock_release
  <1>2. /\ choosing' = [choosing EXCEPT ![me] = FALSE]
        /\ number' = [number EXCEPT ![me] = 0]
        /\ pc' = [pc EXCEPT ![me] = "sev"]
        /\ they' = [they EXCEPT ![me] = 0]
        /\ my_ticket' = [my_ticket EXCEPT ![me] = 0]
        /\ UNCHANGED <<their_ticket, event>>
    BY DEF bakery_lock_release
  <1>3. TypeOK'
    BY <1>1, <1>2, BakeryAssumption DEF TypeOK, Labels
  <1>4. /\ ~choosing'[me] /\ number'[me] = 0 /\ pc'[me] = "sev"
        /\ they'[me] = 0 /\ my_ticket'[me] = 0
        /\ \A c \in CPUs \ {me} :
             /\ choosing'[c] = choosing[c] /\ my_ticket'[c] = my_ticket[c]
             /\ number'[c] = number[c] /\ they'[c] = they[c] /\ pc'[c] = pc[c]
    BY <1>1, <1>2 DEF TypeOK
  <1>5. ASSUME NEW c \in CPUs \ {me}, NEW d \in CPUs \ {c},
               d = me \/ Behind(c, d)
        PROVE  Behind(c, d)'
    <2>1. CASE d # me
      BY <1>4, <1>5, <2>1, BehindFrame
    <2>2. CASE d = me
      BY <1>4, <2>2 DEF Behind, Resting
    <2> QED BY <2>1, <2>2
  <1>6. ASSUME NEW c \in CPUs PROVE LocalInv(c)'
    <2>1. LocalInv(c)
      BY DEF Inv
    <2>2. CASE c = me
      BY <1>4, <2>2 DEF LocalInv, Resting, Doorway, Looping
    <2>3. CASE c # me /\ pc[c] \in {"wfe", "recheck"}
      <3>1. they[c] \in CPUs \ {c} /\ Ahead(c, their_ticket[c])
        BY <2>1, <2>3 DEF LocalInv, Looping
      <3>2. number'[they[c]] = their_ticket[c] \/ Behind(c, they[c])'
        BY <1>4, <1>5, <2>1, <2>3, <3>1 DEF LocalInv
      <3> QED BY <1>2, <1>4, <2>1, <2>3, <3>1, <3>2 DEF LocalInv, Ahead
    <2>4. CASE c # me /\ pc[c] \notin {"wfe", "recheck"}
      BY <1>4, <2>1, <2>4 DEF LocalInv
    <2> QED BY <2>2, <2>3, <2>4
  <1>7. OrderInv'
    BY <1>4, <1>5 DEF OrderInv, Inv, Passed, Looping
  <1>8. RoomInv'
    <2>1. \A c \in CPUs : pc'[c] \in Doorway <=> pc[c] \in Doorway
      BY <1>1, <1>4 DEF Doorway
    <2>2. Outside' = Outside
      BY <2>1 DEF Outside
    <2>3. \A c \in CPUs : Seen(c)' = IF c = me THEN 0 ELSE Seen(c)
      BY <1>1, <1>4, <2>1 DEF Seen, Doorway
    <2>4. Seen(me) \in Nat
      BY <1>1, Typed DEF Seen
    <2>5. ASSUME NEW c \in CPUs
          PROVE  Seen(c)' + N < TicketRange + Cardinality(Outside')
      BY <2>2, <2>3, <2>4, OutsideFinite, BakeryAssumption DEF Inv, RoomInv
    <2>6. ASSUME NEW c \in CPUs, NEW d \in CPUs, High(number'[c]),
                 pc'[d] \in Doorway
          PROVE  ~Passed(c, d)' /\ (they'[c] = d => pc'[c] = "look")
      <3>1. c # me
        BY <1>4, <2>6 DEF High
      <3> QED BY <1>4, <2>1, <2>6, <3>1 DEF Inv, RoomInv, Passed
    <2>7. ASSUME NEW d \in CPUs, pc'[d] \in Doorway, High(my_ticket'[d])
          PROVE  \E c \in CPUs : number'[c] = my_ticket'[d]
      <3>1. d # me /\ pc[d] \in Doorway /\ High(my_ticket[d])
        BY <1>4, <2>1, <2>7 DEF Doorway
      <3>2. PICK c \in CPUs : number[c] = my_ticket[d]
        BY <3>1 DEF Inv, RoomInv
      <3>3. c # me
        BY <1>1, <3>1, <3>2 DEF Inv, RoomInv, Passed
      <3> QED BY <1>4, <3>1, <3>2, <3>3
    <2> QED BY <2>5, <2>6, <2>7 DEF RoomInv, High
  <1> QED BY <1>3, <1>6, <1>7, <1>8 DEF Inv

\* The event that bakery_lock_release sends.
LEMMA SevInv ==
  ASSUME Inv, NEW me \in CPUs, sev(me)
  PROVE  Inv'
  <1>1. TypeOK /\ pc[me] = "sev"
    BY DEF Inv, sev
  <1>2. TypeOK'
    BY <1>1 DEF TypeOK, Labels, sev
  <1>3. /\ pc'[me] = "idle" /\ \A c \in CPUs \ {me} : pc'[c] = pc[c]
        /\ UNCHANGED <<choosing, number, they, my_ticket, their_ticket>>
    BY <1>1 DEF TypeOK, sev
  <1>4. ASSUME NEW c \in CPUs, NEW d \in CPUs, Behind(c, d)
        PROVE  Behind(c, d)'
    BY <1>1, <1>3, <1>4 DEF Behind, Resting, Precedes
  <1>5. ASSUME NEW c \in CPUs PROVE LocalInv(c)'
    <2>1. LocalInv(c)
      BY DEF Inv
    <2>2. CASE c = me
      BY <1>1, <1>3, <2>1, <2>2 DEF LocalInv, Resting, Doorway, Looping
    <2>3. CASE c # me
      BY <1>3, <1>4, <2>1, <2>3 DEF LocalInv, Looping, Ahead
    <2> QED BY <2>2, <2>3
  <1>6. \A c, d \in CPUs : Passed(c, d)' <=> Passed(c, d)
    BY <1>1, <1>3 DEF Passed, Looping
  <1>7. OrderInv'
    BY <1>4, <1>6 DEF OrderInv, Inv
  <1>8. RoomInv'
    <2>1. \A c \in CPUs : pc'[c] \in Doorway <=> pc[c] \in Doorway
      BY <1>1, <1>3 DEF Doorway
    <2>2. Outside' = Outside
      BY <2>1 DEF Outside
    <2>3. \A c \in CPUs : Seen(c)' = Seen(c)
      BY <1>3, <2>1 DEF Seen
    <2>4. ASSUME NEW c \in CPUs, NEW d \in CPUs, High(number[c]), pc[d] \in Doorway
          PROVE  they[c] = d => pc'[c] = "look"
      BY <1>1, <1>3, <2>4 DEF Inv, RoomInv
    <2> QED BY <1>3, <1>6, <2>1, <2>2, <2>3, <2>4 DEF Inv, RoomInv
  <1> QED BY <1>2, <1>5, <1>7, <1>8 DEF Inv

\* The data is zero.
LEMMA InitInv == Init => Inv
  <1> SUFFICES ASSUME Init PROVE Inv
    OBVIOUS
  <1>1. TypeOK
    BY BakeryAssumption DEF Init, TypeOK, Labels
  <1>2. Outside = CPUs /\ Cardinality(Outside) = N
    <2>1. Outside = CPUs
      BY DEF Init, Outside, Doorway
    <2>2. Cardinality(CPUs) = N
      BY BakeryAssumption, FS_Interval DEF CPUs
    <2> QED BY <2>1, <2>2
  <1>3. RoomInv
    BY <1>2, BakeryAssumption DEF Init, RoomInv, Seen, Doorway
  <1>4. OrderInv /\ \A c \in CPUs : LocalInv(c)
    BY DEF Init, OrderInv, LocalInv, Passed, Looping, Resting, Doorway
  <1> QED BY <1>1, <1>3, <1>4 DEF Inv

\* Every step keeps the invariant.
LEMMA NextInv == Inv /\ [Next]_vars => Inv'
  <1> SUFFICES ASSUME Inv, [Next]_vars PROVE Inv'
    OBVIOUS
  <1>1. CASE Next
    <2>1. PICK me \in CPUs : enter_doorway(me) \/ Step(me)
      BY <1>1 DEF Next
    <2> QED BY <2>1, EnterDoorwayInv, ScanInv, PublishInv, LookInv, WfeInv,
               RecheckInv, ReleaseInv, SevInv DEF Step
  <1>2. CASE UNCHANGED vars
    BY <1>2 DEF vars, Inv, TypeOK, LocalInv, OrderInv, RoomInv, Ahead, Behind,
                Precedes, Passed, Outside, Seen, High
  <1> QED BY <1>1, <1>2

\* Tickets never wrap around, the words and locals agree, and nobody the loop
\* has passed gets ahead, in every reachable state.
THEOREM BakeryInvariant == Spec => []Inv
  BY InitInv, NextInv, PTL DEF Spec

\* HolderIsFirst for every number of CPUs: bakery_lock_get returns only to a
\* CPU that is ahead of all others with a ticket.
THEOREM HolderFirst == Spec => [](TypeOK /\ HolderIsFirst)
  <1>1. Inv => HolderIsFirst
    <2> SUFFICES ASSUME Inv, NEW c \in CPUs, NEW d \in CPUs \ {c},
                        pc[c] = "cs", number[d] # 0
                 PROVE  Precedes(c, d)
      BY DEF HolderIsFirst, Precedes
    <2>1. Behind(c, d)
      BY DEF Inv, OrderInv, Passed
    <2>2. pc[d] \notin Resting \cup Doorway
      BY DEF Inv, LocalInv
    <2> QED BY <2>1, <2>2 DEF Behind, Doorway
  <1> QED BY <1>1, BakeryInvariant, PTL DEF Inv

\* No step leaves a CPU asleep that nobody is going to wake.
LEMMA WakeupStep == Inv /\ NoLostWakeup /\ [Next]_vars => NoLostWakeup'
  <1> SUFFICES ASSUME Inv, NoLostWakeup, [Next]_vars, NEW c \in CPUs,
                      pc'[c] = "wfe", number'[they'[c]] # their_ticket'[c]
               PROVE  event'[c] \/ \E d \in CPUs : pc'[d] = "sev"
    BY DEF NoLostWakeup
  <1>1. TypeOK /\ LocalInv(c)
    BY DEF Inv
  <1>2. ASSUME NEW me \in CPUs, enter_doorway(me) \/ scan(me) \/ publish(me)
        PROVE  event'[c] \/ \E d \in CPUs : pc'[d] = "sev"
    <2>1. /\ pc[c] = "wfe" /\ they'[c] = they[c] /\ they[c] \in CPUs
          /\ their_ticket' = their_ticket /\ event' = event
          /\ \A d \in CPUs : pc[d] = "sev" => pc'[d] = "sev"
      BY <1>1, <1>2 DEF TypeOK, enter_doorway, scan, publish, LocalInv, Looping
    <2>2. number[they[c]] # their_ticket[c]
      <3>1. CASE they[c] # me
        BY <1>1, <1>2, <2>1, <3>1 DEF TypeOK, enter_doorway, scan, publish
      <3>2. CASE they[c] = me
        <4>1. number[me] = 0
          BY <1>2 DEF Inv, LocalInv, enter_doorway, scan, publish, Resting, Doorway
        <4> QED BY <1>1, <2>1, <3>2, <4>1 DEF LocalInv, Ahead
      <3> QED BY <3>1, <3>2
    <2> QED BY <2>1, <2>2 DEF NoLostWakeup
  <1>3. ASSUME NEW me \in CPUs, look(me) \/ wfe(me) \/ recheck(me)
        PROVE  event'[c] \/ \E d \in CPUs : pc'[d] = "sev"
    <2>1. CASE c = me
      BY <1>1, <1>3, <2>1 DEF TypeOK, look, wfe, recheck, Advance
    <2>2. CASE c # me
      <3>1. /\ pc[c] = "wfe" /\ number[they[c]] # their_ticket[c]
            /\ event'[c] = event[c]
            /\ \A d \in CPUs : pc[d] = "sev" => pc'[d] = "sev"
        BY <1>1, <1>3, <2>2 DEF TypeOK, look, wfe, recheck, Advance
      <3> QED BY <3>1 DEF NoLostWakeup
    <2> QED BY <2>1, <2>2
  <1>4. ASSUME NEW me \in CPUs, bakery_lock_release(me)
        PROVE  \E d \in CPUs : pc'[d] = "sev"
    BY <1>1, <1>4 DEF TypeOK, bakery_lock_release
  <1>5. ASSUME NEW me \in CPUs, sev(me) PROVE event'[c]
    BY <1>5 DEF sev
  <1>6. CASE UNCHANGED vars
    BY <1>6 DEF vars, NoLostWakeup
  <1> QED BY <1>2, <1>3, <1>4, <1>5, <1>6 DEF Next, Step

\* No CPU sleeps through the release it waits for, whatever the loads, stores
\* and events of the others.
THEOREM WakeupNotLost == Spec => []NoLostWakeup
  <1>1. Init => NoLostWakeup
    BY DEF Init, NoLostWakeup
  <1> QED BY <1>1, BakeryInvariant, WakeupStep, PTL DEF Spec

-----------------------------------------------------------------------------
(* The refinement of FairLock: its safety part.                            *)

\* Nobody holds or awaits the lock.
LEMMA RefinesInit == Init => Lock!Init
  BY DEF Init, Lock!Init, LockState

\* Every step of the bakery is a step of the lock or leaves it alone.
LEMMA RefinesNext == Inv /\ Inv' /\ [Next]_vars => [Lock!Next]_LockState
  <1> SUFFICES ASSUME Inv, Inv', [Next]_vars
               PROVE  Lock!Next \/ LockState' = LockState
    OBVIOUS
  <1>1. TypeOK /\ TypeOK'
    BY DEF Inv
  <1>2. ASSUME NEW me \in CPUs, \A c \in CPUs \ {me} : pc'[c] = pc[c]
        PROVE  LockState' = [LockState EXCEPT ![me] = LockState'[me]]
    BY <1>2 DEF LockState
  <1>3. ASSUME NEW me \in CPUs, enter_doorway(me)
        PROVE  Lock!Next
    <2>1. /\ \A c \in CPUs \ {me} : pc'[c] = pc[c]
          /\ LockState[me] = "idle" /\ LockState'[me] = "waiting"
      BY <1>1, <1>3 DEF TypeOK, enter_doorway, LockState
    <2>2. Lock!Ask(me)
      BY <1>2, <2>1 DEF Lock!Ask
    <2> QED BY <2>2 DEF Lock!Next
  <1>4. ASSUME NEW me \in CPUs,
               scan(me) \/ publish(me) \/ look(me) \/ wfe(me) \/ recheck(me)
        PROVE  Lock!Next \/ LockState' = LockState
    <2>1. /\ \A c \in CPUs \ {me} : pc'[c] = pc[c]
          /\ pc[me] \notin {"idle", "sev", "cs"} /\ pc'[me] \notin {"idle", "sev"}
      BY <1>1, <1>4 DEF TypeOK, scan, publish, look, wfe, recheck, Advance
    <2>2. CASE pc'[me] # "cs"
      BY <2>1, <2>2 DEF LockState
    <2>3. CASE pc'[me] = "cs"
      <3>1. LockState[me] = "waiting" /\ LockState'[me] = "holding"
        BY <2>1, <2>3 DEF LockState
      <3>2. ASSUME NEW d \in CPUs, pc[d] = "cs" PROVE FALSE
        <4>1. d # me /\ pc'[d] = "cs"
          BY <2>1, <3>2
        <4>2. Behind(me, d)' /\ Behind(d, me)'
          BY <2>3, <4>1 DEF Inv, OrderInv, Passed
        <4>3. Precedes(me, d)' /\ Precedes(d, me)'
          BY <2>3, <4>1, <4>2 DEF Behind, Resting
        <4>4. number'[me] \in Nat /\ number'[d] \in Nat
          BY <1>1, BakeryAssumption DEF TypeOK
        <4> QED BY <4>1, <4>3, <4>4, PriorityOrder DEF Precedes
      <3>3. \A d \in CPUs : LockState[d] # "holding"
        BY <3>2 DEF LockState
      <3>4. Lock!Take(me)
        BY <1>2, <2>1, <3>1, <3>3 DEF Lock!Take
      <3> QED BY <3>4 DEF Lock!Next
    <2> QED BY <2>2, <2>3
  <1>5. ASSUME NEW me \in CPUs, bakery_lock_release(me)
        PROVE  Lock!Next
    <2>1. /\ \A c \in CPUs \ {me} : pc'[c] = pc[c]
          /\ LockState[me] = "holding" /\ LockState'[me] = "idle"
      BY <1>1, <1>5 DEF TypeOK, bakery_lock_release, LockState
    <2>2. Lock!Drop(me)
      BY <1>2, <2>1 DEF Lock!Drop
    <2> QED BY <2>2 DEF Lock!Next
  <1>6. ASSUME NEW me \in CPUs, sev(me) PROVE LockState' = LockState
    BY <1>1, <1>6 DEF TypeOK, sev, LockState
  <1>7. CASE UNCHANGED vars
    BY <1>7 DEF vars, LockState
  <1> QED BY <1>3, <1>4, <1>5, <1>6, <1>7 DEF Next, Step

\* Plain loads and stores implement a lock: every behaviour of BakeryLock is
\* one of FairLock without its fairness, for every number of CPUs.
THEOREM BakeryImplementsLock == Spec => Lock!Safety
  BY RefinesInit, RefinesNext, BakeryInvariant, PTL DEF Spec, Lock!Safety

-----------------------------------------------------------------------------
(* Nobody waits for ever for want of somebody to wake it.                  *)

\* A set of naturals has a least element.
LEMMA LeastNat ==
  ASSUME NEW T, T \subseteq Nat, T # {}
  PROVE  \E x \in T : \A y \in T : x <= y
  <1> DEFINE R == {ss \in Nat \X Nat : ss[1] < ss[2]}
  <1>1. IsWellFoundedOn(R, Nat)
    BY NatLessThanWellFounded DEF OpToRel
  <1>2. PICK x \in T : \A y \in T : ~(<<y, x>> \in R)
    BY <1>1, WFMin
  <1>3. ASSUME NEW y \in T PROVE x <= y
    <2>1. <<y, x>> \in Nat \X Nat /\ <<y, x>>[1] = y /\ <<y, x>>[2] = x
      OBVIOUS
    <2>2. ~(y < x)
      BY <1>2, <2>1
    <2> QED BY <2>2
  <1> QED BY <1>3

\* c is in bakery_lock_get or bakery_lock_release, or has the lock, and does
\* not wait.
Moving(c) ==
  \/ pc[c] \in {"scan", "publish", "recheck", "cs", "sev"}
  \/ pc[c] = "look" /\ ~choosing[they[c]]
  \/ pc[c] = "wfe" /\ event[c]

\* Whoever has asked for the lock, somebody moves.
NoStandstill == (\E c \in CPUs : pc[c] # "idle") => \E c \in CPUs : Moving(c)

\* If nobody moves, all who have asked sleep, each on the ticket of one who
\* sleeps too and is ahead of it: but one of them is first.
LEMMA SomebodyMoves ==
  ASSUME Inv, NoLostWakeup, NEW c \in CPUs, pc[c] # "idle"
  PROVE  \E d \in CPUs : Moving(d)
  <1>1. SUFFICES ASSUME \A d \in CPUs : ~Moving(d) PROVE FALSE
    OBVIOUS
  <1>2. \A d \in CPUs : pc[d] \in Labels /\ LocalInv(d) /\ number[d] \in Nat
    BY Typed DEF Inv
  <1>3. \A d \in CPUs : pc[d] \in {"idle", "wfe"}
    <2>1. SUFFICES ASSUME NEW d \in CPUs PROVE pc[d] \in {"idle", "wfe"}
      OBVIOUS
    <2>2. CASE pc[d] = "look"
      <3>1. they[d] \in CPUs /\ choosing[they[d]]
        BY <1>1, <1>2, <2>2 DEF Moving, LocalInv, Looping
      <3>2. pc[they[d]] \in Doorway
        BY <1>2, <3>1 DEF LocalInv
      <3> QED BY <1>1, <3>1, <3>2 DEF Moving, Doorway
    <2> QED BY <1>1, <1>2, <2>2 DEF Moving, Labels
  <1> DEFINE W == {d \in CPUs : pc[d] = "wfe"}
             P(d) == PRIORITY(number[d], d)
             T == {P(d) : d \in W}
  <1>4. \A d \in CPUs : P(d) \in Nat
    BY <1>2, CpuFacts DEF PRIORITY
  <1>5. ASSUME NEW d \in W PROVE they[d] \in W /\ P(they[d]) < P(d)
    <2>1. /\ they[d] \in CPUs /\ my_ticket[d] = number[d]
          /\ Ahead(d, their_ticket[d])
      BY <1>2 DEF LocalInv, Looping
    <2>2. number[they[d]] = their_ticket[d]
      BY <1>1, <1>3 DEF NoLostWakeup, Moving
    <2>3. number[they[d]] # 0 /\ P(they[d]) < P(d)
      BY <2>1, <2>2 DEF Ahead
    <2>4. pc[they[d]] # "idle"
      BY <1>2, <2>1, <2>3 DEF LocalInv, Resting
    <2> QED BY <1>3, <2>1, <2>3, <2>4
  <1>6. T \subseteq Nat /\ T # {}
    BY <1>3, <1>4
  <1>7. PICK x \in T : \A y \in T : x <= y
    BY <1>6, LeastNat
  <1>8. PICK d \in W : x = P(d)
    BY <1>7
  <1>9. P(they[d]) \in T /\ P(they[d]) < P(d) /\ they[d] \in CPUs
    BY <1>5, <1>8
  <1> HIDE DEF P
  <1> QED BY <1>4, <1>7, <1>8, <1>9

\* The lock cannot come to a standstill: from any interleaving of the loads
\* and stores of bakery_lock_get and bakery_lock_release, with events lost to
\* CPUs that did not sleep yet, some CPU that is not idle goes on.
THEOREM LockNeverStuck == Spec => []NoStandstill
  <1>1. Inv /\ NoLostWakeup => NoStandstill
    BY SomebodyMoves DEF NoStandstill
  <1> QED BY <1>1, BakeryInvariant, WakeupNotLost, PTL

\* The tickets stay in the 15 bits of lock_data that the type allows them,
\* and the loop indices in the array.
THEOREM TypeCorrect == Spec => []TypeOK
  <1>1. Inv => TypeOK
    BY DEF Inv
  <1> QED BY <1>1, BakeryInvariant, PTL

\* At most one CPU has the lock.
MutualExclusion == \A c, d \in CPUs : pc[c] = "cs" /\ pc[d] = "cs" => c = d

\* bakery_lock_get lets one CPU in at a time.
THEOREM OneHolder == Spec => []MutualExclusion
  <1>1. Inv => MutualExclusion
    <2>1. SUFFICES ASSUME Inv, NEW c \in CPUs, NEW d \in CPUs, pc[c] = "cs",
                          pc[d] = "cs", c # d
                   PROVE  FALSE
      BY DEF MutualExclusion
    <2>2. Behind(c, d) /\ Behind(d, c)
      BY <2>1 DEF Inv, OrderInv, Passed
    <2>3. Precedes(c, d) /\ Precedes(d, c)
      BY <2>1, <2>2 DEF Behind, Resting
    <2>4. number[c] \in Nat /\ number[d] \in Nat
      BY <2>1, Typed DEF Inv
    <2> QED BY <2>1, <2>3, <2>4, PriorityOrder DEF Precedes
  <1> QED BY <1>1, BakeryInvariant, PTL
=============================================================================
