--------------------------- MODULE HostNodeProofs ---------------------------
(***************************************************************************)
(* Proofs about the two structures that the engine shares with the audio   *)
(* callback of a host node without a lock.                                 *)
(*                                                                         *)
(* The control mailbox (ControlQueue): for every ring size, every batch    *)
(* size and every number of pushes.                                        *)
(*                                                                         *)
(* The publication of racks (RackPublish): for every number of generations *)
(* and harvests, up to the step in which the callback increments the count *)
(* of a rack that was freed since it loaded rack_ptr.                      *)
(***************************************************************************)
EXTENDS ControlQueue, RackPublish, TLAPS

(* Succ steps to the next slot and wraps at the end of the ring.           *)
LEMMA SuccLemma ==
    ASSUME NEW i \in Slots
    PROVE  /\ Succ(i) \in Slots
           /\ Succ(i) = IF i = Cap - 1 THEN 0 ELSE i + 1
<1>1. CASE i = Cap - 1
  <2>1. (i + 1) % Cap = 0
    BY <1>1, ConstantsAssumption DEF Slots
  <2> QED BY <2>1, <1>1, ConstantsAssumption DEF Succ, Slots
<1>2. CASE i # Cap - 1
  <2>1. (i + 1) % Cap = i + 1
    BY <1>2, ConstantsAssumption DEF Slots
  <2> QED BY <2>1, <1>2, ConstantsAssumption DEF Succ, Slots
<1> QED BY <1>1, <1>2

-----------------------------------------------------------------------------
(***************************************************************************)
(* The inductive invariant, in named parts.                                *)
(***************************************************************************)

(* A push in progress is within the bound, and it drops only from a ring   *)
(* that was full.                                                          *)
Pushing ==
    /\ ppc # "idle" => pushed < MaxPush
    /\ ppc = "drop" => Succ(head) = ptail

(* Behind head the slots hold the newest messages, consecutively, wherever *)
(* tail has got to.                                                        *)
SlotHolds(s) ==
    LET back == IF s = head THEN Cap ELSE Dist(s, head)
    IN  buf[s] = IF s = head /\ ppc = "publish" THEN pushed + 1
                 ELSE IF back <= pushed THEN pushed + 1 - back ELSE Garbage

Contents == \A s \in Slots : SlotHolds(s)

(* What was delivered is older than all that the ring holds, the message   *)
(* half pushed included: also when tail has been moved backwards.          *)
Front == IF Calm THEN head ELSE Succ(head)
Sending == IF Calm THEN pushed ELSE pushed + 1
Behind == last + Dist(IF cpc = "store" THEN Succ(ctail) ELSE tail, Front) <= Sending

(* Outside of bursts.  The slot that is written is free.                   *)
WriteRoom == ~Calm => Succ(head) # tail

(* The consumer's window: the producer moved tail past it at most once.    *)
Window ==
    /\ cpc # "tail" => \/ tail = ctail /\ overrun = 0
                       \/ tail = Succ(ctail) /\ overrun = 1
    /\ cpc \in {"read", "store"} /\ tail = ctail => ctail # head

(* The queue never counts more than was pushed, and delivery is behind it. *)
Progress ==
    /\ Held \in 0 .. pushed
    /\ last \in 0 .. pushed - Held
    /\ Held = 0 => last = pushed \/ spoilt = pushed
    /\ cpc = "store" => last = pushed - Held /\ last > 0

Sound == WriteRoom /\ Window /\ Progress

RingInv ==
    /\ TypeOK /\ Pushing /\ Contents
    /\ cpc = "tail" => overrun = 0
    /\ burst => Cap <= pushed /\ Behind
    /\ ~burst => Sound

(* An empty ring satisfies the invariant.                                  *)
LEMMA InitRing == Init => RingInv
<1> SUFFICES ASSUME Init PROVE RingInv
  OBVIOUS
<1> USE ConstantsAssumption DEF Init, Slots, Garbage
<1>1. TypeOK
  <2>1. head \in Slots /\ tail \in Slots /\ ptail \in Slots /\ ctail \in Slots
    OBVIOUS
  <2>2. buf \in [Slots -> 0 .. MaxPush]
    OBVIOUS
  <2>3. burst \in BOOLEAN
    OBVIOUS
  <2>4. n \in 0 .. Batch - 1 /\ pushed \in 0 .. MaxPush /\ last \in 0 .. MaxPush
        /\ overrun \in 0 .. 2 /\ spoilt \in 0 .. pushed
    OBVIOUS
  <2> QED BY <2>1, <2>2, <2>3, <2>4 DEF TypeOK
<1>p. Pushing
  BY DEF Pushing
<1>2. Contents
  BY DEF Contents, SlotHolds, Dist
<1>3. Sound
  <2>1. Held = 0
    BY DEF Held, Dist
  <2> QED BY <2>1 DEF Sound, WriteRoom, Window, Progress, Calm
<1> QED BY <1>1, <1>p, <1>2, <1>3 DEF RingInv

(* What the slots hold is the producer's business alone.                   *)
LEMMA StepContents ==
    ASSUME RingInv, [Next]_vars
    PROVE  Contents'
<1> USE ConstantsAssumption DEF RingInv, TypeOK, Slots, ProducerVars
<1>1. CASE UNCHANGED ProducerVars
  BY <1>1 DEF Contents, SlotHolds, Dist
<1>2. CASE PushLoad
  BY <1>2 DEF PushLoad, Contents, SlotHolds, Dist
<1>3. CASE PushDropOldest
  BY <1>3 DEF PushDropOldest, Contents, SlotHolds, Dist
<1>4. CASE PushWrite
  BY <1>4 DEF PushWrite, Contents, SlotHolds, Dist
<1>5. CASE PushPublish
  <2> USE <1>5 DEF PushPublish
  <2>h. Succ(head) = IF head = Cap - 1 THEN 0 ELSE head + 1
    BY SuccLemma
  <2> SUFFICES ASSUME NEW s \in Slots PROVE SlotHolds(s)'
    BY DEF Contents
  <2>1. SlotHolds(s) BY DEF Contents
  <2>2. CASE s = head
    BY <2>h, <2>1, <2>2 DEF SlotHolds, Dist, Garbage
  <2>3. CASE s = Succ(head)
    BY <2>h, <2>1, <2>3 DEF SlotHolds, Dist, Garbage
  <2>4. CASE s # head /\ s # Succ(head)
    BY <2>h, <2>1, <2>4 DEF SlotHolds, Dist, Garbage
  <2> QED BY <2>2, <2>3, <2>4
<1> QED
  BY <1>1, <1>2, <1>3, <1>4, <1>5
  DEF Next, Push, Finish, Drain, DrainLoadTail, DrainLoadHead, DrainRead, DrainStore, vars

(* Indices, counters and program counters stay in their types.             *)
LEMMA StepTypes ==
    ASSUME RingInv, [Next]_vars
    PROVE  TypeOK' /\ Pushing' /\ (cpc' = "tail" => overrun' = 0)
<1> USE ConstantsAssumption
    DEF RingInv, TypeOK, Pushing, Slots, ProducerVars, ConsumerVars
<1>h. /\ Succ(head) \in Slots /\ Succ(tail) \in Slots /\ Succ(ctail) \in Slots
  BY SuccLemma
<1>1. CASE PushLoad BY <1>1, <1>h DEF PushLoad, RingFull, Succ
<1>2. CASE PushDropOldest BY <1>2, <1>h DEF PushDropOldest, Draining
<1>3. CASE PushWrite BY <1>3, <1>h DEF PushWrite
<1>4. CASE PushPublish BY <1>4, <1>h DEF PushPublish
<1>5. CASE DrainLoadTail BY <1>5, <1>h DEF DrainLoadTail, Succ
<1>6. CASE DrainLoadHead BY <1>6, <1>h DEF DrainLoadHead, Succ
<1>7. CASE DrainRead
  <2> USE <1>7 DEF DrainRead
  <2>1. last' \in 0 .. MaxPush
    BY <1>h DEF ReadOutcomes, SlotRace, Garbage
  <2> QED BY <2>1 DEF Succ
<1>8. CASE DrainStore
  <2>1. (n + 1) % Batch \in 0 .. Batch - 1 OBVIOUS
  <2> QED BY <1>8, <1>h, <2>1 DEF DrainStore, Succ
<1>9. CASE UNCHANGED vars BY <1>9 DEF vars, Succ
<1> QED
  BY <1>1, <1>2, <1>3, <1>4, <1>5, <1>6, <1>7, <1>8, <1>9 DEF Next, Push, Finish, Drain

(* Outside of bursts what was delivered is older than what the ring holds. *)
LEMMA SoundBehind ==
    ASSUME RingInv, ~burst
    PROVE  Behind
<1>h. /\ Succ(head) = IF head = Cap - 1 THEN 0 ELSE head + 1
      /\ Succ(ctail) = IF ctail = Cap - 1 THEN 0 ELSE ctail + 1
  BY SuccLemma DEF RingInv, TypeOK
<1>1. CASE cpc = "store"
  BY <1>h, <1>1, ConstantsAssumption, SMTT(40)
  DEF RingInv, TypeOK, Slots, Sound, WriteRoom, Window, Progress, Held, Dist, Behind,
      Front, Sending
<1>2. CASE cpc # "store"
  BY <1>h, <1>2, ConstantsAssumption, SMTT(40)
  DEF RingInv, TypeOK, Slots, Sound, WriteRoom, Window, Progress, Held, Dist, Behind,
      Front, Sending
<1> QED BY <1>1, <1>2

(* In a burst tail may be anywhere, and still nothing the ring holds is    *)
(* older than what was delivered before.                                   *)
LEMMA StepBurst ==
    ASSUME RingInv, [Next]_vars, burst'
    PROVE  Cap <= pushed' /\ Behind'
<1> USE ConstantsAssumption DEF RingInv, TypeOK, Slots, ProducerVars, ConsumerVars
<1>h. /\ Succ(head) \in Slots /\ Succ(tail) \in Slots /\ Succ(ctail) \in Slots
      /\ Succ(head) = IF head = Cap - 1 THEN 0 ELSE head + 1
      /\ Succ(tail) = IF tail = Cap - 1 THEN 0 ELSE tail + 1
      /\ Succ(ctail) = IF ctail = Cap - 1 THEN 0 ELSE ctail + 1
      /\ Succ(Succ(head)) = IF Succ(head) = Cap - 1 THEN 0 ELSE Succ(head) + 1
  BY SuccLemma
<1>b. Behind
  BY SoundBehind
<1>c. Cap <= pushed \/ (~burst /\ PushDropOldest)
  BY DEF Next, Push, Finish, Drain, PushLoad, PushWrite, PushPublish, DrainLoadTail,
         DrainLoadHead, DrainRead, DrainStore, vars
<1>1. CASE PushLoad
  <2> USE <1>1 DEF PushLoad
  <2>1. Cap <= pushed' BY <1>c DEF PushDropOldest
  <2>f. Succ(ctail)' = Succ(ctail) /\ Calm
    BY DEF Succ, Calm
  <2>2. CASE RingFull
    <3>1. Front' = Front /\ Sending' = Sending
      BY <2>2, <2>f DEF Front, Sending, Calm
    <3> QED BY <1>b, <2>1, <2>f, <3>1 DEF Behind, Dist
  <2>3. CASE ~RingFull
    <3>1. Front = head /\ Front' = Succ(head) /\ Sending = pushed /\ Sending' = pushed + 1
      BY <2>3, <2>f DEF Front, Sending, Calm, Succ
    <3>2. ASSUME NEW i \in Slots
          PROVE  Dist(i, Succ(head)) <= Dist(i, head) + 1 /\ Dist(i, head) \in Nat
                 /\ Dist(i, Succ(head)) \in Nat
      BY <1>h DEF Dist
    <3> DEFINE from == IF cpc = "store" THEN Succ(ctail) ELSE tail
    <3>3. Behind' <=> last + Dist(from, Succ(head)) <= pushed + 1
      BY <2>f, <3>1 DEF Behind, Dist
    <3>4. last + Dist(from, head) <= pushed
      BY <1>b, <3>1 DEF Behind
    <3>5. from \in Slots
      BY <1>h
    <3>6. Dist(from, Succ(head)) <= Dist(from, head) + 1 /\ Dist(from, head) \in Nat
          /\ Dist(from, Succ(head)) \in Nat
      BY <3>2, <3>5
    <3>7. last + Dist(from, Succ(head)) <= pushed + 1
      <4> HIDE DEF from
      <4> QED BY <3>4, <3>6
    <3> QED BY <2>1, <3>3, <3>7
  <2> QED BY <2>2, <2>3
<1>2. CASE PushDropOldest
  <2> USE <1>2 DEF PushDropOldest, Pushing
  <2>1. Cap <= pushed'
    <3>1. CASE burst BY <3>1
    <3>2. CASE ~burst
      <4>1. tail = ptail /\ Draining /\ overrun > 0 BY <3>2
      <4>2. tail = Succ(ctail) /\ Dist(tail, head) = Cap - 1
        BY <1>h, <3>2, <4>1 DEF Sound, Window, Draining, Dist
      <4>3. pushed = 0 + pushed /\ Held <= pushed /\ Held \in Nat
        BY <3>2 DEF Sound, Progress
      <4>4. cpc \in {"head", "read"} \/ cpc = "store"
        BY <4>1 DEF Draining
      <4>5. tail # ctail
        BY <1>h, <4>2
      <4>6. CASE cpc \in {"head", "read"}
        BY <4>2, <4>3, <4>5, <4>6 DEF Held
      <4>7. CASE cpc = "store"
        <5>1. Held = Cap - 1 BY <4>2, <4>5, <4>7 DEF Held
        <5>2. last = pushed - Held /\ last > 0 BY <3>2, <4>7 DEF Sound, Progress
        <5> QED BY <5>1, <5>2
      <4> QED BY <4>4, <4>6, <4>7
    <3> QED BY <3>1, <3>2
  <2>f. Succ(ctail)' = Succ(ctail)
    BY DEF Succ
  <2>2. Front = head /\ Front' = Succ(head) /\ Sending = pushed /\ Sending' = pushed + 1
    BY DEF Front, Sending, Calm, Succ
  <2>3. ASSUME NEW i \in Slots
        PROVE  /\ Dist(i, Succ(head)) <= Dist(i, head) + 1 /\ Dist(i, head) \in Nat
               /\ Dist(i, Succ(head)) \in Nat
               /\ Dist(Succ(tail), Succ(head)) <= Dist(tail, head)
    BY <1>h DEF Dist
  <2>4. Behind' <=> last + Dist(IF cpc = "store" THEN Succ(ctail) ELSE tail', Succ(head)) <= pushed + 1
    BY <2>f, <2>2 DEF Behind, Dist
  <2>5. Dist(Succ(tail), Succ(head)) \in Nat
    BY <1>h DEF Dist
  <2>6. Behind'
    <3> DEFINE from == IF cpc = "store" THEN Succ(ctail) ELSE tail
               to == IF cpc = "store" THEN Succ(ctail) ELSE tail'
    <3>1. last + Dist(from, head) <= pushed
      BY <1>b, <2>2 DEF Behind
    <3>2. Dist(to, Succ(head)) <= Dist(from, head) + 1
      <4>1. CASE to = from
        BY <1>h, <2>3, <4>1
      <4>2. CASE to # from
        <5>1. to = Succ(tail) /\ from = tail BY <4>2
        <5>2. Dist(Succ(tail), Succ(head)) <= Dist(tail, head) /\ Dist(tail, head) \in Nat
          BY <2>3
        <5> HIDE DEF from, to
        <5> QED BY <2>5, <5>1, <5>2
      <4> QED BY <4>1, <4>2
    <3>3. Dist(to, Succ(head)) \in Nat /\ Dist(from, head) \in Nat
      BY <1>h, <2>3
    <3>4. last + Dist(to, Succ(head)) <= pushed + 1
      <4> HIDE DEF from, to
      <4> QED BY <3>1, <3>2, <3>3
    <3> QED BY <2>4, <3>4
  <2> QED BY <2>1, <2>6
<1>3. CASE PushWrite
  <2> USE <1>3 DEF PushWrite
  <2>1. Cap <= pushed' BY <1>c DEF PushDropOldest
  <2>2. Behind' BY <1>h, <1>b DEF Behind, Front, Sending, Calm, Dist, Succ
  <2> QED BY <2>1, <2>2
<1>4. CASE PushPublish
  <2> USE <1>4 DEF PushPublish
  <2>1. Cap <= pushed' BY <1>c DEF PushDropOldest
  <2>2. Behind' BY <1>h, <1>b DEF Behind, Front, Sending, Calm, Dist, Succ
  <2> QED BY <2>1, <2>2
<1>5. CASE DrainLoadTail
  <2> USE <1>5 DEF DrainLoadTail
  <2>1. Cap <= pushed' BY <1>c DEF PushDropOldest
  <2>2. Behind' BY <1>h, <1>b DEF Behind, Front, Sending, Calm, Dist, Succ
  <2> QED BY <2>1, <2>2
<1>6. CASE DrainLoadHead
  <2> USE <1>6 DEF DrainLoadHead
  <2>1. Cap <= pushed' BY <1>c DEF PushDropOldest
  <2>2. Behind' BY <1>h, <1>b DEF Behind, Front, Sending, Calm, Dist, Succ
  <2> QED BY <2>1, <2>2
<1>7. CASE DrainRead
  <2> USE <1>7 DEF DrainRead
  <2>1. Cap <= pushed /\ pushed' = pushed BY <1>c DEF PushDropOldest
  <2>2. SlotHolds(ctail) BY DEF Contents
  <2>3. last' = buf[ctail] \/ (SlotRace /\ last' \in {pushed + 1, 0})
    BY DEF ReadOutcomes, Garbage
  <2>4. Front' = Front /\ Sending' = Sending /\ Succ(ctail)' = Succ(ctail)
    BY DEF Front, Sending, Calm, Succ
  <2>5. last' + Dist(Succ(ctail), Front) <= Sending
    <3>1. CASE last' = buf[ctail]
      <4>1. CASE ctail = head
        BY <1>h, <2>1, <2>2, <3>1, <4>1, SMTT(40)
        DEF SlotHolds, Dist, Front, Sending, Calm, Garbage
      <4>2. CASE ctail # head
        BY <1>h, <2>1, <2>2, <3>1, <4>2, SMTT(40)
        DEF SlotHolds, Dist, Front, Sending, Calm, Garbage
      <4> QED BY <4>1, <4>2
    <3>2. CASE SlotRace /\ last' \in {pushed + 1, 0}
      <4>1. ~Calm /\ ctail = head BY <3>2 DEF SlotRace, Calm
      <4>2. Front = Succ(head) /\ Sending = pushed + 1 /\ Succ(ctail) = Succ(head)
        BY <4>1 DEF Front, Sending
      <4>3. Dist(Succ(head), Succ(head)) = 0 BY <1>h DEF Dist
      <4>4. last' <= pushed + 1 /\ last' \in Nat
        <5>1. pushed \in Nat OBVIOUS
        <5> QED BY <3>2, <5>1
      <4>5. Dist(Succ(ctail), Front) = 0 BY <4>2, <4>3
      <4>6. last' + 0 <= pushed + 1
        <5>1. \A a \in Nat : a + 0 = a OBVIOUS
        <5>2. last' + 0 = last' BY <4>4, <5>1, Zenon
        <5> QED BY <4>4, <5>2, Zenon
      <4> QED BY <4>2, <4>5, <4>6
    <3> QED BY <2>3, <3>1, <3>2
  <2>6. Behind'
    BY <2>4, <2>5 DEF Behind, Dist
  <2> QED BY <2>1, <2>6
<1>8. CASE DrainStore
  <2> USE <1>8 DEF DrainStore
  <2>1. Cap <= pushed' BY <1>c DEF PushDropOldest
  <2>2. Behind' BY <1>h, <1>b DEF Behind, Front, Sending, Calm, Dist, Succ
  <2> QED BY <2>1, <2>2
<1>9. CASE UNCHANGED vars
  <2>1. Cap <= pushed' BY <1>c, <1>9 DEF PushDropOldest, vars
  <2>2. Behind' BY <1>9, <1>b DEF vars, Behind, Front, Sending, Calm, Dist, Succ
  <2> QED BY <2>1, <2>2
<1> QED
  BY <1>1, <1>2, <1>3, <1>4, <1>5, <1>6, <1>7, <1>8, <1>9 DEF Next, Push, Finish, Drain

(* Outside of bursts, and when one is over, the ring is sound.             *)
LEMMA StepSound ==
    ASSUME RingInv, [Next]_vars, ~burst'
    PROVE  Sound'
<1> USE ConstantsAssumption
    DEF RingInv, TypeOK, Pushing, Sound, WriteRoom, Window, Slots, ProducerVars, ConsumerVars
<1>h. /\ Succ(head) \in Slots /\ Succ(tail) \in Slots /\ Succ(ctail) \in Slots
      /\ Succ(head) = IF head = Cap - 1 THEN 0 ELSE head + 1
      /\ Succ(tail) = IF tail = Cap - 1 THEN 0 ELSE tail + 1
      /\ Succ(ctail) = IF ctail = Cap - 1 THEN 0 ELSE ctail + 1
  BY SuccLemma
<1>0. CASE burst
  <2>1. DrainLoadTail /\ Calm
    BY <1>0 DEF Next, Push, Finish, Drain, PushLoad, PushDropOldest, PushWrite, PushPublish,
                DrainLoadTail, DrainLoadHead, DrainRead, DrainStore, vars
  <2> USE <2>1 DEF DrainLoadTail
  <2>2. /\ Held' = Dist(tail, head) /\ Dist(tail, head) \in 0 .. Cap - 1
        /\ Calm' /\ pushed' = pushed /\ last' = last /\ spoilt' = pushed
        /\ cpc' = "head" /\ tail' = ctail' /\ overrun' = 0
    BY <1>0 DEF Held, Dist, Calm
  <2>3. last + Dist(tail, head) <= pushed /\ Cap <= pushed
    BY <1>0 DEF Behind, Front, Sending
  <2>4. Progress'
    BY <2>2, <2>3 DEF Progress
  <2> QED BY <2>2, <2>4
<1>1. CASE PushLoad /\ ~burst
  <2> USE <1>1 DEF PushLoad, RingFull, Calm
  <2>2. Progress' BY DEF Progress, Held, Dist
  <2>3. head' = head /\ Succ(head)' = Succ(head) /\ Succ(ctail)' = Succ(ctail)
    BY DEF Succ
  <2> QED BY <2>2, <2>3
<1>2. CASE PushDropOldest /\ ~burst
  <2> USE <1>2 DEF PushDropOldest, Calm
  <2>2. head' = head /\ Succ(head)' = Succ(head) /\ Succ(ctail)' = Succ(ctail)
    BY DEF Succ
  <2>3. CASE tail # ptail
    <3>1. Window' BY <2>2, <2>3
    <3>2. tail' = tail /\ cpc' = cpc /\ ctail' = ctail BY <2>3
    <3>3. Progress' BY <3>2 DEF Progress, Held, Dist
    <3> QED BY <2>2, <2>3, <3>1, <3>3
  <2>4. CASE tail = ptail /\ ~Draining
    <3>1. cpc = "tail" /\ tail' = Succ(tail) /\ overrun' = overrun
      BY <2>4 DEF Draining
    <3>2. Window' BY <3>1
    <3>3. Held = Cap - 1 /\ Held' = Cap - 2
      BY <1>h, <2>4, <3>1 DEF Held, Dist
    <3>4. Progress' BY <2>4, <3>1, <3>3 DEF Progress
    <3> QED BY <1>h, <2>2, <2>4, <3>1, <3>2, <3>4
  <2>5. CASE tail = ptail /\ Draining
    <3>1. tail = ctail /\ overrun = 0 /\ tail' = Succ(tail) /\ overrun' = 1
      <4>1. overrun = 0
        <5>1. ~(overrun > 0) BY <2>5
        <5> QED BY <5>1
      <4>2. cpc # "tail" BY <2>5 DEF Draining
      <4> QED BY <1>h, <2>5, <4>1, <4>2
    <3>2. Window' BY <1>h, <2>2, <2>5, <3>1 DEF Draining
    <3>3. Progress' BY <1>h, <2>5, <3>1 DEF Progress, Held, Dist, Draining
    <3> QED BY <1>h, <2>2, <2>5, <3>1, <3>2, <3>3
  <2> QED BY <2>3, <2>4, <2>5
<1>3. CASE PushWrite /\ ~burst
  <2> USE <1>3 DEF PushWrite, Calm
  <2>2. Progress' BY DEF Progress, Held, Dist
  <2>3. head' = head /\ Succ(head)' = Succ(head) /\ Succ(ctail)' = Succ(ctail)
    BY DEF Succ
  <2> QED BY <2>2, <2>3
<1>4. CASE PushPublish /\ ~burst
  <2> USE <1>4 DEF PushPublish, Calm
  <2>2. Progress' BY <1>h, SMTT(40) DEF Progress, Held, Dist
  <2>3. Succ(ctail)' = Succ(ctail) BY DEF Succ
  <2> QED BY <1>h, <2>2, <2>3
<1>5. CASE DrainLoadTail /\ ~burst
  <2> USE <1>5 DEF DrainLoadTail, Calm
  <2>2. Progress' BY DEF Progress, Held, Dist
  <2>3. Succ(head)' = Succ(head) BY DEF Succ
  <2> QED BY <2>2, <2>3
<1>6. CASE DrainLoadHead /\ ~burst
  <2> USE <1>6 DEF DrainLoadHead, Calm
  <2>2. Progress' BY <1>h, SMTT(40) DEF Progress, Held, Dist
  <2>3. Succ(head)' = Succ(head) /\ Succ(ctail)' = Succ(ctail) BY DEF Succ
  <2> QED BY <1>h, <2>2, <2>3
<1>7. CASE DrainRead /\ ~burst
  <2> USE <1>7 DEF DrainRead, Calm
  <2>4. ~SlotRace BY <1>h DEF SlotRace
  <2>5. last' = buf[ctail] BY <2>4 DEF ReadOutcomes
  <2>6. SlotHolds(ctail) BY DEF Contents
  <2>2. Progress' BY <1>h, <2>5, <2>6, SMTT(40) DEF Progress, Held, Dist, SlotHolds, Garbage
  <2>3. Succ(head)' = Succ(head) /\ Succ(ctail)' = Succ(ctail) BY DEF Succ
  <2> QED BY <2>2, <2>3, <2>5
<1>8. CASE DrainStore /\ ~burst
  <2> USE <1>8 DEF DrainStore, Calm
  <2>2. Progress' BY <1>h, SMTT(40) DEF Progress, Held, Dist
  <2>3. Succ(head)' = Succ(head) /\ Succ(ctail)' = Succ(ctail) BY DEF Succ
  <2> QED BY <1>h, <2>2, <2>3
<1>9. CASE UNCHANGED vars /\ ~burst
  BY <1>9 DEF vars, Dist, Progress, Held, Succ, Calm
<1> QED
  BY <1>0, <1>1, <1>2, <1>3, <1>4, <1>5, <1>6, <1>7, <1>8, <1>9 DEF Next, Push, Finish, Drain

(* Every step of push and of drain_to preserves the invariant.             *)
LEMMA StepRing == RingInv /\ [Next]_vars => RingInv'
<1> SUFFICES ASSUME RingInv, [Next]_vars PROVE RingInv'
  OBVIOUS
<1>1. TypeOK' /\ Pushing' /\ (cpc' = "tail" => overrun' = 0)
  BY StepTypes
<1>2. Contents'
  BY StepContents
<1>3. burst' => Cap <= pushed' /\ Behind'
  BY StepBurst
<1>4. ~burst' => Sound'
  BY StepSound
<1> QED BY <1>1, <1>2, <1>3, <1>4 DEF RingInv

(* Every state of the ring satisfies the inductive invariant, however many *)
(* pushes overflow while the consumer is in one iteration of its loop.     *)
THEOREM RingInvariant == Spec => []RingInv
<1> QED BY InitRing, StepRing, PTL DEF Spec

(* push and drain_to keep their indices inside the ring, in bursts too.    *)
THEOREM TypeCorrect == Spec => []TypeOK
<1>1. RingInv => TypeOK BY DEF RingInv
<1> QED BY RingInvariant, <1>1, PTL

(* The slot the consumer is copying is only written when several pushes    *)
(* overflow within one iteration: otherwise no torn message reaches the    *)
(* rack.                                                                   *)
THEOREM RaceFree == Spec => []NoSlotRace
<1>1. RingInv => NoSlotRace
  <2> SUFFICES ASSUME RingInv, SlotRace, ~burst PROVE FALSE
    BY DEF NoSlotRace
  <2> QED
    BY SuccLemma DEF RingInv, Sound, SlotRace, TypeOK, WriteRoom, Window, Calm
<1> QED BY RingInvariant, <1>1, PTL

(* When the producer rests and the ring is empty, the newest message is    *)
(* the one that was delivered last, or it fell into a burst: a push after  *)
(* the burst brings the knob to where the user left it.                    *)
THEOREM LatestKept == Spec => []KeepLatest
<1>1. RingInv => KeepLatest
  <2> SUFFICES ASSUME RingInv, cpc = "tail", tail = head, ~burst
               PROVE  last = pushed \/ spoilt = pushed
    BY DEF KeepLatest
  <2>1. Held = 0
    BY ConstantsAssumption DEF RingInv, TypeOK, Held, Dist, Slots
  <2> QED BY <2>1 DEF RingInv, Sound, Progress
<1> QED BY RingInvariant, <1>1, PTL

-----------------------------------------------------------------------------
(***************************************************************************)
(* The ring refines the drop-oldest mailbox.                               *)
(***************************************************************************)
(* An empty ring is an empty mailbox.                                      *)
LEMMA InitMailbox == Init => Mailbox!AInit
  BY ConstantsAssumption
  DEF Init, Mailbox!AInit, Held, Dist

(* A step outside of bursts is a step of the mailbox or changes nothing.   *)
LEMMA StepSoundMailbox ==
    ASSUME RingInv, [Next]_vars, ~burst, ~burst'
    PROVE  [Mailbox!ANext]_(Mailbox!avars)
<1> USE ConstantsAssumption
    DEF RingInv, TypeOK, Pushing, Sound, Window, Progress, Slots, ProducerVars, ConsumerVars,
        Mailbox!ANext, Mailbox!avars, Mailbox!Queued
<1>h. /\ Succ(head) = IF head = Cap - 1 THEN 0 ELSE head + 1
      /\ Succ(tail) = IF tail = Cap - 1 THEN 0 ELSE tail + 1
      /\ Succ(ctail) = IF ctail = Cap - 1 THEN 0 ELSE ctail + 1
  BY SuccLemma
<1>q. Held \in 0 .. pushed /\ pushed \in Nat /\ pushed - (pushed - Held) = Held
  OBVIOUS
<1>b. burst = FALSE /\ burst' = FALSE
  BY DEF Next, Push, Finish, Drain, PushLoad, PushDropOldest, PushWrite, PushPublish,
         DrainLoadTail, DrainLoadHead, DrainRead, DrainStore, vars
<1>1. CASE PushLoad \/ PushWrite
  <2>1. Held' = Held /\ pushed' = pushed /\ last' = last
    BY <1>1 DEF PushLoad, RingFull, PushWrite, Held, Dist
  <2> QED BY <1>b, <2>1
<1>2. CASE PushDropOldest
  <2> USE <1>2 DEF PushDropOldest, WriteRoom
  <2>1. CASE tail # ptail
    <3>1. Held' = Held BY <2>1 DEF Held, Dist
    <3> QED BY <1>b, <3>1
  <2>2. CASE tail = ptail /\ ~Draining
    <3>1. Held = Cap - 1 /\ Held' = Cap - 2
      BY <1>h, <2>2, SMTT(40) DEF Held, Dist, Draining
    <3>2. Mailbox!Discard
      BY <1>b, <1>q, <3>1 DEF Mailbox!Discard
    <3> QED BY <1>b, <3>2
  <2>3. CASE tail = ptail /\ Draining
    <3>o. ~(overrun > 0) BY <1>b, <2>3
    <3>t. tail = ctail /\ cpc # "tail" BY <1>h, <2>3, <3>o DEF Draining
    <3>1. Held' = Held
      <4>1. tail' = Succ(tail) /\ tail' # ctail /\ tail # head
        BY <1>h, <2>3, <3>t
      <4>2. Dist(tail, head) = Dist(tail', head) + 1
        BY <1>h, <2>3, <4>1 DEF Dist
      <4>3. CASE cpc = "store"
        <5>1. Held = Dist(tail, head) - 1 /\ Held' = Dist(tail', head)
          BY <3>t, <4>1, <4>3 DEF Held, Dist
        <5>2. Dist(tail', head) \in Nat BY <1>h, <4>1 DEF Dist
        <5> QED BY <4>2, <5>1, <5>2
      <4>4. CASE cpc # "store"
        <5>1. Held = Dist(tail, head) /\ Held' = Dist(tail', head) + 1
          BY <3>t, <4>1, <4>4 DEF Held, Dist
        <5> QED BY <4>2, <5>1
      <4> QED BY <4>3, <4>4
    <3> QED BY <1>b, <3>1
  <2> QED BY <2>1, <2>2, <2>3
<1>3. CASE PushPublish
  <2> USE <1>3 DEF PushPublish, WriteRoom, Calm
  <2>1. Held <= Cap - 1 /\ Held' = Held + 1
    BY <1>h DEF Held, Dist
  <2>2. Mailbox!Enqueue
    <3>1. pushed' - Held' = pushed - Held /\ pushed - (pushed - Held) <= Cap - 1
      BY <1>q, <2>1
    <3> QED BY <1>b, <3>1 DEF Mailbox!Enqueue
  <2> QED BY <1>b, <2>2
<1>4. CASE DrainLoadTail
  <2>1. Held' = Held /\ pushed' = pushed /\ last' = last
    BY <1>4 DEF DrainLoadTail, Held, Dist
  <2> QED BY <1>b, <2>1
<1>5. CASE DrainLoadHead
  <2> USE <1>5 DEF DrainLoadHead
  <2>1. CASE ctail # head \/ tail = ctail
    <3>1. Held' = Held BY <2>1 DEF Held, Dist
    <3> QED BY <1>b, <3>1
  <2>2. CASE ctail = head /\ tail # ctail
    <3>1. Held = Cap /\ Held' = Cap - 1
      BY <1>h, <2>2 DEF Held, Dist
    <3>2. Mailbox!Discard
      BY <1>b, <1>q, <3>1 DEF Mailbox!Discard
    <3> QED BY <1>b, <3>2
  <2> QED BY <2>1, <2>2
<1>6. CASE DrainRead
  <2> USE <1>6 DEF DrainRead
  <2>1. RingInv' BY <1>6, StepRing
  <2>2. Held' = Held - 1
    BY <1>h DEF Held, Dist
  <2>3. last' = pushed - Held' /\ pushed' = pushed
    BY <2>1
  <2>4. Mailbox!Deliver
    BY <2>1, <2>2, <2>3 DEF Mailbox!Deliver
  <2> QED BY <2>4
<1>7. CASE DrainStore
  <2>1. Held' = Held /\ pushed' = pushed /\ last' = last
    BY <1>7, <1>h DEF DrainStore, Held, Dist
  <2> QED BY <1>b, <2>1
<1>8. CASE UNCHANGED vars
  BY <1>8 DEF vars, Held, Dist
<1> QED
  BY <1>1, <1>2, <1>3, <1>4, <1>5, <1>6, <1>7, <1>8 DEF Next, Push, Finish, Drain

(* The second overflow upsets a full mailbox.                              *)
LEMMA StepUpset ==
    ASSUME RingInv, [Next]_vars, ~burst, burst'
    PROVE  Mailbox!Upset
<1> USE ConstantsAssumption
    DEF RingInv, TypeOK, Pushing, Sound, Window, Progress, Slots, ProducerVars, ConsumerVars
<1>1. PushDropOldest /\ tail = ptail /\ Draining /\ overrun > 0
  BY DEF Next, Push, Finish, Drain, PushLoad, PushDropOldest, PushWrite, PushPublish,
         DrainLoadTail, DrainLoadHead, DrainRead, DrainStore, vars
<1>2. /\ Succ(head) = IF head = Cap - 1 THEN 0 ELSE head + 1
      /\ Succ(ctail) = IF ctail = Cap - 1 THEN 0 ELSE ctail + 1
  BY SuccLemma
<1>3. Dist(tail, head) = Cap - 1 /\ tail = Succ(ctail) /\ tail # ctail
  BY <1>1, <1>2 DEF PushDropOldest, Dist, Draining
<1>4. Held >= Cap - 1 /\ Held \in Nat
  BY <1>3 DEF Held
<1>5. pushed - (pushed - Held) >= Cap - 1
  BY <1>4
<1> QED
  BY <1>1, <1>5 DEF PushDropOldest, Mailbox!Upset, Mailbox!Queued

(* While it lasts messages are counted.                                    *)
LEMMA StepChurn ==
    ASSUME RingInv, [Next]_vars, burst, burst'
    PROVE  [Mailbox!ANext]_(Mailbox!avars)
<1> USE ConstantsAssumption
    DEF RingInv, TypeOK, Pushing, Slots, ProducerVars, ConsumerVars
<1>1. RingInv' BY StepRing
<1>2. pushed' \in {pushed, pushed + 1}
  BY DEF Next, Push, Finish, Drain, PushLoad, PushDropOldest, PushWrite, PushPublish,
         DrainLoadTail, DrainLoadHead, DrainRead, DrainStore, vars
<1>3. last' \in 0 .. pushed + 1
  <2>1. last + Dist(IF cpc = "store" THEN Succ(ctail) ELSE tail, Front) <= Sending
    BY DEF Behind
  <2>2. /\ Front \in Slots /\ Succ(ctail) \in Slots
        /\ \A i, k \in Slots : Dist(i, k) \in Nat
    BY SuccLemma DEF Front, Dist
  <2>3. Sending \in Nat /\ Sending <= pushed + 1
    BY DEF Sending
  <2>4. last \in 0 .. pushed + 1
    <3> DEFINE gap == Dist(IF cpc = "store" THEN Succ(ctail) ELSE tail, Front)
    <3>1. gap \in Nat BY <2>2
    <3>2. last + gap <= Sending BY <2>1
    <3> HIDE DEF gap
    <3> QED BY <2>3, <3>1, <3>2
  <2>5. CASE DrainRead
    <3>1. SlotHolds(ctail) BY DEF Contents
    <3>2. buf[ctail] \in 0 .. pushed + 1
      BY <3>1 DEF SlotHolds, Dist, Garbage
    <3> QED BY <2>5, <3>2 DEF DrainRead, ReadOutcomes, Garbage
  <2>6. CASE ~DrainRead
    <3>1. last' = last
      BY <2>6 DEF Next, Push, Finish, Drain, PushLoad, PushDropOldest, PushWrite,
                  PushPublish, DrainLoadTail, DrainLoadHead, DrainStore, vars
    <3> QED BY <2>4, <3>1
  <2> QED BY <2>5, <2>6
<1>4. Mailbox!Churn
  BY <1>2, <1>3 DEF Mailbox!Churn
<1> QED BY <1>4 DEF Mailbox!ANext

(* Then it is a mailbox again, with nothing older than what was delivered. *)
LEMMA StepSettle ==
    ASSUME RingInv, [Next]_vars, burst, ~burst'
    PROVE  Mailbox!Settle
<1> USE ConstantsAssumption
    DEF RingInv, TypeOK, Slots, ProducerVars, ConsumerVars
<1>1. DrainLoadTail /\ Calm
  BY DEF Next, Push, Finish, Drain, PushLoad, PushDropOldest, PushWrite, PushPublish,
         DrainLoadTail, DrainLoadHead, DrainRead, DrainStore, vars
<1>2. Held' = Dist(tail, head) /\ Dist(tail, head) \in 0 .. Cap - 1
  BY <1>1 DEF DrainLoadTail, Held, Dist
<1>3. last + Dist(tail, head) <= pushed /\ Cap <= pushed
  BY <1>1 DEF Behind, Front, Sending, DrainLoadTail
<1>4. /\ pushed' - Held' \in last .. pushed /\ pushed - (pushed' - Held') <= Cap - 1
      /\ pushed' = pushed /\ last' = last
  BY <1>1, <1>2, <1>3 DEF DrainLoadTail
<1> QED BY <1>4 DEF Mailbox!Settle

(* Every step of the ring is a step of the mailbox or changes nothing.     *)
LEMMA StepMailbox ==
    ASSUME RingInv, [Next]_vars
    PROVE  [Mailbox!ANext]_(Mailbox!avars)
<1>1. CASE ~burst /\ ~burst' BY <1>1, StepSoundMailbox
<1>2. CASE ~burst /\ burst' BY <1>2, StepUpset DEF Mailbox!ANext
<1>3. CASE burst /\ burst' BY <1>3, StepChurn
<1>4. CASE burst /\ ~burst' BY <1>4, StepSettle DEF Mailbox!ANext
<1> QED BY <1>1, <1>2, <1>3, <1>4

(* Every behaviour of the ring is a behaviour of the mailbox that discards *)
(* its oldest message, and only when it is full, but for bursts, after     *)
(* each of which it is such a mailbox again.                               *)
THEOREM RingImplementsMailbox == Spec => ImplementsMailbox
<1>1. RingInv /\ [Next]_vars => [Mailbox!ANext]_(Mailbox!avars)
  BY StepMailbox
<1> QED
  BY InitMailbox, RingInvariant, <1>1, PTL DEF Spec, ImplementsMailbox, Mailbox!ASpec

(* Outside of bursts delivery follows the order of the pushes: a newer     *)
(* value is never overtaken by an older one, nothing is applied twice.     *)
THEOREM DeliveredInOrder == Spec => InOrder
<1>1. RingInv /\ RingInv' /\ [Next]_vars
      => [last' # last /\ ~burst => last < last' /\ last' <= pushed]_vars
  <2> SUFFICES ASSUME RingInv, RingInv', Next, last' # last, ~burst
               PROVE  last < last' /\ last' <= pushed
    OBVIOUS
  <2>1. DrainRead
    BY DEF Next, Push, Finish, Drain, PushLoad, PushDropOldest, PushWrite, PushPublish,
           DrainLoadTail, DrainLoadHead, DrainStore, ConsumerVars
  <2>2. last' = pushed - Held' /\ ~burst'
    BY <2>1 DEF DrainRead, RingInv, Sound, Progress, ProducerVars
  <2>3. Held' < Held
    BY <2>1, SuccLemma, ConstantsAssumption
    DEF DrainRead, RingInv, Sound, TypeOK, Window, Held, Dist, Slots, ProducerVars
  <2>4. Held \in Nat /\ Held' \in Nat /\ pushed \in Nat /\ last \in Nat
    BY <2>2 DEF RingInv, Sound, TypeOK, Progress
  <2>5. last <= pushed - Held
    BY DEF RingInv, Sound, Progress, TypeOK
  <2>6. \A h, k, p, x \in Nat : k < h /\ x <= p - h => x < p - k /\ p - k <= p
    OBVIOUS
  <2>7. last < pushed - Held' /\ pushed - Held' <= pushed
    BY <2>3, <2>4, <2>5, <2>6
  <2> QED
    BY <2>2, <2>7
<1> QED BY <1>1, RingInvariant, PTL DEF Spec, InOrder

-----------------------------------------------------------------------------
(***************************************************************************)
(* The publication of racks.                                               *)
(***************************************************************************)

(* Each thread's step and the rack it names agree, and nobody names a rack *)
(* that was not published.                                                 *)
Names ==
    /\ rackPtr <= built
    /\ rt = "clone" => live /\ \/ rtRack = rackPtr
                               \/ eng = "dropOld" /\ rtRack = engRack
                               \/ freedBy[rtRack] = "engine"
    /\ rt \in {"try", "run", "drop"} => live
    /\ live /\ built > 0 => rackPtr = built
    /\ EngHolds /\ live => engRack < rackPtr \/ eng # "dropOld"
    /\ (rt = "idle") <=> (rtRack = NoRack)
    /\ rtRack <= built
    /\ EngHolds <=> engRack # NoRack
    /\ engRack <= built

(* A published rack is in memory exactly as long as somebody counts it.    *)
Alive == \A g \in Gens : freedBy[g] = "no" <=> g > built \/ refs[g] > 0

Exact == \A g \in Gens : refs[g] = Owners(g)

RackInv == RackTypeOK /\ Exact /\ Names /\ Alive

(* A host that has just been created satisfies the invariant.              *)
LEMMA InitRack == RackInit => RackInv
<1> SUFFICES ASSUME RackInit PROVE RackInv
  OBVIOUS
<1> USE BoundsAssumption DEF RackInit, Gens, NoRack
<1>1. RackTypeOK
  <2>1. refs \in [Gens -> 0 .. 3] OBVIOUS
  <2>2. freedBy \in [Gens -> {"no", "rt", "engine"}] OBVIOUS
  <2>3. owner \in [Gens -> {"none", "rt", "engine"}] OBVIOUS
  <2>4. built \in 0 .. MaxGen /\ observed \in 0 .. MaxGen /\ harvests \in 0 .. MaxHarvest
        /\ mail \in 0 .. MaxGen
    OBVIOUS
  <2> QED BY <2>1, <2>2, <2>3, <2>4 DEF RackTypeOK
<1>2. Exact BY DEF Exact, Owners, Count, RtHolds, EngHolds
<1>3. Names BY DEF Names, EngHolds
<1>4. Alive BY DEF Alive
<1> QED BY <1>1, <1>2, <1>3, <1>4 DEF RackInv

(* What dropping one reference does to the counts, when there is one.      *)
LEMMA DropRefLemma ==
    ASSUME RackTypeOK, NEW g \in Gens, NEW who \in {"rt", "engine"},
           refs[g] > 0, freedBy[g] = "no", DropRef(g, who)
    PROVE  /\ refs' \in [Gens -> 0 .. 3]
           /\ freedBy' \in [Gens -> {"no", "rt", "engine"}]
           /\ refs'[g] = refs[g] - 1
           /\ freedBy'[g] = "no" <=> refs'[g] > 0
           /\ \A h \in Gens \ {g} : refs'[h] = refs[h] /\ freedBy'[h] = freedBy[h]
<1>1. refs' = [refs EXCEPT ![g] = @ - 1] /\ refs[g] \in 1 .. 3
  BY DEF DropRef, RackTypeOK
<1>2. refs' \in [Gens -> 0 .. 3] /\ refs'[g] = refs[g] - 1
      /\ \A h \in Gens \ {g} : refs'[h] = refs[h]
  BY <1>1 DEF RackTypeOK
<1>3. CASE refs[g] = 1
  BY <1>1, <1>2, <1>3 DEF DropRef, RackTypeOK
<1>4. CASE refs[g] # 1
  BY <1>1, <1>2, <1>4 DEF DropRef, RackTypeOK
<1> QED BY <1>3, <1>4

(* Every step of the callback and of the engine thread preserves it.       *)
LEMMA StepRack ==
    ASSUME RackInv, [RackNext]_rackVars
    PROVE  RackInv'
<1> USE BoundsAssumption
    DEF RackInv, RackTypeOK, Exact, Names, Alive, Owners, Count, RtHolds,
        EngHolds, Gens, NoRack, RtVars, EngVars
<1>1. CASE PublishSwap    BY <1>1 DEF PublishSwap
<1>2. CASE PublishDropOld
  <2> USE <1>2 DEF PublishDropOld
  <2>1. engRack \in Gens /\ refs[engRack] > 0 /\ freedBy[engRack] = "no"
    OBVIOUS
  <2>2. DropRef(engRack, "engine") OBVIOUS
  <2>d. /\ refs' \in [Gens -> 0 .. 3] /\ freedBy' \in [Gens -> {"no", "rt", "engine"}]
        /\ refs'[engRack] = refs[engRack] - 1
        /\ freedBy'[engRack] = "no" <=> refs'[engRack] > 0
        /\ \A h \in Gens \ {engRack} : refs'[h] = refs[h] /\ freedBy'[h] = freedBy[h]
    BY <2>1, <2>2, DropRefLemma
  <2>3. Exact' BY <2>1, <2>2, DropRefLemma
  <2>4. Alive'
    <3> SUFFICES ASSUME NEW h \in Gens
                 PROVE  freedBy'[h] = "no" <=> h > built \/ refs'[h] > 0
      OBVIOUS
    <3>1. CASE h = engRack BY <2>1, <2>d, <3>1
    <3>2. CASE h # engRack BY <2>d, <3>2
    <3> QED BY <3>1, <3>2
  <2>5. Names'
    <3>1. freedBy'[engRack] \in {"no", "engine"}
      BY <2>1, <2>2 DEF DropRef
    <3>2. rt = "clone" /\ rtRack = engRack => rtRack = rackPtr \/ freedBy'[rtRack] = "engine"
      <4>1. engRack # rackPtr => refs[engRack] = 1 \/ RtHolds BY <2>1
      <4> QED BY <2>1, <2>d, <3>1, <4>1
    <3>3. rt = "clone" /\ rtRack # engRack => freedBy'[rtRack] = freedBy[rtRack]
      BY <2>d
    <3> QED BY <3>2, <3>3
  <2>6. RackTypeOK' BY <2>d
  <2> QED BY <2>3, <2>4, <2>5, <2>6
<1>3. CASE PushControls   BY <1>3 DEF PushControls
<1>4. CASE HarvestLoad    BY <1>4 DEF HarvestLoad
<1>5. CASE HarvestLock    BY <1>5 DEF HarvestLock
<1>6. CASE HarvestUnlock  BY <1>6 DEF HarvestUnlock
<1>7. CASE HarvestDrop
  <2> USE <1>7 DEF HarvestDrop
  <2>1. engRack \in Gens /\ refs[engRack] > 0 /\ freedBy[engRack] = "no"
    OBVIOUS
  <2>2. DropRef(engRack, "engine") OBVIOUS
  <2>3. Exact'
    <3>1. /\ refs'[engRack] = refs[engRack] - 1
          /\ \A h \in Gens \ {engRack} : refs'[h] = refs[h]
      BY <2>1, <2>2, DropRefLemma
    <3>2. ASSUME NEW h \in Gens PROVE refs'[h] = Owners(h)'
      <4>1. CASE h = engRack BY <3>1, <4>1
      <4>2. CASE h # engRack BY <3>1, <4>2
      <4> QED BY <4>1, <4>2
    <3> QED BY <3>2
  <2>4. Alive' BY <2>1, <2>2, DropRefLemma
  <2>5. RackTypeOK' /\ Names' BY <2>1, <2>2, DropRefLemma
  <2> QED BY <2>3, <2>4, <2>5
<1>8. CASE StopFilter
  <2> USE <1>8 DEF StopFilter
  <2>1. RackTypeOK' /\ Names' /\ Alive' OBVIOUS
  <2>2. Exact' OBVIOUS
  <2> QED BY <2>1, <2>2
<1>9. CASE StateDrop
  <2> USE <1>9 DEF StateDrop
  <2>1. engRack \in Gens /\ refs[engRack] > 0 /\ freedBy[engRack] = "no"
    OBVIOUS
  <2>2. DropRef(engRack, "engine") OBVIOUS
  <2>3. Exact'
    <3>1. /\ refs'[engRack] = refs[engRack] - 1
          /\ \A h \in Gens \ {engRack} : refs'[h] = refs[h]
      BY <2>1, <2>2, DropRefLemma
    <3>2. ASSUME NEW h \in Gens PROVE refs'[h] = Owners(h)'
      <4>1. CASE h = engRack BY <3>1, <4>1
      <4>2. CASE h # engRack BY <3>1, <4>2
      <4> QED BY <4>1, <4>2
    <3> QED BY <3>2
  <2>4. Alive' BY <2>1, <2>2, DropRefLemma
  <2>5. RackTypeOK' /\ Names' BY <2>1, <2>2, DropRefLemma
  <2> QED BY <2>3, <2>4, <2>5
<1>10. CASE RtLoad
  <2> USE <1>10 DEF RtLoad
  <2>1. RackTypeOK' /\ Names' /\ Alive' OBVIOUS
  <2>2. Exact' OBVIOUS
  <2> QED BY <2>1, <2>2
<1>11. CASE RtClone
  <2> USE <1>11 DEF RtClone
  <2>0. rtRack \in Gens OBVIOUS
  <2>1. CASE freedBy[rtRack] = "no"
    <3>1. refs[rtRack] \in 1 .. 2 BY <2>1
    <3>2. refs' = [refs EXCEPT ![rtRack] = @ + 1] BY <2>1
    <3>3. Exact' BY <2>0, <2>1, <3>1, <3>2
    <3>4. RackTypeOK' BY <2>0, <2>1, <3>1, <3>2
    <3>5. Names' BY <2>0, <2>1
    <3>6. Alive' BY <2>0, <2>1, <3>1, <3>2
    <3> QED BY <3>3, <3>4, <3>5, <3>6
  <2>2. CASE freedBy[rtRack] # "no"
    BY <2>0, <2>2
  <2> QED BY <2>1, <2>2
<1>12. CASE RtTryLock     BY <1>12 DEF RtTryLock
<1>13. CASE RtRun         BY <1>13 DEF RtRun
<1>14. CASE RtDrop
  <2> USE <1>14 DEF RtDrop
  <2>1. rtRack \in Gens /\ refs[rtRack] > 0 /\ freedBy[rtRack] = "no"
    OBVIOUS
  <2>2. DropRef(rtRack, "rt") OBVIOUS
  <2>3. Exact'
    <3>1. /\ refs'[rtRack] = refs[rtRack] - 1
          /\ \A h \in Gens \ {rtRack} : refs'[h] = refs[h]
      BY <2>1, <2>2, DropRefLemma
    <3>2. ASSUME NEW h \in Gens PROVE refs'[h] = Owners(h)'
      <4>1. CASE h = rtRack BY <3>1, <4>1
      <4>2. CASE h # rtRack BY <3>1, <4>2
      <4> QED BY <4>1, <4>2
    <3> QED BY <3>2
  <2>4. Alive' BY <2>1, <2>2, DropRefLemma
  <2>5. RackTypeOK' /\ Names' BY <2>1, <2>2, DropRefLemma
  <2> QED BY <2>3, <2>4, <2>5
<1>15. CASE UNCHANGED rackVars BY <1>15 DEF rackVars
<1> QED
  BY <1>1, <1>2, <1>3, <1>4, <1>5, <1>6, <1>7, <1>8, <1>9, <1>10, <1>11, <1>12,
     <1>13, <1>14, <1>15 DEF RackNext, Engine, Callback

(* The inductive invariant of the hand-over of racks.                      *)
THEOREM RackInvariant == RackSpec => []RackInv
<1>1. RackInv /\ [RackNext]_rackVars => RackInv' BY StepRack
<1> QED BY InitRack, <1>1, PTL DEF RackSpec

(* The strong count of every rack is the number of its owners.             *)
THEOREM CountsExact == RackSpec => []RefsExact
<1>1. RackInv => RefsExact BY DEF RackInv, Exact, RefsExact
<1> QED BY RackInvariant, <1>1, PTL

(* Counts, owners, generations and both program counters stay in their     *)
(* types, in particular no count falls below zero.                         *)
THEOREM RackTypeCorrect == RackSpec => []RackTypeOK
<1>1. RackInv => RackTypeOK BY DEF RackInv
<1> QED BY RackInvariant, <1>1, PTL

(* Neither the engine thread, nor the pointer the next block will load,    *)
(* nor a callback that has counted its reference refers to a rack that was *)
(* freed; one that is about to count it may, and only if a publisher       *)
(* replaced and dropped that rack since the load.                          *)
THEOREM CountedSafe == RackSpec => []CountedIsSafe
<1>1. RackInv => CountedIsSafe
  <2> SUFFICES ASSUME RackInv PROVE CountedIsSafe
    OBVIOUS
  <2> USE BoundsAssumption
      DEF RackInv, RackTypeOK, Exact, Names, Alive, Owners, Count, RtHolds,
          EngHolds, Gens, NoRack
  <2>1. RtHolds => freedBy[rtRack] = "no" OBVIOUS
  <2>2. EngHolds => freedBy[engRack] = "no" OBVIOUS
  <2>3. rackPtr # NoRack => freedBy[rackPtr] = "no" OBVIOUS
  <2>4. rt = "clone" /\ freedBy[rtRack] # "no" =>
            freedBy[rtRack] = "engine" /\ live /\ rtRack < rackPtr
    <3> SUFFICES ASSUME rt = "clone", freedBy[rtRack] # "no"
                 PROVE  freedBy[rtRack] = "engine" /\ live /\ rtRack < rackPtr
      OBVIOUS
    <3>1. rtRack \in Gens /\ built > 0 OBVIOUS
    <3>2. rtRack # rackPtr /\ rackPtr = built BY <2>3, <3>1
    <3> QED BY <2>2, <3>1, <3>2
  <2> QED BY <2>1, <2>2, <2>3, <2>4 DEF CountedIsSafe
<1> QED BY RackInvariant, <1>1, PTL

(* When both threads rest, every replaced generation has been freed.       *)
THEOREM NothingLeaks == RackSpec => []NoLeak
<1>1. RackInv => NoLeak
  BY BoundsAssumption
  DEF RackInv, RackTypeOK, Exact, Names, Alive, Owners, Count, RtHolds, EngHolds,
      NoLeak, Gens, NoRack
<1> QED BY RackInvariant, <1>1, PTL
=============================================================================
