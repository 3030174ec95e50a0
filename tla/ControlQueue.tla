---------------------------- MODULE ControlQueue ----------------------------
(***************************************************************************)
(* The control mailbox between the engine threads and the audio callback   *)
(* (engine/src/host/control.rs): a ring of Cap slots, one producer, one    *)
(* consumer, no lock.  push and drain_to are split at every shared access, *)
(* so the two threads interleave as they do on two cores.                  *)
(*                                                                         *)
(* A message is the number of its push.  Garbage stands for a value nobody *)
(* pushed: the filler a slot starts with, or the torn copy a racing read   *)
(* and write of one slot can produce.                                      *)
(*                                                                         *)
(* Nothing keeps the producer from overflowing the ring twice or more      *)
(* while the consumer is in one iteration of its loop.  The slot being     *)
(* read is then written and the store of tail moves it backwards: this is  *)
(* a burst, and it lasts until an iteration begins with no message half    *)
(* pushed.  The properties say what the ring promises outside of bursts    *)
(* and what is left of it after one.                                       *)
(***************************************************************************)
EXTENDS Naturals

CONSTANTS
    Cap,         \* slots of the ring (256 in the code)
    Batch,       \* length of the drain buffer (256 in node.rs)
    MaxPush      \* bound: pushes explored

(* With two slots the ring holds one message and a discard empties it, so  *)
(* "keep latest" needs a third; the code has 256.                          *)
ASSUME ConstantsAssumption ==
    /\ Cap \in Nat /\ Cap >= 3
    /\ Batch \in Nat /\ Batch >= 1
    /\ MaxPush \in Nat

VARIABLES
    head, tail,      \* the two shared indices
    buf,             \* the slots
    ppc, ptail,      \* producer: where it is in push, the tail it loaded
    cpc, ctail, n,   \* consumer: where it is in drain_to, its tail, its count
    pushed,          \* messages published so far (history)
    last,            \* newest message delivered (history)
    overrun,         \* overflows since the consumer loaded tail: none, one or
                     \* several (history)
    burst,           \* several overflows met one iteration (history)
    spoilt           \* newest message when the last burst was over (history)

ProducerVars == <<head, buf, ppc, ptail, pushed>>
ConsumerVars == <<cpc, ctail, n, last, spoilt>>
vars == <<tail, ProducerVars, ConsumerVars, overrun, burst>>

Slots == 0 .. Cap - 1
Garbage == 0

(* The mutants of this module, each before the definition it replaces, are *)
(* the slips of the code that the runs must notice.                        *)
SuccNoWrap(i) == i + 1

Succ(i) == (i + 1) % Cap

RingNeverFull == FALSE

RingFull == Succ(head) = tail

TypeOK ==
    /\ head \in Slots /\ tail \in Slots /\ ptail \in Slots /\ ctail \in Slots
    /\ buf \in [Slots -> 0 .. MaxPush]
    /\ ppc \in {"idle", "drop", "write", "publish"}
    /\ cpc \in {"tail", "head", "read", "store"}
    /\ n \in 0 .. Batch - 1
    /\ pushed \in 0 .. MaxPush
    /\ last \in 0 .. MaxPush
    /\ overrun \in 0 .. 2
    /\ burst \in BOOLEAN /\ spoilt \in 0 .. pushed

Init ==
    /\ head = 0 /\ tail = 0 /\ ptail = 0 /\ ctail = 0
    /\ buf = [i \in Slots |-> Garbage]
    /\ ppc = "idle" /\ cpc = "tail" /\ n = 0
    /\ pushed = 0 /\ last = 0
    /\ overrun = 0 /\ burst = FALSE /\ spoilt = 0

(* The consumer is between its load of tail and its store of tail.         *)
Draining == cpc # "tail"

(* Both threads are at their access of one slot, one of them writing.      *)
SlotRace == ppc = "write" /\ cpc = "read" /\ head = ctail

-----------------------------------------------------------------------------
(* push: load both indices and choose the branch.  head is the producer's  *)
(* own, so loading it is not a step of its own.                            *)
PushLoad ==
    /\ ppc = "idle" /\ pushed < MaxPush
    /\ ptail' = tail
    /\ ppc' = IF RingFull THEN "drop" ELSE "write"
    /\ UNCHANGED <<head, tail, buf, pushed, ConsumerVars, overrun, burst>>

PushDropNothing ==
    /\ ppc = "drop"
    /\ ppc' = "write"
    /\ UNCHANGED <<head, tail, buf, ptail, pushed, ConsumerVars, overrun, burst>>

(* push, ring full: compare_exchange on tail; a lost exchange means the    *)
(* consumer has moved it, which makes room just as well.                   *)
PushDropOldest ==
    /\ ppc = "drop"
    /\ ppc' = "write"
    /\ tail' = IF tail = ptail THEN Succ(tail) ELSE tail
    /\ overrun' = IF tail = ptail /\ Draining /\ overrun < 2 THEN overrun + 1 ELSE overrun
    /\ burst' = (burst \/ (tail = ptail /\ Draining /\ overrun > 0))
    /\ UNCHANGED <<head, buf, ptail, pushed, ConsumerVars>>

PushWrite ==
    /\ ppc = "write"
    /\ ppc' = "publish"
    /\ buf' = [buf EXCEPT ![head] = pushed + 1]
    /\ UNCHANGED <<head, tail, ptail, pushed, ConsumerVars, overrun, burst>>

PushPublish ==
    /\ ppc = "publish"
    /\ ppc' = "idle"
    /\ head' = Succ(head)
    /\ pushed' = pushed + 1
    /\ UNCHANGED <<tail, buf, ptail, ConsumerVars, overrun, burst>>

Finish == PushDropOldest \/ PushWrite \/ PushPublish
Push == PushLoad \/ Finish

-----------------------------------------------------------------------------
(* A burst is over when an iteration begins while no message is between    *)
(* the choice of its slot and the store of head.                           *)
Calm == ppc \notin {"write", "publish"}

DrainLoadTail ==
    /\ cpc = "tail"
    /\ ctail' = tail
    /\ cpc' = "head"
    /\ burst' = (burst /\ ~Calm)
    /\ spoilt' = IF burst /\ Calm THEN pushed ELSE spoilt
    /\ UNCHANGED <<tail, ProducerVars, n, last, overrun>>

(* Empty: drain_to returns, and the next audio block calls it afresh.      *)
DrainLoadHead ==
    /\ cpc = "head"
    /\ \/ /\ ctail # head
          /\ cpc' = "read"
          /\ UNCHANGED <<n, overrun>>
       \/ /\ ctail = head
          /\ cpc' = "tail" /\ n' = 0 /\ overrun' = 0
    /\ UNCHANGED <<tail, ProducerVars, ctail, last, spoilt, burst>>

ReadNextSlot == {buf[Succ(ctail)]}

(* What a copy of the slot can see while the producer is writing it.       *)
ReadOutcomes ==
    IF SlotRace THEN {buf[ctail], pushed + 1, Garbage} ELSE {buf[ctail]}

DrainRead ==
    /\ cpc = "read"
    /\ cpc' = "store"
    /\ last' \in ReadOutcomes
    /\ UNCHANGED <<tail, ProducerVars, ctail, n, spoilt, overrun, burst>>

DrainStoreFetchAdd ==
    /\ cpc = "store"
    /\ tail' = Succ(tail)
    /\ cpc' = "tail" /\ overrun' = 0
    /\ n' = (n + 1) % Batch
    /\ UNCHANGED <<ProducerVars, ctail, last, spoilt, burst>>

DrainStoreMissing ==
    /\ cpc = "store"
    /\ cpc' = "tail" /\ overrun' = 0
    /\ n' = (n + 1) % Batch
    /\ UNCHANGED <<tail, ProducerVars, ctail, last, spoilt, burst>>

(* A plain store: it does not look whether the producer moved tail.        *)
DrainStore ==
    /\ cpc = "store"
    /\ tail' = Succ(ctail)
    /\ cpc' = "tail" /\ overrun' = 0
    /\ n' = (n + 1) % Batch      \* a full buffer returns, the next block restarts
    /\ UNCHANGED <<ProducerVars, ctail, last, spoilt, burst>>

Drain == DrainLoadTail \/ DrainLoadHead \/ DrainRead \/ DrainStore

Next == Push \/ Drain

Spec == Init /\ [][Next]_vars

(* The graph keeps calling process() (node.always-process), so the drain   *)
(* loop goes on; nothing obliges anybody to push, but a push that has      *)
(* begun ends.                                                             *)
FairSpec == Spec /\ WF_vars(Drain) /\ WF_vars(Finish)
-----------------------------------------------------------------------------
(* The producer writes the slot the consumer is copying only in a burst:   *)
(* the claim of the SAFETY comment on SlotCell, as far as it goes.         *)
NoSlotRace == SlotRace => burst

(* "Keep latest": once the producer rests and the consumer sees an empty   *)
(* ring, the newest message has been delivered, unless it was pushed in a  *)
(* burst and nothing has been pushed since.                                *)
KeepLatest ==
    ppc = "idle" /\ cpc = "tail" /\ tail = head /\ ~burst =>
        last = pushed \/ spoilt = pushed

(* Outside of bursts messages arrive in the order they were pushed, none   *)
(* twice and none that nobody pushed, also after whatever the last burst   *)
(* delivered.                                                              *)
InOrder == [][last' # last /\ ~burst => last < last' /\ last' <= pushed]_vars

(* Whatever was pushed, it or something newer is delivered in the end,     *)
(* unless a burst took it.                                                 *)
EventuallyFresh == \A k \in 1 .. MaxPush : pushed >= k ~> last >= k \/ spoilt >= k

-----------------------------------------------------------------------------
(* The ring implements the mailbox it promises, one that a burst upsets    *)
(* for a while.  The messages in the ring are counted from tail, except    *)
(* that the one under the consumer's hands still belongs to it before the  *)
(* copy and no longer after it.                                            *)
Dist(a, b) == IF a <= b THEN b - a ELSE b + Cap - a

Held ==
    IF cpc \in {"head", "read"} /\ tail # ctail THEN Dist(tail, head) + 1
    ELSE IF cpc = "store" /\ tail = ctail THEN Dist(tail, head) - 1
    ELSE Dist(tail, head)

Mailbox == INSTANCE DropOldest
             WITH Room <- Cap - 1, sent <- pushed, upset <- burst,
                  lo <- IF burst THEN 0 ELSE pushed - Held

(* Every step of the ring is a step of the drop-oldest mailbox or none:    *)
(* after a burst it is a mailbox again, with at most Room of the newest    *)
(* messages in it and all of them newer than what was delivered.           *)
ImplementsMailbox == Mailbox!ASpec
=============================================================================
