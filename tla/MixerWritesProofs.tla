--------------------------- MODULE MixerWritesProofs ---------------------------
(* Proofs about MixerWrites, for any number of gestures and solo changes.     *)
EXTENDS MixerWrites, SequenceTheorems, WellFoundedInduction, TLAPS

\* A request from its note in the authority to its command
Busy == ipc \in {"clear", "patch", "rev", "send"}

Pending == pendLevel \/ pendFull

\* The revs still to be taken for levels that are waiting or being written
Owed ==
    (IF pendLevel THEN 1 ELSE 0) + (IF pendFull THEN 1 ELSE 0)
      + (IF ui \in {"check", "note"} THEN 1 ELSE 0)

\* Every rev is paid for by a gesture: two for one of the window (the drag and
\* its flush), one for a request, one for a solo change
Budget ==
    /\ auth.rev + Owed <= 1 + 2 * (writes - requests) + requests + solos
    /\ writes - requests \in 0 .. MaxUi
    /\ ipc \in {"request", "note"} => requests < MaxIpc

TypeInv == TypeOK /\ Budget

\* The authority has the last gesture, or the window is about to write it there
Owner ==
    /\ auth.val <= writes
    /\ auth.val # writes =>
         /\ ui \in {"check", "note"} /\ auth.origin = "ui" /\ uiVal = writes
         /\ uiPatch = NoVal /\ ~Busy
    /\ ui \in {"check", "note"} => uArg = writes
    /\ ui # "stale"
    /\ Busy => dmVal = writes

\* A level the window has still to send is never an older gesture's
Unsent ==
    /\ ui \in {"check", "note"} /\ Pending => auth.origin = "ui"
    /\ pendLevel /\ auth.origin = "ui" =>
         uiVal = writes /\ uiPatch = NoVal /\ ui # "ack" /\ ~Busy
    /\ pendFull =>
         /\ uiPatch \in {NoVal, writes}
         /\ ui = "ack" \/ auth.origin = "ui" => uiVal = writes

\* The window shows the last gesture, or a patch will bring it
Shown ==
    /\ uiVal = writes \/ uiPatch = writes \/ ipc \in {"clear", "patch"}
    /\ uiPatch \in {NoVal, writes} \/ ipc \in {"clear", "patch"}

\* A level that may still be sent, applied or compared with another
InFlight(l) ==
    \/ \E i \in DOMAIN chan : chan[i] = l
    \/ ui \in {"patch", "send"} /\ l = [val |-> uArg, rev |-> uRev]
    \/ ipc = "send" /\ l = [val |-> dmVal, rev |-> iRev]
    \/ l = [val |-> engVal, rev |-> applied]
    \/ l = [val |-> auth.val, rev |-> auth.rev]

\* Among those a newer rev never has an older gesture, and the authority's is
\* the newest
Ordered ==
    /\ \A l, m \in Levels :
         InFlight(l) /\ InFlight(m) /\ l.rev <= m.rev => l.val <= m.val
    /\ \A l \in Levels : InFlight(l) => l.rev <= auth.rev

\* Somebody has the last gesture in hand until the engine has it
Carried ==
    \/ engVal = writes
    \/ \E i \in DOMAIN chan : chan[i].val = writes
    \/ ui \in {"check", "note"}
    \/ ui \in {"patch", "send"} /\ uArg = writes
    \/ pendLevel /\ auth.origin = "ui"
    \/ Busy

\* The inductive invariant; after a clash the two hands' levels may be mixed up
FaderInv ==
    TypeInv /\ (~clash => Owner /\ Unsent /\ Shown /\ Ordered /\ Carried)

\* Of any set of naturals there is a least one; the library states it by way of
\* well-founded relations.
LEMMA LeastOfNaturals ==
    ASSUME NEW T \in SUBSET Nat, T # {}
    PROVE  \E x \in T : \A y \in T : x <= y
<1> DEFINE less == OpToRel(<, Nat)
<1>1. \E x \in T : \A y \in T : ~ (<<y, x>> \in less)
  <2>1. IsWellFoundedOn(less, Nat)
    BY NatLessThanWellFounded
  <2> HIDE DEF less
  <2> QED BY <2>1, WFMin
<1>2. PICK x \in T : \A y \in T : ~ (<<y, x>> \in less)
  BY <1>1
<1>3. \A y \in T : ~ (y < x)
  BY <1>2 DEF OpToRel
<1> QED BY <1>3

\* coalesce_commands has a winner in every batch: the level with the newest rev.
LEMMA WinnerIsNewest ==
    ASSUME BoundsAssumption, NEW batch \in Seq(Levels), batch # <<>>
    PROVE  /\ Winner(batch) \in DOMAIN batch
           /\ \A j \in DOMAIN batch : batch[j].rev <= batch[Winner(batch)].rev
<1> DEFINE D == DOMAIN batch
           Older(i) == MaxRev - batch[i].rev
           Wins(i) == i \in D /\ \A j \in D :
                 batch[j].rev < batch[i].rev \/ (batch[j].rev = batch[i].rev /\ j <= i)
<1>1. /\ D = 1 .. Len(batch) /\ Len(batch) \in Nat /\ Len(batch) >= 1
      /\ MaxRev \in Nat
      /\ \A i \in D : batch[i].rev \in 0 .. MaxRev
  <2>1. MaxRev \in Nat
    BY DEF MaxRev, BoundsAssumption
  <2>2. D = 1 .. Len(batch) /\ Len(batch) \in Nat /\ Len(batch) >= 1
    BY LenProperties, EmptySeq
  <2>3. \A i \in D : batch[i] \in Levels
    BY ElementOfSeq, <2>2
  <2> QED BY <2>1, <2>2, <2>3 DEF Levels
<1> HIDE DEF D
<1>2. PICK a \in D : \A j \in D : Older(a) <= Older(j)
  <2> DEFINE T == {Older(i) : i \in D}
  <2>1. T \in SUBSET Nat /\ T # {}
    <3>1. \A i \in D : Older(i) \in Nat
      BY <1>1
    <3>2. 1 \in D
      BY <1>1
    <3> QED BY <3>1, <3>2
  <2>2. PICK x \in T : \A y \in T : x <= y
    BY <2>1, LeastOfNaturals
  <2> QED BY <2>2
<1>3. \A j \in D : batch[j].rev <= batch[a].rev
  BY <1>1, <1>2
<1>4. PICK b \in D : /\ batch[b].rev = batch[a].rev
                     /\ \A j \in D : batch[j].rev = batch[a].rev => j <= b
  <2> DEFINE T == {Len(batch) - i : i \in {j \in D : batch[j].rev = batch[a].rev}}
  <2>1. T \in SUBSET Nat /\ T # {}
    BY <1>1, <1>2
  <2>2. PICK x \in T : \A y \in T : x <= y
    BY <2>1, LeastOfNaturals
  <2>3. PICK i \in {j \in D : batch[j].rev = batch[a].rev} : x = Len(batch) - i
    BY <2>2
  <2>4. \A j \in D : batch[j].rev = batch[a].rev => Len(batch) - i <= Len(batch) - j
    BY <2>2, <2>3
  <2> QED BY <1>1, <2>3, <2>4
<1>5. Wins(b)
  BY <1>1, <1>3, <1>4
<1>6. Winner(batch) \in D /\ \A j \in D :
        batch[j].rev < batch[Winner(batch)].rev
          \/ (batch[j].rev = batch[Winner(batch)].rev /\ j <= Winner(batch))
  BY <1>5 DEF Winner, D
<1> QED BY <1>1, <1>6 DEF D

-----------------------------------------------------------------------------

\* What a batch of the lane does: it takes the first n commands, applies the one
\* of them with the newest rev unless it is older than what the engine has, and
\* leaves the others in their order.
LEMMA LaneTakes ==
    ASSUME chan \in Seq(Levels), applied \in 0 .. MaxRev, engVal \in Vals, LaneBatch
    PROVE  /\ chan' \in Seq(Levels)
           /\ applied' \in 0 .. MaxRev /\ engVal' \in Vals
           /\ \E n, k \in DOMAIN chan :
                /\ k <= n /\ \A j \in 1 .. n : chan[j].rev <= chan[k].rev
                /\ IF chan[k].rev >= applied
                     THEN applied' = chan[k].rev /\ engVal' = chan[k].val
                     ELSE UNCHANGED <<applied, engVal>>
                /\ \A i \in DOMAIN chan' : i + n \in DOMAIN chan /\ chan'[i] = chan[i + n]
                /\ \A i \in DOMAIN chan : i > n => i - n \in DOMAIN chan'
<1>1. PICK n \in DOMAIN chan :
        LET batch == SubSeq(chan, 1, n)
            level == batch[Winner(batch)]
        IN  /\ chan' = SubSeq(chan, n + 1, Len(chan))
            /\ IF level.rev >= applied
                 THEN applied' = level.rev /\ engVal' = level.val
                 ELSE UNCHANGED <<applied, engVal>>
  BY DEF LaneBatch, Accepts, laneVars
<1> DEFINE batch == SubSeq(chan, 1, n)
           k == Winner(batch)
<1>2. /\ DOMAIN chan = 1 .. Len(chan) /\ Len(chan) \in Nat
      /\ n \in 1 .. Len(chan)
      /\ \A i \in DOMAIN chan : chan[i] \in Levels
  BY LenProperties, ElementOfSeq
<1>3. /\ batch \in Seq(Levels) /\ Len(batch) = n /\ DOMAIN batch = 1 .. n
      /\ \A i \in 1 .. n : batch[i] = chan[i]
  BY <1>2, SubSeqProperties
<1>4. batch # <<>>
  BY <1>2, <1>3, EmptySeq
<1>5. k \in 1 .. n /\ \A j \in 1 .. n : batch[j].rev <= batch[k].rev
  BY <1>3, <1>4, BoundsAssumption, WinnerIsNewest
<1> HIDE DEF k
<1>6. /\ k \in DOMAIN chan /\ batch[k] = chan[k]
      /\ \A j \in 1 .. n : chan[j].rev <= chan[k].rev
  BY <1>2, <1>3, <1>5
<1>7. IF chan[k].rev >= applied
        THEN applied' = chan[k].rev /\ engVal' = chan[k].val
        ELSE UNCHANGED <<applied, engVal>>
  <2>1. LET level == batch[k]
        IN  IF level.rev >= applied
              THEN applied' = level.rev /\ engVal' = level.val
              ELSE UNCHANGED <<applied, engVal>>
    BY <1>1 DEF k
  <2> QED BY <2>1, <1>6
<1>8. applied' \in 0 .. MaxRev /\ engVal' \in Vals
  <2>1. chan[k].rev \in 0 .. MaxRev /\ chan[k].val \in Vals
    BY <1>2, <1>6 DEF Levels
  <2> QED BY <1>7, <2>1
<1>9. /\ chan' \in Seq(Levels) /\ Len(chan') = Len(chan) - n
      /\ DOMAIN chan' = 1 .. Len(chan')
      /\ \A i \in 1 .. Len(chan') : chan'[i] = chan[i + n]
  <2>1. chan' = SubSeq(chan, n + 1, Len(chan))
    BY <1>1
  <2>2. n + 1 \in 1 .. Len(chan) + 1 /\ Len(chan) \in n .. Len(chan)
    BY <1>2
  <2> QED BY <1>2, <2>1, <2>2, SubSeqProperties
<1>10. \A i \in DOMAIN chan' : i + n \in DOMAIN chan /\ chan'[i] = chan[i + n]
  BY <1>2, <1>9
<1>11. \A i \in DOMAIN chan : i > n => i - n \in DOMAIN chan'
  BY <1>2, <1>9
<1>12. /\ k <= n /\ \A j \in 1 .. n : chan[j].rev <= chan[k].rev
       /\ IF chan[k].rev >= applied
            THEN applied' = chan[k].rev /\ engVal' = chan[k].val
            ELSE UNCHANGED <<applied, engVal>>
       /\ \A i \in DOMAIN chan' : i + n \in DOMAIN chan /\ chan'[i] = chan[i + n]
       /\ \A i \in DOMAIN chan : i > n => i - n \in DOMAIN chan'
  BY <1>2, <1>5, <1>6, <1>7, <1>10, <1>11
<1> QED BY <1>6, <1>8, <1>9, <1>12

\* Every step keeps the types and the bounds of the revisions.
LEMMA TypeStep == TypeInv /\ [Next]_vars => TypeInv'
<1> SUFFICES ASSUME TypeInv, [Next]_vars PROVE TypeInv'
  OBVIOUS
<1>0. /\ auth.val \in Vals /\ auth.rev \in 1 .. MaxRev /\ uiVal \in Vals
      /\ MaxRev \in Nat
  BY BoundsAssumption DEF TypeInv, TypeOK, MaxRev
<1>a. UiAcknowledge => auth' = [val |-> auth.val, rev |-> auth.rev, origin |-> "ui"]
  BY DEF UiAcknowledge, TypeInv, TypeOK
<1>b. UiAcknowledge =>
        /\ auth'.rev = auth.rev /\ ui' = "flush" /\ pendLevel' = FALSE
        /\ UNCHANGED <<pendFull, writes, requests, solos, ipc>>
  BY <1>a DEF UiAcknowledge, ipcVars
<1> USE BoundsAssumption DEF TypeInv, TypeOK, Budget, Owed, Vals, NoVal, uiVars, ipcVars, laneVars
<1>1. ASSUME UiDrag PROVE TypeInv'
  BY <1>1 DEF UiDrag, Noted, MaxRev
<1>2. ASSUME UiLamp PROVE TypeInv'
  BY <1>2 DEF UiLamp
<1>3. ASSUME UiSolo PROVE TypeInv'
  BY <1>3 DEF UiSolo
<1>4. ASSUME UiFlush PROVE TypeInv'
  <2>1. uArg' \in Vals
    BY <1>0, <1>4 DEF UiFlush, ExternalOr
  <2>2. Budget'
    BY <1>4 DEF UiFlush
  <2>3. TypeOK'
    BY <1>4, <2>1 DEF UiFlush
  <2> QED BY <2>2, <2>3
<1>5. ASSUME UiOverlay PROVE TypeInv'
  BY <1>5 DEF UiOverlay
<1>6. ASSUME UiAdopt PROVE TypeInv'
  <2>1. Budget'
    BY <1>6 DEF UiAdopt
  <2>2. TypeOK'
    BY <1>6 DEF UiAdopt
  <2> QED BY <2>1, <2>2
<1>7. ASSUME UiAcknowledge PROVE TypeInv'
  <2>1. auth' = [val |-> auth.val, rev |-> auth.rev, origin |-> "ui"]
    BY <1>a, <1>7
  <2>2. Budget'
    BY <1>0, <1>b, <1>7
  <2>3. TypeOK'
    BY <1>7, <2>1 DEF UiAcknowledge
  <2> QED BY <2>2, <2>3
<1>8. ASSUME UiHold PROVE TypeInv'
  BY <1>8 DEF UiHold
<1>9. ASSUME UiCheck PROVE TypeInv'
  BY <1>9 DEF UiCheck
<1>10. ASSUME UiStaleRev PROVE TypeInv'
  BY <1>10 DEF UiStaleRev
<1>11. ASSUME UiNote PROVE TypeInv'
  BY <1>11 DEF UiNote, Noted, MaxRev
<1>12. ASSUME UiPatchDaemon PROVE TypeInv'
  BY <1>12 DEF UiPatchDaemon
<1>13. ASSUME UiSend PROVE TypeInv'
  <2>1. [val |-> uArg, rev |-> uRev] \in Levels
    BY DEF Levels
  <2>2. chan' \in Seq(Levels)
    BY <1>13, <2>1, AppendProperties DEF UiSend
  <2> QED BY <1>13, <2>2 DEF UiSend, MaxRev
<1>14. ASSUME IpcTake PROVE TypeInv'
  BY <1>14 DEF IpcTake
<1>15. ASSUME IpcOverlay PROVE TypeInv'
  BY <1>15 DEF IpcOverlay
<1>16. ASSUME IpcNote PROVE TypeInv'
  <2>1. Budget'
    BY <1>16 DEF IpcNote, Noted, MaxRev
  <2>2. TypeOK'
    BY <1>16 DEF IpcNote, Noted, MaxRev
  <2> QED BY <2>1, <2>2
<1>17. ASSUME IpcClear PROVE TypeInv'
  BY <1>17 DEF IpcClear
<1>18. ASSUME IpcPatch PROVE TypeInv'
  BY <1>18 DEF IpcPatch
<1>19. ASSUME IpcRev PROVE TypeInv'
  BY <1>19 DEF IpcRev
<1>20. ASSUME IpcSend PROVE TypeInv'
  <2>1. [val |-> dmVal, rev |-> iRev] \in Levels
    BY DEF Levels
  <2>2. chan' \in Seq(Levels)
    BY <1>20, <2>1, AppendProperties DEF IpcSend
  <2> QED BY <1>20, <2>2 DEF IpcSend, MaxRev
<1>21. ASSUME LaneBatch PROVE TypeInv'
  <2>1. chan' \in Seq(Levels) /\ applied' \in 0 .. MaxRev /\ engVal' \in Vals
    BY <1>21, LaneTakes DEF Levels
  <2> QED BY <1>21, <2>1 DEF LaneBatch
<1>22. ASSUME UNCHANGED vars PROVE TypeInv'
  BY <1>22 DEF vars
<1>23. Ui => TypeInv'
  BY <1>1, <1>2, <1>3, <1>4, <1>5, <1>6, <1>7, <1>8, <1>9, <1>10, <1>11, <1>12, <1>13 DEF Ui, UiRest
<1>24. Ipc => TypeInv'
  BY <1>14, <1>15, <1>16, <1>17, <1>18, <1>19, <1>20 DEF Ipc
<1> QED BY <1>21, <1>22, <1>23, <1>24 DEF Next

\* FaderInv holds at first: everybody has gesture 0.
LEMMA FaderInit == Init => FaderInv
<1> SUFFICES ASSUME Init PROVE FaderInv
  OBVIOUS
<1> USE BoundsAssumption DEF Init
<1>1. TypeInv
  <2>1. chan \in Seq(Levels)
    BY EmptySeq
  <2>2. auth \in [val : Vals, rev : 1 .. MaxRev, origin : {"ui", "external"}]
    BY DEF Vals, MaxRev
  <2>3. TypeOK
    <3>1. MaxRev \in Nat
      BY DEF MaxRev
    <3>2. 0 \in Vals
      BY DEF Vals
    <3>3. /\ uiPatch \in Vals \cup {NoVal} /\ dmPatch \in Vals \cup {NoVal}
          /\ uiVal \in Vals /\ dmVal \in Vals /\ uArg \in Vals /\ engVal \in Vals /\ writes \in Vals
      BY <3>2
    <3>4. /\ uRev \in 0 .. MaxRev /\ iRev \in 0 .. MaxRev /\ applied \in 0 .. MaxRev
          /\ requests \in 0 .. MaxIpc /\ solos \in 0 .. MaxSolo
      BY <3>1
    <3>5. pendLevel \in BOOLEAN /\ pendFull \in BOOLEAN /\ clash \in BOOLEAN
      OBVIOUS
    <3>6. /\ ui \in {"idle", "take", "ack", "flush", "check", "stale", "note", "patch", "send"}
          /\ ipc \in {"idle", "poll", "request", "note", "clear", "patch", "rev", "send"}
      OBVIOUS
    <3> QED BY <2>1, <2>2, <3>3, <3>4, <3>5, <3>6 DEF TypeOK
  <2>4. Budget
    BY DEF Budget, Owed
  <2> QED BY <2>3, <2>4 DEF TypeInv
<1>2. Owner /\ Unsent /\ Shown /\ Carried
  BY DEF Owner, Unsent, Shown, Carried, Pending, Busy
<1>3. Ordered
  BY DEF Ordered, InFlight, Levels, Vals, MaxRev
<1> QED BY <1>1, <1>2, <1>3 DEF FaderInv

\* A step that brings nothing new among the levels in flight but a rev of the
\* authority for the gesture it had or a newer one keeps them in order.
LEMMA StaysOrdered ==
    ASSUME TypeOK, TypeOK', Ordered,
           \A l \in Levels : InFlight(l)' => InFlight(l) \/ l = [val |-> auth'.val, rev |-> auth'.rev],
           \/ auth'.val = auth.val /\ auth'.rev = auth.rev
           \/ auth'.val >= auth.val /\ auth'.rev = auth.rev + 1
    PROVE  Ordered'
<1> DEFINE now == [val |-> auth.val, rev |-> auth.rev]
           new == [val |-> auth'.val, rev |-> auth'.rev]
<1>0. auth.val \in Vals /\ auth.rev \in 1 .. MaxRev /\ auth'.val \in Vals /\ auth'.rev \in 1 .. MaxRev
  BY DEF TypeOK
<1>1. /\ now \in Levels /\ new \in Levels /\ InFlight(now)
      /\ now.val = auth.val /\ now.rev = auth.rev
      /\ new.val = auth'.val /\ new.rev = auth'.rev
      /\ auth.val \in Int /\ auth'.val \in Int /\ auth.rev \in Int /\ auth'.rev \in Int
      /\ \A l \in Levels : l.val \in Int /\ l.rev \in Int
  <2>1. now \in Levels /\ new \in Levels
    BY <1>0, BoundsAssumption DEF Levels, MaxRev
  <2>2. InFlight(now)
    BY DEF InFlight
  <2>3. \A l \in Levels : l.val \in Int /\ l.rev \in Int
    BY BoundsAssumption DEF Levels, Vals, MaxRev
  <2> QED BY <1>0, <2>1, <2>2, <2>3, BoundsAssumption DEF Vals, MaxRev
<1> HIDE DEF now, new
<1>2. \A l \in Levels : InFlight(l)' => InFlight(l) \/ l = new
  BY DEF new
<1>3. \A l \in Levels : InFlight(l) => l.rev <= now.rev /\ l.val <= now.val
  BY <1>1 DEF Ordered
<1>4. ASSUME NEW l \in Levels, InFlight(l)'
      PROVE  l.rev <= auth'.rev
  BY <1>1, <1>2, <1>3, <1>4
<1>5. ASSUME NEW l \in Levels, NEW m \in Levels, InFlight(l)', InFlight(m)', l.rev <= m.rev
      PROVE  l.val <= m.val
  BY <1>1, <1>2, <1>3, <1>5 DEF Ordered
<1> QED BY <1>4, <1>5 DEF Ordered

\* Every step keeps FaderInv; a step that is a clash has nothing more to show.
LEMMA FaderStep == FaderInv /\ [Next]_vars => FaderInv'
<1> SUFFICES ASSUME FaderInv, [Next]_vars PROVE FaderInv'
  OBVIOUS
<1> DEFINE Fader == Owner /\ Unsent /\ Shown /\ Ordered /\ Carried
<1>1. TypeInv /\ TypeInv' /\ TypeOK /\ TypeOK'
  BY TypeStep DEF FaderInv, TypeInv
<1>2. clash' \/ ~clash
  BY DEF Next, Ui, UiRest, Ipc, LaneBatch, vars, UiDrag, UiLamp, UiSolo, UiFlush,
          UiOverlay, UiAdopt, UiAcknowledge, UiHold, UiCheck, UiStaleRev, UiNote,
          UiPatchDaemon, UiSend, IpcTake, IpcOverlay, IpcNote, IpcClear, IpcPatch,
          IpcRev, IpcSend
<1> SUFFICES ASSUME ~clash' PROVE Fader'
  BY <1>1 DEF FaderInv
<1>3. Owner /\ Unsent /\ Shown /\ Ordered /\ Carried
  BY <1>2 DEF FaderInv
<1>t. /\ auth.val \in Int /\ auth.rev \in Int /\ auth.origin \in {"ui", "external"}
      /\ writes \in Int /\ uArg \in Int /\ uiVal \in Int
  BY <1>1, BoundsAssumption DEF TypeOK, Vals, MaxRev
<1> USE <1>1, <1>3, <1>t DEF uiVars, ipcVars, laneVars
<1>4. ASSUME UiDrag PROVE Fader'
  <2>1. Owner'
    <3>1. auth'.val <= writes'
      BY <1>4 DEF UiDrag, Noted, Owner
    <3> QED BY <3>1, <1>4 DEF UiDrag, Noted, Owner, Busy, Unadopted
  <2>2. Unsent'
    BY <1>4 DEF UiDrag, Noted, Owner, Unsent, Shown, Pending, Busy, Unadopted
  <2>3. Shown'
    BY <1>4 DEF UiDrag, Noted, Owner, Shown, Busy, Unadopted
  <2>4. Carried'
    BY <1>4 DEF UiDrag, Noted, Owner, Unsent, Carried, Pending, Busy, Unadopted
  <2>5. Ordered'
    <3>1. \A l \in Levels : InFlight(l)' => InFlight(l) \/ l = [val |-> auth'.val, rev |-> auth'.rev]
      BY <1>4 DEF UiDrag, Noted, Owner, Busy, InFlight
    <3>2. \/ auth'.val = auth.val /\ auth'.rev = auth.rev
          \/ auth'.val >= auth.val /\ auth'.rev = auth.rev + 1
      BY <1>4 DEF UiDrag, Noted, Owner
    <3> QED BY <3>1, <3>2, StaysOrdered
  <2> QED BY <2>1, <2>2, <2>3, <2>4, <2>5
<1>5. ASSUME UiLamp PROVE Fader'
  <2>1. Owner'
    <3>1. auth'.val <= writes'
      BY <1>5 DEF UiLamp, Owner
    <3> QED BY <3>1, <1>5 DEF UiLamp, Owner, Busy, Unadopted
  <2>2. Unsent'
    BY <1>5 DEF UiLamp, Owner, Unsent, Shown, Pending, Busy, Unadopted
  <2>3. Shown'
    BY <1>5 DEF UiLamp, Owner, Shown, Busy, Unadopted
  <2>4. Carried'
    BY <1>5 DEF UiLamp, Owner, Unsent, Carried, Pending, Busy, Unadopted
  <2>5. Ordered'
    <3>1. \A l \in Levels : InFlight(l)' => InFlight(l) \/ l = [val |-> auth'.val, rev |-> auth'.rev]
      BY <1>5 DEF UiLamp, Owner, Busy, InFlight
    <3>2. \/ auth'.val = auth.val /\ auth'.rev = auth.rev
          \/ auth'.val >= auth.val /\ auth'.rev = auth.rev + 1
      BY <1>5 DEF UiLamp, Owner
    <3> QED BY <3>1, <3>2, StaysOrdered
  <2> QED BY <2>1, <2>2, <2>3, <2>4, <2>5
<1>6. ASSUME UiSolo PROVE Fader'
  <2>1. Owner'
    BY <1>6 DEF UiSolo, Owner, Busy, Behind
  <2>2. Unsent'
    BY <1>6 DEF UiSolo, Owner, Unsent, Shown, Pending, Busy, Behind
  <2>3. Shown'
    BY <1>6 DEF UiSolo, Owner, Shown, Busy, Behind
  <2>4. Carried'
    BY <1>6 DEF UiSolo, Owner, Unsent, Carried, Pending, Busy, Behind
  <2>5. Ordered'
    <3>1. \A l \in Levels : InFlight(l)' => InFlight(l) \/ l = [val |-> auth'.val, rev |-> auth'.rev]
      BY <1>6 DEF UiSolo, Owner, Busy, InFlight
    <3>2. \/ auth'.val = auth.val /\ auth'.rev = auth.rev
          \/ auth'.val >= auth.val /\ auth'.rev = auth.rev + 1
      BY <1>6 DEF UiSolo, Owner
    <3> QED BY <3>1, <3>2, StaysOrdered
  <2> QED BY <2>1, <2>2, <2>3, <2>4, <2>5
<1>7. ASSUME UiFlush PROVE Fader'
  <2>1. Owner'
    BY <1>7 DEF UiFlush, ExternalOr, Owner, Busy, Unsent, Pending
  <2>2. Unsent'
    BY <1>7 DEF UiFlush, ExternalOr, Owner, Unsent, Shown, Pending, Busy
  <2>3. Shown'
    BY <1>7 DEF UiFlush, ExternalOr, Owner, Shown, Busy
  <2>4. Carried'
    BY <1>7 DEF UiFlush, ExternalOr, Owner, Unsent, Carried, Pending, Busy
  <2>5. Ordered'
    <3>1. \A l \in Levels : InFlight(l)' => InFlight(l) \/ l = [val |-> auth'.val, rev |-> auth'.rev]
      BY <1>7 DEF UiFlush, ExternalOr, Owner, Busy, InFlight
    <3>2. \/ auth'.val = auth.val /\ auth'.rev = auth.rev
          \/ auth'.val >= auth.val /\ auth'.rev = auth.rev + 1
      BY <1>7 DEF UiFlush, ExternalOr, Owner
    <3> QED BY <3>1, <3>2, StaysOrdered
  <2> QED BY <2>1, <2>2, <2>3, <2>4, <2>5
<1>8. ASSUME UiOverlay PROVE Fader'
  <2>1. Owner'
    BY <1>8 DEF UiOverlay, Owner, Busy
  <2>2. Unsent'
    BY <1>8 DEF UiOverlay, Owner, Unsent, Shown, Pending, Busy
  <2>3. Shown'
    BY <1>8 DEF UiOverlay, Owner, Shown, Busy
  <2>4. Carried'
    BY <1>8 DEF UiOverlay, Owner, Unsent, Carried, Pending, Busy
  <2>5. Ordered'
    <3>1. \A l \in Levels : InFlight(l)' => InFlight(l) \/ l = [val |-> auth'.val, rev |-> auth'.rev]
      BY <1>8 DEF UiOverlay, Owner, Busy, InFlight
    <3>2. \/ auth'.val = auth.val /\ auth'.rev = auth.rev
          \/ auth'.val >= auth.val /\ auth'.rev = auth.rev + 1
      BY <1>8 DEF UiOverlay, Owner
    <3> QED BY <3>1, <3>2, StaysOrdered
  <2> QED BY <2>1, <2>2, <2>3, <2>4, <2>5
<1>9. ASSUME UiAdopt PROVE Fader'
  <2>1. Owner'
    BY <1>9 DEF UiAdopt, Owner, Busy
  <2>2. Unsent'
    BY <1>9 DEF UiAdopt, Owner, Unsent, Shown, Pending, Busy
  <2>3. Shown'
    BY <1>9 DEF UiAdopt, Owner, Shown, Busy
  <2>4. Carried'
    BY <1>9 DEF UiAdopt, Owner, Unsent, Carried, Pending, Busy
  <2>5. Ordered'
    <3>1. \A l \in Levels : InFlight(l)' => InFlight(l) \/ l = [val |-> auth'.val, rev |-> auth'.rev]
      BY <1>9 DEF UiAdopt, Owner, Busy, InFlight
    <3>2. \/ auth'.val = auth.val /\ auth'.rev = auth.rev
          \/ auth'.val >= auth.val /\ auth'.rev = auth.rev + 1
      BY <1>9 DEF UiAdopt, Owner
    <3> QED BY <3>1, <3>2, StaysOrdered
  <2> QED BY <2>1, <2>2, <2>3, <2>4, <2>5
<1>10. ASSUME UiAcknowledge PROVE Fader'
  <2>1. Owner'
    BY <1>10 DEF UiAcknowledge, Owner, Busy
  <2>2. Unsent'
    BY <1>10 DEF UiAcknowledge, Owner, Unsent, Shown, Pending, Busy
  <2>3. Shown'
    BY <1>10 DEF UiAcknowledge, Owner, Shown, Busy
  <2>4. Carried'
    BY <1>10 DEF UiAcknowledge, Owner, Unsent, Carried, Pending, Busy
  <2>5. Ordered'
    <3>1. \A l \in Levels : InFlight(l)' => InFlight(l) \/ l = [val |-> auth'.val, rev |-> auth'.rev]
      BY <1>10 DEF UiAcknowledge, Owner, Busy, InFlight
    <3>2. \/ auth'.val = auth.val /\ auth'.rev = auth.rev
          \/ auth'.val >= auth.val /\ auth'.rev = auth.rev + 1
      BY <1>10 DEF UiAcknowledge, Owner
    <3> QED BY <3>1, <3>2, StaysOrdered
  <2> QED BY <2>1, <2>2, <2>3, <2>4, <2>5
<1>11. ASSUME UiHold PROVE Fader'
  <2>1. Owner'
    BY <1>11 DEF UiHold, Owner, Busy
  <2>2. Unsent'
    BY <1>11 DEF UiHold, Owner, Unsent, Shown, Pending, Busy
  <2>3. Shown'
    BY <1>11 DEF UiHold, Owner, Shown, Busy
  <2>4. Carried'
    BY <1>11 DEF UiHold, Owner, Unsent, Carried, Pending, Busy
  <2>5. Ordered'
    <3>1. \A l \in Levels : InFlight(l)' => InFlight(l) \/ l = [val |-> auth'.val, rev |-> auth'.rev]
      BY <1>11 DEF UiHold, Owner, Busy, InFlight
    <3>2. \/ auth'.val = auth.val /\ auth'.rev = auth.rev
          \/ auth'.val >= auth.val /\ auth'.rev = auth.rev + 1
      BY <1>11 DEF UiHold, Owner
    <3> QED BY <3>1, <3>2, StaysOrdered
  <2> QED BY <2>1, <2>2, <2>3, <2>4, <2>5
<1>12. ASSUME UiCheck PROVE Fader'
  <2>1. Owner'
    BY <1>12 DEF UiCheck, Owner, Busy
  <2>2. Unsent'
    BY <1>12 DEF UiCheck, Owner, Unsent, Shown, Pending, Busy
  <2>3. Shown'
    BY <1>12 DEF UiCheck, Owner, Shown, Busy
  <2>4. Carried'
    BY <1>12 DEF UiCheck, Owner, Unsent, Carried, Pending, Busy
  <2>5. Ordered'
    <3>1. \A l \in Levels : InFlight(l)' => InFlight(l) \/ l = [val |-> auth'.val, rev |-> auth'.rev]
      BY <1>12 DEF UiCheck, Owner, Busy, InFlight
    <3>2. \/ auth'.val = auth.val /\ auth'.rev = auth.rev
          \/ auth'.val >= auth.val /\ auth'.rev = auth.rev + 1
      BY <1>12 DEF UiCheck, Owner
    <3> QED BY <3>1, <3>2, StaysOrdered
  <2> QED BY <2>1, <2>2, <2>3, <2>4, <2>5
<1>13. ASSUME UiStaleRev PROVE Fader'
  <2>1. Owner'
    BY <1>13 DEF UiStaleRev, Owner, Busy
  <2>2. Unsent'
    BY <1>13 DEF UiStaleRev, Owner, Unsent, Shown, Pending, Busy
  <2>3. Shown'
    BY <1>13 DEF UiStaleRev, Owner, Shown, Busy
  <2>4. Carried'
    BY <1>13 DEF UiStaleRev, Owner, Unsent, Carried, Pending, Busy
  <2>5. Ordered'
    <3>1. \A l \in Levels : InFlight(l)' => InFlight(l) \/ l = [val |-> auth'.val, rev |-> auth'.rev]
      BY <1>13 DEF UiStaleRev, Owner, Busy, InFlight
    <3>2. \/ auth'.val = auth.val /\ auth'.rev = auth.rev
          \/ auth'.val >= auth.val /\ auth'.rev = auth.rev + 1
      BY <1>13 DEF UiStaleRev, Owner
    <3> QED BY <3>1, <3>2, StaysOrdered
  <2> QED BY <2>1, <2>2, <2>3, <2>4, <2>5
<1>14. ASSUME UiNote PROVE Fader'
  <2>1. Owner'
    BY <1>14 DEF UiNote, Noted, Owner, Busy, Unsent, Pending
  <2>2. Unsent'
    BY <1>14 DEF UiNote, Noted, Owner, Unsent, Shown, Pending, Busy
  <2>3. Shown'
    BY <1>14 DEF UiNote, Noted, Owner, Shown, Busy
  <2>4. Carried'
    BY <1>14 DEF UiNote, Noted, Owner, Unsent, Carried, Pending, Busy
  <2>5. Ordered'
    <3>1. \A l \in Levels : InFlight(l)' => InFlight(l) \/ l = [val |-> auth'.val, rev |-> auth'.rev]
      BY <1>14 DEF UiNote, Noted, Owner, Busy, InFlight
    <3>2. \/ auth'.val = auth.val /\ auth'.rev = auth.rev
          \/ auth'.val >= auth.val /\ auth'.rev = auth.rev + 1
      BY <1>14 DEF UiNote, Noted, Owner
    <3> QED BY <3>1, <3>2, StaysOrdered
  <2> QED BY <2>1, <2>2, <2>3, <2>4, <2>5
<1>15. ASSUME UiPatchDaemon PROVE Fader'
  <2>1. Owner'
    BY <1>15 DEF UiPatchDaemon, Owner, Busy
  <2>2. Unsent'
    BY <1>15 DEF UiPatchDaemon, Owner, Unsent, Shown, Pending, Busy
  <2>3. Shown'
    BY <1>15 DEF UiPatchDaemon, Owner, Shown, Busy
  <2>4. Carried'
    BY <1>15 DEF UiPatchDaemon, Owner, Unsent, Carried, Pending, Busy
  <2>5. Ordered'
    <3>1. \A l \in Levels : InFlight(l)' => InFlight(l) \/ l = [val |-> auth'.val, rev |-> auth'.rev]
      BY <1>15 DEF UiPatchDaemon, Owner, Busy, InFlight
    <3>2. \/ auth'.val = auth.val /\ auth'.rev = auth.rev
          \/ auth'.val >= auth.val /\ auth'.rev = auth.rev + 1
      BY <1>15 DEF UiPatchDaemon, Owner
    <3> QED BY <3>1, <3>2, StaysOrdered
  <2> QED BY <2>1, <2>2, <2>3, <2>4, <2>5
<1>16. ASSUME UiSend PROVE Fader'
  <2>1. Owner'
    BY <1>16 DEF UiSend, Owner, Busy
  <2>2. Unsent'
    BY <1>16 DEF UiSend, Owner, Unsent, Shown, Pending, Busy
  <2>3. Shown'
    BY <1>16 DEF UiSend, Owner, Shown, Busy
  <2>4. Carried'
    BY <1>16 DEF UiSend, Owner, Unsent, Carried, Pending, Busy
  <2>5. Ordered'
    <3>1. \A l \in Levels : InFlight(l)' => InFlight(l) \/ l = [val |-> auth'.val, rev |-> auth'.rev]
      BY <1>16 DEF UiSend, Owner, Busy, InFlight
    <3>2. \/ auth'.val = auth.val /\ auth'.rev = auth.rev
          \/ auth'.val >= auth.val /\ auth'.rev = auth.rev + 1
      BY <1>16 DEF UiSend, Owner
    <3> QED BY <3>1, <3>2, StaysOrdered
  <2> QED BY <2>1, <2>2, <2>3, <2>4, <2>5
<1>17. ASSUME IpcTake PROVE Fader'
  <2>1. Owner'
    BY <1>17 DEF IpcTake, Owner, Busy
  <2>2. Unsent'
    BY <1>17 DEF IpcTake, Owner, Unsent, Shown, Pending, Busy
  <2>3. Shown'
    BY <1>17 DEF IpcTake, Owner, Shown, Busy
  <2>4. Carried'
    BY <1>17 DEF IpcTake, Owner, Unsent, Carried, Pending, Busy
  <2>5. Ordered'
    <3>1. \A l \in Levels : InFlight(l)' => InFlight(l) \/ l = [val |-> auth'.val, rev |-> auth'.rev]
      BY <1>17 DEF IpcTake, Owner, Busy, InFlight
    <3>2. \/ auth'.val = auth.val /\ auth'.rev = auth.rev
          \/ auth'.val >= auth.val /\ auth'.rev = auth.rev + 1
      BY <1>17 DEF IpcTake, Owner
    <3> QED BY <3>1, <3>2, StaysOrdered
  <2> QED BY <2>1, <2>2, <2>3, <2>4, <2>5
<1>18. ASSUME IpcOverlay PROVE Fader'
  <2>1. Owner'
    BY <1>18 DEF IpcOverlay, Owner, Busy
  <2>2. Unsent'
    BY <1>18 DEF IpcOverlay, Owner, Unsent, Shown, Pending, Busy
  <2>3. Shown'
    BY <1>18 DEF IpcOverlay, Owner, Shown, Busy
  <2>4. Carried'
    BY <1>18 DEF IpcOverlay, Owner, Unsent, Carried, Pending, Busy
  <2>5. Ordered'
    <3>1. \A l \in Levels : InFlight(l)' => InFlight(l) \/ l = [val |-> auth'.val, rev |-> auth'.rev]
      BY <1>18 DEF IpcOverlay, Owner, Busy, InFlight
    <3>2. \/ auth'.val = auth.val /\ auth'.rev = auth.rev
          \/ auth'.val >= auth.val /\ auth'.rev = auth.rev + 1
      BY <1>18 DEF IpcOverlay, Owner
    <3> QED BY <3>1, <3>2, StaysOrdered
  <2> QED BY <2>1, <2>2, <2>3, <2>4, <2>5
<1>19. ASSUME IpcNote PROVE Fader'
  <2>1. Owner'
    <3>1. auth'.val <= writes'
      BY <1>19 DEF IpcNote, Noted, Owner
    <3> QED BY <3>1, <1>19 DEF IpcNote, Noted, Owner, Busy, Undecided, Unreleased
  <2>2. Unsent'
    BY <1>19 DEF IpcNote, Noted, Owner, Unsent, Shown, Pending, Busy, Undecided, Unreleased
  <2>3. Shown'
    BY <1>19 DEF IpcNote, Noted, Owner, Shown, Busy, Undecided, Unreleased
  <2>4. Carried'
    BY <1>19 DEF IpcNote, Noted, Owner, Unsent, Carried, Pending, Busy, Undecided, Unreleased
  <2>5. Ordered'
    <3>1. \A l \in Levels : InFlight(l)' => InFlight(l) \/ l = [val |-> auth'.val, rev |-> auth'.rev]
      BY <1>19 DEF IpcNote, Noted, Owner, Busy, InFlight
    <3>2. \/ auth'.val = auth.val /\ auth'.rev = auth.rev
          \/ auth'.val >= auth.val /\ auth'.rev = auth.rev + 1
      BY <1>19 DEF IpcNote, Noted, Owner
    <3> QED BY <3>1, <3>2, StaysOrdered
  <2> QED BY <2>1, <2>2, <2>3, <2>4, <2>5
<1>20. ASSUME IpcClear PROVE Fader'
  <2>1. Owner'
    BY <1>20 DEF IpcClear, Owner, Busy
  <2>2. Unsent'
    BY <1>20 DEF IpcClear, Owner, Unsent, Shown, Pending, Busy
  <2>3. Shown'
    BY <1>20 DEF IpcClear, Owner, Shown, Busy
  <2>4. Carried'
    BY <1>20 DEF IpcClear, Owner, Unsent, Carried, Pending, Busy
  <2>5. Ordered'
    <3>1. \A l \in Levels : InFlight(l)' => InFlight(l) \/ l = [val |-> auth'.val, rev |-> auth'.rev]
      BY <1>20 DEF IpcClear, Owner, Busy, InFlight
    <3>2. \/ auth'.val = auth.val /\ auth'.rev = auth.rev
          \/ auth'.val >= auth.val /\ auth'.rev = auth.rev + 1
      BY <1>20 DEF IpcClear, Owner
    <3> QED BY <3>1, <3>2, StaysOrdered
  <2> QED BY <2>1, <2>2, <2>3, <2>4, <2>5
<1>21. ASSUME IpcPatch PROVE Fader'
  <2>1. Owner'
    BY <1>21 DEF IpcPatch, Owner, Busy
  <2>2. Unsent'
    BY <1>21 DEF IpcPatch, Owner, Unsent, Shown, Pending, Busy
  <2>3. Shown'
    BY <1>21 DEF IpcPatch, Owner, Shown, Busy
  <2>4. Carried'
    BY <1>21 DEF IpcPatch, Owner, Unsent, Carried, Pending, Busy
  <2>5. Ordered'
    <3>1. \A l \in Levels : InFlight(l)' => InFlight(l) \/ l = [val |-> auth'.val, rev |-> auth'.rev]
      BY <1>21 DEF IpcPatch, Owner, Busy, InFlight
    <3>2. \/ auth'.val = auth.val /\ auth'.rev = auth.rev
          \/ auth'.val >= auth.val /\ auth'.rev = auth.rev + 1
      BY <1>21 DEF IpcPatch, Owner
    <3> QED BY <3>1, <3>2, StaysOrdered
  <2> QED BY <2>1, <2>2, <2>3, <2>4, <2>5
<1>22. ASSUME IpcRev PROVE Fader'
  <2>1. Owner'
    BY <1>22 DEF IpcRev, Owner, Busy
  <2>2. Unsent'
    BY <1>22 DEF IpcRev, Owner, Unsent, Shown, Pending, Busy
  <2>3. Shown'
    BY <1>22 DEF IpcRev, Owner, Shown, Busy
  <2>4. Carried'
    BY <1>22 DEF IpcRev, Owner, Unsent, Carried, Pending, Busy
  <2>5. Ordered'
    <3>1. \A l \in Levels : InFlight(l)' => InFlight(l) \/ l = [val |-> auth'.val, rev |-> auth'.rev]
      BY <1>22 DEF IpcRev, Owner, Busy, InFlight
    <3>2. \/ auth'.val = auth.val /\ auth'.rev = auth.rev
          \/ auth'.val >= auth.val /\ auth'.rev = auth.rev + 1
      BY <1>22 DEF IpcRev, Owner
    <3> QED BY <3>1, <3>2, StaysOrdered
  <2> QED BY <2>1, <2>2, <2>3, <2>4, <2>5
<1>23. ASSUME IpcSend PROVE Fader'
  <2>1. Owner'
    BY <1>23 DEF IpcSend, Owner, Busy
  <2>2. Unsent'
    BY <1>23 DEF IpcSend, Owner, Unsent, Shown, Pending, Busy
  <2>3. Shown'
    BY <1>23 DEF IpcSend, Owner, Shown, Busy
  <2>4. Carried'
    BY <1>23 DEF IpcSend, Owner, Unsent, Carried, Pending, Busy
  <2>5. Ordered'
    <3>1. \A l \in Levels : InFlight(l)' => InFlight(l) \/ l = [val |-> auth'.val, rev |-> auth'.rev]
      BY <1>23 DEF IpcSend, Owner, Busy, InFlight
    <3>2. \/ auth'.val = auth.val /\ auth'.rev = auth.rev
          \/ auth'.val >= auth.val /\ auth'.rev = auth.rev + 1
      BY <1>23 DEF IpcSend, Owner
    <3> QED BY <3>1, <3>2, StaysOrdered
  <2> QED BY <2>1, <2>2, <2>3, <2>4, <2>5
<1>24. ASSUME LaneBatch PROVE Fader'
  <2>1. UNCHANGED <<auth, uiPatch, dmPatch, uiVars, ipcVars, writes, clash>>
    BY <1>24 DEF LaneBatch
  <2>2. Owner' /\ Unsent' /\ Shown'
    BY <2>1 DEF Owner, Unsent, Shown, Pending, Busy
  <2>3. chan \in Seq(Levels) /\ applied \in 0 .. MaxRev /\ engVal \in Vals
    BY DEF TypeOK
  <2>4. PICK m, k \in DOMAIN chan :
          /\ k <= m /\ \A j \in 1 .. m : chan[j].rev <= chan[k].rev
          /\ IF chan[k].rev >= applied
               THEN applied' = chan[k].rev /\ engVal' = chan[k].val
               ELSE UNCHANGED <<applied, engVal>>
          /\ \A i \in DOMAIN chan' : i + m \in DOMAIN chan /\ chan'[i] = chan[i + m]
          /\ \A i \in DOMAIN chan : i > m => i - m \in DOMAIN chan'
    BY <1>24, <2>3, LaneTakes
  <2>5. \A i \in DOMAIN chan : chan[i] \in Levels /\ InFlight(chan[i])
    BY <2>3, ElementOfSeq, LenProperties DEF InFlight
  <2>6. Ordered'
    <3>1. \A l \in Levels : InFlight(l)' => InFlight(l)
      BY <2>1, <2>4, <2>5 DEF InFlight, Levels
    <3> QED BY <2>1, <3>1, StaysOrdered
  <2>7. Carried'
    <3> DEFINE here == [val |-> engVal, rev |-> applied]
               newest == [val |-> auth.val, rev |-> auth.rev]
               last == chan[k]
    <3>1. /\ here \in Levels /\ InFlight(here)
          /\ newest \in Levels /\ InFlight(newest)
          /\ last \in Levels /\ InFlight(last)
          /\ \A l \in Levels : l.rev \in Int /\ l.val \in Int
      <4>1. MaxRev \in Nat
        BY BoundsAssumption DEF MaxRev
      <4>2. /\ here \in Levels /\ newest \in Levels
            /\ \A l \in Levels : l.rev \in Int /\ l.val \in Int
        <5>1. auth.val \in Vals /\ auth.rev \in 1 .. MaxRev
          BY DEF TypeOK
        <5>2. here \in Levels /\ newest \in Levels
          BY <2>3, <4>1, <5>1 DEF Levels
        <5>3. \A l \in Levels : l.rev \in Int /\ l.val \in Int
          BY <4>1, BoundsAssumption DEF Levels, Vals
        <5> QED BY <5>2, <5>3
      <4>3. InFlight(here) /\ InFlight(newest)
        BY DEF InFlight
      <4> QED BY <2>5, <4>2, <4>3
    <3>2. \A l \in Levels : InFlight(l) => l.val <= writes
      BY <3>1 DEF Ordered, Owner
    <3>3. last.val = writes => engVal' = writes
      <4>1. CASE last.rev >= applied
        BY <2>4, <4>1
      <4>2. CASE ~(last.rev >= applied)
        BY <2>4, <3>1, <3>2, <4>2 DEF Ordered
      <4> QED BY <4>1, <4>2
    <3>4. CASE engVal = writes
      <4>1. CASE last.rev >= applied
        <5>1. last.val >= writes
          BY <3>1, <3>4, <4>1 DEF Ordered
        <5> QED BY <2>1, <3>1, <3>2, <3>3, <5>1 DEF Carried
      <4>2. CASE ~(last.rev >= applied)
        BY <2>1, <2>4, <3>4, <4>2 DEF Carried
      <4> QED BY <4>1, <4>2
    <3>5. CASE \E i \in DOMAIN chan : chan[i].val = writes
      <4>1. PICK i \in DOMAIN chan : chan[i].val = writes
        BY <3>5
      <4>2. CASE i > m
        <5>1. i \in Int /\ m \in Int /\ (i - m) + m = i
          BY <2>3, LenProperties
        <5>2. i - m \in DOMAIN chan' /\ chan'[i - m] = chan[i]
          BY <2>4, <4>2, <5>1
        <5> QED BY <2>1, <4>1, <5>2 DEF Carried
      <4>3. CASE ~(i > m)
        <5>1. chan[i].rev <= last.rev
          BY <2>3, <2>4, <4>3, LenProperties
        <5>2. last.val >= writes
          BY <2>5, <3>1, <4>1, <5>1 DEF Ordered
        <5> QED BY <2>1, <3>1, <3>2, <3>3, <5>2 DEF Carried
      <4> QED BY <4>2, <4>3
    <3> QED BY <2>1, <3>4, <3>5 DEF Carried, Busy
  <2> QED BY <2>2, <2>6, <2>7
<1>25. ASSUME UNCHANGED vars PROVE Fader'
  BY <1>25 DEF vars, Owner, Unsent, Shown, Ordered, Carried, InFlight, Pending, Busy
<1>26. Ui => Fader'
  BY <1>4, <1>5, <1>6, <1>7, <1>8, <1>9, <1>10, <1>11, <1>12, <1>13, <1>14, <1>15, <1>16 DEF Ui, UiRest
<1>27. Ipc => Fader'
  BY <1>17, <1>18, <1>19, <1>20, <1>21, <1>22, <1>23 DEF Ipc
<1> QED BY <1>24, <1>25, <1>26, <1>27 DEF Next

\* The values of every variable, at all times (TypeOK; the run checks it for one
\* gesture of each hand).
THEOREM TypeCorrect == Spec => []TypeOK
<1>1. Init => TypeInv
  BY FaderInit DEF FaderInv
<1>2. TypeInv => TypeOK
  BY DEF TypeInv
<1> QED BY <1>1, <1>2, TypeStep, PTL DEF Spec

\* The inductive invariant of the two hands holds at all times.
THEOREM FaderInvariant == Spec => []FaderInv
BY FaderInit, FaderStep, PTL DEF Spec

\* The last gesture wins, however many gestures there are and however the two
\* hands' patches, revs and commands overtake each other: at rest and without a
\* clash the engine and the window have it (TrackMixerAuthority, coalesce_commands,
\* level_revs).
THEOREM LastGestureWins == Spec => []LastWriteWins
<1>1. FaderInv => LastWriteWins
  <2> SUFFICES ASSUME FaderInv, Settled, ~clash PROVE engVal = writes /\ uiVal = writes
    BY DEF LastWriteWins
  <2>1. uiVal = writes
    BY DEF FaderInv, TypeInv, TypeOK, Vals, NoVal, Settled, Shown
  <2>2. engVal = writes
    BY DEF FaderInv, Settled, Carried, Busy
  <2> QED BY <2>1, <2>2
<1> QED BY <1>1, FaderInvariant, PTL

\* No step puts the level of the engine back to an older gesture (the lane's
\* comparison with the last rev, behind the coalescing of its batch).
THEOREM NeverSnapsBack == Spec => NoSnapBack
<1>1. FaderInv /\ FaderInv' /\ [Next]_vars => [~clash' => engVal <= engVal']_vars
  <2> SUFFICES ASSUME FaderInv, [Next]_vars, ~clash', engVal' # engVal PROVE engVal <= engVal'
    BY DEF FaderInv, TypeInv, TypeOK, Vals
  <2>1. LaneBatch
    BY DEF Next, Ui, UiRest, Ipc, vars, laneVars, UiDrag, UiLamp, UiSolo, UiFlush, UiOverlay, UiAdopt, UiAcknowledge, UiHold,
       UiCheck, UiStaleRev, UiNote, UiPatchDaemon, UiSend, IpcTake, IpcOverlay, IpcNote,
       IpcClear, IpcPatch, IpcRev, IpcSend
  <2>2. Ordered /\ TypeOK
    BY <2>1 DEF FaderInv, TypeInv, LaneBatch
  <2>3. chan \in Seq(Levels) /\ applied \in 0 .. MaxRev /\ engVal \in Vals
    BY <2>2 DEF TypeOK
  <2>4. PICK k \in DOMAIN chan : chan[k].rev >= applied /\ engVal' = chan[k].val
    BY <2>1, <2>3, LaneTakes
  <2> DEFINE here == [val |-> engVal, rev |-> applied]
  <2>5. chan[k] \in Levels /\ InFlight(chan[k])
    BY <2>3, ElementOfSeq, LenProperties DEF InFlight
  <2>6. here \in Levels /\ InFlight(here)
    BY <2>3 DEF InFlight, Levels
  <2>7. applied \in Int /\ chan[k].rev \in Int
    BY <2>3, <2>5, BoundsAssumption DEF Levels, MaxRev
  <2> QED BY <2>2, <2>4, <2>5, <2>6, <2>7 DEF Ordered
<1> QED BY <1>1, FaderInvariant, PTL DEF NoSnapBack, Spec
================================================================================
