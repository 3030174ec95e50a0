---------------------------- MODULE FxHostProofs ----------------------------
(***************************************************************************)
(* Proofs about FxHost, for any chains and any bounds.                     *)
(***************************************************************************)
EXTENDS FxHost, SequenceTheorems, TLAPS

(* What remains of a batch ends as the batch did.                          *)
LEMMA BatchRest ==
    ASSUME NEW s \in Seq(Inserts), NEW n \in DOMAIN s
    PROVE  /\ s[n] \in Inserts
           /\ SubSeq(s, n + 1, Len(s)) \in Seq(Inserts)
           /\ SubSeq(s, n + 1, Len(s)) = <<>> => n = Len(s)
           /\ SubSeq(s, n + 1, Len(s)) # <<>> =>
                LET r == SubSeq(s, n + 1, Len(s)) IN r[Len(r)] = s[Len(s)]
<1> n \in 1 .. Len(s)
  OBVIOUS
<1>1. SubSeq(s, n + 1, Len(s)) \in Seq(Inserts)
  OBVIOUS
<1>2. Len(SubSeq(s, n + 1, Len(s))) = Len(s) - n
  OBVIOUS
<1> QED BY <1>1, <1>2

(* A group of variables that a step leaves alone keeps its type.           *)
LEMMA Frame ==
    /\ WindowType /\ UNCHANGED WindowVars => WindowType'
    /\ QueueType /\ UNCHANGED <<pushes, jobs>> => QueueType'
    /\ ThreadType /\ UNCHANGED <<LaneVars, FxVars, SupVars>> => ThreadType'
    /\ EnsType /\ UNCHANGED <<EnsVars, LastVars>> => EnsType'
    /\ NodeType /\ UNCHANGED NodeVars => NodeType'
BY DEF WindowType, QueueType, ThreadType, EnsType, NodeType,
       WindowVars, LaneVars, FxVars, SupVars, EnsVars, NodeVars, LastVars

(* What a clone holds are inserts.                                         *)
LEMMA CloneInserts == TypeOK => Clones \subseteq Inserts
BY ConstantsAssumption DEF Clones, TypeOK, WindowType, Inserts, Values

(* An idle thread holds nothing.                                           *)
LEMMA NothingHeld ==
    /\ NoInserts \in Inserts
    /\ NoEnsure \in [step : {"none", "read", "build"}, spec : Inserts,
                     val : Values, cold : BOOLEAN, old : BOOLEAN]
BY ConstantsAssumption DEF NoInserts, NoEnsure, Inserts, Values

(* A window gesture, whatever it does to win, edits, dirty and flush.      *)
LEMMA WindowTypes == ASSUME TypeOK, Window PROVE TypeOK'
<1> USE DEF TypeOK, Window
<1>1. CASE Toggle
  <2>1. win' \in Inserts
    <3>1. win \in [chain : Chains, val : 0 .. MaxGestures] /\ edits \in 0 .. MaxGestures
      BY DEF WindowType, Inserts, Values
    <3>2. win.val + edits < MaxGestures /\ win' = [win EXCEPT !.val = @ + 1]
      BY <1>1 DEF Toggle
    <3> QED BY <3>1, <3>2, ConstantsAssumption DEF Inserts, Values
  <2>2. WindowType'
    BY <1>1, <2>1 DEF Toggle, WindowType, Inserts
  <2> QED BY <1>1, <2>2, Frame DEF Toggle
<1>2. CASE FlushRemember
  <2>1. EnsType'
    BY <1>2 DEF FlushRemember, Remember, EnsType, EnsVars, WindowType, Inserts
  <2>2. WindowType'
    BY <1>2 DEF FlushRemember, WindowType
  <2> QED BY <1>2, <2>1, <2>2, Frame DEF FlushRemember
<1>3. CASE FlushPush
  <2>1. NodeType'
    BY <1>3 DEF FlushPush, PushIntoRing, NodeType, WindowType, Inserts
  <2>2. WindowType'
    BY <1>3 DEF FlushPush, WindowType
  <2>3. QueueType'
    BY <1>3 DEF FlushPush, QueueType, WindowType
  <2> QED BY <1>3, <2>1, <2>2, <2>3, Frame DEF FlushPush
<1>4. CASE FlushSend
  <2>1. QueueType'
    BY <1>4 DEF FlushSend, QueueType, WindowType
  <2>2. WindowType'
    BY <1>4 DEF FlushSend, WindowType
  <2> QED BY <1>4, <2>1, <2>2, Frame DEF FlushSend
<1>5. CASE EditChain
  <2>1. win' \in Inserts
    BY <1>5 DEF EditChain, WindowType, Inserts
  <2>2. edits' \in 0 .. MaxGestures
    BY <1>5, ConstantsAssumption DEF EditChain, WindowType, Inserts, Values
  <2>3. had' \subseteq Chains /\ win'.chain \in had'
    BY <1>5 DEF EditChain, WindowType, Inserts
  <2>4. WindowType'
    BY <1>5, <2>1, <2>2, <2>3 DEF EditChain, WindowType
  <2> QED BY <1>5, <2>4, Frame DEF EditChain
<1>6. CASE RewireTick
  <2>1. QueueType'
    BY <1>6 DEF RewireTick, QueueType, WindowType
  <2>2. WindowType'
    BY <1>6 DEF RewireTick, WindowType
  <2> QED BY <1>6, <2>1, <2>2, Frame DEF RewireTick
<1> QED BY <1>1, <1>2, <1>3, <1>4, <1>5, <1>6

(* The Interactive lane.                                                   *)
LEMMA LaneTypes == ASSUME TypeOK, Lane PROVE TypeOK'
<1> USE DEF TypeOK, Lane
<1>1. CASE LaneTake
  <2>1. PICK n \in DOMAIN pushes :
            /\ arg' = pushes[n] /\ pushes' = SubSeq(pushes, n + 1, Len(pushes))
            /\ Remember(pushes[n])
    BY <1>1 DEF LaneTake
  <2>2. pushes[n] \in Inserts /\ pushes' \in Seq(Inserts)
    BY <2>1, BatchRest DEF QueueType
  <2>3. QueueType' /\ ThreadType'
    BY <1>1, <2>1, <2>2 DEF LaneTake, QueueType, ThreadType, FxVars, SupVars
  <2>4. EnsType'
    BY <1>1, <2>1, <2>2 DEF LaneTake, Remember, EnsType, EnsVars, Inserts
  <2> QED BY <1>1, <2>3, <2>4, Frame DEF LaneTake
<1>3. CASE LanePush
  <2>1. NodeType'
    BY <1>3 DEF LanePush, PushIntoRing, NodeType, ThreadType, Inserts
  <2>2. ThreadType'
    BY <1>3, NothingHeld DEF LanePush, ThreadType, FxVars, SupVars
  <2> QED BY <1>3, <2>1, <2>2, Frame DEF LanePush
<1>4. CASE LaneMirror
  <2>1. EnsType'
    BY <1>4 DEF LaneMirror, EnsType, ThreadType, LastVars
  <2>2. ThreadType'
    BY <1>4, NothingHeld DEF LaneMirror, ThreadType, FxVars, SupVars
  <2> QED BY <1>4, <2>1, <2>2, Frame DEF LaneMirror
<1> QED BY <1>1, <1>3, <1>4

(* A call of ensure_host, and a clone written into DesiredState.           *)
LEMMA DesiredTypes ==
    ASSUME TypeOK, NEW ins \in Inserts, Begin(ins) \/ WriteClone(ins), UNCHANGED LastVars
    PROVE  EnsType'
<1>1. CASE Begin(ins)
  <2>1. ens' \in [step : {"none", "read", "build"}, spec : Inserts,
                 val : Values, cold : BOOLEAN, old : BOOLEAN]
    BY <1>1 DEF Begin, TypeOK, NodeType, Inserts
  <2>2. late' \in BOOLEAN /\ UNCHANGED <<fails, desired>>
    BY <1>1 DEF Begin
  <2> QED BY <2>1, <2>2 DEF TypeOK, EnsType, LastVars
<1>2. CASE WriteClone(ins)
  <2>1. late' \in BOOLEAN /\ desired' = ins /\ UNCHANGED <<ens, fails>>
    BY <1>2 DEF WriteClone
  <2> QED BY <2>1 DEF TypeOK, EnsType, LastVars
<1> QED BY <1>1, <1>2

(* The FX thread and the tick, up to their call of ensure_host.            *)
LEMMA CallerTypes ==
    ASSUME TypeOK, FxTake \/ FxCall \/ Arm PROVE TypeOK'
<1> USE DEF TypeOK
<1>1. CASE FxTake
  <2>1. PICK n \in DOMAIN jobs :
            job' = jobs[n] /\ jobs' = SubSeq(jobs, n + 1, Len(jobs))
    BY <1>1 DEF FxTake
  <2>2. job' \in Inserts /\ jobs' \in Seq(Inserts)
    BY <2>1, BatchRest DEF QueueType
  <2>3. QueueType' /\ ThreadType'
    BY <1>1, <2>2 DEF FxTake, QueueType, ThreadType, LaneVars, SupVars
  <2>4. EnsType'
    BY <1>1, <2>2 DEF FxTake, EnsType, LastVars
  <2> QED BY <1>1, <2>3, <2>4, Frame DEF FxTake
<1>2. CASE FxCall
  <2>1. EnsType'
    BY <1>2, DesiredTypes DEF FxCall, ThreadType
  <2>2. ThreadType'
    BY <1>2 DEF FxCall, ThreadType, LaneVars, SupVars
  <2> QED BY <1>2, <2>1, <2>2, Frame DEF FxCall
<1>3. CASE Arm
  <2>1. EnsType'
    BY <1>3, DesiredTypes DEF Arm, EnsType
  <2> QED BY <1>3, <2>1, Frame DEF Arm
<1> QED BY <1>1, <1>2, <1>3

(* The Supervisor, whatever clone it has.                                  *)
LEMMA SupervisorTypes == ASSUME TypeOK, Supervisor PROVE TypeOK'
<1> USE DEF TypeOK
<1>1. clone \in Inserts /\ desired \in Inserts /\ orders \in 0 .. MaxOrders
  BY DEF ThreadType, EnsType
<1>2. ASSUME NEW k \in {"route", "arm", "clock"}, NEW ins \in Clones, Take(k, ins),
             sup' \in {"push", "arm"}, UNCHANGED <<LaneVars, FxVars>>
      PROVE  ThreadType'
  <2>1. orders' \in 0 .. MaxOrders
    BY <1>1, <1>2, ConstantsAssumption DEF Take
  <2> QED BY <1>2, <2>1, CloneInserts DEF Take, ThreadType, LaneVars, FxVars
<1>3. ASSUME SupEnd, UNCHANGED <<LaneVars, FxVars>> PROVE ThreadType'
  BY <1>1, <1>3, NothingHeld DEF SupEnd, ThreadType, LaneVars, FxVars
<1>4. ASSUME sup' \in {"remember", "push", "sync", "mirror", "wait"},
             UNCHANGED <<LaneVars, FxVars, kind, clone, orders>>
      PROVE  ThreadType'
  BY <1>4 DEF ThreadType, LaneVars, FxVars
<1>5. ASSUME NEW ins \in Inserts, RememberClone(ins), UNCHANGED EnsVars PROVE EnsType'
  BY <1>5 DEF RememberClone, EnsType, EnsVars, Inserts
<1>6. PushClone => NodeType'
  BY <1>1 DEF PushClone, NodeType, Inserts
<1>7. CASE RouteTake
  <2>1. PICK ins \in Clones : Take("route", ins) /\ RememberClone(ins)
    BY <1>7 DEF RouteTake
  <2>2. ThreadType' /\ EnsType'
    BY <1>2, <1>5, <1>7, <2>1, CloneInserts DEF RouteTake
  <2> QED BY <1>7, <2>2, Frame DEF RouteTake
<1>8. CASE SyncTake
  <2>1. PICK k \in {"arm", "clock"}, ins \in Clones : Take(k, ins) /\ WriteClone(ins)
    BY <1>8 DEF SyncTake
  <2>2. ThreadType' /\ EnsType'
    BY <1>2, <1>8, <2>1, CloneInserts, DesiredTypes DEF SyncTake
  <2> QED BY <1>8, <2>2, Frame DEF SyncTake
<1>9. CASE RouteRefused \/ RoutePush
  BY <1>4, <1>6, <1>9, Frame DEF RouteRefused, RoutePush
<1>10. CASE ArmPush
  <2>1. EnsType'
    BY <1>1, <1>10, DesiredTypes DEF ArmPush, EnsVars, LastVars, EnsType
  <2> QED BY <1>3, <1>6, <1>10, <2>1, Frame DEF ArmPush
<1>11. CASE RouteMirror \/ RouteSync
  BY <1>1, <1>3, <1>4, <1>11, DesiredTypes, Frame DEF RouteMirror, RouteSync
<1>12. CASE SupBuild
  BY <1>1, <1>4, <1>12, DesiredTypes, Frame DEF SupBuild
<1>13. CASE SupAdopt \/ ArmRemember
  BY <1>1, <1>4, <1>5, <1>13, Frame DEF SupAdopt, ArmRemember
<1>14. CASE Resync
  <2>1. EnsType'
    BY <1>14, CloneInserts, DesiredTypes DEF Resync
  <2>2. ThreadType'
    <3>1. orders' \in 0 .. MaxOrders
      BY <1>1, <1>14, ConstantsAssumption DEF Resync
    <3> QED BY <1>14, <3>1 DEF Resync, ThreadType, LaneVars, FxVars
  <2> QED BY <1>14, <2>1, <2>2, Frame DEF Resync
<1> QED BY <1>7, <1>8, <1>9, <1>10, <1>11, <1>12, <1>13, <1>14 DEF Supervisor, Command

(* The steps of ensure_host.                                               *)
LEMMA EnsureTypes == ASSUME TypeOK, Ensure PROVE TypeOK'
<1> USE DEF TypeOK, Ensure
<1>1. CASE EnsRead
  <2>1. (IF last = Nothing THEN ens.val ELSE last) \in Values
    BY DEF EnsType
  <2>2. EnsType'
    BY <1>1, <2>1 DEF EnsRead, EnsType, LastVars
  <2>3. NodeType'
    BY <1>1 DEF EnsRead, NodeType
  <2> QED BY <1>1, <2>2, <2>3, Frame DEF EnsRead
<1>2. ASSUME EndEnsure, UNCHANGED LaneVars PROVE ThreadType'
  BY <1>2, NothingHeld DEF EndEnsure, SupBuilt, SupEnd, ThreadType, LaneVars, FxVars, SupVars
<1>3. CASE EnsFail
  <2>1. EnsType'
    <3>1. fails' \in 0 .. MaxFaults
      BY <1>3, ConstantsAssumption DEF EnsFail, EnsType, NodeType
    <3> QED BY <1>3, <3>1, NothingHeld DEF EnsFail, EndEnsure, EnsType, LastVars
  <2>2. NodeType'
    BY <1>3 DEF EnsFail, EndEnsure, NodeType
  <2>3. ThreadType'
    BY <1>2, <1>3 DEF EnsFail
  <2> QED BY <1>3, <2>1, <2>2, <2>3, Frame DEF EnsFail
<1>4. CASE EnsPublish
  <2>1. EnsType'
    BY <1>4, NothingHeld DEF EnsPublish, EndEnsure, EnsType, LastVars
  <2>2. NodeType'
    BY <1>4 DEF EnsPublish, EndEnsure, NodeType, EnsType, Inserts
  <2>3. ThreadType'
    BY <1>2, <1>4 DEF EnsPublish
  <2> QED BY <1>4, <2>1, <2>2, <2>3, Frame DEF EnsPublish
<1>5. CASE EnsInsert
  <2>1. EnsType'
    BY <1>5, NothingHeld DEF EnsInsert, EndEnsure, EnsType, LastVars
  <2>2. NodeType'
    <3>1. host' \in [chain : Chains, running : BOOLEAN]
      BY <1>5 DEF EnsInsert, EnsType, Inserts
    <3> QED BY <1>5, <3>1 DEF EnsInsert, EndEnsure, NodeType, EnsType
  <2>3. ThreadType'
    BY <1>2, <1>5 DEF EnsInsert
  <2> QED BY <1>5, <2>1, <2>2, <2>3, Frame DEF EnsInsert
<1> QED BY <1>1, <1>3, <1>4, <1>5

(* The callback, and the end of a filter thread.                           *)
LEMMA NodeTypes == ASSUME TypeOK, Callback \/ NodeDies PROVE TypeOK'
<1> USE DEF TypeOK
<1>1. CASE RtTake
  <2>1. NodeType'
    BY <1>1 DEF RtTake, NodeType
  <2> QED BY <1>1, <2>1, Frame DEF RtTake
<1>2. CASE RtDrain
  <2>1. rack' \in Values
    BY <1>2 DEF RtDrain, NodeType
  <2>2. NodeType'
    BY <1>2, <2>1 DEF RtDrain, NodeType
  <2> QED BY <1>2, <2>2, Frame DEF RtDrain
<1>3. CASE NodeDies
  <2>1. deaths' \in 0 .. MaxFaults
    BY <1>3, ConstantsAssumption DEF NodeDies, NodeType, EnsType
  <2>2. NodeType'
    BY <1>3, <2>1 DEF NodeDies, NodeType
  <2> QED BY <1>3, <2>2, Frame DEF NodeDies
<1> QED BY <1>1, <1>2, <1>3 DEF Callback

\* The first state has its types.
LEMMA TypeInit == Init => TypeOK
<1> SUFFICES ASSUME Init PROVE TypeOK
  OBVIOUS
<1>1. WindowType
  <2>1. 0 \in 0 .. MaxGestures
    BY ConstantsAssumption
  <2>2. /\ win = NoInserts /\ had = {First} /\ edits = 0
        /\ dirty = FALSE /\ flush = "idle"
    BY DEF Init
  <2> QED BY <2>1, <2>2, NothingHeld, ConstantsAssumption DEF WindowType, NoInserts
<1>2. QueueType
  BY DEF Init, QueueType
<1>3. ThreadType
  BY NothingHeld, ConstantsAssumption DEF Init, ThreadType
<1>4. EnsType
  <2>1. /\ ens = NoEnsure /\ fails = 0 /\ desired = NoInserts /\ late = FALSE
        /\ last = Nothing /\ revived = FALSE
    BY DEF Init
  <2>2. 0 \in 0 .. MaxFaults
    BY ConstantsAssumption
  <2> QED BY <2>1, <2>2, NothingHeld DEF EnsType
<1>5. NodeType
  <2>1. 0 \in Values /\ 0 \in 0 .. MaxFaults /\ First \in Chains
    BY ConstantsAssumption DEF Values
  <2>2. /\ host = [chain |-> First, running |-> TRUE]
        /\ rack = 0 /\ ring = Nothing /\ rt = "idle"
        /\ missed = FALSE /\ raced = FALSE /\ undone = FALSE /\ deaths = 0
    BY DEF Init
  <2> QED BY <2>1, <2>2 DEF NodeType
<1> QED BY <1>1, <1>2, <1>3, <1>4, <1>5 DEF TypeOK

\* Every step keeps the types.
LEMMA TypeNext == TypeOK /\ [Next]_vars => TypeOK'
<1>1. TypeOK /\ Next => TypeOK'
  BY WindowTypes, LaneTypes, CallerTypes, SupervisorTypes, EnsureTypes, NodeTypes DEF Next
<1>2. TypeOK /\ UNCHANGED vars => TypeOK'
  BY Frame DEF TypeOK, vars, WindowVars, LaneVars, FxVars, SupVars, EnsVars, NodeVars, LastVars
<1> QED BY <1>1, <1>2

(* Every variable keeps its type, through any run of the bus.              *)
THEOREM TypeCorrect == Spec => []TypeOK
BY TypeInit, TypeNext, PTL DEF Spec

-----------------------------------------------------------------------------
(* Where the window's last gesture is, when the window rests: at the end   *)
(* of the queue, or in LAST_CONTROLS, unless an older clone revived an     *)
(* older value there.  The lane may overwrite a newer value only while a   *)
(* command with the newest one is still on its way.                        *)
NewestOnItsWay ==
    flush = "idle" =>
        /\ pushes # <<>> => pushes[Len(pushes)].val = win.val
        /\ pushes = <<>> /\ last # Nothing /\ ~revived => last = win.val

RememberInv == TypeOK /\ NewestOnItsWay

\* Before the first gesture nothing is remembered and nothing is on its way.
LEMMA RememberInit == Init => RememberInv
BY TypeInit DEF Init, RememberInv, NewestOnItsWay, Nothing

\* Each thread hands the newest value on before it lets go of it.
LEMMA RememberNext == RememberInv /\ [Next]_vars => RememberInv'
<1> SUFFICES ASSUME RememberInv, [Next]_vars PROVE NewestOnItsWay'
  BY TypeNext DEF RememberInv
<1> USE DEF RememberInv
<1>1. ASSUME UNCHANGED <<win, flush, pushes, LastVars>> PROVE NewestOnItsWay'
  BY <1>1 DEF NewestOnItsWay, LastVars
<1>2. CASE Window
  <2>1. CASE Toggle \/ FlushRemember
    BY <2>1 DEF Toggle, FlushRemember, NewestOnItsWay
  <2>2. CASE FlushPush \/ FlushSend \/ RewireTick
    <3>1. pushes' = Append(pushes, win) /\ win' = win
      BY <2>2 DEF FlushPush, FlushSend, RewireTick
    <3>2. pushes \in Seq(Inserts) /\ win \in Inserts
      BY DEF TypeOK, QueueType, WindowType
    <3>3. pushes' # <<>> /\ pushes'[Len(pushes')] = win
      BY <3>1, <3>2
    <3> QED BY <3>1, <3>3 DEF NewestOnItsWay
  <2>3. CASE EditChain
    <3>1. win'.val = win.val
      BY <2>3 DEF EditChain, TypeOK, WindowType, Inserts
    <3> QED BY <2>3, <3>1 DEF EditChain, LastVars, NewestOnItsWay
  <2> QED BY <1>2, <2>1, <2>2, <2>3 DEF Window
<1>3. CASE LaneTake
  <2>1. PICK n \in DOMAIN pushes :
            /\ arg' = pushes[n] /\ pushes' = SubSeq(pushes, n + 1, Len(pushes))
            /\ Remember(pushes[n])
    BY <1>3 DEF LaneTake
  <2>2. pushes # <<>> /\ pushes \in Seq(Inserts)
    BY <2>1 DEF TypeOK, QueueType
  <2>3. /\ pushes' = <<>> => pushes[n] = pushes[Len(pushes)]
        /\ pushes' # <<>> => pushes'[Len(pushes')] = pushes[Len(pushes)]
    BY <2>1, <2>2, BatchRest
  <2>4. last' = pushes[n].val /\ UNCHANGED <<win, flush>>
    BY <1>3, <2>1 DEF LaneTake, Remember, WindowVars
  <2> QED BY <2>2, <2>3, <2>4 DEF NewestOnItsWay
<1>4. CASE LanePush \/ LaneMirror \/ FxTake \/ FxCall \/ Arm
  BY <1>1, <1>4 DEF LanePush, LaneMirror, FxTake, FxCall, Arm, WindowVars
<1>5. CASE RouteTake \/ ArmRemember
  <2>1. /\ revived' = (last' # win.val)
        /\ UNCHANGED <<win, flush, pushes>>
    BY <1>5 DEF RouteTake, ArmRemember, RememberClone, WindowVars
  <2> QED BY <2>1 DEF NewestOnItsWay
<1>6. CASE SyncTake \/ RouteRefused \/ RoutePush \/ RouteMirror \/ RouteSync
  BY <1>1, <1>6 DEF SyncTake, RouteRefused, RoutePush, RouteMirror, RouteSync, WindowVars
<1>7. CASE SupBuild \/ SupAdopt \/ ArmPush \/ Resync
  BY <1>1, <1>7 DEF SupBuild, SupAdopt, ArmPush, Resync, WindowVars
<1>8. CASE Ensure
  BY <1>1, <1>8 DEF Ensure, EnsRead, EnsFail, EnsPublish, EnsInsert, WindowVars
<1>9. CASE Callback \/ NodeDies
  BY <1>1, <1>9 DEF Callback, RtTake, RtDrain, NodeDies, WindowVars
<1>10. CASE UNCHANGED vars
  BY <1>1, <1>10 DEF vars, LastVars
<1> QED BY <1>2, <1>3, <1>4, <1>5, <1>6, <1>7, <1>8, <1>9, <1>10
        DEF Next, Lane, Supervisor, Command

(* However the window, the lane and the Supervisor interleave their        *)
(* pushes, and whether or not a host accepts them: when all are done,      *)
(* LAST_CONTROLS has the window's control, and the next rebuild overlays   *)
(* that, unless an older clone of the Supervisor was remembered last.      *)
THEOREM RememberedNewestHolds == Spec => []RememberedNewest
<1>1. RememberInv => RememberedNewest
  BY DEF RememberInv, NewestOnItsWay, RememberedNewest, PushesDone
<1> QED BY <1>1, RememberInit, RememberNext, PTL DEF Spec
-----------------------------------------------------------------------------
(* Where the window's chain is: behind the deadline (dirty), at the end of *)
(* the queue of jobs, with the FX thread, or with its call of ensure_host. *)
JobOnItsWay ==
    /\ fx = "wait" => ens.step # "none" /\ ens.spec.chain = job.chain
    /\ ~dirty =>
         /\ jobs # <<>> => jobs[Len(jobs)].chain = win.chain
         /\ jobs = <<>> /\ fx # "idle" => job.chain = win.chain

(* In the end it is with the host and with DesiredState.                   *)
ChainInPlace ==
    /\ fx = "call" =>
         /\ desired.chain = job.chain
         /\ ens.step # "none" => ens.spec.chain = job.chain
    /\ ~dirty /\ jobs = <<>> /\ fx = "idle" =>
         /\ desired.chain = win.chain
         /\ ens.step = "none" => host.chain = win.chain
         /\ ens.step # "none" => ens.spec.chain = win.chain

ChainInv == TypeOK /\ JobOnItsWay /\ (fails = 0 /\ ~late => ChainInPlace)

(* No step loses the window's chain on its way, unless a build fails; a    *)
(* mirror or a clone that puts back another chain sets late, and the next  *)
(* job clears it.                                                          *)
LEMMA ChainNext == ChainInv /\ [Next]_vars => ChainInv'
<1> SUFFICES ASSUME ChainInv, [Next]_vars
             PROVE  JobOnItsWay' /\ (fails' = 0 /\ ~late' => ChainInPlace')
  BY TypeNext DEF ChainInv
<1>1. TypeOK /\ JobOnItsWay /\ (fails = 0 /\ ~late => ChainInPlace)
  BY DEF ChainInv
<1>2. /\ win \in Inserts /\ desired \in Inserts /\ job \in Inserts
      /\ jobs \in Seq(Inserts) /\ ens.spec \in Inserts
      /\ ens \in [step : {"none", "read", "build"}, spec : Inserts,
                  val : Values, cold : BOOLEAN, old : BOOLEAN]
      /\ host \in [chain : Chains, running : BOOLEAN] /\ fails \in Nat
  BY <1>1, ConstantsAssumption DEF TypeOK, WindowType, QueueType, ThreadType, EnsType, NodeType
<1>3. ASSUME UNCHANGED <<win, dirty, jobs, fx, job, ens, desired, host, fails, late>>
      PROVE  JobOnItsWay' /\ (fails' = 0 /\ ~late' => ChainInPlace')
  BY <1>1, <1>3 DEF JobOnItsWay, ChainInPlace
<1>4. CASE Window
  <2>1. CASE Toggle
    <3>1. win'.chain = win.chain
      BY <1>2, <2>1 DEF Toggle, Inserts
    <3> QED BY <1>1, <2>1, <3>1
            DEF Toggle, JobOnItsWay, ChainInPlace, FxVars, EnsVars, NodeVars
  <2>2. CASE FlushRemember \/ FlushPush \/ FlushSend
    BY <1>3, <2>2 DEF FlushRemember, FlushPush, FlushSend, PushIntoRing, FxVars, EnsVars, NodeVars
  <2>3. CASE EditChain
    BY <1>1, <2>3 DEF EditChain, JobOnItsWay, ChainInPlace, FxVars, EnsVars, NodeVars
  <2>4. CASE RewireTick
    <3>1. /\ jobs' = Append(jobs, win)
          /\ UNCHANGED <<win, fx, job, desired, ens, fails, late>>
      BY <2>4 DEF RewireTick, FxVars, EnsVars
    <3>2. jobs' # <<>> /\ jobs'[Len(jobs')] = win
      BY <1>2, <3>1
    <3> QED BY <1>1, <3>1, <3>2 DEF JobOnItsWay, ChainInPlace
  <2> QED BY <1>4, <2>1, <2>2, <2>3, <2>4 DEF Window
\* What a mirror or a clone writes keeps the chain, or sets late.
<1>5. ASSUME desired'.chain = desired.chain \/ late', late => late',
             UNCHANGED <<win, dirty, jobs, fx, job, ens, host, fails>>
      PROVE  JobOnItsWay' /\ (fails' = 0 /\ ~late' => ChainInPlace')
  BY <1>1, <1>5 DEF JobOnItsWay, ChainInPlace
<1>6. CASE Lane
  <2>1. CASE LaneTake \/ LanePush
    BY <1>3, <2>1 DEF LaneTake, LanePush, PushIntoRing, WindowVars, FxVars, EnsVars, NodeVars
  <2>2. CASE LaneMirror
    BY <1>5, <2>2 DEF LaneMirror, WindowVars, FxVars, NodeVars
  <2> QED BY <1>6, <2>1, <2>2 DEF Lane
<1>7. CASE FxTake
  <2>1. PICK n \in DOMAIN jobs :
            job' = jobs[n] /\ jobs' = SubSeq(jobs, n + 1, Len(jobs))
    BY <1>7 DEF FxTake
  <2>2. jobs # <<>>
    BY <1>2, <2>1
  <2>3. /\ jobs' = <<>> => job' = jobs[Len(jobs)]
        /\ jobs' # <<>> => jobs'[Len(jobs')] = jobs[Len(jobs)]
    BY <1>2, <2>1, BatchRest
  <2>4. /\ fx' = "call" /\ desired' = job' /\ ens.step = "none"
        /\ UNCHANGED <<win, dirty, ens>>
    BY <1>7 DEF FxTake, EngineFree, WindowVars
  <2> QED BY <1>1, <2>2, <2>3, <2>4 DEF JobOnItsWay, ChainInPlace
<1>8. ASSUME NEW ins \in Inserts, Begin(ins)
      PROVE  /\ ens.step = "none" /\ ens'.step = "read" /\ ens'.spec = ins
             /\ UNCHANGED <<desired, fails>>
             /\ late' = (late \/ ins.chain # desired.chain)
  BY <1>8 DEF Begin, EngineFree
<1>9. CASE FxCall
  <2>1. /\ ens'.step = "read" /\ ens'.spec = job
        /\ fx = "call" /\ fx' = "wait" /\ UNCHANGED <<win, dirty, jobs, job>>
    BY <1>2, <1>8, <1>9 DEF FxCall, WindowVars
  <2> QED BY <1>1, <2>1 DEF JobOnItsWay, ChainInPlace
\* The tick and the Supervisor build DesiredState's chain, or set late.
<1>10. ASSUME NEW ins \in Inserts, Begin(ins), UNCHANGED <<win, dirty, jobs, fx, job, host>>
       PROVE  JobOnItsWay' /\ (fails' = 0 /\ ~late' => ChainInPlace')
  <2>1. fx # "wait"
    BY <1>1, <1>8, <1>10 DEF JobOnItsWay
  <2> QED BY <1>1, <1>8, <1>10, <2>1 DEF JobOnItsWay, ChainInPlace
<1>11. CASE Arm \/ SupBuild
  <2>1. PICK ins \in {desired, clone} : Begin(ins)
    BY <1>11 DEF Arm, SupBuild
  <2>2. ins \in Inserts
    BY <1>1, <1>2 DEF TypeOK, ThreadType
  <2> QED BY <1>10, <1>11, <2>1, <2>2 DEF Arm, SupBuild, WindowVars, FxVars, NodeVars
<1>12. CASE EnsRead
  <2>1. /\ ens'.step = "build" /\ ens'.spec = ens.spec /\ ens.step = "read"
        /\ UNCHANGED <<win, dirty, jobs, fx, job, desired, host, fails, late>>
    BY <1>2, <1>12 DEF EnsRead, WindowVars, FxVars
  <2> QED BY <1>1, <2>1 DEF JobOnItsWay, ChainInPlace
<1>13. ASSUME EndEnsure
       PROVE  /\ ens'.step = "none"
              /\ IF fx = "wait" THEN fx' = "idle" ELSE UNCHANGED <<fx, job>>
  BY <1>13 DEF EndEnsure, NoEnsure, FxVars
<1>14. CASE EnsFail
  <2>1. fails' # 0 /\ UNCHANGED <<win, dirty, jobs>>
    BY <1>2, <1>14 DEF EnsFail, WindowVars
  <2>2. EndEnsure
    BY <1>14 DEF EnsFail
  <2> QED BY <1>1, <1>13, <2>1, <2>2 DEF JobOnItsWay
<1>15. CASE EnsPublish \/ EnsInsert
  <2>1. /\ host'.chain = ens.spec.chain /\ desired' = ens.spec /\ ens.step = "build"
        /\ late' = (late /\ fx # "wait")
        /\ UNCHANGED <<win, dirty, jobs, fails>>
    BY <1>2, <1>15 DEF EnsPublish, EnsInsert, WindowVars
  <2>2. EndEnsure
    BY <1>15 DEF EnsPublish, EnsInsert
  <2> QED BY <1>1, <1>13, <2>1, <2>2 DEF JobOnItsWay, ChainInPlace
<1>16. CASE RouteTake \/ RouteRefused \/ RoutePush \/ SupAdopt \/ ArmRemember
  BY <1>3, <1>16 DEF RouteTake, RouteRefused, RoutePush, SupAdopt, ArmRemember, PushClone,
                     WindowVars, FxVars, EnsVars, NodeVars
<1>17. CASE SyncTake \/ RouteMirror \/ RouteSync \/ Resync
  <2>1. PICK ins \in Clones \cup {clone} : WriteClone(ins)
    BY <1>17 DEF SyncTake, RouteMirror, RouteSync, Resync
  <2>2. UNCHANGED <<win, dirty, jobs, fx, job, host>>
    BY <1>17 DEF SyncTake, RouteMirror, RouteSync, Resync, WindowVars, FxVars, NodeVars
  <2> QED BY <1>5, <2>1, <2>2 DEF WriteClone
<1>18. CASE ArmPush
  BY <1>5, <1>18 DEF ArmPush, PushClone, WriteClone, WindowVars, FxVars, EnsVars
<1>19. CASE Callback
  BY <1>3, <1>19 DEF Callback, RtTake, RtDrain, WindowVars, FxVars, EnsVars
<1>20. CASE NodeDies
  <2>1. host'.chain = host.chain
    BY <1>2, <1>20 DEF NodeDies
  <2> QED BY <1>1, <1>20, <2>1
          DEF NodeDies, WindowVars, FxVars, EnsVars, JobOnItsWay, ChainInPlace
<1>21. CASE UNCHANGED vars
  BY <1>3, <1>21 DEF vars
<1> QED BY <1>4, <1>6, <1>7, <1>9, <1>11, <1>12, <1>14, <1>15, <1>16, <1>17, <1>18, <1>19,
           <1>20, <1>21 DEF Next, Ensure, Supervisor, Command

(* However jobs, armings, mirrors, clones and deaths of the host           *)
(* interleave, at rest the host and DesiredState have the window's chain   *)
(* (the FX thread's coalescing, ensure_fx_chain's note in DesiredState),   *)
(* unless since the last job an older chain was written back.              *)
THEOREM ChainConvergesHolds == Spec => []ChainConverges
<1>1. Init => ChainInv
  BY TypeInit, ConstantsAssumption
     DEF Init, ChainInv, JobOnItsWay, ChainInPlace, NoInserts, NoEnsure
<1>2. ChainInv => ChainConverges
  BY DEF ChainInv, ChainInPlace, ChainConverges, Quiet, PushesDone, EditsDone
<1> QED BY <1>1, <1>2, ChainNext, PTL DEF Spec

-----------------------------------------------------------------------------
(* Where the window's last gesture is heard.  No thread has a gesture the  *)
(* user has not made; before the first push LAST_CONTROLS has no entry;    *)
(* and with no edit waiting for its deadline the last push has the         *)
(* window's inserts.                                                       *)
Made ==
    /\ \A i \in DOMAIN pushes : pushes[i].val <= win.val
    /\ \A i \in DOMAIN jobs : jobs[i].val <= win.val
    /\ arg.val <= win.val /\ job.val <= win.val /\ clone.val <= win.val
    /\ desired.val <= win.val
    /\ ens.spec.val <= win.val /\ ens.val <= win.val
    /\ last # Nothing => last <= win.val

Unremembered ==
    last = Nothing =>
        /\ flush # "push" /\ int \notin {"push", "mirror"}
        /\ win.val # 0 => flush \in {"remember", "send"} \/ pushes # <<>>

LastPushed ==
    ~dirty /\ flush = "idle" =>
        /\ pushes # <<>> => pushes[Len(pushes)] = win
        /\ pushes = <<>> /\ int # "idle" => arg = win

AllPushed == flush = "idle" /\ ~dirty /\ pushes = <<>> /\ int \in {"idle", "mirror"}

(* What the published rack will have after the next drain.                 *)
Effective == IF ring = Nothing THEN rack ELSE ring

(* When the last push is done it is in force, or the host refused it       *)
(* because it will get another rack, or a rebuild or a clone overtook it.  *)
Arrived ==
    AllPushed =>
        /\ ~raced /\ ~undone /\ host.chain = win.chain => Effective = win.val
        /\ ens.step = "build" /\ ~missed /\ ~ens.old => ens.val = win.val

GestureInv == RememberInv /\ Made /\ Unremembered /\ LastPushed /\ Arrived

\* The window, the lane and the host thread keep the newest gesture between them.
LEMMA GestureNext == GestureInv /\ [Next]_vars => GestureInv'
<1> SUFFICES ASSUME GestureInv, [Next]_vars
             PROVE  Made' /\ Unremembered' /\ LastPushed' /\ Arrived'
  BY RememberNext DEF GestureInv
<1>1. /\ TypeOK /\ TypeOK' /\ NewestOnItsWay
      /\ Made /\ Unremembered /\ LastPushed /\ Arrived
  BY TypeNext DEF GestureInv, RememberInv
<1>2. /\ win \in Inserts /\ desired \in Inserts /\ job \in Inserts /\ arg \in Inserts
      /\ clone \in Inserts
      /\ jobs \in Seq(Inserts) /\ pushes \in Seq(Inserts) /\ ens.spec \in Inserts
      /\ ens \in [step : {"none", "read", "build"}, spec : Inserts,
                  val : Values, cold : BOOLEAN, old : BOOLEAN]
      /\ host \in [chain : Chains, running : BOOLEAN]
      /\ last \in Values \cup {Nothing} /\ ring \in Values \cup {Nothing} /\ rack \in Values
      /\ flush \in {"idle", "remember", "push", "send"}
      /\ int \in {"idle", "push", "mirror"}
      /\ win' \in Inserts
  BY <1>1 DEF TypeOK, WindowType, QueueType, ThreadType, EnsType, NodeType
<1>3. /\ Nothing \notin Values /\ \A v \in Values : v \in Int /\ v >= 0
      /\ NoInserts \in Inserts /\ NoInserts.val = 0 /\ NoEnsure.val = 0 /\ NoEnsure.spec.val = 0
      /\ NoEnsure.step = "none"
      /\ \A ins \in Inserts : ins.val \in Values
      /\ \A ins \in Clones : ins \in Inserts /\ ins.val <= win.val
  <2>1. \A ins \in Clones : ins \in Inserts /\ ins.val <= win.val
    BY <1>1, CloneInserts DEF Clones
  <2> QED BY <2>1, NothingHeld, ConstantsAssumption DEF Nothing, Values, NoInserts, NoEnsure, Inserts
<1>4. ASSUME UNCHANGED <<win, pushes, jobs, arg, job, clone, desired, ens, last>> PROVE Made'
  BY <1>1, <1>4 DEF Made
<1>5. ASSUME UNCHANGED <<win, last, flush, int, pushes>> PROVE Unremembered'
  BY <1>1, <1>5 DEF Unremembered
<1>6. ASSUME UNCHANGED <<win, dirty, flush, pushes, int, arg>> PROVE LastPushed'
  BY <1>1, <1>6 DEF LastPushed
<1>7. ASSUME UNCHANGED <<win, dirty, flush, pushes, int, host, rack, ring, raced, undone, missed, ens>>
      PROVE  Arrived'
  BY <1>1, <1>7 DEF Arrived, AllPushed, Effective
<1>8. CASE Toggle
  <2>1. win'.val = win.val + 1 /\ flush' \in {"remember", "send"} /\ flush = "idle"
    BY <1>2, <1>3, <1>8 DEF Toggle, Inserts
  <2>2. UNCHANGED <<pushes, jobs, arg, job, clone, desired, ens, last, int>>
    BY <1>8 DEF Toggle, LaneVars, FxVars, SupVars, EnsVars, LastVars
  <2>3. Made'
    <3>1. \A v \in Values : v <= win.val => v <= win'.val
      BY <1>2, <1>3, <2>1
    <3>2. /\ \A i \in DOMAIN pushes : pushes[i].val \in Values
          /\ \A i \in DOMAIN jobs : jobs[i].val \in Values
          /\ arg.val \in Values /\ job.val \in Values /\ desired.val \in Values
          /\ clone.val \in Values
          /\ ens.spec.val \in Values /\ ens.val \in Values
          /\ last # Nothing => last \in Values
      BY <1>2, <1>3
    <3> QED BY <1>1, <2>2, <3>1, <3>2 DEF Made
  <2>4. Unremembered'
    BY <1>1, <2>1, <2>2 DEF Unremembered
  <2>5. LastPushed' /\ Arrived'
    BY <2>1 DEF LastPushed, Arrived, AllPushed
  <2> QED BY <2>3, <2>4, <2>5
<1>9. CASE FlushRemember
  <2>1. last' = win.val /\ UNCHANGED <<win, pushes, jobs, arg, job, clone, desired, ens>>
    BY <1>9 DEF FlushRemember, Remember, LaneVars, FxVars, SupVars, EnsVars
  <2>2. Made'
    BY <1>1, <1>2, <1>3, <2>1 DEF Made
  <2>3. Unremembered'
    BY <1>2, <1>3, <2>1 DEF Unremembered
  <2>4. LastPushed' /\ Arrived'
    BY <1>9 DEF FlushRemember, LastPushed, Arrived, AllPushed
  <2> QED BY <2>2, <2>3, <2>4
<1>10. CASE FlushPush \/ FlushSend \/ RewireTick
  <2>1. pushes' = Append(pushes, win) /\ win' = win
    BY <1>10 DEF FlushPush, FlushSend, RewireTick
  <2>2. /\ pushes' # <<>> /\ pushes'[Len(pushes')] = win
        /\ \A i \in DOMAIN pushes' :
             (i \in DOMAIN pushes /\ pushes'[i] = pushes[i]) \/ pushes'[i] = win
    BY <1>2, <2>1
  <2>3. \A i \in DOMAIN jobs' :
          (i \in DOMAIN jobs /\ jobs'[i] = jobs[i]) \/ jobs'[i] = win
    <3>1. jobs' = jobs \/ jobs' = Append(jobs, win)
      BY <1>10 DEF FlushPush, FlushSend, RewireTick
    <3>2. CASE jobs' = jobs
      BY <3>2
    <3>3. CASE jobs' = Append(jobs, win)
      BY <1>2, <3>3
    <3> QED BY <3>1, <3>2, <3>3
  <2>4. UNCHANGED <<arg, int, job, clone, desired, ens, last>>
    BY <1>10 DEF FlushPush, FlushSend, RewireTick, LaneVars, FxVars, SupVars, EnsVars, LastVars
  <2>5. win.val <= win.val
    BY <1>2, <1>3
  <2>6. Made'
    BY <1>1, <2>1, <2>2, <2>3, <2>4, <2>5 DEF Made
  <2>7. Unremembered'
    BY <1>1, <1>10, <2>1, <2>2, <2>4 DEF Unremembered, FlushPush, FlushSend, RewireTick
  <2>8. LastPushed' /\ Arrived'
    BY <2>1, <2>2 DEF LastPushed, Arrived, AllPushed
  <2> QED BY <2>6, <2>7, <2>8
<1>11. CASE EditChain
  <2>1. /\ win'.val = win.val /\ dirty'
        /\ UNCHANGED <<pushes, jobs, arg, int, job, clone, desired, ens, last, flush>>
    BY <1>2, <1>11 DEF EditChain, Inserts, LaneVars, FxVars, SupVars, EnsVars, LastVars
  <2>2. Made' /\ Unremembered'
    BY <1>1, <2>1 DEF Made, Unremembered
  <2>3. LastPushed' /\ Arrived'
    BY <2>1 DEF LastPushed, Arrived, AllPushed
  <2> QED BY <2>2, <2>3
<1>12. CASE LaneTake
  <2>1. PICK n \in DOMAIN pushes :
            /\ arg' = pushes[n] /\ pushes' = SubSeq(pushes, n + 1, Len(pushes))
            /\ last' = pushes[n].val
    BY <1>12 DEF LaneTake, Remember
  <2>2. pushes # <<>>
    BY <1>2, <2>1
  <2>3. /\ pushes' = <<>> => arg' = pushes[Len(pushes)]
        /\ pushes' # <<>> => pushes'[Len(pushes')] = pushes[Len(pushes)]
    BY <1>2, <2>1, BatchRest
  <2>4. int' = "push" /\ UNCHANGED <<win, dirty, flush, jobs, job, clone, desired, ens>>
    BY <1>12 DEF LaneTake, WindowVars, FxVars, SupVars, EnsVars
  <2>5. \A i \in DOMAIN pushes' : i + n \in DOMAIN pushes /\ pushes'[i] = pushes[i + n]
    BY <1>2, <2>1
  <2>6. Made'
    BY <1>1, <2>1, <2>4, <2>5 DEF Made
  <2>7. Unremembered'
    <3>1. last' \in Values
      BY <1>2, <1>3, <2>1
    <3> QED BY <1>3, <3>1 DEF Unremembered, Nothing, Values
  <2>8. LastPushed'
    BY <1>1, <2>2, <2>3, <2>4 DEF LastPushed
  <2>9. Arrived'
    BY <2>4 DEF Arrived, AllPushed
  <2> QED BY <2>6, <2>7, <2>8, <2>9
<1>13. CASE LanePush
  <2>1. /\ int = "push"
        /\ UNCHANGED <<win, dirty, flush, pushes, jobs, job, clone, desired, ens, last, host, rack>>
        /\ IF Accepts(arg) THEN int' = "mirror" /\ arg' = arg ELSE int' = "idle" /\ arg' = NoInserts
    BY <1>13 DEF LanePush, PushIntoRing, WindowVars, FxVars, SupVars, EnsVars, LastVars
  <2>2. Made'
    BY <1>1, <1>2, <1>3, <2>1 DEF Made
  <2>3. Unremembered'
    BY <1>1, <2>1 DEF Unremembered
  <2>4. LastPushed'
    BY <1>1, <2>1 DEF LastPushed
  <2>5. Arrived'
    <3> SUFFICES ASSUME AllPushed'
                 PROVE  /\ ~raced' /\ host.chain = win.chain => Effective' = win.val
                        /\ ens.step = "build" /\ ~missed' => ens.val = win.val
      BY <2>1 DEF Arrived
    <3>1. arg = win
      BY <1>1, <2>1 DEF LastPushed, AllPushed
    <3>2. missed' = (ens.step = "build" /\ win.val # ens.val)
      BY <1>13, <3>1 DEF LanePush, PushIntoRing
    <3>3. host.chain = win.chain => ring' = win.val
      BY <1>13, <3>1 DEF LanePush, PushIntoRing, Accepts
    <3>4. host.chain = win.chain => Effective' = win.val
      BY <1>2, <1>3, <3>3 DEF Effective
    <3> QED BY <3>2, <3>4
  <2> QED BY <2>2, <2>3, <2>4, <2>5
<1>14. CASE LaneMirror
  <2>1. /\ int = "mirror" /\ int' = "idle" /\ arg' = NoInserts /\ desired' = arg
        /\ UNCHANGED <<win, dirty, flush, pushes, jobs, job, clone, ens, last>>
    BY <1>14 DEF LaneMirror, WindowVars, FxVars, SupVars, LastVars
  <2>2. Made'
    BY <1>1, <1>2, <1>3, <2>1 DEF Made
  <2>3. Unremembered' /\ LastPushed'
    BY <1>1, <2>1 DEF Unremembered, LastPushed
  <2>4. Arrived'
    BY <1>1, <1>14, <2>1 DEF LaneMirror, NodeVars, Arrived, AllPushed, Effective
  <2> QED BY <2>2, <2>3, <2>4
<1>15. CASE FxTake
  <2>1. PICK n \in DOMAIN jobs :
            job' = jobs[n] /\ jobs' = SubSeq(jobs, n + 1, Len(jobs))
    BY <1>15 DEF FxTake
  <2>2. \A i \in DOMAIN jobs' : i + n \in DOMAIN jobs /\ jobs'[i] = jobs[i + n]
    BY <1>2, <2>1
  <2>3. desired' = job' /\ UNCHANGED <<WindowVars, pushes, LaneVars, clone, ens, last, NodeVars>>
    BY <1>15 DEF FxTake, LastVars, SupVars
  <2>4. Made'
    BY <1>1, <2>1, <2>2, <2>3 DEF Made, WindowVars, LaneVars
  <2> QED BY <1>5, <1>6, <1>7, <2>3, <2>4 DEF WindowVars, LaneVars, NodeVars
<1>16. CASE FxCall \/ Arm \/ SupBuild
  <2>1. PICK ins \in {job, desired, clone} : Begin(ins)
    BY <1>16 DEF FxCall, Arm, SupBuild
  <2>2. UNCHANGED <<win, edits, dirty, flush, pushes, int, arg, jobs, job, clone, desired, last, NodeVars>>
    BY <1>16 DEF FxCall, Arm, SupBuild, Begin, WindowVars, LaneVars, FxVars, SupVars, LastVars
  <2>3. ens'.step = "read" /\ ens'.spec = ins /\ ens'.val = ins.val
    BY <2>1 DEF Begin
  <2>4. Made'
    BY <1>1, <2>2, <2>3 DEF Made
  <2>5. Arrived'
    BY <1>1, <2>2, <2>3 DEF NodeVars, Arrived, AllPushed, Effective
  <2> QED BY <1>5, <1>6, <2>2, <2>4, <2>5
<1>17. CASE EnsRead
  <2>1. /\ ens.step = "read" /\ ens'.step = "build" /\ ens'.spec = ens.spec
        /\ ens'.val = IF last = Nothing THEN ens.val ELSE last
        /\ ens'.old = revived
    BY <1>2, <1>17 DEF EnsRead
  <2>2. UNCHANGED <<win, edits, dirty, flush, pushes, int, arg, jobs, job, clone, desired, last,
                    host, rack, ring, raced, undone>>
    BY <1>17 DEF EnsRead, WindowVars, LaneVars, FxVars, SupVars, LastVars
  <2>3. Made'
    <3>1. ens'.val <= win.val
      BY <1>1, <2>1 DEF Made
    <3> QED BY <1>1, <2>1, <2>2, <3>1 DEF Made
  <2>4. Arrived'
    <3> SUFFICES ASSUME AllPushed
                 PROVE  /\ ~raced /\ ~undone /\ host.chain = win.chain => Effective = win.val
                        /\ ~revived => ens'.val = win.val
      BY <2>1, <2>2 DEF Arrived, AllPushed, Effective
    <3>1. ~raced /\ ~undone /\ host.chain = win.chain => Effective = win.val
      BY <1>1 DEF Arrived
    <3>2. CASE last # Nothing
      BY <1>1, <2>1, <3>1, <3>2 DEF AllPushed, NewestOnItsWay
    <3>3. CASE last = Nothing
      <4>1. win.val = 0
        BY <1>1, <3>3 DEF AllPushed, Unremembered
      <4>2. ens.val <= 0 /\ ens.val \in Values
        BY <1>1, <1>2, <4>1 DEF Made
      <4> QED BY <1>3, <2>1, <3>1, <3>3, <4>1, <4>2
    <3> QED BY <3>1, <3>2, <3>3
  <2> QED BY <1>5, <1>6, <2>2, <2>3, <2>4
<1>18. CASE EnsFail \/ EnsPublish \/ EnsInsert
  <2>1. /\ ens' = NoEnsure /\ job' \in {job, NoInserts} /\ clone' \in {clone, NoInserts}
        /\ desired' \in {desired, ens.spec}
        /\ UNCHANGED <<win, edits, dirty, flush, pushes, int, arg, jobs, last>>
    BY <1>18 DEF EnsFail, EnsPublish, EnsInsert, EndEnsure, SupBuilt, SupEnd,
                 WindowVars, LaneVars, FxVars, SupVars, LastVars
  <2>2. Made'
    BY <1>1, <1>2, <1>3, <2>1 DEF Made
  <2>3. Arrived'
    <3>1. CASE EnsFail
      BY <1>1, <1>3, <2>1, <3>1 DEF EnsFail, Arrived, AllPushed, Effective
    <3>2. CASE EnsPublish \/ EnsInsert
      <4>1. ens.step = "build" /\ ring' = ens.val /\ raced' = missed /\ undone' = ens.old
        BY <3>2 DEF EnsPublish, EnsInsert
      <4>2. Effective' = ens.val
        BY <1>2, <1>3, <4>1 DEF Effective
      <4> QED BY <1>1, <1>3, <2>1, <4>1, <4>2 DEF Arrived, AllPushed
    <3> QED BY <1>18, <3>1, <3>2
  <2> QED BY <1>5, <1>6, <2>1, <2>2, <2>3
\* A clone that is remembered, and one that is pushed.
<1>19. CASE RouteTake \/ ArmRemember
  <2>1. PICK ins \in Clones \cup {clone} : clone' = ins /\ last' = ins.val
    BY <1>19 DEF RouteTake, Take, ArmRemember, RememberClone
  <2>2. UNCHANGED <<win, dirty, flush, pushes, int, arg, jobs, job, desired, ens, NodeVars>>
    BY <1>19 DEF RouteTake, ArmRemember, WindowVars, LaneVars, FxVars, EnsVars
  <2>3. ins.val \in Values /\ ins.val <= win.val
    BY <1>1, <1>2, <1>3 DEF Made
  <2>4. Made'
    BY <1>1, <2>1, <2>2, <2>3 DEF Made
  <2>5. Unremembered'
    BY <1>3, <2>1, <2>3 DEF Unremembered, Nothing, Values
  <2> QED BY <1>6, <1>7, <2>2, <2>4, <2>5 DEF NodeVars
<1>20. ASSUME PushClone, UNCHANGED <<win, dirty, flush, pushes, int, ens>> PROVE Arrived'
  <2> SUFFICES ASSUME AllPushed
               PROVE  /\ ~raced' /\ ~undone' /\ host.chain = win.chain => Effective' = win.val
                      /\ ens.step = "build" /\ ~missed' /\ ~ens.old => ens.val = win.val
    BY <1>20 DEF Arrived, AllPushed, PushClone
  <2>1. /\ ~raced /\ ~undone /\ host.chain = win.chain => Effective = win.val
        /\ ens.step = "build" /\ ~missed /\ ~ens.old => ens.val = win.val
    BY <1>1 DEF Arrived
  <2>2. CASE Accepts(clone)
    <3>1. ring' = clone.val /\ undone' = (clone.val # win.val) /\ clone.val # Nothing
      BY <1>2, <1>3, <1>20, <2>2 DEF PushClone
    <3> QED BY <1>20, <2>1, <3>1 DEF PushClone, Effective
  <2>3. CASE ~Accepts(clone)
    BY <1>20, <2>1, <2>3 DEF PushClone, Effective
  <2> QED BY <2>2, <2>3
<1>21. CASE RouteRefused \/ RoutePush
  <2>1. UNCHANGED <<win, dirty, flush, pushes, int, arg, jobs, job, clone, desired, ens, last>>
    BY <1>21 DEF RouteRefused, RoutePush, WindowVars, LaneVars, FxVars, EnsVars, LastVars
  <2>2. PushClone
    BY <1>21 DEF RouteRefused, RoutePush
  <2> QED BY <1>4, <1>5, <1>6, <1>20, <2>1, <2>2
<1>22. CASE ArmPush
  <2>1. /\ desired' \in {desired, clone} /\ clone' = NoInserts
        /\ UNCHANGED <<win, dirty, flush, pushes, int, arg, jobs, job, ens, last>>
    BY <1>22 DEF ArmPush, WriteClone, SupEnd, WindowVars, LaneVars, FxVars, EnsVars, LastVars
  <2>2. Made'
    BY <1>1, <1>2, <1>3, <2>1 DEF Made
  <2>3. Arrived'
    BY <1>20, <1>22, <2>1 DEF ArmPush
  <2> QED BY <1>5, <1>6, <2>1, <2>2, <2>3
\* A clone that is written into DesiredState.
<1>23. CASE SyncTake \/ RouteMirror \/ RouteSync \/ Resync
  <2>1. PICK ins \in Clones \cup {clone} :
            desired' = ins /\ clone' \in {clone, ins, NoInserts}
    BY <1>23 DEF SyncTake, Take, RouteMirror, RouteSync, SupEnd, Resync, WriteClone
  <2>2. UNCHANGED <<win, dirty, flush, pushes, int, arg, jobs, job, ens, last, NodeVars>>
    BY <1>23 DEF SyncTake, RouteMirror, RouteSync, Resync, WriteClone,
                 WindowVars, LaneVars, FxVars, LastVars
  <2>3. ins.val <= win.val /\ NoInserts.val <= win.val
    BY <1>1, <1>2, <1>3 DEF Made
  <2>4. Made'
    BY <1>1, <2>1, <2>2, <2>3 DEF Made
  <2> QED BY <1>5, <1>6, <1>7, <2>2, <2>4 DEF NodeVars
<1>24. CASE SupAdopt
  BY <1>4, <1>5, <1>6, <1>7, <1>24
     DEF SupAdopt, WindowVars, LaneVars, FxVars, EnsVars, LastVars, NodeVars
<1>25. CASE Callback \/ NodeDies
  <2>1. UNCHANGED <<WindowVars, pushes, LaneVars, jobs, FxVars, SupVars, EnsVars, LastVars,
                    missed, undone>>
    BY <1>25 DEF Callback, RtTake, RtDrain, NodeDies
  <2>2. host'.chain = host.chain /\ (~raced' => ~raced /\ Effective' = Effective)
    <3>1. CASE RtTake
      BY <3>1 DEF RtTake, Effective
    <3>2. CASE RtDrain
      BY <3>2 DEF RtDrain, Effective
    <3>3. CASE NodeDies
      BY <1>2, <3>3 DEF NodeDies, Effective
    <3> QED BY <1>25, <3>1, <3>2, <3>3 DEF Callback
  <2>3. Arrived'
    BY <1>1, <2>1, <2>2 DEF Arrived, AllPushed, WindowVars, LaneVars, EnsVars
  <2> QED BY <1>4, <1>5, <1>6, <2>1, <2>3
          DEF WindowVars, LaneVars, FxVars, SupVars, EnsVars, LastVars
<1>26. CASE UNCHANGED vars
  BY <1>4, <1>5, <1>6, <1>7, <1>26 DEF vars
<1> QED BY <1>8, <1>9, <1>10, <1>11, <1>12, <1>13, <1>14, <1>15, <1>16, <1>17, <1>18, <1>19,
           <1>21, <1>22, <1>23, <1>24, <1>25, <1>26
        DEF Next, Window, Lane, Ensure, Supervisor, Command

(* A control that is not in the published rack at rest met a rack being    *)
(* replaced, or an older clone pushed behind it: whatever else the window, *)
(* the lane, the FX thread, the Supervisor and the callback do, no gesture *)
(* is lost (LAST_CONTROLS, with_last_controls).                            *)
THEOREM OnlyRebuildLosesHolds == Spec => []OnlyRebuildLoses
<1>1. Init => GestureInv
  <2> SUFFICES ASSUME Init PROVE GestureInv
    OBVIOUS
  <2>1. NoInserts.val = 0 /\ NoEnsure.spec.val = 0 /\ NoEnsure.val = 0 /\ NoEnsure.step = "none"
    BY DEF NoInserts, NoEnsure
  <2>2. Made /\ Unremembered /\ LastPushed
    BY <2>1 DEF Init, Made, Unremembered, LastPushed
  <2>3. Arrived
    BY <2>1 DEF Init, Arrived, AllPushed, Effective
  <2> QED BY <2>2, <2>3, RememberInit DEF GestureInv
<1>2. GestureInv => OnlyRebuildLoses
  BY DEF GestureInv, Arrived, AllPushed, Effective, OnlyRebuildLoses, Quiet, PushesDone, EditsDone
<1> QED BY <1>1, <1>2, GestureNext, PTL DEF Spec
=============================================================================
