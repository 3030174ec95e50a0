--------------------------------- MODULE FxHost ---------------------------------
(***************************************************************************)
(* The insert host of one bus (engine/src/host/registry.rs): ensure_host   *)
(* rebuilds its chain while push_host_controls turns the same controls     *)
(* from two other threads.                                                 *)
(*                                                                         *)
(* Every chain contains one insert whose power switch is "the" control;    *)
(* its value is the number of the gesture.  The window throws the switch   *)
(* and edits the chain.  The Interactive lane repeats the window's pushes, *)
(* the FX thread calls ensure_host, the audio callback applies what waits  *)
(* in the ring to the rack it holds.  The Supervisor works from clones of  *)
(* the session: it pushes their controls, writes their chains into         *)
(* DesiredState and has them built.                                        *)
(***************************************************************************)
EXTENDS Naturals, Sequences

CONSTANTS
    Chains,      \* chains the user builds, told apart by inserts_signature
    First,       \* the chain the host runs at the start
    MaxGestures, \* bound: gestures of the user, on the control or the chain
    MaxOrders,   \* bound: commands that carry a clone of the session
    MaxFaults    \* bound: racks that cannot be built, filter threads that end

ASSUME ConstantsAssumption ==
    /\ First \in Chains
    /\ MaxGestures \in Nat /\ MaxOrders \in Nat
    /\ MaxFaults \in Nat

Values == 0 .. MaxGestures
Nothing == MaxGestures + 1     \* an empty ring, no LAST_CONTROLS entry
Inserts == [chain : Chains, val : Values]

VARIABLES
    win,       \* the window's inserts
    had,       \* the chains it has had
    edits,     \* edits so far
    dirty,     \* fx_dirty_tracks holds the track
    flush,     \* flush_fx_params_now and the params deadline: step
    pushes,    \* PushFxControls waiting for the Interactive lane
    int, arg,  \* that lane: step, the inserts it pushes
    jobs,      \* RewireTrackFx and FxEnsureJob, waiting for the FX thread
    fx, job,   \* that thread: step, its snapshot
    sup, kind, \* the Supervisor: step, command
    clone,     \* the inserts in the session that command carries
    orders,    \* clones used so far
    desired,   \* DesiredState.fx_chains[bus].inserts
    last,      \* the control in LAST_CONTROLS[bus]
    ens,       \* the call of ensure_host in progress; its caller holds ENGINE
    host,      \* HostTrack: fingerprint, node.is_running()
    rack,      \* the control in the published rack
    ring,      \* the newest message in the node's ring
    rt,        \* the callback: idle, on the published rack, on an old one
    missed,    \* history: a push came after the overlay of this ensure
    raced,     \* history: the newest push was lost to a rack being replaced
    undone,    \* history: the rack's newest control is a clone's older one
    revived,   \* history: and so is the one in LAST_CONTROLS
    late,      \* history: since the last job, a mirror or a clone put back a
               \* chain DesiredState had left
    fails, deaths

vars == <<win, had, edits, dirty, flush, pushes, int, arg, jobs, fx, job,
          sup, kind, clone, orders, desired, last, ens, host, rack, ring, rt,
          missed, raced, undone, revived, late, fails, deaths>>

WindowVars == <<win, had, edits, dirty, flush>>
LaneVars == <<int, arg>>
FxVars == <<fx, job>>
SupVars == <<sup, kind, clone, orders>>
NodeVars == <<host, rack, ring, rt, missed, raced, undone, deaths>>
LastVars == <<last, revived>>
EnsVars == <<ens, fails, desired, late>>

(* What a thread that holds no inserts is said to hold.                    *)
NoInserts == [chain |-> First, val |-> 0]
NoEnsure == [step |-> "none", spec |-> NoInserts, val |-> 0, cold |-> FALSE,
             old |-> FALSE]

WindowType ==
    /\ win \in Inserts /\ had \subseteq Chains /\ win.chain \in had
    /\ edits \in 0 .. MaxGestures
    /\ dirty \in BOOLEAN
    /\ flush \in {"idle", "remember", "push", "send"}

QueueType == pushes \in Seq(Inserts) /\ jobs \in Seq(Inserts)

ThreadType ==
    /\ int \in {"idle", "push", "mirror"} /\ arg \in Inserts
    /\ fx \in {"idle", "call", "wait"} /\ job \in Inserts
    /\ sup \in {"idle", "remember", "push", "mirror", "sync", "arm", "wait"}
    /\ kind \in {"route", "arm", "clock"} /\ clone \in Inserts
    /\ orders \in 0 .. MaxOrders

EnsType ==
    /\ ens \in [step : {"none", "read", "build"}, spec : Inserts,
                val : Values, cold : BOOLEAN, old : BOOLEAN]
    /\ fails \in 0 .. MaxFaults
    /\ desired \in Inserts
    /\ late \in BOOLEAN
    /\ last \in Values \cup {Nothing} /\ revived \in BOOLEAN

NodeType ==
    /\ host \in [chain : Chains, running : BOOLEAN]
    /\ rack \in Values
    /\ ring \in Values \cup {Nothing}
    /\ rt \in {"idle", "current", "old"}
    /\ missed \in BOOLEAN /\ raced \in BOOLEAN /\ undone \in BOOLEAN
    /\ deaths \in 0 .. MaxFaults

TypeOK == WindowType /\ QueueType /\ ThreadType /\ EnsType /\ NodeType

Init ==
    /\ win = NoInserts /\ desired = NoInserts
    /\ arg = NoInserts /\ job = NoInserts /\ clone = NoInserts
    /\ orders = 0 /\ had = {First} /\ edits = 0 /\ dirty = FALSE /\ flush = "idle"
    /\ pushes = <<>> /\ jobs = <<>>
    /\ int = "idle" /\ fx = "idle" /\ sup = "idle" /\ kind = "route"
    /\ last = Nothing
    /\ ens = NoEnsure
    /\ host = [chain |-> First, running |-> TRUE]
    /\ rack = 0 /\ ring = Nothing /\ rt = "idle"
    /\ missed = FALSE /\ raced = FALSE /\ undone = FALSE
    /\ revived = FALSE /\ late = FALSE
    /\ fails = 0 /\ deaths = 0

(* The bus has one engine: whoever builds a rack holds it from ensure_host  *)
(* on, and an arming from the push of a clone's controls to its mirror.    *)
EngineFree == ens.step = "none" /\ ~(kind = "arm" /\ sup = "push")

(* What a clone of the session can hold.  It waits in a queue, in          *)
(* last_session or in the shared slot, and the lane writes the values it   *)
(* pushes into the chain it has, so that a chain and a value need not have *)
(* been the window's at the same time.                                     *)
Clones == [chain : had, val : 0 .. win.val]

-----------------------------------------------------------------------------
(* The two critical sections of push_host_controls.  The first is under    *)
(* LAST_CONTROLS.                                                          *)
RememberMatching(ins) ==
    /\ last' = IF host.chain = ins.chain THEN ins.val ELSE last
    /\ revived' = (revived /\ ins.val # win.val)

Remember(ins) ==
    /\ last' = ins.val
    /\ revived' = (revived /\ ins.val # win.val)

RememberClone(ins) ==
    /\ last' = ins.val
    /\ revived' = (ins.val # win.val)

(* The second is under REGISTRY: refused when the fingerprint differs,     *)
(* or the bus has no host.  A push that comes while a rack is built goes   *)
(* to the ring of the rack that is about to be replaced; unless the build  *)
(* has the same value, the publication will miss it.                       *)
Accepts(ins) == host.chain = ins.chain

PushIntoRing(ins) ==
    /\ ring' = IF Accepts(ins) THEN ins.val ELSE ring
    /\ raced' = (raced /\ ~Accepts(ins))
    /\ undone' = (undone /\ ~(Accepts(ins) /\ ins.val = win.val))
    /\ missed' = (ens.step = "build" /\ ins.val # ens.val)
    /\ UNCHANGED <<host, rack, rt, deaths>>

(* The same by the Supervisor, whose value may be an older one.            *)
PushClone ==
    /\ ring' = IF Accepts(clone) THEN clone.val ELSE ring
    /\ raced' = (raced /\ ~Accepts(clone))
    /\ undone' = IF Accepts(clone) THEN clone.val # win.val ELSE undone
    /\ missed' = IF clone.val = win.val
                    THEN ens.step = "build" /\ clone.val # ens.val
                    ELSE missed
    /\ UNCHANGED <<host, rack, rt, deaths>>

-----------------------------------------------------------------------------
(* The window throws the switch: at once, or with the params deadline that *)
(* only sends the command.                                                 *)
Toggle ==
    /\ flush = "idle" /\ win.val + edits < MaxGestures
    /\ win' = [win EXCEPT !.val = @ + 1]
    /\ flush' \in {"remember", "send"}
    /\ UNCHANGED <<had, edits, dirty, pushes, LaneVars, jobs, FxVars, EnsVars,
                   LastVars, NodeVars, SupVars>>

FlushRemember ==
    /\ flush = "remember"
    /\ Remember(win)
    /\ flush' = "push"
    /\ UNCHANGED <<win, had, edits, dirty, pushes, LaneVars, jobs, FxVars, EnsVars,
                   NodeVars, SupVars>>

FlushPush ==
    /\ flush = "push"
    /\ PushIntoRing(win)
    /\ pushes' = Append(pushes, win)
    /\ flush' = "idle"
    /\ UNCHANGED <<win, had, edits, dirty, LaneVars, jobs, FxVars, EnsVars, LastVars, SupVars>>

FlushSend ==
    /\ flush = "send"
    /\ pushes' = Append(pushes, win)
    /\ flush' = "idle"
    /\ UNCHANGED <<win, had, edits, dirty, LaneVars, jobs, FxVars, EnsVars, LastVars, NodeVars, SupVars>>

(* schedule_fx_rewire: an insert is added, removed or moved; the command   *)
(* waits for the coalescing deadline.                                      *)
EditChain ==
    /\ flush = "idle" /\ win.val + edits < MaxGestures
    /\ \E c \in Chains \ {win.chain} :
        win' = [win EXCEPT !.chain = c] /\ had' = had \cup {c}
    /\ edits' = edits + 1
    /\ dirty' = TRUE
    /\ UNCHANGED <<flush, pushes, LaneVars, jobs, FxVars, EnsVars, LastVars, NodeVars, SupVars>>

(* The tick after the deadline sends the job and, behind it, the controls. *)
RewireTick ==
    /\ dirty /\ flush = "idle"
    /\ dirty' = FALSE
    /\ jobs' = Append(jobs, win)
    /\ pushes' = Append(pushes, win)
    /\ UNCHANGED <<win, had, edits, flush, LaneVars, FxVars, EnsVars, LastVars, NodeVars, SupVars>>

Window == Toggle \/ FlushRemember \/ FlushPush \/ FlushSend \/ EditChain \/ RewireTick

-----------------------------------------------------------------------------
(* The Interactive lane takes a batch, keeps its last PushFxControls and   *)
(* remembers it.  Whatever comes between the two is as if it came before:  *)
(* the batch may be any prefix of the queue.                               *)
LaneTake ==
    /\ int = "idle"
    /\ \E n \in DOMAIN pushes :
        /\ arg' = pushes[n]
        /\ pushes' = SubSeq(pushes, n + 1, Len(pushes))
        /\ Remember(pushes[n])
    /\ int' = "push"
    /\ UNCHANGED <<WindowVars, jobs, FxVars, EnsVars, NodeVars, SupVars>>

(* A refusal ends the command: neither of the two error texts is one that  *)
(* schedule_props_retry waits for, and the mirror is skipped.              *)
LanePush ==
    /\ int = "push"
    /\ PushIntoRing(arg)
    /\ int' = IF Accepts(arg) THEN "mirror" ELSE "idle"
    /\ arg' = IF Accepts(arg) THEN arg ELSE NoInserts
    /\ UNCHANGED <<WindowVars, pushes, jobs, FxVars, EnsVars, LastVars, SupVars>>

(* engine_handle::push_fx_controls, its second half, under ENGINE.         *)
LaneMirror ==
    /\ int = "mirror" /\ EngineFree
    /\ desired' = arg
    /\ late' = (late \/ arg.chain # desired.chain)
    /\ int' = "idle" /\ arg' = NoInserts
    /\ UNCHANGED <<WindowVars, pushes, jobs, FxVars, ens, fails, LastVars, NodeVars, SupVars>>

Lane == LaneTake \/ LanePush \/ LaneMirror

-----------------------------------------------------------------------------
FxTakeFirst ==
    /\ fx = "idle" /\ EngineFree
    /\ \E n \in DOMAIN jobs :
        /\ job' = jobs[1]
        /\ jobs' = SubSeq(jobs, n + 1, Len(jobs))
    /\ desired' = job' /\ late' = FALSE
    /\ fx' = "call"
    /\ UNCHANGED <<WindowVars, pushes, LaneVars, ens, fails, LastVars, NodeVars, SupVars>>

(* The FX thread takes what waits and keeps the latest job of the track.   *)
(* rewire_track_fx holds ENGINE twice: sync_desired_from_session, then     *)
(* ensure_fx_chain with ForceRespawn.                                      *)
FxTake ==
    /\ fx = "idle" /\ EngineFree
    /\ \E n \in DOMAIN jobs :
        /\ job' = jobs[n]
        /\ jobs' = SubSeq(jobs, n + 1, Len(jobs))
    /\ desired' = job' /\ late' = FALSE
    /\ fx' = "call"
    /\ UNCHANGED <<WindowVars, pushes, LaneVars, ens, fails, LastVars, NodeVars, SupVars>>

(* The first section of ensure_host decides between a new rack for the     *)
(* running node and a new node.                                            *)
Begin(ins) ==
    /\ EngineFree
    /\ ens' = [step |-> "read", spec |-> ins, val |-> ins.val, cold |-> ~host.running,
               old |-> FALSE]
    /\ late' = (late \/ ins.chain # desired.chain)
    /\ UNCHANGED <<fails, desired>>

FxCall ==
    /\ fx = "call"
    /\ Begin(job)
    /\ fx' = "wait"
    /\ UNCHANGED <<WindowVars, pushes, LaneVars, jobs, job, LastVars, NodeVars, SupVars>>

(* A tick or a reconcile brings up from DesiredState the hosts that do not *)
(* run or have another chain, and with force_fx every host.                *)
Arm ==
    /\ Begin(desired)
    /\ UNCHANGED <<WindowVars, pushes, LaneVars, jobs, FxVars, LastVars, NodeVars, SupVars>>

(* with_last_controls, last of all before the build: LAST_CONTROLS wins    *)
(* over the snapshot and over what was harvested from the old rack.        *)
EnsReadSnapshotOnly ==
    /\ ens.step = "read"
    /\ ens' = [ens EXCEPT !.step = "build", !.old = revived]
    /\ missed' = FALSE
    /\ UNCHANGED <<WindowVars, pushes, LaneVars, jobs, FxVars, fails, desired, late,
                   LastVars, host, rack, ring, rt, raced, undone, deaths, SupVars>>

EnsReadNoDefault ==
    /\ ens.step = "read"
    /\ ens' = [ens EXCEPT !.step = "build", !.old = revived, !.val = last]
    /\ missed' = FALSE
    /\ UNCHANGED <<WindowVars, pushes, LaneVars, jobs, FxVars, fails, desired, late,
                   LastVars, host, rack, ring, rt, raced, undone, deaths, SupVars>>

EnsRead ==
    /\ ens.step = "read"
    /\ ens' = [ens EXCEPT !.step = "build", !.old = revived,
                          !.val = IF last = Nothing THEN @ ELSE last]
    /\ missed' = FALSE
    /\ UNCHANGED <<WindowVars, pushes, LaneVars, jobs, FxVars, fails, desired, late,
                   LastVars, host, rack, ring, rt, raced, undone, deaths, SupVars>>

(* The Supervisor's command ends; an arming pushes first, whether its      *)
(* chains could be built or not.                                           *)
SupEnd ==
    sup' = "idle" /\ kind' = "route" /\ clone' = NoInserts /\ orders' = orders

SupBuilt ==
    \/ kind = "arm" /\ sup' = "remember" /\ UNCHANGED <<kind, clone, orders>>
    \/ kind # "arm" /\ SupEnd

(* The call returns to its caller, which releases ENGINE.                  *)
EndEnsure ==
    /\ ens' = NoEnsure /\ missed' = FALSE
    /\ IF fx = "wait" THEN fx' = "idle" /\ job' = NoInserts
                      ELSE UNCHANGED FxVars
    /\ IF sup = "wait" THEN SupBuilt ELSE UNCHANGED SupVars

EnsFailLosesThread ==
    /\ ens.step = "build" /\ fails + deaths < MaxFaults
    /\ fails' = fails + 1
    /\ ens' = NoEnsure /\ missed' = FALSE
    /\ UNCHANGED <<WindowVars, pushes, LaneVars, jobs, FxVars, desired, late, LastVars,
                   host, rack, ring, rt, raced, undone, deaths, SupVars>>

(* Rack::build or PwFxNode::start fails: the old rack stays.               *)
EnsFail ==
    /\ ens.step = "build" /\ fails + deaths < MaxFaults
    /\ fails' = fails + 1
    /\ EndEnsure
    /\ UNCHANGED <<WindowVars, pushes, LaneVars, jobs, desired, late, LastVars,
                   host, rack, ring, rt, raced, undone, deaths>>

(* Second REGISTRY section: fingerprint, rack and the controls it was      *)
(* built with; then ensure_fx_chain notes the chain in DesiredState.       *)
EnsPublish ==
    /\ ens.step = "build" /\ ~ens.cold
    /\ host' = [host EXCEPT !.chain = ens.spec.chain]
    /\ rack' = ens.val
    /\ ring' = ens.val
    /\ rt' = IF rt = "current" THEN "old" ELSE rt
    /\ desired' = ens.spec
    /\ raced' = missed /\ undone' = ens.old
    /\ late' = (late /\ fx # "wait")
    /\ EndEnsure
    /\ UNCHANGED <<WindowVars, pushes, LaneVars, jobs, fails, LastVars, deaths>>

(* The cold path registers a new node, and drops the dead one.             *)
EnsInsert ==
    /\ ens.step = "build" /\ ens.cold
    /\ host' = [chain |-> ens.spec.chain, running |-> TRUE]
    /\ rack' = ens.val
    /\ ring' = ens.val
    /\ rt' = "idle"
    /\ desired' = ens.spec
    /\ raced' = missed /\ undone' = ens.old
    /\ late' = (late /\ fx # "wait")
    /\ EndEnsure
    /\ UNCHANGED <<WindowVars, pushes, LaneVars, jobs, fails, LastVars, deaths>>

Ensure == EnsRead \/ EnsFail \/ EnsPublish \/ EnsInsert

-----------------------------------------------------------------------------
(* The Supervisor's commands.  RewireSessionRoutes pushes the controls of  *)
(* its clone and rewires; arm_session writes the clone into DesiredState,  *)
(* arms (or adopts what runs) and pushes; ClockBind rewires the clone's    *)
(* chain as the FX thread does.                                            *)
Take(k, ins) ==
    /\ sup = "idle" /\ orders < MaxOrders
    /\ orders' = orders + 1 /\ kind' = k /\ clone' = ins

(* sync_desired_from_session, and the mirrors: DesiredState gets the       *)
(* clone's inserts.                                                        *)
WriteClone(ins) ==
    /\ desired' = ins
    /\ late' = (late \/ ins.chain # desired.chain)
    /\ UNCHANGED <<ens, fails>>

RouteTake ==
    /\ \E ins \in Clones : Take("route", ins) /\ RememberClone(ins)
    /\ sup' = "push"
    /\ UNCHANGED <<WindowVars, pushes, LaneVars, jobs, FxVars, EnsVars, NodeVars>>

SyncTake ==
    /\ EngineFree
    /\ \E k \in {"arm", "clock"}, ins \in Clones : Take(k, ins) /\ WriteClone(ins)
    /\ sup' = "arm"
    /\ UNCHANGED <<WindowVars, pushes, LaneVars, jobs, FxVars, LastVars, NodeVars>>

(* A refusal skips the mirror, and the command goes on.                    *)
RouteRefused ==
    /\ sup = "push" /\ kind = "route" /\ ~Accepts(clone)
    /\ PushClone
    /\ sup' = "sync"
    /\ UNCHANGED <<WindowVars, pushes, LaneVars, jobs, FxVars, kind, clone, orders, EnsVars,
                   LastVars>>

RoutePush ==
    /\ sup = "push" /\ kind = "route" /\ Accepts(clone)
    /\ PushClone
    /\ sup' = "mirror"
    /\ UNCHANGED <<WindowVars, pushes, LaneVars, jobs, FxVars, kind, clone, orders, EnsVars,
                   LastVars>>

(* An arming pushes and mirrors in one hold of ENGINE.                     *)
ArmRemember ==
    /\ sup = "remember" /\ EngineFree
    /\ RememberClone(clone)
    /\ sup' = "push"
    /\ UNCHANGED <<WindowVars, pushes, LaneVars, jobs, FxVars, kind, clone, orders, EnsVars,
                   NodeVars>>

ArmPush ==
    /\ sup = "push" /\ kind = "arm"
    /\ PushClone
    /\ IF Accepts(clone) THEN WriteClone(clone) ELSE UNCHANGED EnsVars
    /\ SupEnd
    /\ UNCHANGED <<WindowVars, pushes, LaneVars, jobs, FxVars, LastVars>>

RouteMirror ==
    /\ sup = "mirror" /\ EngineFree
    /\ WriteClone(clone)
    /\ sup' = "sync"
    /\ UNCHANGED <<WindowVars, pushes, LaneVars, jobs, FxVars, kind, clone, orders, LastVars,
                   NodeVars>>

RouteSync ==
    /\ sup = "sync" /\ EngineFree
    /\ WriteClone(clone)
    /\ SupEnd
    /\ UNCHANGED <<WindowVars, pushes, LaneVars, jobs, FxVars, LastVars, NodeVars>>

SupBuild ==
    /\ sup = "arm"
    /\ Begin(IF kind = "arm" THEN desired ELSE clone)
    /\ sup' = "wait"
    /\ UNCHANGED <<WindowVars, pushes, LaneVars, jobs, FxVars, kind, clone, orders, LastVars,
                   NodeVars>>

(* The host runs with the chain of DesiredState.                           *)
SupAdopt ==
    /\ sup = "arm" /\ kind = "arm" /\ EngineFree
    /\ host.running /\ host.chain = desired.chain
    /\ sup' = "remember"
    /\ UNCHANGED <<WindowVars, pushes, LaneVars, jobs, FxVars, kind, clone, orders, EnsVars,
                   LastVars, NodeVars>>

Command ==
    \/ RouteRefused \/ RoutePush \/ RouteMirror \/ RouteSync
    \/ SupBuild \/ SupAdopt \/ ArmRemember \/ ArmPush

(* Every other call of sync_desired_from_session: Supervisor and           *)
(* Interactive commands, the lane's pass over the playing applications.    *)
Resync ==
    /\ EngineFree /\ orders < MaxOrders
    /\ orders' = orders + 1
    /\ \E ins \in Clones : WriteClone(ins)
    /\ UNCHANGED <<WindowVars, pushes, LaneVars, jobs, FxVars, LastVars, NodeVars,
                   sup, kind, clone>>

Supervisor == RouteTake \/ SyncTake \/ Command \/ Resync

-----------------------------------------------------------------------------
(* on_process, two steps: it takes its rack, and it drains the ring into   *)
(* that rack.                                                              *)
RtTake ==
    /\ rt = "idle" /\ host.running
    /\ rt' = "current"
    /\ UNCHANGED <<WindowVars, pushes, LaneVars, jobs, FxVars, EnsVars, LastVars,
                   host, rack, ring, missed, raced, undone, deaths, SupVars>>

RtDrain ==
    /\ rt # "idle"
    /\ rack' = IF rt = "current" /\ ring # Nothing THEN ring ELSE rack
    /\ raced' = (raced \/ (ring # Nothing /\ ring # rack'))
    /\ ring' = Nothing
    /\ rt' = "idle"
    /\ UNCHANGED <<WindowVars, pushes, LaneVars, jobs, FxVars, EnsVars, LastVars,
                   host, missed, undone, deaths, SupVars>>

(* The filter thread ends, with the connection or by an error.             *)
NodeDies ==
    /\ host.running /\ rt = "idle" /\ fails + deaths < MaxFaults
    /\ host' = [host EXCEPT !.running = FALSE]
    /\ deaths' = deaths + 1
    /\ UNCHANGED <<WindowVars, pushes, LaneVars, jobs, FxVars, EnsVars, LastVars,
                   rack, ring, rt, missed, raced, undone, SupVars>>

Callback == RtTake \/ RtDrain

Next ==
    \/ Window \/ Lane
    \/ FxTake \/ FxCall \/ Arm \/ Ensure
    \/ Supervisor \/ Callback \/ NodeDies

Spec == Init /\ [][Next]_vars

-----------------------------------------------------------------------------
PushesDone == flush = "idle" /\ pushes = <<>> /\ int = "idle"
EditsDone == ~dirty /\ jobs = <<>> /\ fx = "idle" /\ ens.step = "none"
Quiet == PushesDone /\ EditsDone /\ host.running /\ ring = Nothing

(* The lane may repeat an old gesture behind a new one of the window; when *)
(* all have been pushed, what the next rebuild will overlay is the         *)
(* window's control, refused pushes included.  Only an older clone that    *)
(* the Supervisor pushes behind them (its route command and its arming do) *)
(* brings an older value back, and then the next gesture repairs it.       *)
RememberedNewest == PushesDone /\ last # Nothing /\ ~revived => last = win.val

(* Jobs that replace each other, armings and deaths of the host leave      *)
(* neither the host nor DesiredState with a chain the window has already   *)
(* changed: only a mirror that waited for ENGINE while the chain was       *)
(* replaced, or an older clone, can, and then the next job repairs it.     *)
ChainConverges ==
    Quiet /\ fails = 0 /\ ~late =>
        host.chain = win.chain /\ desired.chain = win.chain

(* A gesture that is not heard in the end met a rack being replaced: it    *)
(* was pushed between the overlay and the publication, or drained into the *)
(* old rack.  Or a clone the Supervisor pushed behind it undid it, in the  *)
(* ring or by way of LAST_CONTROLS.  Nothing else loses one.               *)
OnlyRebuildLoses ==
    Quiet /\ host.chain = win.chain /\ ~raced /\ ~undone => rack = win.val

(* Nobody waits for nobody: as long as a push, an edit or a command is     *)
(* under way, one of the threads that carry it can take a step, failed     *)
(* builds included.                                                        *)
Carriers ==
    \/ EnsRead \/ EnsPublish \/ EnsInsert
    \/ FlushRemember \/ FlushPush \/ FlushSend \/ RewireTick
    \/ LanePush \/ RouteRefused \/ RoutePush \/ ArmPush \/ RouteMirror \/ RouteSync
    \/ SupBuild \/ ArmRemember
    \/ LaneTake \/ LaneMirror \/ FxTake \/ FxCall

NeverStuck == ~(PushesDone /\ EditsDone /\ sup = "idle") => ENABLED Carriers
=============================================================================
