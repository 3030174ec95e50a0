----------------------------- MODULE SessionLanes -----------------------------
(***************************************************************************)
(* The session and its copies (app/src/app_state.rs, audio/worker.rs,      *)
(* audio/engine_handle.rs).  The window owns the session; every command    *)
(* carries a clone of it.  A router sorts the commands into the lanes of   *)
(* two threads, the supervisor (structure) and the interactive lane (apps, *)
(* default sink).  Each lane keeps the clone it saw last, both mirror it   *)
(* in SharedSessionSlot under a generation, and both replace the engine's  *)
(* whole DesiredState from a clone.  A third thread rewires FX racks.      *)
(*                                                                         *)
(* A clone is the set of the window's edits it contains; kind[e] is what   *)
(* edit e did.  The "fx" edits are all on one track, which "prune"         *)
(* removes; the "capture" and "route" edits are on the inputs and outputs  *)
(* of another; the other kinds touch other parts of the session.  PipeWire *)
(* calls succeed.                                                          *)
(***************************************************************************)
EXTENDS Naturals, FiniteSets, Sequences, SequencesExt

CONSTANTS
    Kinds,      \* the kinds of edits that are made
    MaxEdit     \* bound: edits

SupKinds == {"apply", "route", "ensure", "prune", "fx"}
IntKinds == {"capture", "play", "pick"}

ASSUME KindsAssumption ==
    Kinds \subseteq SupKinds \cup IntKinds /\ MaxEdit \in Nat

VARIABLES
    kind,          \* the edits so far, each with its kind
    ui, fxDue,     \* the window's session, hotplug_deadline is set
    events,        \* SessionApplied of kind Full on their way to the window
    supQ, intQ,    \* commands in the lanes
    slot,          \* SharedSessionSlot: [s, gen]
    sup, int,      \* the lanes: [pc, last, gen, work]
    jobs, done,    \* channels to and from the FX thread
    fx,            \* the FX thread: [pc, s]
    desired,       \* the engine's DesiredState
    lost           \* edits a stale clone or a dropped command undid (history)

uiVars == <<kind, ui, fxDue, events>>
fxVars == <<jobs, done, fx>>
vars == <<uiVars, supQ, intQ, slot, sup, int, fxVars, desired, lost>>

Edits == 1 .. MaxEdit
Made == DOMAIN kind
Clones == SUBSET Edits
Commands == [kind : Kinds, s : Clones, e : Edits]
Lanes == [last : Clones, gen : Nat, work : Seq(Commands),
          pc : {"pull", "publish", "merge", "recv", "run", "again", "auth",
                "sweep", "reclaim", "prefer", "place", "rack"}]

TypeOK ==
    /\ kind \in Seq(Kinds) /\ Len(kind) <= MaxEdit
    /\ ui \cup desired \cup lost \subseteq Made
    /\ ui \in Clones /\ fxDue \in BOOLEAN /\ events \in Seq(Clones)
    /\ supQ \in Seq(Commands) /\ intQ \in Seq(Commands)
    /\ slot \in [s : Clones, gen : Nat]
    /\ sup \in Lanes /\ int \in Lanes
    /\ sup.gen <= slot.gen /\ int.gen <= slot.gen
    /\ jobs \in Seq(Clones) /\ done \in Seq(Clones)
    /\ fx \in [pc : {"idle", "run", "built"}, s : Clones]
    /\ desired \in Clones /\ lost \in Clones

(* A session is loaded, applied and known to both lanes.                   *)
Init ==
    /\ kind = <<>> /\ ui = {} /\ fxDue = FALSE /\ events = <<>>
    /\ supQ = <<>> /\ intQ = <<>>
    /\ slot = [s |-> {}, gen |-> 1]
    /\ sup = [pc |-> "pull", last |-> {}, gen |-> 1, work |-> <<>>]
    /\ int = [pc |-> "pull", last |-> {}, gen |-> 1, work |-> <<>>]
    /\ jobs = <<>> /\ done = <<>> /\ fx = [pc |-> "idle", s |-> {}]
    /\ desired = {} /\ lost = {}

-----------------------------------------------------------------------------
(* The edits of kind k in a clone; whether it still has the FX track.      *)
Of(k, s) == {e \in s : kind[e] = k}
HasTrack(s) == Of("prune", s) = {}

(* sync_desired_from_session: the clone replaces DesiredState.             *)
Sync(s) ==
    /\ desired' = s
    /\ lost' = lost \cup (desired \ s)

PulledIfOlder(lane) ==
    IF slot.gen < lane.gen
      THEN [lane EXCEPT !.last = slot.s, !.gen = slot.gen]
      ELSE lane

(* pull_shared_session_if_newer                                            *)
Pulled(lane) ==
    IF slot.gen > lane.gen
      THEN [lane EXCEPT !.last = slot.s, !.gen = slot.gen]
      ELSE lane

(* publish_shared_session                                                  *)
Published(lane) ==
    IF slot.gen > lane.gen THEN slot ELSE [slot EXCEPT !.s = lane.last]

(* publish_shared_session_authority                                        *)
Authority(s) == [s |-> s, gen |-> slot.gen + 1]

(* merge_ensure_track: the rack of the job; a track that the lane's clone  *)
(* has lost comes back with it.                                            *)
Merged(last, s) ==
    LET rest == last \ Of("fx", last)
        back == IF HasTrack(last) THEN {} ELSE Of("prune", rest)
    IN  (rest \ back) \cup Of("fx", s)

-----------------------------------------------------------------------------
(* One edit of the window; its command carries the session with the edit.  *)
Cmd(e, k, s) == [kind |-> k, s |-> s, e |-> e]

UiEdit(k) ==
    /\ k \in Kinds /\ Len(kind) < MaxEdit
    /\ kind' = Append(kind, k)
    /\ ui' = ui \cup {Len(kind) + 1}

Sent(k) == Cmd(Len(kind'), k, ui')

(* commit with a surgical change, and apply_pending_track_remove: the      *)
(* router brings the command to its lane (command_lane).                   *)
UiStructural ==
    \E k \in {"ensure", "prune"} :
        /\ UiEdit(k)
        /\ k = "prune" => HasTrack(ui)
        /\ supQ' = Append(supQ, Sent(k))
        /\ UNCHANGED <<fxDue, events, intQ, slot, sup, int, fxVars, desired, lost>>

(* The outputs or the direct flag of the strip: the window patches them in *)
(* DesiredState itself, unless the engine is busy (patch_bus_egress), and  *)
(* sends the session for the links.                                        *)
UiRoute ==
    /\ UiEdit("route")
    /\ supQ' = Append(supQ, Sent("route"))
    /\ \/ UNCHANGED <<desired, lost>>
       \/ /\ desired' = {e \in desired : kind[e] # "route"} \cup Of("route", ui)
                          \cup {Len(kind')}
          /\ lost' = lost \cup (desired \ desired')
    /\ UNCHANGED <<fxDue, events, intQ, slot, sup, int, fxVars>>

UiInteractive ==
    \E k \in IntKinds :
        /\ UiEdit(k)
        /\ intQ' = Append(intQ, Sent(k))
        /\ UNCHANGED <<fxDue, events, supQ, slot, sup, int, fxVars, desired, lost>>

(* commit(Reconcile): the apply covers the pending rack edits.             *)
UiApply ==
    /\ UiEdit("apply")
    /\ fxDue' = FALSE
    /\ supQ' = Append(supQ, Sent("apply"))
    /\ UNCHANGED <<events, intQ, slot, sup, int, fxVars, desired, lost>>

(* commit(FxRewire): an edit of the rack waits for the coalescing gap ...  *)
UiFx ==
    /\ HasTrack(ui)
    /\ UiEdit("fx")
    /\ fxDue' = TRUE
    /\ UNCHANGED <<events, supQ, intQ, slot, sup, int, fxVars, desired, lost>>

(* ... and tick sends the session as it is when the gap is over.           *)
UiFlushFx ==
    /\ fxDue
    /\ fxDue' = FALSE
    /\ supQ' = Append(supQ, Cmd(Len(kind), "fx", ui))
    /\ UNCHANGED <<kind, ui, events, intQ, slot, sup, int, fxVars, desired, lost>>

(* SessionApplied of kind Full: the window adopts the worker's clone.      *)
UiAdopt ==
    /\ events # <<>>
    /\ ui' = Head(events)
    /\ events' = Tail(events)
    /\ lost' = lost \cup (ui \ Head(events))
    /\ UNCHANGED <<kind, fxDue, supQ, intQ, slot, sup, int, fxVars, desired>>

Ui == UiStructural \/ UiRoute \/ UiInteractive \/ UiApply \/ UiFx \/ UiFlushFx \/ UiAdopt

-----------------------------------------------------------------------------
LastOf(cmds) == IF cmds = <<>> THEN <<>> ELSE <<Last(cmds)>>

(* The commands of the kinds ks, in their order.                           *)
OfKind(batch, ks) ==
    LET keep == {i \in DOMAIN batch : batch[i].kind \in ks}
        Rank(i) == Cardinality({j \in keep : j <= i})
    IN  [n \in 1 .. Cardinality(keep) |-> batch[CHOOSE i \in keep : Rank(i) = n]]

FirstOf(cmds) == IF cmds = <<>> THEN <<>> ELSE <<Head(cmds)>>

CoalesceOldestRewire(batch) ==
    OfKind(batch, {"pick"}) \o OfKind(batch, {"ensure", "prune"})
      \o LastOf(OfKind(batch, {"capture"})) \o LastOf(OfKind(batch, {"play"}))
      \o OfKind(batch, {"apply"})
      \o FirstOf(OfKind(batch, {"fx"})) \o LastOf(OfKind(batch, {"route"}))

(* coalesce_commands: classes A, B and C, the latest rewires at the end.   *)
Coalesce(batch) ==
    OfKind(batch, {"pick"}) \o OfKind(batch, {"ensure", "prune"})
      \o LastOf(OfKind(batch, {"capture"})) \o LastOf(OfKind(batch, {"play"}))
      \o OfKind(batch, {"apply"})
      \o LastOf(OfKind(batch, {"fx"})) \o LastOf(OfKind(batch, {"route"}))

(* A lane's thread at its recv takes what has arrived.                     *)
Took(lane, q, n) ==
    [lane EXCEPT !.pc = "run", !.work = Coalesce(SubSeq(q, 1, n))]
Left(q, n) == SubSeq(q, n + 1, Len(q))

Current(lane) == Head(lane.work)
Finished(lane, s) == [lane EXCEPT !.pc = "run", !.last = s, !.work = Tail(@)]
Busy(lane, k) == lane.pc = "run" /\ lane.work # <<>> /\ Current(lane).kind \in k

-----------------------------------------------------------------------------
(* supervisor_loop: pull, merge the racks that are done, wait.             *)
SupPull ==
    /\ sup.pc = "pull"
    /\ sup' = [Pulled(sup) EXCEPT !.pc = "merge"]
    /\ UNCHANGED <<uiVars, supQ, intQ, slot, int, fxVars, desired, lost>>

SupMerge ==
    /\ sup.pc = "merge" /\ done # <<>>
    /\ sup' = [sup EXCEPT !.last = Merged(@, Head(done))]
    /\ slot' = Published(sup')
    /\ done' = Tail(done)
    /\ UNCHANGED <<uiVars, supQ, intQ, int, jobs, fx, desired, lost>>

SupWait ==
    /\ sup.pc = "merge" /\ done = <<>>
    /\ sup' = [sup EXCEPT !.pc = "recv"]
    /\ UNCHANGED <<uiVars, supQ, intQ, slot, int, fxVars, desired, lost>>

SupTake ==
    /\ sup.pc = "recv"
    /\ \E n \in 1 .. Len(supQ) :
        sup' = Took(sup, supQ, n) /\ supQ' = Left(supQ, n)
    /\ UNCHANGED <<uiVars, intQ, slot, int, fxVars, desired, lost>>

(* Nothing came in time; on some ticks the idle work is due.               *)
SupTimeout ==
    /\ sup.pc = "recv" /\ supQ = <<>>
    /\ \E next \in {"pull", "sweep", "reclaim"} :
        sup' = [sup EXCEPT !.pc = next]
    /\ UNCHANGED <<uiVars, supQ, intQ, slot, int, fxVars, desired, lost>>

(* "rx.try_recv().is_err()" asks whether a command is waiting by taking it. *)
Swallow ==
    /\ supQ' = Tail(supQ)
    /\ lost' = lost \cup (Head(supQ).s \ desired)

SupSweep ==
    /\ sup.pc = "sweep"
    /\ IF supQ = <<>> THEN UNCHANGED <<supQ, lost>> ELSE Swallow
    /\ \E next \in {"pull", "reclaim"} : sup' = [sup EXCEPT !.pc = next]
    /\ UNCHANGED <<uiVars, intQ, slot, int, fxVars, desired>>

(* The reclaim of apps: sync_playback of the lane's own clone.             *)
SupReclaim ==
    /\ sup.pc = "reclaim"
    /\ IF supQ = <<>>
         THEN Sync(sup.last) /\ UNCHANGED supQ
         ELSE Swallow /\ UNCHANGED desired
    /\ sup' = [sup EXCEPT !.pc = "pull"]
    /\ UNCHANGED <<uiVars, intQ, slot, int, fxVars>>

(* RewireSessionRoutes and PruneTrack.                                     *)
SupRewire ==
    /\ Busy(sup, {"route", "prune"})
    /\ Sync(Current(sup).s)
    /\ sup' = Finished(sup, Current(sup).s)
    /\ UNCHANGED <<uiVars, supQ, intQ, slot, int, fxVars>>

(* RewireTrackFx: the FX thread does it.                                   *)
SupQueueFx ==
    /\ Busy(sup, {"fx"})
    /\ jobs' = Append(jobs, Current(sup).s)
    /\ sup' = Finished(sup, Current(sup).s)
    /\ UNCHANGED <<uiVars, supQ, intQ, slot, int, done, fx, desired, lost>>

(* ApplySession and EnsureTrack: DesiredState from the clone, once more    *)
(* for the apps, and the authoritative publication.                        *)
SupArm ==
    /\ Busy(sup, {"apply", "ensure"})
    /\ Sync(Current(sup).s)
    /\ sup' = [sup EXCEPT !.pc = "again"]
    /\ UNCHANGED <<uiVars, supQ, intQ, slot, int, fxVars>>

SupPlace ==
    /\ sup.pc = "again"
    /\ Sync(Current(sup).s)
    /\ sup' = [sup EXCEPT !.pc = "auth"]
    /\ UNCHANGED <<uiVars, supQ, intQ, slot, int, fxVars>>

SupAuthority ==
    /\ sup.pc = "auth"
    /\ slot' = Authority(Current(sup).s)
    /\ sup' = [Finished(sup, Current(sup).s) EXCEPT !.gen = slot'.gen]
    /\ events' = IF Current(sup).kind = "apply"
                    THEN Append(events, Current(sup).s)
                    ELSE events
    /\ UNCHANGED <<kind, ui, fxDue, supQ, intQ, int, fxVars, desired, lost>>

SupPublish ==
    /\ sup.pc = "run" /\ sup.work = <<>>
    /\ slot' = Published(sup)
    /\ sup' = [sup EXCEPT !.pc = "pull"]
    /\ UNCHANGED <<uiVars, supQ, intQ, int, fxVars, desired, lost>>

Supervisor ==
    \/ SupPull \/ SupMerge \/ SupWait \/ SupTake \/ SupTimeout \/ SupSweep
    \/ SupReclaim \/ SupRewire \/ SupQueueFx \/ SupArm \/ SupPlace
    \/ SupAuthority \/ SupPublish

-----------------------------------------------------------------------------
FxTakeFirst ==
    /\ fx.pc = "idle" /\ jobs # <<>>
    /\ fx' = [pc |-> "run", s |-> Head(jobs)] /\ jobs' = <<>>
    /\ UNCHANGED <<uiVars, supQ, intQ, slot, sup, int, done, desired, lost>>

(* spawn_fx_ensure_thread: the latest of the waiting jobs, rewire_track_fx *)
(* (DesiredState first, then the rack), and the clone back to the lane.    *)
FxTake ==
    /\ fx.pc = "idle"
    /\ \E n \in 1 .. Len(jobs) :
        fx' = [pc |-> "run", s |-> jobs[n]] /\ jobs' = Left(jobs, n)
    /\ UNCHANGED <<uiVars, supQ, intQ, slot, sup, int, done, desired, lost>>

(* "track not found for FX rewire" reports an error and changes nothing.   *)
FxSync ==
    /\ fx.pc = "run"
    /\ IF HasTrack(fx.s)
         THEN Sync(fx.s) /\ fx' = [fx EXCEPT !.pc = "built"]
         ELSE fx' = [pc |-> "idle", s |-> {}] /\ UNCHANGED <<desired, lost>>
    /\ UNCHANGED <<uiVars, supQ, intQ, slot, sup, int, jobs, done>>

FxDone ==
    /\ fx.pc = "built"
    /\ done' = Append(done, fx.s)
    /\ fx' = [pc |-> "idle", s |-> {}]
    /\ UNCHANGED <<uiVars, supQ, intQ, slot, sup, int, jobs, desired, lost>>

FxThread == FxTake \/ FxSync \/ FxDone

-----------------------------------------------------------------------------
(* interactive_loop: pull, publish, wait.                                  *)
IntPull ==
    /\ int.pc = "pull"
    /\ int' = [Pulled(int) EXCEPT !.pc = "publish"]
    /\ UNCHANGED <<uiVars, supQ, intQ, slot, sup, fxVars, desired, lost>>

IntMirror ==
    /\ int.pc = "publish"
    /\ slot' = Published(int)
    /\ int' = [int EXCEPT !.pc = "recv"]
    /\ UNCHANGED <<uiVars, supQ, intQ, sup, fxVars, desired, lost>>

IntTake ==
    /\ int.pc = "recv"
    /\ \E n \in 1 .. Len(intQ) :
        int' = Took(int, intQ, n) /\ intQ' = Left(intQ, n)
    /\ UNCHANGED <<uiVars, supQ, slot, sup, fxVars, desired, lost>>

IntTimeout ==
    /\ int.pc = "recv" /\ intQ = <<>>
    /\ int' = [int EXCEPT !.pc = "pull"]
    /\ UNCHANGED <<uiVars, supQ, intQ, slot, sup, fxVars, desired, lost>>

IntPickUnpublished ==
    /\ Busy(int, {"pick"})
    /\ int' = [int EXCEPT !.pc = "prefer", !.last = @ \cup {Current(int).e},
                          !.gen = slot.gen + 1]
    /\ UNCHANGED <<uiVars, supQ, intQ, slot, sup, fxVars, desired, lost>>

(* SetDefaultSink: its one edit of the lane's clone, published with        *)
(* authority without a look at the slot; then in DesiredState; then        *)
(* sync_playback of the clone.                                             *)
IntPick ==
    /\ Busy(int, {"pick"})
    /\ LET s == int.last \cup {Current(int).e}
       IN  /\ slot' = Authority(s)
           /\ int' = [int EXCEPT !.pc = "prefer", !.last = s, !.gen = slot'.gen]
    /\ UNCHANGED <<uiVars, supQ, intQ, sup, fxVars, desired, lost>>

IntPrefer ==
    /\ int.pc = "prefer"
    /\ desired' = desired \cup {Current(int).e}
    /\ int' = [int EXCEPT !.pc = "place"]
    /\ UNCHANGED <<uiVars, supQ, intQ, slot, sup, fxVars, lost>>

IntReclaim ==
    /\ int.pc = "place"
    /\ Sync(int.last)
    /\ int' = Finished(int, int.last)
    /\ UNCHANGED <<uiVars, supQ, intQ, slot, sup, fxVars>>

(* DesiredState takes the edits of the kinds ks from the clone s and keeps *)
(* all others.                                                             *)
Patch(ks, s) ==
    /\ desired' = {e \in desired : kind[e] \notin ks} \cup {e \in s : kind[e] \in ks}
    /\ lost' = lost \cup (desired \ desired')

(* SyncCaptureDelta (and patch_bus_playback of PlaceApp) patches fields of *)
(* DesiredState: first the outputs and direct flags of the strip, if the   *)
(* engine is free at the time (patch_bus_egress) ...                       *)
IntEgress ==
    /\ Busy(int, {"capture"})
    /\ Patch({"route"}, Current(int).s) \/ UNCHANGED <<desired, lost>>
    /\ int' = [int EXCEPT !.pc = "rack"]
    /\ UNCHANGED <<uiVars, supQ, intQ, slot, sup, fxVars>>

(* ... then its inputs.                                                    *)
IntCapture ==
    /\ int.pc = "rack"
    /\ Patch({"capture"}, Current(int).s)
    /\ int' = Finished(int, Current(int).s)
    /\ UNCHANGED <<uiVars, supQ, intQ, slot, sup, fxVars>>

(* SyncPlayback                                                            *)
IntPlay ==
    /\ Busy(int, {"play"})
    /\ Sync(Current(int).s)
    /\ int' = Finished(int, Current(int).s)
    /\ UNCHANGED <<uiVars, supQ, intQ, slot, sup, fxVars>>

IntPublish ==
    /\ int.pc = "run" /\ int.work = <<>>
    /\ slot' = Published(int)
    /\ int' = [int EXCEPT !.pc = "pull"]
    /\ UNCHANGED <<uiVars, supQ, intQ, sup, fxVars, desired, lost>>

Interactive ==
    \/ IntPull \/ IntMirror \/ IntTake \/ IntTimeout \/ IntPick \/ IntPrefer
    \/ IntReclaim \/ IntEgress \/ IntCapture \/ IntPlay \/ IntPublish

Next == Ui \/ Supervisor \/ FxThread \/ Interactive

Spec == Init /\ [][Next]_vars

(* The threads loop for ever and the window ticks; nobody has to edit.     *)
FairSpec ==
    /\ Spec
    /\ WF_vars(Supervisor) /\ WF_vars(Interactive) /\ WF_vars(FxThread)
    /\ WF_vars(UiFlushFx) /\ WF_vars(UiAdopt)
-----------------------------------------------------------------------------
Resting(lane) ==
    lane.pc \in {"pull", "publish", "merge", "recv", "sweep", "reclaim"}

Settled ==
    /\ ~fxDue /\ events = <<>> /\ supQ = <<>> /\ intQ = <<>>
    /\ Resting(sup) /\ Resting(int)
    /\ jobs = <<>> /\ done = <<>> /\ fx.pc = "idle"

(* When nothing is on its way, the engine has every edit that the window   *)
(* shows, and no other -- except those that a stale clone or a swallowed   *)
(* command undid: neither lanes, slot, coalescing nor merge loses an edit  *)
(* in any other way.                                                       *)
Accounted == Settled => \A e \in Made \ lost : e \in desired /\ e \in ui

(* Every edit is heard by the engine, unless it was undone on the way.     *)
EditsHeard == \A e \in Edits : e \in Made ~> e \in desired \/ e \in lost

(* Every authoritative generation, whichever lane published it, reaches    *)
(* both lanes.                                                             *)
LanesCatchUp ==
    \A g \in 2 .. MaxEdit + 1 : slot.gen >= g ~> sup.gen >= g /\ int.gen >= g
=============================================================================
