------------------------------- MODULE MeterTaps -------------------------------
(*****************************************************************************)
(* The filter threads of one strip (engine/src/host/node.rs): the FX host,   *)
(* which has meters of its own, or else a dry meter tap on the bus           *)
(* (host/dry_meter.rs).  The window asks for taps on every tick, both lanes  *)
(* create and stop them without a common lock, while the engine starts and   *)
(* stops the host.                                                           *)
(*                                                                           *)
(* A filter is stopped through its loop, and its thread is joined.  That     *)
(* works for a loop that runs.  Before it runs the quit may not be sent at   *)
(* all or be lost, and the join hangs; after a failed connect it goes to a   *)
(* loop that has been destroyed.  `astray` remembers both.  A filter is live *)
(* until its loop has ended.                                                 *)
(*****************************************************************************)
EXTENDS Naturals, FiniteSets

CONSTANTS
    Lanes,      \* Interactive and Supervisor
    Eng,        \* whoever holds ENGINE: hosts come and go
    Filters,    \* filter threads at one time
    MaxEvents   \* bound: calls of the engine, racks that cannot be built, the
                \* window being hidden, filters that connect after start has
                \* given up or not at all

Threads == Lanes \cup {Eng}
None == "none"

ASSUME ConstantsAssumption ==
    /\ Eng \notin Lanes /\ None \notin Filters
    /\ MaxEvents \in Nat

VARIABLES
    shown,      \* viz_live
    asked,      \* DRY_DIRTY and dry_want: whether the bus is wanted, {} when clean
    fil,        \* filter threads
    astray,     \* a quit has been lost, or sent to a destroyed loop
    tap,        \* DRY: the registered tap
    tapState,   \* DRY_STATE: whose peaks the window reads
    host,       \* REGISTRY: the FX host
    hostState,  \* STATE_MAP
    thr,        \* lanes and engine: step, what was read of dry_want, filter in
                \* hand, step afterwards
    events,     \* what the bound counts
    late        \* a filter has connected after start gave up

filters == <<fil, astray>>
faults == <<events, late>>
vars == <<shown, asked, fil, astray, tap, tapState, host, hostState, thr,
          events, late>>

\* "failed": the thread has ended, but loop_slot still holds its destroyed loop
Filter == [pc : {"off", "connecting", "running", "failed"}, quit : BOOLEAN]
Off == [pc |-> "off", quit |-> FALSE]
Rest == [pc |-> "idle", want |-> FALSE, f |-> None, next |-> "idle"]

Maybe == Filters \cup {None}
Steps == {"idle", "sweep", "entry", "look", "wait", "insert", "recheck",
          "remove", "unpublish", "ensure", "start", "install", "replace",
          "dropped", "stop", "stopped"}

Doing == [pc : Steps, want : BOOLEAN, f : Maybe, next : {"idle", "entry", "ensure"}]

WindowType ==
    /\ shown \in BOOLEAN /\ asked \in {{}, {TRUE}, {FALSE}}
    /\ events \in 0 .. MaxEvents /\ late \in BOOLEAN

FilterType ==
    /\ fil \in [Filters -> Filter]
    /\ \A f \in Filters : fil[f].quit => fil[f].pc \in {"connecting", "running"}
    /\ astray \in BOOLEAN
    /\ tap \in Maybe /\ tapState \in Maybe /\ host \in Maybe /\ hostState \in Maybe
    /\ tap # None => tap # host

ThreadType ==
    /\ thr \in [Threads -> Doing]
    /\ \A k, l \in Lanes : thr[k].pc = "recheck" /\ thr[l].pc = "recheck" => k = l

TypeOK == WindowType /\ FilterType /\ ThreadType

Is(f, pc) == f # None /\ fil[f].pc = pc
Running(f) == Is(f, "running")
Event == events < MaxEvents /\ events' = events + 1
Ended(f) == f = None \/ Is(f, "off") \/ Is(f, "failed")
Live == Running(hostState)

Held == {tap, tapState, host, hostState} \cup {thr[t].f : t \in Threads}
Fresh == {f \in Filters \ Held : fil[f] = Off}
New == CHOOSE f \in Fresh : TRUE

\* Mutant: the lock is given back before the old tap is dropped
DryUnlocked == TRUE

\* The registry of taps is locked while an old tap is dropped and until the
\* host has been asked for
DryFree == \A l \in Lanes : thr[l].pc # "recheck"

Goes(t, pc) == thr' = [thr EXCEPT ![t].pc = pc]
GoesWith(t, pc, f) == thr' = [thr EXCEPT ![t].pc = pc, ![t].f = f]
Rests(t) == thr' = [thr EXCEPT ![t] = Rest]
-----------------------------------------------------------------------------
(* A filter thread: run_filter_loop *)

\* A state that its filter is done with is never live again: as good as none
Ends(f, pc) ==
    /\ fil' = [fil EXCEPT ![f] = [Off EXCEPT !.pc = pc]]
    /\ tapState' = IF tapState = f THEN None ELSE tapState
    /\ hostState' = IF hostState = f THEN None ELSE hostState

Connect(f) ==
    /\ fil[f].pc = "connecting"
    /\ \/ /\ fil' = [fil EXCEPT ![f].pc = "running"]
          /\ UNCHANGED <<astray, tapState, hostState, events>>
       \/ /\ Event
          /\ Ends(f, "off")
          /\ UNCHANGED astray

\* The loop is destroyed and loop_slot keeps it.  Who has stopped the filter
\* before, does so again on dropping it.
Fail(f) ==
    /\ fil[f].pc = "connecting" /\ Event
    /\ Ends(f, IF fil[f].quit THEN "off" ELSE "failed")
    /\ astray' = (astray \/ fil[f].quit)

Quits(f) ==
    /\ fil[f].pc = "running" /\ fil[f].quit
    /\ Ends(f, "off")
    /\ UNCHANGED <<astray, events>>

Thread(f) ==
    /\ Connect(f) \/ Fail(f) \/ Quits(f)
    /\ UNCHANGED <<shown, asked, tap, host, thr, late>>

\* The thread does not read `quit`: without a loop to tell, nothing stops it.
\* What a quit does to a destroyed loop is undefined.
Shutdown(f) ==
    \/ /\ f = None \/ Is(f, "off")
       /\ UNCHANGED filters
    \/ /\ Is(f, "connecting") \/ Running(f)
       /\ fil' = [fil EXCEPT ![f].quit = TRUE]
       /\ UNCHANGED astray
    \/ /\ Is(f, "connecting") /\ astray' = TRUE
       /\ UNCHANGED fil
    \/ /\ Is(f, "failed") /\ astray' = TRUE
       /\ fil' = [fil EXCEPT ![f] = Off]
-----------------------------------------------------------------------------
(* start_named: spawn, then wait at most 150 ms for `running` *)

Start(t, pc) ==
    /\ Fresh # {}
    /\ fil' = [fil EXCEPT ![New] = [pc |-> "connecting", quit |-> FALSE]]
    /\ GoesWith(t, pc, New)
    /\ UNCHANGED astray

Waited(t) ==
    IF Is(thr[t].f, "connecting") THEN Event /\ late' = TRUE
                                  ELSE UNCHANGED <<events, late>>
-----------------------------------------------------------------------------
(* teardown_dry_meter, by lanes and engine *)

Teardown(t, next) ==
    thr' = [thr EXCEPT ![t] = [pc |-> "remove", want |-> @.want, f |-> None, next |-> next]]

Remove(t) ==
    /\ thr[t].pc = "remove" /\ DryFree
    /\ tap' = None
    /\ Shutdown(tap)
    /\ GoesWith(t, "unpublish", tap)
    /\ UNCHANGED tapState

Unpublish(t) ==
    /\ thr[t].pc = "unpublish" /\ Ended(thr[t].f)
    /\ tapState' = None
    /\ IF thr[t].next = "idle" THEN Rests(t)
       ELSE thr' = [thr EXCEPT ![t] = [pc |-> @.next, want |-> @.want, f |-> None,
                                       next |-> "idle"]]
    /\ UNCHANGED <<filters, tap>>

TeardownStep(t) ==
    /\ Remove(t) \/ Unpublish(t)
    /\ UNCHANGED <<asked, host, hostState, faults>>
-----------------------------------------------------------------------------
(* A lane: apply_pending_dry_meters, sync_dry_meters, ensure_dry_meter *)

\* The window writes dry_want before it sets the flag.  While the clock is being
\* changed a lane leaves the flag for later.
Take(l) ==
    /\ thr[l].pc = "idle" /\ asked' = {}
    /\ \E w \in asked : thr' = [thr EXCEPT ![l] = [Rest EXCEPT !.pc = "sweep", !.want = w]]
    /\ UNCHANGED <<filters, tap, tapState, faults>>

\* A tap that is not wanted, or whose bus has a live host
Sweep(l) ==
    /\ thr[l].pc = "sweep" /\ DryFree
    /\ IF tap # None /\ (~thr[l].want \/ Live) THEN Teardown(l, "entry") ELSE Goes(l, "entry")
    /\ UNCHANGED <<asked, filters, tap, tapState, faults>>

\* The host is asked for twice: by sync and, when it was not live, by ensure
Entry(l) ==
    /\ thr[l].pc = "entry"
    /\ \/ (thr[l].want => Live) /\ Rests(l)
       \/ thr[l].want /\ Live /\ Teardown(l, "idle")
       \/ thr[l].want /\ ~Live /\ Goes(l, "look")
    /\ UNCHANGED <<asked, filters, tap, tapState, faults>>

\* Mutant: a tap that runs is taken to be published
LookOnly(l) ==
    /\ thr[l].pc = "look" /\ DryFree
    /\ IF Running(tap) THEN Rests(l) /\ UNCHANGED filters ELSE Start(l, "wait")
    /\ UNCHANGED <<asked, tap, tapState, faults>>

Look(l) ==
    /\ thr[l].pc = "look" /\ DryFree
    /\ IF Running(tap) THEN tapState' = tap /\ Rests(l) /\ UNCHANGED filters
                       ELSE Start(l, "wait") /\ UNCHANGED tapState
    /\ UNCHANGED <<asked, tap, faults>>

PublishTap(l) ==
    /\ thr[l].pc = "wait"
    /\ Waited(l)
    /\ tapState' = IF Ended(thr[l].f) THEN None ELSE thr[l].f
    /\ Goes(l, "insert")
    /\ UNCHANGED <<asked, filters, tap>>

Insert(l) ==
    /\ thr[l].pc = "insert" /\ DryFree
    /\ tap' = thr[l].f
    /\ Shutdown(tap)
    /\ GoesWith(l, "recheck", tap)
    /\ UNCHANGED <<asked, tapState, faults>>

\* Mutant: nobody asks whether a host came up meanwhile
RecheckNot(l) ==
    /\ thr[l].pc = "recheck" /\ Ended(thr[l].f)
    /\ Rests(l)
    /\ UNCHANGED <<asked, filters, tap, tapState, faults>>

Recheck(l) ==
    /\ thr[l].pc = "recheck" /\ Ended(thr[l].f)
    /\ IF Live THEN Teardown(l, "idle") ELSE Rests(l)
    /\ UNCHANGED <<asked, filters, tap, tapState, faults>>

Sync(l) ==
    \/ TeardownStep(l)
    \/ /\ \/ Take(l) \/ Sweep(l) \/ Entry(l) \/ Look(l) \/ PublishTap(l)
          \/ Insert(l) \/ Recheck(l)
       /\ UNCHANGED <<host, hostState>>

Lane(l) == Sync(l) /\ UNCHANGED shown
-----------------------------------------------------------------------------
(* The engine: ensure_host, teardown_host, teardown_all_dry_meters *)

\* A chain is ensured, the last effect removed, or all taps cleared
Call ==
    /\ thr[Eng].pc = "idle" /\ Event
    /\ \/ Teardown(Eng, "ensure")
       \/ host # None /\ Goes(Eng, "stop")
       \/ tap # None /\ DryFree /\ Teardown(Eng, "idle")
    /\ UNCHANGED <<filters, host, hostState, late>>

\* A running host only swaps its rack
EnsureHost ==
    /\ thr[Eng].pc = "ensure"
    /\ IF Running(host) THEN Rests(Eng) /\ UNCHANGED filters ELSE Start(Eng, "start")
    /\ UNCHANGED <<host, hostState, faults>>

PublishHost ==
    /\ thr[Eng].pc = "start"
    /\ Waited(Eng)
    /\ hostState' = IF Ended(thr[Eng].f) THEN None ELSE thr[Eng].f
    /\ Goes(Eng, "install")
    /\ UNCHANGED <<filters, host>>

\* The rack cannot be built: the new filter is dropped
RackFails ==
    /\ thr[Eng].pc = "start" /\ Event
    /\ late' = (late \/ Is(thr[Eng].f, "connecting"))
    /\ Shutdown(thr[Eng].f)
    /\ Goes(Eng, "dropped")
    /\ UNCHANGED <<host, hostState>>

Dropped ==
    /\ thr[Eng].pc = "dropped" /\ Ended(thr[Eng].f)
    /\ Rests(Eng)
    /\ UNCHANGED <<filters, host, hostState, faults>>

InstallHost ==
    /\ thr[Eng].pc = "install"
    /\ host' = thr[Eng].f
    /\ Shutdown(host)
    /\ GoesWith(Eng, "replace", host)
    /\ UNCHANGED <<hostState, faults>>

Replaced ==
    /\ thr[Eng].pc = "replace" /\ Ended(thr[Eng].f)
    /\ Teardown(Eng, "idle")
    /\ UNCHANGED <<filters, host, hostState, faults>>

StopHost ==
    /\ thr[Eng].pc = "stop"
    /\ host' = None
    /\ Shutdown(host)
    /\ GoesWith(Eng, "stopped", host)
    /\ UNCHANGED <<hostState, faults>>

UnpublishHost ==
    /\ thr[Eng].pc = "stopped" /\ Ended(thr[Eng].f)
    /\ hostState' = None
    /\ Rests(Eng)
    /\ UNCHANGED <<filters, host, faults>>

Hosting ==
    \/ TeardownStep(Eng)
    \/ /\ \/ Call \/ EnsureHost \/ PublishHost \/ RackFails \/ Dropped
          \/ InstallHost \/ Replaced \/ StopHost \/ UnpublishHost
       /\ UNCHANGED <<asked, tap, tapState>>

Engine == Hosting /\ UNCHANGED shown
-----------------------------------------------------------------------------
(* The window: sync_meter_targets on each tick, nothing while it is hidden *)

Request(w) ==
    /\ asked' = {w}
    /\ UNCHANGED <<filters, tap, tapState, host, hostState, thr, late>>

Tick ==
    /\ shown
    /\ Request(~Live)
    /\ UNCHANGED <<shown, events>>

Hide ==
    /\ shown /\ shown' = FALSE /\ Event
    /\ Request(FALSE)

Show ==
    /\ ~shown /\ shown' = TRUE
    /\ Request(~Live)
    /\ UNCHANGED events

Init ==
    /\ shown = TRUE /\ asked = {}
    /\ fil = [f \in Filters |-> Off] /\ astray = FALSE
    /\ tap = None /\ tapState = None /\ host = None /\ hostState = None
    /\ thr = [t \in Threads |-> Rest]
    /\ events = 0 /\ late = FALSE

Next ==
    \/ \E f \in Filters : Thread(f)
    \/ \E l \in Lanes : Lane(l)
    \/ Engine
    \/ Tick \/ Hide \/ Show

Fairness ==
    /\ \A f \in Filters : WF_vars(Thread(f))
    /\ \A l \in Lanes : WF_vars(Lane(l))
    /\ WF_vars(Engine)
    /\ WF_vars(Tick)

Spec == Init /\ [][Next]_vars /\ Fairness
-----------------------------------------------------------------------------
AtRest == \A t \in Threads : thr[t].pc = "idle"

\* Host and tap are made by threads that share no lock, and two lanes may make
\* a tap each: when all of them rest, one filter at most runs for the strip,
\* unless a host connected so late that it was not live when it was looked for,
\* or a quit went astray.
OneFilter ==
    AtRest /\ ~late /\ ~astray => Cardinality({f \in Filters : ~Ended(f)}) <= 1

\* A window that stays open comes to show the peaks of a filter that runs: of
\* the host and no tap beside it, or else of the one registered tap, whoever
\* stopped or published another tap and however many filters came up late or
\* failed, as long as no quit has gone astray.
Metered == IF Live THEN tap = None
           ELSE tap # None /\ Running(tap) /\ tapState = tap
StripMetered == <>[]shown => <>[](Metered \/ astray)
=============================================================================
