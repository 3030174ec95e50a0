# Verification of buschain-control

BusChain Control is a mixer for PipeWire desktops.  Applications play into
virtual buses (tracks), a track may carry a rack of plugins and is routed to
other tracks or to Master, and Master to the sound card.  A window, a tray, a
Quickshell panel and a command line client edit one session; an engine brings
PipeWire's graph to what the session says, and hosts the plugins in audio
callbacks of its own.

This directory holds TLA+ models of the parts of that program in which threads,
queues and copies of state meet, the TLC runs that check them, and TLAPS proofs.
It was translated from the source; `PROJECT.json` maps every definition to the
lines it stands for.

## 1. The system

### Threads

| thread | code | what it does |
|---|---|---|
| window (egui) | `app/src/app_state.rs`, `ui/` | owns the session; `commit` turns an edit into a command; `tick` flushes levels and FX edits, adopts patches and events |
| IPC daemon | `app/src/daemon.rs`, `ipc.rs` | serves `buschain-ctl` and Quickshell from a session copy of its own |
| router | `audio/worker.rs` | sorts commands into the lanes |
| interactive lane | `audio/worker.rs` | levels, knobs, capture, apps, default sink |
| supervisor lane | `audio/worker.rs` | apply, ensure, prune, routes, reconnect; idle reconciliation |
| observer lane | `audio/worker.rs` | snapshots for the window |
| FX thread | `audio/worker.rs` | rewires racks off the supervisor |
| audio callbacks | `engine/src/host/node.rs` | one per FX host; never waits |
| filter threads | `engine/src/host/node.rs` | run the PipeWire loop of one host |
| MIDI | `engine/src/midi` | device thread with a bounded action queue |

They meet in the `ENGINE` mutex (all of `runtime.rs`), in the `REGISTRY` and
`STATE_MAP` of hosts, in `SharedSessionSlot`, in the statics of `daemon.rs`
(authority table, one patch map in each direction), in channels, and in the
lock-free structures between engine and callback (`ControlQueue`, `rack_ptr`).

### Components, their state and what makes them correct

| component | state | operations | correct when |
|---|---|---|---|
| Control ring `host/control.rs` | `head`, `tail`, slots | `push`, `drain_to` | no slot is read while it is written; order kept; the newest message is never the one that is lost (a burst breaks all three, see `ControlQueue`) |
| Rack hand-over `host/node.rs`, `registry.rs` | `rack_ptr`, strong counts, rack mutexes | publish, harvest, stop, callback | no freed rack is touched, none leaks, waiting controls are applied |
| Mixer authority `daemon.rs`, `app_state.rs` | last write with revision and origin, patch maps, pending levels, `level_revs` | drag, lamp, solo, `SetTrackMixer`, tick, lane batch | the last gesture wins in engine and views, nothing snaps back |
| Session lanes `worker.rs`, `app_state.rs` | window's session, lane clones, `SharedSessionSlot`, `DesiredState`, FX jobs | commands by kind, coalescing, idle work, publications | every edit reaches DesiredState and stays unless something newer replaced it |
| Host registry `registry.rs` | hosts by bus, remembered controls, fingerprints | ensure, push, teardown | one host per bus, running the newest rack with the newest knobs |
| Node lifecycle `node.rs` | filter thread, loop slot, running flag | start, stop | stop ends, start never leaves a dangling loop |
| Latency `pdc.rs`, `node_latency.rs`, `pipeline/glc.rs` | reported latencies, pads, plan | set, remove, recompute | every path to Master has the same length; cycles are refused |
| Egress `pipeline/arm.rs` | links of a track | arm dry, arm wet, disarm, heal, prune | a muted track stays silent, an open one comes to be heard by all its outputs |
| Dry meters `host/dry_meter.rs` | taps by bus | sync, ensure, teardown | a tap exists only for a bus without a host |
| Runtime `runtime.rs` | DesiredState, last applied captures, mute latches | `apply(Intent)`, `reconcile*` | the graph converges to DesiredState; mute survives |
| Control plane `backend/native/session.rs` | the PipeWire connection, its loop thread, requests | call, timeout, mark dead, reconnect | nobody waits for ever; once PipeWire is back one live plane is installed |
| Clock, MIDI, plugin formats, session store, catalogue, UI | | | see section 7 |

### What is hard here

`PROJECT.json` lists the hazards one by one with their lines.  They fall in
five groups: lock-free hand-over to the audio callback; statics with a mutex
each where an operation needs several of them; whole-session clones that travel
on several lanes and replace each other; queues that coalesce, drop or reorder;
and the external graph, which may restart at any time.

## 2. Modules

| module | models | notes |
|---|---|---|
| `DropOldest` | what the ring promises: a bounded mailbox that discards its oldest message, and only when full | abstract specification |
| `ControlQueue` | `push` and `drain_to`, split at each shared access | refines `DropOldest` |
| `RackPublish` | the racks of one host, `Arc` counts, the rack mutex, engine thread and callback | |
| `MixerWrites` | one fader, window and IPC client, authority, patches, lane | |
| `SessionLanes` | window, router, lanes, shared slot, FX thread, DesiredState | |
| `FxHost` | the insert host of one bus: `ensure_host`, `push_host_controls`, the remembered controls, and the threads that call them | |
| `TrackEgress` | the links of one track from its bus to its outputs, and the calls of FX thread, lanes and idle tick that rewrite them | |
| `Latency` | the latencies of all tracks: global compensation through delay nodes, peer pads when Master is Direct, and the links that go with them | |
| `PwPlane` | the native control plane, its callers, and the reconnect of the Supervisor | |
| `MeterTaps` | the filter threads of one strip: FX host or dry meter tap | |
| `MC*` | the instances TLC checks | |
| `HostNodeProofs` | theorems about `ControlQueue` and `RackPublish`, the two halves of a host's filter node | section 4 |
| `MixerWritesProofs`, `SessionLanesProofs`, `FxHostProofs`, `TrackEgressProofs`, `LatencyProofs`, `PwPlaneProofs`, `MeterTapsProofs` | theorems about the module they are named for | section 4 |

Definitions whose name is that of another one with a suffix (`PushDropNothing`,
`RtCloneForgotten`, ...) stand before the definition they belong to; they are
plausible slips of the code, used to show that a property notices them, and
nothing else refers to them.

### ControlQueue

`head`, `tail` and `buf` are the fields of the ring; `ppc`/`ptail` and
`cpc`/`ctail`/`n` are where the two threads are and their locals.  One action
per shared access: the producer loads `tail`, exchanges it on overflow, writes
the slot and stores `head`; the consumer loads `tail`, loads `head`, copies the
slot and stores `tail`.  A copy of a slot that is being written may yield the
old message, the new one or neither (`ReadOutcomes`): a data race in Rust is
undefined behaviour.  A message is the number of its push.  Pushes to one ring
are serialised by `REGISTRY`, so there is one producer.

Nothing in `push` limits how often the ring overflows while the consumer is in one
iteration of its loop.  From the second time on the slot being read may be written
and the plain store of `tail` moves it back; this is a *burst*.  The history
variables say when one is on: `overrun` counts the overflows since the consumer
loaded `tail` (none, one, several), `burst` holds from the second one until an
iteration begins with no message half pushed (`Calm`), `spoilt` is the newest message at
that moment.  No guard reads them.  The properties say what the ring promises
outside of bursts, and that each burst ends: the queue is sound again, and what a
burst took is older than the next push.

`Held` counts the messages in the ring from the consumer's point of view; the
refinement maps the mailbox's interval to `pushed - Held .. pushed`.  In
`DropOldest` a burst is `Upset`, `Churn` and `Settle`: only a full mailbox is upset,
while it lasts nothing is promised, and it settles with at most `Room` messages that
are newer than the last one delivered.

### RackPublish

A rack is its place in the order of publication.  The two instructions of the
callback that matter, the load of `rack_ptr` and the increment of the count, are
two actions; the swap and the drop of `publish_rack` as well.  `engRack` is the
reference an engine thread owns.  Engine operations on one host run one at a
time (`REGISTRY`).  `mail` is the newest generation that a waiting control
message was resolved for; the ring itself is `ControlQueue`.

A publisher's drop may fall between the load and the increment.  The increment then
lands in memory that was returned, which is undefined; the model stops following
the callback there (`rt = "wild"`) and the properties speak of all states before.
`CountedIsSafe` says how far the hand-over goes as built: whoever has been counted is
safe, and a callback before its increment can only meet a rack that was replaced and
dropped by a publisher meanwhile.  `rack_use_after_free` shows that it does.

### MixerWrites

Each static of `daemon.rs` has its own mutex, so a step is one critical
section.  A value is the number of the gesture that made it.  The history
variable `clash` records that one hand moved the fader while something of the
other was unfinished: a level the window has chosen and not yet written
(`Undecided`), a patch it has not adopted (`Unadopted`, `Behind`), or one it has
not acknowledged while a solo change makes it resend its levels (`Unreleased`).
`auth` is `TrackMixerAuthority`; `uiPatch`/`dmPatch` are the patch maps;
`ui`/`uArg`/`uRev` are where the window is in drag, tick, `flush_levels` and
`push_track_mixer_to_daemon`; `ipc`/`iRev` the same for the daemon; `chan` is
the way to the lane, `applied` its `level_revs`.

### SessionLanes

A clone of the session is the set of edits it contains, and `kind[e]` is what
edit `e` did.  `Sync` replaces DesiredState by a clone and records in `lost`
which edits that undid.  The kinds stand for the commands of the lanes:

| kind | window | lane | DesiredState |
|---|---|---|---|
| `apply` | `Reconcile` | `ApplySession` | replaced twice (apply, apps), then authoritative publication and `SessionApplied(Full)` |
| `ensure` | `EnsureTrack` | `EnsureTrack` | the same without the event |
| `route` | `Route`, after the window has patched outputs and direct flag in DesiredState itself, unless `ENGINE` is busy (`UiRoute`) | `RewireSessionRoutes` | replaced |
| `prune` | track deleted | `PruneTrack` | replaced |
| `fx` | `FxRewire`, after the coalescing gap | `RewireTrackFx`, then the FX thread | replaced when the track is found |
| `capture` | `Capture` | `SyncCaptureDelta` | the strip's outputs and direct flags from the lane's clone, unless `ENGINE` is busy (`IntEgress`), then its inputs (`IntCapture`) |
| `play` | apps unpinned | `SyncPlayback` | replaced |
| `pick` | default sink chosen | `SetDefaultSink` | one field, then replaced by the lane's clone |

`sup.work` and `int.work` are the batches after `coalesce_commands`.  `SupSweep`
and `SupReclaim` are the idle work, with the `try_recv` that takes a command
away.  Events of other kinds than `Full` only patch sink names in the window and
are left out.  PipeWire calls succeed.

### FxHost

One insert of one bus; "the" control is its power switch, and its value the
number of the gesture that set it.  A chain stands for an `inserts_signature`.

| variables | code |
|---|---|
| `win`, `edits`, `dirty`, `flush` | the track's inserts in the window, `fx_dirty_tracks`, and where `flush_fx_params_now` is |
| `pushes`, `int`, `arg` | `PushFxControls` waiting for the Interactive lane; the lane and what it pushes |
| `jobs`, `fx`, `job` | `RewireTrackFx` and, behind it, `FxEnsureJob`; the FX thread in `rewire_track_fx` |
| `sup`, `kind`, `clone` | the Supervisor in a command (`route`, `arm`, `clock`), the track's inserts in the session it carries |
| `desired` | `DesiredState.fx_chains[bus].inserts` |
| `last` | `LAST_CONTROLS[bus]` |
| `ens` | the call of `ensure_host` in progress: before or after its last overlay, its spec, the value it builds, new node or not |
| `host`, `rack`, `ring`, `rt` | `HostTrack`, the control in the published rack, the newest message of its ring, the callback |

The mutexes are the grain of the actions.  `ENGINE` is held by the caller from
the first to the last section of `ensure_host`, so `ens.step # "none"` means that
`ENGINE` is taken, and everything that writes DesiredState or begins a build waits
for it (`EngineFree`); `push_host_controls` takes `LAST_CONTROLS` and then `REGISTRY`
but never `ENGINE`, so its two sections (`...Remember`, `...Push`) fall anywhere.
`Rack::build` runs without any but `ENGINE`: that is the gap between `EnsRead`
and `EnsPublish` or `EnsInsert`.

The Supervisor's commands carry a clone of the session that may be older than the
window's.  A route command pushes the clone's controls and replaces DesiredState
(`RouteTake` to `RouteSync`).  `arm_session` and the reconnect replace DesiredState,
build what it says or adopt what runs, and push the clone's controls in a hold of
`ENGINE` of their own (`SyncTake`, `SupBuild` or `SupAdopt`, `ArmRemember`,
`ArmPush`).  A clock bind calls `rewire_track_fx` with its clone.  `Resync` is every other
call of `sync_desired_from_session`, by Supervisor or Interactive lane.  A clone holds
any chain the window has had and any value up to the newest (`Clones`): the lanes
write pushed values into the chain their clone has, so the two need not belong
together.

History variables name the ways in which a gesture or an edit is undone: `missed` (a
push fell into the gap of a build), `raced` (the newest push was missed by a
publication, or drained into a rack that was being replaced), `revived` (the value in
`LAST_CONTROLS` is an older one that a clone brought back), `undone` (the newest value
given to the rack is) and `late` (since the last job a mirror or a clone put a chain
back into DesiredState that it had left).  No guard reads them.  Each exception ends
with the next gesture or edit.

What is abstracted: the window and the engine are one process (with the daemon
in a process of its own the direct push finds no host and only the command
counts, which is `flush = "send"`); `Arm`, the heal of a tick or a reconcile, may
happen at any time, since other buses decide that too; a second attempt inside
one arming is another `Arm`; the links
of the spine succeed; `arg`, `job` and `clone` are reset when a thread rests, which
the code does not need to do; steps of one thread are one action where nothing
another thread does between them can be told from its happening before or after
(a lane takes a batch and remembers it, the FX thread takes a job and syncs it).
Of the Supervisor's pushes, that a session may have several tracks with effects is
left out: each bus has its own `LAST_CONTROLS`, host and chain.  `!force_rebuild` with an unchanged host and the
duplicate branch of `ensure_host` cannot be reached from today's callers, who
force and hold `ENGINE`.  Empty chains and `teardown_host`, the harvest of plugin
state (it skips the power switch), `push_host_param` and MIDI are left out.

### TrackEgress

One track and its outputs (`Dests`).  `g` is the live graph: links, whether the
fader stage `post` exists, the chain of the running host (`Dry` for none), which
outputs are up.  `des` is DesiredState of the bus, `latch` is
`applied_monitor_mute`, `laneMuted` the interactive lane's own memory of the gate,
`ses` the window's session, whose `mute` is also what the mixer authority says.

`ENGINE` is held by each call into the engine, so a call is one step
(`EngineArm`, `Gate`, `Relinked`, `Tick`, ...), whatever it does to the
links one by one; the threads interleave between calls.  `b` in these
definitions is a node whose links cannot be changed during the call (`NoNode` for
none): so links fail in the middle of a call.  `Outside` takes away links, hosts
and sinks and brings sinks back.

Abstracted: the outputs are buses (a device would be reached over a rate
bridge), no delay nodes (that is `Latency`), one host start always succeeds or
leaves the old one, racks that exist but are empty.

### Latency

`lat` are the running hosts with the latency of their rack, `muted` the muted
tracks.  `g` is a record of everything a lock guards or the graph holds: the
routing (`desired`), `GLC_DISABLED` (`disabled`), the cached topology, pads,
reported latencies and target delays, the delay line of each host (`delay`), the
delay nodes (`node`) and each track's links to Master (`out`).

An engine call (`Route`, `Mute`, `EnsureHosts`, `Tick`, ...) holds `ENGINE` and is
one step, but `ensure_hosts_parallel` starts a thread for each bus that publishes
its latency: `job[b]` walks through `Report`, `SnapReported`, `StoreTargets`,
`TakeTargets`, `PushDelays`, or with GLC on `PlanCached`, `PublishPlan`,
`ApplyToLiveNodes`, one step for each lock taken, and the threads interleave.
The call ends (`Linked`) when all have.

`ComputeGlc` is the longest path computation of the code, in topological order,
and `Arrival` its reference: the longest of all paths, listed one by one.

Abstracted: the quantum is constant, a delay node starts when asked to, links
between tracks are always there.

### PwPlane

`planes` are the loop threads, also those that were given up and still run;
`slot` is the `PLANE` static, `dead` and `misses` the two counters beside it;
`thr[t]` is where a caller stands in `ensure_plane_started` and `call`; `recon` is
the Supervisor between seeing a hollow graph and having armed a new plane.  The
requests carry only who waits for the answer; `sync` is the one callback that
`schedule_after_sync` keeps.  Of the graph the Master sink alone is kept
(`master`), which is what tells a hollow graph from a rebuilt one.

Abstracted: a connect succeeds or is refused (not the three seconds it may
take); `wait_for_pipewire` is a test of `pw`; `slow` bounds the answers of a sound
plane that are late; the place of a thread that nobody holds and that has ended
is used again.

### MeterTaps

`fil` are the filter threads (`connecting`, `running`, told to `quit`); `tap` and
`host` are the two registries, `tapState` and `hostState` the two maps the window
reads its peaks from; `thr[t]` is where a lane stands in `sync_dry_meters`, or the
engine in `ensure_host` and `teardown_host`, with the filter it has in hand.
`asked` is the pair `DRY_DIRTY`, `dry_want` for the one bus.  The registry of taps
stays locked while an old tap is dropped and joined and until the host was asked
for (`DryFree`).

A stop works for a loop that runs.  `Shutdown` has the other outcomes too: while the
filter connects the quit may not be sent at all (`loop_slot` is still empty, and the
thread never reads `quit`) or be lost, and the join that follows hangs; after a failed
connect `loop_slot` holds a destroyed loop (`failed`), and a stop uses it.  `astray` is
set by both, and the two properties speak of behaviours in which it is not: it
is where the code itself promises nothing.

Abstracted: the four links of a tap; the peaks; a state whose filter has ended
counts as no state, since nothing will call it live again.  `Filters` bounds the
threads that exist at one time: a start waits while none is free.

## 3. Runs

| run | result | shows |
|---|---|---|
| `control_queue` | pass | with any number of overflows in one iteration of the consumer: outside of bursts no race on a slot, latest kept, order kept; the newest value is delivered in the end unless a burst took it; refinement of `DropOldest`, with bursts that only a full ring has and that end |
| `rack_publish` | pass | counts are exact, whoever is counted never refers to a freed rack, no rack leaks, mail is drained, up to a callback that increments the count of a freed rack |
| `rack_use_after_free` | `NoUseAfterFree` violated | there is such a callback: the publisher drops the rack between its load and its increment |
| `mixer_writes` | pass | without a clash of hands: the last gesture wins, no snap back, every gesture is heard; with or without: the views come to agree with the authority |
| `session_lanes` | pass | an edit is in the engine and in the window when all is quiet, unless a stale clone or a swallowed command took it out; every edit is heard or accounted for; each authoritative generation reaches both lanes |
| `fx_host` | pass | when all pushes are done the remembered controls are the window's unless the Supervisor pushed an older clone behind them; host and DesiredState end at the edited chain unless a late mirror or clone interfered; a gesture is lost only to a rack being replaced or to an older clone; no thread waits for ever, also after a failed build |
| `track_egress` | pass | no call opens a muted track; a muted track falls silent though links could not be removed; an open one comes to be heard by all its outputs that exist; the idle tick silences nothing that was heard |
| `track_mute_undone` | `MuteSticks` violated | a mute pressed while `EnsureTrack` or an FX job runs is undone by the mute its session was sent with, and nobody repeats it |
| `latency` | pass | after a relink open stems arrive through their delay nodes within one quantum of the slowest, wet ones in no other way and padded dry ones also by the direct link the dry heal adds; peers leave their hosts together whatever order the host threads published in, a track whose delay node was taken away is linked again by the next tick |
| `pw_plane` | pass | while PipeWire goes and comes back twice and an answer is late: no caller and no reconnect is stuck, and a connected plane with a Master comes back |
| `plane_killed_unprovoked` | `MissesTolerated` violated | two link requests at a time cost a sound plane its life |
| `meter_taps` | pass | unless a quit went astray: when lanes and engine rest one filter at most runs for the strip, if no host connected late; an open window comes to show the peaks of a filter that runs, after late or failed connects, a rack that cannot be built, and the window being hidden |

The three violations are disagreements between the code and its own comments;
`PROJECT.json` quotes the sentence and the lines for each.

Every property of a passing run has a mutant in `PROJECT.json`: a small change
of one definition under which the run must fail.

### Bounds

- `control_queue`: a ring of four slots is full, empty and wrapped within eleven
  pushes, a batch of three forces `drain_to` to return with messages left, and
  eleven pushes are a burst, its end and a second one.  The theorems hold for every
  capacity from three, every batch and every number of pushes.  The code's ring has
  256 slots and `push_host_controls` fills it with several messages for each insert,
  so a burst needs a callback that is preempted while it drains.
- `rack_publish`: four racks give the callback a rack that was replaced twice
  while it runs; three harvests overlap each of them.
- `mixer_writes`: one gesture of each hand and one solo change.  Each of them
  passes through up to nine critical sections, so this already takes tens of
  thousands of states; a second gesture of the same hand only repeats the first
  from another settled state.
- `session_lanes`: two edits of any of the eight kinds are enough for each
  overtaking of one clone by another; a third edit was explored by hand for the
  kinds `apply`, `route`, `prune`, `fx`, `pick` (1.1 million states, no error).

- `fx_host`: two gestures are an edit and the way back, two throws of the switch, or
  one around the other; two chains make every edit after the first a way back.  One
  command carries a clone (`MaxOrders`), and one build fails or one filter dies
  (`MaxFaults`), at every step of an ensure.  3.4 million states, two minutes; a
  third gesture multiplies them by ten.  The proofs hold for any chains and bounds.

- `track_egress`: two outputs, so that one may be up and linked while the other is
  not; one gesture (of the chain, the outputs or mute), one call with a node whose
  links cannot be changed and one loss from outside, in any order and between any
  two calls of the three threads.
- `latency`: two tracks that may feed one another, with a short and a long latency
  on both sides of the quantum of 2, all five shapes of routing (`MCLatency`), and
  five engine calls: enough for a chain, a relink, a change of routing, a second
  chain and a tick to follow one another.
- `pw_plane`: one caller beside the Supervisor, three planes (installed, given up,
  new), two deaths of PipeWire, one late answer; a plane is killed after two
  misses in a row.  The violation needs two callers and no death.
- `meter_taps`: three filters are one for the host, one for the tap and one being
  started; two events out of host ensured, host removed, taps cleared, filter
  late, filter failed, rack not built, window hidden.  980,000 states, a minute
  and a half.

### Fairness

- the audio graph calls the callback for ever, and a callback takes finitely many
  steps (`WF` on `Drain`, on `Callback`);
- an engine thread ends what it began under a lock; it need not begin anything;
- egui repaints and ticks, the daemon polls, the lanes loop with a timeout of
  250 ms (`WF` on each thread);
- `flush_levels` sends only when the coalescing gap is over, which is so at some
  later tick again and again while a level is pending (`SF` on `UiFlush`);
- the idle branch of the Supervisor runs again and again, and a call that meets no
  failing links is made in the end (`WF` on `FullTick` and the threads of
  `TrackEgress` with `NoNode`): a failure of the graph is not for ever;
- a loop thread of PipeWire and a filter thread go on as long as they live, the
  Supervisor probes the graph for ever (`PwPlane`, `MeterTaps`); the window ticks
  while it is shown, and `StripMetered` speaks of a window that stays open;
- nobody is obliged to edit, push, publish or harvest, nothing to fail;
- `fx_host` states no fairness: `NeverStuck` says of each reachable state in which
  work is left that one of the threads that carry it can step, which is what
  the locks could spoil.  The leads-to form takes several times as long.

`rack_publish` is checked without deadlock, as a host that was stopped stops;
`fx_host` as well, as the user may have nothing left to do (`NeverStuck` takes the
place of that check).  `track_egress`, `latency`, `pw_plane` and `meter_taps` stop
when their bounds are used up; what must not stop is said by their leads-to
properties (`latency`: by properties of single calls, which are always enabled
when `ENGINE` is free).

## 4. Proofs

`HostNodeProofs`, the ring (any `Cap >= 3`, `Batch`, `MaxPush`, any number of
overflows in one iteration): the invariant `RingInv` has parts for three times.
Always: what a push in progress decided (`Pushing`), and that the slots behind `head`
hold the newest messages, consecutively (`Contents`), wherever `tail` has got to.
Outside of bursts (`Sound`): a writing producer has room (`WriteRoom`), `tail` is at
most one slot from the consumer's copy of it (`Window`), and what has been delivered
(`Progress`).  In a burst (`Behind`): the messages from `tail` to `head` are newer than
the last one delivered even when `tail` has been moved back; with `Contents` this is
what makes the ring sound again when the burst is over.  None of the properties is
inductive without these: that the reader's slot holds the next message depends on
which slots the producer can have reached.
`TypeOK`, `NoSlotRace`, `KeepLatest` follow from it; `InOrder` and
`ImplementsMailbox` are proved step by step from it.

`HostNodeProofs`, the racks (any `MaxGen`, `MaxHarvest`, publishers that drop at once):
`RackInv` adds to exact counts which racks can be named by whom (`Names`; a callback
before its increment names the published rack, the one a publisher is about to drop,
or one that a publisher freed) and that a rack is freed exactly when its count is
zero (`Alive`).  `RackTypeOK`, `RefsExact`, `CountedIsSafe` and `NoLeak` follow.

`FxHostProofs` (any `Chains`, `First`, bounds): `TypeOK` is a conjunction by the
groups of variables that a thread touches (`WindowType`, `QueueType`, ...), so
that a step is shown to keep the groups it changes, and lemma `Frame` keeps the
others.  `RememberedNewest` is not inductive: it says nothing while a command is
under way, and then three writers race for `LAST_CONTROLS`.  `NewestOnItsWay` says
where the window's newest gesture is when the window rests: the last command in
the queue, or in `LAST_CONTROLS`, unless an older clone revived an older value there.

`ChainConverges` speaks of a host at rest.  `ChainInv` follows the edited chain
until then: it is in the window's last command or the FX thread's job
(`JobOnItsWay`, whatever failed or came late), and without failed builds, late
mirrors and older clones in the call of `ensure_host` under way, in the host and in
DesiredState (`ChainInPlace`).  The next job clears `late`.  `OnlyRebuildLoses` needs the same for
the newest gesture, as a value: `GestureInv` says that no thread holds a value the
window has not made (`Made`), that a bus without remembered controls has no push
behind it (`Unremembered`), that the last push in the queue is the window's
(`LastPushed`), and what the host, its ring or the rack under construction have
once all pushes are done, unless a clone overtook them (`Arrived`).

`MixerWritesProofs` (any numbers of gestures, requests and solo changes, any
`MaxRev`): `TypeOK`, `LastWriteWins` and `NoSnapBack` from `FaderInv`, whose parts
hold as long as no clash happened.  `Owner`: the authority has the last gesture, or
the window is about to write it there.  `Unsent`: no level that the window has yet
to send is older than what it shows.  `Shown`: the window shows the last gesture or
a patch will bring it.  `Ordered`: of all levels on their way, applied or noted, a
newer revision never carries an older gesture; this is why the lane's comparison of
revisions suffices.  `Carried`: somebody still has the last gesture in hand until
the engine has it, which is what makes the settled state the right one.

`SessionLanesProofs` (any `Kinds` and number of edits): `Accounted` speaks of the
quiet states only.  `LanesInv` says of every edit at every step where it is
(`Carried`): the engine has heard it or something undid it; a pending command will
replace DesiredState from a clone that has it (`Bound`); it is a rack edit on its way
to the FX thread, or in the field that its own capture or pick command brings.  That
no step breaks this needs four things more.  Coalescing keeps a command of a kind
only if it is the last one, so the clones in a queue must grow (`Ordered`: a later one
has everything of an earlier one but what was undone), and this goes on into the batch
and the FX thread's channel, which keeps the last of its jobs.  The FX thread ignores
a clone without the track; such a clone exists only after a prune, whose own command
brings all that it holds (`FxSafe`).  The window adopts a clone only after the engine
had it (`Adoptable`).  And the router sends each kind to its lane (`Routed`).  `Handed`
is what one step owes to everything pending, and each action is shown to pay it; the
lemmas `OfKindLemma` to `TakeLemma` say what coalescing does to any batch.  TLC also
checked `LanesInv` with three edits (kinds apply, route, prune and fx; ensure, capture,
play and pick), where the run has two.

`TrackEgressProofs` (any outputs, racks, bounds): an operation on the graph `h`
*honours* a mute when its result is a graph again (no link without both its nodes)
and is silent if `h` was silent and the track muted.  One lemma for each operator,
from a single link up to `Relinked` and `Reapply`, shows that it does, whatever
`h` is and whichever node cannot be linked; `CallKeeps` carries that over to the
state, and `MuteHolds` and `TypeOK` follow for every step of every thread.
`TickHarmless` needs more about the same operators, since a heal cuts before it
links: what each of them leaves of a way that was heard.  Here a failed link is
excluded by the property itself (`NoNode`).

`LatencyProofs` (any buses, latencies, routings, quantum): `GlcInv`, which holds
whatever pads `ComputeGlc` comes to.  `Reports`: what a
host thread wrote down is the latency of its rack, unless it has still to report.
`Carried`: a host that starts alone carries the pads of all its peers through its
snapshots, so that they are right when it is ready even if its track is muted and
the arming that follows returns early.  Several hosts at a time overwrite each
other's snapshots, and nothing holds of the delay lines until `Linked` arms all
tracks and so reconciles; this is why the invariant speaks of the pads only at rest
(`Rested`), and not when all tracks are muted.  `ReconcileServes` says what a
reconcile guarantees from any state, and `TickReconnects` follows from it:
`HealWet` cuts only what it arms again, and arming links at least the one
destination that reconciling made exist.

`RoutedInStep` and `TypeOK` need the plan itself.  Kahn's order and the path latencies
are recursive functions over the buses of one routing, a set without an order of its
own.  The induction is along minimal sets: a family of sets of buses that has one with
a property has a smallest such set (`MinimalSet`, from the well-founded order of the
finite subsets).  `KahnStep` and `AcyclicStarts` say that a routing which the code's
peeling of free buses uses up has a first bus in every set, `Downstream` makes an
induction principle of it, and `PathEquation` shows with it that the path function
exists and satisfies its equation; `PathBound` keeps it under the longest path there
can be.  `ArrivalIsPath`: the path of a bus is the largest sum over all chains that end
in it.  That no chain exceeds it goes along the chain (`ChainBound`); that one reaches
it is again `Downstream`, with the size of the set as the bound on the chain's length
(`ChainReaches`).  `RangeInv` adds to `GlcInv` what each table holds and what each
thread has read; a routing with a cycle never gets into the cached topology, so that
the thread which plans from it has paths to add.  `TypeCorrect` follows.  For
`RoutedInStep`, `ReconcilePlans` says that after a reconcile the tables are the plan
for the routing, `ArmedInLine` to `HealInLine` that arming and healing leave each open
stem the links its pad asks for, the direct one of a padded dry stem included, and `InStepAtMaster` that the path, the delay line
and the quantum of the filter node itself come to within a quantum of the slowest.

`PwPlaneProofs` (any callers, planes and numbers of failures): `PlaneInv`.  That the
plane in the slot has a loop that runs (part of `TypeOK`) is inductive only with the
knowledge of who may install a plane: one that is being started belongs to one
thread (`Unshared`), and one that was told to quit is neither installed nor being
started (`Retired`).  These two are the theorem `OnlyTakenQuit`.

`MeterTapsProofs` (any lanes, filters and number of events): `OneFilter` speaks
only of moments when everybody rests.  `TapInv` says for every moment where a filter
is: in one registry or one thread's hand (`Owned`), in one of them as long as it
runs (`Kept`), in a hand only at the steps that hold one (`Hands`).  Unless a host
connected late, a host that runs is the published one (`Published`), and a tap
beside a live host is about to be found: by the lane in its recheck, by a teardown
under way, or by the engine that still has its teardown to do (`Doomed`).  Types and
the rest are two lemmas, `StepTypes` and `StepTaps`, by the same cases.

The proofs assume the constants as the modules' `ConstantsAssumption` (or the
assumption of the same purpose) states them: types, finiteness of the set of buses,
and that the model's own markers are not members of the sets a user chooses.  Each
inductive invariant was first checked by TLC on the instance of its run.

What the attempts to prove found, on instances larger than the runs':

- `LastWriteWins` and `NoSnapBack` were false with several requests of the IPC client
  and a solo change (TLC found it at (1,2,1) and (0,3,1) of the numbers below), in a
  way the run's single request cannot show.  A second
  `SetTrackMixer` lands after the window adopted the patch of the first
  (app_state.rs:1571) and before it acknowledges it (1576); the acknowledgement
  (daemon.rs:166) looks only at the track and marks the newer request as the
  window's too; the resend of a solo change then writes the older level back with a
  new revision.  The two properties speak of hands that do not meet, so `clash` now
  counts this meeting (`Unreleased`), and a drag that begins with a patch waiting
  (`Behind`).  TLC agrees for (`MaxUi`, `MaxIpc`, `MaxSolo`) = (1,1,1), (0,3,1),
  (1,2,1), (0,3,2), (2,2,0) and (1,3,0), the theorems for all.
- `PwPlane` bounded the count of misses by the calls, which three deaths of
  PipeWire exceed; the counter has no such bound in the code either.
- The pads of `Latency` were typed by a bound that needed the largest latency, so it
  is a constant now (`MaxLat`).

Only model-checked:

- all liveness, and `NeverStuck`, which speaks of `ENABLED`: out of the prover's
  reach.

Every other invariant and action property of the passing runs is a theorem.

## 5. Plan

1. `ControlQueue`, `RackPublish`: the audio boundary (done, proved).
2. `MixerWrites` and `SessionLanes` (done, safety proved).
3. `FxHost`: rebuild against toggles, rewires and armings (done, safety proved).
4. `TrackEgress`: arming, healing, muting of one track with links that fail (done,
   safety proved).
5. `Latency`: `compute_glc` against all paths one by one, delay nodes, peer pads
   and the host threads (done, safety and the plan itself proved).
6. `PwPlane`: control plane and reconnect (done, types and ownership proved).
7. `MeterTaps`: filter threads and the taps of two lanes (done; types and
   `OneFilter` proved).
8. `Capture`: `plan_capture_delta` and the capture links of `runtime.rs`; `PlaceApp`
   retries and the commands a reconnect drops.
9. Session loads, several tracks and solo in `MixerWrites`.
10. Proofs: an abstract specification of the gate of a track (open, muted,
    silent) that `TrackEgress` implements.

Observed in the models, without a run of their own:

- Ring: with two overflows inside one loop iteration of the callback (`burst`) the
  slot being read may be written (control.rs:102 and 116), and the plain store of
  `tail` (control.rs:117) moves it backwards: messages are delivered twice, or the
  newest one is lost and only the next push brings the control up to date.
- Racks: the callback may be the last owner of a replaced rack and run its
  destructor (`freedBy = "rt"`, which node.rs:109 means to avoid); a message
  resolved for a new rack may be drained into the old one (`raced` in `FxHost`).
- FX: a toggle between the last overlay (registry.rs:134) and the publication is not
  in the new rack and is not repeated; a mirror that waits for `ENGINE`
  (engine_handle.rs:877) may put a replaced chain back into DesiredState, and the
  next arming rebuilds it (`late`); so may every `sync_desired_from_session` with an older
  clone.  Only with a clone's controls do older switch values come back: a route
  command (worker.rs:1857) and an arming (engine_handle.rs:470) push what the session
  had when the command was sent (`revived`, `undone`), and the next gesture repairs it.
- Lanes: the idle branch's `try_recv` receives the command it asks about (`Swallow`,
  part of `Accounted`); `SetDefaultSink` from a lane that is behind replaces a newer
  apply in the slot; the interactive lane may re-install a removed track.
- Mixer: after a clash of hands the engine may keep a level that is not the last
  write; an acknowledgement also releases a request that came after the one it is
  for (section 4).
- Egress: the idle prune strips the outputs of a dry track (runtime.rs:1914) whose
  links the arming of engine_handle.rs:527 then renews; the feed bus -> post of a
  dry track is the one hop no healer looks at (hence `Fed` in `AudibleAgain`); a
  direct dry link may be left beside a wet path.
- Latency: the heal of dry tracks (runtime.rs:1639) asks for Master itself where
  the arming has linked the delay node, and adds the direct link beside it: the stem
  arrives twice (`out[b]` with both), though glc.rs:489 speaks of dropping the
  stray link; with a cyclic routing a published latency raises a pad for which no
  node is started; a stem whose pad becomes positive while only another track is
  armed has a node that nothing feeds until the next relink.
- Plane: a reconnect overwrites a plane that another thread installed meanwhile, and
  the orphan's late error marks the healthy plane dead; the join of the old thread
  has no timeout.
- Taps: a lane that is still starting a tap for an older request leaves it running
  after another lane has handled the empty request of a hidden window
  (app_state.rs:1035 means to stop them) until the window is shown again; a host
  that connects late leaves both filters until the next tick; a connect that fails
  destroys the loop but leaves `loop_slot` pointing to it (node.rs:385), so that a
  later stop uses it; and a stop before `loop_slot` is set sends no quit and waits in
  the join for ever (both are `astray`).

## 6. Composition

`RackPublish` uses the ring of `ControlQueue` through one fact, that the newest
message stays in it or was delivered (`LatestKept`): `mail` is that message.
`SessionLanes` and `MixerWrites` model the same lanes for two kinds of commands;
levels carry no session, so the two share no state but the thread, and each is a
projection of the other's environment.  `FxHost` takes from `ControlQueue` the
same fact, its `ring` being the newest message, and from `RackPublish` that a
callback may still hold a rack that was replaced (`rt = "old"`) and that a rack is
in memory while somebody holds it.  Its FX thread is the one of `SessionLanes`,
seen from one bus: a job is taken, synced and ensured in both, there with whole
sessions and here with the inserts of the track; the clones of `FxHost`'s Supervisor
are the stale sessions whose ways `SessionLanes` follows.

`TrackEgress` takes up where `FxHost` ends, with a host that runs some chain or
none, and looks at the same three threads from the side of the links; what
`MixerWrites` shows of the gate (the last hand wins) reaches it as `levels`.
`Latency` leaves the links between tracks to it and keeps those to Master, which
the delay nodes change.  Each call that these two make is a request to the plane
of `PwPlane`, whose failures appear in `TrackEgress` as links that do not change.
`MeterTaps` has the same host as `FxHost`, reduced to its filter thread.

## 7. Not modelled

Device capabilities and parsing (`clock/`), plugin formats and the sandbox
(`ladspa.rs`, `lv2.rs`, `clap.rs`, `vst3.rs`, `remote.rs`), signal processing,
drawing, the plugin catalogue, files of the session store, packaging: little
state of their own or out of a model checker's reach.  The PipeWire and Pulse
servers are an environment, the MIDI device thread with its bounded queue too.
Of `backend/` only the control plane has state that is worth a model: the other
files turn one request into PipeWire or `pactl` calls.  The components that are
planned are those of section 5; `PROJECT.json` gives the state of each.
