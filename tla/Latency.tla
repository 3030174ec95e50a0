-------------------------------- MODULE Latency --------------------------------
(***************************************************************************)
(* Latency compensation.  With GLC on, every stem that feeds Master is     *)
(* padded at the Master edge by a delay node of its own, so that all of    *)
(* them arrive with the slowest (engine/src/pipeline/glc.rs); with Master  *)
(* Direct the FX hosts pad each other instead (host/pdc.rs).  Both are     *)
(* computed from the latencies the racks report, which the host threads of *)
(* a cold arm publish side by side; the engine call that started them ends *)
(* by linking the tracks.                                                  *)
(*                                                                         *)
(* `g` is what the process shares under single locks, and the graph: `out` *)
(* holds the links of a fader to Master, direct or through its delay node. *)
(* Links between tracks are always there.  The clock does not change.      *)
(***************************************************************************)
EXTENDS Integers, FiniteSets, FiniteSetsExt, Functions, SequencesExt

CONSTANTS
    Buses,      \* track buses
    Quantum,    \* samples of one graph cycle
    Lats,       \* latencies a rack may have
    MaxLat,     \* the largest of them
    Routings,   \* outputs the user may choose: [egress, direct, off]
    MaxOps      \* bound: engine calls

Master == "master"
Glc == "glc"

ASSUME ConstantsAssumption ==
    /\ Master \notin Buses /\ IsFiniteSet(Buses)
    /\ Quantum \in Nat \ {0} /\ MaxLat \in Nat /\ Lats \subseteq 0 .. MaxLat /\ MaxOps \in Nat
    /\ \A r \in Routings : /\ r.egress \in [Buses -> SUBSET (Buses \cup {Master})]
                           /\ r.direct \subseteq Buses /\ r.off \in BOOLEAN

STAGE_QUANTA == 2
GLC_NODE_QUANTA == 1

VARIABLES
    lat,        \* running FX hosts and the latency of their rack
    muted,      \* muted tracks
    g,          \* Desired, tables, delay lines, delay nodes, links
    job,        \* a host thread: step of publish_bus_latency, what it has read
    ops         \* engine calls so far

vars == <<lat, muted, g, job, ops>>

Hosts == DOMAIN lat
NoTopo == [egress |-> [b \in Buses |-> {}], direct |-> {}, off |-> TRUE]
Zero == [b \in Buses |-> 0]
Done == [pc |-> "done", read |-> <<>>]
Idle == \A b \in Buses : job[b] = Done

At(f, b) == IF b \in DOMAIN f THEN f[b] ELSE 0      \* unwrap_or(0)
Unless(f, S) == [b \in DOMAIN f \ S |-> f[b]]
Over(f, k) == [b \in DOMAIN f \cup DOMAIN k |-> IF b \in DOMAIN f THEN f[b] ELSE k[b]]
Partial(V) == UNION {[S -> V] : S \in SUBSET Buses}

Pads == 0 .. MaxLat * Cardinality(Buses)
             + STAGE_QUANTA * Quantum * Cardinality(Buses)

\* Master Direct leaves no delay node, and no fader is linked to one that is
\* not there
NoStrayNode ==
    /\ g.disabled => DOMAIN g.node = {}
    /\ \A b \in Buses : Glc \in g.out[b] => b \in DOMAIN g.node

TypeOK ==
    /\ g.desired \in Routings
    /\ lat \in Partial(Lats)
    /\ muted \subseteq Buses
    /\ g.reported \in Partial(Lats) /\ g.targets \in Partial(Lats \cup Pads)
    /\ g.delay \in [Buses -> Pads] /\ g.pads \in [Buses -> Pads]
    /\ g.node \in Partial(Pads)
    /\ g.disabled \in BOOLEAN /\ g.topo \in Routings \cup {NoTopo}
    /\ g.out \in [Buses -> SUBSET {Master, Glc}]
    /\ NoStrayNode
    /\ \A b \in Buses :
         job[b].pc \in {"done", "report", "snap", "store", "take", "push", "plan", "publish", "live", "ready"}
    /\ ops \in 0 .. MaxOps
-----------------------------------------------------------------------------
(* The plan: longest paths over the track egress, pads at the Master edge *)

InSync(r) == Buses \ r.direct
Preds(r, b) == {u \in InSync(r) : b \in r.egress[u]}
Feeders(r) == {b \in InSync(r) : Master \in r.egress[b]}

LocalLatency(reported, b) == At(reported, b) + STAGE_QUANTA * Quantum

\* Kahn's order takes away the buses with no upstream left; a cycle remains
Cyclic(r) ==
    LET left[S \in SUBSET InSync(r)] ==
          LET free == {b \in S : Preds(r, b) \cap S = {}}
          IN  IF free = {} THEN S ELSE left[S \ free]
    IN  left[InSync(r)] # {}

\* compute_glc, for a routing without a cycle
ComputeGlc(reported, r) ==
    LET path[b \in InSync(r)] ==
          LocalLatency(reported, b) + Max({0} \cup {path[u] : u \in Preds(r, b)})
        lStar == Max({0} \cup {path[b] : b \in Feeders(r)})
    IN  [b \in Buses |-> IF b \in Feeders(r) THEN lStar - path[b] ELSE 0]

\* Mutant: the hop through the filter node is forgotten
DelayLineWhole(pad) == pad

\* The filter node delays by a quantum of its own
DelayLine(pad) ==
    IF pad > GLC_NODE_QUANTA * Quantum THEN pad - GLC_NODE_QUANTA * Quantum ELSE 0
-----------------------------------------------------------------------------
(* Delay nodes and the pads of the hosts *)

Stop(h, S) == [h EXCEPT !.node = Unless(@, S),
                        !.out = [b \in Buses |-> IF b \in S THEN @[b] \ {Glc} ELSE @[b]]]

SyncNodes(h) ==
    LET want == {b \in Buses : h.pads[b] > 0}
    IN  [Stop(h, Buses \ want) EXCEPT !.node = [b \in want |-> DelayLine(h.pads[b])]]

PeerPads(h) ==
    LET most == Max({0} \cup {h.reported[b] : b \in DOMAIN h.reported})
    IN  [b \in DOMAIN h.reported |-> IF h.disabled THEN most - h.reported[b] ELSE 0]

Stored(h, read) == [h EXCEPT !.targets = Over(read, @)]

\* Mutant: what the last publisher stored is taken for current
RefreshNothing(h) == h

RefreshPeerPads(h) == Stored(h, PeerPads(h))

Pushed(h, read) ==
    [h EXCEPT !.delay = [b \in Buses |->
                           IF b \in Hosts \cap DOMAIN read
                           THEN (IF h.disabled THEN read[b] ELSE 0) ELSE @[b]]]

ApplyAllDelays(h) == Pushed(h, h.targets)

\* Mutant: Master Direct empties the tables and leaves the nodes running
TeardownNone(h) == h

TeardownAllNodes(h) == Stop(h, Buses)

\* Direct sets the pads to zero; a cycle is refused and leaves all but the
\* switch as it was
Reconcile(h) ==
    LET r == h.desired
        on == [h EXCEPT !.disabled = FALSE]
        off == [h EXCEPT !.disabled = TRUE, !.topo = NoTopo, !.pads = Zero]
        peers(k) == ApplyAllDelays(RefreshPeerPads(k))
    IN  IF r.off THEN peers(TeardownAllNodes(off))
        ELSE IF Cyclic(r) THEN on
        ELSE peers(SyncNodes([on EXCEPT !.topo = r, !.pads = ComputeGlc(h.reported, r)]))
-----------------------------------------------------------------------------
(* Links to Master *)

Feeding(h, b) == Master \in h.desired.egress[b]
Wet(b) == b \in Hosts

PhysicalEgress(h, b) ==
    IF ~Feeding(h, b) THEN {}
    ELSE IF ~h.disabled /\ h.pads[b] > 0 THEN {Glc} ELSE {Master}

Present(h, b) == {d \in PhysicalEgress(h, b) : d = Glc => b \in DOMAIN h.node}

\* dests_linked counts only what exists, and something must
DestsLinked(h, b) ==
    /\ Present(h, b) \subseteq h.out[b]
    /\ Present(h, b) # {} \/ h.desired.egress[b] \cap Buses # {}

\* The fast path of a dry track does not look for other links of the fader
Armed(h, b) ==
    IF DestsLinked(h, b) /\ (Wet(b) => ~(h.pads[b] > 0 /\ Master \in h.out[b]))
    THEN h.out[b] ELSE Present(h, b)

ArmAll(h) ==
    LET k == IF muted = Buses THEN h ELSE Reconcile(h)
    IN  [k EXCEPT !.out = [b \in Buses |-> IF b \in muted THEN {} ELSE Armed(k, b)]]

ArmTrack(h, b) ==
    IF b \in muted THEN [h EXCEPT !.out[b] = {}]
    ELSE LET k == Reconcile(h) IN [k EXCEPT !.out[b] = Armed(k, b)]

\* "Live" is asked of the logical destination: Master itself
Unlinked(h) == {b \in Buses \ muted : Feeding(h, b) /\ Master \notin h.out[b]}

\* Mutant: strips what is not allowed and does not arm again
HealWetStrips(h) ==
    [h EXCEPT !.out = [b \in Buses |-> IF Wet(b) /\ b \in muted \cup Unlinked(h) THEN {} ELSE @[b]]]

\* prune_parallel_fx_routes strips what is not in the allow list and arms again
HealWet(h) ==
    LET again == {b \in Unlinked(h) : Wet(b)}
        cut == [h EXCEPT !.out = [b \in Buses |->
                                    IF Wet(b) /\ b \in muted \cup again THEN {} ELSE @[b]]]
        k == Reconcile(cut)
    IN  IF again = {} THEN cut
        ELSE [k EXCEPT !.out = [b \in Buses |-> IF b \in again THEN Armed(k, b) ELSE @[b]]]

HealDry(h) ==
    [h EXCEPT !.out = [b \in Buses |->
                         IF b \in Unlinked(h) /\ ~Wet(b) THEN @[b] \cup {Master} ELSE @[b]]]

Heal(h) == HealDry(HealWet(h))
-----------------------------------------------------------------------------
(* Engine calls *)

Call == Idle /\ ops < MaxOps /\ ops' = ops + 1

\* The outputs of a track, Direct, Master Direct; relink_routes
Route(r) ==
    /\ Call
    /\ g' = Heal(ArmAll(Reconcile([g EXCEPT !.desired = r])))
    /\ UNCHANGED <<lat, muted, job>>

Mute(b) ==
    /\ Call
    /\ muted' = muted \cup {b}
    /\ g' = [g EXCEPT !.out[b] = {}]
    /\ UNCHANGED <<lat, job>>

Unmute(b) ==
    /\ Call /\ b \in muted
    /\ muted' = muted \ {b}
    /\ LET k == Reconcile(g) IN g' = [k EXCEPT !.out[b] = Armed(k, b)]
    /\ UNCHANGED <<lat, job>>

\* The last effect of a track is removed: teardown_fx_chain
RemoveHost(b) ==
    /\ Call /\ Wet(b)
    /\ lat' = Unless(lat, {b})
    /\ LET k == [g EXCEPT !.out[b] = {}, !.reported = Unless(@, {b}),
                          !.targets = Unless(@, {b}), !.delay[b] = 0]
        IN  g' = ApplyAllDelays(RefreshPeerPads(k))
    /\ UNCHANGED <<muted, job>>

\* The end of an FX job, with or without effects: arm_track_egress
Rearm(b) ==
    /\ Call
    /\ g' = ArmTrack(g, b)
    /\ UNCHANGED <<lat, muted, job>>

\* The idle tick
Tick ==
    /\ Call
    /\ g' = Heal(g)
    /\ UNCHANGED <<lat, muted, job>>

\* An FX job starts or rebuilds one host, a cold arm all of them side by side.
\* A started host comes with no delay; a rebuilt one keeps its own.
EnsureHosts(S, l) ==
    /\ Call
    /\ lat' = Over(l, lat)
    /\ job' = [b \in Buses |-> IF b \in S THEN [pc |-> "report", read |-> <<>>] ELSE Done]
    /\ UNCHANGED <<g, muted>>

\* ... and when the last of them has published the call links its tracks
Linked ==
    LET started == {b \in Buses : job[b].pc = "ready"}
    IN  /\ started # {} /\ \A b \in Buses : job[b].pc \in {"done", "ready"}
        /\ g' = IF Cardinality(started) = 1 THEN ArmTrack(g, CHOOSE b \in started : TRUE)
                ELSE ArmAll(g)
        /\ job' = [b \in Buses |-> Done]
        /\ UNCHANGED <<lat, muted, ops>>
-----------------------------------------------------------------------------
(* publish_bus_latency, in the thread of a host *)

Goes(b, pc, read) == job' = [job EXCEPT ![b] = [pc |-> pc, read |-> read]]

Report(b) ==
    /\ job[b].pc = "report"
    /\ g' = [g EXCEPT !.reported = Over([c \in {b} |-> lat[c]], @)]
    /\ Goes(b, "snap", <<>>)

SnapReported(b) ==
    /\ job[b].pc = "snap"
    /\ Goes(b, "store", PeerPads(g))
    /\ UNCHANGED g

StoreTargets(b) ==
    /\ job[b].pc = "store"
    /\ g' = Stored(g, job[b].read)
    /\ Goes(b, "take", <<>>)

TakeTargets(b) ==
    /\ job[b].pc = "take"
    /\ Goes(b, "push", g.targets)
    /\ UNCHANGED g

PushDelays(b) ==
    /\ job[b].pc = "push"
    /\ g' = Pushed(g, job[b].read)
    /\ Goes(b, "plan", <<>>)

\* recompute_from_cached_topo: with no cached topology the plan is empty
PlanCached(b) ==
    /\ job[b].pc = "plan"
    /\ Goes(b, "publish", IF g.disabled THEN Zero ELSE ComputeGlc(g.reported, g.topo))
    /\ UNCHANGED g

PublishPlan(b) ==
    /\ job[b].pc = "publish"
    /\ g' = [g EXCEPT !.pads = job[b].read]
    /\ Goes(b, "live", job[b].read)

\* Lines of nodes that are there; none is started or stopped
ApplyToLiveNodes(b) ==
    /\ job[b].pc = "live"
    /\ g' = [g EXCEPT !.node = [n \in DOMAIN @ |-> DelayLine(job[b].read[n])]]
    /\ Goes(b, "ready", <<>>)

Publish(b) ==
    /\ \/ Report(b) \/ SnapReported(b) \/ StoreTargets(b) \/ TakeTargets(b) \/ PushDelays(b)
       \/ PlanCached(b) \/ PublishPlan(b) \/ ApplyToLiveNodes(b)
    /\ UNCHANGED <<lat, muted, ops>>

\* A session with neither effects nor delay nodes, linked
Init ==
    /\ lat = <<>> /\ muted = {} /\ ops = 0
    /\ job = [b \in Buses |-> Done]
    /\ \E r \in {x \in Routings : x.off} :
         g = [desired |-> r, disabled |-> TRUE, topo |-> NoTopo, pads |-> Zero,
              reported |-> <<>>, targets |-> <<>>, delay |-> Zero, node |-> <<>>,
              out |-> [b \in Buses |-> r.egress[b] \cap {Master}]]

Next ==
    \/ \E r \in Routings : Route(r)
    \/ \E b \in Buses : Mute(b) \/ Unmute(b) \/ RemoveHost(b) \/ Rearm(b)
    \/ Tick
    \/ \E b \in Buses, x \in Lats : EnsureHosts({b}, [c \in {b} |-> x])
    \/ \E l \in [Buses -> Lats] : EnsureHosts(Buses, l)
    \/ Linked
    \/ \E b \in Buses : Publish(b)

Spec == Init /\ [][Next]_vars
-----------------------------------------------------------------------------
(* The reference: every path by itself *)

Chains(r, b) ==
    {s \in UNION {[1 .. n -> InSync(r)] : n \in 1 .. Cardinality(Buses)} :
        s[Len(s)] = b /\ \A i \in 1 .. Len(s) - 1 : s[i + 1] \in r.egress[s[i]]}

Arrival(k, b) ==
    Max({FoldLeft(+, 0, [i \in DOMAIN s |-> LocalLatency(k.reported, s[i])]) :
            s \in Chains(k.desired, b)})

\* After relink_routes with GLC on, every open stem that feeds Master goes
\* through its delay node if and only if it needs one, and arrives that way
\* less than a quantum after the slowest, whatever raced before.  With effects
\* it has no other way.  Without effects it has: the heal of dry egress looks
\* for Master itself, and adds an un-delayed link beside the delay node.
RoutedInStep ==
    [][\A r \in Routings :
         Route(r) /\ ~r.off /\ ~Cyclic(r) =>
           LET last == Max({0} \cup {Arrival(g', b) : b \in Feeders(r)})
               pad(b) == IF b \in DOMAIN g'.node
                         THEN GLC_NODE_QUANTA * Quantum + g'.node[b] ELSE 0
           IN  \A b \in Feeders(r) \ muted :
                 /\ g'.out[b] = IF b \notin DOMAIN g'.node THEN {Master}
                                 ELSE IF Wet(b) THEN {Glc} ELSE {Glc, Master}
                 /\ Arrival(g', b) + pad(b) \in last .. last + Quantum - 1]_vars

\* A delay node can be taken away under a track by a call for another one: the
\* next idle tick gives every open stem a way to Master again, unless the
\* routing is a cycle that reconcile refuses.
TickReconnects ==
    [][Tick /\ (g.desired.off \/ ~Cyclic(g.desired)) =>
         \A b \in Buses \ muted : Feeding(g, b) => g'.out[b] # {}]_vars

\* Master Direct: when the engine is at rest all open stems with effects leave
\* their hosts together, in whatever order the host threads published.
PeersInStep ==
    Idle /\ g.disabled =>
      \A b, c \in Hosts \ muted : lat[b] + g.delay[b] = lat[c] + g.delay[c]
=============================================================================
