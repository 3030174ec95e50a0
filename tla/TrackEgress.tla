------------------------------ MODULE TrackEgress ------------------------------
(***************************************************************************)
(* How one track bus reaches its outputs (engine/src/pipeline/arm.rs,      *)
(* pipeline/insert_host.rs and the healers of engine/src/runtime.rs).      *)
(*                                                                         *)
(* Audio leaves the bus along bus -> dest, bus -> post -> dest (dry, behind*)
(* the fader) or bus -> fx -> post -> dest (wet).  Three threads rewrite   *)
(* the links: the FX thread (rewire_track_fx), the Interactive lane (mute, *)
(* PlaceApp, capture) and the Supervisor (EnsureTrack, Route, the idle     *)
(* tick).  Every call into the engine holds ENGINE, so it is one step here;*)
(* the threads interleave between calls.                                   *)
(*                                                                         *)
(* Outputs are other buses: devices behind a rate bridge, latency pads     *)
(* (off while Master is Direct, the default), the hold sink and the meter  *)
(* tap are left out, and so are racks that are present but empty.          *)
(***************************************************************************)
EXTENDS Naturals, FiniteSets, SequencesExt

CONSTANTS
    Dests,      \* the sinks a track may be sent to
    Chains,     \* the insert chains a user builds, by signature
    MaxGestures,\* bound: edits of the chain or the outputs, presses of mute
    MaxFaults,  \* bound: engine calls that cannot change the links of some node
    MaxEvents,  \* bound: links, hosts and sinks lost outside the program
    Dry         \* the empty chain, and the chain of a host that is not running

ASSUME ConstantsAssumption ==
    /\ Dry \notin Chains
    /\ Dests # {} /\ IsFiniteSet(Dests)
    /\ {"bus", "fx", "post", "none"} \cap Dests = {}
    /\ MaxGestures \in Nat /\ MaxFaults \in Nat /\ MaxEvents \in Nat

Racks == Chains \cup {Dry}
Outs(src) == {<<src, d>> : d \in Dests}
Pairs == {<<"bus", "fx">>, <<"fx", "post">>, <<"bus", "post">>}
            \cup Outs("bus") \cup Outs("post")
Nodes == {"bus", "fx", "post"} \cup Dests
NoNode == "none"
Egresses == {s \in SeqOf(Dests, Cardinality(Dests)) : IsInjective(s)}

Sessions == [chain : Racks, egress : Egresses, mute : BOOLEAN]
Idle == [pc |-> "idle", ses |-> [chain |-> Dry, egress |-> <<>>, mute |-> FALSE]]
LaneIdle == [pc |-> "idle", mute |-> FALSE, was |-> FALSE]

VARIABLES
    ses,        \* the window's session; ses.mute is also the mixer authority
    jobs,       \* RewireTrackFx: the sessions sent with them
    routes,     \* RewireSessionRoutes, likewise
    levels,     \* SetTrackLevel: the audible gate each carries
    fx,         \* FX thread: next step of rewire_track_fx, its session
    sup,        \* Supervisor: next step of the command, its session
    lane,       \* Interactive: next step of SetTrackLevel, its gate
    laneMuted,  \* that lane's muted_buses[bus]
    des,        \* DesiredState of the bus: chain, egress, muted, failed
    latch,      \* applied_monitor_mute[bus]
    g,          \* the live graph: links, post exists, chain of the host, sinks
    faults, gestures, events

vars == <<ses, jobs, routes, levels, fx, sup, lane, laneMuted, des, latch, g,
          faults, gestures, events>>

UserVars == <<ses, jobs, routes, levels, gestures>>
LaneVars == <<lane, laneMuted>>

TypeOK ==
    /\ ses \in Sessions
    /\ jobs \in Seq(Sessions) /\ routes \in Seq(Sessions) /\ levels \in Seq(BOOLEAN)
    /\ fx \in [pc : {"idle", "ensure", "arm", "level", "gate"}, ses : Sessions]
    /\ sup \in [pc : {"idle", "relink", "volume", "arm", "level", "gate"}, ses : Sessions]
    /\ lane \in [pc : {"idle", "level", "gate"}, mute : BOOLEAN, was : BOOLEAN]
    /\ laneMuted \in BOOLEAN
    /\ des \in [chain : Racks, egress : Egresses, muted : BOOLEAN, failed : BOOLEAN]
    /\ latch \in BOOLEAN
    /\ g \in [links : SUBSET Pairs, post : BOOLEAN, host : Racks,
              up : SUBSET Dests, bad : {NoNode}]
    /\ \A p \in g.links : /\ "post" \in Range(p) => g.post
                          /\ "fx" \in Range(p) => g.host # Dry
                          /\ Range(p) \cap Dests \subseteq g.up
    /\ faults \in 0 .. MaxFaults /\ gestures \in 0 .. MaxGestures
    /\ events \in 0 .. MaxEvents
-----------------------------------------------------------------------------
(* The backend.  During one engine call the links at the node h.bad can be *)
(* neither made nor removed.                                               *)

\* Op applied to the graph an earlier operation left, evaluated once
Then(h, Op(_)) == CHOOSE r \in {Op(x) : x \in {h}} : TRUE

Exists(h, n) == CASE n = "bus"  -> TRUE
                  [] n = "fx"   -> h.host # Dry
                  [] n = "post" -> h.post
                  [] OTHER      -> n \in h.up

Present(h) == [h EXCEPT !.links = {p \in @ : \A n \in Range(p) : Exists(h, n)}]

Free(h, S) == {p \in S : h.bad \notin Range(p)}

LinkBlindly(h, S) == [h EXCEPT !.links = @ \cup Free(h, S)]
Link(h, S) == Present([h EXCEPT !.links = @ \cup Free(h, S)])

Cut(h, S) == [h EXCEPT !.links = @ \ Free(h, S)]

CutFrom(h, src, keep) == Cut(h, {p \in h.links : p[1] = src /\ p[2] \notin keep})

To(src, ds) == {<<src, d>> : d \in Range(ds)}

\* link_to_dest for each destination, up to the first that fails
LinkUntilError(h, src, ds) ==
    LET Fails(d) == d \in h.up /\ h.bad \in {src, d} /\ <<src, d>> \notin h.links
    IN  Link(h, {<<src, ds[i]>> :
                    i \in {j \in DOMAIN ds : \A k \in 1 .. j : ~Fails(ds[k])}})

DestsLinked(h, src, ds) ==
    /\ Range(ds) \cap h.up # {}
    /\ \A d \in Range(ds) \cap h.up : <<src, d>> \in h.links

EgressLive(h, wet, ds) == DestsLinked(h, IF wet \/ h.post THEN "post" ELSE "bus", ds)

SpineReady(h) ==
    h.post /\ h.host # Dry /\ {<<"bus", "fx">>, <<"fx", "post">>} \subseteq h.links

ChainIsWet(h, d) == ~d.failed /\ SpineReady(h)

EnsurePost(h) == [h EXCEPT !.post = TRUE]

\* Dry hops whose destination already hears the post
Doubled(h, ds) == {<<"bus", d>> : d \in {e \in Range(ds) : <<"post", e>> \in h.links}}
-----------------------------------------------------------------------------
(* Arming                                                                  *)

Disarm(h, keepFx) ==
    LET a == CutFrom(h, "post", {})
    IN  IF keepFx /\ h.host # Dry
        THEN Link(CutFrom(a, "bus", {"fx"}), {<<"bus", "fx">>})
        ELSE CutFrom(a, "bus", {})

ArmDry(h, ds) ==
    LET src  == IF h.post THEN "post" ELSE "bus"
        done == /\ DestsLinked(h, src, ds)
                /\ h.post => /\ <<"bus", "post">> \in h.links
                             /\ h.links \cap To("bus", ds) = {}
        base == IF h.post
                THEN Link(CutFrom(h, "bus", {"post"}), {<<"bus", "post">>})
                ELSE CutFrom(h, "post", {})
        Tidy(x) == IF \A d \in Range(ds) \cap h.up : <<src, d>> \in x.links
                   THEN CutFrom(x, src, Range(ds)) ELSE x
    IN  IF done THEN h
        ELSE Then(Then(base, LAMBDA x : LinkUntilError(x, src, ds)), Tidy)

ArmDryKeepingFx(h, ds) ==
    LET a == Link(h, {<<"bus", "fx">>})
    IN  IF h.post
        THEN Link(CutFrom(Link(a, {<<"bus", "post">>}), "bus", {"fx", "post"}),
                  To("post", ds))
        ELSE CutFrom(Link(a, To("bus", ds)), "bus", Range(ds) \cup {"fx"})

ArmWetSoftBare(h, ds) ==
    CutFrom(Link(h, {<<"bus", "fx">>, <<"fx", "post">>} \cup To("post", ds)), "bus", {})
ArmWetSoft(h, ds) ==
    LET Exclusive(x) == IF DestsLinked(x, "post", ds)
                        THEN CutFrom(x, "bus", {"fx"})
                        ELSE ArmDryKeepingFx(x, ds)
    IN  Then(CutFrom(Link(h, {<<"bus", "fx">>, <<"fx", "post">>} \cup To("post", ds)),
                     "post", Range(ds)), Exclusive)

Arm(h, wet, ds) ==
    LET exclusive == /\ SpineReady(h) /\ DestsLinked(h, "post", ds)
                     /\ h.links \cap To("bus", ds) = {}
    IN  IF ~(wet /\ (h.host # Dry \/ h.post)) THEN ArmDry(h, ds)
        ELSE IF exclusive THEN h ELSE ArmWetSoft(h, ds)

EngineArmAnyway(h, d, wet) == Arm(h, wet, d.egress)
EngineArm(h, d, wet) ==
    IF d.muted THEN Disarm(h, TRUE) ELSE Arm(h, wet, d.egress)

\* engine_handle::arm_track_egress: both branches fall back on the spine
HandleArm(h, d) == EngineArm(h, d, SpineReady(h))

TeardownChain(h) ==
    Present([CutFrom(h, "bus", {}) EXCEPT !.post = FALSE, !.host = Dry])
-----------------------------------------------------------------------------
(* Healing                                                                 *)

\* The spine has no host: nothing to keep
StripPost(h, ds) == IF h.links \cap To("post", ds) # {} THEN CutFrom(h, "post", {}) ELSE h

RestoreFeed(h) == IF h.host # Dry THEN Link(h, {<<"bus", "fx">>}) ELSE h

PruneWet(h, d) ==
    LET live == EgressLive(h, TRUE, d.egress)
        a == IF live THEN Cut(h, Doubled(h, d.egress)) ELSE h
        Rearm(x) == IF Range(d.egress) \cap h.up # {} THEN EngineArm(x, d, TRUE) ELSE x
    IN  IF d.muted THEN CutFrom(a, "post", {})
        ELSE IF live THEN a
        ELSE Then(CutFrom(a, "post", Range(d.egress)), Rearm)

PruneSettling(h, d) ==
    LET Settle(x) ==
          IF SpineReady(x) /\ ~d.muted
          THEN IF EgressLive(x, TRUE, d.egress)
               THEN Cut(x, Doubled(x, d.egress)) ELSE EngineArm(x, d, TRUE)
          ELSE IF x.host = Dry THEN StripPost(x, d.egress)
          ELSE IF <<"bus", "fx">> \in x.links THEN Cut(x, Doubled(x, d.egress)) ELSE x
    IN  Then(RestoreFeed(h), Settle)

Prune(h, d) ==
    IF d.chain = Dry \/ d.egress = <<>> THEN h
    ELSE IF ChainIsWet(h, d) THEN PruneWet(h, d) ELSE PruneSettling(h, d)

HealDry(h, d) ==
    LET Hops(x) == Link(Cut(x, Doubled(x, d.egress)), To("post", d.egress))
    IN  IF h.host # Dry \/ d.muted THEN h
        ELSE IF ~h.post THEN Link(h, To("bus", d.egress))
        ELSE IF EgressLive(h, FALSE, d.egress) THEN h
        ELSE Then(Link(h, {<<"bus", "post">>}), Hops)

Matches(h, d) == h.host = d.chain     \* fp_ok && running

ReconcileFxTrustsHost(h, d) ==
    IF d.chain = Dry THEN IF h.host # Dry THEN TeardownChain(h) ELSE h
    ELSE IF Matches(h, d) \/ d.egress = <<>> THEN h ELSE EngineArm(h, d, TRUE)
ReconcileFx(h, d) ==
    LET primary == IF d.egress = <<>> THEN {} ELSE {<<"bus", Head(d.egress)>>}
        Restored(x) == IF SpineReady(x) /\ ~d.muted
                       THEN IF d.egress # <<>> THEN EngineArm(x, d, TRUE) ELSE x
                       ELSE IF x.host = Dry THEN StripPost(x, d.egress) ELSE x
    IN  IF d.chain = Dry THEN IF h.host # Dry THEN TeardownChain(h) ELSE h
        ELSE IF Matches(h, d) THEN Cut(EngineArm(h, d, TRUE), primary)
        ELSE Then(RestoreFeed(h), Restored)

FailedAfterFx(h, d) == IF d.chain = Dry THEN d.failed ELSE ~Matches(h, d)

Leaks(h, d) == h.links \cap (To("bus", d.egress) \cup To("post", d.egress)) # {}

ReapplyNoLeak(h, d) ==
    LET want == d.chain # Dry \/ h.host # Dry
        gone == ~EgressLive(h, want, d.egress) /\ ~EgressLive(h, FALSE, d.egress)
    IN  IF d.muted \/ ~gone THEN h ELSE EngineArm(h, d, want)
Reapply(h, d) ==
    LET want == d.chain # Dry \/ h.host # Dry
    IN  IF d.muted THEN IF Leaks(h, d) THEN Disarm(h, TRUE) ELSE h
        ELSE IF EgressLive(h, want, d.egress)
             THEN IF want THEN Cut(h, Doubled(h, d.egress)) ELSE h
        ELSE IF EgressLive(h, FALSE, d.egress) THEN h ELSE EngineArm(h, d, want)

HealNeeded(h, d) ==
    /\ ~d.muted /\ d.egress # <<>>
    /\ ~EgressLive(h, d.chain # Dry \/ h.host # Dry, d.egress)
    /\ ~EgressLive(h, FALSE, d.egress)

\* reconcile_light: the graph after one idle tick
Ticked(h, d, slow, withFx) ==
    LET Sweep(x) == IF slow \/ HealNeeded(x, d)
                    THEN Then(Prune(x, d), LAMBDA y : HealDry(y, d)) ELSE x
        Fx(x)    == IF withFx THEN ReconcileFx(x, d) ELSE x
    IN  Then(Then(Then(EnsurePost(h), Sweep), Fx), LAMBDA x : Reapply(x, d))
-----------------------------------------------------------------------------
(* Operations of the engine on the bus                                     *)

GateSkips(h, d, m) ==
    /\ latch = m
    /\ IF m THEN ~Leaks(h, d)
            ELSE \/ EgressLive(h, SpineReady(h), d.egress)
                 \/ EgressLive(h, FALSE, d.egress)

Gated(h, d, m) ==
    LET want == d.chain # Dry \/ h.host # Dry
        Retry(x) == IF EgressLive(x, TRUE, d.egress) \/ EgressLive(x, FALSE, d.egress)
                    THEN x ELSE EngineArm(x, d, want)
    IN  IF GateSkips(h, d, m) THEN h
        ELSE IF m THEN Disarm(h, TRUE)
        ELSE Then(EngineArm(h, d, want), Retry)

\* link_spine: the feed, then fx -> post
LinkSpine(h) ==
    LET a == Link(h, {<<"bus", "fx">>})
    IN  IF <<"bus", "fx">> \in a.links THEN Link(a, {<<"fx", "post">>}) ELSE a

\* ensure_fx_chain(ForceRespawn): the graph once the host runs the chain
Respawned(h, d, chain) ==
    LET Bare(x) == IF d.muted \/ d.egress = <<>> THEN x ELSE Arm(x, TRUE, d.egress)
        Armed(x) == IF ~SpineReady(x) THEN x
                    ELSE Then(Bare(x), LAMBDA y : EngineArm(y, d, TRUE))
    IN  Then(LinkSpine([EnsurePost(h) EXCEPT !.host = chain]), Armed)

Synced(h, s, m) ==
    LET a == IF s.chain = Dry /\ (des.chain # Dry \/ h.host # Dry)
             THEN TeardownChain(h) ELSE h
    IN  IF m THEN Disarm(a, TRUE) ELSE a

Faults == {NoNode} \cup IF faults < MaxFaults THEN Nodes ELSE {}
During(b) == [g EXCEPT !.bad = b]
Call(h, b) ==
    /\ g' = [h EXCEPT !.bad = NoNode]
    /\ faults' = faults + IF b = NoNode THEN 0 ELSE 1

\* sync_desired_from_session: levels come from the mixer authority
Sync(s, b) ==
    /\ des' = [des EXCEPT !.chain = s.chain, !.egress = s.egress, !.muted = ses.mute]
    /\ latch' = ses.mute
    /\ Call(Synced(During(b), s, ses.mute), b)

Gate(m, b) ==
    /\ des' = [des EXCEPT !.muted = m]
    /\ latch' = m
    /\ Call(Gated(During(b), [des EXCEPT !.muted = m], m), b)

SetLevels(b) == Call(EnsurePost(During(b)), b) /\ UNCHANGED <<des, latch>>

Relinked(h, d) ==
    Then(Then(EngineArm(h, d, d.chain # Dry), LAMBDA x : Prune(x, d)),
         LAMBDA x : HealDry(x, d))
-----------------------------------------------------------------------------
(* The window *)

EditChain(c) ==
    /\ c # ses.chain
    /\ ses' = [ses EXCEPT !.chain = c]
    /\ jobs' = Append(jobs, ses')
    /\ UNCHANGED <<routes, levels>>

EditEgress(e) ==
    /\ e # ses.egress
    /\ ses' = [ses EXCEPT !.egress = e]
    /\ routes' = Append(routes, ses')
    /\ UNCHANGED <<jobs, levels>>

MuteLamp ==
    /\ ses' = [ses EXCEPT !.mute = ~@]
    /\ levels' = Append(levels, ses'.mute)
    /\ UNCHANGED <<jobs, routes>>

Window ==
    /\ gestures < MaxGestures /\ gestures' = gestures + 1
    /\ \/ \E c \in Racks : EditChain(c)
       \/ \E e \in Egresses : EditEgress(e)
       \/ MuteLamp
    /\ UNCHANGED <<fx, sup, LaneVars, des, latch, g, faults, events>>

\* A batch is coalesced: the newest of its commands is the one carried out
Coalesced(q, n) == q[n]
Rest(q, n) == SubSeq(q, n + 1, Len(q))
-----------------------------------------------------------------------------
(* The FX thread: rewire_track_fx *)

FxTake(b) ==
    /\ fx.pc = "idle"
    /\ \E n \in DOMAIN jobs :
         /\ jobs' = Rest(jobs, n)
         /\ fx' = [pc |-> "ensure", ses |-> Coalesced(jobs, n)]
         /\ Sync(Coalesced(jobs, n), b)

FxEnsure(b) ==
    LET chain == fx.ses.chain
        h == During(b)
    IN  /\ fx.pc = "ensure"
        /\ fx' = [fx EXCEPT !.pc = "arm"]
        /\ \/ /\ chain = Dry
              /\ Call(TeardownChain(h), b)
              /\ des' = [des EXCEPT !.chain = Dry, !.failed = FALSE]
           \/ /\ chain # Dry    \* Rack::build refuses the chain
              /\ b = NoNode /\ faults < MaxFaults
              /\ g' = EnsurePost(g) /\ faults' = faults + 1
              /\ des' = [des EXCEPT !.failed = TRUE]
           \/ LET r == Respawned(h, des, chain)
              IN  /\ chain # Dry
                  /\ Call(r, b)
                  /\ des' = IF SpineReady(LinkSpine([EnsurePost(h) EXCEPT !.host = chain]))
                            THEN [des EXCEPT !.chain = chain, !.failed = FALSE]
                            ELSE [des EXCEPT !.failed = TRUE]
        /\ UNCHANGED <<jobs, latch>>

FxArm(b) ==
    /\ fx.pc = "arm"
    /\ fx' = [fx EXCEPT !.pc = "level"]
    /\ Call(HandleArm(During(b), des), b)
    /\ UNCHANGED <<jobs, des, latch>>

FxLevel(b) ==
    /\ fx.pc = "level"
    /\ fx' = [fx EXCEPT !.pc = "gate"]
    /\ SetLevels(b)
    /\ UNCHANGED jobs

\* open_track_audio: the mute bit of the job's own session
FxGate(b) ==
    /\ fx.pc = "gate"
    /\ fx' = Idle
    /\ Gate(fx.ses.mute, b)
    /\ UNCHANGED jobs

Fx(b) ==
    /\ UNCHANGED <<ses, routes, levels, sup, LaneVars, gestures, events>>
    /\ FxTake(b) \/ FxEnsure(b) \/ FxArm(b) \/ FxLevel(b) \/ FxGate(b)
-----------------------------------------------------------------------------
(* The Supervisor: EnsureTrack, RewireSessionRoutes, the idle tick *)

SupTake(b) ==
    /\ sup.pc = "idle"
    /\ \E n \in DOMAIN routes :
         /\ routes' = Rest(routes, n)
         /\ sup' = [pc |-> "relink", ses |-> Coalesced(routes, n)]
         /\ Sync(Coalesced(routes, n), b)

SupRelink(b) ==
    /\ sup.pc = "relink"
    /\ sup' = [sup EXCEPT !.pc = "volume"]
    /\ Call(Relinked(During(b), des), b)
    /\ UNCHANGED <<routes, des, latch>>

SupVolume(b) ==
    /\ sup.pc = "volume"
    /\ sup' = Idle
    /\ SetLevels(b)
    /\ UNCHANGED routes

\* ensure_live_track, after its sync
SupArm(b) ==
    /\ sup.pc = "arm"
    /\ sup' = [sup EXCEPT !.pc = "level"]
    /\ Call(HandleArm(During(b), des), b)
    /\ UNCHANGED <<routes, des, latch>>

SupLevel(b) ==
    /\ sup.pc = "level"
    /\ sup' = [sup EXCEPT !.pc = "gate"]
    /\ SetLevels(b)
    /\ UNCHANGED routes

SupGate(b) ==
    /\ sup.pc = "gate"
    /\ sup' = Idle
    /\ Gate(sup.ses.mute, b)
    /\ UNCHANGED routes

Tick(slow, withFx, b) ==
    /\ sup.pc = "idle" /\ routes = <<>>
    /\ UNCHANGED <<routes, sup>>
    /\ latch' = des.muted
    /\ des' = IF withFx THEN [des EXCEPT !.failed = FailedAfterFx(g, des)] ELSE des
    /\ Call(Ticked(During(b), des, slow, withFx), b)

SupCommand(b) ==
    \/ SupTake(b) \/ SupRelink(b) \/ SupVolume(b)
    \/ SupArm(b) \/ SupLevel(b) \/ SupGate(b)

SupRest == <<ses, jobs, levels, fx, lane, laneMuted, gestures, events>>

Sup(b) ==
    /\ SupCommand(b) \/ \E slow, withFx \in BOOLEAN : Tick(slow, withFx, b)
    /\ UNCHANGED SupRest
-----------------------------------------------------------------------------
(* The Interactive lane: SetTrackLevel, PlaceApp, SyncCaptureDelta *)

LaneTake ==
    /\ lane.pc = "idle"
    /\ \E n \in DOMAIN levels :
         LET m == Coalesced(levels, n)
         IN  /\ levels' = Rest(levels, n)
             /\ lane' = [pc |-> "level", mute |-> m, was |-> laneMuted]
             /\ laneMuted' = m
             /\ des' = [des EXCEPT !.muted = m]
    /\ UNCHANGED <<latch, g, faults>>

LaneLevel(b) ==
    /\ lane.pc = "level"
    /\ lane' = IF lane.mute \/ lane.was THEN [lane EXCEPT !.pc = "gate"] ELSE LaneIdle
    /\ SetLevels(b)
    /\ UNCHANGED <<levels, laneMuted>>

LaneGate(b) ==
    /\ lane.pc = "gate"
    /\ lane' = LaneIdle
    /\ Gate(lane.mute, b)
    /\ UNCHANGED <<levels, laneMuted>>

LanePlaceApp(b) ==
    /\ lane.pc = "idle" /\ ses.chain # Dry
    /\ Call(HandleArm(During(b), des), b)
    /\ UNCHANGED <<levels, LaneVars, des, latch>>

LaneCapture(b) ==
    LET Dead(h) == /\ ~EgressLive(h, TRUE, des.egress)
                   /\ ~EgressLive(h, FALSE, des.egress)
        a == EngineArm(During(b), des, SpineReady(g))
    IN  /\ lane.pc = "idle" /\ ~des.muted /\ des.egress # <<>>
        /\ ~EgressLive(g, SpineReady(g), des.egress) /\ Dead(g)
        /\ Call(IF Dead(a) THEN EngineArm(a, des, FALSE) ELSE a, b)
        /\ latch' = FALSE
        /\ UNCHANGED <<levels, LaneVars, des>>

LaneCommand(b) == LaneLevel(b) \/ LaneGate(b) \/ (b = NoNode /\ LaneTake)

LaneRest == <<ses, jobs, routes, fx, sup, gestures, events>>

Lane(b) ==
    /\ LaneCommand(b) \/ LanePlaceApp(b) \/ LaneCapture(b)
    /\ UNCHANGED LaneRest
-----------------------------------------------------------------------------
(* Outside the program *)

DestGone(d) == d \in g.up /\ g' = Present([g EXCEPT !.up = @ \ {d}])
HostDies == g.host # Dry /\ g' = Present([g EXCEPT !.host = Dry])
LinkLost(p) == p \in g.links /\ g' = [g EXCEPT !.links = @ \ {p}]
DestBack(d) == d \notin g.up /\ g' = [g EXCEPT !.up = @ \cup {d}] /\ UNCHANGED events

Outside ==
    /\ \/ /\ events < MaxEvents /\ events' = events + 1
          /\ \/ \E d \in Dests : DestGone(d)
             \/ HostDies
             \/ \E p \in Pairs : LinkLost(p)
       \/ \E d \in Dests : DestBack(d)
    /\ UNCHANGED <<UserVars, fx, sup, LaneVars, des, latch, faults>>

New == [chain |-> Dry, egress |-> <<CHOOSE d \in Dests : TRUE>>, mute |-> FALSE]

\* EnsureTrack has spawned the bus of a new track and written DesiredState;
\* meanwhile the user may have inserted its first effect
Init ==
    /\ \E c \in Racks :
         /\ ses = [New EXCEPT !.chain = c]
         /\ jobs = IF c = Dry THEN <<>> ELSE <<ses>>
    /\ routes = <<>> /\ levels = <<>>
    /\ fx = Idle
    /\ sup = [pc |-> "arm", ses |-> New]
    /\ lane = LaneIdle /\ laneMuted = FALSE
    /\ des = [chain |-> Dry, egress |-> New.egress, muted |-> FALSE, failed |-> FALSE]
    /\ latch = FALSE
    /\ g = [links |-> {}, post |-> FALSE, host |-> Dry, up |-> Dests, bad |-> NoNode]
    /\ faults = 0 /\ gestures = 0 /\ events = 0

Next ==
    \/ Window
    \/ \E b \in Faults : Fx(b) \/ Sup(b) \/ Lane(b)
    \/ Outside

\* Every 24th idle tick is both a slow sweep and an FX tick
FullTick == UNCHANGED SupRest /\ Tick(TRUE, TRUE, NoNode)

Fairness ==
    /\ WF_vars(Fx(NoNode))
    /\ WF_vars(UNCHANGED SupRest /\ SupCommand(NoNode))
    /\ WF_vars(UNCHANGED LaneRest /\ LaneCommand(NoNode))
    /\ WF_vars(FullTick)

Spec == Init /\ [][Next]_vars /\ Fairness
-----------------------------------------------------------------------------
Silent == g.links \cap (Outs("bus") \cup Outs("post")) = {}

\* Past the fader, from the bus itself or through the effects
Through(d) ==
    /\ <<"post", d>> \in g.links
    /\ \/ <<"bus", "post">> \in g.links
       \/ {<<"bus", "fx">>, <<"fx", "post">>} \subseteq g.links

Audible(d) == <<"bus", d>> \in g.links \/ Through(d)

\* The chain DesiredState asks for has a host, whatever that host runs
Hosted == des.chain # Dry => g.host # Dry

Wanted(d) == ~des.muted /\ d \in Range(des.egress) /\ d \in g.up

\* The one hop no healer looks at: the dry feed of a fader stage
Fed == g.host = Dry /\ g.post => <<"bus", "post">> \in g.links

\* While DesiredState says muted no engine call of any thread opens a silent
\* track: arming, healing, respawning and relinking all honour the mute.
MuteHolds == [][des.muted /\ des'.muted /\ Silent => Silent']_vars

\* A muted track falls silent on all its outputs even when a link could not
\* be removed at once: the tick keeps looking for the leak.
MutedFallsSilent == des.muted ~> (~des.muted \/ \A d \in Range(des.egress) : ~Audible(d))

\* An open track comes to be heard by all its outputs that exist, whichever of
\* arming, respawning, healing, failing and lost links came before, as long
\* as its fader is fed and a chain it wants has a host.
Reachable == ~des.muted /\ Hosted /\ Fed
AudibleAgain == Reachable ~> (~Reachable \/ \A d \in Dests : Wanted(d) => Audible(d))

\* The idle tick never silences an output that hears the track the way it is
\* meant to, past the fader once there is one; the track's host is running.
Hears(d) == Wanted(d) /\ Hosted /\ IF g.post THEN Through(d) ELSE Audible(d)
TickHarmless ==
    [][(\E d \in Dests : Hears(d) /\ ~Audible(d)')
         => ~ \E slow, withFx \in BOOLEAN : Tick(slow, withFx, NoNode)]_vars

\* "Hot mute latch wins over stale Desired clears (async FX jobs with
\* mute=false)" (runtime.rs:2829): once every command is carried out the track
\* is gated as the user last asked.
Quiet == /\ jobs = <<>> /\ routes = <<>> /\ levels = <<>>
         /\ fx.pc = "idle" /\ sup.pc = "idle" /\ lane.pc = "idle"
MuteSticks == Quiet => des.muted = ses.mute
=============================================================================
