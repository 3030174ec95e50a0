---------------------------- MODULE MeterTapsProofs ----------------------------
(* Proofs about MeterTaps, for any number of lanes, filters and events.       *)
EXTENDS MeterTaps, FiniteSetTheorems, TLAPS

\* The thread of f has not ended
Alive(f) == ~Ended(f)

\* A filter is in one place at most: a registry, or somebody's hand
Owned ==
    /\ \A t \in Threads : thr[t].f # None => thr[t].f # tap /\ thr[t].f # host
    /\ \A t, u \in Threads : thr[t].f # None /\ thr[t].f = thr[u].f => t = u

\* and in one at least while it runs
Kept ==
    \A f \in Filters :
      Alive(f) => f = tap \/ f = host \/ \E t \in Threads : thr[t].f = f

\* When a thread has a filter in hand
Hands ==
    \A t \in Threads :
      /\ thr[t].pc \in {"wait", "insert", "start", "install"} => thr[t].f # None
      /\ thr[t].pc \in {"idle", "sweep", "entry", "look", "remove", "ensure", "stop"}
           => thr[t].f = None

\* The host that runs is the published one, and no other is being started
Published ==
    /\ hostState # None => fil[hostState].pc = "running"
    /\ Alive(host) => hostState = host
    /\ thr[Eng].pc \in {"start", "install"} => ~Alive(host)
    /\ thr[Eng].pc = "install" /\ Alive(thr[Eng].f) => hostState = thr[Eng].f
    /\ thr[Eng].pc = "stopped" => host = None

\* A tap beside a live host is about to be asked about or removed
Doomed ==
    Live /\ tap # None =>
      \/ \E l \in Lanes : thr[l].pc = "recheck"
      \/ \E t \in Threads : thr[t].pc = "remove"
      \/ thr[Eng].pc \in {"install", "replace"}

\* The inductive invariant; a host that connected late may be missed by both sides
TapInv == TypeOK /\ Owned /\ Kept /\ Hands /\ (~late => Published /\ Doomed)

\* What a thread does next is always one of the steps it knows: the four ways in
\* which a step moves its thread (Goes, GoesWith, Teardown, Rests) keep thr typed.
LEMMA ThreadMoves ==
    ASSUME thr \in [Threads -> Doing], NEW t \in Threads, NEW pc \in Steps,
           NEW f \in Maybe, NEW next \in {"idle", "entry", "ensure"}
    PROVE  /\ Goes(t, pc) => thr' \in [Threads -> Doing]
           /\ GoesWith(t, pc, f) => thr' \in [Threads -> Doing]
           /\ Teardown(t, next) => thr' \in [Threads -> Doing]
           /\ Rests(t) => thr' \in [Threads -> Doing]
<1>1. Goes(t, pc) => thr' \in [Threads -> Doing]
  BY DEF Doing, Goes
<1>2. GoesWith(t, pc, f) => thr' \in [Threads -> Doing]
  <2>1. [thr[t] EXCEPT !.pc = pc, !.f = f] \in Doing
    BY DEF Doing
  <2>2. GoesWith(t, pc, f) => thr' = [thr EXCEPT ![t] = [thr[t] EXCEPT !.pc = pc, !.f = f]]
    BY DEF GoesWith
  <2> QED BY <2>1, <2>2
<1>3. Teardown(t, next) => thr' \in [Threads -> Doing]
  BY DEF Doing, Teardown, Steps, Maybe
<1>4. Rest \in Doing
  BY DEF Doing, Rest, Steps, Maybe
<1>5. Rests(t) => thr' \in [Threads -> Doing]
  BY <1>4 DEF Rests
<1> QED BY <1>1, <1>2, <1>3, <1>5

\* Dropping a FilterNode (stop and join) keeps the filter threads typed: a quit is
\* only set for a loop that is there.
LEMMA Quitting ==
    ASSUME fil \in [Filters -> Filter], astray \in BOOLEAN,
           NEW f \in Maybe, Shutdown(f),
           \A x \in Filters : fil[x].quit => fil[x].pc \in {"connecting", "running"}
    PROVE  /\ fil' \in [Filters -> Filter] /\ astray' \in BOOLEAN
           /\ \A x \in Filters : fil'[x].quit => fil'[x].pc \in {"connecting", "running"}
<1>1. CASE UNCHANGED fil /\ astray' \in {astray, TRUE}
  BY <1>1
<1>2. CASE /\ Is(f, "connecting") \/ Running(f)
           /\ fil' = [fil EXCEPT ![f].quit = TRUE] /\ UNCHANGED astray
  <2>1. f \in Filters /\ fil[f].pc \in {"connecting", "running"}
    BY <1>2 DEF Is, Running, Maybe
  <2> QED BY <1>2, <2>1 DEF Filter
<1>3. CASE Is(f, "failed") /\ astray' = TRUE /\ fil' = [fil EXCEPT ![f] = Off]
  <2>1. f \in Filters /\ Off \in Filter /\ ~Off.quit
    BY <1>3 DEF Is, Maybe, Off, Filter
  <2> QED BY <1>3, <2>1
<1> QED BY <1>1, <1>2, <1>3 DEF Shutdown, filters

\* A stop leaves every filter at the step it is at, but for one that has failed.
LEMMA Stopping ==
    ASSUME fil \in [Filters -> Filter], NEW f \in Maybe, Shutdown(f), NEW x \in Filters
    PROVE  \/ fil'[x].pc = fil[x].pc
           \/ fil[x].pc = "failed" /\ fil'[x].pc = "off"
<1>1. CASE UNCHANGED fil
  BY <1>1
<1>2. CASE fil' = [fil EXCEPT ![f].quit = TRUE]
  BY <1>2 DEF Filter
<1>3. CASE Is(f, "failed") /\ fil' = [fil EXCEPT ![f] = Off]
  BY <1>3 DEF Is, Off
<1> QED BY <1>1, <1>2, <1>3 DEF Shutdown, filters

\* The end of a filter thread keeps the filters, the registries and the states typed.
LEMMA Ending ==
    ASSUME FilterType, NEW f \in Filters, NEW pc \in {"off", "failed"}, Ends(f, pc),
           astray' \in BOOLEAN, UNCHANGED <<tap, host>>
    PROVE  FilterType'
<1>1. fil' \in [Filters -> Filter] /\ fil'[f] = [pc |-> pc, quit |-> FALSE]
  BY DEF FilterType, Ends, Off, Filter
<1>2. \A x \in Filters : fil'[x].quit => fil'[x].pc \in {"connecting", "running"}
  BY <1>1 DEF FilterType, Ends, Off
<1> QED BY <1>1, <1>2 DEF FilterType, Ends, Maybe

\* An event that happens within its bound keeps the count within it.
LEMMA Events ==
    ASSUME events \in 0 .. MaxEvents, Event
    PROVE  events' \in 0 .. MaxEvents
BY ConstantsAssumption DEF Event

\* A step that leaves the window and its request alone keeps their types.
LEMMA SameWindow ==
    ASSUME WindowType, UNCHANGED <<shown, asked>>, UNCHANGED events \/ Event,
           late' = late \/ late' = TRUE
    PROVE  WindowType'
<1>1. events' \in 0 .. MaxEvents
  BY Events DEF WindowType
<1>2. late' \in BOOLEAN
  BY DEF WindowType
<1> QED BY <1>1, <1>2 DEF WindowType

\* What a move leaves: step and filter in hand of t, and the other threads
Moved(t, pc, f) ==
    /\ thr'[t].pc = pc /\ thr'[t].f = f
    /\ \A u \in Threads \ {t} : thr'[u] = thr[u]

\* The same four moves pointwise: one thread has a new step and a filter in hand,
\* the others are where they were.
LEMMA Moving ==
    ASSUME ThreadType, NEW t \in Threads, NEW pc \in Steps,
           NEW f \in Maybe, NEW next \in {"idle", "entry", "ensure"}
    PROVE  /\ Goes(t, pc) => Moved(t, pc, thr[t].f)
           /\ GoesWith(t, pc, f) => Moved(t, pc, f)
           /\ Teardown(t, next) => Moved(t, "remove", None)
           /\ Rests(t) => Moved(t, "idle", None)
<1>1. Goes(t, pc) => Moved(t, pc, thr[t].f)
  BY DEF Moved, Goes, ThreadType, Doing
<1>2. GoesWith(t, pc, f) => Moved(t, pc, f)
  BY DEF Moved, GoesWith, ThreadType, Doing
<1>3. Teardown(t, next) => Moved(t, "remove", None)
  BY DEF Moved, Teardown, ThreadType, Doing
<1>4. Rests(t) => Moved(t, "idle", None)
  BY DEF Moved, Rests, Rest, ThreadType, Doing
<1> QED BY <1>1, <1>2, <1>3, <1>4

\* start_named takes a filter that nobody holds, whose thread has ended, and
\* leaves the other filters alone.
LEMMA Starting ==
    ASSUME FilterType, NEW t \in Threads, NEW pc \in Steps, Start(t, pc),
           UNCHANGED <<tap, tapState, host, hostState>>
    PROVE  /\ FilterType'
           /\ New \in Fresh /\ New \in Filters /\ New # None
           /\ fil'[New] = [pc |-> "connecting", quit |-> FALSE]
           /\ \A x \in Filters \ {New} : fil'[x] = fil[x]
<1>1. New \in Fresh
  BY DEF Start, New
<1>2. New \in Filters /\ New # None
  BY <1>1, ConstantsAssumption DEF Fresh
<1>3. fil' = [fil EXCEPT ![New] = [pc |-> "connecting", quit |-> FALSE]]
  BY DEF Start
<1> HIDE DEF New
<1>4. fil' \in [Filters -> Filter]
  BY <1>2, <1>3 DEF FilterType, Filter
<1>5. \A x \in Filters : fil'[x].quit => fil'[x].pc \in {"connecting", "running"}
  BY <1>2, <1>3 DEF FilterType
<1>6. fil'[New] = [pc |-> "connecting", quit |-> FALSE] /\ \A x \in Filters \ {New} : fil'[x] = fil[x]
  BY <1>2, <1>3 DEF FilterType
<1> QED BY <1>1, <1>2, <1>4, <1>5, <1>6 DEF FilterType, Start

\* Every step of lanes, engine, filter threads and window keeps the types, with
\* what TapInv knows of who owns a filter when registries exchange them.
LEMMA StepTypes == TapInv /\ [Next]_vars => TypeOK'
<1> SUFFICES ASSUME TapInv, [Next]_vars PROVE TypeOK'
  OBVIOUS
<1> USE ConstantsAssumption DEF TapInv, TypeOK, filters
<1>1. ASSUME NEW f \in Filters, Thread(f), Connect(f) PROVE TypeOK'
  <2>1. WindowType'
    BY <1>1, SameWindow DEF Thread, Connect
  <2>2. FilterType'
    <3>1. CASE Ends(f, "off") /\ UNCHANGED astray
      BY <1>1, <3>1, Ending DEF Thread, FilterType
    <3>2. CASE fil' = [fil EXCEPT ![f].pc = "running"] /\ UNCHANGED <<astray, tapState, hostState>>
      BY <1>1, <3>2 DEF FilterType, Filter, Thread
    <3> QED BY <1>1, <3>1, <3>2 DEF Connect
  <2>3. ThreadType'
    BY <1>1 DEF Thread, ThreadType
  <2> QED BY <2>1, <2>2, <2>3
<1>2. ASSUME NEW f \in Filters, Thread(f), Quits(f) PROVE TypeOK'
  <2>1. WindowType'
    BY <1>2, SameWindow DEF Thread, Quits
  <2>2. FilterType'
    BY <1>2, Ending DEF Thread, Quits, FilterType
  <2>3. ThreadType'
    BY <1>2 DEF Thread, ThreadType
  <2> QED BY <2>1, <2>2, <2>3
<1>2a. ASSUME NEW f \in Filters, Thread(f), Fail(f) PROVE TypeOK'
  <2>1. WindowType'
    BY <1>2a, SameWindow DEF Thread, Fail
  <2>2. FilterType'
    <3>1. astray' \in BOOLEAN
      BY <1>2a DEF Fail, FilterType, Filter
    <3>2. PICK pc \in {"off", "failed"} : Ends(f, pc)
      BY <1>2a DEF Fail
    <3> QED BY <1>2a, <3>1, <3>2, Ending DEF Thread
  <2>3. ThreadType'
    BY <1>2a DEF Thread, ThreadType
  <2> QED BY <2>1, <2>2, <2>3
<1>3. ASSUME NEW t \in Threads, Remove(t),
             UNCHANGED <<shown, asked, host, hostState, faults>> PROVE TypeOK'
  <2>1. WindowType'
    BY <1>3, SameWindow DEF Remove, faults
  <2>2. FilterType'
    BY <1>3, Quitting DEF FilterType, ThreadType, Doing, Maybe, Threads, Remove
  <2>3. ThreadType'
    <3>1. thr' \in [Threads -> Doing]
      <4>1. GoesWith(t, "unpublish", tap) /\ tap \in Maybe
        BY <1>3 DEF FilterType, Remove
      <4> QED BY <4>1, ThreadMoves DEF ThreadType, Steps
    <3>2. \A k, m \in Lanes : thr'[k].pc = "recheck" /\ thr'[m].pc = "recheck" => k = m
      BY <1>3
        DEF ThreadType, Doing, Threads, Rest, Goes, GoesWith, Rests, Teardown, DryFree, Remove
    <3> QED BY <3>1, <3>2 DEF ThreadType
  <2> QED BY <2>1, <2>2, <2>3
<1>4. ASSUME NEW t \in Threads, Unpublish(t),
             UNCHANGED <<shown, asked, host, hostState, faults>> PROVE TypeOK'
  <2>1. WindowType'
    BY <1>4, SameWindow DEF Unpublish, faults
  <2>2. FilterType'
    BY <1>4 DEF FilterType, ThreadType, Doing, Maybe, Threads, Unpublish
  <2>3. ThreadType'
    <3>1. CASE Rests(t)
      BY <1>4, <3>1, ThreadMoves
        DEF ThreadType, Doing, Threads, Rest, Rests, Steps, Maybe
    <3>2. CASE thr[t].next # "idle"
      <4> DEFINE next == [pc |-> thr[t].next, want |-> thr[t].want, f |-> None, next |-> "idle"]
      <4>1. thr' = [thr EXCEPT ![t] = next]
        BY <1>4, <3>2 DEF Unpublish
      <4>2. next \in Doing /\ next.pc # "recheck"
        BY DEF ThreadType, Doing, Steps, Maybe
      <4> HIDE DEF next
      <4>3. thr' \in [Threads -> Doing]
        BY <4>1, <4>2 DEF ThreadType
      <4>4. thr'[t].pc # "recheck" /\ \A k \in Threads \ {t} : thr'[k] = thr[k]
        BY <4>1, <4>2 DEF ThreadType
      <4> QED BY <4>3, <4>4 DEF ThreadType, Threads
    <3> QED BY <1>4, <3>1, <3>2 DEF Unpublish
  <2> QED BY <2>1, <2>2, <2>3
<1>5. ASSUME NEW l \in Lanes, Take(l), UNCHANGED <<shown, host, hostState>>
      PROVE  TypeOK'
  <2>1. WindowType'
    BY <1>5 DEF Take, WindowType, faults
  <2>2. FilterType'
    BY <1>5 DEF FilterType, ThreadType, Doing, Maybe, Threads, Take
  <2>3. ThreadType'
    <3>1. PICK w \in asked : thr' = [thr EXCEPT ![l] = [Rest EXCEPT !.pc = "sweep", !.want = w]]
      BY <1>5 DEF Take
    <3>2. w \in BOOLEAN
      <4>1. CASE asked = {TRUE}
        BY Zenon, <4>1
      <4>2. CASE asked = {FALSE}
        BY Zenon, <4>2
      <4>3. asked # {}
        OBVIOUS
      <4> QED BY <4>1, <4>2, <4>3 DEF WindowType
    <3>3. [Rest EXCEPT !.pc = "sweep", !.want = w] \in Doing
      BY <3>2 DEF Rest, Doing, Steps, Maybe
    <3>4. thr' \in [Threads -> Doing]
      BY <3>1, <3>3 DEF ThreadType
    <3>5. thr'[l].pc # "recheck" /\ \A k \in Lanes \ {l} : thr'[k] = thr[k]
      BY <3>1 DEF ThreadType, Threads, Rest
    <3> QED BY <3>4, <3>5 DEF ThreadType
  <2> QED BY <2>1, <2>2, <2>3
<1>6. ASSUME NEW l \in Lanes, Sweep(l), UNCHANGED <<shown, host, hostState>>
      PROVE  TypeOK'
  <2>1. WindowType'
    BY <1>6, SameWindow DEF Sweep, faults
  <2>2. FilterType'
    BY <1>6 DEF FilterType, ThreadType, Doing, Maybe, Threads, Sweep
  <2>3. ThreadType'
    <3>1. thr' \in [Threads -> Doing]
      BY <1>6, ThreadMoves
        DEF ThreadType, FilterType, Doing, Threads, Maybe, Steps, Sweep
    <3>2. \A k, m \in Lanes : thr'[k].pc = "recheck" /\ thr'[m].pc = "recheck" => k = m
      BY <1>6
        DEF ThreadType, Doing, Threads, Rest, Goes, GoesWith, Rests, Teardown, DryFree, Sweep
    <3> QED BY <3>1, <3>2 DEF ThreadType
  <2> QED BY <2>1, <2>2, <2>3
<1>7. ASSUME NEW l \in Lanes, Entry(l), UNCHANGED <<shown, host, hostState>>
      PROVE  TypeOK'
  <2>1. WindowType'
    BY <1>7, SameWindow DEF Entry, faults
  <2>2. FilterType'
    BY <1>7 DEF FilterType, ThreadType, Doing, Maybe, Threads, Entry
  <2>3. ThreadType'
    <3>1. thr' \in [Threads -> Doing]
      BY <1>7, ThreadMoves
        DEF ThreadType, FilterType, Doing, Threads, Maybe, Steps, Entry
    <3>2. \A k, m \in Lanes : thr'[k].pc = "recheck" /\ thr'[m].pc = "recheck" => k = m
      BY <1>7
        DEF ThreadType, Doing, Threads, Rest, Goes, GoesWith, Rests, Teardown, DryFree, Entry
    <3> QED BY <3>1, <3>2 DEF ThreadType
  <2> QED BY <2>1, <2>2, <2>3
<1>8. ASSUME NEW l \in Lanes, Look(l), UNCHANGED <<shown, host, hostState>>
      PROVE  TypeOK'
  <2>1. WindowType'
    BY <1>8, SameWindow DEF Look, faults
  <2>2. FilterType'
    <3>1. CASE Running(tap)
      BY <1>8, <3>1 DEF FilterType, Maybe, Running, Look
    <3>2. CASE ~Running(tap)
      BY <1>8, <3>2, Starting DEF Steps, Threads, Look
    <3> QED BY <3>1, <3>2
  <2>3. ThreadType'
    <3>1. CASE Running(tap)
      <4>1. Rests(l)
        BY <1>8, <3>1 DEF Look
      <4>2. thr' \in [Threads -> Doing]
        BY <4>1, ThreadMoves DEF ThreadType, Steps, Threads, Maybe
      <4> QED BY <4>1, <4>2 DEF ThreadType, Doing, Threads, Rest, Rests
    <3>2. CASE ~Running(tap)
      <4>0. Start(l, "wait") /\ UNCHANGED <<tap, tapState, host, hostState>>
        BY <1>8, <3>2 DEF Look
      <4>1. New \in Maybe
        BY <4>0, Starting DEF Steps, Threads, Maybe
      <4> HIDE DEF New
      <4>2. thr' \in [Threads -> Doing]
        BY <4>0, <4>1, ThreadMoves DEF ThreadType, Start, Threads, Steps
      <4> QED BY <4>0, <4>2 DEF ThreadType, Doing, Threads, Start, GoesWith
    <3> QED BY <3>1, <3>2
  <2> QED BY <2>1, <2>2, <2>3
<1>9. ASSUME NEW l \in Lanes, PublishTap(l), UNCHANGED <<shown, host, hostState>>
      PROVE  TypeOK'
  <2>1. WindowType'
    BY <1>9, SameWindow DEF PublishTap, faults, Waited
  <2>2. FilterType'
    BY <1>9 DEF FilterType, ThreadType, Doing, Maybe, Threads, PublishTap
  <2>3. ThreadType'
    <3>1. thr' \in [Threads -> Doing]
      BY <1>9, ThreadMoves
        DEF ThreadType, FilterType, Doing, Threads, Maybe, Steps, PublishTap
    <3>2. \A k, m \in Lanes : thr'[k].pc = "recheck" /\ thr'[m].pc = "recheck" => k = m
      BY <1>9
        DEF ThreadType, Doing, Threads, Rest, Goes, GoesWith, Rests, Teardown, DryFree, PublishTap
    <3> QED BY <3>1, <3>2 DEF ThreadType
  <2> QED BY <2>1, <2>2, <2>3
<1>10. ASSUME NEW l \in Lanes, Insert(l), UNCHANGED <<shown, host, hostState>>
       PROVE  TypeOK'
  <2>1. WindowType'
    BY <1>10, SameWindow DEF Insert, faults
  <2>2. FilterType'
    BY <1>10, Quitting
      DEF FilterType, ThreadType, Doing, Maybe, Threads, Insert, Owned, Hands
  <2>3. ThreadType'
    <3>1. thr' \in [Threads -> Doing]
      BY <1>10, ThreadMoves
        DEF ThreadType, FilterType, Doing, Threads, Maybe, Steps, Insert
    <3>2. \A k, m \in Lanes : thr'[k].pc = "recheck" /\ thr'[m].pc = "recheck" => k = m
      BY <1>10
        DEF ThreadType, Doing, Threads, Rest, Goes, GoesWith, Rests, Teardown, DryFree, Insert
    <3> QED BY <3>1, <3>2 DEF ThreadType
  <2> QED BY <2>1, <2>2, <2>3
<1>11. ASSUME NEW l \in Lanes, Recheck(l), UNCHANGED <<shown, host, hostState>>
       PROVE  TypeOK'
  <2>1. WindowType'
    BY <1>11, SameWindow DEF Recheck, faults
  <2>2. FilterType'
    BY <1>11 DEF FilterType, ThreadType, Doing, Maybe, Threads, Recheck
  <2>3. ThreadType'
    <3>1. thr' \in [Threads -> Doing]
      BY <1>11, ThreadMoves
        DEF ThreadType, FilterType, Doing, Threads, Maybe, Steps, Recheck
    <3>2. \A k, m \in Lanes : thr'[k].pc = "recheck" /\ thr'[m].pc = "recheck" => k = m
      BY <1>11
        DEF ThreadType, Doing, Threads, Rest, Goes, GoesWith, Rests, Teardown, DryFree, Recheck
    <3> QED BY <3>1, <3>2 DEF ThreadType
  <2> QED BY <2>1, <2>2, <2>3
<1>12. ASSUME Call, UNCHANGED <<shown, asked, tap, tapState>> PROVE TypeOK'
  <2>1. WindowType'
    BY <1>12, SameWindow DEF Call, faults
  <2>2. FilterType'
    BY <1>12 DEF FilterType, ThreadType, Doing, Maybe, Threads, Call
  <2>3. ThreadType'
    <3>1. thr' \in [Threads -> Doing]
      BY <1>12, ThreadMoves
        DEF ThreadType, FilterType, Doing, Threads, Maybe, Steps, Call
    <3>2. \A k, m \in Lanes : thr'[k].pc = "recheck" /\ thr'[m].pc = "recheck" => k = m
      BY <1>12
        DEF ThreadType, Doing, Threads, Rest, Goes, GoesWith, Rests, Teardown, DryFree, Call
    <3> QED BY <3>1, <3>2 DEF ThreadType
  <2> QED BY <2>1, <2>2, <2>3
<1>13. ASSUME EnsureHost, UNCHANGED <<shown, asked, tap, tapState>> PROVE TypeOK'
  <2>1. WindowType'
    BY <1>13, SameWindow DEF EnsureHost, faults
  <2>2. FilterType'
    <3>1. CASE Running(host)
      BY <1>13, <3>1 DEF FilterType, Maybe, Running, EnsureHost
    <3>2. CASE ~Running(host)
      BY <1>13, <3>2, Starting DEF Steps, Threads, EnsureHost
    <3> QED BY <3>1, <3>2
  <2>3. ThreadType'
    <3>1. CASE Running(host)
      <4>1. Rests(Eng)
        BY <1>13, <3>1 DEF EnsureHost
      <4>2. thr' \in [Threads -> Doing]
        BY <4>1, ThreadMoves DEF ThreadType, Steps, Threads, Maybe
      <4> QED BY <4>1, <4>2 DEF ThreadType, Doing, Threads, Rest, Rests
    <3>2. CASE ~Running(host)
      <4>0. Start(Eng, "start") /\ UNCHANGED <<tap, tapState, host, hostState>>
        BY <1>13, <3>2 DEF EnsureHost
      <4>1. New \in Maybe
        BY <4>0, Starting DEF Steps, Threads, Maybe
      <4> HIDE DEF New
      <4>2. thr' \in [Threads -> Doing]
        BY <4>0, <4>1, ThreadMoves DEF ThreadType, Start, Threads, Steps
      <4> QED BY <4>0, <4>2 DEF ThreadType, Doing, Threads, Start, GoesWith
    <3> QED BY <3>1, <3>2
  <2> QED BY <2>1, <2>2, <2>3
<1>14. ASSUME PublishHost, UNCHANGED <<shown, asked, tap, tapState>> PROVE TypeOK'
  <2>1. WindowType'
    BY <1>14, SameWindow DEF PublishHost, faults, Waited
  <2>2. FilterType'
    BY <1>14 DEF FilterType, ThreadType, Doing, Maybe, Threads, PublishHost
  <2>3. ThreadType'
    <3>1. thr' \in [Threads -> Doing]
      BY <1>14, ThreadMoves
        DEF ThreadType, FilterType, Doing, Threads, Maybe, Steps, PublishHost
    <3>2. \A k, m \in Lanes : thr'[k].pc = "recheck" /\ thr'[m].pc = "recheck" => k = m
      BY <1>14
        DEF ThreadType, Doing, Threads, Rest, Goes, GoesWith, Rests, Teardown, DryFree, PublishHost
    <3> QED BY <3>1, <3>2 DEF ThreadType
  <2> QED BY <2>1, <2>2, <2>3
<1>15. ASSUME RackFails, UNCHANGED <<shown, asked, tap, tapState>> PROVE TypeOK'
  <2>1. WindowType'
    <3>1. late' \in BOOLEAN /\ events' \in 0 .. MaxEvents
      BY <1>15, Events DEF RackFails, WindowType, Is
    <3> QED BY <1>15, <3>1 DEF RackFails, WindowType
  <2>2. FilterType'
    BY <1>15, Quitting DEF FilterType, ThreadType, Doing, Maybe, Threads, RackFails
  <2>3. ThreadType'
    <3>1. thr' \in [Threads -> Doing]
      BY <1>15, ThreadMoves
        DEF ThreadType, FilterType, Doing, Threads, Maybe, Steps, RackFails
    <3>2. \A k, m \in Lanes : thr'[k].pc = "recheck" /\ thr'[m].pc = "recheck" => k = m
      BY <1>15
        DEF ThreadType, Doing, Threads, Rest, Goes, GoesWith, Rests, Teardown, DryFree, RackFails
    <3> QED BY <3>1, <3>2 DEF ThreadType
  <2> QED BY <2>1, <2>2, <2>3
<1>16. ASSUME Dropped, UNCHANGED <<shown, asked, tap, tapState>> PROVE TypeOK'
  <2>1. WindowType'
    BY <1>16, SameWindow DEF Dropped, faults
  <2>2. FilterType'
    BY <1>16 DEF FilterType, ThreadType, Doing, Maybe, Threads, Dropped
  <2>3. ThreadType'
    <3>1. thr' \in [Threads -> Doing]
      BY <1>16, ThreadMoves
        DEF ThreadType, FilterType, Doing, Threads, Maybe, Steps, Dropped
    <3>2. \A k, m \in Lanes : thr'[k].pc = "recheck" /\ thr'[m].pc = "recheck" => k = m
      BY <1>16
        DEF ThreadType, Doing, Threads, Rest, Goes, GoesWith, Rests, Teardown, DryFree, Dropped
    <3> QED BY <3>1, <3>2 DEF ThreadType
  <2> QED BY <2>1, <2>2, <2>3
<1>17. ASSUME InstallHost, UNCHANGED <<shown, asked, tap, tapState>> PROVE TypeOK'
  <2>1. WindowType'
    BY <1>17, SameWindow DEF InstallHost, faults
  <2>2. FilterType'
    BY <1>17, Quitting
      DEF FilterType, ThreadType, Doing, Maybe, Threads, InstallHost, Owned, Hands
  <2>3. ThreadType'
    <3>1. thr' \in [Threads -> Doing]
      BY <1>17, ThreadMoves
        DEF ThreadType, FilterType, Doing, Threads, Maybe, Steps, InstallHost
    <3>2. \A k, m \in Lanes : thr'[k].pc = "recheck" /\ thr'[m].pc = "recheck" => k = m
      BY <1>17
        DEF ThreadType, Doing, Threads, Rest, Goes, GoesWith, Rests, Teardown, DryFree, InstallHost
    <3> QED BY <3>1, <3>2 DEF ThreadType
  <2> QED BY <2>1, <2>2, <2>3
<1>18. ASSUME Replaced, UNCHANGED <<shown, asked, tap, tapState>> PROVE TypeOK'
  <2>1. WindowType'
    BY <1>18, SameWindow DEF Replaced, faults
  <2>2. FilterType'
    BY <1>18 DEF FilterType, ThreadType, Doing, Maybe, Threads, Replaced
  <2>3. ThreadType'
    <3>1. thr' \in [Threads -> Doing]
      BY <1>18, ThreadMoves
        DEF ThreadType, FilterType, Doing, Threads, Maybe, Steps, Replaced
    <3>2. \A k, m \in Lanes : thr'[k].pc = "recheck" /\ thr'[m].pc = "recheck" => k = m
      BY <1>18
        DEF ThreadType, Doing, Threads, Rest, Goes, GoesWith, Rests, Teardown, DryFree, Replaced
    <3> QED BY <3>1, <3>2 DEF ThreadType
  <2> QED BY <2>1, <2>2, <2>3
<1>19. ASSUME StopHost, UNCHANGED <<shown, asked, tap, tapState>> PROVE TypeOK'
  <2>1. WindowType'
    BY <1>19, SameWindow DEF StopHost, faults
  <2>2. FilterType'
    BY <1>19, Quitting DEF FilterType, ThreadType, Doing, Maybe, Threads, StopHost
  <2>3. ThreadType'
    <3>1. thr' \in [Threads -> Doing]
      BY <1>19, ThreadMoves
        DEF ThreadType, FilterType, Doing, Threads, Maybe, Steps, StopHost
    <3>2. \A k, m \in Lanes : thr'[k].pc = "recheck" /\ thr'[m].pc = "recheck" => k = m
      BY <1>19
        DEF ThreadType, Doing, Threads, Rest, Goes, GoesWith, Rests, Teardown, DryFree, StopHost
    <3> QED BY <3>1, <3>2 DEF ThreadType
  <2> QED BY <2>1, <2>2, <2>3
<1>20. ASSUME UnpublishHost, UNCHANGED <<shown, asked, tap, tapState>> PROVE TypeOK'
  <2>1. WindowType'
    BY <1>20, SameWindow DEF UnpublishHost, faults
  <2>2. FilterType'
    BY <1>20 DEF FilterType, ThreadType, Doing, Maybe, Threads, UnpublishHost
  <2>3. ThreadType'
    <3>1. thr' \in [Threads -> Doing]
      BY <1>20, ThreadMoves
        DEF ThreadType, FilterType, Doing, Threads, Maybe, Steps, UnpublishHost
    <3>2. \A k, m \in Lanes : thr'[k].pc = "recheck" /\ thr'[m].pc = "recheck" => k = m
      BY <1>20
        DEF ThreadType, Doing, Threads, Rest, Goes, GoesWith, Rests, Teardown, DryFree, UnpublishHost
    <3> QED BY <3>1, <3>2 DEF ThreadType
  <2> QED BY <2>1, <2>2, <2>3
<1>21. CASE Tick \/ Hide \/ Show
  <2>1. UNCHANGED <<fil, astray, tap, tapState, host, hostState, thr, late>>
    BY <1>21 DEF Tick, Hide, Show, Request
  <2>2. shown' \in BOOLEAN /\ (UNCHANGED events \/ Event)
    BY <1>21 DEF Tick, Hide, Show, WindowType
  <2>3. asked' \in {{}, {TRUE}, {FALSE}}
    BY <1>21 DEF Tick, Hide, Show, Request, Live, Running
  <2>4. WindowType'
    BY <2>1, <2>2, <2>3, Events DEF WindowType
  <2> QED BY <2>1, <2>4 DEF FilterType, ThreadType
<1>22. CASE UNCHANGED vars
  BY <1>22 DEF vars, WindowType, FilterType, ThreadType
<1>23. ASSUME NEW l \in Lanes, Lane(l) PROVE TypeOK'
  BY <1>23, <1>3, <1>4, <1>5, <1>6, <1>7, <1>8, <1>9, <1>10, <1>11
    DEF Lane, Sync, TeardownStep, Threads
<1>24. ASSUME Engine PROVE TypeOK'
  BY <1>24, <1>3, <1>4, <1>12, <1>13, <1>14, <1>15, <1>16, <1>17, <1>18, <1>19, <1>20
    DEF Engine, Hosting, TeardownStep, Threads
<1>25. ASSUME NEW f \in Filters, Thread(f) PROVE TypeOK'
  BY <1>1, <1>2, <1>2a, <1>25 DEF Thread
<1> QED BY <1>21, <1>22, <1>23, <1>24, <1>25 DEF Next

\* Every step keeps TapInv, one step of the proof for each action.
LEMMA StepTaps == TapInv /\ [Next]_vars => TapInv'
<1> SUFFICES ASSUME TapInv, [Next]_vars, TypeOK' PROVE TapInv'
  BY StepTypes
<1> USE ConstantsAssumption
  DEF TapInv, TypeOK, WindowType, FilterType, ThreadType, Owned,
        Kept, Hands, Published, Doomed, Alive, Live, Running, Filter, Off, Rest, Maybe,
        Steps, Threads, None, Event, faults, filters, Is, Ended, Shutdown, Moved
<1>1. ASSUME NEW f \in Filters, Thread(f), Connect(f) PROVE TapInv'
  <2>1. CASE Ends(f, "off")
    <3>1. Owned'
      BY <1>1, <2>1 DEF Thread, Ends
    <3>2. Kept'
      BY <1>1, <2>1 DEF Thread, Ends
    <3>3. Hands'
      BY <1>1, <2>1 DEF Thread, Ends
    <3>4. ~late' => Published' /\ Doomed'
      BY <1>1, <2>1 DEF Thread, Ends
    <3> QED BY <3>1, <3>2, <3>3, <3>4
  <2>2. CASE fil' = [fil EXCEPT ![f].pc = "running"] /\ UNCHANGED <<astray, tapState, hostState>>
    <3>1. Owned'
      BY <1>1, <2>2 DEF Thread, Connect
    <3>2. Kept'
      BY <1>1, <2>2 DEF Thread, Connect
    <3>3. Hands'
      BY <1>1, <2>2 DEF Thread, Connect
    <3>4. ~late' => Published' /\ Doomed'
      BY <1>1, <2>2 DEF Thread, Connect
    <3> QED BY <3>1, <3>2, <3>3, <3>4
  <2> QED BY <1>1, <2>1, <2>2 DEF Connect
<1>2. ASSUME NEW f \in Filters, Thread(f), Quits(f) PROVE TapInv'
  <2>1. Owned'
    BY <1>2 DEF Thread, Quits, Ends
  <2>2. Kept'
    BY <1>2 DEF Thread, Quits, Ends
  <2>3. Hands'
    BY <1>2 DEF Thread, Quits, Ends
  <2>4. ~late' => Published' /\ Doomed'
    BY <1>2 DEF Thread, Quits, Ends
  <2> QED BY <2>1, <2>2, <2>3, <2>4
<1>2a. ASSUME NEW f \in Filters, Thread(f), Fail(f) PROVE TapInv'
  <2>0. PICK pc \in {"off", "failed"} : Ends(f, pc)
    BY <1>2a DEF Fail
  <2>1. Owned'
    BY <1>2a, <2>0 DEF Thread, Fail, Ends
  <2>2. Kept'
    BY <1>2a, <2>0 DEF Thread, Fail, Ends
  <2>3. Hands'
    BY <1>2a, <2>0 DEF Thread, Fail, Ends
  <2>4. ~late' => Published' /\ Doomed'
    BY <1>2a, <2>0 DEF Thread, Fail, Ends
  <2> QED BY <2>1, <2>2, <2>3, <2>4
<1>3. ASSUME NEW t \in Threads, Remove(t),
             UNCHANGED <<shown, asked, host, hostState, faults>> PROVE TapInv'
  <2>0. Moved(t, "unpublish", tap)
    BY <1>3, Moving DEF Remove
  <2>s. \A x \in Filters : \/ fil'[x].pc = fil[x].pc
                           \/ fil[x].pc = "failed" /\ fil'[x].pc = "off"
    BY <1>3, Stopping DEF Remove
  <2> HIDE DEF Shutdown
  <2>1. Owned'
    BY <1>3, <2>0 DEF Remove, DryFree
  <2>2. Kept'
    <3> SUFFICES ASSUME NEW x \in Filters, Alive(x)'
                 PROVE  x = tap' \/ x = host' \/ \E u \in Threads : thr'[u].f = x
      BY DEF Kept
    <3>1. x = tap \/ x = host \/ \E u \in Threads : thr[u].f = x
      BY <2>s
    <3> QED BY <1>3, <2>0, <3>1 DEF Remove
  <2>3. Hands'
    BY <1>3, <2>0 DEF Remove, DryFree
  <2>4. ~late' => Published' /\ Doomed'
    <3>1. /\ hostState # None /\ ~late => fil'[hostState].pc = "running"
          /\ \A x \in Maybe : Alive(x)' => Alive(x)
          /\ Live' => Live
      BY <1>3, <2>s DEF Remove
    <3>2. ~late' => Published'
      <4> SUFFICES ASSUME ~late' PROVE Published'
        OBVIOUS
      <4>0. UNCHANGED <<late, host, hostState>> /\ Published
        BY <1>3 DEF Remove
      <4>1. thr'[Eng].pc \in {"start", "install", "stopped"} => thr'[Eng] = thr[Eng]
        BY <2>0
      <4>2. Alive(host)' => Alive(host)
        BY <3>1, <4>0
      <4>3. Alive(thr[Eng].f)' /\ thr'[Eng] = thr[Eng] => Alive(thr[Eng].f)
        BY <3>1 DEF Doing
      <4>4. hostState' # None => fil'[hostState'].pc = "running"
        BY <3>1, <4>0
      <4> QED BY <4>0, <4>1, <4>2, <4>3, <4>4
    <3>3. ~late' => Doomed'
      BY <1>3, <2>0, <3>1 DEF Remove, DryFree
    <3> QED BY <3>2, <3>3
  <2> QED BY <2>1, <2>2, <2>3, <2>4
<1>4. ASSUME NEW t \in Threads, Unpublish(t),
             UNCHANGED <<shown, asked, host, hostState, faults>> PROVE TapInv'
  <2>0. Moved(t, "idle", None) \/ Moved(t, "entry", None) \/ Moved(t, "ensure", None)
    <3>1. CASE thr[t].next = "idle"
      BY <1>4, <3>1, Moving DEF Unpublish
    <3>2. CASE thr[t].next # "idle"
      <4>1. thr' = [thr EXCEPT ![t] = [pc |-> thr[t].next, want |-> thr[t].want,
                                       f |-> None, next |-> "idle"]]
        BY <1>4, <3>2 DEF Unpublish
      <4> QED BY <3>2, <4>1 DEF Doing
    <3> QED BY <3>1, <3>2
  <2>1. Owned'
    BY <1>4, <2>0 DEF Unpublish
  <2>2. Kept'
    BY <1>4, <2>0 DEF Unpublish
  <2>3. Hands'
    BY <1>4, <2>0 DEF Unpublish
  <2>4. ~late' => Published' /\ Doomed'
    BY <1>4, <2>0 DEF Unpublish
  <2> QED BY <2>1, <2>2, <2>3, <2>4
<1>5. ASSUME NEW l \in Lanes, Take(l), UNCHANGED <<shown, host, hostState>>
      PROVE  TapInv'
  <2>0. Moved(l, "sweep", None)
    <3>1. PICK w \in asked : thr' = [thr EXCEPT ![l] = [Rest EXCEPT !.pc = "sweep", !.want = w]]
      BY <1>5 DEF Take
    <3> QED BY <3>1
  <2>1. Owned'
    BY <1>5, <2>0 DEF Take
  <2>2. Kept'
    BY <1>5, <2>0 DEF Take
  <2>3. Hands'
    BY <1>5, <2>0 DEF Take
  <2>4. ~late' => Published' /\ Doomed'
    BY <1>5, <2>0 DEF Take
  <2> QED BY <2>1, <2>2, <2>3, <2>4
<1>6. ASSUME NEW l \in Lanes, Sweep(l), UNCHANGED <<shown, host, hostState>>
      PROVE  TapInv'
  <2>0. Moved(l, "entry", None) \/ Moved(l, "remove", None)
    <3>1. Goes(l, "entry") => Moved(l, "entry", None)
      <4>1. thr[l].pc \in {"sweep", "entry"} => thr[l].f = None
        BY DEF Hands
      <4> QED BY <4>1, Moving, <1>6 DEF Sweep
    <3>2. Teardown(l, "entry") => Moved(l, "remove", None)
      BY Moving
    <3>3. Rests(l) => Moved(l, "idle", None)
      BY Moving
    <3> HIDE DEF Moved
    <3> QED BY <1>6, <3>1, <3>2, <3>3 DEF Sweep
  <2>1. Owned'
    BY <1>6, <2>0 DEF Sweep, DryFree
  <2>2. Kept'
    BY <1>6, <2>0 DEF Sweep, DryFree
  <2>3. Hands'
    BY <1>6, <2>0 DEF Sweep, DryFree
  <2>4. ~late' => Published' /\ Doomed'
    BY <1>6, <2>0 DEF Sweep, DryFree
  <2> QED BY <2>1, <2>2, <2>3, <2>4
<1>7. ASSUME NEW l \in Lanes, Entry(l), UNCHANGED <<shown, host, hostState>>
      PROVE  TapInv'
  <2>0. Moved(l, "idle", None) \/ Moved(l, "remove", None) \/ Moved(l, "look", None)
    <3>1. Goes(l, "look") => Moved(l, "look", None)
      <4>1. thr[l].pc \in {"sweep", "entry"} => thr[l].f = None
        BY DEF Hands
      <4> QED BY <4>1, Moving, <1>7 DEF Entry
    <3>2. Teardown(l, "idle") => Moved(l, "remove", None)
      BY Moving
    <3>3. Rests(l) => Moved(l, "idle", None)
      BY Moving
    <3> HIDE DEF Moved
    <3> QED BY <1>7, <3>1, <3>2, <3>3 DEF Entry
  <2>1. Owned'
    BY <1>7, <2>0 DEF Entry
  <2>2. Kept'
    BY <1>7, <2>0 DEF Entry
  <2>3. Hands'
    BY <1>7, <2>0 DEF Entry
  <2>4. ~late' => Published' /\ Doomed'
    BY <1>7, <2>0 DEF Entry
  <2> QED BY <2>1, <2>2, <2>3, <2>4
<1>8. ASSUME NEW l \in Lanes, Look(l), UNCHANGED <<shown, host, hostState>>
      PROVE  TapInv'
  <2>1. CASE Running(tap)
    <3>0. Moved(l, "idle", None)
      BY <1>8, <2>1, Moving DEF Look
    <3>1. Owned'
      BY <1>8, <2>1, <3>0 DEF Look, DryFree
    <3>2. Kept'
      BY <1>8, <2>1, <3>0 DEF Look, DryFree
    <3>3. Hands'
      BY <1>8, <2>1, <3>0 DEF Look, DryFree
    <3>4. ~late' => Published' /\ Doomed'
      BY <1>8, <2>1, <3>0 DEF Look, DryFree
    <3> QED BY <3>1, <3>2, <3>3, <3>4
  <2>2. CASE ~Running(tap)
    <3>0. Start(l, "wait") /\ UNCHANGED <<tap, tapState, host, hostState>>
      BY <1>8, <2>2 DEF Look
    <3>a. /\ New \in Fresh /\ New \in Filters /\ New # None
          /\ fil'[New].pc = "connecting" /\ \A x \in Filters \ {New} : fil'[x] = fil[x]
      BY <3>0, Starting
    <3>b. Moved(l, "wait", New)
      BY <3>0, <3>a, Moving DEF Start
    <3>c. fil[New].pc = "off" /\ New \notin Held
      BY <3>a DEF Fresh
    <3> HIDE DEF New
    <3>d. UNCHANGED <<late, tap, host, hostState>>
      BY <1>8, <3>0 DEF Look
    <3>e. New # host /\ New # hostState /\ New # tap
          /\ \A u \in Threads : thr[u].f # New
      BY <3>c DEF Held
    <3>1. Owned'
      <4>1. \A u \in Threads \ {l} : thr'[u].f = thr[u].f /\ thr'[u].f # New
        BY <3>b, <3>e
      <4>2. thr'[l].f = New
        BY <3>b
      <4>3. \A u \in Threads : thr'[u].f # None => thr'[u].f # tap' /\ thr'[u].f # host'
        BY <4>1, <4>2, <3>d, <3>e
      <4>4. \A u, v \in Threads : thr'[u].f # None /\ thr'[u].f = thr'[v].f => u = v
        BY <4>1, <4>2
      <4> QED BY <4>3, <4>4
    <3>2. Kept'
      BY <1>8, <2>2, <3>a, <3>b, <3>c DEF Look, DryFree, Held
    <3>3. Hands'
      BY <1>8, <2>2, <3>a, <3>b, <3>c DEF Look, DryFree, Held
    <3>4. ~late' => Published' /\ Doomed'
      <4>1. ~late' => Published'
        <5>1. thr'[Eng] = thr[Eng]
          BY <3>b
        <5>2. \A x \in {host, hostState, thr[Eng].f} : x # None => fil'[x] = fil[x]
          BY <3>a, <3>e DEF Doing
        <5> QED BY <5>1, <5>2, <3>d
      <4>2. ~late' => Doomed'
        BY <3>a, <3>b, <3>d, <3>e, <1>8 DEF Look, DryFree
      <4> QED BY <4>1, <4>2
    <3> QED BY <3>1, <3>2, <3>3, <3>4
  <2> QED BY <2>1, <2>2
<1>9. ASSUME NEW l \in Lanes, PublishTap(l), UNCHANGED <<shown, host, hostState>>
      PROVE  TapInv'
  <2>0. Moved(l, "insert", thr[l].f)
    BY <1>9, Moving DEF PublishTap
  <2>1. Owned'
    BY <1>9, <2>0 DEF PublishTap, Waited
  <2>2. Kept'
    BY <1>9, <2>0 DEF PublishTap, Waited
  <2>3. Hands'
    BY <1>9, <2>0 DEF PublishTap, Waited
  <2>4. ~late' => Published' /\ Doomed'
    BY <1>9, <2>0 DEF PublishTap, Waited
  <2> QED BY <2>1, <2>2, <2>3, <2>4
<1>10. ASSUME NEW l \in Lanes, Insert(l), UNCHANGED <<shown, host, hostState>>
       PROVE  TapInv'
  <2>0. Moved(l, "recheck", tap)
    BY <1>10, Moving DEF Insert
  <2>s. \A x \in Filters : \/ fil'[x].pc = fil[x].pc
                           \/ fil[x].pc = "failed" /\ fil'[x].pc = "off"
    BY <1>10, Stopping DEF Insert
  <2> HIDE DEF Shutdown
  <2>1. Owned'
    BY <1>10, <2>0 DEF Insert, DryFree
  <2>2. Kept'
    <3> SUFFICES ASSUME NEW x \in Filters, Alive(x)'
                 PROVE  x = tap' \/ x = host' \/ \E u \in Threads : thr'[u].f = x
      BY DEF Kept
    <3>1. x = tap \/ x = host \/ \E u \in Threads : thr[u].f = x
      BY <2>s
    <3> QED BY <1>10, <2>0, <3>1 DEF Insert
  <2>3. Hands'
    BY <1>10, <2>0 DEF Insert, DryFree
  <2>4. ~late' => Published' /\ Doomed'
    <3>1. /\ hostState # None /\ ~late => fil'[hostState].pc = "running"
          /\ \A x \in Maybe : Alive(x)' => Alive(x)
          /\ Live' => Live
      BY <1>10, <2>s DEF Insert
    <3>2. ~late' => Published'
      <4> SUFFICES ASSUME ~late' PROVE Published'
        OBVIOUS
      <4>0. UNCHANGED <<late, host, hostState>> /\ Published
        BY <1>10 DEF Insert
      <4>1. thr'[Eng].pc \in {"start", "install", "stopped"} => thr'[Eng] = thr[Eng]
        BY <2>0
      <4>2. Alive(host)' => Alive(host)
        BY <3>1, <4>0
      <4>3. Alive(thr[Eng].f)' /\ thr'[Eng] = thr[Eng] => Alive(thr[Eng].f)
        BY <3>1 DEF Doing
      <4>4. hostState' # None => fil'[hostState'].pc = "running"
        BY <3>1, <4>0
      <4> QED BY <4>0, <4>1, <4>2, <4>3, <4>4
    <3>3. ~late' => Doomed'
      BY <1>10, <2>0, <3>1 DEF Insert, DryFree
    <3> QED BY <3>2, <3>3
  <2> QED BY <2>1, <2>2, <2>3, <2>4
<1>11. ASSUME NEW l \in Lanes, Recheck(l), UNCHANGED <<shown, host, hostState>>
       PROVE  TapInv'
  <2>0. IF Live THEN Moved(l, "remove", None) ELSE Moved(l, "idle", None)
    BY <1>11, Moving DEF Recheck
  <2>1. Owned'
    BY <1>11, <2>0 DEF Recheck
  <2>2. Kept'
    BY <1>11, <2>0 DEF Recheck
  <2>3. Hands'
    BY <1>11, <2>0 DEF Recheck
  <2>4. ~late' => Published' /\ Doomed'
    BY <1>11, <2>0 DEF Recheck
  <2> QED BY <2>1, <2>2, <2>3, <2>4
<1>12. ASSUME Call, UNCHANGED <<shown, asked, tap, tapState>> PROVE TapInv'
  <2>0. Moved(Eng, "remove", None) \/ Moved(Eng, "stop", None)
    <3>1. Goes(Eng, "stop") => Moved(Eng, "stop", thr[Eng].f)
      BY Moving
    <3>2. Teardown(Eng, "ensure") \/ Teardown(Eng, "idle") => Moved(Eng, "remove", None)
      BY Moving
    <3>3. thr[Eng].f = None
      BY <1>12 DEF Call
    <3> HIDE DEF Moved
    <3> QED BY <1>12, <3>1, <3>2, <3>3 DEF Call
  <2>1. Owned'
    BY <1>12, <2>0 DEF Call, DryFree
  <2>2. Kept'
    BY <1>12, <2>0 DEF Call, DryFree
  <2>3. Hands'
    BY <1>12, <2>0 DEF Call, DryFree
  <2>4. ~late' => Published' /\ Doomed'
    BY <1>12, <2>0 DEF Call, DryFree
  <2> QED BY <2>1, <2>2, <2>3, <2>4
<1>13. ASSUME EnsureHost, UNCHANGED <<shown, asked, tap, tapState>> PROVE TapInv'
  <2>1. CASE Running(host)
    <3>0. Moved(Eng, "idle", None)
      BY <1>13, <2>1, Moving DEF EnsureHost
    <3>1. Owned'
      BY <1>13, <2>1, <3>0 DEF EnsureHost
    <3>2. Kept'
      BY <1>13, <2>1, <3>0 DEF EnsureHost
    <3>3. Hands'
      BY <1>13, <2>1, <3>0 DEF EnsureHost
    <3>4. ~late' => Published' /\ Doomed'
      BY <1>13, <2>1, <3>0 DEF EnsureHost
    <3> QED BY <3>1, <3>2, <3>3, <3>4
  <2>2. CASE ~Running(host)
    <3>0. Start(Eng, "start") /\ UNCHANGED <<tap, tapState, host, hostState>>
      BY <1>13, <2>2 DEF EnsureHost
    <3>a. /\ New \in Fresh /\ New \in Filters /\ New # None
          /\ fil'[New].pc = "connecting" /\ \A x \in Filters \ {New} : fil'[x] = fil[x]
      BY <3>0, Starting
    <3>b. Moved(Eng, "start", New)
      BY <3>0, <3>a, Moving DEF Start
    <3>c. fil[New].pc = "off" /\ New \notin Held
      BY <3>a DEF Fresh
    <3> HIDE DEF New
    <3>d. UNCHANGED <<late, tap, host, hostState>>
      BY <1>13, <3>0 DEF EnsureHost
    <3>e. New # host /\ New # hostState /\ New # tap
          /\ \A u \in Threads : thr[u].f # New
      BY <3>c DEF Held
    <3>1. Owned'
      <4>1. \A u \in Threads \ {Eng} : thr'[u].f = thr[u].f /\ thr'[u].f # New
        BY <3>b, <3>e
      <4>2. thr'[Eng].f = New
        BY <3>b
      <4>3. \A u \in Threads : thr'[u].f # None => thr'[u].f # tap' /\ thr'[u].f # host'
        BY <4>1, <4>2, <3>d, <3>e
      <4>4. \A u, v \in Threads : thr'[u].f # None /\ thr'[u].f = thr'[v].f => u = v
        BY <4>1, <4>2
      <4> QED BY <4>3, <4>4
    <3>2. Kept'
      BY <1>13, <2>2, <3>a, <3>b, <3>c DEF EnsureHost, Held
    <3>3. Hands'
      BY <1>13, <2>2, <3>a, <3>b, <3>c DEF EnsureHost, Held
    <3>4. ~late' => Published' /\ Doomed'
      <4>1. ~late' => Published'
        BY <3>a, <3>b, <3>d, <3>e, <1>13, <2>2 DEF EnsureHost
      <4>2. ~late' => Doomed'
        BY <3>a, <3>b, <3>d, <3>e, <1>13 DEF EnsureHost
      <4> QED BY <4>1, <4>2
    <3> QED BY <3>1, <3>2, <3>3, <3>4
  <2> QED BY <2>1, <2>2
<1>14. ASSUME PublishHost, UNCHANGED <<shown, asked, tap, tapState>> PROVE TapInv'
  <2>0. Moved(Eng, "install", thr[Eng].f)
    BY <1>14, Moving DEF PublishHost
  <2>1. Owned'
    BY <1>14, <2>0 DEF PublishHost, Waited
  <2>2. Kept'
    BY <1>14, <2>0 DEF PublishHost, Waited
  <2>3. Hands'
    BY <1>14, <2>0 DEF PublishHost, Waited
  <2>4. ~late' => Published' /\ Doomed'
    BY <1>14, <2>0 DEF PublishHost, Waited
  <2> QED BY <2>1, <2>2, <2>3, <2>4
<1>15. ASSUME RackFails, UNCHANGED <<shown, asked, tap, tapState>> PROVE TapInv'
  <2>0. Moved(Eng, "dropped", thr[Eng].f)
    BY <1>15, Moving DEF RackFails
  <2>1. Owned'
    BY <1>15, <2>0 DEF RackFails
  <2>2. Kept'
    BY <1>15, <2>0 DEF RackFails
  <2>3. Hands'
    BY <1>15, <2>0 DEF RackFails
  <2>4. ~late' => Published' /\ Doomed'
    BY <1>15, <2>0 DEF RackFails
  <2> QED BY <2>1, <2>2, <2>3, <2>4
<1>16. ASSUME Dropped, UNCHANGED <<shown, asked, tap, tapState>> PROVE TapInv'
  <2>0. Moved(Eng, "idle", None)
    BY <1>16, Moving DEF Dropped
  <2>1. Owned'
    BY <1>16, <2>0 DEF Dropped
  <2>2. Kept'
    BY <1>16, <2>0 DEF Dropped
  <2>3. Hands'
    BY <1>16, <2>0 DEF Dropped
  <2>4. ~late' => Published' /\ Doomed'
    BY <1>16, <2>0 DEF Dropped
  <2> QED BY <2>1, <2>2, <2>3, <2>4
<1>17. ASSUME InstallHost, UNCHANGED <<shown, asked, tap, tapState>> PROVE TapInv'
  <2>0. Moved(Eng, "replace", host)
    BY <1>17, Moving DEF InstallHost
  <2>1. Owned'
    BY <1>17, <2>0 DEF InstallHost
  <2>2. Kept'
    BY <1>17, <2>0 DEF InstallHost
  <2>3. Hands'
    BY <1>17, <2>0 DEF InstallHost
  <2>4. ~late' => Published' /\ Doomed'
    BY <1>17, <2>0 DEF InstallHost
  <2> QED BY <2>1, <2>2, <2>3, <2>4
<1>18. ASSUME Replaced, UNCHANGED <<shown, asked, tap, tapState>> PROVE TapInv'
  <2>0. Moved(Eng, "remove", None)
    BY <1>18, Moving DEF Replaced
  <2>1. Owned'
    BY <1>18, <2>0 DEF Replaced
  <2>2. Kept'
    BY <1>18, <2>0 DEF Replaced
  <2>3. Hands'
    BY <1>18, <2>0 DEF Replaced
  <2>4. ~late' => Published' /\ Doomed'
    BY <1>18, <2>0 DEF Replaced
  <2> QED BY <2>1, <2>2, <2>3, <2>4
<1>19. ASSUME StopHost, UNCHANGED <<shown, asked, tap, tapState>> PROVE TapInv'
  <2>0. Moved(Eng, "stopped", host)
    BY <1>19, Moving DEF StopHost
  <2>1. Owned'
    BY <1>19, <2>0 DEF StopHost
  <2>2. Kept'
    BY <1>19, <2>0 DEF StopHost
  <2>3. Hands'
    BY <1>19, <2>0 DEF StopHost
  <2>4. ~late' => Published' /\ Doomed'
    BY <1>19, <2>0 DEF StopHost
  <2> QED BY <2>1, <2>2, <2>3, <2>4
<1>20. ASSUME UnpublishHost, UNCHANGED <<shown, asked, tap, tapState>> PROVE TapInv'
  <2>0. Moved(Eng, "idle", None)
    BY <1>20, Moving DEF UnpublishHost
  <2>1. Owned'
    BY <1>20, <2>0 DEF UnpublishHost
  <2>2. Kept'
    BY <1>20, <2>0 DEF UnpublishHost
  <2>3. Hands'
    BY <1>20, <2>0 DEF UnpublishHost
  <2>4. ~late' => Published' /\ Doomed'
    BY <1>20, <2>0 DEF UnpublishHost
  <2> QED BY <2>1, <2>2, <2>3, <2>4
<1>21. CASE Tick \/ Hide \/ Show
  <2>1. UNCHANGED <<fil, tap, tapState, host, hostState, thr, late>>
    BY <1>21 DEF Tick, Hide, Show, Request
  <2>2. Owned' /\ Kept' /\ Hands'
    BY <2>1
  <2>3. ~late' => Published' /\ Doomed'
    BY <2>1
  <2> QED BY <2>2, <2>3
<1>22. CASE UNCHANGED vars
  <2>1. Owned' /\ Kept' /\ Hands'
    BY <1>22 DEF vars
  <2>2. ~late' => Published' /\ Doomed'
    BY <1>22 DEF vars
  <2> QED BY <2>1, <2>2
<1> HIDE DEF TapInv
<1>23. ASSUME NEW l \in Lanes, Lane(l) PROVE TapInv'
  BY <1>23, <1>3, <1>4, <1>5, <1>6, <1>7, <1>8, <1>9, <1>10, <1>11
    DEF Lane, Sync, TeardownStep, Threads
<1>24. ASSUME Engine PROVE TapInv'
  BY <1>24, <1>3, <1>4, <1>12, <1>13, <1>14, <1>15, <1>16, <1>17, <1>18, <1>19, <1>20
    DEF Engine, Hosting, TeardownStep, Threads
<1>25. ASSUME NEW f \in Filters, Thread(f) PROVE TapInv'
  BY <1>1, <1>2, <1>2a, <1>25 DEF Thread
<1> QED BY <1>21, <1>22, <1>23, <1>24, <1>25 DEF Next

\* No filter runs and everybody rests: TapInv holds at the start.
LEMMA InitTaps == Init => TapInv
<1> SUFFICES ASSUME Init PROVE TapInv
  OBVIOUS
<1>1. WindowType
  <2>1. shown \in BOOLEAN /\ late \in BOOLEAN /\ asked = {}
    BY DEF Init
  <2>2. events \in 0 .. MaxEvents
    BY ConstantsAssumption DEF Init
  <2> QED BY <2>1, <2>2 DEF WindowType
<1>2. FilterType
  <2>1. Off \in Filter /\ ~Off.quit
    BY DEF Off, Filter
  <2> QED BY <2>1 DEF Init, FilterType, Maybe
<1>3. ThreadType
  <2>1. Rest \in Doing /\ Rest.pc # "recheck"
    BY DEF Rest, Doing, Steps, Maybe
  <2> QED BY <2>1 DEF Init, ThreadType, Threads
<1>4. Owned /\ Hands
  BY DEF Init, Owned, Hands, Rest
<1>5. Kept /\ Published /\ Doomed
  BY DEF Init, Kept, Published, Doomed, Alive, Ended, Live, Running, Is, Off, Rest, Threads
<1> QED BY <1>1, <1>2, <1>3, <1>4, <1>5 DEF TapInv, TypeOK

\* Ownership of the filter threads (REGISTRY, DRY and the locals of ensure_host,
\* ensure_dry_meter and the teardowns) and the fate of a tap beside a live host
\* hold throughout.
THEOREM TapInvariant == Spec => []TapInv
BY InitTaps, StepTaps, PTL DEF Spec

\* The registries, states and threads of node.rs and dry_meter.rs keep their
\* types; host and tap are never one filter, one lane at most is in the recheck.
THEOREM TypeCorrect == Spec => []TypeOK
<1>1. TapInv => TypeOK
  BY DEF TapInv
<1> QED BY <1>1, TapInvariant, PTL

\* When all threads rest a filter that runs is registered (Kept, Hands), a host
\* that runs is live (Published), and then no tap is registered (Doomed).
LEMMA RestsWithOne == TapInv => OneFilter
<1> SUFFICES ASSUME TapInv, AtRest, ~late
             PROVE  Cardinality({f \in Filters : ~Ended(f)}) <= 1
  BY DEF OneFilter
<1> DEFINE S == {f \in Filters : ~Ended(f)}
<1>1. \A t \in Threads : thr[t].f = None
  BY DEF TapInv, Hands, AtRest
<1>2. \A f \in S : Alive(f) /\ f \in {tap, host}
  BY <1>1, ConstantsAssumption DEF TapInv, Kept, Alive
<1>3. host \in S => tap \notin S
  <2> SUFFICES ASSUME host \in S, tap \in S PROVE FALSE
    OBVIOUS
  <2>1. Live
    BY <1>2 DEF TapInv, Published, Live, Running, Is, Alive, Ended
  <2>2. tap # None
    BY <1>2 DEF Alive, Ended
  <2> QED BY <2>1, <2>2 DEF TapInv, Doomed, AtRest, Threads
<1>4. S = {} \/ \E x : S = {x}
  BY <1>2, <1>3
<1> HIDE DEF S
<1>5. Cardinality(S) \in {0, 1}
  BY <1>4, FS_EmptySet, FS_Singleton, Zenon
<1> QED BY <1>5 DEF S

\* For any number of lanes, filters and events: when lanes and engine rest, a
\* strip runs one filter at most, the host or the dry meter (the recheck of
\* ensure_dry_meter and the teardown of ensure_host catch each other's races).
THEOREM OneFilterHolds == Spec => []OneFilter
BY TapInvariant, RestsWithOne, PTL
================================================================================
