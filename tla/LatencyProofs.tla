----------------------------- MODULE LatencyProofs -----------------------------
(***************************************************************************)
(* What reconciling, arming and healing owe each other, and why the hosts  *)
(* of Master Direct leave together whenever the engine is at rest.  Kahn's *)
(* order and the path latencies are recursive functions: that they are     *)
(* defined, and that the path of a bus is the longest of its chains, is    *)
(* shown along minimal sets of buses (Downstream), and from it why every   *)
(* stem reaches Master in step when GLC is on.                             *)
(***************************************************************************)
EXTENDS Latency, WellFoundedInduction, FiniteSetTheorems, SequenceTheorems, TLAPS

\* The tables of the process and the graph as every operation expects them
Shape(h) ==
    /\ DOMAIN h = {"desired", "disabled", "topo", "pads", "reported", "targets",
                   "delay", "node", "out"}
    /\ h.desired \in Routings /\ h.disabled \in BOOLEAN
    /\ DOMAIN h.reported \subseteq Buses /\ DOMAIN h.node \subseteq Buses
    /\ \A b \in DOMAIN h.reported : h.reported[b] \in 0 .. MaxLat
    /\ h.out \in [Buses -> SUBSET {Master, Glc}]

\* ... and no fader is linked to a delay node that is not there
Wired(h) == Shape(h) /\ \A b \in Buses : Glc \in h.out[b] => b \in DOMAIN h.node

\* The switch is where the user put it, and Direct leaves no node
Switched(h) == h.disabled = h.desired.off /\ (h.disabled => DOMAIN h.node = {})

Most(h) == Max({0} \cup {h.reported[b] : b \in DOMAIN h.reported})

\* f holds the pad of every host in H
InStep(f, h, H) == \A b \in H : b \in DOMAIN f /\ f[b] = Most(h) - h.reported[b]
Padded(h) == h.disabled => InStep(h.delay, h, Hosts)

\* What a host thread writes down is the latency of its rack
Reports ==
    /\ lat \in [Hosts -> 0 .. MaxLat] /\ Hosts \subseteq Buses
    /\ DOMAIN g.reported \subseteq Hosts
    /\ \A b \in Hosts : job[b].pc # "report" =>
         b \in DOMAIN g.reported /\ g.reported[b] = lat[b]

Steps == {"report", "snap", "store", "take", "push", "plan", "publish", "live", "ready"}
Threads ==
    /\ job = [b \in Buses |-> job[b]]
    /\ \A b \in Buses : job[b] = Done \/ (job[b].pc \in Steps /\ b \in Hosts)

\* A host that is started or rebuilt alone carries its pad, and those of its
\* peers, from the tables through its snapshots to the delay lines
Alone(b) == \A c \in Buses \ {b} : job[c] = Done
Carries(pc, read, h) ==
    /\ pc \in {"store", "push"} => InStep(read, h, Hosts)
    /\ pc = "take" => InStep(h.targets, h, Hosts)
    /\ pc \in {"plan", "publish", "live", "ready"} => InStep(h.delay, h, Hosts)
Carried ==
    g.disabled => \A b \in Buses : Alone(b) => Carries(job[b].pc, job[b].read, g)

\* With every track muted an arm returns before it reconciles: the pads are
\* then only right again after the next unmute
Rested == Idle /\ muted # Buses => Padded(g)

GlcInv ==
    /\ Wired(g) /\ Switched(g)
    /\ muted \subseteq Buses
    /\ Reports /\ Threads /\ Carried /\ Rested
-----------------------------------------------------------------------------
(* The largest latency *)

\* A non-empty set of natural numbers has a smallest one.
LEMMA Smallest ==
    ASSUME NEW T \in SUBSET Nat, T # {}
    PROVE  \E x \in T : \A y \in T : x <= y
<1> DEFINE less == OpToRel(<, Nat)
<1>1. \E x \in T : \A y \in T : ~ (<<y, x>> \in less)
  <2>1. IsWellFoundedOn(less, Nat)
    BY NatLessThanWellFounded
  <2> HIDE DEF less
  <2> QED BY <2>1, WFMin
<1>2. PICK x \in T : \A y \in T : ~ (<<y, x>> \in less)
  BY <1>1
<1>3. \A y \in T : ~ (y < x)
  BY <1>2 DEF OpToRel
<1>4. \A y \in T : x <= y
  BY <1>3
<1> QED BY <1>4

\* A bounded set of them has a largest.
LEMMA Largest ==
    ASSUME NEW N \in Nat, NEW S \in SUBSET (0 .. N), S # {}
    PROVE  Max(S) \in S /\ \A y \in S : y <= Max(S)
<1> DEFINE T == {N - x : x \in S}
<1>1. T \in SUBSET Nat /\ T # {}
  <2>1. \A x \in S : x \in Nat /\ x <= N
    OBVIOUS
  <2>2. \A x \in S : N - x \in Nat
    BY <2>1
  <2> QED BY <2>2
<1>2. PICK t \in T : \A y \in T : t <= y
  <2> HIDE DEF T
  <2> QED BY <1>1, Smallest
<1>3. PICK m \in S : t = N - m
  BY <1>2
<1>4. \A y \in S : m >= y
  <2> TAKE y \in S
  <2>1. N - m <= N - y
    BY <1>2, <1>3
  <2>2. y \in 0 .. N /\ m \in 0 .. N
    OBVIOUS
  <2> QED BY <2>1, <2>2
<1>5. Max(S) \in S /\ \A y \in S : Max(S) >= y
  BY <1>4 DEF Max
<1> QED BY <1>5

\* The largest of the reported latencies is a number.
LEMMA MostIsNat ==
    ASSUME NEW h, Shape(h)
    PROVE  Most(h) \in Nat
<1> DEFINE S == {0} \cup {h.reported[b] : b \in DOMAIN h.reported}
<1>1. MaxLat \in Nat
  BY ConstantsAssumption
<1>2. S \in SUBSET (0 .. MaxLat) /\ S # {}
  BY <1>1 DEF Shape
<1>3. Max(S) \in S
  <2> HIDE DEF S
  <2> QED BY <1>1, <1>2, Largest
<1> QED BY <1>1, <1>2, <1>3 DEF Most
-----------------------------------------------------------------------------
(* Kahn's order *)

\* In a finite family of subsets of S one has no smaller subset in the family.
LEMMA MinimalSet ==
    ASSUME NEW S, IsFiniteSet(S), NEW T \in SUBSET SUBSET S, T # {}
    PROVE  \E D \in T : \A C \in T : C \subseteq D => C = D
<1>1. T \subseteq FiniteSubsetsOf(S)
  BY FS_Subset DEF FiniteSubsetsOf
<1>2. \E D \in T : \A C \in T : ~ (<<C, D>> \in StrictSubsetOrdering(S))
  BY <1>1, FS_StrictSubsetOrderingWellFounded, WFMin
<1> QED BY <1>2 DEF StrictSubsetOrdering

\* The buses that Kahn's order takes next, and what it leaves of a set
KahnFree(r, S) == {b \in S : Preds(r, b) \cap S = {}}
KahnLeft(r) ==
    CHOOSE left : left = [S \in SUBSET InSync(r) |->
                            IF KahnFree(r, S) = {} THEN S ELSE left[S \ KahnFree(r, S)]]

\* Kahn's order is defined for every set of buses.
LEMMA KahnStep ==
    ASSUME NEW r, IsFiniteSet(InSync(r))
    PROVE  LET left == KahnLeft(r)
           IN  left = [S \in SUBSET InSync(r) |->
                         IF KahnFree(r, S) = {} THEN S ELSE left[S \ KahnFree(r, S)]]
<1> DEFINE B == InSync(r)
           Body(f, S) == IF KahnFree(r, S) = {} THEN S ELSE f[S \ KahnFree(r, S)]
           Small(n) == {S \in SUBSET B : Cardinality(S) <= n}
           Solves(f, n) == \A S \in Small(n) : f[S] = Body(f, S)
           T == {n \in Nat : ~ \E f : f = [S \in SUBSET B |-> f[S]] /\ Solves(f, n)}
<1>1. \A S \in SUBSET B : IsFiniteSet(S) /\ Cardinality(S) \in Nat
                          /\ KahnFree(r, S) \subseteq S
  BY FS_Subset, FS_CardinalityType DEF KahnFree
<1>2. 0 \notin T
  <2> DEFINE f == [S \in SUBSET B |-> {}]
  <2>1. f = [S \in SUBSET B |-> f[S]]
    OBVIOUS
  <2>2. ASSUME NEW S \in Small(0) PROVE f[S] = Body(f, S)
    <3>1. S = {}
      BY <1>1, <2>2, FS_EmptySet
    <3>2. KahnFree(r, S) = {}
      BY <3>1 DEF KahnFree
    <3> QED BY <3>1, <3>2
  <2> HIDE DEF f
  <2> QED BY <2>1, <2>2
<1>3. ASSUME NEW n \in Nat, n \notin T PROVE n + 1 \notin T
  <2>1. PICK f : f = [S \in SUBSET B |-> f[S]] /\ Solves(f, n)
    BY <1>3
  <2> DEFINE h == [S \in SUBSET B |-> IF Cardinality(S) <= n THEN f[S] ELSE Body(f, S)]
  <2>2. h = [S \in SUBSET B |-> h[S]]
    OBVIOUS
  <2>3. ASSUME NEW S \in Small(n + 1) PROVE h[S] = Body(h, S)
    <3> DEFINE F == KahnFree(r, S)
    <3>1. h[S] = Body(f, S)
      BY <2>1
    <3>2. CASE F = {}
      BY <3>1, <3>2
    <3>3. CASE F # {}
      <4>1. S \ F \in SUBSET B /\ S \ F # S /\ S \ F \subseteq S
        BY <1>1, <3>3
      <4>2. Cardinality(S \ F) < Cardinality(S)
        <5> HIDE DEF F
        <5> QED BY <1>1, <4>1, FS_Subset
      <4>3. Cardinality(S \ F) <= n
        BY <1>1, <2>3, <4>1, <4>2
      <4>4. h[S \ F] = f[S \ F]
        BY <4>1, <4>3
      <4> QED BY <3>1, <4>4
    <3> QED BY <3>2, <3>3
  <2> HIDE DEF h
  <2> QED BY <1>3, <2>2, <2>3
<1>4. T = {}
  <2> SUFFICES ASSUME T # {} PROVE FALSE
    OBVIOUS
  <2>1. T \in SUBSET Nat
    OBVIOUS
  <2> HIDE DEF T
  <2>2. PICK n \in T : \A m \in T : n <= m
    BY <2>1, Smallest
  <2>3. n \in Nat /\ n # 0
    BY <1>2, <2>1, <2>2
  <2>4. n - 1 \in Nat /\ n - 1 \notin T /\ (n - 1) + 1 = n
    BY <2>1, <2>2, <2>3
  <2> QED BY <1>3, <2>2, <2>4
<1>5. PICK f : f = [S \in SUBSET B |-> f[S]] /\ Solves(f, Cardinality(B))
  <2>1. Cardinality(B) \in Nat
    BY FS_CardinalityType
  <2> QED BY <1>4, <2>1
<1>6. \A S \in SUBSET B : S \in Small(Cardinality(B))
  BY FS_Subset
<1>7. f = [S \in SUBSET B |-> Body(f, S)]
  BY <1>5, <1>6
<1>8. \E left : left = [S \in SUBSET InSync(r) |->
                          IF KahnFree(r, S) = {} THEN S ELSE left[S \ KahnFree(r, S)]]
  BY <1>7
<1> QED BY <1>8 DEF KahnLeft

\* Without a cycle every non-empty set of buses has one without upstream in it.
LEMMA AcyclicStarts ==
    ASSUME NEW r, IsFiniteSet(InSync(r)), ~Cyclic(r), NEW E \in SUBSET InSync(r), E # {}
    PROVE  \E b \in E : Preds(r, b) \cap E = {}
<1> DEFINE B == InSync(r)
           left == KahnLeft(r)
           T == {S \in SUBSET B : E \subseteq S /\ ~ (E \subseteq left[S])}
<1>1. left = [S \in SUBSET B |->
                IF KahnFree(r, S) = {} THEN S ELSE left[S \ KahnFree(r, S)]]
  BY KahnStep
<1>2. left[B] = {}
  BY DEF Cyclic, KahnLeft, KahnFree
<1> HIDE DEF left
<1> SUFFICES ASSUME \A b \in E : Preds(r, b) \cap E # {} PROVE FALSE
  OBVIOUS
<1>3. B \in T
  BY <1>2
<1>4. PICK S \in T : \A C \in T : C \subseteq S => C = S
  <2>1. T \in SUBSET SUBSET B /\ T # {}
    BY <1>3
  <2> HIDE DEF T
  <2> QED BY <2>1, MinimalSet
<1> DEFINE F == KahnFree(r, S)
<1>5. F \cap E = {} /\ F \subseteq S
  BY <1>4 DEF KahnFree
<1>6. S \in SUBSET B /\ E \subseteq S /\ ~ (E \subseteq left[S])
  BY <1>4
<1>7. left[S] = IF F = {} THEN S ELSE left[S \ F]
  BY <1>1, <1>6
<1> HIDE DEF F
<1>8. F # {} /\ left[S] = left[S \ F]
  BY <1>6, <1>7
<1>9. S \ F \in T
  BY <1>5, <1>6, <1>8
<1> QED BY <1>4, <1>5, <1>8, <1>9

\* ... so that what holds of no bus, and of one more when it holds of all that
\* are upstream of it, holds of all of them.
LEMMA Downstream ==
    ASSUME NEW r, IsFiniteSet(InSync(r)), ~Cyclic(r),
           NEW Good \in SUBSET SUBSET InSync(r), {} \in Good,
           \A D \in Good : \A c \in InSync(r) \ D :
               Preds(r, c) \subseteq D => D \cup {c} \in Good
    PROVE  InSync(r) \in Good
<1> DEFINE B == InSync(r)
           T == {B \ D : D \in Good}
<1>1. T \in SUBSET SUBSET B /\ T # {}
  <2>1. \A D \in Good : B \ D \in SUBSET B
    OBVIOUS
  <2>2. \A E \in T : E \in SUBSET B
    BY <2>1
  <2>3. B \ {} \in T
    OBVIOUS
  <2> QED BY <2>2, <2>3
<1>2. PICK E \in T : \A C \in T : C \subseteq E => C = E
  <2> HIDE DEF T
  <2> QED BY <1>1, MinimalSet
<1>3. PICK D \in Good : E = B \ D
  BY <1>2
<1>4. D \subseteq B
  OBVIOUS
<1>5. CASE E = {}
  <2>1. D = B
    BY <1>3, <1>4, <1>5
  <2> QED BY <2>1
<1>6. CASE E # {}
  <2>1. PICK c \in E : Preds(r, c) \cap E = {}
    BY <1>3, <1>6, AcyclicStarts
  <2>2. Preds(r, c) \subseteq D
    BY <1>3, <2>1 DEF Preds
  <2>3. D \cup {c} \in Good
    BY <1>3, <2>1, <2>2
  <2>4. B \ (D \cup {c}) \in T
    BY <2>3
  <2>5. B \ (D \cup {c}) \subseteq E /\ c \in E /\ c \notin B \ (D \cup {c})
    BY <1>3, <2>1
  <2> QED BY <1>2, <2>4, <2>5
<1> QED BY <1>5, <1>6

-----------------------------------------------------------------------------
(* Longest paths *)

\* The function compute_glc fills along that order
Path(reported, r) ==
    CHOOSE path : path = [b \in InSync(r) |->
        LocalLatency(reported, b) + Max({0} \cup {path[u] : u \in Preds(r, b)})]

\* The path latencies satisfy their equation for every routing without a cycle.
LEMMA PathEquation ==
    ASSUME NEW reported, NEW r, IsFiniteSet(InSync(r)), ~Cyclic(r)
    PROVE  LET path == Path(reported, r)
           IN  path = [b \in InSync(r) |->
                 LocalLatency(reported, b) + Max({0} \cup {path[u] : u \in Preds(r, b)})]
<1> DEFINE B == InSync(r)
           Late(f, b) == LocalLatency(reported, b) + Max({0} \cup {f[u] : u \in Preds(r, b)})
           Closed(D) == \A b \in D : Preds(r, b) \subseteq D
           Solves(f, D) == \A b \in D : f[b] = Late(f, b)
           Good == {D \in SUBSET B : Closed(D) /\ \E f : Solves(f, D)}
<1>1. {} \in Good
  OBVIOUS
<1>2. ASSUME NEW D \in Good, NEW c \in B \ D, Preds(r, c) \subseteq D
      PROVE  D \cup {c} \in Good
  <2>1. PICK f : Solves(f, D)
    OBVIOUS
  <2>2. Closed(D) /\ D \subseteq B
    OBVIOUS
  <2> DEFINE h == [b \in D \cup {c} |-> IF b = c THEN Late(f, c) ELSE f[b]]
  <2>3. \A u \in D : h[u] = f[u]
    BY <1>2
  <2>4. \A b \in D \cup {c} : Preds(r, b) \subseteq D
    BY <1>2, <2>2
  <2>5. \A b \in D \cup {c} : {h[u] : u \in Preds(r, b)} = {f[u] : u \in Preds(r, b)}
    <3> HIDE DEF h
    <3> QED BY <2>3, <2>4
  <2>6. \A b \in D \cup {c} : Late(h, b) = Late(f, b)
    BY <2>5
  <2>7. \A b \in D \cup {c} : h[b] = Late(f, b)
    BY <2>1, <2>3
  <2>8. Solves(h, D \cup {c}) /\ Closed(D \cup {c})
    BY <2>4, <2>6, <2>7
  <2> HIDE DEF h
  <2> QED BY <1>2, <2>2, <2>8
<1>3. B \in Good
  <2>1. Good \in SUBSET SUBSET B
    OBVIOUS
  <2>2. \A D \in Good : \A c \in B \ D : Preds(r, c) \subseteq D => D \cup {c} \in Good
    BY <1>2
  <2> HIDE DEF Good
  <2> QED BY <1>1, <2>1, <2>2, Downstream
<1>4. PICK f : Solves(f, B)
  BY <1>3
<1> DEFINE h == [b \in B |-> f[b]]
<1>5. \A b \in B : Preds(r, b) \subseteq B
  BY <1>3
<1>6. \A u \in B : h[u] = f[u]
  OBVIOUS
<1>7. \A b \in B : {h[u] : u \in Preds(r, b)} = {f[u] : u \in Preds(r, b)}
  <2> HIDE DEF h
  <2> QED BY <1>5, <1>6
<1>8. \A b \in B : h[b] = Late(h, b)
  <2>1. \A b \in B : Late(h, b) = Late(f, b)
    BY <1>7
  <2> HIDE DEF h
  <2> QED BY <1>4, <1>6, <2>1
<1>9. h = [b \in B |-> Late(h, b)]
  <2>1. h = [b \in B |-> h[b]]
    OBVIOUS
  <2> HIDE DEF h
  <2> QED BY <1>8, <2>1
<1>10. \E path : path = [b \in InSync(r) |->
         LocalLatency(reported, b) + Max({0} \cup {path[u] : u \in Preds(r, b)})]
  BY <1>9
<1> QED BY <1>10 DEF Path

\* What the racks report
Latencies(reported) ==
    /\ DOMAIN reported \subseteq Buses
    /\ \A b \in DOMAIN reported : reported[b] \in 0 .. MaxLat

\* The most that one bus adds to a path
Hop == MaxLat + STAGE_QUANTA * Quantum

\* The pads reach as far as all buses one after the other.
LEMMA HopIsNat ==
    /\ Hop \in Nat /\ Cardinality(Buses) \in Nat /\ Cardinality(Buses) * Hop \in Nat
    /\ Pads = 0 .. Cardinality(Buses) * Hop
<1>1. Cardinality(Buses) \in Nat /\ MaxLat \in Nat /\ Quantum \in Nat
  BY ConstantsAssumption, FS_CardinalityType
<1>2. \A n, m, q \in Nat : /\ m + 2 * q \in Nat /\ n * (m + 2 * q) \in Nat
                           /\ m * n + 2 * q * n = n * (m + 2 * q)
  OBVIOUS
<1> QED BY <1>1, <1>2 DEF Hop, Pads, STAGE_QUANTA

\* A bus costs its rack and the fixed stages, one hop at most.
LEMMA LocalBound ==
    ASSUME NEW reported, Latencies(reported), NEW b
    PROVE  LocalLatency(reported, b) \in 0 .. Hop
<1>1. MaxLat \in Nat /\ Quantum \in Nat
  BY ConstantsAssumption
<1>2. At(reported, b) \in 0 .. MaxLat
  BY <1>1 DEF At, Latencies
<1> QED BY <1>1, <1>2 DEF LocalLatency, Hop, STAGE_QUANTA

\* The buses of a plan are finitely many, and so are those upstream of one.
LEMMA InSyncFinite ==
    ASSUME NEW r
    PROVE  /\ IsFiniteSet(InSync(r)) /\ InSync(r) \subseteq Buses
           /\ Feeders(r) \subseteq InSync(r) /\ \A b : Preds(r, b) \subseteq InSync(r)
           /\ Cardinality(InSync(r)) \in Nat /\ Cardinality(InSync(r)) <= Cardinality(Buses)
<1>1. /\ InSync(r) \subseteq Buses /\ Feeders(r) \subseteq InSync(r)
      /\ \A b : Preds(r, b) \subseteq InSync(r)
  BY DEF InSync, Feeders, Preds
<1> QED BY <1>1, ConstantsAssumption, FS_Subset, FS_CardinalityType

\* No path is longer than all buses one after the other.
LEMMA PathBound ==
    ASSUME NEW reported, Latencies(reported), NEW r, ~Cyclic(r)
    PROVE  Path(reported, r) \in [InSync(r) -> 0 .. Cardinality(Buses) * Hop]
<1> DEFINE B == InSync(r)
           path == Path(reported, r)
           Good == {D \in SUBSET B : \A b \in D : path[b] \in 0 .. Cardinality(D) * Hop}
<1>1. /\ path = [b \in B |-> path[b]]
      /\ \A b \in B : path[b] = LocalLatency(reported, b)
                                + Max({0} \cup {path[u] : u \in Preds(r, b)})
  BY PathEquation, InSyncFinite
<1>2. IsFiniteSet(B) /\ B \subseteq Buses
  BY InSyncFinite
<1>3. Hop \in Nat
  BY HopIsNat
<1> HIDE DEF path
<1>4. {} \in Good
  OBVIOUS
<1>5. ASSUME NEW D \in Good, NEW c \in B \ D, Preds(r, c) \subseteq D
      PROVE  D \cup {c} \in Good
  <2> DEFINE n == Cardinality(D)
             S == {0} \cup {path[u] : u \in Preds(r, c)}
  <2>1. IsFiniteSet(D) /\ n \in Nat /\ Cardinality(D \cup {c}) = n + 1
    BY <1>2, <1>5, FS_Subset, FS_AddElement, FS_CardinalityType
  <2>2. n * Hop \in Nat /\ (n + 1) * Hop = n * Hop + Hop
    <3>1. \A i, j \in Nat : i * j \in Nat /\ (i + 1) * j = i * j + j
      OBVIOUS
    <3> QED BY <1>3, <2>1, <3>1
  <2>3. \A b \in D : path[b] \in 0 .. n * Hop
    OBVIOUS
  <2>4. S \in SUBSET (0 .. n * Hop) /\ S # {}
    BY <1>5, <2>2, <2>3
  <2>5. Max(S) \in 0 .. n * Hop
    <3> HIDE DEF S
    <3> QED BY <2>2, <2>4, Largest
  <2>6. path[c] = LocalLatency(reported, c) + Max(S)
    BY <1>1
  <2>7. LocalLatency(reported, c) \in 0 .. Hop
    BY LocalBound
  <2> HIDE DEF n, S
  <2>8. \A b \in D \cup {c} : path[b] \in 0 .. (n + 1) * Hop
    BY <1>3, <2>2, <2>3, <2>5, <2>6, <2>7
  <2> QED BY <2>1, <2>8 DEF n
<1>6. B \in Good
  <2>1. Good \in SUBSET SUBSET B
    OBVIOUS
  <2>2. \A D \in Good : \A c \in B \ D : Preds(r, c) \subseteq D => D \cup {c} \in Good
    BY <1>5
  <2> HIDE DEF Good
  <2> QED BY <1>2, <1>4, <2>1, <2>2, Downstream
<1>7. Cardinality(B) * Hop <= Cardinality(Buses) * Hop /\ Cardinality(B) * Hop \in Nat
      /\ Cardinality(Buses) * Hop \in Nat
  <2>1. \A i, j, k \in Nat : i <= j => i * k <= j * k /\ i * k \in Nat /\ j * k \in Nat
    OBVIOUS
  <2> QED BY <1>3, <2>1, InSyncFinite, HopIsNat
<1>8. \A b \in B : path[b] \in 0 .. Cardinality(Buses) * Hop
  BY <1>6, <1>7
<1> QED BY <1>1, <1>8 DEF path

\* When the slowest stem that feeds Master arrives
LStar(reported, r) == Max({0} \cup {Path(reported, r)[b] : b \in Feeders(r)})

\* The plan: how long before the slowest a stem that feeds Master arrives.
LEMMA PlanPads ==
    ASSUME NEW reported, Latencies(reported), NEW r, ~Cyclic(r)
    PROVE  LET path == Path(reported, r)
               lStar == LStar(reported, r)
               pads == ComputeGlc(reported, r)
           IN  /\ lStar \in Nat
               /\ path \in [InSync(r) -> Nat]
               /\ \A b \in Feeders(r) : path[b] <= lStar
               /\ pads = [b \in Buses |-> IF b \in Feeders(r) THEN lStar - path[b] ELSE 0]
               /\ pads \in [Buses -> Pads]
<1> DEFINE path == Path(reported, r)
           S == {0} \cup {path[b] : b \in Feeders(r)}
           N == Cardinality(Buses) * Hop
           pads == ComputeGlc(reported, r)
<1>1. N \in Nat /\ Pads = 0 .. N
  BY HopIsNat
<1>2. path \in [InSync(r) -> 0 .. N]
  BY PathBound
<1>3. pads = [b \in Buses |-> IF b \in Feeders(r) THEN Max(S) - path[b] ELSE 0]
  BY DEF ComputeGlc, Path
<1> HIDE DEF path, N, pads
<1>4. Feeders(r) \subseteq InSync(r)
  BY InSyncFinite
<1>5. S \in SUBSET (0 .. N) /\ S # {}
  BY <1>1, <1>2, <1>4
<1>6. Max(S) \in S /\ \A y \in S : y <= Max(S)
  <2> HIDE DEF S
  <2> QED BY <1>1, <1>5, Largest
<1>7. Max(S) \in 0 .. N /\ \A b \in Feeders(r) : path[b] <= Max(S) /\ path[b] \in 0 .. N
  BY <1>2, <1>4, <1>5, <1>6
<1>8. pads \in [Buses -> Pads]
  <2>1. \A b \in Feeders(r) : Max(S) - path[b] \in 0 .. N
    <3> HIDE DEF S
    <3> QED BY <1>1, <1>7
  <2> HIDE DEF S
  <2> QED BY <1>1, <1>3, <2>1
<1>9. path \in [InSync(r) -> Nat] /\ Max(S) \in Nat
  <2> HIDE DEF S
  <2> QED BY <1>1, <1>2, <1>7
<1>10. LStar(reported, r) = Max(S)
  BY DEF LStar, path
<1> HIDE DEF S
<1> QED BY <1>3, <1>7, <1>8, <1>9, <1>10 DEF path, pads

-----------------------------------------------------------------------------
(* The reference: sums along chains *)

\* Whatever holds of 0, and of m + 1 with m, holds up to n.
LEMMA UpTo ==
    ASSUME NEW n \in Nat, NEW Good \in SUBSET (0 .. n), 0 \in Good,
           \A m \in 0 .. n - 1 : m \in Good => m + 1 \in Good
    PROVE  Good = 0 .. n
<1> DEFINE T == (0 .. n) \ Good
<1> SUFFICES ASSUME T # {} PROVE FALSE
  OBVIOUS
<1>1. T \in SUBSET Nat
  OBVIOUS
<1>2. PICK m \in T : \A i \in T : m <= i
  <2> HIDE DEF T
  <2> QED BY <1>1, Smallest
<1>3. m \in 0 .. n /\ m # 0 /\ m \notin Good
  BY <1>2
<1>4. m - 1 \in 0 .. n - 1 /\ (m - 1) + 1 = m /\ ~ (m <= m - 1)
  BY <1>3
<1>5. m - 1 \in Good
  BY <1>2, <1>3, <1>4
<1> QED BY <1>3, <1>4, <1>5

\* p holds the partial sums of t
Sums(p, t, n) == p \in [0 .. n -> Nat] /\ p[0] = 0 /\ \A m \in 1 .. n : p[m] = p[m - 1] + t[m]

\* ... which are determined by it.
LEMMA SumsAgree ==
    ASSUME NEW n \in Nat, NEW t, NEW p, Sums(p, t, n), NEW q, Sums(q, t, n)
    PROVE  p[n] = q[n]
<1> DEFINE Good == {m \in 0 .. n : p[m] = q[m]}
<1>1. 0 \in Good
  BY DEF Sums
<1>2. ASSUME NEW m \in 0 .. n - 1, m \in Good PROVE m + 1 \in Good
  <2>1. m + 1 \in 1 .. n /\ (m + 1) - 1 = m
    BY <1>2
  <2> QED BY <1>2, <2>1 DEF Sums
<1>3. Good = 0 .. n
  <2>1. Good \in SUBSET (0 .. n)
    OBVIOUS
  <2> HIDE DEF Good
  <2> QED BY <1>1, <1>2, <2>1, UpTo
<1> QED BY <1>3

\* The function that FoldLeft defines to add up t
Folded(t) ==
    CHOOSE iter : iter = [S \in SUBSET DOMAIN t |->
                            IF S = {} THEN 0 ELSE iter[S \ {Max(S)}] + t[Max(S)]]

\* Folding a sequence adds it up.
LEMMA FoldSums ==
    ASSUME NEW n \in Nat, NEW t \in [1 .. n -> Nat]
    PROVE  \E p : Sums(p, t, n) /\ FoldLeft(+, 0, t) = p[n]
<1> DEFINE Body(f, S) == IF S = {} THEN 0 ELSE f[S \ {Max(S)}] + t[Max(S)]
           Solves(f, m) == \A S \in SUBSET (1 .. m) : f[S] = Body(f, S)
           Good == {m \in 0 .. n : \E f : Solves(f, m)}
           iter == Folded(t)
<1>1. DOMAIN t = 1 .. n
  OBVIOUS
<1>2. FoldLeft(+, 0, t) = iter[1 .. n]
  BY <1>1 DEF FoldLeft, MapThenFoldSet, Folded
<1>3. 0 \in Good
  <2> DEFINE f == [S \in {{}} |-> 0]
  <2>1. \A S \in SUBSET (1 .. 0) : S = {}
    OBVIOUS
  <2>2. Solves(f, 0)
    BY <2>1
  <2>3. \E i : Solves(i, 0)
    BY <2>2
  <2>4. 0 \in 0 .. n
    OBVIOUS
  <2> QED BY <2>3, <2>4
<1>4. ASSUME NEW m \in 0 .. n - 1, m \in Good PROVE m + 1 \in Good
  <2>1. PICK f : Solves(f, m)
    BY <1>4
  <2> DEFINE h == [S \in SUBSET (1 .. n) |->
                     IF m + 1 \in S THEN f[S \ {m + 1}] + t[m + 1] ELSE f[S]]
  <2>2. /\ m + 1 \in 0 .. n /\ m + 1 \in Nat
        /\ \A i \in 1 .. m + 1 : i \in 1 .. n /\ (i # m + 1 => i \in 1 .. m)
    OBVIOUS
  <2>3. ASSUME NEW S \in SUBSET (1 .. m + 1) PROVE h[S] = Body(h, S)
    <3>1. S \in SUBSET (1 .. n) /\ \A x : S \ {x} \in SUBSET (1 .. n)
      BY <2>2
    <3>2. CASE m + 1 \notin S
      <4>1. S \in SUBSET (1 .. m)
        BY <2>2, <3>2
      <4>2. h[S] = Body(f, S)
        BY <2>1, <3>1, <3>2, <4>1
      <4>3. h[S \ {Max(S)}] = f[S \ {Max(S)}]
        BY <3>1, <3>2
      <4> HIDE DEF h
      <4> QED BY <4>2, <4>3
    <3>3. CASE m + 1 \in S
      <4>1. Max(S) = m + 1
        <5>1. S \in SUBSET (0 .. m + 1) /\ S # {}
          BY <3>3
        <5>2. Max(S) \in S /\ \A y \in S : y <= Max(S)
          BY <2>2, <5>1, Largest
        <5>3. Max(S) \in 1 .. m + 1 /\ m + 1 <= Max(S)
          BY <3>3, <5>2
        <5> QED BY <2>2, <5>3
      <4>2. h[S] = f[S \ {m + 1}] + t[m + 1]
        BY <3>1, <3>3
      <4>3. h[S \ {m + 1}] = f[S \ {m + 1}]
        BY <3>1
      <4> HIDE DEF h
      <4> QED BY <3>3, <4>1, <4>2, <4>3
    <3> QED BY <3>2, <3>3
  <2> HIDE DEF h
  <2>4. Solves(h, m + 1)
    BY <2>3
  <2> QED BY <2>2, <2>4
<1>5. PICK f : Solves(f, n)
  <2>1. Good = 0 .. n
    <3>1. Good \in SUBSET (0 .. n)
      OBVIOUS
    <3> HIDE DEF Good
    <3> QED BY <1>3, <1>4, <3>1, UpTo
  <2>2. n \in Good
    <3>1. n \in 0 .. n
      OBVIOUS
    <3> HIDE DEF Good
    <3> QED BY <2>1, <3>1
  <2> QED BY <2>2
<1>6. iter = [S \in SUBSET (1 .. n) |-> Body(iter, S)]
  <2> DEFINE h == [S \in SUBSET (1 .. n) |-> f[S]]
  <2>1. \A S \in SUBSET (1 .. n) : h[S] = Body(f, S) /\ h[S \ {Max(S)}] = f[S \ {Max(S)}]
    BY <1>5
  <2>2. h = [S \in SUBSET (1 .. n) |-> h[S]]
    OBVIOUS
  <2> HIDE DEF h
  <2>3. h = [S \in SUBSET (1 .. n) |-> Body(h, S)]
    BY <2>1, <2>2
  <2>4. \E i : i = [S \in SUBSET DOMAIN t |->
                      IF S = {} THEN 0 ELSE i[S \ {Max(S)}] + t[Max(S)]]
    BY <1>1, <2>3
  <2> QED BY <1>1, <2>4 DEF Folded
<1> HIDE DEF iter
<1> DEFINE p == [m \in 0 .. n |-> iter[1 .. m]]
<1>7. \A m \in 0 .. n : 1 .. m \in SUBSET (1 .. n)
  OBVIOUS
<1>8. p[0] = 0
  <2>1. 1 .. 0 = {} /\ 0 \in 0 .. n
    OBVIOUS
  <2> QED BY <1>6, <1>7, <2>1
<1>9. ASSUME NEW m \in 1 .. n PROVE p[m] = p[m - 1] + t[m]
  <2>1. m \in 0 .. n /\ m - 1 \in 0 .. n /\ m \in Nat /\ m \in 1 .. m
    OBVIOUS
  <2>2. Max(1 .. m) = m
    <3>1. 1 .. m \in SUBSET (0 .. m) /\ 1 .. m # {}
      BY <2>1
    <3>2. Max(1 .. m) \in 1 .. m /\ \A y \in 1 .. m : y <= Max(1 .. m)
      BY <2>1, <3>1, Largest
    <3>3. m <= Max(1 .. m)
      BY <2>1, <3>2
    <3> QED BY <2>1, <3>2, <3>3
  <2>3. (1 .. m) \ {m} = 1 .. m - 1 /\ 1 .. m # {}
    <3>1. \A i \in 1 .. m : i # m => i \in 1 .. m - 1
      BY <2>1
    <3>2. \A i \in 1 .. m - 1 : i \in 1 .. m /\ i # m
      BY <2>1
    <3> QED BY <2>1, <3>1, <3>2
  <2>4. iter[1 .. m] = iter[1 .. m - 1] + t[m]
    BY <1>6, <1>7, <2>1, <2>2, <2>3
  <2> QED BY <2>1, <2>4
<1>10. \A m \in 0 .. n : p[m] \in Nat
  <2> DEFINE Typed == {m \in 0 .. n : p[m] \in Nat}
  <2> HIDE DEF p
  <2>1. 0 \in Typed
    BY <1>8
  <2>2. ASSUME NEW m \in 0 .. n - 1, m \in Typed PROVE m + 1 \in Typed
    <3>1. m + 1 \in 1 .. n /\ (m + 1) - 1 = m /\ m + 1 \in 0 .. n
      BY <2>2
    <3>2. p[m + 1] = p[m] + t[m + 1] /\ t[m + 1] \in Nat
      BY <1>9, <3>1
    <3> QED BY <2>2, <3>1, <3>2
  <2>3. Typed = 0 .. n
    <3>1. Typed \in SUBSET (0 .. n)
      OBVIOUS
    <3> HIDE DEF Typed
    <3> QED BY <2>1, <2>2, <3>1, UpTo
  <2> QED BY <2>3
<1>11. p \in [0 .. n -> Nat] /\ FoldLeft(+, 0, t) = p[n]
  <2>1. n \in 0 .. n
    OBVIOUS
  <2> QED BY <1>2, <1>10, <2>1
<1> HIDE DEF p
<1> QED BY <1>8, <1>9, <1>11 DEF Sums

\* One step of a path.
LEMMA PathStep ==
    ASSUME NEW reported, Latencies(reported), NEW r, ~Cyclic(r), NEW b \in InSync(r)
    PROVE  LET path == Path(reported, r)
               here == LocalLatency(reported, b)
           IN  /\ path[b] >= here
               /\ \A u \in Preds(r, b) : path[b] >= path[u] + here
               /\ path[b] = here \/ \E u \in Preds(r, b) : path[b] = path[u] + here
<1> DEFINE path == Path(reported, r)
           here == LocalLatency(reported, b)
           N == Cardinality(Buses) * Hop
           S == {0} \cup {path[u] : u \in Preds(r, b)}
<1>1. path \in [InSync(r) -> 0 .. N] /\ N \in Nat
  BY PathBound, HopIsNat
<1>2. path[b] = here + Max(S)
  BY PathEquation, InSyncFinite
<1>3. here \in Nat
  <2>1. here \in 0 .. Hop
    BY LocalBound
  <2> QED BY <2>1, HopIsNat
<1> HIDE DEF path, here, N
<1>4. S \in SUBSET (0 .. N) /\ S # {}
  BY <1>1, InSyncFinite
<1>5. Max(S) \in S /\ \A y \in S : y <= Max(S)
  <2> HIDE DEF S
  <2> QED BY <1>1, <1>4, Largest
<1>6. Max(S) \in Nat /\ \A y \in S : y \in Nat
  BY <1>4, <1>5
<1>7. path[b] >= here /\ \A y \in S : path[b] >= y + here
  <2> HIDE DEF S
  <2> QED BY <1>2, <1>3, <1>5, <1>6
<1>8. path[b] = here \/ \E u \in Preds(r, b) : path[b] = path[u] + here
  <2>1. CASE Max(S) = 0
    BY <1>2, <1>3, <2>1
  <2>2. CASE Max(S) # 0
    <3>1. PICK u \in Preds(r, b) : Max(S) = path[u]
      BY <1>5, <2>2
    <3>2. path[b] = path[u] + here
      <4> HIDE DEF S
      <4> QED BY <1>2, <1>3, <1>6, <3>1
    <3> QED BY <3>2
  <2> QED BY <2>1, <2>2
<1> QED BY <1>7, <1>8 DEF path, here

\* s is a chain of n buses that ends in b
Chained(r, s, n, b) ==
    /\ s \in [1 .. n -> InSync(r)] /\ s[n] = b
    /\ \A i \in 1 .. n - 1 : s[i + 1] \in r.egress[s[i]]
Along(reported, s, n) == [i \in 1 .. n |-> LocalLatency(reported, s[i])]

\* Chains(r, b) holds all chains that end in b, up to the number of buses.
LEMMA ChainsAre ==
    ASSUME NEW r, NEW b
    PROVE  \A s : s \in Chains(r, b) <=> \E n \in 1 .. Cardinality(Buses) : Chained(r, s, n, b)
<1> DEFINE B == InSync(r)
<1>1. Cardinality(Buses) \in Nat
  BY ConstantsAssumption, FS_CardinalityType
<1>2. \A n \in 1 .. Cardinality(Buses) : \A s \in [1 .. n -> B] : Len(s) = n
  <2> TAKE n \in 1 .. Cardinality(Buses)
  <2> TAKE s \in [1 .. n -> B]
  <2>1. n \in Nat
    BY <1>1
  <2>2. s \in Seq(B)
    BY <2>1, SeqDef
  <2>3. Len(s) \in Nat /\ DOMAIN s = 1 .. Len(s)
    BY <2>2, LenProperties
  <2>4. DOMAIN s = 1 .. n
    OBVIOUS
  <2>5. \A i, j \in Nat : 1 .. i = 1 .. j => i = j
    <3> SUFFICES ASSUME NEW i \in Nat, NEW j \in Nat, 1 .. i = 1 .. j PROVE i <= j /\ j <= i
      OBVIOUS
    <3>1. i \in 1 .. i \/ i = 0
      OBVIOUS
    <3>2. j \in 1 .. j \/ j = 0
      OBVIOUS
    <3>3. i \in 1 .. j \/ i = 0
      BY <3>1
    <3>4. j \in 1 .. i \/ j = 0
      BY <3>2
    <3> QED BY <3>3, <3>4
  <2> QED BY <2>1, <2>3, <2>4, <2>5
<1>3. \A s : s \in UNION {[1 .. n -> B] : n \in 1 .. Cardinality(Buses)}
             <=> \E n \in 1 .. Cardinality(Buses) : s \in [1 .. n -> B]
  OBVIOUS
<1>4. \A s : s \in Chains(r, b) <=>
        \E n \in 1 .. Cardinality(Buses) :
          /\ s \in [1 .. n -> B] /\ s[Len(s)] = b
          /\ \A i \in 1 .. Len(s) - 1 : s[i + 1] \in r.egress[s[i]]
  BY <1>3 DEF Chains
<1> HIDE DEF B
<1>5. ASSUME NEW s, NEW n \in 1 .. Cardinality(Buses), s \in [1 .. n -> B]
      PROVE  (s[Len(s)] = b /\ \A i \in 1 .. Len(s) - 1 : s[i + 1] \in r.egress[s[i]])
             <=> Chained(r, s, n, b)
  BY <1>2, <1>5 DEF Chained, B
<1>6. \A s, n : Chained(r, s, n, b) => s \in [1 .. n -> B]
  BY DEF Chained, B
<1> QED BY <1>4, <1>5, <1>6

\* No chain is longer than the path.
LEMMA ChainBound ==
    ASSUME NEW reported, Latencies(reported), NEW r, ~Cyclic(r),
           NEW n \in Nat \ {0}, NEW s, NEW b, Chained(r, s, n, b),
           NEW p, Sums(p, Along(reported, s, n), n)
    PROVE  p[n] <= Path(reported, r)[b]
<1> DEFINE path == Path(reported, r)
           t == Along(reported, s, n)
           Good == {m \in 0 .. n : m # 0 => p[m] <= path[s[m]]}
<1>1. path \in [InSync(r) -> Nat]
  <2>1. path \in [InSync(r) -> 0 .. Cardinality(Buses) * Hop]
    BY PathBound
  <2> HIDE DEF path
  <2> QED BY <2>1
<1>2. \A i \in 1 .. n : /\ s[i] \in InSync(r) /\ t[i] = LocalLatency(reported, s[i])
                        /\ t[i] \in Nat /\ p[i] = p[i - 1] + t[i] /\ p[i] \in Nat
  <2>1. \A i \in 1 .. n : LocalLatency(reported, s[i]) \in Nat
    BY LocalBound, HopIsNat
  <2>2. \A i \in 1 .. n : i \in 0 .. n
    OBVIOUS
  <2> QED BY <2>1, <2>2 DEF Chained, Along, Sums
<1>3. p[0] = 0
  BY DEF Sums
<1>4. \A c \in InSync(r) : /\ path[c] >= LocalLatency(reported, c)
                           /\ \A u \in Preds(r, c) : path[c] >= path[u] + LocalLatency(reported, c)
  BY PathStep
<1> HIDE DEF path, t
<1>5. ASSUME NEW m \in 0 .. n - 1, m \in Good PROVE m + 1 \in Good
  <2>1. m + 1 \in 1 .. n /\ (m + 1) - 1 = m /\ m + 1 \in 0 .. n
    BY <1>5
  <2>2. p[m + 1] = p[m] + t[m + 1] /\ s[m + 1] \in InSync(r)
        /\ t[m + 1] = LocalLatency(reported, s[m + 1]) /\ t[m + 1] \in Nat
    BY <1>2, <2>1
  <2>3. p[m + 1] <= path[s[m + 1]]
    <3>1. CASE m = 0
      <4>1. path[s[m + 1]] >= t[m + 1]
        BY <1>4, <2>2
      <4> QED BY <1>1, <1>3, <2>2, <3>1, <4>1
    <3>2. CASE m # 0
      <4>1. m \in 1 .. n /\ m \in 1 .. n - 1
        BY <1>5, <3>2
      <4>2. s[m] \in Preds(r, s[m + 1])
        BY <1>2, <4>1 DEF Preds, Chained
      <4>3. path[s[m + 1]] >= path[s[m]] + t[m + 1]
        BY <1>4, <2>2, <4>2
      <4>4. p[m] <= path[s[m]] /\ p[m] \in Nat /\ path[s[m]] \in Nat /\ path[s[m + 1]] \in Nat
        BY <1>1, <1>2, <1>5, <2>2, <3>2, <4>1
      <4> QED BY <2>2, <4>3, <4>4
    <3> QED BY <3>1, <3>2
  <2> QED BY <2>1, <2>3
<1>6. Good = 0 .. n
  <2>1. Good \in SUBSET (0 .. n) /\ 0 \in Good
    OBVIOUS
  <2> HIDE DEF Good
  <2> QED BY <1>5, <2>1, UpTo
<1>7. n \in Good
  <2>1. n \in 0 .. n
    OBVIOUS
  <2> HIDE DEF Good
  <2> QED BY <1>6, <2>1
<1> QED BY <1>7 DEF path, Chained

\* There is a chain as long as the path, and it visits no more buses than there are.
LEMMA ChainReaches ==
    ASSUME NEW reported, Latencies(reported), NEW r, ~Cyclic(r), NEW b \in InSync(r)
    PROVE  \E n \in 1 .. Cardinality(Buses) : \E s, p :
             Chained(r, s, n, b) /\ Sums(p, Along(reported, s, n), n) /\ p[n] = Path(reported, r)[b]
<1> DEFINE B == InSync(r)
           path == Path(reported, r)
           Ends(c, n) == \E s, p : /\ Chained(r, s, n, c)
                                   /\ Sums(p, Along(reported, s, n), n) /\ p[n] = path[c]
           Good == {D \in SUBSET B : \A c \in D : \E n \in 1 .. Cardinality(D) : Ends(c, n)}
<1>1. IsFiniteSet(B) /\ B \subseteq Buses /\ Cardinality(B) \in Nat
      /\ Cardinality(B) <= Cardinality(Buses) /\ Cardinality(Buses) \in Nat
  BY InSyncFinite, HopIsNat
<1>2. \A c \in B : /\ path[c] = LocalLatency(reported, c)
                      \/ \E u \in Preds(r, c) : path[c] = path[u] + LocalLatency(reported, c)
                   /\ LocalLatency(reported, c) \in Nat
  <2>1. \A c \in B : LocalLatency(reported, c) \in Nat
    BY LocalBound, HopIsNat
  <2> QED BY <2>1, PathStep
<1>3. path \in [B -> Nat]
  <2>1. path \in [InSync(r) -> 0 .. Cardinality(Buses) * Hop]
    BY PathBound
  <2> HIDE DEF path
  <2> QED BY <2>1
<1> HIDE DEF path
<1>4. \A c \in B : path[c] = LocalLatency(reported, c) => Ends(c, 1)
  <2> TAKE c \in B
  <2> HAVE path[c] = LocalLatency(reported, c)
  <2> DEFINE s == [i \in 1 .. 1 |-> c]
             p == [i \in 0 .. 1 |-> IF i = 0 THEN 0 ELSE LocalLatency(reported, c)]
  <2>1. Chained(r, s, 1, c)
    BY DEF Chained
  <2>2. Sums(p, Along(reported, s, 1), 1)
    BY <1>2 DEF Sums, Along
  <2>3. p[1] = path[c]
    OBVIOUS
  <2> HIDE DEF s, p
  <2> QED BY <2>1, <2>2, <2>3
<1>5. \A c \in B : \A u \in Preds(r, c) : \A n \in Nat \ {0} :
        Ends(u, n) /\ path[c] = path[u] + LocalLatency(reported, c) => Ends(c, n + 1)
  <2> TAKE c \in B
  <2> TAKE u \in Preds(r, c)
  <2> TAKE n \in Nat \ {0}
  <2> HAVE Ends(u, n) /\ path[c] = path[u] + LocalLatency(reported, c)
  <2>1. PICK s, p : Chained(r, s, n, u) /\ Sums(p, Along(reported, s, n), n) /\ p[n] = path[u]
    OBVIOUS
  <2> DEFINE s1 == [i \in 1 .. n + 1 |-> IF i = n + 1 THEN c ELSE s[i]]
             p1 == [i \in 0 .. n + 1 |-> IF i = n + 1 THEN path[c] ELSE p[i]]
  <2>2. \A i \in 1 .. n + 1 : i # n + 1 => i \in 1 .. n /\ i \in 0 .. n /\ i - 1 \in 0 .. n
    OBVIOUS
  <2>3. Chained(r, s1, n + 1, c)
    <3>1. s1 \in [1 .. n + 1 -> B] /\ s1[n + 1] = c
      BY <2>1, <2>2 DEF Chained
    <3>2. ASSUME NEW i \in 1 .. (n + 1) - 1 PROVE s1[i + 1] \in r.egress[s1[i]]
      <4>1. i \in 1 .. n /\ i \in 1 .. n + 1 /\ i + 1 \in 1 .. n + 1 /\ i # n + 1
            /\ (i # n => i \in 1 .. n - 1 /\ i + 1 # n + 1)
        BY <3>2
      <4>2. CASE i = n
        BY <2>1, <4>1, <4>2 DEF Chained, Preds
      <4>3. CASE i # n
        BY <2>1, <4>1, <4>3 DEF Chained
      <4> QED BY <4>2, <4>3
    <3> HIDE DEF s1
    <3> QED BY <3>1, <3>2 DEF Chained
  <2>4. Sums(p1, Along(reported, s1, n + 1), n + 1)
    <3>1. p1 \in [0 .. n + 1 -> Nat] /\ p1[0] = 0
      <4>1. \A i \in 0 .. n + 1 : i # n + 1 => i \in 0 .. n
        OBVIOUS
      <4>2. 0 \in 0 .. n + 1 /\ 0 # n + 1
        OBVIOUS
      <4>3. path[c] \in Nat
        BY <1>3
      <4> QED BY <2>1, <4>1, <4>2, <4>3 DEF Sums
    <3>2. ASSUME NEW m \in 1 .. n + 1
          PROVE  p1[m] = p1[m - 1] + Along(reported, s1, n + 1)[m]
      <4>1. m \in 0 .. n + 1 /\ m - 1 \in 0 .. n + 1 /\ m - 1 # n + 1
        BY <3>2
      <4>2. Along(reported, s1, n + 1)[m] = LocalLatency(reported, s1[m])
        BY DEF Along
      <4>3. CASE m = n + 1
        <5>1. p1[m] = path[c] /\ p1[m - 1] = p[n] /\ s1[m] = c
          BY <4>1, <4>3
        <5> HIDE DEF p1, s1
        <5> QED BY <2>1, <4>2, <5>1
      <4>4. CASE m # n + 1
        <5>1. m \in 1 .. n
          BY <2>2, <4>4
        <5>2. p1[m] = p[m] /\ p1[m - 1] = p[m - 1] /\ s1[m] = s[m]
          BY <4>1, <4>4
        <5>3. p[m] = p[m - 1] + LocalLatency(reported, s[m])
          BY <2>1, <5>1 DEF Sums, Along
        <5> HIDE DEF p1, s1
        <5> QED BY <4>2, <5>2, <5>3
      <4> QED BY <4>3, <4>4
    <3> HIDE DEF p1, s1
    <3> QED BY <3>1, <3>2 DEF Sums
  <2>5. p1[n + 1] = path[c]
    OBVIOUS
  <2> HIDE DEF s1, p1
  <2> QED BY <2>3, <2>4, <2>5
<1> HIDE DEF Ends
<1>6. ASSUME NEW D \in Good, NEW c \in B \ D, Preds(r, c) \subseteq D
      PROVE  D \cup {c} \in Good
  <2> DEFINE k == Cardinality(D)
  <2>1. k \in Nat /\ Cardinality(D \cup {c}) = k + 1
    BY <1>1, <1>6, FS_Subset, FS_AddElement, FS_CardinalityType
  <2> HIDE DEF k
  <2>2. \A d \in D : \E n \in 1 .. k : Ends(d, n)
    BY DEF k
  <2>3. \A n \in 1 .. k : n \in 1 .. k + 1 /\ n + 1 \in 1 .. k + 1 /\ n \in Nat \ {0}
    BY <2>1
  <2>4. \E n \in 1 .. k + 1 : Ends(c, n)
    <3>1. CASE path[c] = LocalLatency(reported, c)
      <4>1. 1 \in 1 .. k + 1
        BY <2>1
      <4> QED BY <1>4, <3>1, <4>1
    <3>2. CASE \E u \in Preds(r, c) : path[c] = path[u] + LocalLatency(reported, c)
      <4>1. PICK u \in Preds(r, c) : path[c] = path[u] + LocalLatency(reported, c)
        BY <3>2
      <4>2. PICK n \in 1 .. k : Ends(u, n)
        BY <1>6, <2>2
      <4>3. n \in Nat \ {0} /\ n + 1 \in 1 .. k + 1
        BY <2>3
      <4>4. Ends(c, n + 1)
        BY <1>5, <4>1, <4>2, <4>3
      <4> QED BY <4>3, <4>4
    <3> QED BY <1>2, <3>1, <3>2
  <2>5. \A d \in D \cup {c} : \E n \in 1 .. k + 1 : Ends(d, n)
    BY <2>2, <2>3, <2>4
  <2> QED BY <1>6, <2>1, <2>5
<1>7. B \in Good
  <2>1. Good \in SUBSET SUBSET B /\ {} \in Good
    OBVIOUS
  <2>2. \A D \in Good : \A c \in B \ D : Preds(r, c) \subseteq D => D \cup {c} \in Good
    BY <1>6
  <2> HIDE DEF Good
  <2> QED BY <1>1, <2>1, <2>2, Downstream
<1>8. PICK n \in 1 .. Cardinality(B) : Ends(b, n)
  BY <1>7
<1>9. n \in 1 .. Cardinality(Buses)
  BY <1>1
<1> QED BY <1>8, <1>9 DEF Ends, path

\* What compute_glc adds up bus by bus is the longest of all chains.
THEOREM ArrivalIsPath ==
    ASSUME NEW k, Latencies(k.reported), ~Cyclic(k.desired), NEW b \in InSync(k.desired)
    PROVE  Arrival(k, b) = Path(k.reported, k.desired)[b]
<1> DEFINE r == k.desired
           rep == k.reported
           Sum(s) == FoldLeft(+, 0, [i \in DOMAIN s |-> LocalLatency(k.reported, s[i])])
           S == {Sum(s) : s \in Chains(r, b)}
           N == Path(rep, r)[b]
<1>1. Arrival(k, b) = Max(S)
  BY DEF Arrival
<1>2. \A s : s \in Chains(r, b) <=> \E n \in 1 .. Cardinality(Buses) : Chained(r, s, n, b)
  BY ChainsAre
<1>3. N \in Nat
  BY PathBound, HopIsNat
<1>4. \A n \in 1 .. Cardinality(Buses) : n \in Nat \ {0}
  BY HopIsNat
<1>5. ASSUME NEW n \in 1 .. Cardinality(Buses), NEW s, Chained(r, s, n, b)
      PROVE  \E p : Sums(p, Along(rep, s, n), n) /\ Sum(s) = p[n]
  <2>1. DOMAIN s = 1 .. n
    BY <1>5 DEF Chained
  <2>2. Sum(s) = FoldLeft(+, 0, Along(rep, s, n))
    BY <2>1 DEF Along
  <2>3. Along(rep, s, n) \in [1 .. n -> Nat]
    <3>1. \A i \in 1 .. n : LocalLatency(rep, s[i]) \in Nat
      BY LocalBound, HopIsNat
    <3> QED BY <3>1 DEF Along
  <2>4. n \in Nat
    BY <1>4
  <2> HIDE DEF Sum
  <2> QED BY <2>2, <2>3, <2>4, FoldSums
<1> HIDE DEF Sum
<1>6. ASSUME NEW x \in S PROVE x \in 0 .. N
  <2>1. PICK s \in Chains(r, b) : x = Sum(s)
    OBVIOUS
  <2>2. PICK n \in 1 .. Cardinality(Buses) : Chained(r, s, n, b)
    BY <1>2
  <2>3. PICK p : Sums(p, Along(rep, s, n), n) /\ Sum(s) = p[n]
    BY <1>5, <2>2
  <2>4. n \in Nat \ {0} /\ n \in 0 .. n
    BY <1>4
  <2>5. p[n] <= N
    BY <2>2, <2>3, <2>4, ChainBound
  <2>6. p[n] \in Nat
    BY <2>3, <2>4 DEF Sums
  <2> HIDE DEF N
  <2> QED BY <1>3, <2>1, <2>3, <2>5, <2>6
<1>7. N \in S
  <2>1. PICK n \in 1 .. Cardinality(Buses) : \E s, p :
          Chained(r, s, n, b) /\ Sums(p, Along(rep, s, n), n) /\ p[n] = N
    BY ChainReaches
  <2>2. PICK s, p : Chained(r, s, n, b) /\ Sums(p, Along(rep, s, n), n) /\ p[n] = N
    BY <2>1
  <2>3. PICK q : Sums(q, Along(rep, s, n), n) /\ Sum(s) = q[n]
    BY <1>5, <2>2
  <2>4. n \in Nat
    BY <1>4
  <2>5. p[n] = q[n]
    BY <2>2, <2>3, <2>4, SumsAgree
  <2>6. s \in Chains(r, b)
    BY <1>2, <2>2
  <2> HIDE DEF N
  <2> QED BY <2>2, <2>3, <2>5, <2>6
<1>8. Max(S) = N
  <2> HIDE DEF S, N
  <2>1. S \in SUBSET (0 .. N) /\ S # {}
    BY <1>6, <1>7
  <2>2. Max(S) \in S /\ \A y \in S : y <= Max(S)
    BY <1>3, <2>1, Largest
  <2>3. Max(S) \in 0 .. N
    BY <2>1, <2>2
  <2>4. N <= Max(S)
    BY <1>7, <2>2
  <2>5. \A x, y \in Nat : x \in 0 .. y /\ y <= x => x = y
    OBVIOUS
  <2>6. Max(S) \in Nat
    BY <1>3, <2>3
  <2> QED BY <1>3, <2>3, <2>4, <2>5, <2>6
<1> QED BY <1>1, <1>8
-----------------------------------------------------------------------------
(* Delay nodes and the pads of the hosts *)

\* Only the reported latencies decide which pads are right.
LEMMA SameReports ==
    ASSUME NEW h, NEW x, x.reported = h.reported
    PROVE  \A f, H : InStep(f, x, H) <=> InStep(f, h, H)
  BY DEF InStep, Most

\* Stopping nodes takes their links along and no link to Master.
LEMMA StopKeeps ==
    ASSUME NEW h, Shape(h), NEW S \in SUBSET Buses
    PROVE  LET x == Stop(h, S)
           IN  /\ Shape(x) /\ DOMAIN x.node = DOMAIN h.node \ S
               /\ x.desired = h.desired /\ x.disabled = h.disabled
               /\ x.reported = h.reported /\ x.pads = h.pads
               /\ \A b \in Buses : /\ Master \in x.out[b] <=> Master \in h.out[b]
                                   /\ Glc \in x.out[b] <=> Glc \in h.out[b] /\ b \notin S
<1>1. Master # Glc
  BY DEF Master, Glc
<1> QED BY <1>1 DEF Stop, Shape, Unless

\* The nodes that the pads want, and no others.
LEMMA SyncKeeps ==
    ASSUME NEW h, Shape(h)
    PROVE  LET x == SyncNodes(h)
           IN  /\ Wired(x) /\ DOMAIN x.node = {b \in Buses : h.pads[b] > 0}
               /\ x.desired = h.desired /\ x.disabled = h.disabled
               /\ x.reported = h.reported /\ x.pads = h.pads
               /\ \A b \in Buses : Master \in x.out[b] <=> Master \in h.out[b]
<1> DEFINE want == {b \in Buses : h.pads[b] > 0}
           s == Stop(h, Buses \ want)
<1>1. SyncNodes(h) = [s EXCEPT !.node = [b \in want |-> DelayLine(h.pads[b])]]
  BY DEF SyncNodes
<1>2. want \subseteq Buses
  OBVIOUS
<1>3. /\ Shape(s)
      /\ s.desired = h.desired /\ s.disabled = h.disabled
      /\ s.reported = h.reported /\ s.pads = h.pads
      /\ \A b \in Buses : /\ Master \in s.out[b] <=> Master \in h.out[b]
                          /\ Glc \in s.out[b] <=> Glc \in h.out[b] /\ b \in want
  <2> HIDE DEF want
  <2> QED BY <1>2, StopKeeps
<1>4. SyncNodes(h) = [s EXCEPT !.node = [b \in want |-> DelayLine(h.pads[b])]]
      /\ want = {b \in Buses : h.pads[b] > 0}
  BY <1>1
<1> HIDE DEF want, s
<1> QED BY <1>2, <1>3, <1>4 DEF Wired, Shape

\* A snapshot of the pads: right for every host that has reported.
LEMMA PeersRight ==
    ASSUME NEW h, h.disabled
    PROVE  InStep(PeerPads(h), h, DOMAIN h.reported)
  BY DEF InStep, PeerPads, Most

\* Writing the table of targets disturbs nothing else; what the snapshot has
\* is then in the table.
LEMMA StoredKeeps ==
    ASSUME NEW h, Shape(h), NEW read
    PROVE  LET x == Stored(h, read)
           IN  /\ Shape(x)
               /\ x = [h EXCEPT !.targets = x.targets]
               /\ DOMAIN x.targets = DOMAIN h.targets \cup DOMAIN read
               /\ \A b \in DOMAIN read : x.targets[b] = read[b]
  BY DEF Stored, Over, Shape

\* Nor do the delay lines.
LEMMA PushedKeeps ==
    ASSUME NEW h, Shape(h), NEW read, Reports
    PROVE  LET x == Pushed(h, read)
           IN  /\ Shape(x)
               /\ x = [h EXCEPT !.delay = x.delay]
               /\ h.disabled /\ InStep(read, h, Hosts) => InStep(x.delay, x, Hosts)
<1> DEFINE x == Pushed(h, read)
<1>1. Shape(x) /\ x = [h EXCEPT !.delay = x.delay]
  BY DEF Pushed, Shape
<1>2. x.reported = h.reported
  BY <1>1 DEF Shape
<1>3. h.disabled /\ InStep(read, h, Hosts) => InStep(x.delay, h, Hosts)
  BY DEF Pushed, Shape, InStep, Reports
<1> QED
  <2> HIDE DEF x
  <2>1. h.disabled /\ InStep(read, h, Hosts) => InStep(x.delay, x, Hosts)
    BY <1>2, <1>3, SameReports
  <2> QED BY <1>1, <2>1 DEF x

\* Refreshing the table and pushing it out sets every host that has reported.
LEMMA PeersKeep ==
    ASSUME NEW h, Shape(h), Reports, Hosts \subseteq DOMAIN h.reported
    PROVE  LET x == ApplyAllDelays(RefreshPeerPads(h))
           IN  /\ Shape(x) /\ x.out = h.out /\ x.node = h.node
               /\ x.desired = h.desired /\ x.disabled = h.disabled
               /\ x.reported = h.reported /\ x.pads = h.pads
               /\ Padded(x)
<1> DEFINE r == PeerPads(h)
           s == Stored(h, r)
           x == Pushed(s, s.targets)
<1>1. ApplyAllDelays(RefreshPeerPads(h)) = x
  BY DEF ApplyAllDelays, RefreshPeerPads
<1>2. DOMAIN r = DOMAIN h.reported
  BY DEF PeerPads
<1>3. h.disabled => InStep(r, h, DOMAIN h.reported)
  BY PeersRight
<1> HIDE DEF r
<1>4. /\ Shape(s) /\ s = [h EXCEPT !.targets = s.targets]
      /\ DOMAIN r \subseteq DOMAIN s.targets
      /\ \A b \in DOMAIN r : s.targets[b] = r[b]
  BY StoredKeeps
<1> HIDE DEF s
<1>5. /\ s.out = h.out /\ s.node = h.node /\ s.desired = h.desired
      /\ s.disabled = h.disabled /\ s.reported = h.reported /\ s.pads = h.pads
  BY <1>4 DEF Shape
<1>6. h.disabled => InStep(s.targets, h, Hosts)
  BY <1>2, <1>3, <1>4 DEF InStep
<1>7. h.disabled => InStep(s.targets, s, Hosts)
  BY <1>5, <1>6, SameReports
<1>8. /\ Shape(x) /\ x = [s EXCEPT !.delay = x.delay]
      /\ s.disabled /\ InStep(s.targets, s, Hosts) => InStep(x.delay, x, Hosts)
  BY <1>4, PushedKeeps
<1> HIDE DEF x
<1>9. /\ x.out = s.out /\ x.node = s.node /\ x.desired = s.desired
      /\ x.disabled = s.disabled /\ x.reported = s.reported /\ x.pads = s.pads
  BY <1>4, <1>8 DEF Shape
<1> QED BY <1>1, <1>5, <1>7, <1>8, <1>9 DEF Padded

\* What is left of h in x, and that x is again as the next operation expects it
Serves(h, x) ==
    /\ Wired(x) /\ x.desired = h.desired /\ x.reported = h.reported
    /\ Switched(h) => Switched(x)
    /\ Padded(h) => Padded(x)

\* A stem that feeds Master has somewhere to go
Reachable(x) == \A b \in Buses : Feeding(x, b) => Present(x, b) # {}

\* reconcile settles the switch and the pads whatever it finds, cuts no link to
\* Master, and unless it refuses a cycle leaves every stem a way to Master.
LEMMA ReconcileServes ==
    ASSUME NEW h, Wired(h), Reports, Hosts \subseteq DOMAIN h.reported
    PROVE  LET x == Reconcile(h)
           IN  /\ Serves(h, x) /\ Switched(x) /\ Padded(x)
               /\ \A b \in Buses : Master \in h.out[b] => Master \in x.out[b]
               /\ h.desired.off \/ ~Cyclic(h.desired) => Reachable(x)
<1> DEFINE r == h.desired
           on == [h EXCEPT !.disabled = FALSE]
           off == [h EXCEPT !.disabled = TRUE, !.topo = NoTopo, !.pads = Zero]
           plan == [on EXCEPT !.topo = r, !.pads = ComputeGlc(h.reported, r)]
           peers(k) == ApplyAllDelays(RefreshPeerPads(k))
           Good(x) == /\ Serves(h, x) /\ Switched(x) /\ Padded(x)
                      /\ \A b \in Buses : Master \in h.out[b] => Master \in x.out[b]
<1>1. r.off \in BOOLEAN /\ Master # Glc
  BY ConstantsAssumption DEF Wired, Shape, Master, Glc
<1>2. CASE r.off
  <2> DEFINE t == Stop(off, Buses)
             x == peers(t)
  <2>1. Reconcile(h) = x
    BY <1>2 DEF Reconcile, TeardownAllNodes
  <2>2. /\ Shape(off) /\ off.disabled /\ off.desired = h.desired
        /\ off.reported = h.reported /\ off.out = h.out
    BY DEF Wired, Shape
  <2> HIDE DEF off
  <2>3. /\ Shape(t) /\ DOMAIN t.node = {} /\ t.disabled
        /\ t.desired = h.desired /\ t.reported = h.reported
        /\ \A b \in Buses : /\ Master \in h.out[b] => Master \in t.out[b]
                            /\ Glc \notin t.out[b]
    <3>1. Buses \in SUBSET Buses
      OBVIOUS
    <3>2. /\ Shape(t) /\ DOMAIN t.node = DOMAIN off.node \ Buses
          /\ t.desired = off.desired /\ t.disabled = off.disabled
          /\ t.reported = off.reported
          /\ \A b \in Buses : /\ Master \in t.out[b] <=> Master \in off.out[b]
                              /\ Glc \in t.out[b] <=> Glc \in off.out[b] /\ b \notin Buses
      BY <2>2, <3>1, StopKeeps
    <3>3. DOMAIN off.node \subseteq Buses
      BY <2>2 DEF Shape
    <3> HIDE DEF t
    <3> QED BY <2>2, <3>2, <3>3
  <2> HIDE DEF t
  <2>4. /\ Shape(x) /\ x.out = t.out /\ x.node = t.node
        /\ x.desired = t.desired /\ x.disabled = t.disabled
        /\ x.reported = t.reported
        /\ Padded(x)
    BY <2>3, PeersKeep
  <2> HIDE DEF x
  <2>5. Good(x)
    BY <1>2, <2>3, <2>4 DEF Serves, Wired, Switched
  <2>6. Reachable(x)
    BY <1>1, <2>3, <2>4 DEF Reachable, Present, PhysicalEgress
  <2> HIDE DEF Good
  <2> QED BY <2>1, <2>5, <2>6 DEF Good
<1>3. CASE ~r.off /\ Cyclic(r)
  <2>1. Reconcile(h) = on
    BY <1>3 DEF Reconcile
  <2>2. /\ Wired(on) /\ ~on.disabled /\ on.desired = h.desired
        /\ on.reported = h.reported /\ on.out = h.out
    BY DEF Wired, Shape
  <2>3. Good(on)
    <3> HIDE DEF on
    <3> QED BY <1>1, <1>3, <2>2 DEF Serves, Switched, Padded, Wired, Shape
  <2> HIDE DEF on, Good
  <2> QED BY <1>3, <2>1, <2>3 DEF Good
<1>4. CASE ~r.off /\ ~Cyclic(r)
  <2> DEFINE t == SyncNodes(plan)
             x == peers(t)
  <2>1. Reconcile(h) = x
    BY <1>4 DEF Reconcile
  <2>2. /\ Shape(plan) /\ ~plan.disabled /\ plan.desired = h.desired
        /\ plan.reported = h.reported /\ plan.out = h.out
    BY DEF Wired, Shape
  <2> HIDE DEF plan
  <2>3. /\ Wired(t) /\ DOMAIN t.node = {b \in Buses : t.pads[b] > 0} /\ ~t.disabled
        /\ t.desired = h.desired /\ t.reported = h.reported
        /\ \A b \in Buses : Master \in h.out[b] => Master \in t.out[b]
    BY <2>2, SyncKeeps
  <2> HIDE DEF t
  <2>4. /\ Shape(x) /\ x.out = t.out /\ x.node = t.node
        /\ x.desired = t.desired /\ x.disabled = t.disabled
        /\ x.reported = t.reported /\ x.pads = t.pads
        /\ Padded(x)
    BY <2>3, PeersKeep DEF Wired
  <2> HIDE DEF x
  <2>5. Good(x)
    BY <1>1, <1>4, <2>3, <2>4 DEF Serves, Wired, Switched, Shape
  <2>6. Reachable(x)
    <3> SUFFICES ASSUME NEW b \in Buses, Feeding(x, b) PROVE Present(x, b) # {}
      BY DEF Reachable
    <3>1. x.pads[b] > 0 => b \in DOMAIN x.node
      BY <2>3, <2>4
    <3> QED BY <1>1, <2>3, <2>4, <3>1 DEF Present, PhysicalEgress
  <2> HIDE DEF Good
  <2> QED BY <2>1, <2>5, <2>6 DEF Good
<1> QED BY <1>1, <1>2, <1>3, <1>4
-----------------------------------------------------------------------------
(* Links to Master *)

\* An operation that only links and unlinks, and no fader to a node that is
\* not there, leaves the rest as it was.
LEMMA OutServes ==
    ASSUME NEW h, Wired(h), NEW f \in [Buses -> SUBSET {Master, Glc}],
           \A b \in Buses : Glc \in f[b] => b \in DOMAIN h.node
    PROVE  LET x == [h EXCEPT !.out = f]
           IN  Serves(h, x) /\ x.out = f /\ x.pads = h.pads /\ x.node = h.node
                            /\ x.disabled = h.disabled
<1> DEFINE x == [h EXCEPT !.out = f]
<1>1. Shape(x) /\ x.out = f /\ x.pads = h.pads /\ x.node = h.node
      /\ x.disabled = h.disabled /\ x.desired = h.desired
      /\ x.reported = h.reported /\ x.delay = h.delay
  BY DEF Wired, Shape
<1> HIDE DEF x
<1>2. Padded(h) => Padded(x)
  BY <1>1, SameReports DEF Padded
<1> QED BY <1>1, <1>2 DEF Serves, Wired, Switched, x

\* Taking the links of a fader away.
LEMMA CutServes ==
    ASSUME NEW h, Wired(h), NEW b \in Buses
    PROVE  Serves(h, [h EXCEPT !.out[b] = {}])
<1> DEFINE f == [h.out EXCEPT ![b] = {}]
<1>1. f \in [Buses -> SUBSET {Master, Glc}]
  BY DEF Wired, Shape
<1>2. \A c \in Buses : Glc \in f[c] => c \in DOMAIN h.node
  BY DEF Wired, Shape
<1>3. [h EXCEPT !.out[b] = {}] = [h EXCEPT !.out = f]
  OBVIOUS
<1> HIDE DEF f
<1> QED BY <1>1, <1>2, <1>3, OutServes

\* Arming a fader links all its destinations that exist and no other node.
LEMMA ArmedLinks ==
    ASSUME NEW k, Wired(k), NEW b \in Buses
    PROVE  /\ Armed(k, b) \in SUBSET {Master, Glc}
           /\ Glc \in Armed(k, b) => b \in DOMAIN k.node
           /\ Present(k, b) \subseteq Armed(k, b)
<1>1. Present(k, b) \subseteq {Master, Glc} /\ (Glc \in Present(k, b) => b \in DOMAIN k.node)
  BY DEF Present, PhysicalEgress
<1>2. k.out[b] \subseteq {Master, Glc} /\ (Glc \in k.out[b] => b \in DOMAIN k.node)
  BY DEF Wired, Shape
<1> QED BY <1>1, <1>2 DEF Armed, DestsLinked

\* One bus of a settled graph is armed: Unmute, and a rebuild of one host.
LEMMA ArmOneServes ==
    ASSUME NEW h, Wired(h), Reports, Hosts \subseteq DOMAIN h.reported, NEW b \in Buses
    PROVE  LET k == Reconcile(h)
               x == [k EXCEPT !.out[b] = Armed(k, b)]
           IN  Serves(h, x) /\ Switched(x) /\ Padded(x)
<1> DEFINE k == Reconcile(h)
           f == [k.out EXCEPT ![b] = Armed(k, b)]
           x == [k EXCEPT !.out = f]
<1>1. Serves(h, k) /\ Switched(k) /\ Padded(k)
  BY ReconcileServes
<1>2. [k EXCEPT !.out[b] = Armed(k, b)] = x
  OBVIOUS
<1> HIDE DEF k
<1>3. Wired(k)
  BY <1>1 DEF Serves
<1>4. /\ f \in [Buses -> SUBSET {Master, Glc}]
      /\ \A c \in Buses : Glc \in f[c] => c \in DOMAIN k.node
  BY <1>3, ArmedLinks DEF Wired, Shape
<1> HIDE DEF f
<1>5. Serves(k, x)
  BY <1>3, <1>4, OutServes
<1> HIDE DEF x
<1> QED BY <1>1, <1>2, <1>5 DEF Serves, k

\* arm_all_tracks settles the graph unless every track is muted.
LEMMA ArmAllServes ==
    ASSUME NEW h, Wired(h), Reports, Hosts \subseteq DOMAIN h.reported
    PROVE  LET x == ArmAll(h)
           IN  Serves(h, x) /\ (muted # Buses => Switched(x) /\ Padded(x))
<1> DEFINE k == IF muted = Buses THEN h ELSE Reconcile(h)
           f == [b \in Buses |-> IF b \in muted THEN {} ELSE Armed(k, b)]
           x == [k EXCEPT !.out = f]
<1>1. Serves(h, k) /\ (muted # Buses => Switched(k) /\ Padded(k))
  BY ReconcileServes DEF Serves
<1>2. ArmAll(h) = x
  BY DEF ArmAll
<1> HIDE DEF k
<1>3. Wired(k)
  BY <1>1 DEF Serves
<1>4. /\ f \in [Buses -> SUBSET {Master, Glc}]
      /\ \A c \in Buses : Glc \in f[c] => c \in DOMAIN k.node
  BY <1>3, ArmedLinks
<1> HIDE DEF f
<1>5. Serves(k, x)
  BY <1>3, <1>4, OutServes
<1> HIDE DEF x
<1> QED BY <1>1, <1>2, <1>5 DEF Serves

\* arm_track_egress of an open track settles the graph; a muted one is cut.
LEMMA ArmTrackServes ==
    ASSUME NEW h, Wired(h), Reports, Hosts \subseteq DOMAIN h.reported, NEW b \in Buses
    PROVE  LET x == ArmTrack(h, b)
           IN  Serves(h, x) /\ (b \notin muted => Switched(x) /\ Padded(x))
  BY CutServes, ArmOneServes DEF ArmTrack

\* The heal of the tracks with effects; every open one it finds without a link
\* to Master is armed again, and no other link to Master is lost.
LEMMA HealWetServes ==
    ASSUME NEW h, Wired(h), Reports, Hosts \subseteq DOMAIN h.reported
    PROVE  LET x == HealWet(h)
           IN  /\ Serves(h, x)
               /\ \A b \in Buses \ muted : Master \in h.out[b] => Master \in x.out[b]
               /\ h.desired.off \/ ~Cyclic(h.desired) =>
                    \A b \in Unlinked(h) : Wet(b) => x.out[b] # {}
<1> DEFINE again == {b \in Unlinked(h) : Wet(b)}
           e == [b \in Buses |-> IF Wet(b) /\ b \in muted \cup again THEN {} ELSE h.out[b]]
           cut == [h EXCEPT !.out = e]
           k == Reconcile(cut)
           f == [b \in Buses |-> IF b \in again THEN Armed(k, b) ELSE k.out[b]]
           x == [k EXCEPT !.out = f]
<1>1. HealWet(h) = IF again = {} THEN cut ELSE x
  BY DEF HealWet
<1>2. /\ again \subseteq Buses \ muted
      /\ \A b \in again : Feeding(h, b) /\ Wet(b) /\ Master \notin h.out[b]
      /\ \A b \in Unlinked(h) : Wet(b) => b \in again
  BY DEF Unlinked
<1>3. /\ e \in [Buses -> SUBSET {Master, Glc}]
      /\ \A b \in Buses : Glc \in e[b] => b \in DOMAIN h.node
      /\ \A b \in Buses \ muted : b \notin again => e[b] = h.out[b]
  BY <1>2 DEF Wired, Shape
<1> HIDE DEF again
<1> HIDE DEF e
<1>4. Serves(h, cut) /\ cut.out = e
  BY <1>3, OutServes
<1> HIDE DEF cut
<1>5. Wired(cut) /\ cut.desired = h.desired /\ cut.reported = h.reported
  BY <1>4 DEF Serves
<1>6. /\ Serves(cut, k)
      /\ \A b \in Buses : Master \in cut.out[b] => Master \in k.out[b]
      /\ h.desired.off \/ ~Cyclic(h.desired) => Reachable(k)
  BY <1>5, ReconcileServes
<1> HIDE DEF k
<1>7. Wired(k) /\ k.desired = h.desired
  BY <1>5, <1>6 DEF Serves
<1>8. /\ f \in [Buses -> SUBSET {Master, Glc}]
      /\ \A b \in Buses : Glc \in f[b] => b \in DOMAIN k.node
      /\ \A b \in Buses : Present(k, b) \subseteq Armed(k, b)
      /\ \A b \in Buses : f[b] = IF b \in again THEN Armed(k, b) ELSE k.out[b]
  BY <1>7, ArmedLinks DEF Wired, Shape
<1> HIDE DEF f
<1>9. Serves(k, x) /\ x.out = f
  BY <1>7, <1>8, OutServes
<1> HIDE DEF x
<1>10. Serves(h, x) /\ Serves(h, cut)
  BY <1>4, <1>6, <1>9 DEF Serves
<1>11. \A b \in Buses \ muted : Master \in h.out[b] => Master \in cut.out[b] /\ Master \in x.out[b]
  BY <1>2, <1>3, <1>4, <1>6, <1>8, <1>9
<1>12. h.desired.off \/ ~Cyclic(h.desired) => \A b \in again : x.out[b] # {}
  <2> SUFFICES ASSUME h.desired.off \/ ~Cyclic(h.desired), NEW b \in again
               PROVE  x.out[b] # {}
    OBVIOUS
  <2>1. b \in Buses /\ Feeding(k, b)
    BY <1>2, <1>7 DEF Feeding
  <2>2. Present(k, b) # {}
    BY <1>6, <2>1 DEF Reachable
  <2> QED BY <1>8, <1>9, <2>1, <2>2
<1>13. CASE again = {}
  <2>1. HealWet(h) = cut
    BY <1>1, <1>13
  <2>2. \A b \in Unlinked(h) : ~Wet(b)
    BY <1>2, <1>13
  <2> QED BY <1>10, <1>11, <2>1, <2>2
<1>14. CASE again # {}
  <2>1. HealWet(h) = x
    BY <1>1, <1>14
  <2>2. h.desired.off \/ ~Cyclic(h.desired) => \A b \in Unlinked(h) : Wet(b) => x.out[b] # {}
    BY <1>2, <1>12
  <2> QED BY <1>10, <1>11, <2>1, <2>2
<1> QED BY <1>13, <1>14

\* The heal of a track without effects looks for Master and nothing else.
LEMMA HealDryServes ==
    ASSUME NEW h, Wired(h)
    PROVE  LET x == HealDry(h)
           IN  /\ Serves(h, x)
               /\ \A b \in Buses : h.out[b] \subseteq x.out[b]
               /\ \A b \in Unlinked(h) : ~Wet(b) => x.out[b] # {}
<1> DEFINE f == [b \in Buses |->
                   IF b \in Unlinked(h) /\ ~Wet(b) THEN h.out[b] \cup {Master} ELSE h.out[b]]
           x == [h EXCEPT !.out = f]
<1>1. HealDry(h) = x
  BY DEF HealDry
<1>2. Unlinked(h) \subseteq Buses /\ Master # Glc
  BY DEF Unlinked, Master, Glc
<1>3. /\ f \in [Buses -> SUBSET {Master, Glc}]
      /\ \A b \in Buses : Glc \in f[b] => b \in DOMAIN h.node
      /\ \A b \in Buses : h.out[b] \subseteq f[b]
      /\ \A b \in Unlinked(h) : ~Wet(b) => f[b] # {}
  BY <1>2 DEF Wired, Shape
<1> HIDE DEF f
<1>4. Serves(h, x) /\ x.out = f
  BY <1>3, OutServes
<1> HIDE DEF x
<1> QED BY <1>1, <1>3, <1>4

\* The idle tick: every open stem that feeds Master is linked afterwards.
LEMMA HealServes ==
    ASSUME NEW h, Wired(h), Reports, Hosts \subseteq DOMAIN h.reported
    PROVE  LET x == Heal(h)
           IN  /\ Serves(h, x)
               /\ h.desired.off \/ ~Cyclic(h.desired) =>
                    \A b \in Buses \ muted : Feeding(h, b) => x.out[b] # {}
<1> DEFINE w == HealWet(h)
           x == HealDry(w)
<1>1. Heal(h) = x
  BY DEF Heal
<1>2. /\ Serves(h, w)
      /\ \A b \in Buses \ muted : Master \in h.out[b] => Master \in w.out[b]
      /\ h.desired.off \/ ~Cyclic(h.desired) =>
           \A b \in Unlinked(h) : Wet(b) => w.out[b] # {}
  BY HealWetServes
<1> HIDE DEF w
<1>3. Wired(w) /\ w.desired = h.desired
  BY <1>2 DEF Serves
<1>4. /\ Serves(w, x)
      /\ \A b \in Buses : w.out[b] \subseteq x.out[b]
      /\ \A b \in Unlinked(w) : ~Wet(b) => x.out[b] # {}
  BY <1>3, HealDryServes
<1> HIDE DEF x
<1>5. Serves(h, x)
  BY <1>2, <1>4 DEF Serves
<1>6. ASSUME h.desired.off \/ ~Cyclic(h.desired), NEW b \in Buses \ muted, Feeding(h, b)
      PROVE  x.out[b] # {}
  <2>1. Feeding(w, b)
    BY <1>3, <1>6 DEF Feeding
  <2>2. CASE Master \in w.out[b]
    BY <1>4, <2>2
  <2>3. CASE Master \notin w.out[b] /\ Wet(b)
    BY <1>2, <1>4, <1>6, <2>3 DEF Unlinked
  <2>4. CASE Master \notin w.out[b] /\ ~Wet(b)
    BY <1>4, <2>1, <2>4 DEF Unlinked
  <2> QED BY <2>2, <2>3, <2>4
<1> QED BY <1>1, <1>5, <1>6
-----------------------------------------------------------------------------
(* The engine calls *)

\* When no host thread runs, every host has reported the latency of its rack.
LEMMA AllReported ==
    ASSUME Reports, \A b \in Buses : job[b].pc # "report"
    PROVE  /\ DOMAIN g.reported = Hosts
           /\ \A b \in Hosts : g.reported[b] = lat[b]
  BY DEF Reports

\* A call that ends with no thread running, with the tables filled and, unless
\* every track is muted, with the pads right, ends at rest.
LEMMA AtRest ==
    ASSUME Wired(g'), Switched(g'), muted' \subseteq Buses,
           lat' \in [Hosts' -> 0 .. MaxLat], Hosts' \subseteq Buses,
           DOMAIN g'.reported = Hosts', \A b \in Hosts' : g'.reported[b] = lat'[b],
           job' = [b \in Buses |-> Done],
           muted' # Buses => Padded(g)'
    PROVE  GlcInv'
<1>1. \A b \in Buses : job'[b] = Done /\ job'[b].pc = "done"
  BY DEF Done
<1>2. Reports'
  BY DEF Reports
<1>3. Threads'
  BY <1>1 DEF Threads
<1>4. Carried'
  BY <1>1 DEF Carried, Carries
<1>5. Rested'
  BY DEF Rested
<1>6. Wired(g)' /\ Switched(g)'
  BY DEF Wired, Shape, Switched
<1> QED BY <1>2, <1>3, <1>4, <1>5, <1>6 DEF GlcInv

\* A call that starts and stops no host.
LEMMA CallKeeps ==
    ASSUME GlcInv, Idle, Wired(g'), Switched(g'), g'.reported = g.reported,
           lat' = lat, job' = job, muted' \subseteq Buses,
           muted' # Buses => Padded(g')
    PROVE  GlcInv'
<1>1. job' = [b \in Buses |-> Done]
  BY DEF GlcInv, Threads, Idle
<1>2. DOMAIN g.reported = Hosts /\ \A b \in Hosts : g.reported[b] = lat[b]
  <2>1. \A b \in Buses : job[b].pc # "report"
    BY DEF Idle, Done
  <2> QED BY <2>1, AllReported DEF GlcInv
<1>3. Padded(g)' <=> Padded(g')
  BY DEF Padded, Hosts
<1> QED BY <1>1, <1>2, <1>3, AtRest DEF GlcInv, Reports, Hosts

\* What every engine call finds.
LEMMA AtCall ==
    ASSUME GlcInv, Idle
    PROVE  /\ Wired(g) /\ Switched(g) /\ Reports
           /\ DOMAIN g.reported = Hosts /\ \A b \in Hosts : g.reported[b] = lat[b]
           /\ muted # Buses => Padded(g)
<1>1. \A b \in Buses : job[b].pc # "report"
  BY DEF Idle, Done
<1> QED BY <1>1, AllReported DEF GlcInv, Rested

\* The outputs of a track: settle, arm every track, heal, one on the other.
LEMMA RouteKeeps == ASSUME GlcInv, NEW r \in Routings, Route(r) PROVE GlcInv'
<1> DEFINE h == [g EXCEPT !.desired = r]
           k == Reconcile(h)
           a == ArmAll(k)
<1>1. Idle /\ g' = Heal(a) /\ lat' = lat /\ muted' = muted /\ job' = job
  BY DEF Route, Call
<1>2. Wired(g) /\ Reports /\ DOMAIN g.reported = Hosts
  BY <1>1, AtCall
<1>3. Wired(h) /\ h.reported = g.reported
  BY <1>2 DEF Wired, Shape
<1> HIDE DEF h
<1>4. Serves(h, k) /\ Switched(k) /\ Padded(k)
  BY <1>2, <1>3, ReconcileServes
<1> HIDE DEF k
<1>5. Wired(k) /\ k.reported = g.reported
  BY <1>3, <1>4 DEF Serves
<1>6. Serves(k, a)
  BY <1>2, <1>5, ArmAllServes
<1> HIDE DEF a
<1>7. Wired(a) /\ a.reported = g.reported
  BY <1>5, <1>6 DEF Serves
<1>8. Serves(a, g')
  BY <1>1, <1>2, <1>7, HealServes
<1>9. Wired(g') /\ Switched(g') /\ g'.reported = g.reported /\ Padded(g')
  BY <1>4, <1>6, <1>7, <1>8 DEF Serves
<1> QED BY <1>1, <1>9, CallKeeps DEF GlcInv

\* Muting cuts the fader and leaves the pads alone.
LEMMA MuteKeeps == ASSUME GlcInv, NEW b \in Buses, Mute(b) PROVE GlcInv'
<1>1. /\ Idle /\ g' = [g EXCEPT !.out[b] = {}]
      /\ lat' = lat /\ muted' = muted \cup {b} /\ job' = job
  BY DEF Mute, Call
<1>2. Wired(g) /\ Switched(g) /\ (muted # Buses => Padded(g))
  BY <1>1, AtCall
<1>3. Serves(g, g')
  BY <1>1, <1>2, CutServes
<1>4. muted \subseteq Buses
  BY DEF GlcInv
<1>5. muted' # Buses => muted # Buses
  BY <1>1, <1>4
<1>6. Wired(g') /\ Switched(g') /\ g'.reported = g.reported /\ (muted' # Buses => Padded(g'))
  BY <1>2, <1>3, <1>5 DEF Serves
<1> QED BY <1>1, <1>4, <1>6, CallKeeps

\* Unmuting settles the graph before it links.
LEMMA UnmuteKeeps == ASSUME GlcInv, NEW b \in Buses, Unmute(b) PROVE GlcInv'
<1> DEFINE k == Reconcile(g)
<1>1. /\ Idle /\ g' = [k EXCEPT !.out[b] = Armed(k, b)]
      /\ lat' = lat /\ muted' = muted \ {b} /\ job' = job
  BY DEF Unmute, Call
<1>2. Wired(g) /\ Reports /\ DOMAIN g.reported = Hosts
  BY <1>1, AtCall
<1>3. Serves(g, g') /\ Switched(g') /\ Padded(g')
  BY <1>1, <1>2, ArmOneServes
<1>4. muted' \subseteq Buses
  BY <1>1 DEF GlcInv
<1>5. Wired(g') /\ g'.reported = g.reported
  BY <1>3 DEF Serves
<1> HIDE DEF k
<1> QED BY <1>1, <1>3, <1>4, <1>5, CallKeeps

\* The end of an FX job.
LEMMA RearmKeeps == ASSUME GlcInv, NEW b \in Buses, Rearm(b) PROVE GlcInv'
<1>1. Idle /\ g' = ArmTrack(g, b) /\ lat' = lat /\ muted' = muted /\ job' = job
  BY DEF Rearm, Call
<1>2. Wired(g) /\ Switched(g) /\ Reports /\ DOMAIN g.reported = Hosts
      /\ (muted # Buses => Padded(g))
  BY <1>1, AtCall
<1>3. Serves(g, g')
  BY <1>1, <1>2, ArmTrackServes
<1>4. Wired(g') /\ Switched(g') /\ g'.reported = g.reported /\ (muted' # Buses => Padded(g'))
  BY <1>1, <1>2, <1>3 DEF Serves
<1> QED BY <1>1, <1>4, CallKeeps DEF GlcInv

\* The idle tick.
LEMMA TickKeeps == ASSUME GlcInv, Tick PROVE GlcInv'
<1>1. Idle /\ g' = Heal(g) /\ lat' = lat /\ muted' = muted /\ job' = job
  BY DEF Tick, Call
<1>2. Wired(g) /\ Switched(g) /\ Reports /\ DOMAIN g.reported = Hosts
      /\ (muted # Buses => Padded(g))
  BY <1>1, AtCall
<1>3. Serves(g, g')
  BY <1>1, <1>2, HealServes
<1>4. Wired(g') /\ Switched(g') /\ g'.reported = g.reported /\ (muted' # Buses => Padded(g'))
  BY <1>1, <1>2, <1>3 DEF Serves
<1> QED BY <1>1, <1>4, CallKeeps DEF GlcInv

\* The hosts that are left are padded by the slowest of them.
LEMMA RemoveHostKeeps == ASSUME GlcInv, NEW b \in Buses, RemoveHost(b) PROVE GlcInv'
<1> DEFINE k == [g EXCEPT !.out[b] = {}, !.reported = Unless(@, {b}),
                          !.targets = Unless(@, {b}), !.delay[b] = 0]
           r == PeerPads(k)
           s == Stored(k, r)
<1>1. /\ Idle /\ b \in Hosts /\ g' = Pushed(s, s.targets)
      /\ lat' = Unless(lat, {b}) /\ muted' = muted /\ job' = job
  BY DEF RemoveHost, Call, Wet, ApplyAllDelays, RefreshPeerPads
<1>2. /\ Wired(g) /\ Switched(g) /\ Reports /\ DOMAIN g.reported = Hosts
      /\ \A c \in Hosts : g.reported[c] = lat[c]
  BY <1>1, AtCall
<1>3. /\ Wired(k) /\ Switched(k) /\ DOMAIN k.reported = Hosts \ {b}
      /\ \A c \in Hosts \ {b} : k.reported[c] = lat[c]
  BY <1>2 DEF Wired, Switched, Shape, Unless
<1>4. DOMAIN r = DOMAIN k.reported /\ (k.disabled => InStep(r, k, DOMAIN k.reported))
  BY PeersRight DEF PeerPads
<1> HIDE DEF k, r
<1>5. /\ Shape(s) /\ s = [k EXCEPT !.targets = s.targets]
      /\ DOMAIN r \subseteq DOMAIN s.targets
      /\ \A c \in DOMAIN r : s.targets[c] = r[c]
  BY <1>3, StoredKeeps DEF Wired
<1> HIDE DEF s
<1>6. /\ s.out = k.out /\ s.node = k.node /\ s.desired = k.desired
      /\ s.disabled = k.disabled /\ s.reported = k.reported
  BY <1>3, <1>5 DEF Wired, Shape
<1>7. /\ Shape(g') /\ g' = [s EXCEPT !.delay = g'.delay]
  BY <1>1, <1>2, <1>5, PushedKeeps
<1>8. /\ g'.out = k.out /\ g'.node = k.node /\ g'.desired = k.desired
      /\ g'.disabled = k.disabled /\ g'.reported = k.reported
  BY <1>5, <1>6, <1>7 DEF Shape
<1>9. s.disabled => \A c \in Hosts \cap DOMAIN s.targets : g'.delay[c] = s.targets[c]
                    /\ c \in DOMAIN g'.delay
  BY <1>1, <1>2, <1>5 DEF Pushed, Shape, Reports
<1>10. k.disabled => InStep(g'.delay, k, Hosts \ {b})
  BY <1>3, <1>4, <1>5, <1>6, <1>9 DEF InStep
<1>11. k.disabled => InStep(g'.delay, g', Hosts \ {b})
  BY <1>8, <1>10, SameReports
<1>12. Hosts' = Hosts \ {b} /\ \A c \in Hosts' : lat'[c] = lat[c]
  BY <1>1 DEF Hosts, Unless
<1>13. Wired(g') /\ Switched(g')
  BY <1>3, <1>7, <1>8 DEF Wired, Switched
<1>14. lat' \in [Hosts' -> 0 .. MaxLat] /\ Hosts' \subseteq Buses
  BY <1>1, <1>2, <1>12 DEF Reports, Unless
<1>15. DOMAIN g'.reported = Hosts' /\ \A c \in Hosts' : g'.reported[c] = lat'[c]
  BY <1>3, <1>8, <1>12
<1>16. Padded(g)'
  BY <1>8, <1>11, <1>12 DEF Padded
<1>17. job' = [c \in Buses |-> Done] /\ muted' \subseteq Buses
  BY <1>1 DEF Idle, GlcInv, Threads
<1> QED BY <1>13, <1>14, <1>15, <1>16, <1>17, AtRest

\* A job that starts hosts leaves their tables to the host threads.
LEMMA EnsureKeeps ==
    ASSUME GlcInv, NEW S \in SUBSET Buses, NEW l \in [S -> Lats], EnsureHosts(S, l)
    PROVE  GlcInv'
<1>1. /\ Idle /\ lat' = Over(l, lat) /\ g' = g /\ muted' = muted
      /\ job' = [c \in Buses |-> IF c \in S THEN [pc |-> "report", read |-> <<>>] ELSE Done]
  BY DEF EnsureHosts, Call
<1>2. /\ Reports /\ DOMAIN g.reported = Hosts /\ \A c \in Hosts : g.reported[c] = lat[c]
      /\ muted # Buses => Padded(g)
  BY <1>1, AtCall
<1>3. /\ Hosts' = Hosts \cup S
      /\ \A c \in S : lat'[c] = l[c]
      /\ \A c \in Hosts \ S : lat'[c] = lat[c]
  BY <1>1 DEF Hosts, Over
<1>4. lat' \in [Hosts' -> 0 .. MaxLat] /\ Hosts' \subseteq Buses
  <2>1. \A c \in S : l[c] \in 0 .. MaxLat
    BY ConstantsAssumption
  <2>2. lat' = [c \in Hosts' |-> lat'[c]]
    BY <1>1 DEF Hosts, Over
  <2>3. \A c \in Hosts' : lat'[c] \in 0 .. MaxLat
    BY <1>2, <1>3, <2>1 DEF Reports
  <2>4. Hosts' \subseteq Buses
    BY <1>2, <1>3 DEF Reports
  <2> QED BY <2>2, <2>3, <2>4
<1>5. \A c \in Buses : /\ c \in S => job'[c].pc = "report"
                       /\ c \notin S => job'[c] = Done /\ job'[c].pc = "done"
  BY <1>1 DEF Done
<1>6. Reports'
  BY <1>1, <1>2, <1>3, <1>4, <1>5 DEF Reports
<1>7. Threads'
  BY <1>1, <1>3, <1>5 DEF Threads, Steps
<1>8. Carried'
  BY <1>5 DEF Carried, Carries
<1>9. Rested'
  <2>1. CASE S = {}
    <3>1. lat' = lat
      BY <1>1, <1>2, <1>3, <1>4, <2>1 DEF Reports
    <3> QED BY <1>1, <1>2, <3>1 DEF Rested, Padded, Hosts
  <2>2. CASE S # {}
    BY <1>5, <2>2 DEF Rested, Idle, Done
  <2> QED BY <2>1, <2>2
<1> QED BY <1>1, <1>6, <1>7, <1>8, <1>9 DEF GlcInv

\* The end of the call that started the hosts.  Many of them: every track is
\* armed, which settles the pads.  One of them: it was alone, and has pushed
\* its pad and those of its peers by itself, so that a muted track may return.
LEMMA LinkedKeeps == ASSUME GlcInv, Linked PROVE GlcInv'
<1> DEFINE started == {b \in Buses : job[b].pc = "ready"}
<1>1. /\ started # {} /\ \A b \in Buses : job[b].pc \in {"done", "ready"}
      /\ g' = IF Cardinality(started) = 1 THEN ArmTrack(g, CHOOSE b \in started : TRUE)
              ELSE ArmAll(g)
      /\ job' = [b \in Buses |-> Done] /\ lat' = lat /\ muted' = muted
  BY DEF Linked
<1>2. Wired(g) /\ Switched(g) /\ Reports /\ Threads /\ muted \subseteq Buses
  BY DEF GlcInv
<1>3. DOMAIN g.reported = Hosts /\ \A b \in Hosts : g.reported[b] = lat[b]
  BY <1>1, <1>2, AllReported
<1>4. Serves(g, g') /\ Switched(g') /\ (muted # Buses => Padded(g'))
  <2>1. CASE Cardinality(started) = 1
    <3> DEFINE b == CHOOSE x \in started : TRUE
    <3>1. g' = ArmTrack(g, b) /\ b \in started
      BY <1>1, <2>1
    <3>2. \A c \in started : c = b
      <4>1. IsFiniteSet(started)
        BY ConstantsAssumption, FS_Subset
      <4>2. PICK z : started = {z}
        <5> HIDE DEF started
        <5> QED BY <2>1, <4>1, FS_Singleton
      <4> QED BY <3>1, <4>2
    <3>3. b \in Buses /\ job[b].pc = "ready"
      BY <3>1
    <3>4. \A c \in Buses \ {b} : job[c] = Done
      BY <1>1, <1>2, <3>2 DEF Threads, Steps
    <3> HIDE DEF b
    <3>5. Padded(g)
      BY <3>3, <3>4 DEF GlcInv, Carried, Carries, Alone, Padded
    <3>6. Serves(g, g')
      BY <1>2, <1>3, <3>1, <3>3, ArmTrackServes
    <3> QED BY <1>2, <3>5, <3>6 DEF Serves
  <2>2. CASE Cardinality(started) # 1
    <3>1. g' = ArmAll(g)
      BY <1>1, <2>2
    <3>2. Serves(g, g') /\ (muted # Buses => Padded(g'))
      BY <1>2, <1>3, <3>1, ArmAllServes
    <3> QED BY <1>2, <3>2 DEF Serves
  <2> QED BY <2>1, <2>2
<1>5. Wired(g') /\ g'.reported = g.reported
  BY <1>4 DEF Serves
<1>6. Padded(g)' <=> Padded(g')
  BY <1>1 DEF Padded, Hosts
<1>7. lat' \in [Hosts' -> 0 .. MaxLat] /\ Hosts' \subseteq Buses /\ Hosts' = Hosts
  BY <1>1, <1>2 DEF Reports, Hosts
<1> HIDE DEF started
<1> QED BY <1>1, <1>2, <1>3, <1>4, <1>5, <1>6, <1>7, AtRest
-----------------------------------------------------------------------------
(* publish_bus_latency *)

\* A step of a host thread that writes the latency of its own rack or none,
\* touches no node and no link, and carries the pads on if it is alone.
LEMMA ThreadKeeps ==
    ASSUME GlcInv, NEW b \in Buses, job[b].pc \in Steps, lat' = lat, muted' = muted,
           NEW pc \in Steps \ {"report"}, NEW read, Goes(b, pc, read),
           Wired(g'), g'.disabled = g.disabled, g'.desired = g.desired,
           DOMAIN g'.node = DOMAIN g.node,
           DOMAIN g'.reported = DOMAIN g.reported \cup {b}, g'.reported[b] = lat[b],
           \A c \in DOMAIN g.reported \ {b} : g'.reported[c] = g.reported[c],
           g.disabled /\ Alone(b) => Carries(pc, read, g')
    PROVE  GlcInv'
<1>1. /\ Wired(g) /\ Switched(g) /\ muted \subseteq Buses
      /\ Reports /\ Threads /\ Carried
  BY DEF GlcInv
<1>2. job' = [job EXCEPT ![b] = [pc |-> pc, read |-> read]]
  BY DEF Goes
<1>3. /\ job' = [c \in Buses |-> job'[c]]
      /\ job'[b].pc = pc /\ job'[b].read = read
      /\ \A c \in Buses \ {b} : job'[c] = job[c]
  BY <1>1, <1>2 DEF Threads
<1>4. b \in Hosts /\ "done" \notin Steps /\ job'[b] # Done
  BY <1>1, <1>3 DEF Threads, Steps, Done
<1>5. Hosts' = Hosts
  BY DEF Hosts
<1>6. Reports'
  <2>1. \A c \in Hosts : job'[c].pc # "report" =>
          c \in DOMAIN g'.reported /\ g'.reported[c] = lat[c]
    BY <1>1, <1>3, <1>4 DEF Reports
  <2>2. DOMAIN g'.reported \subseteq Hosts
    BY <1>1, <1>4 DEF Reports
  <2> QED BY <1>1, <1>5, <2>1, <2>2 DEF Reports
<1>7. Threads'
  <2>1. \A c \in Buses : job'[c] = Done \/ (job'[c].pc \in Steps /\ c \in Hosts)
    BY <1>1, <1>3, <1>4 DEF Threads
  <2> QED BY <1>3, <1>5, <2>1 DEF Threads
<1>8. Carried'
  <2> SUFFICES ASSUME g'.disabled, NEW c \in Buses, Alone(c)'
               PROVE  Carries(job[c].pc, job[c].read, g)'
    BY DEF Carried
  <2>1. c = b
    BY <1>4 DEF Alone
  <2>2. Alone(b)
    BY <1>3, <2>1 DEF Alone
  <2>3. Carries(pc, read, g')
    BY <2>2
  <2> QED BY <1>3, <1>5, <2>1, <2>3 DEF Carries
<1>9. Rested'
  BY <1>4 DEF Rested, Idle
<1>10. Wired(g)' /\ Switched(g)'
  BY <1>1 DEF Switched, Wired, Shape
<1> QED BY <1>1, <1>6, <1>7, <1>8, <1>9, <1>10 DEF GlcInv

\* A thread that has reported and now changes neither nodes, links nor reports.
LEMMA QuietKeeps ==
    ASSUME GlcInv, NEW b \in Buses, job[b].pc \in Steps \ {"report"},
           lat' = lat, muted' = muted,
           NEW pc \in Steps \ {"report"}, NEW read, Goes(b, pc, read),
           Shape(g'), g'.disabled = g.disabled, g'.desired = g.desired,
           DOMAIN g'.node = DOMAIN g.node, g'.out = g.out, g'.reported = g.reported,
           g.disabled /\ Alone(b) => Carries(pc, read, g')
    PROVE  GlcInv'
<1>1. b \in DOMAIN g.reported /\ g.reported[b] = lat[b]
  <2>1. b \in Hosts
    BY DEF GlcInv, Threads, Done, Steps
  <2> QED BY <2>1 DEF GlcInv, Reports
<1>2. Wired(g')
  BY DEF GlcInv, Wired
<1> QED BY <1>1, <1>2, ThreadKeeps

\* Every step of a host thread.
LEMMA PublishKeeps == ASSUME GlcInv, NEW b \in Buses, Publish(b) PROVE GlcInv'
<1>1. /\ Wired(g) /\ Shape(g) /\ Reports /\ lat' = lat /\ muted' = muted
      /\ g.disabled /\ Alone(b) => Carries(job[b].pc, job[b].read, g)
  BY DEF GlcInv, Wired, Carried, Publish
<1>2. CASE Report(b)
  <2>1. /\ job[b].pc = "report" /\ Goes(b, "snap", <<>>)
        /\ g' = [g EXCEPT !.reported = Over([c \in {b} |-> lat[c]], @)]
    BY <1>2 DEF Report
  <2>2. lat[b] \in 0 .. MaxLat /\ b \in Hosts
    BY <2>1 DEF GlcInv, Reports, Threads, Done
  <2>3. /\ DOMAIN g'.reported = DOMAIN g.reported \cup {b} /\ g'.reported[b] = lat[b]
        /\ \A c \in DOMAIN g.reported \ {b} : g'.reported[c] = g.reported[c]
        /\ g'.disabled = g.disabled /\ g'.desired = g.desired /\ g'.node = g.node
        /\ g'.out = g.out /\ DOMAIN g' = DOMAIN g
    BY <1>1, <2>1 DEF Shape, Over
  <2>4. Wired(g')
    <3>1. \A c \in DOMAIN g'.reported : g'.reported[c] \in 0 .. MaxLat
      BY <1>1, <2>2, <2>3 DEF Shape
    <3> QED BY <1>1, <2>3, <3>1 DEF Wired, Shape
  <2>5. Carries("snap", <<>>, g')
    BY DEF Carries
  <2> QED BY <1>1, <2>1, <2>3, <2>4, <2>5, ThreadKeeps DEF Steps
<1>3. CASE SnapReported(b)
  <2>1. job[b].pc = "snap" /\ Goes(b, "store", PeerPads(g)) /\ g' = g
    BY <1>3 DEF SnapReported
  <2>2. Hosts \subseteq DOMAIN g.reported \/ ~Alone(b)
    BY <2>1 DEF GlcInv, Reports, Alone, Done
  <2>3. g.disabled /\ Alone(b) => Carries("store", PeerPads(g), g')
    BY <2>1, <2>2, PeersRight DEF Carries, InStep
  <2> QED BY <1>1, <2>1, <2>3, QuietKeeps DEF Steps
<1>4. CASE StoreTargets(b)
  <2>1. job[b].pc = "store" /\ g' = Stored(g, job[b].read) /\ Goes(b, "take", <<>>)
    BY <1>4 DEF StoreTargets
  <2>2. /\ Shape(g') /\ g' = [g EXCEPT !.targets = g'.targets]
        /\ DOMAIN g'.targets = DOMAIN g.targets \cup DOMAIN job[b].read
        /\ \A c \in DOMAIN job[b].read : g'.targets[c] = job[b].read[c]
    BY <1>1, <2>1, StoredKeeps
  <2>3. /\ g'.disabled = g.disabled /\ g'.desired = g.desired /\ g'.node = g.node
        /\ g'.out = g.out /\ g'.reported = g.reported
    BY <1>1, <2>2 DEF Shape
  <2>4. g.disabled /\ Alone(b) => Carries("take", <<>>, g')
    <3>1. g.disabled /\ Alone(b) => InStep(g'.targets, g, Hosts)
      BY <1>1, <2>1, <2>2 DEF Carries, InStep
    <3> QED BY <2>3, <3>1, SameReports DEF Carries
  <2> QED BY <1>1, <2>1, <2>2, <2>3, <2>4, QuietKeeps DEF Steps
<1>5. CASE TakeTargets(b)
  <2>1. job[b].pc = "take" /\ Goes(b, "push", g.targets) /\ g' = g
    BY <1>5 DEF TakeTargets
  <2>2. g.disabled /\ Alone(b) => Carries("push", g.targets, g')
    BY <1>1, <2>1 DEF Carries
  <2> QED BY <1>1, <2>1, <2>2, QuietKeeps DEF Steps
<1>6. CASE PushDelays(b)
  <2>1. job[b].pc = "push" /\ g' = Pushed(g, job[b].read) /\ Goes(b, "plan", <<>>)
    BY <1>6 DEF PushDelays
  <2>2. /\ Shape(g') /\ g' = [g EXCEPT !.delay = g'.delay]
        /\ g.disabled /\ InStep(job[b].read, g, Hosts) => InStep(g'.delay, g', Hosts)
    BY <1>1, <2>1, PushedKeeps
  <2>3. /\ g'.disabled = g.disabled /\ g'.desired = g.desired /\ g'.node = g.node
        /\ g'.out = g.out /\ g'.reported = g.reported
    BY <1>1, <2>2 DEF Shape
  <2>4. g.disabled /\ Alone(b) => Carries("plan", <<>>, g')
    BY <1>1, <2>1, <2>2 DEF Carries
  <2> QED BY <1>1, <2>1, <2>2, <2>3, <2>4, QuietKeeps DEF Steps
<1>7. CASE PlanCached(b)
  <2> DEFINE plan == IF g.disabled THEN Zero ELSE ComputeGlc(g.reported, g.topo)
  <2>1. job[b].pc = "plan" /\ Goes(b, "publish", plan) /\ g' = g
    BY <1>7 DEF PlanCached
  <2>2. g.disabled /\ Alone(b) => Carries("publish", plan, g')
    BY <1>1, <2>1 DEF Carries
  <2> HIDE DEF plan
  <2> QED BY <1>1, <2>1, <2>2, QuietKeeps DEF Steps
<1>8. CASE PublishPlan(b)
  <2>1. /\ job[b].pc = "publish" /\ g' = [g EXCEPT !.pads = job[b].read]
        /\ Goes(b, "live", job[b].read)
    BY <1>8 DEF PublishPlan
  <2>2. /\ Shape(g')
        /\ g'.disabled = g.disabled /\ g'.desired = g.desired /\ g'.node = g.node
        /\ g'.out = g.out /\ g'.reported = g.reported /\ g'.delay = g.delay
    BY <1>1, <2>1 DEF Shape
  <2>3. g.disabled /\ Alone(b) => Carries("live", job[b].read, g')
    BY <1>1, <2>1, <2>2, SameReports DEF Carries
  <2> QED BY <1>1, <2>1, <2>2, <2>3, QuietKeeps DEF Steps
<1>9. CASE ApplyToLiveNodes(b)
  <2>1. /\ job[b].pc = "live" /\ Goes(b, "ready", <<>>)
        /\ g' = [g EXCEPT !.node = [n \in DOMAIN @ |-> DelayLine(job[b].read[n])]]
    BY <1>9 DEF ApplyToLiveNodes
  <2>2. /\ Shape(g')
        /\ g'.disabled = g.disabled /\ g'.desired = g.desired
        /\ DOMAIN g'.node = DOMAIN g.node
        /\ g'.out = g.out /\ g'.reported = g.reported /\ g'.delay = g.delay
    BY <1>1, <2>1 DEF Shape
  <2>3. g.disabled /\ Alone(b) => Carries("ready", <<>>, g')
    BY <1>1, <2>1, <2>2, SameReports DEF Carries
  <2> QED BY <1>1, <2>1, <2>2, <2>3, QuietKeeps DEF Steps
<1> QED BY <1>2, <1>3, <1>4, <1>5, <1>6, <1>7, <1>8, <1>9 DEF Publish
-----------------------------------------------------------------------------
(* The tables, the threads and the graph agree *)

\* A session starts Direct, without hosts, and linked.
LEMMA GlcInit == Init => GlcInv
<1> SUFFICES ASSUME Init PROVE GlcInv
  OBVIOUS
<1>1. PICK r \in Routings :
        /\ r.off
        /\ g = [desired |-> r, disabled |-> TRUE, topo |-> NoTopo, pads |-> Zero,
                reported |-> <<>>, targets |-> <<>>, delay |-> Zero, node |-> <<>>,
                out |-> [b \in Buses |-> r.egress[b] \cap {Master}]]
  BY DEF Init
<1>2. lat = <<>> /\ muted = {} /\ job = [b \in Buses |-> Done]
  BY DEF Init
<1>3. r.off = TRUE /\ Master # Glc
  BY <1>1, ConstantsAssumption DEF Master, Glc
<1>4. Wired(g) /\ Switched(g)
  <2>1. /\ g.desired = r /\ g.disabled = TRUE /\ g.reported = <<>> /\ g.node = <<>>
        /\ g.out = [b \in Buses |-> r.egress[b] \cap {Master}]
        /\ DOMAIN g = {"desired", "disabled", "topo", "pads", "reported", "targets",
                       "delay", "node", "out"}
    BY <1>1
  <2>2. /\ g.out \in [Buses -> SUBSET {Master, Glc}]
        /\ \A b \in Buses : Glc \notin g.out[b]
    BY <1>3, <2>1
  <2>3. DOMAIN g.reported = {} /\ DOMAIN g.node = {}
    BY <2>1
  <2> QED BY <1>3, <2>1, <2>2, <2>3 DEF Wired, Shape, Switched
<1>5. Hosts = {} /\ DOMAIN g.reported = {}
  BY <1>1, <1>2 DEF Hosts
<1>6. Reports
  BY <1>2, <1>5 DEF Reports, Hosts
<1>7. Threads
  BY <1>2 DEF Threads
<1>8. Carried /\ Rested
  BY <1>5 DEF Carried, Carries, Rested, Padded, InStep
<1> QED BY <1>2, <1>4, <1>6, <1>7, <1>8 DEF GlcInv

\* Every call of the engine and every step of a host thread.
LEMMA GlcNext == GlcInv /\ [Next]_vars => GlcInv'
<1> SUFFICES ASSUME GlcInv, [Next]_vars PROVE GlcInv'
  OBVIOUS
<1>1. ASSUME NEW r \in Routings, Route(r) PROVE GlcInv'
  BY <1>1, RouteKeeps
<1>2. ASSUME NEW b \in Buses, Mute(b) \/ Unmute(b) \/ RemoveHost(b) \/ Rearm(b) PROVE GlcInv'
  BY <1>2, MuteKeeps, UnmuteKeeps, RemoveHostKeeps, RearmKeeps
<1>3. CASE Tick
  BY <1>3, TickKeeps
<1>4. ASSUME NEW b \in Buses, NEW x \in Lats, EnsureHosts({b}, [c \in {b} |-> x]) PROVE GlcInv'
  <2>1. {b} \in SUBSET Buses /\ [c \in {b} |-> x] \in [{b} -> Lats]
    OBVIOUS
  <2> QED BY <1>4, <2>1, EnsureKeeps
<1>5. ASSUME NEW l \in [Buses -> Lats], EnsureHosts(Buses, l) PROVE GlcInv'
  BY <1>5, EnsureKeeps
<1>6. CASE Linked
  BY <1>6, LinkedKeeps
<1>7. ASSUME NEW b \in Buses, Publish(b) PROVE GlcInv'
  BY <1>7, PublishKeeps
<1>8. CASE UNCHANGED vars
  BY <1>8 DEF vars, GlcInv, Wired, Shape, Switched, Reports, Hosts, Threads, Carried, Alone,
              Carries, Rested, Idle, Padded
<1> QED BY <1>1, <1>2, <1>3, <1>4, <1>5, <1>6, <1>7, <1>8 DEF Next

\* The tables, the threads and the graph agree in every state.
THEOREM GlcInvariant == Spec => []GlcInv
<1> QED BY GlcInit, GlcNext, PTL DEF Spec

\* Whatever the routing, however the host threads interleave: Direct leaves no
\* delay node and no fader is ever linked to a node that has been stopped.
THEOREM NeverStray == Spec => []NoStrayNode
<1>1. GlcInv => NoStrayNode
  BY DEF GlcInv, Wired, Switched, NoStrayNode
<1> QED BY <1>1, GlcInvariant, PTL

\* With Master Direct, when the engine is at rest, all open stems with effects
\* leave their hosts together.
THEOREM PeersLeaveTogether == Spec => []PeersInStep
<1>1. GlcInv => PeersInStep
  <2> SUFFICES ASSUME GlcInv, Idle, g.disabled, NEW b \in Hosts \ muted, NEW c \in Hosts \ muted
               PROVE  lat[b] + g.delay[b] = lat[c] + g.delay[c]
    BY DEF PeersInStep
  <2>1. \A x \in Hosts : g.reported[x] = lat[x] /\ lat[x] \in 0 .. MaxLat
    BY AtCall DEF Reports
  <2>2. InStep(g.delay, g, Hosts)
    BY DEF GlcInv, Rested, Padded, Reports
  <2>3. Most(g) \in Nat /\ MaxLat \in Nat
    BY MostIsNat, ConstantsAssumption DEF GlcInv, Wired
  <2>4. \A x \in Hosts : g.delay[x] = Most(g) - lat[x] /\ lat[x] \in Nat
    BY <2>1, <2>2, <2>3 DEF InStep
  <2> QED BY <2>3, <2>4
<1> QED BY <1>1, GlcInvariant, PTL

\* The idle tick leaves no open stem that feeds Master without a link, unless
\* reconcile refuses the routing for a cycle.
THEOREM TickReconnectsAlways == Spec => TickReconnects
<1> DEFINE A == Tick /\ (g.desired.off \/ ~Cyclic(g.desired)) =>
                  \A b \in Buses \ muted : Feeding(g, b) => g'.out[b] # {}
<1>1. GlcInv /\ [Next]_vars => [A]_vars
  <2> SUFFICES ASSUME GlcInv, Tick, g.desired.off \/ ~Cyclic(g.desired)
               PROVE  \A b \in Buses \ muted : Feeding(g, b) => g'.out[b] # {}
    OBVIOUS
  <2>1. Idle /\ g' = Heal(g)
    BY DEF Tick, Call
  <2>2. Wired(g) /\ Reports /\ DOMAIN g.reported = Hosts
    BY <2>1, AtCall
  <2> QED BY <2>1, <2>2, HealServes
<1> QED BY <1>1, GlcInvariant, PTL DEF TickReconnects, Spec
-----------------------------------------------------------------------------
(* The ranges of the tables *)

\* What the tables may hold; the routing a thread plans with has no cycle.
Ranged(h) ==
    /\ h.reported \in Partial(Lats) /\ h.targets \in Partial(Pads) /\ h.node \in Partial(Pads)
    /\ h.delay \in [Buses -> Pads] /\ h.pads \in [Buses -> Pads]
    /\ h.topo \in Routings \cup {NoTopo} /\ ~Cyclic(h.topo)

\* ... and what the host threads may have read
ReadsRanged ==
    \A b \in Buses : /\ job[b].pc \in {"store", "push"} => job[b].read \in Partial(Pads)
                     /\ job[b].pc \in {"publish", "live"} => job[b].read \in [Buses -> Pads]

RangeInv == /\ Ranged(g) /\ ReadsRanged
            /\ lat \in Partial(Lats) /\ ops \in 0 .. MaxOps

\* A partial function, by its values.
LEMMA PartialIs ==
    ASSUME NEW V, NEW f
    PROVE  f \in Partial(V) <=> /\ DOMAIN f \subseteq Buses /\ f = [b \in DOMAIN f |-> f[b]]
                                /\ \A b \in DOMAIN f : f[b] \in V
  BY DEF Partial

\* ... and a function on some of the buses is one.
LEMMA PartialMade ==
    ASSUME NEW V, NEW S \in SUBSET Buses, NEW f \in [S -> V]
    PROVE  f \in Partial(V)
  BY DEF Partial

\* A pad is zero or more, and reaches over the slowest rack; a delay line is no
\* longer than the pad.
LEMMA PadsReach ==
    /\ 0 \in Pads /\ (Buses # {} => 0 .. MaxLat \subseteq Pads)
    /\ \A p \in Pads : DelayLine(p) \in Pads
    /\ Zero \in [Buses -> Pads]
<1> DEFINE n == Cardinality(Buses)
<1>1. n \in Nat /\ MaxLat \in Nat /\ Quantum \in Nat /\ Hop \in Nat /\ n * Hop \in Nat
      /\ Pads = 0 .. n * Hop
  BY HopIsNat, ConstantsAssumption
<1>2. MaxLat <= Hop
  BY <1>1 DEF Hop, STAGE_QUANTA
<1>3. Buses # {} => n >= 1
  BY <1>1, FS_EmptySet, ConstantsAssumption
<1>4. \A i, k \in Nat : i >= 1 => k <= i * k
  OBVIOUS
<1> HIDE DEF n
<1>5. Buses # {} => MaxLat <= n * Hop
  <2>1. n >= 1 => Hop <= n * Hop
    BY <1>1, <1>4
  <2> QED BY <1>1, <1>2, <1>3, <2>1
<1>6. \A p \in Pads : DelayLine(p) \in Pads
  BY <1>1 DEF DelayLine, GLC_NODE_QUANTA
<1> QED BY <1>1, <1>5, <1>6 DEF Zero

\* An empty topology has no cycle.
LEMMA NoTopoAcyclic == ~Cyclic(NoTopo)
<1> DEFINE B == InSync(NoTopo)
           left == KahnLeft(NoTopo)
<1>1. left = [S \in SUBSET B |->
                IF KahnFree(NoTopo, S) = {} THEN S ELSE left[S \ KahnFree(NoTopo, S)]]
  BY KahnStep, InSyncFinite
<1>2. \A S \in SUBSET B : KahnFree(NoTopo, S) = S
  BY DEF KahnFree, Preds, NoTopo, InSync
<1>3. Cyclic(NoTopo) <=> left[B] # {}
  BY DEF Cyclic, KahnLeft, KahnFree
<1> HIDE DEF left, B
<1>4. left[{}] = {} /\ (B # {} => left[B] = left[B \ B]) /\ B \ B = {}
  BY <1>1, <1>2
<1> QED BY <1>3, <1>4

\* Stopping nodes takes their lines away.
LEMMA StopRanged ==
    ASSUME NEW h, Shape(h), Ranged(h), NEW S
    PROVE  Ranged(Stop(h, S))
<1> DEFINE x == Stop(h, S)
<1>1. /\ x.node = Unless(h.node, S) /\ x.reported = h.reported /\ x.targets = h.targets
      /\ x.delay = h.delay /\ x.pads = h.pads /\ x.topo = h.topo
  BY DEF Stop, Shape
<1>2. DOMAIN h.node \subseteq Buses /\ \A b \in DOMAIN h.node : h.node[b] \in Pads
  BY PartialIs DEF Ranged
<1>3. Unless(h.node, S) \in [DOMAIN h.node \ S -> Pads] /\ DOMAIN h.node \ S \in SUBSET Buses
  BY <1>2 DEF Unless
<1>4. x.node \in Partial(Pads)
  BY <1>1, <1>3, PartialMade
<1> HIDE DEF x
<1> QED BY <1>1, <1>4 DEF Ranged, x

\* A node that is started gets the line of its pad.
LEMMA SyncRanged ==
    ASSUME NEW h, Shape(h), Ranged(h)
    PROVE  Ranged(SyncNodes(h))
<1> DEFINE want == {b \in Buses : h.pads[b] > 0}
           s == Stop(h, Buses \ want)
           f == [b \in want |-> DelayLine(h.pads[b])]
           x == [s EXCEPT !.node = f]
<1>1. SyncNodes(h) = x
  BY DEF SyncNodes
<1>2. Ranged(s)
  BY StopRanged
<1>3. Shape(s)
  BY StopKeeps
<1>4. want \in SUBSET Buses /\ f \in [want -> Pads]
  BY PadsReach DEF Ranged
<1> HIDE DEF want, s, f
<1>5. f \in Partial(Pads)
  BY <1>4, PartialMade
<1>6. /\ x.node = f /\ x.reported = s.reported /\ x.targets = s.targets
      /\ x.delay = s.delay /\ x.pads = s.pads /\ x.topo = s.topo
  BY <1>3 DEF Shape
<1> HIDE DEF x
<1> QED BY <1>1, <1>2, <1>5, <1>6 DEF Ranged

\* A link is in no table.
LEMMA OutRanged ==
    ASSUME NEW h, Shape(h), Ranged(h), NEW f
    PROVE  Ranged([h EXCEPT !.out = f])
<1> DEFINE x == [h EXCEPT !.out = f]
<1>1. /\ x.node = h.node /\ x.reported = h.reported /\ x.targets = h.targets
      /\ x.delay = h.delay /\ x.pads = h.pads /\ x.topo = h.topo
  BY DEF Shape
<1> HIDE DEF x
<1> QED BY <1>1 DEF Ranged, x

\* No host is padded by more than the slowest rack.
LEMMA PeersRanged ==
    ASSUME NEW h, Shape(h), Ranged(h)
    PROVE  PeerPads(h) \in Partial(Pads)
<1> DEFINE S == {0} \cup {h.reported[b] : b \in DOMAIN h.reported}
           f == PeerPads(h)
<1>1. MaxLat \in Nat
  BY ConstantsAssumption
<1>2. /\ DOMAIN h.reported \in SUBSET Buses
      /\ \A b \in DOMAIN h.reported : h.reported[b] \in 0 .. MaxLat
  BY DEF Shape
<1>3. S \in SUBSET (0 .. MaxLat) /\ S # {}
  BY <1>1, <1>2
<1>4. Max(S) \in S /\ \A y \in S : y <= Max(S)
  <2> HIDE DEF S
  <2> QED BY <1>1, <1>3, Largest
<1>5. ASSUME NEW b \in DOMAIN h.reported PROVE Max(S) - h.reported[b] \in Pads /\ 0 \in Pads
  <2>1. h.reported[b] \in S
    OBVIOUS
  <2> HIDE DEF S
  <2>2. h.reported[b] <= Max(S) /\ Max(S) \in 0 .. MaxLat /\ h.reported[b] \in 0 .. MaxLat
    BY <1>2, <1>3, <1>4, <2>1
  <2>3. Max(S) - h.reported[b] \in 0 .. MaxLat
    BY <1>1, <2>2
  <2> QED BY <1>2, <2>3, PadsReach
<1>6. f = [b \in DOMAIN h.reported |-> IF h.disabled THEN Max(S) - h.reported[b] ELSE 0]
  BY DEF PeerPads
<1> HIDE DEF S, f
<1>7. f \in [DOMAIN h.reported -> Pads]
  BY <1>5, <1>6
<1> QED BY <1>2, <1>7, PartialMade DEF f

\* Writing a snapshot to the table of targets.
LEMMA StoredRanged ==
    ASSUME NEW h, Shape(h), Ranged(h), NEW read \in Partial(Pads)
    PROVE  Ranged(Stored(h, read))
<1> DEFINE x == Stored(h, read)
           t == h.targets
<1>1. /\ x.targets = Over(read, t) /\ x.reported = h.reported /\ x.node = h.node
      /\ x.delay = h.delay /\ x.pads = h.pads /\ x.topo = h.topo
  BY DEF Stored, Shape
<1>2. /\ DOMAIN read \subseteq Buses /\ \A b \in DOMAIN read : read[b] \in Pads
      /\ DOMAIN t \subseteq Buses /\ \A b \in DOMAIN t : t[b] \in Pads
  BY PartialIs DEF Ranged
<1>3. Over(read, t) \in [DOMAIN read \cup DOMAIN t -> Pads]
      /\ DOMAIN read \cup DOMAIN t \in SUBSET Buses
  BY <1>2 DEF Over
<1>4. x.targets \in Partial(Pads)
  BY <1>1, <1>3, PartialMade
<1> HIDE DEF x
<1> QED BY <1>1, <1>4 DEF Ranged, x

\* ... and from there to the delay lines.
LEMMA PushedRanged ==
    ASSUME NEW h, Shape(h), Ranged(h), NEW read \in Partial(Pads)
    PROVE  Ranged(Pushed(h, read))
<1> DEFINE x == Pushed(h, read)
<1>1. /\ x.delay = [b \in Buses |->
                      IF b \in Hosts \cap DOMAIN read
                      THEN (IF h.disabled THEN read[b] ELSE 0) ELSE h.delay[b]]
      /\ x.targets = h.targets /\ x.reported = h.reported /\ x.node = h.node
      /\ x.pads = h.pads /\ x.topo = h.topo
  BY DEF Pushed, Shape
<1>2. \A b \in DOMAIN read : read[b] \in Pads
  BY PartialIs
<1>3. x.delay \in [Buses -> Pads]
  BY <1>1, <1>2, PadsReach DEF Ranged
<1> HIDE DEF x
<1> QED BY <1>1, <1>3 DEF Ranged, x

\* Both at once.
LEMMA PeersKeepRanges ==
    ASSUME NEW h, Shape(h), Ranged(h)
    PROVE  Ranged(ApplyAllDelays(RefreshPeerPads(h)))
<1> DEFINE r == PeerPads(h)
           s == Stored(h, r)
<1>1. ApplyAllDelays(RefreshPeerPads(h)) = Pushed(s, s.targets)
  BY DEF ApplyAllDelays, RefreshPeerPads
<1>2. r \in Partial(Pads)
  BY PeersRanged
<1> HIDE DEF r
<1>3. Shape(s)
  BY StoredKeeps
<1>4. Ranged(s)
  BY <1>2, StoredRanged
<1> HIDE DEF s
<1> QED BY <1>1, <1>3, <1>4, PushedRanged DEF Ranged

\* With GLC on and no cycle: the pads are the plan, and the nodes are those the
\* pads want.
Planned(h) ==
    /\ ~h.disabled /\ h.pads = ComputeGlc(h.reported, h.desired)
    /\ h.node = [b \in {c \in Buses : h.pads[c] > 0} |-> DelayLine(h.pads[b])]

\* reconcile leaves every table in its range; a routing without a cycle is
\* planned, and only the links through nodes that are no longer wanted go.
LEMMA ReconcilePlans ==
    ASSUME NEW h, Shape(h), Ranged(h), Reports, Hosts \subseteq DOMAIN h.reported
    PROVE  LET x == Reconcile(h)
           IN  /\ Ranged(x)
               /\ ~h.desired.off /\ ~Cyclic(h.desired) =>
                    /\ Planned(x)
                    /\ \A b \in Buses : Glc \in x.out[b] <=> Glc \in h.out[b] /\ x.pads[b] > 0
<1> DEFINE r == h.desired
           on == [h EXCEPT !.disabled = FALSE]
           off == [h EXCEPT !.disabled = TRUE, !.topo = NoTopo, !.pads = Zero]
           plan == [on EXCEPT !.topo = r, !.pads = ComputeGlc(h.reported, r)]
           peers(k) == ApplyAllDelays(RefreshPeerPads(k))
<1>1. CASE r.off
  <2> DEFINE t == Stop(off, Buses)
  <2>1. Reconcile(h) = peers(t)
    BY <1>1 DEF Reconcile, TeardownAllNodes
  <2>2. /\ Shape(off) /\ off.topo = NoTopo /\ off.pads = Zero
        /\ off.reported = h.reported /\ off.targets = h.targets
        /\ off.delay = h.delay /\ off.node = h.node
    BY DEF Shape
  <2> HIDE DEF off
  <2>3. Ranged(off)
    BY <2>2, PadsReach, NoTopoAcyclic DEF Ranged
  <2>4. Shape(t) /\ Ranged(t)
    <3>1. Buses \in SUBSET Buses
      OBVIOUS
    <3> QED BY <2>2, <2>3, <3>1, StopKeeps, StopRanged
  <2> HIDE DEF t
  <2> QED BY <1>1, <2>1, <2>4, PeersKeepRanges
<1>2. CASE ~r.off /\ Cyclic(r)
  <2>1. Reconcile(h) = on
    BY <1>2 DEF Reconcile
  <2>2. /\ on.topo = h.topo /\ on.pads = h.pads
        /\ on.reported = h.reported /\ on.targets = h.targets
        /\ on.delay = h.delay /\ on.node = h.node
    BY DEF Shape
  <2> HIDE DEF on
  <2>3. Ranged(on)
    BY <2>2 DEF Ranged
  <2> QED BY <1>2, <2>1, <2>3
<1>3. CASE ~r.off /\ ~Cyclic(r)
  <2> DEFINE t == SyncNodes(plan)
             x == peers(t)
             p == ComputeGlc(h.reported, r)
             want == {b \in Buses : p[b] > 0}
             u == Stop(plan, Buses \ want)
  <2>1. Reconcile(h) = x
    BY <1>3 DEF Reconcile
  <2>2. p \in [Buses -> Pads]
    <3>1. Latencies(h.reported)
      BY DEF Latencies, Shape
    <3> QED BY <1>3, <3>1, PlanPads
  <2>3. /\ Shape(plan) /\ ~plan.disabled /\ plan.topo = r /\ plan.pads = p
        /\ plan.reported = h.reported /\ plan.targets = h.targets
        /\ plan.delay = h.delay /\ plan.node = h.node
        /\ plan.out = h.out /\ plan.desired = r
    BY DEF Shape
  <2>4. r \in Routings
    BY DEF Shape
  <2> HIDE DEF plan, p
  <2>5. Ranged(plan)
    BY <1>3, <2>2, <2>3, <2>4 DEF Ranged
  <2>6. /\ Shape(t) /\ Ranged(t) /\ ~t.disabled
        /\ t.desired = r /\ t.reported = h.reported /\ t.pads = p
    <3> HIDE DEF r
    <3> QED BY <2>3, <2>5, SyncKeeps, SyncRanged DEF Wired
  <2>7. t = [u EXCEPT !.node = [b \in want |-> DelayLine(p[b])]]
    BY <2>3 DEF SyncNodes
  <2>8. Shape(u) /\ \A b \in Buses : Glc \in u.out[b] <=> Glc \in h.out[b] /\ b \in want
    <3>1. Buses \ want \in SUBSET Buses
      OBVIOUS
    <3>2. /\ Shape(u)
          /\ \A b \in Buses : Glc \in u.out[b] <=> Glc \in plan.out[b] /\ b \notin Buses \ want
      BY <2>3, <3>1, StopKeeps
    <3> HIDE DEF u, want
    <3> QED BY <2>3, <3>2
  <2> HIDE DEF u
  <2>9. t.out = u.out /\ t.node = [b \in want |-> DelayLine(p[b])]
    BY <2>7, <2>8 DEF Shape
  <2> HIDE DEF t
  <2>10. /\ x.out = t.out /\ x.node = t.node /\ x.desired = r /\ x.disabled = t.disabled
         /\ x.reported = h.reported /\ x.pads = p
    <3> HIDE DEF r
    <3> QED BY <2>6, PeersKeep
  <2>11. Ranged(x)
    BY <2>6, PeersKeepRanges
  <2> HIDE DEF x
  <2>12. Planned(x)
    BY <2>6, <2>9, <2>10 DEF Planned, p
  <2>13. \A b \in Buses : Glc \in x.out[b] <=> Glc \in h.out[b] /\ x.pads[b] > 0
    BY <2>8, <2>9, <2>10
  <2> QED BY <2>1, <2>11, <2>12, <2>13
<1>4. r.off \in BOOLEAN
  BY ConstantsAssumption DEF Shape
<1> QED BY <1>1, <1>2, <1>3, <1>4

\* Arming and healing reconcile and link.
LEMMA LinksRanged ==
    ASSUME NEW h, Wired(h), Ranged(h), Reports, Hosts \subseteq DOMAIN h.reported
    PROVE  /\ \A b \in Buses : Ranged(ArmTrack(h, b))
           /\ \A b \in Buses : LET k == Reconcile(h) IN Ranged([k EXCEPT !.out[b] = Armed(k, b)])
           /\ Ranged(ArmAll(h)) /\ Ranged(HealDry(h)) /\ Ranged(HealWet(h))
<1>1. ASSUME NEW x, Shape(x), Ranged(x), NEW b, NEW v PROVE Ranged([x EXCEPT !.out[b] = v])
  <2>1. Ranged([x EXCEPT !.out = [x.out EXCEPT ![b] = v]])
    BY <1>1, OutRanged
  <2> QED BY <2>1
<1>2. Shape(h)
  BY DEF Wired
<1>3. Shape(Reconcile(h)) /\ Ranged(Reconcile(h))
  BY <1>2, ReconcileServes, ReconcilePlans DEF Serves, Wired
<1>4. \A b \in Buses : LET k == Reconcile(h) IN Ranged([k EXCEPT !.out[b] = Armed(k, b)])
  BY <1>1, <1>3
<1>5. \A b \in Buses : Ranged(ArmTrack(h, b))
  BY <1>1, <1>2, <1>4 DEF ArmTrack
<1>6. Ranged(ArmAll(h))
  <2> DEFINE k == IF muted = Buses THEN h ELSE Reconcile(h)
             f == [b \in Buses |-> IF b \in muted THEN {} ELSE Armed(k, b)]
  <2>1. ArmAll(h) = [k EXCEPT !.out = f]
    BY DEF ArmAll
  <2>2. Shape(k) /\ Ranged(k)
    BY <1>2, <1>3
  <2> HIDE DEF k, f
  <2> QED BY <2>1, <2>2, OutRanged
<1>7. Ranged(HealDry(h))
  <2> DEFINE f == [b \in Buses |->
                     IF b \in Unlinked(h) /\ ~Wet(b) THEN h.out[b] \cup {Master} ELSE h.out[b]]
  <2>1. HealDry(h) = [h EXCEPT !.out = f]
    BY DEF HealDry
  <2> HIDE DEF f
  <2> QED BY <1>2, <2>1, OutRanged
<1>8. Ranged(HealWet(h))
  <2> DEFINE again == {b \in Unlinked(h) : Wet(b)}
             e == [b \in Buses |-> IF Wet(b) /\ b \in muted \cup again THEN {} ELSE h.out[b]]
             cut == [h EXCEPT !.out = e]
             k == Reconcile(cut)
             f == [b \in Buses |-> IF b \in again THEN Armed(k, b) ELSE k.out[b]]
             x == [k EXCEPT !.out = f]
  <2>1. HealWet(h) = IF again = {} THEN cut ELSE x
    BY DEF HealWet
  <2>2. /\ e \in [Buses -> SUBSET {Master, Glc}]
        /\ \A b \in Buses : Glc \in e[b] => b \in DOMAIN h.node
    BY DEF Wired, Shape
  <2> HIDE DEF again, e
  <2>3. Wired(cut) /\ cut.reported = h.reported
    BY <2>2, OutServes DEF Serves
  <2>4. Ranged(cut)
    BY <1>2, OutRanged
  <2> HIDE DEF cut
  <2>5. Shape(k) /\ Ranged(k)
    BY <2>3, <2>4, ReconcileServes, ReconcilePlans DEF Serves, Wired
  <2> HIDE DEF k, f
  <2>6. Ranged(x)
    BY <2>5, OutRanged
  <2> QED BY <2>1, <2>4, <2>6
<1> QED BY <1>4, <1>5, <1>6, <1>7, <1>8

\* The heal is both of its halves.
LEMMA HealRanged ==
    ASSUME NEW h, Wired(h), Ranged(h), Reports, Hosts \subseteq DOMAIN h.reported
    PROVE  Ranged(Heal(h))
<1> DEFINE w == HealWet(h)
<1>1. Heal(h) = HealDry(w)
  BY DEF Heal
<1>2. Ranged(w)
  BY LinksRanged
<1>3. Wired(w) /\ w.reported = h.reported
  BY HealWetServes DEF Serves
<1> HIDE DEF w
<1> QED BY <1>1, <1>2, <1>3, LinksRanged

-----------------------------------------------------------------------------
(* The ranges are kept *)

\* A call that is over when it returns leaves the threads alone.
LEMMA CallRanged ==
    ASSUME RangeInv, GlcInv, NEW r, NEW b,
           \/ r \in Routings /\ Route(r)
           \/ b \in Buses /\ (Mute(b) \/ Unmute(b) \/ RemoveHost(b) \/ Rearm(b))
           \/ Tick
    PROVE  RangeInv'
<1>1. /\ Idle /\ job' = job /\ ops < MaxOps /\ ops' = ops + 1
      /\ lat' = lat \/ lat' = Unless(lat, {b})
  BY DEF Route, Mute, Unmute, RemoveHost, Rearm, Tick, Call
<1>2. /\ Wired(g) /\ Shape(g) /\ Reports /\ Ranged(g) /\ ReadsRanged
      /\ Hosts \subseteq DOMAIN g.reported
  BY <1>1, AtCall DEF RangeInv, Wired
<1>3. ops' \in 0 .. MaxOps /\ ReadsRanged'
  BY <1>1, <1>2, ConstantsAssumption DEF RangeInv, ReadsRanged
<1>4. \A V : \A f \in Partial(V) : Unless(f, {b}) \in Partial(V)
  <2> TAKE V
  <2> TAKE f \in Partial(V)
  <2>1. DOMAIN f \subseteq Buses /\ \A c \in DOMAIN f : f[c] \in V
    BY PartialIs
  <2>2. Unless(f, {b}) \in [DOMAIN f \ {b} -> V] /\ DOMAIN f \ {b} \in SUBSET Buses
    BY <2>1 DEF Unless
  <2> QED BY <2>2, PartialMade
<1>5. lat' \in Partial(Lats)
  BY <1>1, <1>4 DEF RangeInv
<1>6. Ranged(g')
  <2>1. CASE r \in Routings /\ Route(r)
    <3> DEFINE h == [g EXCEPT !.desired = r]
               k == Reconcile(h)
               a == ArmAll(k)
    <3>1. g' = Heal(a)
      BY <2>1 DEF Route
    <3>2. Wired(h) /\ Shape(h) /\ h.reported = g.reported /\ Ranged(h)
      BY <1>2, <2>1 DEF Wired, Shape, Ranged
    <3> HIDE DEF h
    <3>3. Wired(k) /\ k.reported = g.reported /\ Ranged(k)
      BY <1>2, <3>2, ReconcileServes, ReconcilePlans DEF Serves
    <3> HIDE DEF k
    <3>4. Wired(a) /\ a.reported = g.reported /\ Ranged(a)
      BY <1>2, <3>3, ArmAllServes, LinksRanged DEF Serves
    <3> HIDE DEF a
    <3> QED BY <1>2, <3>1, <3>4, HealRanged
  <2>2. CASE b \in Buses /\ Mute(b)
    <3>1. g' = [g EXCEPT !.out = [g.out EXCEPT ![b] = {}]]
      BY <2>2 DEF Mute
    <3> QED BY <1>2, <3>1, OutRanged
  <2>3. CASE b \in Buses /\ Unmute(b)
    BY <1>2, <2>3, LinksRanged DEF Unmute
  <2>4. CASE b \in Buses /\ RemoveHost(b)
    <3> DEFINE k == [g EXCEPT !.out[b] = {}, !.reported = Unless(@, {b}),
                              !.targets = Unless(@, {b}), !.delay[b] = 0]
    <3>1. g' = ApplyAllDelays(RefreshPeerPads(k))
      BY <2>4 DEF RemoveHost
    <3>2. /\ k.reported = Unless(g.reported, {b}) /\ k.targets = Unless(g.targets, {b})
          /\ k.delay = [g.delay EXCEPT ![b] = 0] /\ k.node = g.node
          /\ k.pads = g.pads /\ k.topo = g.topo
      BY <1>2 DEF Shape
    <3>3. Shape(k)
      BY <1>2 DEF Shape, Unless
    <3> HIDE DEF k
    <3>4. k.delay \in [Buses -> Pads]
      BY <1>2, <3>2, PadsReach DEF Ranged
    <3>5. Ranged(k)
      BY <1>2, <1>4, <3>2, <3>4 DEF Ranged
    <3> QED BY <3>1, <3>3, <3>5, PeersKeepRanges
  <2>5. CASE b \in Buses /\ Rearm(b)
    BY <1>2, <2>5, LinksRanged DEF Rearm
  <2>6. CASE Tick
    BY <1>2, <2>6, HealRanged DEF Tick
  <2> QED BY <2>1, <2>2, <2>3, <2>4, <2>5, <2>6
<1>7. Ranged(g)'
  BY <1>6 DEF Ranged
<1> QED BY <1>3, <1>5, <1>7 DEF RangeInv

\* Hosts are started with a latency a rack may have.
LEMMA EnsureRanged ==
    ASSUME RangeInv, NEW S \in SUBSET Buses, NEW l \in [S -> Lats], EnsureHosts(S, l)
    PROVE  RangeInv'
<1>1. /\ lat' = Over(l, lat) /\ g' = g /\ ops < MaxOps /\ ops' = ops + 1
      /\ job' = [c \in Buses |-> IF c \in S THEN [pc |-> "report", read |-> <<>>] ELSE Done]
  BY DEF EnsureHosts, Call
<1>2. \A c \in Buses : job'[c].pc \in {"report", "done"}
  BY <1>1 DEF Done
<1>3. ReadsRanged'
  BY <1>2 DEF ReadsRanged
<1>4. DOMAIN lat \subseteq Buses /\ \A c \in DOMAIN lat : lat[c] \in Lats
  BY PartialIs DEF RangeInv
<1>5. Over(l, lat) \in [S \cup DOMAIN lat -> Lats] /\ S \cup DOMAIN lat \in SUBSET Buses
  BY <1>4 DEF Over
<1>6. lat' \in Partial(Lats)
  BY <1>1, <1>5, PartialMade
<1>7. ops' \in 0 .. MaxOps
  BY <1>1, ConstantsAssumption DEF RangeInv
<1>8. Ranged(g)'
  BY <1>1 DEF RangeInv, Ranged
<1> QED BY <1>3, <1>6, <1>7, <1>8 DEF RangeInv

\* The end of such a call.
LEMMA LinkedRanged == ASSUME RangeInv, GlcInv, Linked PROVE RangeInv'
<1> DEFINE started == {b \in Buses : job[b].pc = "ready"}
<1>1. /\ started # {} /\ \A b \in Buses : job[b].pc \in {"done", "ready"}
      /\ g' = IF Cardinality(started) = 1 THEN ArmTrack(g, CHOOSE b \in started : TRUE)
              ELSE ArmAll(g)
      /\ job' = [b \in Buses |-> Done] /\ lat' = lat /\ ops' = ops
  BY DEF Linked
<1>2. (CHOOSE b \in started : TRUE) \in Buses
  BY <1>1
<1>3. /\ Wired(g) /\ Reports /\ Ranged(g) /\ Hosts \subseteq DOMAIN g.reported
  BY <1>1, AllReported DEF GlcInv, RangeInv
<1> HIDE DEF started
<1>4. Ranged(g')
  BY <1>1, <1>2, <1>3, LinksRanged
<1>5. ReadsRanged'
  BY <1>1 DEF ReadsRanged, Done
<1>6. Ranged(g)'
  BY <1>4 DEF Ranged
<1> QED BY <1>1, <1>5, <1>6 DEF RangeInv

\* A thread that goes on with what it may have read.
LEMMA ThreadRanged ==
    ASSUME RangeInv, GlcInv, NEW b \in Buses, lat' = lat, ops' = ops,
           NEW pc, NEW read, Goes(b, pc, read), Ranged(g'),
           pc \in {"store", "push"} => read \in Partial(Pads),
           pc \in {"publish", "live"} => read \in [Buses -> Pads]
    PROVE  RangeInv'
<1>1. job' = [job EXCEPT ![b] = [pc |-> pc, read |-> read]] /\ job = [c \in Buses |-> job[c]]
  BY DEF Goes, GlcInv, Threads
<1>2. job'[b].pc = pc /\ job'[b].read = read /\ \A c \in Buses \ {b} : job'[c] = job[c]
  BY <1>1
<1>3. ReadsRanged'
  BY <1>2 DEF RangeInv, ReadsRanged
<1>4. Ranged(g)'
  BY DEF Ranged
<1> QED BY <1>3, <1>4 DEF RangeInv

\* Every step of a host thread.
LEMMA PublishRanged == ASSUME RangeInv, GlcInv, NEW b \in Buses, Publish(b) PROVE RangeInv'
<1>1. /\ Wired(g) /\ Shape(g) /\ Reports /\ Ranged(g) /\ lat' = lat /\ ops' = ops
      /\ job[b].pc \in {"store", "push"} => job[b].read \in Partial(Pads)
      /\ job[b].pc \in {"publish", "live"} => job[b].read \in [Buses -> Pads]
  BY DEF GlcInv, Wired, RangeInv, ReadsRanged, Publish
<1>2. CASE Report(b)
  <2> DEFINE f == Over([c \in {b} |-> lat[c]], g.reported)
  <2>1. job[b].pc = "report" /\ Goes(b, "snap", <<>>) /\ g' = [g EXCEPT !.reported = f]
    BY <1>2 DEF Report
  <2>2. lat[b] \in Lats
    <3>1. b \in DOMAIN lat
      BY <2>1 DEF GlcInv, Threads, Done, Hosts
    <3> QED BY <3>1, PartialIs DEF RangeInv
  <2>3. DOMAIN g.reported \subseteq Buses /\ \A c \in DOMAIN g.reported : g.reported[c] \in Lats
    BY <1>1, PartialIs DEF Ranged
  <2>4. f \in [{b} \cup DOMAIN g.reported -> Lats] /\ {b} \cup DOMAIN g.reported \in SUBSET Buses
    BY <2>2, <2>3 DEF Over
  <2> HIDE DEF f
  <2>5. f \in Partial(Lats)
    BY <2>4, PartialMade
  <2>6. /\ g'.reported = f /\ g'.targets = g.targets /\ g'.node = g.node
        /\ g'.delay = g.delay /\ g'.pads = g.pads /\ g'.topo = g.topo
    BY <1>1, <2>1 DEF Shape
  <2>7. Ranged(g')
    BY <1>1, <2>5, <2>6 DEF Ranged
  <2> QED BY <1>1, <2>1, <2>7, ThreadRanged
<1>3. CASE SnapReported(b)
  <2>1. Goes(b, "store", PeerPads(g)) /\ g' = g
    BY <1>3 DEF SnapReported
  <2>2. PeerPads(g) \in Partial(Pads)
    BY <1>1, PeersRanged
  <2> QED BY <1>1, <2>1, <2>2, ThreadRanged
<1>4. CASE StoreTargets(b)
  <2>1. g' = Stored(g, job[b].read) /\ Goes(b, "take", <<>>) /\ job[b].pc = "store"
    BY <1>4 DEF StoreTargets
  <2>2. Ranged(g')
    BY <1>1, <2>1, StoredRanged
  <2> QED BY <1>1, <2>1, <2>2, ThreadRanged
<1>5. CASE TakeTargets(b)
  <2>1. Goes(b, "push", g.targets) /\ g' = g
    BY <1>5 DEF TakeTargets
  <2>2. g.targets \in Partial(Pads)
    BY <1>1 DEF Ranged
  <2> QED BY <1>1, <2>1, <2>2, ThreadRanged
<1>6. CASE PushDelays(b)
  <2>1. g' = Pushed(g, job[b].read) /\ Goes(b, "plan", <<>>) /\ job[b].pc = "push"
    BY <1>6 DEF PushDelays
  <2>2. Ranged(g')
    BY <1>1, <2>1, PushedRanged
  <2> QED BY <1>1, <2>1, <2>2, ThreadRanged
<1>7. CASE PlanCached(b)
  <2> DEFINE plan == IF g.disabled THEN Zero ELSE ComputeGlc(g.reported, g.topo)
  <2>1. Goes(b, "publish", plan) /\ g' = g
    BY <1>7 DEF PlanCached
  <2>2. plan \in [Buses -> Pads]
    <3>1. Latencies(g.reported)
      BY <1>1 DEF Latencies, Shape
    <3>2. ComputeGlc(g.reported, g.topo) \in [Buses -> Pads]
      BY <1>1, <3>1, PlanPads DEF Ranged
    <3> QED BY <3>2, PadsReach
  <2> HIDE DEF plan
  <2> QED BY <1>1, <2>1, <2>2, ThreadRanged
<1>8. CASE PublishPlan(b)
  <2>1. g' = [g EXCEPT !.pads = job[b].read] /\ Goes(b, "live", job[b].read)
        /\ job[b].pc = "publish"
    BY <1>8 DEF PublishPlan
  <2>2. /\ g'.pads = job[b].read /\ g'.reported = g.reported /\ g'.targets = g.targets
        /\ g'.node = g.node /\ g'.delay = g.delay /\ g'.topo = g.topo
    BY <1>1, <2>1 DEF Shape
  <2>3. Ranged(g')
    BY <1>1, <2>1, <2>2 DEF Ranged
  <2> QED BY <1>1, <2>1, <2>3, ThreadRanged
<1>9. CASE ApplyToLiveNodes(b)
  <2> DEFINE f == [n \in DOMAIN g.node |-> DelayLine(job[b].read[n])]
  <2>1. g' = [g EXCEPT !.node = f] /\ Goes(b, "ready", <<>>) /\ job[b].pc = "live"
    BY <1>9 DEF ApplyToLiveNodes
  <2>2. DOMAIN g.node \in SUBSET Buses /\ f \in [DOMAIN g.node -> Pads]
    BY <1>1, <2>1, PadsReach DEF Shape
  <2> HIDE DEF f
  <2>3. f \in Partial(Pads)
    BY <2>2, PartialMade
  <2>4. /\ g'.node = f /\ g'.pads = g.pads /\ g'.reported = g.reported
        /\ g'.targets = g.targets /\ g'.delay = g.delay /\ g'.topo = g.topo
    BY <1>1, <2>1 DEF Shape
  <2>5. Ranged(g')
    BY <1>1, <2>3, <2>4 DEF Ranged
  <2> QED BY <1>1, <2>1, <2>5, ThreadRanged
<1> QED BY <1>2, <1>3, <1>4, <1>5, <1>6, <1>7, <1>8, <1>9 DEF Publish

\* A session starts with empty tables and no plan.
LEMMA RangeInit == Init => RangeInv
<1> SUFFICES ASSUME Init PROVE RangeInv
  OBVIOUS
<1>1. PICK r \in Routings :
        g = [desired |-> r, disabled |-> TRUE, topo |-> NoTopo, pads |-> Zero,
             reported |-> <<>>, targets |-> <<>>, delay |-> Zero, node |-> <<>>,
             out |-> [b \in Buses |-> r.egress[b] \cap {Master}]]
  BY DEF Init
<1>2. lat = <<>> /\ ops = 0 /\ job = [b \in Buses |-> Done]
  BY DEF Init
<1>3. \A V : <<>> \in Partial(V)
  <2> TAKE V
  <2>1. DOMAIN <<>> = {}
    OBVIOUS
  <2>2. <<>> \in [{} -> V] /\ {} \in SUBSET Buses
    BY <2>1
  <2> QED BY <2>2, PartialMade
<1>4. Ranged(g)
  BY <1>1, <1>3, PadsReach, NoTopoAcyclic DEF Ranged
<1>5. ReadsRanged
  BY <1>2 DEF ReadsRanged, Done
<1> QED BY <1>2, <1>3, <1>4, <1>5, ConstantsAssumption DEF RangeInv

\* Every step.
LEMMA RangeNext == GlcInv /\ RangeInv /\ [Next]_vars => RangeInv'
<1> SUFFICES ASSUME GlcInv, RangeInv, [Next]_vars PROVE RangeInv'
  OBVIOUS
<1>1. ASSUME NEW r \in Routings, Route(r) PROVE RangeInv'
  BY <1>1, CallRanged
<1>2. ASSUME NEW b \in Buses, Mute(b) \/ Unmute(b) \/ RemoveHost(b) \/ Rearm(b) PROVE RangeInv'
  BY <1>2, CallRanged
<1>3. CASE Tick
  BY <1>3, CallRanged
<1>4. ASSUME NEW b \in Buses, NEW x \in Lats, EnsureHosts({b}, [c \in {b} |-> x]) PROVE RangeInv'
  <2>1. {b} \in SUBSET Buses /\ [c \in {b} |-> x] \in [{b} -> Lats]
    OBVIOUS
  <2> QED BY <1>4, <2>1, EnsureRanged
<1>5. ASSUME NEW l \in [Buses -> Lats], EnsureHosts(Buses, l) PROVE RangeInv'
  BY <1>5, EnsureRanged
<1>6. CASE Linked
  BY <1>6, LinkedRanged
<1>7. ASSUME NEW b \in Buses, Publish(b) PROVE RangeInv'
  BY <1>7, PublishRanged
<1>8. CASE UNCHANGED vars
  BY <1>8 DEF vars, RangeInv, Ranged, ReadsRanged
<1> QED BY <1>1, <1>2, <1>3, <1>4, <1>5, <1>6, <1>7, <1>8 DEF Next

\* The tables and what the threads have read stay in their ranges.
THEOREM RangeInvariant == Spec => [](GlcInv /\ RangeInv)
<1>1. Init => GlcInv /\ RangeInv
  BY GlcInit, RangeInit
<1>2. GlcInv /\ RangeInv /\ [Next]_vars => (GlcInv /\ RangeInv)'
  BY GlcNext, RangeNext
<1> QED BY <1>1, <1>2, PTL DEF Spec

\* In every state the pads, the delays and the lines of the delay nodes are no
\* longer than the longest path there can be, and every thread is at a step of
\* publish_bus_latency.
THEOREM TypeCorrect == Spec => []TypeOK
<1>1. GlcInv /\ RangeInv => TypeOK
  <2> SUFFICES ASSUME GlcInv, RangeInv PROVE TypeOK
    OBVIOUS
  <2>1. /\ g.desired \in Routings /\ g.disabled \in BOOLEAN
        /\ g.out \in [Buses -> SUBSET {Master, Glc}]
        /\ muted \subseteq Buses
    BY DEF GlcInv, Wired, Shape
  <2>2. NoStrayNode
    BY DEF GlcInv, Wired, Switched, NoStrayNode
  <2>3. g.targets \in Partial(Lats \cup Pads)
    <3>1. g.targets \in Partial(Pads)
      BY DEF RangeInv, Ranged
    <3>2. /\ DOMAIN g.targets \in SUBSET Buses
          /\ g.targets \in [DOMAIN g.targets -> Lats \cup Pads]
      BY <3>1, PartialIs
    <3> QED BY <3>2, PartialMade
  <2>4. \A b \in Buses :
          job[b].pc \in {"done", "report", "snap", "store", "take", "push",
                         "plan", "publish", "live", "ready"}
    BY DEF GlcInv, Threads, Steps, Done
  <2> QED BY <2>1, <2>2, <2>3, <2>4 DEF RangeInv, Ranged, TypeOK
<1> QED BY <1>1, RangeInvariant, PTL

-----------------------------------------------------------------------------
(* In step at Master *)

\* A stem goes through its delay node if and only if it has a pad, with effects
\* that way only, and without a pad to Master itself.
Lined(out, pad, b) ==
    /\ Glc \in out <=> pad > 0
    /\ pad > 0 /\ Wet(b) => Master \notin out
    /\ ~(pad > 0) => Master \in out

\* The plan is in force, and every open stem that feeds Master follows it.
InLine(x) ==
    /\ Planned(x)
    /\ \A b \in Buses \ muted : Feeding(x, b) => Lined(x.out[b], x.pads[b], b)

\* A routing that can be planned
Plannable(h) ==
    /\ Wired(h) /\ Ranged(h) /\ ~h.desired.off /\ ~Cyclic(h.desired)
    /\ Hosts \subseteq DOMAIN h.reported

\* Linking leaves the plan alone.
LEMMA OutPlanned ==
    ASSUME NEW h, Plannable(h), Planned(h), NEW f \in [Buses -> SUBSET {Master, Glc}],
           \A b \in Buses : Glc \in f[b] => b \in DOMAIN h.node
    PROVE  LET x == [h EXCEPT !.out = f]
           IN  /\ Plannable(x) /\ Planned(x) /\ x.out = f /\ x.pads = h.pads
               /\ x.desired = h.desired /\ x.reported = h.reported
<1> DEFINE x == [h EXCEPT !.out = f]
<1>1. /\ Wired(x) /\ x.out = f /\ x.pads = h.pads /\ x.node = h.node
      /\ x.disabled = h.disabled /\ x.desired = h.desired /\ x.reported = h.reported
  BY OutServes DEF Plannable, Serves
<1>2. Ranged(x)
  BY OutRanged DEF Plannable, Wired
<1> HIDE DEF x
<1> QED BY <1>1, <1>2 DEF Plannable, Planned, x

\* Reconciling a routing that can be planned.
LEMMA ReconcilePlanned ==
    ASSUME NEW h, Plannable(h), Reports
    PROVE  LET x == Reconcile(h)
           IN  /\ Plannable(x) /\ Planned(x)
               /\ x.desired = h.desired /\ x.reported = h.reported
               /\ \A b \in Buses : /\ Glc \in x.out[b] <=> Glc \in h.out[b] /\ x.pads[b] > 0
                                   /\ Master \in h.out[b] => Master \in x.out[b]
<1>1. Wired(h) /\ Shape(h) /\ Ranged(h) /\ Hosts \subseteq DOMAIN h.reported
      /\ ~h.desired.off /\ ~Cyclic(h.desired)
  BY DEF Plannable, Wired
<1>2. /\ Serves(h, Reconcile(h))
      /\ \A b \in Buses : Master \in h.out[b] => Master \in Reconcile(h).out[b]
  BY <1>1, ReconcileServes
<1> QED BY <1>1, <1>2, ReconcilePlans DEF Plannable, Serves

\* Arming links a stem as the plan wants it.
LEMMA ArmedInLine ==
    ASSUME NEW k, Plannable(k), Planned(k), NEW b \in Buses, Feeding(k, b)
    PROVE  Lined(Armed(k, b), k.pads[b], b)
<1>1. Master # Glc /\ Wired(k) /\ ~k.disabled
  BY DEF Master, Glc, Plannable, Planned
<1>2. b \in DOMAIN k.node <=> k.pads[b] > 0
  BY DEF Planned
<1>3. CASE k.pads[b] > 0
  <2>1. Present(k, b) = {Glc}
    BY <1>1, <1>2, <1>3 DEF Present, PhysicalEgress
  <2>2. Glc \in Armed(k, b)
    BY <1>1, <2>1, ArmedLinks
  <2>3. Wet(b) => Master \notin Armed(k, b)
    BY <1>1, <1>3, <2>1 DEF Armed
  <2> QED BY <1>3, <2>2, <2>3 DEF Lined
<1>4. CASE ~(k.pads[b] > 0)
  <2>1. Glc \notin Armed(k, b)
    BY <1>1, <1>2, <1>4, ArmedLinks
  <2>2. Present(k, b) = {Master}
    BY <1>1, <1>4 DEF Present, PhysicalEgress
  <2>3. Master \in Armed(k, b)
    BY <1>1, <2>2, ArmedLinks
  <2> QED BY <1>4, <2>1, <2>3 DEF Lined
<1> QED BY <1>3, <1>4

\* arm_all_tracks of a planned graph, whether or not every track is muted.
LEMMA ArmAllInLine ==
    ASSUME NEW h, Plannable(h), Planned(h), Reports
    PROVE  LET x == ArmAll(h)
           IN  Plannable(x) /\ InLine(x) /\ x.desired = h.desired /\ x.reported = h.reported
<1> DEFINE k == IF muted = Buses THEN h ELSE Reconcile(h)
           f == [b \in Buses |-> IF b \in muted THEN {} ELSE Armed(k, b)]
           x == [k EXCEPT !.out = f]
<1>1. ArmAll(h) = x
  BY DEF ArmAll
<1>2. Plannable(k) /\ Planned(k) /\ k.desired = h.desired /\ k.reported = h.reported
  BY ReconcilePlanned
<1> HIDE DEF k
<1>3. \A b \in Buses \ muted : f[b] = Armed(k, b)
  OBVIOUS
<1>4. /\ f \in [Buses -> SUBSET {Master, Glc}]
      /\ \A b \in Buses : Glc \in f[b] => b \in DOMAIN k.node
  BY <1>2, ArmedLinks DEF Plannable
<1> HIDE DEF f
<1>5. /\ Plannable(x) /\ Planned(x) /\ x.out = f /\ x.pads = k.pads
      /\ x.desired = k.desired /\ x.reported = k.reported
  BY <1>2, <1>4, OutPlanned
<1> HIDE DEF x
<1>6. ASSUME NEW b \in Buses \ muted, Feeding(x, b) PROVE Lined(x.out[b], x.pads[b], b)
  <2>1. Feeding(k, b)
    BY <1>5, <1>6 DEF Feeding
  <2> QED BY <1>2, <1>3, <1>5, <2>1, ArmedInLine
<1> QED BY <1>1, <1>2, <1>5, <1>6 DEF InLine

\* The heal at the end of relink_routes moves no stem out of line, and links
\* every stem without effects to Master itself.
LEMMA HealInLine ==
    ASSUME NEW h, Plannable(h), InLine(h), Reports
    PROVE  LET x == Heal(h)
           IN  /\ InLine(x) /\ x.desired = h.desired /\ x.reported = h.reported
               /\ Wired(x)
               /\ \A b \in Buses \ muted : Feeding(x, b) /\ ~Wet(b) => Master \in x.out[b]
<1> DEFINE again == {b \in Unlinked(h) : Wet(b)}
           e == [b \in Buses |-> IF Wet(b) /\ b \in muted \cup again THEN {} ELSE h.out[b]]
           cut == [h EXCEPT !.out = e]
           k == Reconcile(cut)
           f == [b \in Buses |-> IF b \in again THEN Armed(k, b) ELSE k.out[b]]
           w == IF again = {} THEN cut ELSE [k EXCEPT !.out = f]
           d == [b \in Buses |->
                   IF b \in Unlinked(w) /\ ~Wet(b) THEN w.out[b] \cup {Master} ELSE w.out[b]]
           x == [w EXCEPT !.out = d]
<1>1. Heal(h) = x
  BY DEF Heal, HealWet, HealDry
<1>2. Planned(h) /\ Wired(h) /\ Master # Glc
  BY DEF InLine, Plannable, Master, Glc
<1>3. /\ again \subseteq Buses \ muted /\ \A b \in again : Feeding(h, b)
      /\ \A b \in Buses \ muted : Feeding(h, b) /\ Wet(b) /\ Master \notin h.out[b] => b \in again
  BY DEF Unlinked
<1>4. /\ e \in [Buses -> SUBSET {Master, Glc}]
      /\ \A b \in Buses : Glc \in e[b] => b \in DOMAIN h.node
      /\ \A b \in Buses \ muted : b \notin again => e[b] = h.out[b]
  BY <1>2, <1>3 DEF Wired, Shape
<1> HIDE DEF again, e
<1>5. /\ Plannable(cut) /\ Planned(cut) /\ cut.out = e /\ cut.pads = h.pads
      /\ cut.desired = h.desired /\ cut.reported = h.reported
  BY <1>2, <1>4, OutPlanned
<1> HIDE DEF cut
<1>6. /\ Plannable(k) /\ Planned(k) /\ k.desired = h.desired /\ k.reported = h.reported
      /\ \A b \in Buses : /\ Glc \in k.out[b] <=> Glc \in cut.out[b] /\ k.pads[b] > 0
                          /\ Master \in cut.out[b] => Master \in k.out[b]
  BY <1>5, ReconcilePlanned
<1>7. k.pads = h.pads
  BY <1>2, <1>6 DEF Planned
<1> HIDE DEF k
<1>8. /\ f \in [Buses -> SUBSET {Master, Glc}]
      /\ \A b \in Buses : Glc \in f[b] => b \in DOMAIN k.node
      /\ \A b \in again : f[b] = Armed(k, b)
      /\ \A b \in Buses \ again : f[b] = k.out[b]
  BY <1>3, <1>6, ArmedLinks DEF Plannable, Wired, Shape
<1> HIDE DEF f
<1>9. /\ Plannable([k EXCEPT !.out = f]) /\ Planned([k EXCEPT !.out = f])
      /\ [k EXCEPT !.out = f].out = f /\ [k EXCEPT !.out = f].pads = k.pads
      /\ [k EXCEPT !.out = f].desired = k.desired /\ [k EXCEPT !.out = f].reported = k.reported
  BY <1>6, <1>8, OutPlanned
<1>10. /\ Plannable(w) /\ Planned(w) /\ w.desired = h.desired /\ w.reported = h.reported
       /\ w.pads = h.pads
  BY <1>5, <1>6, <1>7, <1>9
<1>11. ASSUME NEW b \in Buses \ muted, Feeding(h, b) PROVE Lined(w.out[b], h.pads[b], b)
  <2>1. Lined(h.out[b], h.pads[b], b)
    BY <1>11 DEF InLine
  <2>2. CASE again = {}
    BY <1>4, <1>5, <2>1, <2>2
  <2>3. CASE again # {} /\ b \in again
    <3>1. w.out[b] = Armed(k, b) /\ Feeding(k, b)
      BY <1>6, <1>8, <1>9, <1>11, <2>3 DEF Feeding
    <3> QED BY <1>6, <1>7, <3>1, ArmedInLine
  <2>4. CASE again # {} /\ b \notin again
    <3>1. w.out[b] = k.out[b]
      BY <1>8, <1>9, <2>4
    <3>2. cut.out[b] = h.out[b] /\ k.pads[b] = h.pads[b]
      BY <1>4, <1>5, <1>7, <2>4
    <3>3. Wet(b) => Master \in h.out[b]
      BY <1>3, <1>11, <2>4
    <3> QED BY <1>6, <2>1, <3>1, <3>2, <3>3 DEF Lined
  <2> QED BY <2>2, <2>3, <2>4
<1> HIDE DEF w
<1>12. /\ d \in [Buses -> SUBSET {Master, Glc}]
       /\ \A b \in Buses : Glc \in d[b] => b \in DOMAIN w.node
       /\ \A b \in Buses : Glc \in d[b] <=> Glc \in w.out[b]
       /\ \A b \in Buses : Wet(b) => d[b] = w.out[b]
       /\ \A b \in Buses : Master \in w.out[b] => Master \in d[b]
       /\ \A b \in Buses \ muted : Feeding(w, b) /\ ~Wet(b) => Master \in d[b]
  BY <1>2, <1>10 DEF Plannable, Wired, Shape, Unlinked
<1> HIDE DEF d
<1>13. /\ Plannable(x) /\ Planned(x) /\ x.out = d /\ x.pads = w.pads
       /\ x.desired = w.desired /\ x.reported = w.reported
  BY <1>10, <1>12, OutPlanned
<1> HIDE DEF x
<1>14. ASSUME NEW b \in Buses \ muted, Feeding(x, b) PROVE Lined(x.out[b], x.pads[b], b)
  <2>1. Feeding(h, b)
    BY <1>10, <1>13, <1>14 DEF Feeding
  <2>2. Lined(w.out[b], w.pads[b], b)
    BY <1>10, <1>11, <2>1
  <2> QED BY <1>12, <1>13, <2>2 DEF Lined
<1>15. \A b \in Buses \ muted : Feeding(x, b) /\ ~Wet(b) => Master \in x.out[b]
  BY <1>12, <1>13 DEF Feeding
<1> QED BY <1>1, <1>10, <1>13, <1>14, <1>15 DEF InLine, Plannable

\* The new outputs of a track: planned, armed and healed.
LEMMA RouteInLine ==
    ASSUME GlcInv, RangeInv, NEW r \in Routings, Route(r), ~r.off, ~Cyclic(r)
    PROVE  /\ InLine(g') /\ g'.desired = r /\ Latencies(g'.reported)
           /\ g'.out \in [Buses -> SUBSET {Master, Glc}]
           /\ \A b \in Buses \ muted : Feeding(g', b) /\ ~Wet(b) => Master \in g'.out[b]
<1> DEFINE h == [g EXCEPT !.desired = r]
           k == Reconcile(h)
           a == ArmAll(k)
<1>1. Idle /\ g' = Heal(a)
  BY DEF Route, Call
<1>2. /\ Wired(g) /\ Reports /\ Ranged(g) /\ Hosts \subseteq DOMAIN g.reported
      /\ Latencies(g.reported)
  BY <1>1, AtCall DEF RangeInv, Wired, Shape, Latencies
<1>3. Plannable(h) /\ h.desired = r /\ h.reported = g.reported
  BY <1>2 DEF Plannable, Wired, Shape, Ranged
<1> HIDE DEF h
<1>4. Plannable(k) /\ Planned(k) /\ k.desired = r /\ k.reported = g.reported
  BY <1>2, <1>3, ReconcilePlanned
<1> HIDE DEF k
<1>5. Plannable(a) /\ InLine(a) /\ a.desired = r /\ a.reported = g.reported
  BY <1>2, <1>4, ArmAllInLine
<1> HIDE DEF a
<1>6. /\ InLine(g') /\ g'.desired = r /\ g'.reported = g.reported
      /\ Wired(g')
      /\ \A b \in Buses \ muted : Feeding(g', b) /\ ~Wet(b) => Master \in g'.out[b]
  BY <1>1, <1>2, <1>5, HealInLine
<1> QED BY <1>2, <1>6 DEF Wired, Shape

\* The plan and the line of the delay node make up what a stem is early, to
\* less than a quantum.
LEMMA InStepAtMaster ==
    ASSUME NEW x, Planned(x), NEW r, x.desired = r, ~Cyclic(r), Latencies(x.reported),
           NEW b \in Feeders(r)
    PROVE  LET last == Max({0} \cup {Arrival(x, c) : c \in Feeders(r)})
               pad == IF b \in DOMAIN x.node THEN GLC_NODE_QUANTA * Quantum + x.node[b] ELSE 0
           IN  Arrival(x, b) + pad \in last .. last + Quantum - 1
<1> DEFINE path == Path(x.reported, r)
           lStar == LStar(x.reported, r)
           last == Max({0} \cup {Arrival(x, c) : c \in Feeders(r)})
           pad == IF b \in DOMAIN x.node THEN GLC_NODE_QUANTA * Quantum + x.node[b] ELSE 0
<1>1. /\ lStar \in Nat /\ path \in [InSync(r) -> Nat]
      /\ \A c \in Feeders(r) : path[c] <= lStar
      /\ x.pads = [c \in Buses |-> IF c \in Feeders(r) THEN lStar - path[c] ELSE 0]
  <2>1. x.pads = ComputeGlc(x.reported, r)
    BY DEF Planned
  <2> QED BY <2>1, PlanPads
<1>2. \A c \in Feeders(r) : c \in InSync(r) /\ c \in Buses
  BY DEF Feeders, InSync
<1>3. \A c \in Feeders(r) : Arrival(x, c) = path[c]
  BY <1>2, ArrivalIsPath
<1>4. last = lStar
  <2>1. {Arrival(x, c) : c \in Feeders(r)} = {path[c] : c \in Feeders(r)}
    <3> HIDE DEF path
    <3> QED BY <1>3
  <2>2. lStar = Max({0} \cup {path[c] : c \in Feeders(r)})
    BY DEF LStar
  <2> QED BY <2>1, <2>2
<1>5. /\ x.pads[b] = lStar - path[b] /\ path[b] \in Nat /\ path[b] <= lStar
      /\ b \in DOMAIN x.node <=> x.pads[b] > 0
      /\ x.pads[b] > 0 => x.node[b] = DelayLine(x.pads[b])
  <2> HIDE DEF lStar, path
  <2> QED BY <1>1, <1>2 DEF Planned
<1>6. Quantum \in Nat \ {0}
  BY ConstantsAssumption
<1> HIDE DEF path, lStar, last
<1>7. path[b] + pad \in lStar .. lStar + Quantum - 1
  <2>1. CASE x.pads[b] > 0
    <3>1. pad = Quantum + DelayLine(x.pads[b])
      BY <1>5, <1>6, <2>1 DEF GLC_NODE_QUANTA
    <3>2. DelayLine(x.pads[b]) = IF x.pads[b] > Quantum THEN x.pads[b] - Quantum ELSE 0
      BY <1>6 DEF DelayLine, GLC_NODE_QUANTA
    <3> HIDE DEF pad
    <3> QED BY <1>1, <1>5, <1>6, <2>1, <3>1, <3>2
  <2>2. CASE ~(x.pads[b] > 0)
    <3>1. pad = 0
      BY <1>5, <2>2
    <3> HIDE DEF pad
    <3> QED BY <1>1, <1>5, <1>6, <2>2, <3>1
  <2> QED BY <2>1, <2>2
<1> QED BY <1>3, <1>4, <1>7 DEF last

\* After relink_routes with GLC on, every open stem that feeds Master goes through
\* its delay node if and only if it needs one, and arrives that way less than a
\* quantum after the slowest, whatever the host threads raced for before.  Only a
\* stem without effects has a second way beside it, to Master itself.
THEOREM RoutedInStepAlways == Spec => RoutedInStep
<1> DEFINE Slowest(r) == Max({0} \cup {Arrival(g', b) : b \in Feeders(r)})
           Pad(b) == IF b \in DOMAIN g'.node THEN GLC_NODE_QUANTA * Quantum + g'.node[b] ELSE 0
           A == \A r \in Routings :
                  Route(r) /\ ~r.off /\ ~Cyclic(r) =>
                    LET last == Max({0} \cup {Arrival(g', b) : b \in Feeders(r)})
                        pad(b) == IF b \in DOMAIN g'.node
                                  THEN GLC_NODE_QUANTA * Quantum + g'.node[b] ELSE 0
                    IN  \A b \in Feeders(r) \ muted :
                          /\ g'.out[b] = IF b \notin DOMAIN g'.node THEN {Master}
                                          ELSE IF Wet(b) THEN {Glc} ELSE {Glc, Master}
                          /\ Arrival(g', b) + pad(b) \in last .. last + Quantum - 1
<1>1. GlcInv /\ RangeInv /\ [Next]_vars => [A]_vars
  <2> SUFFICES ASSUME GlcInv, RangeInv, NEW r \in Routings, Route(r), ~r.off, ~Cyclic(r),
                      NEW b \in Feeders(r) \ muted
               PROVE  /\ g'.out[b] = IF b \notin DOMAIN g'.node THEN {Master}
                                      ELSE IF Wet(b) THEN {Glc} ELSE {Glc, Master}
                      /\ Arrival(g', b) + Pad(b) \in Slowest(r) .. Slowest(r) + Quantum - 1
    OBVIOUS
  <2>1. /\ InLine(g') /\ g'.desired = r /\ Latencies(g'.reported)
        /\ g'.out \in [Buses -> SUBSET {Master, Glc}]
        /\ \A c \in Buses \ muted : Feeding(g', c) /\ ~Wet(c) => Master \in g'.out[c]
    BY RouteInLine
  <2>2. Planned(g') /\ b \in Buses /\ Feeding(g', b)
    BY <2>1 DEF InLine, Feeders, InSync, Feeding
  <2>3. g'.out[b] = IF b \notin DOMAIN g'.node THEN {Master}
                    ELSE IF Wet(b) THEN {Glc} ELSE {Glc, Master}
    <3>1. b \in DOMAIN g'.node <=> g'.pads[b] > 0
      BY <2>2 DEF Planned
    <3>2. Lined(g'.out[b], g'.pads[b], b) /\ g'.out[b] \in SUBSET {Master, Glc}
      BY <2>1, <2>2 DEF InLine
    <3>3. ~Wet(b) => Master \in g'.out[b]
      BY <2>1, <2>2
    <3> QED BY <3>1, <3>2, <3>3 DEF Lined
  <2>4. Arrival(g', b) + Pad(b) \in Slowest(r) .. Slowest(r) + Quantum - 1
    BY <2>1, <2>2, InStepAtMaster
  <2> QED BY <2>3, <2>4
<1> QED BY <1>1, RangeInvariant, PTL DEF RoutedInStep, Spec
=============================================================================
