--------------------------- MODULE TrackEgressProofs ---------------------------
(***************************************************************************)
(* A muted track that is silent stays silent: every operation of the engine*)
(* on its links, in whatever order the threads call them and whichever node*)
(* cannot be relinked during a call, honours the mute.  And an idle tick   *)
(* silences no output that hears the track.                                *)
(***************************************************************************)
EXTENDS TrackEgress, FiniteSetTheorems, TLAPS

Desired == [chain : Racks, egress : Egresses, muted : BOOLEAN, failed : BOOLEAN]

\* A graph as an engine call may see it: links join nodes that exist
Shape == [links : SUBSET Pairs, post : BOOLEAN, host : Racks,
          up : SUBSET Dests, bad : Nodes \cup {NoNode}]
Graph(h) == h \in Shape /\ \A p \in h.links : \A n \in Range(p) : Exists(h, n)

\* No output hears the track
Outputs == Outs("bus") \cup Outs("post")
Shut(h) == h.links \cap Outputs = {}

\* What an operation on h owes: a graph again, still shut if the track is muted
Honours(h, x, muted) == Graph(x) /\ (muted /\ Shut(h) => Shut(x))
-----------------------------------------------------------------------------
(* The operators the operations are built from *)

\* A pair of nodes has the two nodes in it; the inner hops end at no output.
LEMMA Hops ==
    /\ \A a, b : Range(<<a, b>>) = {a, b}
    /\ {<<"bus", "fx">>, <<"fx", "post">>, <<"bus", "post">>} \subseteq Pairs
    /\ {<<"bus", "fx">>, <<"fx", "post">>, <<"bus", "post">>} \cap Outputs = {}
    /\ \A ds \in Egresses : /\ Range(ds) \subseteq Dests
                            /\ To("bus", ds) \subseteq Pairs /\ To("post", ds) \subseteq Pairs
<1>1. \A a, b : Range(<<a, b>>) = {a, b}
  <2> TAKE a, b
  <2>1. DOMAIN <<a, b>> = {1, 2} /\ <<a, b>>[1] = a /\ <<a, b>>[2] = b
    OBVIOUS
  <2> QED
    BY <2>1 DEF Range
<1>2. {<<"bus", "fx">>, <<"fx", "post">>, <<"bus", "post">>} \subseteq Pairs
  BY DEF Pairs
<1>3. {<<"bus", "fx">>, <<"fx", "post">>, <<"bus", "post">>} \cap Outputs = {}
  BY ConstantsAssumption DEF Outputs, Outs
<1>4. ASSUME NEW ds \in Egresses
      PROVE  /\ Range(ds) \subseteq Dests
             /\ To("bus", ds) \subseteq Pairs /\ To("post", ds) \subseteq Pairs
  <2>1. PICK m \in 0 .. Cardinality(Dests) : ds \in [1 .. m -> Dests]
    BY DEF Egresses, SeqOf
  <2>2. Range(ds) \subseteq Dests
    BY <2>1 DEF Range
  <2> QED
    BY <2>2 DEF To, Pairs, Outs
<1> QED
  BY <1>1, <1>2, <1>3, <1>4

\* Making links and dropping those of nodes that are gone.
LEMMA LinkKeeps ==
    ASSUME NEW h, h \in Shape, NEW S, S \subseteq Pairs
    PROVE  /\ Graph(Present(h)) /\ (Shut(h) => Shut(Present(h)))
           /\ Graph(Link(h, S))
           /\ (Shut(h) /\ S \cap Outputs = {} => Shut(Link(h, S)))
           /\ Link(h, S).post = h.post /\ Link(h, S).host = h.host /\ Link(h, S).up = h.up
           /\ Link(h, S).bad = h.bad
<1>1. ASSUME NEW x \in Shape
      PROVE  /\ Graph(Present(x)) /\ Present(x).links \subseteq x.links
             /\ Present(x).post = x.post /\ Present(x).host = x.host
             /\ Present(x).up = x.up /\ Present(x).bad = x.bad
  <2> DEFINE kept == {p \in x.links : \A n \in Range(p) : Exists(x, n)}
  <2>1. Present(x) = [x EXCEPT !.links = kept]
    BY DEF Present
  <2>2. kept \subseteq x.links
    OBVIOUS
  <2>3. /\ Present(x) \in Shape /\ Present(x).links = kept
        /\ Present(x).post = x.post /\ Present(x).host = x.host
        /\ Present(x).up = x.up /\ Present(x).bad = x.bad
    <3> HIDE DEF kept
    <3> QED
      BY <2>1, <2>2 DEF Shape
  <2>4. \A n : Exists(Present(x), n) = Exists(x, n)
    BY <2>3 DEF Exists
  <2> QED
    BY <2>2, <2>3, <2>4 DEF Graph
<1> DEFINE y == [h EXCEPT !.links = @ \cup Free(h, S)]
<1>2. /\ y \in Shape /\ y.links = h.links \cup Free(h, S) /\ y.post = h.post /\ y.host = h.host
      /\ y.up = h.up /\ y.bad = h.bad
  <2>1. Free(h, S) \subseteq Pairs
    BY DEF Free
  <2> QED
    BY <2>1 DEF Shape
<1>3. Link(h, S) = Present(y)
  BY DEF Link
<1>4. Free(h, S) \subseteq S
  BY DEF Free
<1> HIDE DEF y
<1> QED
  BY <1>1, <1>2, <1>3, <1>4 DEF Shut

\* Removing links.
LEMMA CutKeeps ==
    ASSUME NEW h, Graph(h)
    PROVE  /\ \A S : /\ Honours(h, Cut(h, S), TRUE)
                     /\ Cut(h, S).links = h.links \ Free(h, S)
                     /\ Cut(h, S).post = h.post /\ Cut(h, S).host = h.host
                     /\ Cut(h, S).up = h.up /\ Cut(h, S).bad = h.bad
           /\ \A src, keep : /\ Honours(h, CutFrom(h, src, keep), TRUE)
                             /\ CutFrom(h, src, keep).host = h.host
                             /\ CutFrom(h, src, keep).post = h.post
                             /\ CutFrom(h, src, keep).up = h.up
<1>1. ASSUME NEW S
      PROVE  /\ Honours(h, Cut(h, S), TRUE)
             /\ Cut(h, S).links = h.links \ Free(h, S)
             /\ Cut(h, S).post = h.post /\ Cut(h, S).host = h.host
             /\ Cut(h, S).up = h.up /\ Cut(h, S).bad = h.bad
  <2>1. /\ Cut(h, S) \in Shape
        /\ Cut(h, S).links = h.links \ Free(h, S)
        /\ Cut(h, S).post = h.post /\ Cut(h, S).host = h.host
        /\ Cut(h, S).up = h.up /\ Cut(h, S).bad = h.bad
    BY DEF Cut, Graph, Shape
  <2>2. \A n : Exists(Cut(h, S), n) = Exists(h, n)
    BY <2>1 DEF Exists
  <2> QED
    BY <2>1, <2>2 DEF Graph, Shut, Honours
<1> QED
  BY <1>1 DEF CutFrom

\* Operations follow one another within a call.
LEMMA Chained ==
    ASSUME NEW h, NEW m \in BOOLEAN
    PROVE  /\ Graph(h) => Honours(h, h, m)
           /\ \A x : Honours(h, x, TRUE) => Honours(h, x, m)
           /\ \A x, y : Honours(h, x, m) /\ Honours(x, y, m) => Honours(h, y, m)
  BY DEF Honours

\* The inner hops, the feed of the effects and the fader stage open no output.
LEMMA InnerKeeps ==
    ASSUME NEW h, Graph(h), NEW S, S \subseteq Pairs, S \cap Outputs = {}
    PROVE  Honours(h, Link(h, S), TRUE)
  BY LinkKeeps DEF Graph, Honours

\* The feed of the effects, the spine and the fader stage: no output either.
LEMMA FeedKeeps ==
    ASSUME NEW h, Graph(h)
    PROVE  /\ Honours(h, Link(h, {<<"bus", "fx">>}), TRUE)
           /\ Honours(h, Link(h, {<<"fx", "post">>}), TRUE)
           /\ Honours(h, Link(h, {<<"bus", "post">>}), TRUE)
           /\ Honours(h, LinkSpine(h), TRUE)
           /\ Honours(h, RestoreFeed(h), TRUE)
           /\ Honours(h, EnsurePost(h), TRUE)
<1>1. \A x : Graph(x) => /\ Honours(x, Link(x, {<<"bus", "fx">>}), TRUE)
                         /\ Honours(x, Link(x, {<<"fx", "post">>}), TRUE)
                         /\ Honours(x, Link(x, {<<"bus", "post">>}), TRUE)
  BY Hops, InnerKeeps
<1>2. Honours(h, LinkSpine(h), TRUE)
  <2> DEFINE a == Link(h, {<<"bus", "fx">>})
  <2>1. Honours(h, a, TRUE) /\ Graph(a)
    BY <1>1 DEF Honours
  <2>2. Honours(a, Link(a, {<<"fx", "post">>}), TRUE)
    BY <1>1, <2>1
  <2>3. LinkSpine(h) = a \/ LinkSpine(h) = Link(a, {<<"fx", "post">>})
    BY DEF LinkSpine
  <2> HIDE DEF a
  <2> QED
    BY <2>1, <2>2, <2>3, Chained
<1>3. Honours(h, RestoreFeed(h), TRUE)
  BY <1>1, Chained DEF RestoreFeed
<1>4. Honours(h, EnsurePost(h), TRUE)
  <2>1. /\ EnsurePost(h) \in Shape /\ EnsurePost(h).links = h.links
        /\ EnsurePost(h).host = h.host /\ EnsurePost(h).up = h.up /\ EnsurePost(h).post = TRUE
    BY DEF EnsurePost, Graph, Shape
  <2>2. \A n : Exists(h, n) => Exists(EnsurePost(h), n)
    BY <2>1 DEF Exists
  <2> QED
    BY <2>1, <2>2 DEF Graph, Honours, Shut
<1> QED
  BY <1>1, <1>2, <1>3, <1>4

\* Disarming and tearing down only remove outputs.
LEMMA DisarmKeeps ==
    ASSUME NEW h, Graph(h)
    PROVE  /\ \A keep : Honours(h, Disarm(h, keep), TRUE)
           /\ Honours(h, TeardownChain(h), TRUE)
<1>1. ASSUME NEW keep PROVE Honours(h, Disarm(h, keep), TRUE)
  <2> DEFINE a == CutFrom(h, "post", {})
             b == CutFrom(a, "bus", {"fx"})
  <2>1. Honours(h, a, TRUE) /\ Graph(a)
    BY CutKeeps DEF Honours
  <2>2. Honours(a, b, TRUE) /\ Graph(b) /\ Honours(a, CutFrom(a, "bus", {}), TRUE)
    <3> HIDE DEF a
    <3> QED
      BY <2>1, CutKeeps DEF Honours
  <2>3. Honours(b, Link(b, {<<"bus", "fx">>}), TRUE)
    BY <2>2, FeedKeeps
  <2>4. \/ Disarm(h, keep) = Link(b, {<<"bus", "fx">>})
        \/ Disarm(h, keep) = CutFrom(a, "bus", {})
    BY DEF Disarm
  <2> HIDE DEF a, b
  <2>5. Honours(h, b, TRUE) /\ Honours(h, CutFrom(a, "bus", {}), TRUE)
    BY <2>1, <2>2 DEF Honours
  <2>6. Honours(h, Link(b, {<<"bus", "fx">>}), TRUE)
    BY <2>3, <2>5 DEF Honours
  <2> QED
    BY <2>4, <2>5, <2>6
<1>2. Honours(h, TeardownChain(h), TRUE)
  <2> DEFINE a == CutFrom(h, "bus", {})
             b == [a EXCEPT !.post = FALSE, !.host = Dry]
  <2>1. Honours(h, a, TRUE)
    BY CutKeeps
  <2>2. b \in Shape /\ b.links = a.links
    <3> HIDE DEF a
    <3> QED
      BY <2>1 DEF Honours, Graph, Shape, Racks
  <2>3. TeardownChain(h) = Present(b)
    BY DEF TeardownChain
  <2> HIDE DEF a, b
  <2> QED
    BY <2>1, <2>2, <2>3, LinkKeeps DEF Honours, Shut
<1> QED
  BY <1>1, <1>2
-----------------------------------------------------------------------------
(* Arming: a graph again, whatever the outputs *)

\* What the nested operations of ArmDry and ArmWetSoft come to.
LEMMA ArmDrySteps ==
    ASSUME NEW h, NEW ds
    PROVE  LET src  == IF h.post THEN "post" ELSE "bus"
               base == IF h.post
                       THEN Link(CutFrom(h, "bus", {"post"}), {<<"bus", "post">>})
                       ELSE CutFrom(h, "post", {})
               out  == LinkUntilError(base, src, ds)
               done == /\ DestsLinked(h, src, ds)
                       /\ h.post => <<"bus", "post">> \in h.links
           IN  \/ ArmDry(h, ds) = h /\ done
               \/ ArmDry(h, ds) \in {out, CutFrom(out, src, Range(ds))}
<1> DEFINE src  == IF h.post THEN "post" ELSE "bus"
           base == IF h.post
                   THEN Link(CutFrom(h, "bus", {"post"}), {<<"bus", "post">>})
                   ELSE CutFrom(h, "post", {})
           done == /\ DestsLinked(h, src, ds)
                   /\ h.post => /\ <<"bus", "post">> \in h.links
                                /\ h.links \cap To("bus", ds) = {}
           Tidy(x) == IF \A d \in Range(ds) \cap h.up : <<src, d>> \in x.links
                      THEN CutFrom(x, src, Range(ds)) ELSE x
           out == LinkUntilError(base, src, ds)
<1>1. ArmDry(h, ds) = IF done THEN h
                      ELSE Then(Then(base, LAMBDA x : LinkUntilError(x, src, ds)), Tidy)
  BY DEF ArmDry
<1>2. Then(base, LAMBDA x : LinkUntilError(x, src, ds)) = out
  <2> HIDE DEF base, src
  <2> QED
    BY DEF Then
<1>3. Then(out, Tidy) = Tidy(out)
  <2> HIDE DEF out, src
  <2> QED
    BY DEF Then
<1>4. Tidy(out) \in {out, CutFrom(out, src, Range(ds))}
  OBVIOUS
<1>5. done => /\ DestsLinked(h, src, ds)
              /\ h.post => <<"bus", "post">> \in h.links
  OBVIOUS
<1> HIDE DEF base, src, done, out
<1> QED
  BY <1>1, <1>2, <1>3, <1>4, <1>5 DEF base, src, out

\* ArmWetSoft, its nested cuts spelled out: link past the effects, drop what is
\* not wanted, fall back on the dry path when the fader did not get through.
LEMMA ArmWetSteps ==
    ASSUME NEW h, NEW ds
    PROVE  LET a == CutFrom(Link(h, {<<"bus", "fx">>, <<"fx", "post">>} \cup To("post", ds)),
                            "post", Range(ds))
           IN  ArmWetSoft(h, ds) = IF DestsLinked(a, "post", ds) THEN CutFrom(a, "bus", {"fx"})
                                   ELSE ArmDryKeepingFx(a, ds)
<1> DEFINE a == CutFrom(Link(h, {<<"bus", "fx">>, <<"fx", "post">>} \cup To("post", ds)),
                        "post", Range(ds))
<1> HIDE DEF a
<1> QED
  BY DEF ArmWetSoft, Then, a

\* Arming keeps a graph; it is only called for a track that is not muted.
LEMMA ArmKeeps ==
    ASSUME NEW h, Graph(h), NEW ds \in Egresses
    PROVE  \A wet \in BOOLEAN : Graph(Arm(h, wet, ds))
<1>1. \A x, S : Graph(x) /\ S \subseteq Pairs => Graph(Link(x, S))
  BY LinkKeeps DEF Graph
<1>2. \A x, src, keep : Graph(x) => Graph(CutFrom(x, src, keep))
  BY CutKeeps DEF Honours
<1>3. \A x : Graph(x) => Graph(Link(x, {<<"bus", "fx">>})) /\ Graph(Link(x, {<<"bus", "post">>}))
  BY FeedKeeps DEF Honours
<1>4. \A x, src : Graph(x) /\ src \in {"bus", "post"} => Graph(LinkUntilError(x, src, ds))
  <2> TAKE x, src
  <2> HAVE Graph(x) /\ src \in {"bus", "post"}
  <2> DEFINE Fails(d) == d \in x.up /\ x.bad \in {src, d} /\ <<src, d>> \notin x.links
             S == {<<src, ds[i]>> : i \in {j \in DOMAIN ds : \A k \in 1 .. j : ~Fails(ds[k])}}
  <2>1. S \subseteq Pairs
    <3>1. S \subseteq To(src, ds)
      BY DEF To, Range
    <3> QED
      BY <3>1, Hops
  <2>2. LinkUntilError(x, src, ds) = Link(x, S)
    BY DEF LinkUntilError
  <2> HIDE DEF S
  <2> QED
    BY <1>1, <2>1, <2>2
<1>5. Graph(ArmDry(h, ds))
  <2> DEFINE src  == IF h.post THEN "post" ELSE "bus"
             base == IF h.post
                     THEN Link(CutFrom(h, "bus", {"post"}), {<<"bus", "post">>})
                     ELSE CutFrom(h, "post", {})
             out == LinkUntilError(base, src, ds)
  <2>1. Graph(base)
    BY <1>2, <1>3
  <2>2. Graph(out)
    <3> HIDE DEF base
    <3> QED
      BY <1>4, <2>1
  <2>3. Graph(CutFrom(out, src, Range(ds)))
    <3> HIDE DEF out, src
    <3> QED
      BY <1>2, <2>2
  <2>4. ArmDry(h, ds) \in {h, out, CutFrom(out, src, Range(ds))}
    <3> HIDE DEF base, src, out
    <3> QED
      BY ArmDrySteps DEF base, src, out
  <2> HIDE DEF base, src, out
  <2> QED
    BY <2>2, <2>3, <2>4
<1>6. \A x : Graph(x) => Graph(ArmDryKeepingFx(x, ds))
  BY <1>1, <1>2, <1>3, Hops DEF ArmDryKeepingFx
<1>7. Graph(ArmWetSoft(h, ds))
  <2> DEFINE a == CutFrom(Link(h, {<<"bus", "fx">>, <<"fx", "post">>} \cup To("post", ds)),
                          "post", Range(ds))
  <2>1. Graph(a)
    BY <1>1, <1>2, Hops
  <2>2. ArmWetSoft(h, ds) \in {CutFrom(a, "bus", {"fx"}), ArmDryKeepingFx(a, ds)}
    BY ArmWetSteps
  <2> HIDE DEF a
  <2> QED
    BY <1>2, <1>6, <2>1, <2>2
<1> QED
  BY <1>5, <1>7 DEF Arm

\* An engine call that arms honours the mute: it disarms instead.
LEMMA EngineArmKeeps ==
    ASSUME NEW h, Graph(h), NEW d \in Desired
    PROVE  \A wet \in BOOLEAN : Honours(h, EngineArm(h, d, wet), d.muted)
<1>1. d.egress \in Egresses /\ d.muted \in BOOLEAN
  BY DEF Desired
<1>2. CASE d.muted
  BY <1>2, DisarmKeeps, Chained DEF EngineArm, Honours
<1>3. CASE ~d.muted
  BY <1>1, <1>3, ArmKeeps DEF EngineArm, Honours
<1> QED
  BY <1>1, <1>2, <1>3
-----------------------------------------------------------------------------
(* Healing *)

\* Stripping the fader of links that are not in its allow list.
LEMMA StripKeeps ==
    ASSUME NEW h, Graph(h), NEW ds
    PROVE  Honours(h, StripPost(h, ds), TRUE)
  BY CutKeeps, Chained DEF StripPost

\* What the nested operations of the healers come to.
LEMMA HealSteps ==
    ASSUME NEW h, NEW d
    PROVE  /\ LET live == EgressLive(h, TRUE, d.egress)
                  a == IF live THEN Cut(h, Doubled(h, d.egress)) ELSE h
                  b == CutFrom(a, "post", Range(d.egress))
              IN  \/ d.muted /\ PruneWet(h, d) = CutFrom(a, "post", {})
                  \/ PruneWet(h, d) \in {a, b, EngineArm(b, d, TRUE)}
           /\ LET a == RestoreFeed(h)
              IN  \/ PruneSettling(h, d) \in {a, Cut(a, Doubled(a, d.egress)), EngineArm(a, d, TRUE)}
                  \/ a.host = Dry /\ PruneSettling(h, d) = StripPost(a, d.egress)
           /\ LET a == Link(h, {<<"bus", "post">>})
                  b == Cut(a, Doubled(a, d.egress))
              IN  /\ d.muted => HealDry(h, d) = h
                  /\ HealDry(h, d) \in {h, Link(h, To("bus", d.egress)),
                                        Link(b, To("post", d.egress))}
<1>1. LET live == EgressLive(h, TRUE, d.egress)
          a == IF live THEN Cut(h, Doubled(h, d.egress)) ELSE h
          b == CutFrom(a, "post", Range(d.egress))
      IN  \/ d.muted /\ PruneWet(h, d) = CutFrom(a, "post", {})
          \/ PruneWet(h, d) \in {a, b, EngineArm(b, d, TRUE)}
  <2> DEFINE live == EgressLive(h, TRUE, d.egress)
             a == IF live THEN Cut(h, Doubled(h, d.egress)) ELSE h
             b == CutFrom(a, "post", Range(d.egress))
             Rearm(x) == IF Range(d.egress) \cap h.up # {} THEN EngineArm(x, d, TRUE) ELSE x
  <2>1. PruneWet(h, d) = IF d.muted THEN CutFrom(a, "post", {})
                         ELSE IF live THEN a ELSE Then(b, Rearm)
    BY DEF PruneWet
  <2>2. Then(b, Rearm) = Rearm(b)
    <3> HIDE DEF b, Rearm
    <3> QED
      BY DEF Then
  <2>3. Rearm(b) \in {b, EngineArm(b, d, TRUE)}
    OBVIOUS
  <2> HIDE DEF live, a, b
  <2> QED
    BY <2>1, <2>2, <2>3 DEF live, a, b
<1>2. LET a == RestoreFeed(h)
      IN  \/ PruneSettling(h, d) \in {a, Cut(a, Doubled(a, d.egress)), EngineArm(a, d, TRUE)}
          \/ a.host = Dry /\ PruneSettling(h, d) = StripPost(a, d.egress)
  <2> DEFINE a == RestoreFeed(h)
             Settle(x) ==
                IF SpineReady(x) /\ ~d.muted
                THEN IF EgressLive(x, TRUE, d.egress)
                     THEN Cut(x, Doubled(x, d.egress)) ELSE EngineArm(x, d, TRUE)
                ELSE IF x.host = Dry THEN StripPost(x, d.egress)
                ELSE IF <<"bus", "fx">> \in x.links THEN Cut(x, Doubled(x, d.egress)) ELSE x
  <2>1. PruneSettling(h, d) = Then(a, Settle)
    BY DEF PruneSettling
  <2>2. Then(a, Settle) = Settle(a)
    <3> HIDE DEF a, Settle
    <3> QED
      BY DEF Then
  <2>3. \/ Settle(a) \in {a, Cut(a, Doubled(a, d.egress)), EngineArm(a, d, TRUE)}
        \/ a.host = Dry /\ Settle(a) = StripPost(a, d.egress)
    OBVIOUS
  <2> HIDE DEF a
  <2> QED
    BY <2>1, <2>2, <2>3 DEF a
<1>3. LET a == Link(h, {<<"bus", "post">>})
          b == Cut(a, Doubled(a, d.egress))
      IN  /\ d.muted => HealDry(h, d) = h
          /\ HealDry(h, d) \in {h, Link(h, To("bus", d.egress)), Link(b, To("post", d.egress))}
  <2> DEFINE a == Link(h, {<<"bus", "post">>})
             Relink(x) == Link(Cut(x, Doubled(x, d.egress)), To("post", d.egress))
  <2>1. HealDry(h, d) = IF h.host # Dry \/ d.muted THEN h
                        ELSE IF ~h.post THEN Link(h, To("bus", d.egress))
                        ELSE IF EgressLive(h, FALSE, d.egress) THEN h
                        ELSE Then(a, Relink)
    BY DEF HealDry
  <2>2. Then(a, Relink) = Relink(a)
    <3> HIDE DEF a
    <3> QED
      BY DEF Then
  <2> HIDE DEF a
  <2> QED
    BY <2>1, <2>2 DEF a
<1> QED
  BY <1>1, <1>2, <1>3

\* The sweep over wet and settling chains, and the heal of dry ones.
LEMMA PruneKeeps ==
    ASSUME NEW h, Graph(h), NEW d \in Desired
    PROVE  Honours(h, Prune(h, d), d.muted)
<1> d.muted \in BOOLEAN
  BY DEF Desired
<1>1. Honours(h, PruneWet(h, d), d.muted)
  <2> DEFINE live == EgressLive(h, TRUE, d.egress)
             a == IF live THEN Cut(h, Doubled(h, d.egress)) ELSE h
             b == CutFrom(a, "post", Range(d.egress))
  <2>1. Honours(h, a, d.muted)
    BY CutKeeps, Chained
  <2>2. Honours(a, b, d.muted) /\ Honours(a, CutFrom(a, "post", {}), d.muted)
    <3> HIDE DEF a
    <3> QED
      BY <2>1, CutKeeps DEF Honours
  <2>3. Honours(b, EngineArm(b, d, TRUE), d.muted)
    <3> HIDE DEF b
    <3> QED
      BY <2>2, EngineArmKeeps DEF Honours
  <2>4. PruneWet(h, d) \in {CutFrom(a, "post", {}), a, b, EngineArm(b, d, TRUE)}
    <3> HIDE DEF a, b
    <3> QED
      BY HealSteps DEF a, b
  <2> HIDE DEF a, b
  <2> QED
    BY <2>1, <2>2, <2>3, <2>4 DEF Honours
<1>2. Honours(h, PruneSettling(h, d), d.muted)
  <2> DEFINE a == RestoreFeed(h)
  <2>1. Honours(h, a, d.muted)
    BY FeedKeeps DEF Honours
  <2>2. /\ \A S : Honours(a, Cut(a, S), d.muted)
        /\ Honours(a, EngineArm(a, d, TRUE), d.muted)
        /\ Honours(a, StripPost(a, d.egress), d.muted)
    <3> HIDE DEF a
    <3> QED
      BY <2>1, CutKeeps, EngineArmKeeps, StripKeeps DEF Honours
  <2>3. PruneSettling(h, d) \in {a, Cut(a, Doubled(a, d.egress)),
                                 EngineArm(a, d, TRUE), StripPost(a, d.egress)}
    <3> HIDE DEF a
    <3> QED
      BY HealSteps DEF a
  <2> HIDE DEF a
  <2> QED
    BY <2>1, <2>2, <2>3 DEF Honours
<1> QED
  BY <1>1, <1>2, Chained DEF Prune

\* The heal of a dry track links its egress unless the track is muted.
LEMMA HealDryKeeps ==
    ASSUME NEW h, Graph(h), NEW d \in Desired
    PROVE  Honours(h, HealDry(h, d), d.muted)
<1> DEFINE a == Link(h, {<<"bus", "post">>})
           b == Cut(a, Doubled(a, d.egress))
<1>1. d.egress \in Egresses /\ d.muted \in BOOLEAN
  BY DEF Desired
<1>2. Graph(a)
  BY FeedKeeps DEF Honours
<1>3. Graph(b)
  <2> HIDE DEF a
  <2> QED
    BY <1>2, CutKeeps DEF Honours
<1>4. Graph(Link(b, To("post", d.egress))) /\ Graph(Link(h, To("bus", d.egress)))
  <2> HIDE DEF b
  <2> QED
    BY <1>1, <1>3, Hops, LinkKeeps DEF Graph
<1>5. /\ d.muted => HealDry(h, d) = h
      /\ HealDry(h, d) \in {h, Link(h, To("bus", d.egress)), Link(b, To("post", d.egress))}
  BY HealSteps
<1> HIDE DEF a, b
<1> QED
  BY <1>1, <1>4, <1>5 DEF Honours

\* The FX reconcile of the tick, and the reapplied gate behind it.
LEMMA ReconcileKeeps ==
    ASSUME NEW h, Graph(h), NEW d \in Desired
    PROVE  Honours(h, ReconcileFx(h, d), d.muted)
<1> DEFINE primary == IF d.egress = <<>> THEN {} ELSE {<<"bus", Head(d.egress)>>}
           a == RestoreFeed(h)
           e == EngineArm(h, d, TRUE)
           Restored(x) == IF SpineReady(x) /\ ~d.muted
                          THEN IF d.egress # <<>> THEN EngineArm(x, d, TRUE) ELSE x
                          ELSE IF x.host = Dry THEN StripPost(x, d.egress) ELSE x
<1> d.muted \in BOOLEAN
  BY DEF Desired
<1>1. ReconcileFx(h, d) = IF d.chain = Dry THEN IF h.host # Dry THEN TeardownChain(h) ELSE h
                          ELSE IF Matches(h, d) THEN Cut(e, primary)
                          ELSE Then(a, Restored)
  BY DEF ReconcileFx
<1>2. Then(a, Restored) = Restored(a)
  <2> HIDE DEF a, Restored
  <2> QED
    BY DEF Then
<1>3. Restored(a) \in {a, EngineArm(a, d, TRUE), StripPost(a, d.egress)}
  OBVIOUS
<1>4. Honours(h, a, d.muted)
  BY FeedKeeps DEF Honours
<1>5. /\ Honours(a, EngineArm(a, d, TRUE), d.muted)
      /\ Honours(a, StripPost(a, d.egress), d.muted)
  <2> HIDE DEF a
  <2> QED
    BY <1>4, EngineArmKeeps, StripKeeps DEF Honours
<1>6. Honours(h, e, d.muted)
  BY EngineArmKeeps
<1>7. Honours(e, Cut(e, primary), d.muted)
  <2> HIDE DEF e, primary
  <2> QED
    BY <1>6, CutKeeps DEF Honours
<1>8. Honours(h, TeardownChain(h), d.muted) /\ Honours(h, h, d.muted)
  BY DisarmKeeps DEF Honours
<1> HIDE DEF a, e, primary, Restored
<1> QED
  BY <1>1, <1>2, <1>3, <1>4, <1>5, <1>6, <1>7, <1>8 DEF Honours

\* reapply_track_egress arms, or disarms a muted track.
LEMMA ReapplyKeeps ==
    ASSUME NEW h, Graph(h), NEW d \in Desired
    PROVE  Honours(h, Reapply(h, d), d.muted)
<1> DEFINE want == d.chain # Dry \/ h.host # Dry
<1>1. want \in BOOLEAN /\ d.muted \in BOOLEAN
  BY DEF Desired
<1>2. Reapply(h, d) \in {h, Disarm(h, TRUE), Cut(h, Doubled(h, d.egress)), EngineArm(h, d, want)}
  BY DEF Reapply
<1>3. Honours(h, EngineArm(h, d, want), d.muted)
  <2> HIDE DEF want
  <2> QED
    BY <1>1, EngineArmKeeps
<1>4. /\ Honours(h, h, d.muted) /\ Honours(h, Disarm(h, TRUE), d.muted)
      /\ Honours(h, Cut(h, Doubled(h, d.egress)), d.muted)
  BY CutKeeps, DisarmKeeps DEF Honours
<1> HIDE DEF want
<1> QED
  BY <1>2, <1>3, <1>4

\* The idle tick, all of it.
LEMMA TickKeeps ==
    ASSUME NEW h, Graph(h), NEW d \in Desired, NEW slow \in BOOLEAN, NEW withFx \in BOOLEAN
    PROVE  Honours(h, Ticked(h, d, slow, withFx), d.muted)
<1> DEFINE Sweep(x) == IF slow \/ HealNeeded(x, d)
                       THEN Then(Prune(x, d), LAMBDA y : HealDry(y, d)) ELSE x
           Fx0(x) == IF withFx THEN ReconcileFx(x, d) ELSE x
           a == EnsurePost(h)
           b == Sweep(a)
           c == Fx0(b)
<1> d.muted \in BOOLEAN
  BY DEF Desired
<1>1. Ticked(h, d, slow, withFx) = Then(Then(Then(a, Sweep), Fx0), LAMBDA x : Reapply(x, d))
  BY DEF Ticked
<1>2. Then(a, Sweep) = b
  <2> HIDE DEF a, Sweep
  <2> QED
    BY DEF Then
<1>3. Then(b, Fx0) = c
  <2> HIDE DEF b, Fx0
  <2> QED
    BY DEF Then
<1>4. Then(c, LAMBDA x : Reapply(x, d)) = Reapply(c, d)
  <2> HIDE DEF c
  <2> QED
    BY DEF Then
<1>5. Honours(h, a, d.muted)
  BY FeedKeeps DEF Honours
<1>6. Honours(a, b, d.muted)
  <2> DEFINE p == Prune(a, d)
  <2>1. Honours(a, p, d.muted)
    <3> HIDE DEF a
    <3> QED
      BY <1>5, PruneKeeps DEF Honours
  <2>2. Honours(p, HealDry(p, d), d.muted)
    <3> HIDE DEF p
    <3> QED
      BY <2>1, HealDryKeeps DEF Honours
  <2>3. Then(p, LAMBDA y : HealDry(y, d)) = HealDry(p, d)
    <3> HIDE DEF p
    <3> QED
      BY DEF Then
  <2>4. b \in {a, Then(p, LAMBDA y : HealDry(y, d))}
    OBVIOUS
  <2> HIDE DEF a, b, p
  <2> QED
    BY <1>5, <2>1, <2>2, <2>3, <2>4 DEF Honours
<1>7. Honours(b, c, d.muted)
  <2>1. c \in {b, ReconcileFx(b, d)}
    OBVIOUS
  <2> HIDE DEF b, c
  <2> QED
    BY <1>6, <2>1, ReconcileKeeps DEF Honours
<1>8. Honours(c, Reapply(c, d), d.muted)
  <2> HIDE DEF c
  <2> QED
    BY <1>7, ReapplyKeeps DEF Honours
<1> HIDE DEF a, b, c, Sweep, Fx0
<1> QED
  BY <1>1, <1>2, <1>3, <1>4, <1>5, <1>6, <1>7, <1>8 DEF Honours
-----------------------------------------------------------------------------
(* The operations of the engine on the bus *)

\* The mute gate with the mute m that it was given and now desires.
LEMMA GatedKeeps ==
    ASSUME NEW h, Graph(h), NEW d \in Desired, NEW m \in BOOLEAN, d.muted = m
    PROVE  Honours(h, Gated(h, d, m), m)
<1> DEFINE want == d.chain # Dry \/ h.host # Dry
           e == EngineArm(h, d, want)
           Retry(x) == IF EgressLive(x, TRUE, d.egress) \/ EgressLive(x, FALSE, d.egress)
                       THEN x ELSE EngineArm(x, d, want)
<1>1. want \in BOOLEAN
  OBVIOUS
<1>2. Gated(h, d, m) \in {h, Disarm(h, TRUE), Then(e, Retry)}
  BY DEF Gated
<1>3. Then(e, Retry) = Retry(e)
  <2> HIDE DEF e, Retry
  <2> QED
    BY DEF Then
<1>4. Retry(e) \in {e, EngineArm(e, d, want)}
  OBVIOUS
<1> HIDE DEF want, Retry
<1>5. Honours(h, e, m)
  BY <1>1, EngineArmKeeps
<1> HIDE DEF e
<1>6. Honours(e, EngineArm(e, d, want), m)
  BY <1>1, <1>5, EngineArmKeeps DEF Honours
<1>7. Honours(h, h, m) /\ Honours(h, Disarm(h, TRUE), m)
  BY DisarmKeeps DEF Honours
<1> QED
  BY <1>2, <1>3, <1>4, <1>5, <1>6, <1>7 DEF Honours

\* ensure_fx_chain: arming behind the new host honours the mute.
LEMMA RespawnedKeeps ==
    ASSUME NEW h, Graph(h), NEW d \in Desired, NEW chain \in Racks, chain # Dry
    PROVE  Honours(h, Respawned(h, d, chain), d.muted)
<1> DEFINE Bare(x) == IF d.muted \/ d.egress = <<>> THEN x ELSE Arm(x, TRUE, d.egress)
           Armed(x) == IF ~SpineReady(x) THEN x
                       ELSE Then(Bare(x), LAMBDA y : EngineArm(y, d, TRUE))
           p == EnsurePost(h)
           a == [p EXCEPT !.host = chain]
           s == LinkSpine(a)
           b == Bare(s)
<1> d.muted \in BOOLEAN /\ d.egress \in Egresses
  BY DEF Desired
<1>1. Respawned(h, d, chain) = Then(s, Armed)
  BY DEF Respawned
<1>2. Then(s, Armed) = Armed(s)
  <2> HIDE DEF s, Armed
  <2> QED
    BY DEF Then
<1>3. Armed(s) \in {s, Then(b, LAMBDA y : EngineArm(y, d, TRUE))}
  OBVIOUS
<1>4. Then(b, LAMBDA y : EngineArm(y, d, TRUE)) = EngineArm(b, d, TRUE)
  <2> DEFINE Wet(y) == EngineArm(y, d, TRUE)
  <2>1. Then(b, Wet) = Wet(b)
    <3> HIDE DEF b, Wet
    <3> QED
      BY DEF Then
  <2> QED
    BY <2>1
<1>5. Honours(h, p, d.muted)
  BY FeedKeeps DEF Honours
<1>6. Honours(p, a, d.muted)
  <2> HIDE DEF p
  <2>1. a \in Shape /\ a.links = p.links /\ a.host = chain /\ a.post = p.post /\ a.up = p.up
    BY <1>5 DEF Honours, Graph, Shape
  <2>2. \A n : Exists(p, n) => Exists(a, n)
    BY <2>1 DEF Exists
  <2> HIDE DEF a
  <2> QED
    BY <1>5, <2>1, <2>2 DEF Honours, Graph, Shut
<1>7. Honours(a, s, d.muted)
  <2> HIDE DEF a
  <2> QED
    BY <1>6, FeedKeeps DEF Honours
<1>8. Honours(s, b, d.muted)
  <2>1. d.muted => b = s
    OBVIOUS
  <2>2. ~d.muted => b = s \/ b = Arm(s, TRUE, d.egress)
    OBVIOUS
  <2>3. Graph(s)
    <3> HIDE DEF s
    <3> QED
      BY <1>7 DEF Honours
  <2>4. Graph(Arm(s, TRUE, d.egress))
    <3> HIDE DEF s
    <3> QED
      BY <2>3, ArmKeeps
  <2> HIDE DEF s, b
  <2> QED
    BY <2>1, <2>2, <2>3, <2>4 DEF Honours
<1>9. Honours(b, EngineArm(b, d, TRUE), d.muted)
  <2> HIDE DEF b
  <2> QED
    BY <1>8, EngineArmKeeps DEF Honours
<1> HIDE DEF p, a, s, b, Armed, Bare
<1> QED
  BY <1>1, <1>2, <1>3, <1>4, <1>5, <1>6, <1>7, <1>8, <1>9 DEF Honours

\* relink_routes: arm, prune and heal, one on what the other has left.
LEMMA RelinkedKeeps ==
    ASSUME NEW h, Graph(h), NEW d \in Desired
    PROVE  Honours(h, Relinked(h, d), d.muted)
<1> DEFINE e == EngineArm(h, d, d.chain # Dry)
           p == Prune(e, d)
<1> d.muted \in BOOLEAN
  BY DEF Desired
<1>1. Relinked(h, d) = Then(Then(e, LAMBDA x : Prune(x, d)), LAMBDA x : HealDry(x, d))
  BY DEF Relinked
<1>2. Then(e, LAMBDA x : Prune(x, d)) = p
  <2> HIDE DEF e
  <2> QED
    BY DEF Then
<1>3. Then(p, LAMBDA x : HealDry(x, d)) = HealDry(p, d)
  <2> HIDE DEF p
  <2> QED
    BY DEF Then
<1>4. Honours(h, e, d.muted)
  <2>1. (d.chain # Dry) \in BOOLEAN
    OBVIOUS
  <2> QED
    BY <2>1, EngineArmKeeps
<1>5. Honours(e, p, d.muted)
  <2> HIDE DEF e
  <2> QED
    BY <1>4, PruneKeeps DEF Honours
<1>6. Honours(p, HealDry(p, d), d.muted)
  <2> HIDE DEF p
  <2> QED
    BY <1>5, HealDryKeeps DEF Honours
<1> HIDE DEF e, p
<1> QED
  BY <1>1, <1>2, <1>3, <1>4, <1>5, <1>6 DEF Honours
-----------------------------------------------------------------------------
(* The state *)

Queues == /\ ses \in Sessions
          /\ jobs \in Seq(Sessions) /\ routes \in Seq(Sessions) /\ levels \in Seq(BOOLEAN)

Lanes == /\ fx \in [pc : {"idle", "ensure", "arm", "level", "gate"}, ses : Sessions]
         /\ sup \in [pc : {"idle", "relink", "volume", "arm", "level", "gate"}, ses : Sessions]
         /\ lane \in [pc : {"idle", "level", "gate"}, mute : BOOLEAN, was : BOOLEAN]
         /\ laneMuted \in BOOLEAN

Engine == /\ des \in Desired /\ latch \in BOOLEAN
          /\ Graph(g) /\ g.bad = NoNode

Bounds == /\ faults \in 0 .. MaxFaults /\ gestures \in 0 .. MaxGestures
          /\ events \in 0 .. MaxEvents

EgressInv == Queues /\ Lanes /\ Engine /\ Bounds

\* What a step leaves of the engine: a graph, and shut if the mute stands
Honest == Engine' /\ (des.muted /\ des'.muted /\ Shut(g) => Shut(g)')

\* An engine call during which the links of node b cannot be changed.
LEMMA DuringKeeps ==
    ASSUME Engine, NEW b \in Nodes \cup {NoNode}
    PROVE  Graph(During(b)) /\ (Shut(g) => Shut(During(b)))
<1>1. /\ During(b) \in Shape /\ During(b).links = g.links /\ During(b).post = g.post
      /\ During(b).host = g.host /\ During(b).up = g.up
  BY DEF Engine, Graph, Shape, During
<1>2. \A n : Exists(During(b), n) = Exists(g, n)
  BY <1>1 DEF Exists
<1> QED
  BY <1>1, <1>2 DEF Engine, Graph, Shut

\* An engine call ends with the fault gone and the rest as the operation left it.
LEMMA CallKeeps ==
    ASSUME Engine, NEW b \in Nodes \cup {NoNode}, NEW m \in BOOLEAN,
           NEW h, Honours(During(b), h, m), Call(h, b)
    PROVE  Graph(g)' /\ g'.bad = NoNode /\ (m /\ Shut(g) => Shut(g)')
<1>1. g' = [h EXCEPT !.bad = NoNode]
  BY DEF Call
<1>2. Graph(h) /\ (m /\ Shut(g) => Shut(h))
  BY DuringKeeps DEF Honours
<1>3. /\ g' \in Shape /\ g'.links = h.links /\ g'.post = h.post
      /\ g'.host = h.host /\ g'.up = h.up /\ g'.bad = NoNode
  BY <1>1, <1>2 DEF Graph, Shape
<1>4. \A n : Exists(g', n) = Exists(h, n)
  BY <1>3 DEF Exists
<1> QED
  BY <1>2, <1>3, <1>4 DEF Graph, Shut

\* sync_desired_from_session, set_track_level and the gate of the fader.
LEMMA SyncKeeps ==
    ASSUME Engine, Queues, NEW b \in Nodes \cup {NoNode}, NEW s \in Sessions, Sync(s, b)
    PROVE  Honest
<1> DEFINE h == During(b)
           m == ses.mute
           a == IF s.chain = Dry /\ (des.chain # Dry \/ h.host # Dry)
                THEN TeardownChain(h) ELSE h
<1>1. m \in BOOLEAN /\ s.chain \in Racks /\ s.egress \in Egresses /\ s \in Sessions
  BY DEF Queues, Sessions
<1>2. /\ des' \in Desired /\ latch' \in BOOLEAN /\ des'.muted = m
  BY <1>1 DEF Sync, Engine, Desired
<1>3. Graph(h)
  BY DuringKeeps
<1>4. Honours(h, a, m)
  <2> HIDE DEF h
  <2> QED
    BY <1>3, DisarmKeeps DEF Honours
<1>5. Honours(a, Disarm(a, TRUE), m)
  <2> HIDE DEF a
  <2> QED
    BY <1>4, DisarmKeeps DEF Honours
<1>6. Synced(h, s, m) \in {a, Disarm(a, TRUE)}
  BY DEF Synced
<1>7. Call(Synced(h, s, m), b)
  BY DEF Sync
<1>8. Honours(h, Synced(h, s, m), m)
  <2> HIDE DEF a, h
  <2> QED
    BY <1>4, <1>5, <1>6 DEF Honours
<1>9. Graph(g)' /\ g'.bad = NoNode /\ (m /\ Shut(g) => Shut(g)')
  BY <1>1, <1>7, <1>8, CallKeeps
<1> QED
  BY <1>2, <1>9 DEF Honest, Engine

\* The call of the mute gate, which also moves the latch.
LEMMA GateKeeps ==
    ASSUME Engine, NEW b \in Nodes \cup {NoNode}, NEW m \in BOOLEAN, Gate(m, b)
    PROVE  Honest
<1> DEFINE d == [des EXCEPT !.muted = m]
<1>1. d \in Desired /\ d.muted = m
  BY DEF Engine, Desired
<1>2. des' = d /\ latch' = m /\ Call(Gated(During(b), d, m), b)
  BY DEF Gate
<1> HIDE DEF d
<1>3. Honours(During(b), Gated(During(b), d, m), m)
  BY <1>1, DuringKeeps, GatedKeeps
<1>4. Graph(g)' /\ g'.bad = NoNode /\ (m /\ Shut(g) => Shut(g)')
  BY <1>2, <1>3, CallKeeps
<1> QED
  BY <1>1, <1>2, <1>4 DEF Honest, Engine

\* A call whose DesiredState is the one in force, or leaves its mute alone.
LEMMA PlainKeeps ==
    ASSUME Engine, NEW b \in Nodes \cup {NoNode}, NEW h,
           Honours(During(b), h, des.muted), Call(h, b),
           des' \in Desired, latch' \in BOOLEAN
    PROVE  Honest
<1>1. des.muted \in BOOLEAN
  BY DEF Engine, Desired
<1>2. Graph(g)' /\ g'.bad = NoNode /\ (des.muted /\ Shut(g) => Shut(g)')
  BY <1>1, CallKeeps
<1> QED
  BY <1>2 DEF Honest, Engine

\* The level call only makes sure of the fader stage.
LEMMA SetLevelsKeeps ==
    ASSUME Engine, NEW b \in Nodes \cup {NoNode}, SetLevels(b)
    PROVE  Honest
<1>1. Honours(During(b), EnsurePost(During(b)), des.muted)
  BY DuringKeeps, FeedKeeps DEF Honours
<1>2. Call(EnsurePost(During(b)), b) /\ des' = des /\ latch' = latch
  BY DEF SetLevels
<1> QED
  BY <1>1, <1>2, PlainKeeps DEF Engine

\* The call that arms from the handle cache.
LEMMA HandleArmKeeps ==
    ASSUME Engine, NEW b \in Nodes \cup {NoNode}, Call(HandleArm(During(b), des), b),
           des' = des, latch' = latch
    PROVE  Honest
<1>1. SpineReady(During(b)) \in BOOLEAN
  BY DEF SpineReady
<1>2. Honours(During(b), HandleArm(During(b), des), des.muted)
  BY <1>1, DuringKeeps, EngineArmKeeps DEF HandleArm, Engine
<1> QED
  BY <1>2, PlainKeeps DEF Engine
-----------------------------------------------------------------------------
(* The threads *)

\* No output, and the one output of a new track, are orders of outputs.
LEMMA Orders ==
    /\ <<>> \in Egresses /\ New.egress \in Egresses
    /\ Idle.ses \in Sessions /\ New \in Sessions
<1>1. Cardinality(Dests) \in Nat /\ 0 \in 0 .. Cardinality(Dests) /\ 1 \in 0 .. Cardinality(Dests)
  <2>1. Cardinality(Dests) \in Nat /\ Cardinality(Dests) # 0
    BY ConstantsAssumption, FS_CardinalityType, FS_EmptySet
  <2> QED
    BY <2>1
<1>2. <<>> \in Egresses
  <2>1. <<>> \in [1 .. 0 -> Dests]
    OBVIOUS
  <2>2. IsInjective(<<>>)
    BY DEF IsInjective
  <2> QED
    BY <1>1, <2>1, <2>2 DEF Egresses, SeqOf
<1>3. New.egress \in Egresses
  <2> DEFINE d == CHOOSE d \in Dests : TRUE
  <2>1. d \in Dests
    BY ConstantsAssumption
  <2> HIDE DEF d
  <2>2. <<d>> \in [1 .. 1 -> Dests]
    BY <2>1
  <2>3. IsInjective(<<d>>)
    BY DEF IsInjective
  <2> QED
    BY <1>1, <2>2, <2>3 DEF Egresses, SeqOf, New, d
<1> QED
  BY <1>2, <1>3 DEF Idle, New, Sessions, Racks

\* A batch is taken from the front of a queue.
LEMMA Batch ==
    ASSUME NEW S, NEW q \in Seq(S), NEW n \in DOMAIN q
    PROVE  Rest(q, n) \in Seq(S) /\ Coalesced(q, n) \in S
<1>1. n \in 1 .. Len(q) /\ Len(q) \in Nat
  OBVIOUS
<1> QED
  BY <1>1 DEF Rest, Coalesced

\* A call meets a node that cannot be relinked only while faults are left.
LEMMA FaultCounted ==
    ASSUME Bounds, NEW b \in Faults, NEW h, Call(h, b)
    PROVE  b \in Nodes \cup {NoNode} /\ faults' \in 0 .. MaxFaults
<1>1. b \in Nodes \cup {NoNode} /\ (b # NoNode => faults < MaxFaults)
  BY DEF Faults
<1>2. faults' = IF b = NoNode THEN faults ELSE faults + 1
  BY DEF Call, Bounds
<1>3. MaxFaults \in Nat /\ faults \in 0 .. MaxFaults
  BY ConstantsAssumption DEF Bounds
<1> QED
  BY <1>1, <1>2, <1>3

\* The FX thread.
LEMMA FxStep ==
    ASSUME EgressInv, NEW b \in Faults, Fx(b)
    PROVE  EgressInv' /\ Honest
<1> USE DEF EgressInv
<1>1. UNCHANGED <<ses, routes, levels, sup, lane, laneMuted, gestures, events>>
  BY DEF Fx, LaneVars
<1>2. b \in Nodes \cup {NoNode}
  BY DEF Faults
<1>3. CASE FxTake(b)
  <2>1. PICK n \in DOMAIN jobs :
           /\ jobs' = Rest(jobs, n)
           /\ fx' = [pc |-> "ensure", ses |-> Coalesced(jobs, n)]
           /\ Sync(Coalesced(jobs, n), b)
    BY <1>3 DEF FxTake
  <2>2. Rest(jobs, n) \in Seq(Sessions) /\ Coalesced(jobs, n) \in Sessions
    BY <2>1, Batch DEF Queues
  <2>3. Honest
    BY <1>2, <2>1, <2>2, SyncKeeps
  <2>4. faults' \in 0 .. MaxFaults
    BY <2>1, FaultCounted DEF Sync
  <2>5. Queues' /\ Lanes'
    BY <1>1, <2>1, <2>2 DEF Queues, Lanes
  <2> QED
    BY <1>1, <2>3, <2>4, <2>5 DEF Honest, Bounds
<1>4. ASSUME jobs' = jobs, Honest, faults' \in 0 .. MaxFaults,
             fx' \in [pc : {"idle", "ensure", "arm", "level", "gate"}, ses : Sessions]
      PROVE  EgressInv' /\ Honest
  BY <1>1, <1>4 DEF Queues, Lanes, Bounds, Honest
<1>5. CASE FxEnsure(b)
  <2> DEFINE h == During(b)
             chain == fx.ses.chain
             armed == Respawned(h, des, chain)
  <2>1. chain \in Racks
    BY DEF Lanes, Sessions
  <2>2. fx' \in [pc : {"idle", "ensure", "arm", "level", "gate"}, ses : Sessions]
    BY <1>5 DEF FxEnsure, Lanes
  <2>3. Graph(h)
    BY <1>2, DuringKeeps
  <2>4. CASE /\ chain = Dry /\ Call(TeardownChain(h), b)
             /\ des' = [des EXCEPT !.chain = Dry, !.failed = FALSE]
    <3>1. Honours(h, TeardownChain(h), des.muted)
      <4> HIDE DEF h
      <4> QED
        BY <2>3, DisarmKeeps DEF Honours
    <3>2. des' \in Desired /\ latch' \in BOOLEAN
      BY <1>5, <2>4 DEF Engine, Desired, Racks, FxEnsure
    <3>3. Honest
      BY <1>2, <2>4, <3>1, <3>2, PlainKeeps
    <3> QED
      BY <1>4, <1>5, <2>2, <2>4, <3>3, FaultCounted DEF FxEnsure
  <2>5. CASE /\ chain # Dry /\ b = NoNode /\ faults < MaxFaults
             /\ g' = EnsurePost(g) /\ faults' = faults + 1
             /\ des' = [des EXCEPT !.failed = TRUE]
    <3>1. Honours(g, EnsurePost(g), TRUE) /\ EnsurePost(g).bad = NoNode
      BY FeedKeeps DEF Engine, EnsurePost, Graph, Shape
    <3>2. des' \in Desired /\ latch' \in BOOLEAN
      BY <1>5, <2>5 DEF Engine, Desired, FxEnsure
    <3>3. Honest
      BY <2>5, <3>1, <3>2 DEF Honest, Engine, Honours, Graph, Shut, Exists
    <3>4. faults' \in 0 .. MaxFaults
      BY <2>5, ConstantsAssumption DEF Bounds
    <3> QED
      BY <1>4, <1>5, <2>2, <3>3, <3>4 DEF FxEnsure
  <2>6. CASE /\ chain # Dry /\ Call(armed, b)
             /\ \/ des' = [des EXCEPT !.chain = chain, !.failed = FALSE]
                \/ des' = [des EXCEPT !.failed = TRUE]
    <3>1. Honours(h, armed, des.muted)
      <4> HIDE DEF h
      <4> QED
        BY <2>1, <2>3, <2>6, RespawnedKeeps DEF Engine
    <3>2. des' \in Desired /\ latch' \in BOOLEAN
      <4> HIDE DEF chain
      <4> QED
        BY <1>5, <2>1, <2>6 DEF Engine, Desired, FxEnsure
    <3>3. Honest
      BY <1>2, <2>6, <3>1, <3>2, PlainKeeps
    <3> QED
      BY <1>4, <1>5, <2>2, <2>6, <3>3, FaultCounted DEF FxEnsure
  <2>7. \/ /\ chain = Dry /\ Call(TeardownChain(h), b)
           /\ des' = [des EXCEPT !.chain = Dry, !.failed = FALSE]
        \/ /\ chain # Dry /\ b = NoNode /\ faults < MaxFaults
           /\ g' = EnsurePost(g) /\ faults' = faults + 1
           /\ des' = [des EXCEPT !.failed = TRUE]
        \/ /\ chain # Dry /\ Call(armed, b)
           /\ \/ des' = [des EXCEPT !.chain = chain, !.failed = FALSE]
              \/ des' = [des EXCEPT !.failed = TRUE]
    BY <1>5 DEF FxEnsure
  <2> QED
    BY <2>4, <2>5, <2>6, <2>7
<1>6. CASE FxArm(b)
  <2>1. /\ Call(HandleArm(During(b), des), b) /\ des' = des /\ latch' = latch /\ jobs' = jobs
        /\ fx' \in [pc : {"idle", "ensure", "arm", "level", "gate"}, ses : Sessions]
    BY <1>6 DEF FxArm, Lanes
  <2>2. Honest
    BY <1>2, <2>1, HandleArmKeeps
  <2> QED
    BY <1>4, <2>1, <2>2, FaultCounted
<1>7. CASE FxLevel(b)
  <2>1. /\ SetLevels(b) /\ jobs' = jobs
        /\ fx' \in [pc : {"idle", "ensure", "arm", "level", "gate"}, ses : Sessions]
    BY <1>7 DEF FxLevel, Lanes
  <2>2. Honest
    BY <1>2, <2>1, SetLevelsKeeps
  <2> QED
    BY <1>4, <2>1, <2>2, FaultCounted DEF SetLevels
<1>8. CASE FxGate(b)
  <2>1. /\ Gate(fx.ses.mute, b) /\ jobs' = jobs /\ fx' = Idle /\ fx.ses.mute \in BOOLEAN
    BY <1>8 DEF FxGate, Lanes, Sessions
  <2>2. Honest
    BY <1>2, <2>1, GateKeeps
  <2> QED
    BY <1>4, <2>1, <2>2, FaultCounted, Orders DEF Gate, Idle
<1> QED
  BY <1>3, <1>5, <1>6, <1>7, <1>8 DEF Fx

\* The Supervisor, its commands and its idle tick.
LEMMA SupStep ==
    ASSUME EgressInv, NEW b \in Faults, Sup(b)
    PROVE  EgressInv' /\ Honest
<1> USE DEF EgressInv
<1>1. UNCHANGED <<ses, jobs, levels, fx, lane, laneMuted, gestures, events>>
  BY DEF Sup, SupRest
<1>2. b \in Nodes \cup {NoNode}
  BY DEF Faults
<1>3. CASE SupTake(b)
  <2>1. PICK n \in DOMAIN routes :
           /\ routes' = Rest(routes, n)
           /\ sup' = [pc |-> "relink", ses |-> Coalesced(routes, n)]
           /\ Sync(Coalesced(routes, n), b)
    BY <1>3 DEF SupTake
  <2>2. Rest(routes, n) \in Seq(Sessions) /\ Coalesced(routes, n) \in Sessions
    BY <2>1, Batch DEF Queues
  <2>3. Honest
    BY <1>2, <2>1, <2>2, SyncKeeps
  <2>4. faults' \in 0 .. MaxFaults
    BY <2>1, FaultCounted DEF Sync
  <2>5. Queues' /\ Lanes'
    BY <1>1, <2>1, <2>2 DEF Queues, Lanes
  <2> QED
    BY <1>1, <2>3, <2>4, <2>5 DEF Honest, Bounds
<1> DEFINE Posts == [pc : {"idle", "relink", "volume", "arm", "level", "gate"}, ses : Sessions]
<1>4. ASSUME routes' = routes, Honest, faults' \in 0 .. MaxFaults, sup' \in Posts
      PROVE  EgressInv' /\ Honest
  BY <1>1, <1>4 DEF Queues, Lanes, Bounds, Honest
<1>5. \A pc \in {"volume", "level", "gate"} : [sup EXCEPT !.pc = pc] \in Posts
  BY DEF Lanes
<1>6. Idle \in Posts
  BY Orders DEF Idle
<1> HIDE DEF Posts
<1>7. CASE SupRelink(b)
  <2>1. Graph(During(b)) /\ des \in Desired
    BY <1>2, DuringKeeps DEF Engine
  <2>2. Honours(During(b), Relinked(During(b), des), des.muted)
    BY <2>1, RelinkedKeeps
  <2>3. /\ Call(Relinked(During(b), des), b) /\ routes' = routes /\ des' = des /\ latch' = latch
        /\ sup' \in Posts
    BY <1>5, <1>7 DEF SupRelink
  <2>4. Honest
    BY <1>2, <2>2, <2>3, PlainKeeps DEF Engine
  <2> QED
    BY <1>4, <2>3, <2>4, FaultCounted
<1>8. CASE SupVolume(b) \/ SupLevel(b)
  <2>1. SetLevels(b) /\ routes' = routes /\ sup' \in Posts
    BY <1>5, <1>6, <1>8 DEF SupVolume, SupLevel
  <2>2. Honest
    BY <1>2, <2>1, SetLevelsKeeps
  <2> QED
    BY <1>4, <2>1, <2>2, FaultCounted DEF SetLevels
<1>9. CASE SupArm(b)
  <2>1. /\ Call(HandleArm(During(b), des), b) /\ des' = des /\ latch' = latch
        /\ routes' = routes /\ sup' \in Posts
    BY <1>5, <1>9 DEF SupArm
  <2>2. Honest
    BY <1>2, <2>1, HandleArmKeeps
  <2> QED
    BY <1>4, <2>1, <2>2, FaultCounted
<1>10. CASE SupGate(b)
  <2>1. Gate(sup.ses.mute, b) /\ routes' = routes /\ sup' = Idle /\ sup.ses.mute \in BOOLEAN
    BY <1>10 DEF SupGate, Lanes, Sessions
  <2>2. Honest
    BY <1>2, <2>1, GateKeeps
  <2> QED
    BY <1>4, <1>6, <2>1, <2>2, FaultCounted DEF Gate
<1>11. ASSUME NEW slow \in BOOLEAN, NEW withFx \in BOOLEAN, Tick(slow, withFx, b)
       PROVE  EgressInv' /\ Honest
  <2>1. Graph(During(b)) /\ des \in Desired
    BY <1>2, DuringKeeps DEF Engine
  <2>2. Honours(During(b), Ticked(During(b), des, slow, withFx), des.muted)
    BY <2>1, TickKeeps
  <2>3. /\ Call(Ticked(During(b), des, slow, withFx), b) /\ routes' = routes /\ sup' = sup
        /\ latch' = des.muted
        /\ des' = IF withFx THEN [des EXCEPT !.failed = FailedAfterFx(g, des)] ELSE des
    BY <1>11 DEF Tick
  <2>4. FailedAfterFx(g, des) \in BOOLEAN
    BY <2>1 DEF FailedAfterFx, Desired
  <2>5. des' \in Desired /\ latch' \in BOOLEAN
    <3> DEFINE f == FailedAfterFx(g, des)
    <3> HIDE DEF f
    <3>1. f \in BOOLEAN /\ (des' = des \/ des' = [des EXCEPT !.failed = f])
      BY <2>3, <2>4 DEF f
    <3> QED
      BY <2>1, <2>3, <3>1 DEF Desired
  <2>6. Honest
    BY <1>2, <2>2, <2>3, <2>5, PlainKeeps
  <2>7. sup \in Posts
    BY DEF Lanes, Posts
  <2> QED
    BY <1>4, <2>3, <2>6, <2>7, FaultCounted
<1> QED
  BY <1>3, <1>7, <1>8, <1>9, <1>10, <1>11 DEF Sup, SupCommand

\* The Interactive lane.
LEMMA LaneStep ==
    ASSUME EgressInv, NEW b \in Faults, Lane(b)
    PROVE  EgressInv' /\ Honest
<1> USE DEF EgressInv
<1>1. UNCHANGED <<ses, jobs, routes, fx, sup, gestures, events>>
  BY DEF Lane, LaneRest
<1>2. b \in Nodes \cup {NoNode}
  BY DEF Faults
<1> DEFINE Posts == [pc : {"idle", "level", "gate"}, mute : BOOLEAN, was : BOOLEAN]
<1>3. ASSUME levels' \in Seq(BOOLEAN), Honest, faults' \in 0 .. MaxFaults, lane' \in Posts,
             laneMuted' \in BOOLEAN
      PROVE  EgressInv' /\ Honest
  BY <1>1, <1>3 DEF Queues, Lanes, Bounds, Honest
<1>4. lane \in Posts /\ LaneIdle \in Posts /\ [lane EXCEPT !.pc = "gate"] \in Posts
  BY DEF Lanes, LaneIdle
<1>5. levels \in Seq(BOOLEAN) /\ laneMuted \in BOOLEAN /\ faults \in 0 .. MaxFaults
  BY DEF Queues, Lanes, Bounds
<1>6. CASE LaneTake
  <2>1. PICK n \in DOMAIN levels :
           /\ levels' = Rest(levels, n)
           /\ lane' = [pc |-> "level", mute |-> Coalesced(levels, n), was |-> laneMuted]
           /\ laneMuted' = Coalesced(levels, n)
           /\ des' = [des EXCEPT !.muted = Coalesced(levels, n)]
    BY <1>6 DEF LaneTake
  <2>2. Rest(levels, n) \in Seq(BOOLEAN) /\ Coalesced(levels, n) \in BOOLEAN
    BY <1>5, <2>1, Batch
  <2>3. UNCHANGED <<latch, g, faults>>
    BY <1>6 DEF LaneTake
  <2>4. Honest
    BY <2>1, <2>2, <2>3 DEF Honest, Engine, Desired, Graph, Shut, Exists
  <2> QED
    BY <1>3, <1>5, <2>1, <2>2, <2>3, <2>4
<1> HIDE DEF Posts
<1>7. CASE LaneLevel(b)
  <2>1. SetLevels(b) /\ levels' = levels /\ laneMuted' = laneMuted /\ lane' \in Posts
    BY <1>4, <1>7 DEF LaneLevel
  <2>2. Honest
    BY <1>2, <2>1, SetLevelsKeeps
  <2> QED
    BY <1>3, <1>5, <2>1, <2>2, FaultCounted DEF SetLevels
<1>8. CASE LaneGate(b)
  <2>1. /\ Gate(lane.mute, b) /\ levels' = levels /\ laneMuted' = laneMuted
        /\ lane' = LaneIdle /\ lane.mute \in BOOLEAN
    BY <1>8 DEF LaneGate, Lanes
  <2>2. Honest
    BY <1>2, <2>1, GateKeeps
  <2> QED
    BY <1>3, <1>4, <1>5, <2>1, <2>2, FaultCounted DEF Gate
<1>9. CASE LanePlaceApp(b)
  <2>1. /\ Call(HandleArm(During(b), des), b) /\ des' = des /\ latch' = latch
        /\ levels' = levels /\ laneMuted' = laneMuted /\ lane' = lane
    BY <1>9 DEF LanePlaceApp, LaneVars
  <2>2. Honest
    BY <1>2, <2>1, HandleArmKeeps
  <2> QED
    BY <1>3, <1>4, <1>5, <2>1, <2>2, FaultCounted
<1>10. CASE LaneCapture(b)
  <2> DEFINE h == During(b)
             a == EngineArm(h, des, SpineReady(g))
             e == EngineArm(a, des, FALSE)
  <2>1. SpineReady(g) \in BOOLEAN /\ Graph(h) /\ des \in Desired /\ ~des.muted
    BY <1>2, <1>10, DuringKeeps DEF SpineReady, LaneCapture, Engine
  <2>2. Graph(a)
    <3> DEFINE ready == SpineReady(g)
    <3> HIDE DEF h, ready
    <3> QED
      BY <2>1, EngineArmKeeps DEF Honours, ready
  <2>3. Graph(e)
    <3> HIDE DEF a
    <3> QED
      BY <2>1, <2>2, EngineArmKeeps DEF Honours
  <2>4. PICK x \in {a, e} : Call(x, b)
    BY <1>10 DEF LaneCapture
  <2>5. /\ des' = des /\ latch' = FALSE /\ levels' = levels
        /\ laneMuted' = laneMuted /\ lane' = lane
    BY <1>10 DEF LaneCapture, LaneVars
  <2> HIDE DEF h, a, e
  <2>6. Honours(During(b), x, des.muted)
    BY <2>1, <2>2, <2>3, <2>4 DEF Honours
  <2>7. Honest
    BY <1>2, <2>1, <2>4, <2>5, <2>6, PlainKeeps
  <2> QED
    BY <1>3, <1>4, <1>5, <2>4, <2>5, <2>7, FaultCounted
<1> QED
  BY <1>6, <1>7, <1>8, <1>9, <1>10 DEF Lane, LaneCommand

\* Links, hosts and sinks that go and come outside the program.
LEMMA OutsideStep ==
    ASSUME EgressInv, Outside
    PROVE  EgressInv' /\ Honest
<1> USE DEF EgressInv
<1>1. UNCHANGED <<ses, jobs, routes, levels, gestures, fx, sup, lane, laneMuted, des, latch,
                  faults>>
  BY DEF Outside, UserVars, LaneVars
<1>2. events' \in 0 .. MaxEvents
  <2>1. (events < MaxEvents /\ events' = events + 1) \/ events' = events
    BY DEF Outside, DestBack
  <2> QED
    BY <2>1, ConstantsAssumption DEF Bounds
<1>3. Graph(g) /\ g.bad = NoNode /\ g \in Shape
  BY DEF Engine, Graph
<1>4. Graph(g') /\ g'.bad = NoNode /\ (Shut(g) => Shut(g'))
  <2>1. ASSUME NEW d \in Dests, DestGone(d) PROVE Graph(g') /\ g'.bad = NoNode /\ (Shut(g) => Shut(g'))
    <3> DEFINE x == [g EXCEPT !.up = @ \ {d}]
    <3>1. x \in Shape /\ x.links = g.links /\ x.bad = NoNode /\ g' = Present(x)
      BY <1>3, <2>1 DEF DestGone, Shape
    <3> HIDE DEF x
    <3>2. Present(x).bad = x.bad
      BY <3>1 DEF Present, Shape
    <3> QED
      BY <3>1, <3>2, LinkKeeps DEF Shut
  <2>2. CASE HostDies
    <3> DEFINE x == [g EXCEPT !.host = Dry]
    <3>1. x \in Shape /\ x.links = g.links /\ x.bad = NoNode /\ g' = Present(x)
      BY <1>3, <2>2 DEF HostDies, Shape, Racks
    <3> HIDE DEF x
    <3>2. Present(x).bad = x.bad
      BY <3>1 DEF Present, Shape
    <3> QED
      BY <2>2, <3>1, <3>2, LinkKeeps DEF Shut
  <2>3. ASSUME NEW p \in Pairs, LinkLost(p)
        PROVE  Graph(g') /\ g'.bad = NoNode /\ (Shut(g) => Shut(g'))
    <3>1. /\ g' \in Shape /\ g'.links = g.links \ {p} /\ g'.post = g.post
          /\ g'.host = g.host /\ g'.up = g.up /\ g'.bad = g.bad
      BY <1>3, <2>3 DEF LinkLost, Shape
    <3>2. \A n : Exists(g', n) = Exists(g, n)
      BY <3>1 DEF Exists
    <3> QED
      BY <1>3, <3>1, <3>2 DEF Graph, Shut
  <2>4. ASSUME NEW d \in Dests, DestBack(d)
        PROVE  Graph(g') /\ g'.bad = NoNode /\ (Shut(g) => Shut(g'))
    <3>1. /\ g' \in Shape /\ g'.links = g.links /\ g'.post = g.post
          /\ g'.host = g.host /\ g'.up = g.up \cup {d} /\ g'.bad = g.bad
      BY <1>3, <2>4 DEF DestBack, Shape
    <3>2. \A n : Exists(g, n) => Exists(g', n)
      BY <3>1 DEF Exists
    <3> QED
      BY <1>3, <3>1, <3>2 DEF Graph, Shut
  <2> QED
    BY <2>1, <2>2, <2>3, <2>4 DEF Outside
<1>5. Honest
  <2>1. Graph(g)' /\ (Shut(g) => Shut(g)')
    BY <1>4
  <2> QED
    BY <1>1, <1>4, <2>1 DEF Honest, Engine
<1> QED
  BY <1>1, <1>2, <1>5 DEF Queues, Lanes, Bounds, Honest

\* The window's edits of the chain and the outputs, and the mute lamp.
LEMMA WindowStep ==
    ASSUME EgressInv, Window
    PROVE  EgressInv' /\ Honest
<1> USE DEF EgressInv
<1>1. UNCHANGED <<fx, sup, lane, laneMuted, des, latch, g, faults, events>>
  BY DEF Window, LaneVars
<1>2. gestures' \in 0 .. MaxGestures
  <2>1. gestures < MaxGestures /\ gestures' = gestures + 1
    BY DEF Window
  <2> QED
    BY <2>1, ConstantsAssumption DEF Bounds
<1>3. Queues'
  <2>1. ASSUME NEW c \in Racks, EditChain(c) PROVE Queues'
    <3>1. ses' \in Sessions
      BY <2>1 DEF EditChain, Queues, Sessions
    <3> QED
      BY <2>1, <3>1 DEF EditChain, Queues
  <2>2. ASSUME NEW e \in Egresses, EditEgress(e) PROVE Queues'
    <3>1. ses' \in Sessions
      BY <2>2 DEF EditEgress, Queues, Sessions
    <3> QED
      BY <2>2, <3>1 DEF EditEgress, Queues
  <2>3. CASE MuteLamp
    <3>1. ses' \in Sessions
      BY <2>3 DEF MuteLamp, Queues, Sessions
    <3>2. ses'.mute \in BOOLEAN
      BY <3>1 DEF Sessions
    <3>3. levels' \in Seq(BOOLEAN)
      <4> DEFINE m == ses'.mute
      <4>1. m \in BOOLEAN /\ levels' = Append(levels, m) /\ levels \in Seq(BOOLEAN)
        BY <2>3, <3>2 DEF MuteLamp, Queues
      <4> HIDE DEF m
      <4> QED
        BY <4>1
    <3> QED
      BY <2>3, <3>1, <3>3 DEF MuteLamp, Queues
  <2> QED
    BY <2>1, <2>2, <2>3 DEF Window
<1>4. Honest
  BY <1>1 DEF Honest, Engine, Graph, Shut, Exists
<1> QED
  BY <1>1, <1>2, <1>3, <1>4 DEF Lanes, Bounds, Honest

\* Every step of the threads and of the engine honours the mute.
LEMMA EgressNext ==
    ASSUME EgressInv, [Next]_vars
    PROVE  EgressInv' /\ Honest
<1>1. CASE UNCHANGED vars
  BY <1>1 DEF vars, EgressInv, Queues, Lanes, Engine, Bounds, Honest, Graph, Shut, Exists
<1> QED
  BY <1>1, FxStep, SupStep, LaneStep, OutsideStep, WindowStep DEF Next

\* A session starts with a graph of its own and no output linked.
LEMMA EgressInit == Init => EgressInv
<1> SUFFICES ASSUME Init PROVE EgressInv
  OBVIOUS
<1>1. Dry \in Racks /\ New \in Sessions /\ Idle.ses \in Sessions /\ New.egress \in Egresses
  BY Orders DEF Racks
<1>2. Queues
  <2>1. PICK c \in Racks : /\ ses = [New EXCEPT !.chain = c]
                           /\ jobs = IF c = Dry THEN <<>> ELSE <<ses>>
    BY DEF Init
  <2>2. ses \in Sessions
    BY <1>1, <2>1 DEF Sessions
  <2>3. jobs \in Seq(Sessions)
    BY <2>1, <2>2
  <2> QED
    BY <2>2, <2>3 DEF Init, Queues
<1>3. Lanes
  BY <1>1 DEF Init, Lanes, Idle, LaneIdle
<1>4. Engine
  <2>1. des \in Desired /\ latch \in BOOLEAN
    BY <1>1 DEF Init, Desired
  <2>2. g = [links |-> {}, post |-> FALSE, host |-> Dry, up |-> Dests, bad |-> NoNode]
    BY DEF Init
  <2>3. g \in Shape /\ g.links = {} /\ g.bad = NoNode
    BY <1>1, <2>2 DEF Shape
  <2> QED
    BY <2>1, <2>3 DEF Engine, Graph
<1>5. Bounds
  BY ConstantsAssumption DEF Init, Bounds
<1> QED
  BY <1>2, <1>3, <1>4, <1>5 DEF EgressInv

\* The queues, the threads and the graph, over every behaviour.
THEOREM EgressInvariant == Spec => []EgressInv
<1>1. EgressInv /\ [Next]_vars => EgressInv'
  BY EgressNext
<1> QED
  BY <1>1, EgressInit, PTL DEF Spec

\* The graph only holds links between nodes that exist: no arming, healing or
\* respawning leaves one to a fader stage, a host or a sink that is gone, and
\* every DesiredState, queue and thread keeps its type.
THEOREM TypeCorrect == Spec => []TypeOK
<1>1. EgressInv => TypeOK
  <2> SUFFICES ASSUME EgressInv PROVE TypeOK
    OBVIOUS
  <2>1. g \in [links : SUBSET Pairs, post : BOOLEAN, host : Racks, up : SUBSET Dests, bad : {NoNode}]
    BY DEF EgressInv, Engine, Graph, Shape
  <2>2. ASSUME NEW p \in g.links
        PROVE  /\ "post" \in Range(p) => g.post
               /\ "fx" \in Range(p) => g.host # Dry
               /\ Range(p) \cap Dests \subseteq g.up
    <3>1. \A n \in Range(p) : Exists(g, n)
      BY <2>2 DEF EgressInv, Engine, Graph
    <3> QED
      BY <3>1, ConstantsAssumption DEF Exists
  <2> QED
    BY <2>1, <2>2 DEF EgressInv, Queues, Lanes, Engine, Bounds, Desired, TypeOK
<1> QED
  BY <1>1, EgressInvariant, PTL

\* While DesiredState says muted (DesiredState.muted, desired.rs) no engine
\* call of any thread opens a silent track, whatever graph it finds and
\* whichever links it cannot change meanwhile.
THEOREM MuteHoldsAlways == Spec => MuteHolds
<1>1. EgressInv /\ EgressInv' /\ [Next]_vars
        => [des.muted /\ des'.muted /\ Silent => Silent']_vars
  BY EgressNext DEF Honest, Shut, Silent, Outputs
<1> QED
  BY <1>1, EgressInvariant, PTL DEF MuteHolds, Spec
-----------------------------------------------------------------------------
(* The idle tick and what is heard.  No fault: every link can be changed.  *)

\* Sound comes to x past the fader
Path(h, x) == /\ <<"post", x>> \in h.links
              /\ \/ <<"bus", "post">> \in h.links
                 \/ {<<"bus", "fx">>, <<"fx", "post">>} \subseteq h.links

\* x hears the track, and no healer takes its dry hop for a doubled one
Heard(h, x) == Path(h, x) \/ (<<"bus", x>> \in h.links /\ <<"post", x>> \notin h.links)

\* Two graphs with the same nodes
SameNodes(h, r) == Graph(r) /\ r.bad = h.bad /\ r.post = h.post /\ r.host = h.host /\ r.up = h.up

\* Links made and removed when no node refuses.
LEMMA Relinking ==
    ASSUME NEW h, Graph(h), h.bad = NoNode
    PROVE  /\ \A S : S \subseteq Pairs =>
                /\ SameNodes(h, Link(h, S))
                /\ Link(h, S).links = h.links \cup {p \in S : \A n \in Range(p) : Exists(h, n)}
           /\ \A S : SameNodes(h, Cut(h, S)) /\ Cut(h, S).links = h.links \ S
           /\ \A src, keep :
                /\ SameNodes(h, CutFrom(h, src, keep))
                /\ CutFrom(h, src, keep).links
                     = {p \in h.links : ~(p[1] = src /\ p[2] \notin keep)}
<1>1. \A p \in Pairs : NoNode \notin Range(p)
  <2>1. NoNode \notin {"bus", "fx", "post"} \cup Dests
    BY ConstantsAssumption DEF NoNode
  <2> QED
    BY <2>1, Hops DEF Pairs, Outs
<1>2. h.links \subseteq Pairs
  BY DEF Graph, Shape
<1>3. ASSUME NEW S, S \subseteq Pairs
      PROVE  /\ SameNodes(h, Link(h, S))
             /\ Link(h, S).links = h.links \cup {p \in S : \A n \in Range(p) : Exists(h, n)}
  <2> DEFINE y == [h EXCEPT !.links = @ \cup Free(h, S)]
  <2>1. Free(h, S) = S
    BY <1>1, <1>3 DEF Free
  <2>2. y.links = h.links \cup S /\ y.post = h.post /\ y.host = h.host /\ y.up = h.up /\ y \in Shape
    BY <1>3, <2>1 DEF Graph, Shape
  <2>3. \A n : Exists(y, n) = Exists(h, n)
    BY <2>2 DEF Exists
  <2>4. Link(h, S) = Present(y)
    BY DEF Link
  <2> HIDE DEF y
  <2>5. Link(h, S).links = {p \in h.links \cup S : \A n \in Range(p) : Exists(h, n)}
    BY <2>2, <2>3, <2>4 DEF Present, Shape
  <2> QED
    BY <1>3, <2>5, LinkKeeps DEF Graph, SameNodes
<1>4. ASSUME NEW S PROVE SameNodes(h, Cut(h, S)) /\ Cut(h, S).links = h.links \ S
  <2>1. h.links \ Free(h, S) = h.links \ S
    BY <1>1, <1>2 DEF Free
  <2> QED
    BY <2>1, CutKeeps DEF SameNodes, Honours
<1>5. ASSUME NEW src, NEW keep
      PROVE  /\ SameNodes(h, CutFrom(h, src, keep))
             /\ CutFrom(h, src, keep).links
                  = {p \in h.links : ~(p[1] = src /\ p[2] \notin keep)}
  BY <1>4 DEF CutFrom
<1> QED
  BY <1>3, <1>4, <1>5

\* Which of the hops this tick makes exist.
LEMMA Existing ==
    ASSUME NEW h, NEW x \in Dests
    PROVE  /\ x \notin {"bus", "fx", "post"}
           /\ (\A n \in Range(<<"bus", x>>) : Exists(h, n)) <=> x \in h.up
           /\ (\A n \in Range(<<"post", x>>) : Exists(h, n)) <=> x \in h.up /\ h.post
           /\ (\A n \in Range(<<"bus", "post">>) : Exists(h, n)) <=> h.post
           /\ (\A n \in Range(<<"bus", "fx">>) : Exists(h, n)) <=> h.host # Dry
           /\ (\A n \in Range(<<"fx", "post">>) : Exists(h, n)) <=> h.host # Dry /\ h.post
  BY Hops, ConstantsAssumption DEF Exists

\* Arming behind the effects: every output that exists hears them.
LEMMA WetArms ==
    ASSUME NEW h, Graph(h), h.bad = NoNode, h.post, h.host # Dry,
           NEW ds \in Egresses, NEW x \in Range(ds) \cap h.up
    PROVE  SameNodes(h, Arm(h, TRUE, ds)) /\ Path(Arm(h, TRUE, ds), x)
<1> DEFINE S == {<<"bus", "fx">>, <<"fx", "post">>} \cup To("post", ds)
           k == Link(h, S)
           a == CutFrom(k, "post", Range(ds))
           r == CutFrom(a, "bus", {"fx"})
<1>1. x \in Dests /\ S \subseteq Pairs /\ Range(ds) \subseteq Dests
  BY Hops
<1>2. CASE SpineReady(h) /\ DestsLinked(h, "post", ds) /\ h.links \cap To("bus", ds) = {}
  <2>1. Arm(h, TRUE, ds) = h
    BY <1>2 DEF Arm
  <2> QED
    BY <1>2, <2>1 DEF SameNodes, Path, SpineReady, DestsLinked
<1>3. CASE ~(SpineReady(h) /\ DestsLinked(h, "post", ds) /\ h.links \cap To("bus", ds) = {})
  <2>1. Arm(h, TRUE, ds) = ArmWetSoft(h, ds)
    BY <1>3 DEF Arm
  <2>2. SameNodes(h, k) /\ k.links = h.links \cup {p \in S : \A n \in Range(p) : Exists(h, n)}
    BY <1>1, Relinking
  <2>3. /\ {<<"bus", "fx">>, <<"fx", "post">>} \subseteq k.links
        /\ \A e \in Range(ds) \cap h.up : <<"post", e>> \in k.links
    <3>1. {<<"bus", "fx">>, <<"fx", "post">>} \subseteq k.links
      <4> HIDE DEF k
      <4> QED
        BY <1>1, <2>2, Existing
    <3>2. ASSUME NEW e \in Range(ds) \cap h.up PROVE <<"post", e>> \in k.links
      <4>1. <<"post", e>> \in S /\ \A n \in Range(<<"post", e>>) : Exists(h, n)
        BY <1>1, Existing DEF To
      <4> HIDE DEF k, S
      <4> QED
        BY <2>2, <4>1
    <3> QED
      BY <3>1, <3>2
  <2> HIDE DEF S, k
  <2>4. SameNodes(k, a) /\ a.links = {p \in k.links : ~(p[1] = "post" /\ p[2] \notin Range(ds))}
    <3>1. Graph(k) /\ k.bad = NoNode
      BY <2>2 DEF SameNodes
    <3> QED
      BY <3>1, Relinking
  <2>5. /\ {<<"bus", "fx">>, <<"fx", "post">>} \subseteq a.links
        /\ \A e \in Range(ds) \cap h.up : <<"post", e>> \in a.links
    BY <2>3, <2>4
  <2> HIDE DEF a
  <2>6. DestsLinked(a, "post", ds)
    BY <2>2, <2>4, <2>5 DEF DestsLinked, SameNodes
  <2>7. ArmWetSoft(h, ds) = r
    BY <2>6, ArmWetSteps DEF a, k, S
  <2>8. SameNodes(a, r) /\ r.links = {p \in a.links : ~(p[1] = "bus" /\ p[2] \notin {"fx"})}
    <3>1. Graph(a) /\ a.bad = NoNode
      BY <2>2, <2>4 DEF SameNodes
    <3> QED
      BY <3>1, Relinking
  <2> HIDE DEF r
  <2>9. Path(r, x)
    BY <2>5, <2>8 DEF Path
  <2>10. SameNodes(h, r)
    BY <2>2, <2>4, <2>8 DEF SameNodes
  <2> QED
    BY <2>1, <2>7, <2>9, <2>10
<1> QED
  BY <1>2, <1>3

\* Arming without effects: every output that exists is linked, behind the
\* fader once there is one.
LEMMA DryArms ==
    ASSUME NEW h, Graph(h), h.bad = NoNode,
           NEW ds \in Egresses, NEW x \in Range(ds) \cap h.up
    PROVE  /\ SameNodes(h, ArmDry(h, ds))
           /\ IF h.post THEN Path(ArmDry(h, ds), x) ELSE <<"bus", x>> \in ArmDry(h, ds).links
<1> DEFINE src  == IF h.post THEN "post" ELSE "bus"
           base == IF h.post
                   THEN Link(CutFrom(h, "bus", {"post"}), {<<"bus", "post">>})
                   ELSE CutFrom(h, "post", {})
           out  == LinkUntilError(base, src, ds)
           tidy == CutFrom(out, src, Range(ds))
           done == /\ DestsLinked(h, src, ds)
                   /\ h.post => <<"bus", "post">> \in h.links
<1>1. x \in Dests /\ Range(ds) \subseteq Dests /\ To(src, ds) \subseteq Pairs /\ src \in {"bus", "post"}
  BY Hops
<1>2. \/ ArmDry(h, ds) = h /\ done
      \/ ArmDry(h, ds) \in {out, tidy}
  <2> HIDE DEF src, base, out, tidy, done
  <2> QED
    BY ArmDrySteps DEF src, base, out, tidy, done
<1>3. CASE ArmDry(h, ds) = h /\ done
  BY <1>3 DEF SameNodes, Path, DestsLinked
<1>4. /\ SameNodes(h, base) /\ (h.post => <<"bus", "post">> \in base.links)
  <2> DEFINE k == CutFrom(h, "bus", {"post"})
             l == Link(k, {<<"bus", "post">>})
  <2>1. SameNodes(h, k) /\ SameNodes(h, CutFrom(h, "post", {}))
    BY Relinking
  <2> HIDE DEF k
  <2>2. Graph(k) /\ k.bad = NoNode
    BY <2>1 DEF SameNodes
  <2>3. /\ SameNodes(k, l)
        /\ l.links = k.links \cup {p \in {<<"bus", "post">>} : \A n \in Range(p) : Exists(k, n)}
    BY <2>2, Relinking, Hops
  <2>4. k.post => <<"bus", "post">> \in l.links
    <3> HIDE DEF l
    <3> QED
      BY <1>1, <2>3, Existing
  <2>5. base = IF h.post THEN l ELSE CutFrom(h, "post", {})
    BY DEF k
  <2> HIDE DEF l, base
  <2> QED
    BY <2>1, <2>3, <2>4, <2>5 DEF SameNodes
<1> HIDE DEF base
<1>5. out = Link(base, To(src, ds))
  <2> DEFINE Fails(e) == e \in base.up /\ base.bad \in {src, e} /\ <<src, e>> \notin base.links
             S == {<<src, ds[i]>> : i \in {j \in DOMAIN ds : \A k \in 1 .. j : ~Fails(ds[k])}}
  <2>1. base.bad = NoNode /\ NoNode \notin {"bus", "post"} \cup Dests
    BY <1>4, ConstantsAssumption DEF SameNodes, NoNode
  <2>2. base.up \subseteq Dests
    BY <1>4 DEF SameNodes, Graph, Shape
  <2>3. \A e : ~Fails(e)
    BY <1>1, <2>1, <2>2
  <2>4. S = {<<src, ds[i]>> : i \in DOMAIN ds}
    <3> HIDE DEF Fails, src
    <3> QED
      BY <2>3
  <2>5. S = To(src, ds)
    <3> HIDE DEF S, src
    <3> QED
      BY <2>4 DEF To, Range
  <2>6. out = Link(base, S)
    BY DEF LinkUntilError
  <2> HIDE DEF S, out, src
  <2> QED
    BY <2>5, <2>6
<1> HIDE DEF out
<1>6. Graph(base) /\ base.bad = NoNode /\ base.up = h.up /\ base.post = h.post
  BY <1>4 DEF SameNodes
<1>7. /\ SameNodes(base, out)
      /\ out.links = base.links \cup {p \in To(src, ds) : \A n \in Range(p) : Exists(base, n)}
  <2> HIDE DEF src
  <2> QED
    BY <1>1, <1>5, <1>6, Relinking
<1>8. <<src, x>> \in out.links
  <2>1. <<src, x>> \in To(src, ds)
    BY <1>1 DEF To
  <2>2. \A n \in Range(<<src, x>>) : Exists(base, n)
    BY <1>1, <1>6, Existing
  <2> HIDE DEF src
  <2> QED
    BY <1>7, <2>1, <2>2
<1>9. Graph(out) /\ out.bad = NoNode
  BY <1>6, <1>7 DEF SameNodes
<1>10. /\ SameNodes(out, tidy)
       /\ tidy.links = {p \in out.links : ~(p[1] = src /\ p[2] \notin Range(ds))}
  <2> HIDE DEF src
  <2> QED
    BY <1>9, Relinking
<1>11. <<src, x>> \in tidy.links /\ (h.post => {<<"bus", "post">>} \subseteq out.links \cap tidy.links)
  <2> HIDE DEF tidy
  <2> QED
    BY <1>4, <1>7, <1>8, <1>10
<1>12. SameNodes(h, out) /\ SameNodes(h, tidy)
  <2> HIDE DEF tidy
  <2> QED
    BY <1>4, <1>7, <1>10 DEF SameNodes
<1> HIDE DEF tidy, done
<1> QED
  BY <1>2, <1>3, <1>8, <1>11, <1>12 DEF Path

\* The output x hears the open track of d in graph h, and goes on existing
Serves(h, d, x) ==
    /\ Graph(h) /\ h.bad = NoNode /\ h.post
    /\ d.chain # Dry => h.host # Dry
    /\ ~d.muted /\ x \in Range(d.egress) \cap h.up
    /\ Heard(h, x)

\* Cutting dry hops that are doubled, and feeding the effects, silence nobody.
LEMMA SmallHeals ==
    ASSUME NEW d \in Desired, NEW h, NEW x, Serves(h, d, x)
    PROVE  /\ Serves(Cut(h, Doubled(h, d.egress)), d, x)
           /\ Serves(RestoreFeed(h), d, x)
           /\ Serves(CutFrom(h, "post", Range(d.egress)), d, x)
           /\ Serves(Link(h, To("bus", d.egress)), d, x)
<1>1. d.egress \in Egresses /\ Range(d.egress) \subseteq Dests /\ x \in Dests
  BY Hops DEF Desired, Serves
<1>2. Graph(h) /\ h.bad = NoNode
  BY DEF Serves
<1>3. \A r : SameNodes(h, r) /\ Heard(r, x) => Serves(r, d, x)
  BY DEF SameNodes, Serves
<1>4. Serves(Cut(h, Doubled(h, d.egress)), d, x)
  <2> DEFINE r == Cut(h, Doubled(h, d.egress))
  <2>1. SameNodes(h, r) /\ r.links = h.links \ Doubled(h, d.egress)
    BY <1>2, Relinking
  <2>2. Heard(h, x)
    BY DEF Serves
  <2> HIDE DEF r
  <2>3. Heard(r, x)
    BY <1>1, <2>1, <2>2, Existing DEF Heard, Path, Doubled
  <2> QED
    BY <1>3, <2>1, <2>3 DEF r
<1>5. ASSUME NEW S, S \subseteq Pairs, \A e \in Dests : <<"post", e>> \notin S
      PROVE  Serves(Link(h, S), d, x)
  <2> DEFINE r == Link(h, S)
  <2>1. SameNodes(h, r) /\ r.links = h.links \cup {p \in S : \A n \in Range(p) : Exists(h, n)}
    BY <1>2, <1>5, Relinking
  <2>2. Heard(h, x)
    BY DEF Serves
  <2> HIDE DEF r
  <2>3. Heard(r, x)
    BY <1>1, <1>5, <2>1, <2>2 DEF Heard, Path
  <2> QED
    BY <1>3, <2>1, <2>3 DEF r
<1>6. Serves(RestoreFeed(h), d, x)
  <2>1. {<<"bus", "fx">>} \subseteq Pairs /\ \A e \in Dests : <<"post", e>> \notin {<<"bus", "fx">>}
    BY Hops
  <2> QED
    BY <1>5, <2>1 DEF RestoreFeed
<1>7. Serves(Link(h, To("bus", d.egress)), d, x)
  <2>1. \A e \in Dests : <<"post", e>> \notin To("bus", d.egress)
    BY DEF To
  <2> QED
    BY <1>1, <1>5, <2>1, Hops
<1>8. Serves(CutFrom(h, "post", Range(d.egress)), d, x)
  <2> DEFINE r == CutFrom(h, "post", Range(d.egress))
  <2>1. /\ SameNodes(h, r)
        /\ r.links = {p \in h.links : ~(p[1] = "post" /\ p[2] \notin Range(d.egress))}
    BY <1>2, Relinking
  <2>2. Heard(h, x) /\ x \in Range(d.egress)
    BY DEF Serves
  <2> HIDE DEF r
  <2>3. Heard(r, x)
    BY <2>1, <2>2 DEF Heard, Path
  <2> QED
    BY <1>3, <2>1, <2>3 DEF r
<1> QED
  BY <1>4, <1>6, <1>7, <1>8

\* Arming an open track through the effects it has.
LEMMA WetServes ==
    ASSUME NEW d \in Desired, NEW h, NEW x, Serves(h, d, x), h.host # Dry
    PROVE  Serves(EngineArm(h, d, TRUE), d, x)
<1>1. d.egress \in Egresses /\ EngineArm(h, d, TRUE) = Arm(h, TRUE, d.egress)
  BY DEF Desired, EngineArm, Serves
<1>2. SameNodes(h, Arm(h, TRUE, d.egress)) /\ Path(Arm(h, TRUE, d.egress), x)
  BY <1>1, WetArms DEF Serves
<1> QED
  BY <1>1, <1>2 DEF Serves, SameNodes, Heard

\* The sweep.
LEMMA SweepServes ==
    ASSUME NEW d \in Desired, NEW h, NEW x, Serves(h, d, x)
    PROVE  Serves(Prune(h, d), d, x) /\ Serves(HealDry(h, d), d, x)
<1>1. ~d.muted /\ d.egress \in Egresses /\ (d.chain # Dry => h.host # Dry)
  BY DEF Serves, Desired
<1>2. ASSUME d.chain # Dry PROVE Serves(Prune(h, d), d, x)
  <2>1. Serves(PruneWet(h, d), d, x)
    <3> DEFINE live == EgressLive(h, TRUE, d.egress)
               a == IF live THEN Cut(h, Doubled(h, d.egress)) ELSE h
               b == CutFrom(a, "post", Range(d.egress))
    <3>1. PruneWet(h, d) \in {a, b, EngineArm(b, d, TRUE)}
      <4> HIDE DEF a, b
      <4> QED
        BY <1>1, HealSteps DEF a, b
    <3>2. Serves(a, d, x)
      BY SmallHeals
    <3> HIDE DEF a
    <3>3. Serves(b, d, x)
      BY <3>2, SmallHeals
    <3> HIDE DEF b
    <3>4. b.host # Dry
      BY <1>2, <3>3 DEF Serves
    <3> QED
      BY <3>1, <3>2, <3>3, <3>4, WetServes
  <2>2. Serves(PruneSettling(h, d), d, x)
    <3> DEFINE a == RestoreFeed(h)
    <3>1. \/ PruneSettling(h, d) \in {a, Cut(a, Doubled(a, d.egress)), EngineArm(a, d, TRUE)}
          \/ a.host = Dry /\ PruneSettling(h, d) = StripPost(a, d.egress)
      <4> HIDE DEF a
      <4> QED
        BY HealSteps DEF a
    <3>2. Serves(a, d, x)
      BY SmallHeals
    <3> HIDE DEF a
    <3>3. a.host # Dry
      BY <1>2, <3>2 DEF Serves
    <3> QED
      BY <3>1, <3>2, <3>3, SmallHeals, WetServes
  <2> QED
    BY <1>2, <2>1, <2>2 DEF Prune
<1>3. Serves(Prune(h, d), d, x)
  BY <1>2 DEF Prune
<1>4. Serves(HealDry(h, d), d, x)
  <2> DEFINE a == Link(h, {<<"bus", "post">>})
             b == Cut(a, Doubled(a, d.egress))
             r == Link(b, To("post", d.egress))
  <2>1. HealDry(h, d) \in {h, Link(h, To("bus", d.egress)), r}
    <3> HIDE DEF a, b, r
    <3> QED
      BY HealSteps DEF a, b, r
  <2>2. /\ Graph(h) /\ h.bad = NoNode /\ h.post /\ x \in h.up /\ x \in Range(d.egress)
        /\ x \in Dests
    BY <1>1, Hops DEF Serves
  <2>3. SameNodes(h, a) /\ <<"bus", "post">> \in a.links
    <3>1. /\ SameNodes(h, a)
          /\ a.links = h.links \cup {p \in {<<"bus", "post">>} : \A n \in Range(p) : Exists(h, n)}
      BY <2>2, Hops, Relinking
    <3> HIDE DEF a
    <3> QED
      BY <2>2, <3>1, Existing
  <2> HIDE DEF a
  <2>4. SameNodes(a, b) /\ <<"bus", "post">> \in b.links
    <3>1. Graph(a) /\ a.bad = NoNode
      BY <2>2, <2>3 DEF SameNodes
    <3>2. SameNodes(a, b) /\ b.links = a.links \ Doubled(a, d.egress)
      BY <3>1, Relinking
    <3>3. <<"bus", "post">> \notin Doubled(a, d.egress)
      BY <1>1, Hops, ConstantsAssumption DEF Doubled
    <3> QED
      BY <2>3, <3>2, <3>3
  <2> HIDE DEF b
  <2>5. SameNodes(b, r) /\ Path(r, x)
    <3>1. Graph(b) /\ b.bad = NoNode /\ b.post /\ x \in b.up
      BY <2>2, <2>3, <2>4 DEF SameNodes
    <3>2. /\ SameNodes(b, r)
          /\ r.links = b.links \cup {p \in To("post", d.egress) : \A n \in Range(p) : Exists(b, n)}
      BY <1>1, <3>1, Hops, Relinking
    <3>3. <<"post", x>> \in To("post", d.egress) /\ \A n \in Range(<<"post", x>>) : Exists(b, n)
      BY <2>2, <3>1, Existing DEF To
    <3> HIDE DEF r
    <3> QED
      BY <2>4, <3>2, <3>3 DEF Path
  <2> HIDE DEF r
  <2>6. Serves(r, d, x)
    BY <2>3, <2>4, <2>5 DEF Serves, SameNodes, Heard
  <2> QED
    BY <2>1, <2>6, SmallHeals
<1> QED
  BY <1>3, <1>4

\* The chain is no longer wanted and its nodes are gone: nothing plays, and
\* the bus goes to its outputs directly
Torn(h, d, x) == /\ Graph(h) /\ h.bad = NoNode /\ ~h.post /\ h.host = Dry /\ d.chain = Dry
                 /\ ~d.muted /\ x \in Range(d.egress) \cap h.up

\* The FX reconcile keeps what is heard, or tears a chain down that nobody wants.
LEMMA ReconcileServes ==
    ASSUME NEW d \in Desired, NEW h, NEW x, Serves(h, d, x)
    PROVE  LET c == ReconcileFx(h, d) IN Serves(c, d, x) \/ Torn(c, d, x)
<1> DEFINE primary == IF d.egress = <<>> THEN {} ELSE {<<"bus", Head(d.egress)>>}
           a == RestoreFeed(h)
           e == EngineArm(h, d, TRUE)
           Restored(y) == IF SpineReady(y) /\ ~d.muted
                          THEN IF d.egress # <<>> THEN EngineArm(y, d, TRUE) ELSE y
                          ELSE IF y.host = Dry THEN StripPost(y, d.egress) ELSE y
<1>1. ReconcileFx(h, d) = IF d.chain = Dry THEN IF h.host # Dry THEN TeardownChain(h) ELSE h
                          ELSE IF Matches(h, d) THEN Cut(e, primary)
                          ELSE Then(a, Restored)
  BY DEF ReconcileFx
<1>2. Then(a, Restored) = Restored(a)
  <2> HIDE DEF a, Restored
  <2> QED
    BY DEF Then
<1>3. a.host = Dry \/ Restored(a) \in {a, EngineArm(a, d, TRUE)}
  OBVIOUS
<1> HIDE DEF Restored
<1>4. CASE d.chain # Dry
  <2>1. Serves(a, d, x)
    BY SmallHeals
  <2> HIDE DEF a
  <2>2. h.host # Dry /\ a.host # Dry
    BY <1>4, <2>1 DEF Serves
  <2>3. Serves(EngineArm(a, d, TRUE), d, x)
    BY <2>1, <2>2, WetServes
  <2>4. Serves(Cut(e, primary), d, x)
    <3>1. /\ d.egress \in Egresses /\ e = Arm(h, TRUE, d.egress)
          /\ Graph(h) /\ h.bad = NoNode /\ h.post /\ x \in Range(d.egress) \cap h.up
      BY DEF Desired, EngineArm, Serves
    <3>2. SameNodes(h, e) /\ Path(e, x)
      BY <2>2, <3>1, WetArms
    <3> HIDE DEF e
    <3>3. Graph(e) /\ e.bad = NoNode
      BY <3>1, <3>2 DEF SameNodes
    <3>4. SameNodes(e, Cut(e, primary)) /\ Cut(e, primary).links = e.links \ primary
      BY <3>3, Relinking
    <3>5. {<<"bus", "fx">>, <<"bus", "post">>, <<"fx", "post">>, <<"post", x>>} \cap primary = {}
      <4>1. d.egress # <<>> => Head(d.egress) \in Dests
        <5>1. PICK m \in 0 .. Cardinality(Dests) : d.egress \in [1 .. m -> Dests]
          BY <3>1 DEF Egresses, SeqOf
        <5>2. m \in Nat
          BY ConstantsAssumption, FS_CardinalityType
        <5>3. d.egress \in Seq(Dests)
          BY <5>1, <5>2
        <5> QED
          BY <5>3
      <4>2. d.egress # <<>> => Head(d.egress) \notin {"fx", "post"}
        BY <4>1, ConstantsAssumption
      <4>3. primary = {} \/ (d.egress # <<>> /\ primary = {<<"bus", Head(d.egress)>>})
        OBVIOUS
      <4> HIDE DEF primary
      <4> QED
        BY <4>2, <4>3
    <3> HIDE DEF primary
    <3>6. Path(Cut(e, primary), x)
      BY <3>2, <3>4, <3>5 DEF Path
    <3> QED
      BY <3>2, <3>4, <3>6 DEF Serves, SameNodes, Heard
  <2> HIDE DEF e, primary
  <2> QED
    BY <1>1, <1>2, <1>3, <1>4, <2>1, <2>2, <2>3, <2>4
<1>5. CASE d.chain = Dry /\ h.host = Dry
  BY <1>1, <1>5
<1>6. CASE d.chain = Dry /\ h.host # Dry
  <2> DEFINE k == CutFrom(h, "bus", {})
             b == [k EXCEPT !.post = FALSE, !.host = Dry]
  <2>1. SameNodes(h, k)
    BY Relinking DEF Serves
  <2>2. TeardownChain(h) = Present(b)
    BY DEF TeardownChain
  <2> HIDE DEF k
  <2>3. b \in Shape /\ b.post = FALSE /\ b.host = Dry /\ b.up = h.up /\ b.bad = NoNode
    BY <2>1 DEF SameNodes, Graph, Shape, Racks, Serves
  <2> HIDE DEF b
  <2>4. /\ Graph(Present(b)) /\ Present(b).post = FALSE /\ Present(b).host = Dry
        /\ Present(b).up = h.up /\ Present(b).bad = NoNode
    BY <2>3, LinkKeeps DEF Present, Shape
  <2>5. Torn(TeardownChain(h), d, x)
    BY <1>6, <2>2, <2>4 DEF Torn, Serves
  <2> QED
    BY <1>1, <1>6, <2>5
<1> QED
  BY <1>4, <1>5, <1>6

\* The tick's last look: an output that hears the track goes on hearing it,
\* and behind a torn chain the bus is linked to it.
LEMMA ReapplyServes ==
    ASSUME NEW d \in Desired, NEW h, NEW x, Serves(h, d, x) \/ Torn(h, d, x)
    PROVE  Path(Reapply(h, d), x) \/ <<"bus", x>> \in Reapply(h, d).links
<1> DEFINE want == d.chain # Dry \/ h.host # Dry
<1>1. /\ d.egress \in Egresses /\ ~d.muted /\ x \in Range(d.egress) \cap h.up
      /\ Graph(h) /\ h.bad = NoNode
  BY DEF Desired, Serves, Torn
<1>2. Reapply(h, d) = IF EgressLive(h, want, d.egress)
                      THEN IF want THEN Cut(h, Doubled(h, d.egress)) ELSE h
                      ELSE IF EgressLive(h, FALSE, d.egress) THEN h
                      ELSE Arm(h, want, d.egress)
  BY <1>1 DEF Reapply, EngineArm
<1>3. CASE Serves(h, d, x)
  <2>1. Serves(Cut(h, Doubled(h, d.egress)), d, x)
    BY <1>3, SmallHeals
  <2>2. CASE want
    <3>1. h.host # Dry /\ h.post
      BY <1>3, <2>2 DEF Serves
    <3>2. Path(Arm(h, TRUE, d.egress), x)
      BY <1>1, <3>1, WetArms
    <3>3. Reapply(h, d) \in {h, Cut(h, Doubled(h, d.egress)), Arm(h, TRUE, d.egress)}
      BY <1>2, <2>2
    <3> QED
      BY <1>3, <2>1, <3>2, <3>3 DEF Serves, Heard
  <2>3. CASE ~want
    <3>1. Reapply(h, d) \in {h, Arm(h, FALSE, d.egress)}
      BY <1>2, <2>3
    <3>2. Arm(h, FALSE, d.egress) = ArmDry(h, d.egress)
      BY DEF Arm
    <3>3. Path(ArmDry(h, d.egress), x)
      BY <1>1, <1>3, DryArms DEF Serves
    <3> QED
      BY <1>3, <3>1, <3>2, <3>3 DEF Serves, Heard
  <2> QED
    BY <2>2, <2>3
<1>4. CASE Torn(h, d, x)
  <2>1. ~want /\ ~h.post
    BY <1>4 DEF Torn
  <2>2. CASE EgressLive(h, FALSE, d.egress)
    <3>1. DestsLinked(h, "bus", d.egress)
      BY <2>1, <2>2 DEF EgressLive
    <3>2. Reapply(h, d) = h
      BY <1>2, <2>1, <2>2
    <3> QED
      BY <1>1, <3>1, <3>2 DEF DestsLinked
  <2>3. CASE ~EgressLive(h, FALSE, d.egress)
    <3>1. Reapply(h, d) = ArmDry(h, d.egress)
      BY <1>2, <2>1, <2>3 DEF Arm
    <3>2. <<"bus", x>> \in ArmDry(h, d.egress).links
      BY <1>1, <2>1, DryArms
    <3> QED
      BY <3>1, <3>2
  <2> QED
    BY <2>2, <2>3
<1> QED
  BY <1>3, <1>4

\* One whole tick.
LEMMA TickServes ==
    ASSUME EgressInv, NEW x \in Dests, Hears(x), NEW slow \in BOOLEAN, NEW withFx \in BOOLEAN
    PROVE  LET r == Ticked(g, des, slow, withFx)
           IN  Path(r, x) \/ <<"bus", x>> \in r.links
<1> USE DEF EgressInv
<1> DEFINE Sweep(y) == IF slow \/ HealNeeded(y, des)
                       THEN Then(Prune(y, des), LAMBDA z : HealDry(z, des)) ELSE y
           Fx0(y) == IF withFx THEN ReconcileFx(y, des) ELSE y
           a == EnsurePost(g)
           b == Sweep(a)
           c == Fx0(b)
<1>1. Ticked(g, des, slow, withFx) = Then(Then(Then(a, Sweep), Fx0), LAMBDA y : Reapply(y, des))
  BY DEF Ticked
<1>2. Then(a, Sweep) = b
  <2> HIDE DEF a, Sweep
  <2> QED
    BY DEF Then
<1>3. Then(b, Fx0) = c
  <2> HIDE DEF b, Fx0
  <2> QED
    BY DEF Then
<1>4. Then(c, LAMBDA y : Reapply(y, des)) = Reapply(c, des)
  <2> HIDE DEF c
  <2> QED
    BY DEF Then
<1>5. des \in Desired /\ Graph(g) /\ g.bad = NoNode
  BY DEF Engine
<1>6. Serves(a, des, x)
  <2>1. /\ Graph(a) /\ a.links = g.links /\ a.post /\ a.host = g.host /\ a.up = g.up
        /\ a.bad = NoNode
    <3>1. Graph(a)
      BY <1>5, FeedKeeps DEF Honours
    <3> QED
      BY <1>5, <3>1 DEF EnsurePost, Graph, Shape
  <2>2. ~g.post => <<"post", x>> \notin g.links
    <3>1. <<"post", x>> \in g.links => \A n \in Range(<<"post", x>>) : Exists(g, n)
      BY <1>5 DEF Graph
    <3> QED
      BY <3>1, Existing
  <2> HIDE DEF a
  <2>3. Heard(a, x)
    BY <2>1, <2>2 DEF Hears, Through, Audible, Heard, Path
  <2> QED
    BY <2>1, <2>3 DEF Serves, Hears, Wanted, Hosted
<1>7. Serves(b, des, x)
  <2> DEFINE p == Prune(a, des)
  <2>1. Serves(p, des, x)
    <3> HIDE DEF a
    <3> QED
      BY <1>5, <1>6, SweepServes
  <2>2. Serves(HealDry(p, des), des, x)
    <3> HIDE DEF p
    <3> QED
      BY <1>5, <2>1, SweepServes
  <2>3. Then(p, LAMBDA z : HealDry(z, des)) = HealDry(p, des)
    <3> HIDE DEF p
    <3> QED
      BY DEF Then
  <2>4. b \in {a, Then(p, LAMBDA z : HealDry(z, des))}
    OBVIOUS
  <2> HIDE DEF a, b, p
  <2> QED
    BY <1>6, <2>2, <2>3, <2>4
<1>8. Serves(c, des, x) \/ Torn(c, des, x)
  <2>1. c \in {b, ReconcileFx(b, des)}
    OBVIOUS
  <2> HIDE DEF b, c
  <2> QED
    BY <1>5, <1>7, <2>1, ReconcileServes
<1> HIDE DEF a, b, c, Sweep, Fx0
<1>9. Path(Reapply(c, des), x) \/ <<"bus", x>> \in Reapply(c, des).links
  BY <1>5, <1>8, ReapplyServes
<1> QED
  BY <1>1, <1>2, <1>3, <1>4, <1>9

\* The idle tick (reconcile_light, runtime.rs) never silences an output that
\* hears the track the way it is meant to: whatever the graph, the healers,
\* the FX reconcile and the reapplied gate together leave it a way through.
THEOREM TickHarmlessAlways == Spec => TickHarmless
<1>1. ASSUME EgressInv, NEW x \in Dests, Hears(x),
             NEW slow \in BOOLEAN, NEW withFx \in BOOLEAN, Tick(slow, withFx, NoNode)
      PROVE  Audible(x)'
  <2> DEFINE r == Ticked(g, des, slow, withFx)
  <2>1. During(NoNode) = g
    BY <1>1 DEF During, EgressInv, Engine, Graph, Shape
  <2>2. g' = [r EXCEPT !.bad = NoNode]
    BY <1>1, <2>1 DEF Tick, Call
  <2>3. Path(r, x) \/ <<"bus", x>> \in r.links
    BY <1>1, TickServes
  <2>4. r \in Shape
    BY <1>1, TickKeeps DEF EgressInv, Engine, Honours, Graph
  <2> HIDE DEF r
  <2>5. g'.links = r.links
    BY <2>2, <2>4 DEF Shape
  <2> QED
    BY <2>3, <2>5 DEF Audible, Through, Path
<1>2. EgressInv => ((\E d \in Dests : Hears(d) /\ ~Audible(d)')
                      => ~ \E slow, withFx \in BOOLEAN : Tick(slow, withFx, NoNode))
  BY <1>1
<1>3. EgressInv /\ [Next]_vars
        => [(\E d \in Dests : Hears(d) /\ ~Audible(d)')
              => ~ \E slow, withFx \in BOOLEAN : Tick(slow, withFx, NoNode)]_vars
  BY <1>2
<1> QED
  BY <1>3, EgressInvariant, PTL DEF TickHarmless, Spec
=============================================================================
