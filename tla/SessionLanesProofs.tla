-------------------------- MODULE SessionLanesProofs --------------------------
(***************************************************************************)
(* Proofs about the session and its copies, for every number of edits and  *)
(* every choice of their kinds: TypeOK and Accounted hold in every         *)
(* reachable state.                                                        *)
(*                                                                         *)
(* Accounted speaks of the quiet states only.  The invariant says of each  *)
(* edit, at every step, where it is: in DesiredState, undone, or in a      *)
(* clone which the lanes or the FX thread are yet to bring to              *)
(* DesiredState.                                                           *)
(***************************************************************************)
EXTENDS SessionLanes, FiniteSetTheorems, SequenceTheorems, TLAPS

(* What the engine has, or had before something undid it.                  *)
Heard == desired \cup lost

(* The commands that are still to be executed.                             *)
Pending == Range(supQ) \cup Range(sup.work) \cup Range(intQ) \cup Range(int.work)

(* Commands that make DesiredState from their clone, whatever is in it.    *)
SyncKinds == {"route", "ensure", "prune", "apply", "play"}

(* The engine has the edit or will have it.                                *)
Bound(e) ==
    \/ e \in Heard
    \/ \E c \in Pending : c.kind \in SyncKinds /\ e \in c.s

(* The FX thread's part: clones in its commands, its channel, its hands.   *)
FxBound(e) ==
    \/ \E c \in Pending : c.kind = "fx" /\ e \in c.s
    \/ \E s \in Range(jobs) : e \in s
    \/ fx.pc = "run" /\ e \in fx.s

-----------------------------------------------------------------------------
(* The clones hold edits that were made, and the window has, or has lost,  *)
(* every one of them; a rack edit has set the deadline.                    *)
Known ==
    /\ \A c \in Pending : c.s \subseteq Made /\ c.e \in Made
    /\ \A s \in Range(events) \cup Range(jobs) \cup Range(done) : s \subseteq Made
    /\ slot.s \cup sup.last \cup int.last \cup fx.s \subseteq Made
    /\ ui \cup lost = Made
    /\ fxDue => \E e \in Made : kind[e] = "fx"

(* Commands are in the lane that executes their kind, and a lane's step    *)
(* agrees with the command it is at.                                       *)
Routed ==
    /\ \A c \in Range(supQ) \cup Range(sup.work) : c.kind \in SupKinds
    /\ \A c \in Range(intQ) \cup Range(int.work) : c.kind \in IntKinds
    /\ sup.pc \in {"pull", "merge", "recv", "run", "again", "auth", "sweep", "reclaim"}
    /\ int.pc \in {"pull", "publish", "recv", "run", "prefer", "place", "rack"}
    /\ sup.work # <<>> => sup.pc \in {"run", "again", "auth"}
    /\ int.work # <<>> => int.pc \in {"run", "prefer", "place", "rack"}
    /\ sup.pc \in {"again", "auth"} =>
         /\ sup.work # <<>>
         /\ Head(sup.work).kind \in {"apply", "ensure"}
         /\ Head(sup.work).s \subseteq Heard
    /\ int.pc \in {"prefer", "place"} =>
         int.work # <<>> /\ Head(int.work).kind = "pick"
    /\ int.pc = "place" => Head(int.work).e \in Heard
    /\ int.pc = "rack" => int.work # <<>> /\ Head(int.work).kind = "capture"

(* The window adopts nothing that the engine did not have.                 *)
Adoptable == \A s \in Range(events) : s \subseteq Heard

(* A later clone contains an earlier one, except for what was undone.      *)
Growing(q) == \A i, j \in DOMAIN q : i < j => q[i].s \subseteq q[j].s \cup lost

Ordered ==
    /\ Growing(supQ) /\ Growing(intQ)
    /\ \A i, j \in DOMAIN jobs : i < j => jobs[i] \subseteq jobs[j] \cup lost
    /\ \A s \in Range(jobs), c \in Range(supQ) \cup Range(sup.work) :
         c.kind = "fx" => s \subseteq c.s \cup lost
    /\ \A c \in Range(sup.work), d \in Range(supQ) :
         c.kind = "fx" => c.s \subseteq d.s \cup lost
    /\ \A i, j \in DOMAIN sup.work :
         sup.work[i].kind = "fx" /\ sup.work[j].kind = "fx" => i = j

(* The rack edits of a clone without the track do not need the FX thread.  *)
Safe(s) == HasTrack(s) \/ \A e \in Of("fx", s) : Bound(e)

FxSafe ==
    /\ Safe(ui)
    /\ \A c \in Pending : c.kind = "fx" => Safe(c.s)
    /\ \A s \in Range(jobs) : Safe(s)
    /\ fx.pc = "run" => Safe(fx.s)

(* Where an edit is.                                                       *)
CarriedEdit(e) ==
    \/ Bound(e)
    \/ kind[e] = "fx" /\ (fxDue \/ FxBound(e))
    \/ kind[e] = "capture" /\ \E c \in Pending : c.kind = "capture" /\ e \in c.s
    \/ kind[e] = "pick" /\ \E c \in Pending : c.kind = "pick" /\ c.e = e

Carried == \A e \in Made : CarriedEdit(e)

LanesInv ==
    TypeOK /\ Known /\ Routed /\ Adoptable /\ Ordered /\ FxSafe /\ Carried

-----------------------------------------------------------------------------
(***************************************************************************)
(* Coalescing.                                                             *)
(***************************************************************************)

(* The commands of some kinds are those of the batch that have the kinds,  *)
(* each of them, and the last one is the latest in the batch.              *)
LEMMA OfKindLemma ==
    ASSUME NEW b \in Seq(Commands), NEW ks
    PROVE  /\ OfKind(b, ks) \in Seq(Commands)
           /\ \A n \in DOMAIN OfKind(b, ks) :
                OfKind(b, ks)[n].kind \in ks /\ OfKind(b, ks)[n] \in Range(b)
           /\ \A i \in DOMAIN b :
                b[i].kind \in ks => \E n \in DOMAIN OfKind(b, ks) : OfKind(b, ks)[n] = b[i]
           /\ OfKind(b, ks) # <<>> =>
                \E m \in DOMAIN b :
                    /\ Last(OfKind(b, ks)) = b[m]
                    /\ b[m].kind \in ks
                    /\ \A i \in DOMAIN b : b[i].kind \in ks => i <= m
<1> DEFINE keep == {i \in DOMAIN b : b[i].kind \in ks}
           Rank(i) == Cardinality({j \in keep : j <= i})
           C == Cardinality(keep)
           At(n) == CHOOSE i \in keep : Rank(i) = n
           s == OfKind(b, ks)
<1>1. s = [n \in 1 .. C |-> b[At(n)]]
  BY DEF OfKind
<1>2. keep \subseteq 1 .. Len(b) /\ Len(b) \in Nat /\ DOMAIN b = 1 .. Len(b)
  BY LenProperties
<1>3. IsFiniteSet(keep) /\ C \in Nat
  <2>1. IsFiniteSet(1 .. Len(b)) BY <1>2, FS_Interval
  <2> QED BY <1>2, <2>1, FS_Subset, FS_CardinalityType
<1>4. ASSUME NEW i \in keep
      PROVE  Rank(i) \in 1 .. C
  <2> DEFINE below == {j \in keep : j <= i}
  <2>1. IsFiniteSet(below) /\ Cardinality(below) <= C /\ Cardinality(below) \in Nat
    BY <1>3, FS_Subset, FS_CardinalityType
  <2>2. i \in below BY <1>2
  <2>3. Cardinality(below) # 0 BY <2>1, <2>2, FS_EmptySet
  <2> QED BY <1>3, <2>1, <2>3
<1>5. ASSUME NEW i \in keep, NEW k \in keep, i < k
      PROVE  Rank(i) # Rank(k)
  <2> DEFINE low == {j \in keep : j <= i}
             high == {j \in keep : j <= k}
  <2>1. low \subseteq high BY <1>2, <1>5
  <2>2. IsFiniteSet(high) BY <1>3, FS_Subset
  <2>3. k \in high /\ k \notin low BY <1>2, <1>5
  <2>4. Cardinality(low) # Cardinality(high) BY <2>1, <2>2, <2>3, FS_Subset
  <2> QED BY <2>4
<1>6. \A n \in 1 .. C : \E i \in keep : Rank(i) = n
  <2> DEFINE f == [i \in keep |-> Rank(i)]
  <2>1. f \in [keep -> 1 .. C] BY <1>4
  <2>2. \A i, k \in keep : f[i] = f[k] => i = k
    <3> SUFFICES ASSUME NEW i \in keep, NEW k \in keep, i # k
                 PROVE  Rank(i) # Rank(k)
      OBVIOUS
    <3>1. i < k \/ k < i BY <1>2
    <3> QED BY <1>5, <3>1
  <2>3. f \in Injection(keep, 1 .. C)
    <3> HIDE DEF f
    <3> QED BY <2>1, <2>2 DEF Injection, IsInjective
  <2>4. IsFiniteSet(1 .. C) /\ Cardinality(1 .. C) = C
    BY <1>3, FS_Interval
  <2>5. f \in Surjection(keep, 1 .. C)
    <3> HIDE DEF f
    <3> QED BY <2>3, <2>4, FS_Injection
  <2>6. \A n \in 1 .. C : \E i \in keep : f[i] = n
    <3> HIDE DEF f
    <3> QED BY <2>5 DEF Surjection
  <2> QED BY <2>6
<1>7. \A n \in 1 .. C : At(n) \in keep /\ Rank(At(n)) = n
  <2> TAKE n \in 1 .. C
  <2>1. \E i \in keep : Rank(i) = n BY <1>6
  <2> HIDE DEF keep, Rank
  <2> QED BY <2>1
<1> HIDE DEF At
<1>8. /\ DOMAIN s = 1 .. C
      /\ \A n \in 1 .. C : s[n] = b[At(n)] /\ s[n] \in Commands
  <2>1. \A n \in 1 .. C : At(n) \in DOMAIN b BY <1>7
  <2>2. \A i \in DOMAIN b : b[i] \in Commands BY <1>2, ElementOfSeq
  <2> HIDE DEF C, s
  <2> QED BY <1>1, <2>1, <2>2
<1>9. s \in Seq(Commands) /\ Len(s) = C
  BY <1>1, <1>3, <1>8
<1>10. ASSUME NEW n \in DOMAIN s PROVE s[n].kind \in ks /\ s[n] \in Range(b)
  BY <1>7, <1>8 DEF Range
<1>11. ASSUME NEW i \in DOMAIN b, b[i].kind \in ks
       PROVE  \E n \in DOMAIN s : s[n] = b[i]
  <2>1. i \in keep BY <1>11
  <2>2. Rank(i) \in 1 .. C BY <1>4, <2>1
  <2>3. At(Rank(i)) \in keep /\ Rank(At(Rank(i))) = Rank(i) BY <1>7, <2>2
  <2> HIDE DEF Rank
  <2>4. At(Rank(i)) = i
    <3>1. ~(i < At(Rank(i))) /\ ~(At(Rank(i)) < i) BY <1>5, <2>1, <2>3
    <3>2. i \in Nat /\ At(Rank(i)) \in Nat BY <1>2, <2>1, <2>3
    <3> QED BY <3>1, <3>2
  <2> QED BY <1>8, <2>2, <2>4
<1>12. ASSUME s # <<>>
       PROVE  \E m \in DOMAIN b : /\ Last(s) = b[m]
                                  /\ b[m].kind \in ks
                                  /\ \A i \in DOMAIN b : b[i].kind \in ks => i <= m
  <2> DEFINE m == At(C)
             low == {j \in keep : j <= m}
  <2>1. C \in 1 .. C BY <1>3, <1>9, <1>12, EmptySeq
  <2>2. m \in keep /\ Cardinality(low) = C BY <1>7, <2>1
  <2>3. low = keep BY <1>3, <2>2, FS_Subset
  <2>4. \A i \in keep : i <= m BY <2>3
  <2>5. Last(s) = b[m] BY <1>8, <1>9, <2>1 DEF Last
  <2> QED BY <2>2, <2>4, <2>5
<1> HIDE DEF s
<1> QED BY <1>9, <1>10, <1>11, <1>12 DEF s

(* The last of some commands, when there is one.                           *)
LEMMA LastOfLemma ==
    ASSUME NEW s \in Seq(Commands)
    PROVE  /\ LastOf(s) \in Seq(Commands)
           /\ Len(LastOf(s)) \in 0 .. 1
           /\ Range(LastOf(s)) = IF s = <<>> THEN {} ELSE {Last(s)}
           /\ s # <<>> => Last(s) \in Range(s)
<1>1. CASE s = <<>>
  <2>1. LastOf(s) = <<>> BY <1>1 DEF LastOf
  <2>2. DOMAIN <<>> = {} OBVIOUS
  <2>3. Range(<<>>) = {} BY <2>2 DEF Range
  <2>4. <<>> \in Seq(Commands) /\ Len(<<>>) = 0 BY EmptySeq
  <2>5. LastOf(s) \in Seq(Commands) BY <2>1, <2>4
  <2>6. Len(LastOf(s)) \in 0 .. 1 BY <2>1, <2>4
  <2> HIDE DEF LastOf
  <2> QED BY <1>1, <2>1, <2>3, <2>5, <2>6
<1>2. CASE s # <<>>
  <2>1. Len(s) \in 1 .. Len(s) BY <1>2, EmptySeq, LenProperties
  <2>2. Last(s) \in Commands /\ Last(s) \in Range(s)
    BY <2>1, ElementOfSeq, LenProperties DEF Last, Range
  <2>3. LastOf(s) = <<Last(s)>> BY <1>2 DEF LastOf
  <2>4. Range(<<Last(s)>>) = {Last(s)} BY DEF Range
  <2>5. <<Last(s)>> \in Seq(Commands) /\ Len(<<Last(s)>>) = 1 BY <2>2
  <2> QED BY <1>2, <2>2, <2>3, <2>4, <2>5
<1> QED BY <1>1, <1>2

(* Commands joined to others.                                              *)
LEMMA JoinLemma ==
    ASSUME NEW s \in Seq(Commands), NEW t \in Seq(Commands)
    PROVE  /\ s \o t \in Seq(Commands)
           /\ Len(s \o t) = Len(s) + Len(t)
           /\ Range(s \o t) = Range(s) \cup Range(t)
           /\ \A i \in 1 .. Len(s) + Len(t) :
                (s \o t)[i] = IF i <= Len(s) THEN s[i] ELSE t[i - Len(s)]
<1>1. Range(s \o t) = Range(s) \cup Range(t) BY RangeConcatenation
<1>2. /\ s \o t \in Seq(Commands)
      /\ Len(s \o t) = Len(s) + Len(t)
      /\ \A i \in 1 .. Len(s) + Len(t) :
           (s \o t)[i] = IF i <= Len(s) THEN s[i] ELSE t[i - Len(s)]
  BY ConcatProperties
<1> QED BY <1>1, <1>2

(* A command taken for the latest of its kinds.                            *)
LEMMA LatestLemma ==
    ASSUME NEW b \in Seq(Commands), NEW k,
           NEW i \in DOMAIN b, b[i].kind = k
    PROVE  \E j \in DOMAIN b : /\ i <= j
                               /\ b[j].kind = k
                               /\ b[j] \in Range(LastOf(OfKind(b, {k})))
<1> DEFINE s == OfKind(b, {k})
<1>1. s \in Seq(Commands) /\ \E n \in DOMAIN s : s[n] = b[i]
  BY OfKindLemma
<1>2. s # <<>>
  <2>1. s = <<>> => DOMAIN s = {} OBVIOUS
  <2> HIDE DEF s
  <2> QED BY <1>1, <2>1
<1>3. PICK m \in DOMAIN b : /\ Last(s) = b[m]
                            /\ b[m].kind \in {k}
                            /\ \A h \in DOMAIN b : b[h].kind \in {k} => h <= m
  BY <1>2, OfKindLemma
<1>4. Range(LastOf(s)) = {Last(s)}
  <2> HIDE DEF s
  <2> QED BY <1>1, <1>2, LastOfLemma
<1> HIDE DEF s
<1> QED BY <1>3, <1>4 DEF s

(* Coalescing drops no command but a rewire, a capture or a playback that  *)
(* a later one of its kind follows, and leaves at most one FX rewire.      *)
LEMMA CoalesceLemma ==
    ASSUME NEW b \in Seq(Commands)
    PROVE  /\ Coalesce(b) \in Seq(Commands)
           /\ Range(Coalesce(b)) \subseteq Range(b)
           /\ \A i \in DOMAIN b :
                b[i].kind \in {"ensure", "prune", "apply", "pick"}
                    => b[i] \in Range(Coalesce(b))
           /\ \A i \in DOMAIN b :
                b[i].kind \in {"route", "fx", "capture", "play"}
                    => \E j \in DOMAIN b : /\ i <= j
                                           /\ b[j].kind = b[i].kind
                                           /\ b[j] \in Range(Coalesce(b))
           /\ \A i, j \in DOMAIN Coalesce(b) :
                Coalesce(b)[i].kind = "fx" /\ Coalesce(b)[j].kind = "fx" => i = j
<1> DEFINE P1 == OfKind(b, {"pick"})
           P2 == OfKind(b, {"ensure", "prune"})
           P3 == LastOf(OfKind(b, {"capture"}))
           P4 == LastOf(OfKind(b, {"play"}))
           P5 == OfKind(b, {"apply"})
           P6 == LastOf(OfKind(b, {"fx"}))
           P7 == LastOf(OfKind(b, {"route"}))
           A1 == P1 \o P2
           A2 == A1 \o P3
           A3 == A2 \o P4
           A == A3 \o P5
           F == A \o P6
           W == Coalesce(b)
<1>1. W = F \o P7 BY DEF Coalesce
<1>2. \A ks : /\ OfKind(b, ks) \in Seq(Commands)
              /\ Range(OfKind(b, ks)) \subseteq Range(b)
              /\ \A c \in Range(OfKind(b, ks)) : c.kind \in ks
              /\ \A i \in DOMAIN b : b[i].kind \in ks => b[i] \in Range(OfKind(b, ks))
  <2> TAKE ks
  <2> DEFINE s == OfKind(b, ks)
  <2>1. /\ s \in Seq(Commands)
        /\ \A n \in DOMAIN s : s[n].kind \in ks /\ s[n] \in Range(b)
        /\ \A i \in DOMAIN b : b[i].kind \in ks => \E n \in DOMAIN s : s[n] = b[i]
    BY OfKindLemma
  <2> HIDE DEF s
  <2>2. /\ Range(s) \subseteq Range(b)
        /\ \A c \in Range(s) : c.kind \in ks
        /\ \A i \in DOMAIN b : b[i].kind \in ks => b[i] \in Range(s)
    BY <2>1 DEF Range
  <2> QED BY <2>1, <2>2 DEF s
<1>3. \A k : /\ LastOf(OfKind(b, {k})) \in Seq(Commands)
             /\ Len(LastOf(OfKind(b, {k}))) \in 0 .. 1
             /\ Range(LastOf(OfKind(b, {k}))) \subseteq Range(b)
             /\ \A c \in Range(LastOf(OfKind(b, {k}))) : c.kind = k
  <2> TAKE k
  <2> DEFINE s == OfKind(b, {k})
  <2>1. /\ s \in Seq(Commands)
        /\ Range(s) \subseteq Range(b)
        /\ \A c \in Range(s) : c.kind = k
    BY <1>2
  <2> HIDE DEF s
  <2>2. /\ LastOf(s) \in Seq(Commands)
        /\ Len(LastOf(s)) \in 0 .. 1
        /\ Range(LastOf(s)) \subseteq Range(s)
    BY <2>1, LastOfLemma
  <2> QED BY <2>1, <2>2 DEF s
<1>4. /\ P1 \in Seq(Commands) /\ P2 \in Seq(Commands) /\ P3 \in Seq(Commands)
      /\ P4 \in Seq(Commands) /\ P5 \in Seq(Commands) /\ P6 \in Seq(Commands)
      /\ P7 \in Seq(Commands) /\ Len(P6) \in 0 .. 1 /\ Len(P7) \in 0 .. 1
  BY <1>2, <1>3
<1>5. \A c \in Range(P1) \cup Range(P2) \cup Range(P3) \cup Range(P4) \cup Range(P5)
             \cup Range(P6) \cup Range(P7) : c \in Range(b)
  BY <1>2, <1>3
<1>6. /\ \A c \in Range(P1) \cup Range(P2) \cup Range(P3) \cup Range(P4) \cup Range(P5) :
           c.kind # "fx"
      /\ \A c \in Range(P7) : c.kind # "fx"
  BY <1>2, <1>3
<1>7. \A i \in DOMAIN b :
        b[i].kind \in {"ensure", "prune", "apply", "pick"}
            => b[i] \in Range(P1) \cup Range(P2) \cup Range(P5)
  BY <1>2
<1>8. \A i \in DOMAIN b :
        b[i].kind \in {"route", "fx", "capture", "play"}
            => \E j \in DOMAIN b :
                  /\ i <= j
                  /\ b[j].kind = b[i].kind
                  /\ b[j] \in Range(P3) \cup Range(P4) \cup Range(P6) \cup Range(P7)
  BY LatestLemma
<1> HIDE DEF P1, P2, P3, P4, P5, P6, P7, W
<1>9. /\ A \in Seq(Commands)
      /\ Range(A) = Range(P1) \cup Range(P2) \cup Range(P3) \cup Range(P4) \cup Range(P5)
  <2>1. A1 \in Seq(Commands) /\ Range(A1) = Range(P1) \cup Range(P2)
    BY <1>4, JoinLemma
  <2> HIDE DEF A1
  <2>2. A2 \in Seq(Commands) /\ Range(A2) = Range(A1) \cup Range(P3)
    BY <1>4, <2>1, JoinLemma
  <2> HIDE DEF A2
  <2>3. A3 \in Seq(Commands) /\ Range(A3) = Range(A2) \cup Range(P4)
    BY <1>4, <2>2, JoinLemma
  <2> HIDE DEF A3
  <2>4. A \in Seq(Commands) /\ Range(A) = Range(A3) \cup Range(P5)
    BY <1>4, <2>3, JoinLemma
  <2> HIDE DEF A
  <2> QED BY <2>1, <2>2, <2>3, <2>4
<1> HIDE DEF A
<1>10. /\ F \in Seq(Commands) /\ Len(F) = Len(A) + Len(P6)
       /\ Range(F) = Range(A) \cup Range(P6)
       /\ \A i \in 1 .. Len(A) + Len(P6) :
            F[i] = IF i <= Len(A) THEN A[i] ELSE P6[i - Len(A)]
  BY <1>4, <1>9, JoinLemma
<1> HIDE DEF F
<1>11. /\ W \in Seq(Commands) /\ Len(W) = Len(A) + Len(P6) + Len(P7)
       /\ Range(W) = Range(A) \cup Range(P6) \cup Range(P7)
       /\ \A i \in 1 .. Len(A) + Len(P6) + Len(P7) :
            W[i] = IF i <= Len(F) THEN F[i] ELSE P7[i - Len(F)]
  <2>1. /\ F \o P7 \in Seq(Commands) /\ Len(F \o P7) = Len(F) + Len(P7)
        /\ Range(F \o P7) = Range(F) \cup Range(P7)
        /\ \A i \in 1 .. Len(F) + Len(P7) :
             (F \o P7)[i] = IF i <= Len(F) THEN F[i] ELSE P7[i - Len(F)]
    BY <1>4, <1>10, JoinLemma
  <2> QED BY <1>1, <1>10, <2>1
<1>12. ASSUME NEW i \in DOMAIN W, W[i].kind = "fx"
       PROVE  i = Len(A) + 1
  <2>1. /\ Len(A) \in Nat /\ Len(P6) \in 0 .. 1 /\ Len(P7) \in 0 .. 1
        /\ DOMAIN W = 1 .. Len(W)
        /\ DOMAIN A = 1 .. Len(A) /\ DOMAIN P7 = 1 .. Len(P7)
    <3>1. Len(A) \in Nat /\ DOMAIN A = 1 .. Len(A) BY <1>9, LenProperties
    <3>3. DOMAIN P7 = 1 .. Len(P7) BY <1>4, LenProperties
    <3>4. DOMAIN W = 1 .. Len(W) BY <1>11, LenProperties
    <3> QED BY <1>4, <3>1, <3>3, <3>4
  <2>2. \A j \in 1 .. Len(A) : A[j].kind # "fx"
    BY <1>6, <1>9, <2>1 DEF Range
  <2>3. \A j \in 1 .. Len(P7) : P7[j].kind # "fx"
    BY <1>6, <2>1 DEF Range
  <2>4. i \in 1 .. Len(A) + Len(P6) + Len(P7) BY <1>11, <2>1
  <2>5. ~(i <= Len(A))
    <3> SUFFICES ASSUME i <= Len(A) PROVE FALSE OBVIOUS
    <3>1. W[i] = A[i] BY <1>10, <1>11, <2>1, <2>4
    <3> QED BY <1>12, <2>1, <2>2, <2>4, <3>1
  <2>6. ~(i > Len(A) + Len(P6))
    <3> SUFFICES ASSUME i > Len(A) + Len(P6) PROVE FALSE OBVIOUS
    <3>1. W[i] = P7[i - (Len(A) + Len(P6))] BY <1>10, <1>11, <2>1, <2>4
    <3>2. i - (Len(A) + Len(P6)) \in 1 .. Len(P7) BY <2>1, <2>4
    <3> QED BY <1>12, <2>3, <3>1, <3>2
  <2>7. i \in Nat /\ Len(A) < i /\ i <= Len(A) + Len(P6) BY <2>1, <2>4, <2>5, <2>6
  <2>8. \A x, y, l \in Nat : l \in 0 .. 1 /\ y < x /\ x <= y + l => x = y + 1
    OBVIOUS
  <2>9. Len(A) \in Nat /\ Len(P6) \in 0 .. 1 BY <2>1
  <2>10. Len(P6) \in Nat BY <2>9
  <2> QED BY <2>7, <2>8, <2>9, <2>10
<1>13. Range(W) \subseteq Range(b) BY <1>5, <1>9, <1>11
<1>14. \A i \in DOMAIN b :
         b[i].kind \in {"ensure", "prune", "apply", "pick"} => b[i] \in Range(W)
  BY <1>7, <1>9, <1>11
<1>15. \A i \in DOMAIN b :
         b[i].kind \in {"route", "fx", "capture", "play"}
             => \E j \in DOMAIN b : /\ i <= j
                                    /\ b[j].kind = b[i].kind
                                    /\ b[j] \in Range(W)
  BY <1>8, <1>9, <1>11
<1> QED BY <1>11, <1>12, <1>13, <1>14, <1>15 DEF W

-----------------------------------------------------------------------------
(***************************************************************************)
(* Queues.                                                                 *)
(***************************************************************************)

(* An element is added at the end.                                         *)
LEMMA AppendLemma ==
    ASSUME NEW S, NEW q \in Seq(S), NEW x \in S
    PROVE  /\ Append(q, x) \in Seq(S)
           /\ Range(Append(q, x)) = Range(q) \cup {x}
           /\ Len(Append(q, x)) = Len(q) + 1
           /\ DOMAIN Append(q, x) = 1 .. Len(q) + 1
           /\ DOMAIN q = 1 .. Len(q) /\ Len(q) \in Nat
           /\ Append(q, x)[Len(q) + 1] = x
           /\ \A i \in 1 .. Len(q) : Append(q, x)[i] = q[i]
<1> DEFINE r == Append(q, x)
<1>1. /\ r \in Seq(S) /\ Len(r) = Len(q) + 1
      /\ \A i \in 1 .. Len(q) : r[i] = q[i]
      /\ r[Len(q) + 1] = x
  BY AppendProperties
<1>2. DOMAIN q = 1 .. Len(q) /\ Len(q) \in Nat BY LenProperties
<1> HIDE DEF r
<1>3. DOMAIN r = 1 .. Len(q) + 1 BY <1>1, LenProperties
<1>4. Range(r) = Range(q) \cup {x}
  <2>1. \A i \in 1 .. Len(q) + 1 : i \in 1 .. Len(q) \/ i = Len(q) + 1 BY <1>2
  <2>2. \A i \in 1 .. Len(q) : i \in 1 .. Len(q) + 1 BY <1>2
  <2>3. Len(q) + 1 \in 1 .. Len(q) + 1 BY <1>2
  <2> QED BY <1>1, <1>2, <1>3, <2>1, <2>2, <2>3 DEF Range
<1> QED BY <1>1, <1>2, <1>3, <1>4 DEF r

(* The first one is taken.                                                 *)
LEMMA TailLemma ==
    ASSUME NEW S, NEW q \in Seq(S), q # <<>>
    PROVE  /\ Head(q) \in S /\ Head(q) \in Range(q) /\ Head(q) = q[1]
           /\ Tail(q) \in Seq(S)
           /\ Range(q) = {Head(q)} \cup Range(Tail(q))
           /\ Len(q) \in Nat /\ Len(q) >= 1
           /\ DOMAIN q = 1 .. Len(q) /\ DOMAIN Tail(q) = 1 .. Len(q) - 1
           /\ \A i \in 1 .. Len(q) - 1 : Tail(q)[i] = q[i + 1]
<1> DEFINE t == Tail(q)
<1>1. /\ Head(q) \in S /\ t \in Seq(S) /\ Len(t) = Len(q) - 1
      /\ \A i \in 1 .. Len(t) : t[i] = q[i + 1]
  BY HeadTailProperties
<1>2. DOMAIN q = 1 .. Len(q) /\ Len(q) \in Nat \ {0} BY LenProperties, EmptySeq
<1>3. Head(q) = q[1] OBVIOUS
<1> HIDE DEF t
<1>4. DOMAIN t = 1 .. Len(q) - 1 BY <1>1, LenProperties
<1>5. Range(q) = {Head(q)} \cup Range(t)
  <2>1. \A i \in 1 .. Len(q) : i = 1 \/ (i - 1 \in 1 .. Len(q) - 1 /\ (i - 1) + 1 = i)
    BY <1>2
  <2>2. \A i \in 1 .. Len(q) - 1 : i + 1 \in 1 .. Len(q) BY <1>2
  <2>3. 1 \in 1 .. Len(q) BY <1>2
  <2>4. Range(q) \subseteq {Head(q)} \cup Range(t)
    <3> SUFFICES ASSUME NEW i \in 1 .. Len(q)
                 PROVE  q[i] = Head(q) \/ q[i] \in Range(t)
      BY <1>2 DEF Range
    <3>1. CASE i = 1 BY <1>3, <3>1
    <3>2. CASE i # 1
      <4>1. i - 1 \in 1 .. Len(q) - 1 /\ (i - 1) + 1 = i BY <2>1, <3>2
      <4>2. t[i - 1] = q[i] BY <1>1, <4>1
      <4> QED BY <1>4, <4>1, <4>2 DEF Range
    <3> QED BY <3>1, <3>2
  <2>5. Range(t) \subseteq Range(q)
    BY <1>1, <1>2, <1>4, <2>2 DEF Range
  <2>6. Head(q) \in Range(q) BY <1>2, <1>3, <2>3 DEF Range
  <2> QED BY <2>4, <2>5, <2>6
<1> QED BY <1>1, <1>2, <1>3, <1>4, <1>5 DEF t

(* The first n are taken.                                                  *)
LEMMA LeftLemma ==
    ASSUME NEW S, NEW q \in Seq(S), NEW n \in 1 .. Len(q)
    PROVE  /\ Left(q, n) \in Seq(S)
           /\ Range(Left(q, n)) \subseteq Range(q)
           /\ Len(q) \in Nat /\ DOMAIN q = 1 .. Len(q)
           /\ DOMAIN Left(q, n) = 1 .. Len(q) - n
           /\ \A i \in 1 .. Len(q) - n : Left(q, n)[i] = q[n + i]
           /\ SubSeq(q, 1, n) \in Seq(S)
           /\ DOMAIN SubSeq(q, 1, n) = 1 .. n
           /\ \A i \in 1 .. n : SubSeq(q, 1, n)[i] = q[i]
<1> DEFINE r == Left(q, n)
           p == SubSeq(q, 1, n)
<1>1. DOMAIN q = 1 .. Len(q) /\ Len(q) \in Nat /\ n \in Nat /\ n <= Len(q)
  BY LenProperties
<1>2. \A i \in 1 .. Len(q) : q[i] \in S BY ElementOfSeq
<1>3. /\ p \in Seq(S) /\ Len(p) = n
      /\ \A i \in 1 .. n : p[i] = q[i]
  <2>1. 1 \in Int /\ n \in Int /\ 1 <= n /\ \A i \in 1 .. n : q[i] \in S BY <1>1, <1>2
  <2>2. /\ p \in Seq(S) /\ Len(p) = IF 1 <= n THEN n - 1 + 1 ELSE 0
        /\ \A i \in 1 .. n - 1 + 1 : p[i] = q[1 + i - 1]
    BY <2>1, SubSeqProperties
  <2>3. n - 1 + 1 = n /\ \A i \in 1 .. n : 1 + i - 1 = i BY <1>1
  <2> HIDE DEF p
  <2> QED BY <2>1, <2>2, <2>3
<1>4. /\ r \in Seq(S) /\ Len(r) = Len(q) - n
      /\ \A i \in 1 .. Len(q) - n : r[i] = q[n + i]
  <2>1. n + 1 \in Int /\ Len(q) \in Int /\ \A i \in n + 1 .. Len(q) : q[i] \in S
    BY <1>1, <1>2
  <2>2. /\ r \in Seq(S)
        /\ Len(r) = IF n + 1 <= Len(q) THEN Len(q) - (n + 1) + 1 ELSE 0
        /\ \A i \in 1 .. Len(q) - (n + 1) + 1 : r[i] = q[n + 1 + i - 1]
    BY <2>1, SubSeqProperties DEF Left
  <2>3. Len(q) - (n + 1) + 1 = Len(q) - n BY <1>1
  <2>4. n + 1 <= Len(q) \/ Len(q) - n = 0
    <3>1. \A a, b \in Nat : a <= b => a + 1 <= b \/ b - a = 0 OBVIOUS
    <3> QED BY <1>1, <3>1
  <2>5. \A i \in 1 .. Len(q) - n : n + 1 + i - 1 = n + i BY <1>1
  <2> HIDE DEF r
  <2> QED BY <1>1, <2>2, <2>3, <2>4, <2>5
<1> HIDE DEF r, p
<1>5. DOMAIN r = 1 .. Len(q) - n /\ DOMAIN p = 1 .. n BY <1>3, <1>4, LenProperties
<1>6. Range(r) \subseteq Range(q)
  <2>1. \A i \in 1 .. Len(q) - n : n + i \in 1 .. Len(q) BY <1>1
  <2> QED BY <1>1, <1>4, <1>5, <2>1 DEF Range
<1> QED BY <1>1, <1>3, <1>4, <1>5, <1>6 DEF r, p

(* A lane takes commands: each is left in the queue, is in the work, or    *)
(* has one of its kind there that makes up for it.                         *)
LEMMA TakeLemma ==
    ASSUME NEW q \in Seq(Commands), NEW n \in 1 .. Len(q), Growing(q)
    PROVE  LET w == Coalesce(SubSeq(q, 1, n))
               r == Left(q, n)
           IN  /\ w \in Seq(Commands) /\ r \in Seq(Commands)
               /\ Range(w) \subseteq Range(q) /\ Range(r) \subseteq Range(q)
               /\ Growing(r)
               /\ \A c \in Range(w), d \in Range(r) : c.s \subseteq d.s \cup lost
               /\ \A c \in Range(q) : \E d \in Range(r) \cup Range(w) :
                    /\ d.kind = c.kind
                    /\ c.s \subseteq d.s \cup lost
                    /\ c.kind = "pick" => d = c
               /\ \A i, j \in DOMAIN w :
                    w[i].kind = "fx" /\ w[j].kind = "fx" => i = j
<1> DEFINE p == SubSeq(q, 1, n)
           w == Coalesce(p)
           r == Left(q, n)
<1>1. /\ r \in Seq(Commands)
      /\ Range(r) \subseteq Range(q)
      /\ Len(q) \in Nat /\ DOMAIN q = 1 .. Len(q)
      /\ DOMAIN r = 1 .. Len(q) - n
      /\ \A i \in 1 .. Len(q) - n : r[i] = q[n + i]
      /\ p \in Seq(Commands)
      /\ DOMAIN p = 1 .. n
      /\ \A i \in 1 .. n : p[i] = q[i]
  BY LeftLemma
<1>2. n \in Nat /\ n <= Len(q) BY <1>1
<1> HIDE DEF p, r
<1>3. /\ w \in Seq(Commands)
      /\ Range(w) \subseteq Range(p)
      /\ \A i \in DOMAIN p :
           p[i].kind \in {"ensure", "prune", "apply", "pick"} => p[i] \in Range(w)
      /\ \A i \in DOMAIN p :
           p[i].kind \in {"route", "fx", "capture", "play"}
               => \E j \in DOMAIN p : /\ i <= j
                                      /\ p[j].kind = p[i].kind
                                      /\ p[j] \in Range(w)
      /\ \A i, j \in DOMAIN w :
           w[i].kind = "fx" /\ w[j].kind = "fx" => i = j
  BY <1>1, CoalesceLemma
<1> HIDE DEF w
<1>4. Range(p) \subseteq Range(q)
  <2>1. \A i \in 1 .. n : i \in 1 .. Len(q) BY <1>1, <1>2
  <2> QED BY <1>1, <2>1 DEF Range
<1>5. Growing(r)
  <2> SUFFICES ASSUME NEW i \in DOMAIN r, NEW j \in DOMAIN r, i < j
               PROVE  r[i].s \subseteq r[j].s \cup lost
    BY DEF Growing
  <2>1. n + i \in DOMAIN q /\ n + j \in DOMAIN q /\ n + i < n + j BY <1>1, <1>2
  <2> QED BY <1>1, <2>1 DEF Growing
<1>6. \A c \in Range(w), d \in Range(r) : c.s \subseteq d.s \cup lost
  <2> SUFFICES ASSUME NEW c \in Range(w), NEW d \in Range(r)
               PROVE  c.s \subseteq d.s \cup lost
    OBVIOUS
  <2>1. PICK i \in DOMAIN p : c = p[i] BY <1>3 DEF Range
  <2>2. PICK j \in DOMAIN r : d = r[j] BY DEF Range
  <2>3. i \in DOMAIN q /\ n + j \in DOMAIN q /\ i < n + j BY <1>1, <1>2
  <2>4. c = q[i] /\ d = q[n + j] BY <1>1, <2>1, <2>2
  <2> QED BY <2>3, <2>4 DEF Growing
<1>7. ASSUME NEW c \in Range(q)
      PROVE  \E d \in Range(r) \cup Range(w) :
                /\ d.kind = c.kind
                /\ c.s \subseteq d.s \cup lost
                /\ c.kind = "pick" => d = c
  <2>1. PICK i \in DOMAIN q : c = q[i] BY DEF Range
  <2>2. CASE i > n
    <3>1. i - n \in 1 .. Len(q) - n /\ n + (i - n) = i BY <1>1, <1>2, <2>2
    <3>2. c = r[i - n] BY <1>1, <2>1, <3>1
    <3>3. c \in Range(r) BY <1>1, <3>1, <3>2 DEF Range
    <3> QED BY <3>3
  <2>3. CASE i <= n
    <3>1. i \in 1 .. n /\ c = p[i] BY <1>1, <1>2, <2>1, <2>3
    <3>2. c \in Commands BY <1>1, <2>1, ElementOfSeq
    <3>3. c.kind \in SupKinds \cup IntKinds
      BY <3>2, KindsAssumption DEF Commands
    <3>4. CASE c.kind \in {"ensure", "prune", "apply", "pick"}
      BY <1>1, <1>3, <3>1, <3>4
    <3>5. CASE c.kind \in {"route", "fx", "capture", "play"}
      <4>1. PICK j \in DOMAIN p : /\ i <= j
                                  /\ p[j].kind = p[i].kind
                                  /\ p[j] \in Range(w)
        BY <1>1, <1>3, <3>1, <3>5
      <4>2. j \in DOMAIN q /\ p[j] = q[j] BY <1>1, <1>2
      <4>3. c.s \subseteq p[j].s \cup lost
        <5>1. CASE i = j BY <3>1, <5>1
        <5>2. CASE i < j BY <2>1, <4>2, <5>2 DEF Growing
        <5>3. i \in Nat /\ j \in Nat BY <1>1
        <5> QED BY <4>1, <5>1, <5>2, <5>3
      <4> QED BY <3>1, <3>5, <4>1, <4>3
    <3> QED BY <3>3, <3>4, <3>5 DEF SupKinds, IntKinds
  <2>4. i \in Nat BY <1>1
  <2> QED BY <1>2, <2>2, <2>3, <2>4
<1> QED BY <1>1, <1>3, <1>4, <1>5, <1>6, <1>7 DEF w, r, p

-----------------------------------------------------------------------------
(***************************************************************************)
(* What a step does with what is pending, and what follows for the edits.  *)
(***************************************************************************)

(* Nothing that is pending is dropped: it is still there, in a later clone *)
(* of its kind, or its edits were heard, or have gone to the FX thread.    *)
Handed ==
    /\ Heard \subseteq Heard'
    /\ lost \subseteq lost'
    /\ \A c \in Pending :
         \/ \E d \in Pending' : /\ d.kind = c.kind
                                /\ c.s \subseteq d.s \cup lost'
                                /\ c.kind = "pick" => d.e = c.e
         \/ c.kind # "pick" /\ c.s \subseteq Heard'
         \/ c.kind = "fx" /\ c.s \in Range(jobs)'
         \/ c.kind = "capture" /\ Of("capture", c.s) \subseteq Heard'
         \/ c.kind = "pick" /\ c.e \in Heard'
    /\ \A s \in Range(jobs) :
         \/ \E t \in Range(jobs)' : s \subseteq t \cup lost'
         \/ fx'.pc = "run" /\ s \subseteq fx'.s \cup lost'
    /\ fx.pc = "run" => \/ fx'.pc = "run" /\ fx'.s = fx.s
                        \/ fx.s \subseteq Heard'
                        \/ \A e \in Of("fx", fx.s) : Bound(e)

(* The FX clones come from where they were, or from the window.            *)
Origin ==
    /\ \A c \in Pending' : c.kind = "fx" => c \in Pending \/ c.s = ui
    /\ \A s \in Range(jobs)' :
         s \in Range(jobs) \/ \E c \in Pending : c.kind = "fx" /\ s = c.s
    /\ fx'.pc = "run" => \/ fx.pc = "run" /\ fx'.s = fx.s
                         \/ fx'.s \in Range(jobs)

(* The kind of an edit does not change.                                    *)
SameKinds == Made \subseteq Made' /\ \A e \in Made : kind'[e] = kind[e]

(* What the engine is bound to hear, it stays bound to hear.               *)
LEMMA BoundKept ==
    ASSUME Handed, NEW e, Bound(e)
    PROVE  Bound(e)'
<1>1. CASE e \in Heard BY <1>1 DEF Handed, Bound
<1>2. CASE \E c \in Pending : c.kind \in SyncKinds /\ e \in c.s
  <2>1. PICK c \in Pending : c.kind \in SyncKinds /\ e \in c.s BY <1>2
  <2>2. c.kind \notin {"fx", "capture", "pick"} BY <2>1 DEF SyncKinds
  <2>3. CASE c.s \subseteq Heard' BY <2>1, <2>3 DEF Bound
  <2>4. CASE \E d \in Pending' : d.kind = c.kind /\ c.s \subseteq d.s \cup lost'
    <3>1. PICK d \in Pending' : d.kind = c.kind /\ c.s \subseteq d.s \cup lost'
      BY <2>4
    <3>2. e \in d.s \/ e \in lost' BY <2>1, <3>1
    <3>3. CASE e \in lost' BY <3>3 DEF Bound, Heard
    <3>4. CASE e \in d.s BY <2>1, <3>1, <3>4 DEF Bound, SyncKinds
    <3> QED BY <3>2, <3>3, <3>4
  <2> QED BY <2>2, <2>3, <2>4 DEF Handed
<1> QED BY <1>1, <1>2 DEF Bound

(* A rack edit stays with the FX thread, unless the engine hears it.       *)
LEMMA FxKept ==
    ASSUME Handed, NEW e, kind[e] = "fx", FxBound(e)
    PROVE  FxBound(e)' \/ Bound(e)'
<1>1. ASSUME NEW s, e \in s, s \subseteq Heard'
      PROVE  Bound(e)'
  BY <1>1 DEF Bound
<1>2. e \in lost' => Bound(e)' BY DEF Bound, Heard
<1>3. ASSUME NEW s, s \in Range(jobs)', e \in s
      PROVE  FxBound(e)'
  BY <1>3 DEF FxBound
<1>4. CASE \E c \in Pending : c.kind = "fx" /\ e \in c.s
  <2>1. PICK c \in Pending : c.kind = "fx" /\ e \in c.s BY <1>4
  <2>2. CASE c.s \subseteq Heard' BY <1>1, <2>1, <2>2
  <2>3. CASE c.s \in Range(jobs)' BY <1>3, <2>1, <2>3
  <2>4. CASE \E d \in Pending' : d.kind = c.kind /\ c.s \subseteq d.s \cup lost'
    <3>1. PICK d \in Pending' : d.kind = c.kind /\ c.s \subseteq d.s \cup lost'
      BY <2>4
    <3>2. CASE e \in d.s BY <2>1, <3>1, <3>2 DEF FxBound
    <3> QED BY <1>2, <2>1, <3>1, <3>2
  <2> QED BY <2>1, <2>2, <2>3, <2>4 DEF Handed
<1>5. CASE \E s \in Range(jobs) : e \in s
  <2>1. PICK s \in Range(jobs) : e \in s BY <1>5
  <2>2. CASE \E t \in Range(jobs)' : s \subseteq t \cup lost'
    BY <1>2, <1>3, <2>1, <2>2
  <2>3. CASE fx'.pc = "run" /\ s \subseteq fx'.s \cup lost'
    <3>1. CASE e \in fx'.s BY <2>3, <3>1 DEF FxBound
    <3> QED BY <1>2, <2>1, <2>3, <3>1
  <2> QED BY <2>1, <2>2, <2>3 DEF Handed
<1>6. CASE fx.pc = "run" /\ e \in fx.s
  <2>1. CASE fx'.pc = "run" /\ fx'.s = fx.s BY <1>6, <2>1 DEF FxBound
  <2>2. CASE fx.s \subseteq Heard' BY <1>1, <1>6, <2>2
  <2>3. CASE \A d \in Of("fx", fx.s) : Bound(d)
    <3>1. Bound(e) BY <1>6, <2>3 DEF Of
    <3> QED BY <3>1, BoundKept
  <2> QED BY <1>6, <2>1, <2>2, <2>3 DEF Handed
<1> QED BY <1>4, <1>5, <1>6 DEF FxBound

(* A safe clone stays safe.                                                *)
LEMMA SafeKept ==
    ASSUME Handed, SameKinds, NEW s \in SUBSET Made, Safe(s)
    PROVE  Safe(s)'
<1>1. \A k : {e \in s : kind'[e] = k} = {e \in s : kind[e] = k}
  BY DEF SameKinds
<1>2. CASE HasTrack(s) BY <1>1, <1>2 DEF Safe, HasTrack, Of
<1>3. CASE \A e \in Of("fx", s) : Bound(e)
  <2>1. \A e \in Of("fx", s) : Bound(e)' BY <1>3, BoundKept
  <2>2. \A e \in {d \in s : kind'[d] = "fx"} : Bound(e)' BY <1>1, <2>1 DEF Of
  <2> QED BY <2>2 DEF Safe, Of
<1> QED BY <1>2, <1>3 DEF Safe

(* An edit that is carried stays carried.                                  *)
LEMMA CarriedKept ==
    ASSUME Handed, SameKinds, NEW e \in Made, CarriedEdit(e),
           fxDue /\ kind[e] = "fx" => fxDue' \/ FxBound(e)' \/ Bound(e)'
    PROVE  CarriedEdit(e)'
<1>1. kind'[e] = kind[e] BY DEF SameKinds
<1>2. Bound(e)' => CarriedEdit(e)' BY DEF CarriedEdit
<1>3. kind[e] = "fx" /\ (fxDue' \/ FxBound(e)') => CarriedEdit(e)'
  BY <1>1 DEF CarriedEdit
<1>4. CASE Bound(e) BY <1>2, <1>4, BoundKept
<1>5. CASE kind[e] = "fx" /\ fxDue BY <1>2, <1>3, <1>5
<1>6. CASE kind[e] = "fx" /\ FxBound(e) BY <1>2, <1>3, <1>6, FxKept
<1>7. CASE kind[e] = "capture" /\ \E c \in Pending : c.kind = "capture" /\ e \in c.s
  <2>1. PICK c \in Pending : c.kind = "capture" /\ e \in c.s BY <1>7
  <2>2. CASE c.s \subseteq Heard' BY <1>2, <2>1, <2>2 DEF Bound
  <2>3. CASE Of("capture", c.s) \subseteq Heard'
    <3>1. e \in Of("capture", c.s) BY <1>7, <2>1 DEF Of
    <3> QED BY <1>2, <2>3, <3>1 DEF Bound
  <2>4. CASE \E d \in Pending' : d.kind = c.kind /\ c.s \subseteq d.s \cup lost'
    <3>1. PICK d \in Pending' : d.kind = c.kind /\ c.s \subseteq d.s \cup lost'
      BY <2>4
    <3>2. CASE e \in d.s BY <1>1, <1>7, <2>1, <3>1, <3>2 DEF CarriedEdit
    <3>3. CASE e \in lost' BY <1>2, <3>3 DEF Bound, Heard
    <3> QED BY <2>1, <3>1, <3>2, <3>3
  <2> QED BY <2>1, <2>2, <2>3, <2>4 DEF Handed
<1>8. CASE kind[e] = "pick" /\ \E c \in Pending : c.kind = "pick" /\ c.e = e
  <2>1. PICK c \in Pending : c.kind = "pick" /\ c.e = e BY <1>8
  <2>2. CASE c.e \in Heard' BY <1>2, <2>1, <2>2 DEF Bound
  <2>3. CASE \E d \in Pending' : d.kind = c.kind /\ d.e = c.e
    BY <1>1, <1>8, <2>1, <2>3 DEF CarriedEdit
  <2> QED BY <2>1, <2>2, <2>3 DEF Handed
<1> QED BY <1>4, <1>5, <1>6, <1>7, <1>8 DEF CarriedEdit

(* The lanes and the FX thread, which make no edit, keep both conjuncts.   *)
LEMMA EditsKept ==
    ASSUME Known, FxSafe, Carried, Handed, Origin, UNCHANGED <<kind, ui>>,
           \/ fxDue' = fxDue
           \/ \A e \in Made : kind[e] = "fx" => FxBound(e)' \/ Bound(e)'
    PROVE  FxSafe' /\ Carried'
<1>1. SameKinds BY DEF SameKinds, Made
<1>2. Made' = Made BY DEF Made
<1>3. Carried'
  <2> SUFFICES ASSUME NEW e \in Made PROVE CarriedEdit(e)'
    BY <1>2 DEF Carried
  <2> QED BY <1>1, CarriedKept DEF Carried
<1>4. Safe(ui)'
  <2>1. ui \in SUBSET Made /\ Safe(ui) BY DEF Known, FxSafe
  <2>2. ASSUME NEW s \in SUBSET Made, Safe(s) PROVE Safe(s)' BY <1>1, <2>2, SafeKept
  <2>3. ui' = ui OBVIOUS
  <2> QED BY <2>1, <2>2, <2>3 DEF Safe, HasTrack, Of
<1>5. ASSUME NEW c \in Pending', c.kind = "fx"
      PROVE  Safe(c.s)'
  <2>1. Safe(c.s) /\ c.s \in SUBSET Made
    BY <1>5 DEF Origin, FxSafe, Known
  <2> QED BY <1>1, <2>1, SafeKept
<1>6. ASSUME NEW s \in Range(jobs)'
      PROVE  Safe(s)'
  <2>1. Safe(s) /\ s \in SUBSET Made
    BY <1>6 DEF Origin, FxSafe, Known
  <2> QED BY <1>1, <2>1, SafeKept
<1>7. ASSUME fx'.pc = "run"
      PROVE  Safe(fx.s)'
  <2>1. PICK s : s = fx'.s OBVIOUS
  <2>2. Safe(s) /\ s \in SUBSET Made
    BY <1>7, <2>1 DEF Origin, FxSafe, Known
  <2>3. Safe(s)' BY <1>1, <2>2, SafeKept
  <2> QED BY <2>1, <2>3 DEF Safe, HasTrack, Of
<1> QED BY <1>3, <1>4, <1>5, <1>6, <1>7 DEF FxSafe

-----------------------------------------------------------------------------
(***************************************************************************)
(* Kinds of steps.                                                         *)
(***************************************************************************)

(* What the invariant says of the sequences.                               *)
LEMMA QueueTypes ==
    ASSUME TypeOK
    PROVE  /\ supQ \in Seq(Commands) /\ intQ \in Seq(Commands)
           /\ sup.work \in Seq(Commands) /\ int.work \in Seq(Commands)
           /\ jobs \in Seq(Clones) /\ done \in Seq(Clones) /\ events \in Seq(Clones)
           /\ kind \in Seq(Kinds) /\ Made = 1 .. Len(kind) /\ Len(kind) \in Nat
           /\ Made \subseteq Edits
<1>1. sup.work \in Seq(Commands) /\ int.work \in Seq(Commands)
  BY DEF TypeOK, Lanes
<1>2. kind \in Seq(Kinds) BY DEF TypeOK
<1>3. Made = 1 .. Len(kind) /\ Len(kind) \in Nat BY <1>2, LenProperties DEF Made
<1>4. Made \subseteq Edits BY <1>3, KindsAssumption DEF TypeOK, Edits
<1> QED BY <1>1, <1>2, <1>3, <1>4 DEF TypeOK

(* DesiredState is replaced: what it had is accounted for.                 *)
LEMMA SyncLemma ==
    ASSUME TypeOK, Known, NEW s \in SUBSET Made, Sync(s), UNCHANGED <<kind, ui>>
    PROVE  /\ s \subseteq Heard' /\ Heard \subseteq Heard' /\ lost \subseteq lost'
           /\ desired' \subseteq Made /\ lost' \subseteq Made
           /\ ui' \cup lost' = Made'
           /\ desired' \in Clones /\ lost' \in Clones
<1>1. Made' = Made /\ Made \subseteq Edits BY QueueTypes DEF Made
<1>2. desired \subseteq Made /\ lost \subseteq Made BY DEF TypeOK
<1> QED BY <1>1, <1>2 DEF Sync, Heard, Known, Clones

(* A step that leaves queues, work and jobs as they are.                   *)
LEMMA Still ==
    ASSUME Adoptable, Ordered, lost \subseteq lost', Heard \subseteq Heard',
           UNCHANGED <<ui, events, supQ, intQ, jobs, sup.work, int.work>>,
           \/ UNCHANGED fx
           \/ /\ fx'.pc # "run"
              /\ fx.pc = "run" => \/ fx.s \subseteq Heard'
                                  \/ \A e \in Of("fx", fx.s) : Bound(e)
    PROVE  Pending' = Pending /\ Adoptable' /\ Ordered' /\ Handed /\ Origin
<1>1. Pending' = Pending BY DEF Pending
<1>2. Adoptable' BY DEF Adoptable
<1>3. Ordered'
  <2>1. Growing(supQ)' /\ Growing(intQ)' BY DEF Ordered, Growing
  <2> QED BY <2>1 DEF Ordered
<1>4. Handed
  <2>1. \A s \in Range(jobs) : \E t \in Range(jobs)' : s \subseteq t \cup lost'
    OBVIOUS
  <2> QED BY <1>1, <2>1 DEF Handed
<1>5. Origin BY <1>1 DEF Origin
<1> QED BY <1>1, <1>2, <1>3, <1>4, <1>5

(* The supervisor is done with a command that is not an FX rewire.         *)
LEMMA SupFinish ==
    ASSUME TypeOK, Adoptable, Ordered, lost \subseteq lost', Heard \subseteq Heard',
           UNCHANGED <<ui, supQ, intQ, int.work, jobs, fx>>,
           sup.work # <<>>, sup'.work = Tail(sup.work),
           Current(sup).kind \in SyncKinds, Current(sup).s \subseteq Heard'
    PROVE  /\ Pending' \subseteq Pending
           /\ Range(sup.work)' \subseteq Range(sup.work)
           /\ Ordered' /\ Handed /\ Origin
<1> DEFINE w == sup.work
<1>1. /\ Head(w) \in Range(w)
      /\ Range(w) = {Head(w)} \cup Range(Tail(w))
      /\ DOMAIN w = 1 .. Len(w) /\ DOMAIN Tail(w) = 1 .. Len(w) - 1 /\ Len(w) \in Nat
      /\ \A i \in 1 .. Len(w) - 1 : Tail(w)[i] = w[i + 1]
  BY QueueTypes, TailLemma
<1>2. Range(sup.work)' = Range(Tail(w)) OBVIOUS
<1>3. Pending' \subseteq Pending /\ Pending = Pending' \cup {Current(sup)}
  BY <1>1, <1>2 DEF Pending, Current
<1>4. Ordered'
  <2>1. Growing(supQ)' /\ Growing(intQ)' BY DEF Ordered, Growing
  <2>2. /\ \A s \in Range(jobs)', c \in Range(supQ)' \cup Range(sup.work)' :
             c.kind = "fx" => s \subseteq c.s \cup lost'
        /\ \A c \in Range(sup.work)', d \in Range(supQ)' :
             c.kind = "fx" => c.s \subseteq d.s \cup lost'
        /\ \A i, j \in DOMAIN jobs' : i < j => jobs'[i] \subseteq jobs'[j] \cup lost'
    BY <1>1, <1>2 DEF Ordered
  <2>3. ASSUME NEW i \in DOMAIN Tail(w), NEW j \in DOMAIN Tail(w),
               Tail(w)[i].kind = "fx", Tail(w)[j].kind = "fx"
        PROVE  i = j
    <3>1. i + 1 \in DOMAIN w /\ j + 1 \in DOMAIN w /\ i \in Nat /\ j \in Nat
      BY <1>1, <2>3
    <3>2. Tail(w)[i] = w[i + 1] /\ Tail(w)[j] = w[j + 1] BY <1>1
    <3>3. i + 1 = j + 1 BY <2>3, <3>1, <3>2 DEF Ordered
    <3> QED BY <3>1, <3>3
  <2> QED BY <2>1, <2>2, <2>3 DEF Ordered
<1>5. Handed
  <2>1. \A s \in Range(jobs) : \E t \in Range(jobs)' : s \subseteq t \cup lost'
    OBVIOUS
  <2>2. Current(sup).kind # "pick" BY DEF SyncKinds
  <2>3. \A c \in Pending : c = Current(sup) \/ c \in Pending' BY <1>3
  <2> QED BY <2>1, <2>2, <2>3 DEF Handed
<1>6. Origin BY <1>3 DEF Origin
<1> QED BY <1>1, <1>2, <1>3, <1>4, <1>5, <1>6

(* The supervisor hands an FX rewire to the FX thread.                     *)
LEMMA SupHandOver ==
    ASSUME TypeOK, Known, Ordered,
           UNCHANGED <<ui, supQ, intQ, int.work, fx, desired, lost>>,
           sup.work # <<>>, sup'.work = Tail(sup.work),
           Current(sup).kind = "fx", jobs' = Append(jobs, Current(sup).s)
    PROVE  /\ Pending' \subseteq Pending
           /\ Range(sup.work)' \subseteq Range(sup.work)
           /\ Range(jobs)' = Range(jobs) \cup {Current(sup).s}
           /\ jobs' \in Seq(Clones)
           /\ Ordered' /\ Handed /\ Origin
<1> DEFINE w == sup.work
           s0 == Current(sup).s
<1>1. /\ Head(w) \in Range(w) /\ Head(w) \in Commands /\ Head(w) = w[1]
      /\ Range(w) = {Head(w)} \cup Range(Tail(w))
      /\ DOMAIN w = 1 .. Len(w) /\ DOMAIN Tail(w) = 1 .. Len(w) - 1
      /\ Len(w) \in Nat /\ Len(w) >= 1
      /\ \A i \in 1 .. Len(w) - 1 : Tail(w)[i] = w[i + 1]
  BY QueueTypes, TailLemma
<1>2. s0 \in Clones BY <1>1 DEF Current, Commands
<1>3. /\ jobs' \in Seq(Clones)
      /\ Range(jobs') = Range(jobs) \cup {s0}
      /\ DOMAIN jobs' = 1 .. Len(jobs) + 1 /\ DOMAIN jobs = 1 .. Len(jobs)
      /\ Len(jobs) \in Nat
      /\ jobs'[Len(jobs) + 1] = s0
      /\ \A i \in 1 .. Len(jobs) : jobs'[i] = jobs[i]
  <2> HIDE DEF s0
  <2> QED BY <1>2, QueueTypes, AppendLemma DEF s0
<1>4. Range(sup.work)' = Range(Tail(w)) OBVIOUS
<1>5. Pending' \subseteq Pending /\ Pending = Pending' \cup {Current(sup)}
  BY <1>1, <1>4 DEF Pending, Current
<1>6. \A c \in Range(Tail(w)) : c.kind # "fx"
  <2> SUFFICES ASSUME NEW i \in DOMAIN Tail(w), Tail(w)[i].kind = "fx" PROVE FALSE
    BY DEF Range
  <2>1. i + 1 \in DOMAIN w /\ 1 \in DOMAIN w /\ i \in Nat /\ i >= 1 BY <1>1
  <2>2. w[i + 1].kind = "fx" /\ w[1].kind = "fx" BY <1>1 DEF Current
  <2>3. i + 1 = 1 BY <2>1, <2>2 DEF Ordered
  <2> QED BY <2>1, <2>3
<1>7. Ordered'
  <2>1. Growing(supQ)' /\ Growing(intQ)' BY DEF Ordered, Growing
  <2>2. ASSUME NEW i \in DOMAIN jobs', NEW j \in DOMAIN jobs', i < j
        PROVE  jobs'[i] \subseteq jobs'[j] \cup lost'
    <3>1. i \in 1 .. Len(jobs) BY <1>3, <2>2
    <3>2. CASE j \in 1 .. Len(jobs)
      <4>1. i \in DOMAIN jobs /\ j \in DOMAIN jobs BY <1>3, <3>1, <3>2
      <4>2. jobs[i] \subseteq jobs[j] \cup lost BY <2>2, <4>1 DEF Ordered
      <4> QED BY <1>3, <3>1, <3>2, <4>2
    <3>3. CASE j = Len(jobs) + 1
      <4>1. jobs[i] \in Range(jobs) BY <1>3, <3>1 DEF Range
      <4>2. jobs[i] \subseteq s0 \cup lost BY <1>1, <4>1 DEF Ordered, Current
      <4> QED BY <1>3, <3>1, <3>3, <4>2
    <3> QED BY <1>3, <3>2, <3>3
  <2>3. ASSUME NEW s \in Range(jobs)', NEW c \in Range(supQ)' \cup Range(sup.work)',
               c.kind = "fx"
        PROVE  s \subseteq c.s \cup lost'
    <3>1. c \in Range(supQ) BY <1>4, <1>6, <2>3
    <3>2. s \in Range(jobs) \/ s = s0 BY <1>3
    <3>3. CASE s \in Range(jobs) BY <2>3, <3>1, <3>3 DEF Ordered
    <3>4. CASE s = s0 BY <1>1, <3>1, <3>4 DEF Ordered, Current
    <3> QED BY <3>2, <3>3, <3>4
  <2>4. \A c \in Range(sup.work)' : c.kind # "fx" BY <1>4, <1>6
  <2>5. ASSUME NEW i \in DOMAIN sup'.work
        PROVE  sup'.work[i].kind # "fx"
    BY <2>4 DEF Range
  <2> QED BY <2>1, <2>2, <2>3, <2>4, <2>5 DEF Ordered
<1>8. Handed
  <2>1. \A s \in Range(jobs) : \E t \in Range(jobs)' : s \subseteq t \cup lost'
    BY <1>3
  <2>2. Current(sup).s \in Range(jobs)' BY <1>3
  <2>3. \A c \in Pending : c = Current(sup) \/ c \in Pending' BY <1>5
  <2>4. Heard' = Heard BY DEF Heard
  <2> QED BY <2>1, <2>2, <2>3, <2>4 DEF Handed
<1>9. Origin
  <2>1. Current(sup) \in Pending BY <1>5
  <2> QED BY <1>3, <1>5, <2>1 DEF Origin
<1> QED BY <1>1, <1>3, <1>4, <1>5, <1>7, <1>8, <1>9

(* The interactive lane is done with a command.                            *)
LEMMA IntFinish ==
    ASSUME TypeOK, Adoptable, Ordered, lost \subseteq lost', Heard \subseteq Heard',
           UNCHANGED <<ui, supQ, intQ, sup.work, jobs, fx>>,
           int.work # <<>>, int'.work = Tail(int.work),
           \/ Current(int).kind # "pick" /\ Current(int).s \subseteq Heard'
           \/ Current(int).kind = "capture" /\ Of("capture", Current(int).s) \subseteq Heard'
           \/ Current(int).kind = "pick" /\ Current(int).e \in Heard'
    PROVE  /\ Pending' \subseteq Pending
           /\ Range(int.work)' \subseteq Range(int.work)
           /\ Ordered' /\ Handed /\ Origin
<1> DEFINE w == int.work
<1>1. Head(w) \in Range(w) /\ Range(w) = {Head(w)} \cup Range(Tail(w))
  BY QueueTypes, TailLemma
<1>2. Range(int.work)' = Range(Tail(w)) OBVIOUS
<1>3. Pending' \subseteq Pending /\ Pending = Pending' \cup {Current(int)}
  BY <1>1, <1>2 DEF Pending, Current
<1>4. Ordered'
  <2>1. Growing(supQ)' /\ Growing(intQ)' BY DEF Ordered, Growing
  <2> QED BY <2>1 DEF Ordered
<1>5. Handed
  <2>1. \A s \in Range(jobs) : \E t \in Range(jobs)' : s \subseteq t \cup lost'
    OBVIOUS
  <2>2. \A c \in Pending : c = Current(int) \/ c \in Pending' BY <1>3
  <2> QED BY <2>1, <2>2 DEF Handed
<1>6. Origin BY <1>3 DEF Origin
<1> QED BY <1>1, <1>2, <1>3, <1>4, <1>5, <1>6

(* The supervisor takes commands.                                          *)
LEMMA SupTaken ==
    ASSUME TypeOK, Known, Ordered, NEW n \in 1 .. Len(supQ),
           sup.work = <<>>,
           sup'.work = Coalesce(SubSeq(supQ, 1, n)), supQ' = Left(supQ, n),
           UNCHANGED <<ui, intQ, int.work, jobs, fx, desired, lost>>
    PROVE  /\ Pending' \subseteq Pending
           /\ supQ' \in Seq(Commands) /\ sup'.work \in Seq(Commands)
           /\ Range(supQ)' \cup Range(sup.work)' \subseteq Range(supQ)
           /\ Ordered' /\ Handed /\ Origin
<1> DEFINE w == Coalesce(SubSeq(supQ, 1, n))
           r == Left(supQ, n)
<1>1. /\ w \in Seq(Commands) /\ r \in Seq(Commands)
      /\ Range(w) \subseteq Range(supQ) /\ Range(r) \subseteq Range(supQ)
      /\ Growing(r)
      /\ \A c \in Range(w), d \in Range(r) : c.s \subseteq d.s \cup lost
      /\ \A c \in Range(supQ) : \E d \in Range(r) \cup Range(w) :
           /\ d.kind = c.kind
           /\ c.s \subseteq d.s \cup lost
           /\ c.kind = "pick" => d = c
      /\ \A i, j \in DOMAIN w :
           w[i].kind = "fx" /\ w[j].kind = "fx" => i = j
  BY QueueTypes, TakeLemma DEF Ordered
<1>2. supQ' = r /\ sup'.work = w OBVIOUS
<1> HIDE DEF w, r
<1>3. Range(supQ)' = Range(r) /\ Range(sup.work)' = Range(w) BY <1>2
<1>4. Range(sup.work) = {}
  <2>1. DOMAIN <<>> = {} OBVIOUS
  <2> QED BY <2>1 DEF Range
<1>5. Pending' \subseteq Pending BY <1>1, <1>3 DEF Pending
<1>6. Ordered'
  <2>1. Growing(supQ)' BY <1>1, <1>2 DEF Growing
  <2>2. Growing(intQ)' BY DEF Ordered, Growing
  <2>3. \A s \in Range(jobs)', c \in Range(supQ)' \cup Range(sup.work)' :
          c.kind = "fx" => s \subseteq c.s \cup lost'
    BY <1>1, <1>3 DEF Ordered
  <2>4. \A c \in Range(sup.work)', d \in Range(supQ)' :
          c.kind = "fx" => c.s \subseteq d.s \cup lost'
    BY <1>1, <1>3
  <2>5. \A i, j \in DOMAIN jobs' : i < j => jobs'[i] \subseteq jobs'[j] \cup lost'
    BY DEF Ordered
  <2> QED BY <1>1, <1>2, <2>1, <2>2, <2>3, <2>4, <2>5 DEF Ordered
<1>7. Handed
  <2>1. \A s \in Range(jobs) : \E t \in Range(jobs)' : s \subseteq t \cup lost'
    OBVIOUS
  <2>2. ASSUME NEW c \in Pending
        PROVE  \E d \in Pending' : /\ d.kind = c.kind
                                   /\ c.s \subseteq d.s \cup lost'
                                   /\ c.kind = "pick" => d.e = c.e
    <3>1. CASE c \in Range(supQ) BY <1>1, <1>3, <3>1 DEF Pending
    <3>2. CASE c \in Range(intQ) \cup Range(int.work)
      <4>1. c \in Pending' BY <3>2 DEF Pending
      <4> QED BY <4>1
    <3> QED BY <1>4, <3>1, <3>2 DEF Pending
  <2>3. Heard' = Heard BY DEF Heard
  <2> QED BY <2>1, <2>2, <2>3 DEF Handed
<1>8. Origin BY <1>5 DEF Origin
<1> QED BY <1>1, <1>2, <1>3, <1>5, <1>6, <1>7, <1>8

(* The interactive lane takes commands.                                    *)
LEMMA IntTaken ==
    ASSUME TypeOK, Known, Ordered, NEW n \in 1 .. Len(intQ),
           int.work = <<>>,
           int'.work = Coalesce(SubSeq(intQ, 1, n)), intQ' = Left(intQ, n),
           UNCHANGED <<ui, supQ, sup.work, jobs, fx, desired, lost>>
    PROVE  /\ Pending' \subseteq Pending
           /\ intQ' \in Seq(Commands) /\ int'.work \in Seq(Commands)
           /\ Range(intQ)' \cup Range(int.work)' \subseteq Range(intQ)
           /\ Ordered' /\ Handed /\ Origin
<1> DEFINE w == Coalesce(SubSeq(intQ, 1, n))
           r == Left(intQ, n)
<1>1. /\ w \in Seq(Commands) /\ r \in Seq(Commands)
      /\ Range(w) \subseteq Range(intQ) /\ Range(r) \subseteq Range(intQ)
      /\ Growing(r)
      /\ \A c \in Range(w), d \in Range(r) : c.s \subseteq d.s \cup lost
      /\ \A c \in Range(intQ) : \E d \in Range(r) \cup Range(w) :
           /\ d.kind = c.kind
           /\ c.s \subseteq d.s \cup lost
           /\ c.kind = "pick" => d = c
      /\ \A i, j \in DOMAIN w :
           w[i].kind = "fx" /\ w[j].kind = "fx" => i = j
  <2>1. intQ \in Seq(Commands) /\ Growing(intQ) BY QueueTypes DEF Ordered
  <2> QED BY <2>1, TakeLemma
<1>2. intQ' = r /\ int'.work = w OBVIOUS
<1> HIDE DEF w, r
<1>3. Range(intQ)' = Range(r) /\ Range(int.work)' = Range(w) BY <1>2
<1>4. Range(int.work) = {}
  <2>1. DOMAIN <<>> = {} OBVIOUS
  <2> QED BY <2>1 DEF Range
<1>5. Pending' \subseteq Pending BY <1>1, <1>3 DEF Pending
<1>6. Ordered'
  <2>1. Growing(intQ)' BY <1>1, <1>2 DEF Growing
  <2>2. Growing(supQ)' BY DEF Ordered, Growing
  <2> QED BY <2>1, <2>2 DEF Ordered
<1>7. Handed
  <2>1. \A s \in Range(jobs) : \E t \in Range(jobs)' : s \subseteq t \cup lost'
    OBVIOUS
  <2>2. ASSUME NEW c \in Pending
        PROVE  \E d \in Pending' : /\ d.kind = c.kind
                                   /\ c.s \subseteq d.s \cup lost'
                                   /\ c.kind = "pick" => d.e = c.e
    <3>1. CASE c \in Range(intQ) BY <1>1, <1>3, <3>1 DEF Pending
    <3>2. CASE c \in Range(supQ) \cup Range(sup.work)
      <4>1. c \in Pending' BY <3>2 DEF Pending
      <4> QED BY <4>1
    <3> QED BY <1>4, <3>1, <3>2 DEF Pending
  <2>3. Heard' = Heard BY DEF Heard
  <2> QED BY <2>1, <2>2, <2>3 DEF Handed
<1>8. Origin BY <1>5 DEF Origin
<1> QED BY <1>1, <1>2, <1>3, <1>5, <1>6, <1>7, <1>8

(* A command is swallowed: its edits are accounted as lost.                *)
LEMMA Swallowed ==
    ASSUME TypeOK, Known, Routed, Ordered, supQ # <<>>, Swallow,
           UNCHANGED <<kind, ui, intQ, sup.work, int.work, jobs, fx, desired>>
    PROVE  /\ Pending' \subseteq Pending
           /\ supQ' \in Seq(Commands) /\ Range(supQ)' \subseteq Range(supQ)
           /\ lost \subseteq lost' /\ Heard \subseteq Heard' /\ lost' \subseteq Made
           /\ ui' \cup lost' = Made' /\ lost' \in Clones
           /\ Ordered' /\ Handed /\ Origin
<1> DEFINE q == supQ
           t == Tail(supQ)
<1>1. /\ Head(q) \in Range(q)
      /\ t \in Seq(Commands) /\ Range(q) = {Head(q)} \cup Range(t)
      /\ DOMAIN q = 1 .. Len(q) /\ DOMAIN t = 1 .. Len(q) - 1 /\ Len(q) \in Nat
      /\ \A i \in 1 .. Len(q) - 1 : t[i] = q[i + 1]
  BY QueueTypes, TailLemma
<1>2. supQ' = t /\ lost' = lost \cup (Head(q).s \ desired) BY DEF Swallow
<1> HIDE DEF t
<1>3. Range(supQ)' = Range(t) BY <1>2
<1>4. Pending' \subseteq Pending /\ Pending = Pending' \cup {Head(q)}
  BY <1>1, <1>3 DEF Pending
<1>5. Head(q).s \subseteq Made /\ lost \subseteq Made /\ Made' = Made /\ Made \subseteq Edits
  BY <1>1, QueueTypes DEF Known, Pending, TypeOK, Made
<1>6. /\ lost \subseteq lost' /\ Heard \subseteq Heard' /\ Head(q).s \subseteq Heard'
      /\ lost' \subseteq Made /\ lost' \in Clones
  BY <1>2, <1>5 DEF Heard, Clones
<1>7. ui' \cup lost' = Made' BY <1>5, <1>6 DEF Known
<1>8. Ordered'
  <2>1. Growing(supQ)'
    <3> SUFFICES ASSUME NEW i \in DOMAIN t, NEW j \in DOMAIN t, i < j
                 PROVE  t[i].s \subseteq t[j].s \cup lost'
      BY <1>2 DEF Growing
    <3>1. i + 1 \in DOMAIN q /\ j + 1 \in DOMAIN q /\ i + 1 < j + 1 BY <1>1
    <3>2. t[i] = q[i + 1] /\ t[j] = q[j + 1] BY <1>1
    <3>3. t[i].s \subseteq t[j].s \cup lost BY <3>1, <3>2 DEF Ordered, Growing
    <3> QED BY <1>6, <3>3
  <2>2. Growing(intQ)' BY <1>6 DEF Ordered, Growing
  <2>3. \A s \in Range(jobs)', c \in Range(supQ)' \cup Range(sup.work)' :
          c.kind = "fx" => s \subseteq c.s \cup lost'
    BY <1>1, <1>3, <1>6 DEF Ordered
  <2>4. \A c \in Range(sup.work)', d \in Range(supQ)' :
          c.kind = "fx" => c.s \subseteq d.s \cup lost'
    BY <1>1, <1>3, <1>6 DEF Ordered
  <2>5. \A i, j \in DOMAIN jobs' : i < j => jobs'[i] \subseteq jobs'[j] \cup lost'
    BY <1>6 DEF Ordered
  <2>6. \A i, j \in DOMAIN sup'.work :
          sup'.work[i].kind = "fx" /\ sup'.work[j].kind = "fx" => i = j
    BY DEF Ordered
  <2> QED BY <2>1, <2>2, <2>3, <2>4, <2>5, <2>6 DEF Ordered
<1>9. Handed
  <2>1. \A s \in Range(jobs) : \E u \in Range(jobs)' : s \subseteq u \cup lost'
    OBVIOUS
  <2>2. Head(q).kind # "pick" BY <1>1 DEF Routed, SupKinds
  <2>3. \A c \in Pending : c = Head(q) \/ c \in Pending' BY <1>4
  <2> QED BY <1>6, <2>1, <2>2, <2>3 DEF Handed
<1>10. Origin BY <1>4 DEF Origin
<1> QED BY <1>1, <1>2, <1>3, <1>4, <1>6, <1>7, <1>8, <1>9, <1>10

(* The FX thread takes the n-th of its jobs and drops those before it.     *)
LEMMA FxTaken ==
    ASSUME TypeOK, Ordered, NEW n \in 1 .. Len(jobs), fx.pc = "idle",
           fx' = [pc |-> "run", s |-> jobs[n]], jobs' = Left(jobs, n),
           UNCHANGED <<ui, supQ, intQ, sup.work, int.work, desired, lost>>
    PROVE  /\ Pending' = Pending
           /\ jobs' \in Seq(Clones) /\ Range(jobs)' \subseteq Range(jobs)
           /\ fx'.s \in Range(jobs)
           /\ Ordered' /\ Handed /\ Origin
<1> DEFINE r == Left(jobs, n)
<1>1. /\ r \in Seq(Clones) /\ Range(r) \subseteq Range(jobs)
      /\ Len(jobs) \in Nat /\ DOMAIN jobs = 1 .. Len(jobs)
      /\ DOMAIN r = 1 .. Len(jobs) - n
      /\ \A i \in 1 .. Len(jobs) - n : r[i] = jobs[n + i]
  <2>1. jobs \in Seq(Clones) BY QueueTypes
  <2> QED BY <2>1, LeftLemma
<1>2. n \in Nat /\ n <= Len(jobs) /\ n \in DOMAIN jobs BY <1>1
<1>3. jobs' = r /\ fx'.s = jobs[n] /\ fx'.pc = "run" OBVIOUS
<1> HIDE DEF r
<1>4. Range(jobs)' = Range(r) BY <1>3
<1>5. Pending' = Pending BY DEF Pending
<1>6. fx'.s \in Range(jobs) BY <1>2, <1>3 DEF Range
<1>7. Ordered'
  <2>1. ASSUME NEW i \in DOMAIN r, NEW j \in DOMAIN r, i < j
        PROVE  r[i] \subseteq r[j] \cup lost
    <3>1. n + i \in DOMAIN jobs /\ n + j \in DOMAIN jobs /\ n + i < n + j
      BY <1>1, <1>2, <2>1
    <3>2. r[i] = jobs[n + i] /\ r[j] = jobs[n + j] BY <1>1
    <3> QED BY <3>1, <3>2 DEF Ordered
  <2>2. Growing(supQ)' /\ Growing(intQ)' BY DEF Ordered, Growing
  <2>3. \A s \in Range(jobs)', c \in Range(supQ)' \cup Range(sup.work)' :
          c.kind = "fx" => s \subseteq c.s \cup lost'
    BY <1>1, <1>4 DEF Ordered
  <2> QED BY <1>3, <2>1, <2>2, <2>3 DEF Ordered
<1>8. ASSUME NEW s \in Range(jobs)
      PROVE  \/ \E t \in Range(jobs)' : s \subseteq t \cup lost'
             \/ fx'.pc = "run" /\ s \subseteq fx'.s \cup lost'
  <2>1. PICK i \in DOMAIN jobs : s = jobs[i] BY DEF Range
  <2>2. i \in Nat BY <1>1
  <2>3. CASE i < n BY <1>2, <1>3, <2>1, <2>3 DEF Ordered
  <2>4. CASE i = n BY <1>3, <2>1, <2>4
  <2>5. CASE i > n
    <3>1. i - n \in DOMAIN r /\ n + (i - n) = i BY <1>1, <1>2, <2>5
    <3>2. r[i - n] = s BY <1>1, <2>1, <3>1
    <3>3. s \in Range(r) BY <3>1, <3>2 DEF Range
    <3> QED BY <1>4, <3>3
  <2> QED BY <1>2, <2>2, <2>3, <2>4, <2>5
<1>9. Handed
  <2>1. Heard' = Heard BY DEF Heard
  <2> QED BY <1>5, <1>8, <2>1 DEF Handed
<1>10. Origin BY <1>1, <1>3, <1>4, <1>5, <1>6 DEF Origin
<1> QED BY <1>1, <1>3, <1>4, <1>5, <1>6, <1>7, <1>9, <1>10

-----------------------------------------------------------------------------
(***************************************************************************)
(* The steps of the lanes and of the FX thread.                            *)
(***************************************************************************)

(* The parts of the invariant, put together for a step that makes no edit. *)
LEMMA Assemble ==
    ASSUME LanesInv, UNCHANGED <<kind, ui, fxDue>>, Pending' \subseteq Pending,
           lost \subseteq lost', TypeOK', Routed', Adoptable', Ordered',
           Handed, Origin,
           \A s \in Range(events)' \cup Range(jobs)' \cup Range(done)' : s \subseteq Made,
           slot'.s \cup sup'.last \cup int'.last \cup fx'.s \subseteq Made
    PROVE  LanesInv'
<1>1. Known /\ FxSafe /\ Carried BY DEF LanesInv
<1>2. Made' = Made BY DEF Made
<1>3. ui' \cup lost' = Made' BY <1>1, <1>2 DEF Known, TypeOK
<1>4. Known' BY <1>1, <1>2, <1>3 DEF Known
<1>5. FxSafe' /\ Carried' BY <1>1, EditsKept
<1> QED BY <1>4, <1>5 DEF LanesInv

(* A lane's step that leaves queues, work, jobs and the FX thread alone.   *)
LEMMA LaneStill ==
    ASSUME LanesInv,
           UNCHANGED <<uiVars, supQ, intQ, sup.work, int.work, jobs, fx>>,
           lost \subseteq lost', Heard \subseteq Heard',
           desired' \cup lost' \subseteq Made,
           sup' \in Lanes, int' \in Lanes, slot' \in [s : Clones, gen : Nat],
           sup'.gen <= slot'.gen, int'.gen <= slot'.gen,
           slot'.s \cup sup'.last \cup int'.last \subseteq Made,
           done' \in Seq(Clones), \A s \in Range(done)' : s \subseteq Made,
           Routed'
    PROVE  LanesInv'
<1>1. TypeOK /\ Known /\ Adoptable /\ Ordered BY DEF LanesInv
<1>2. Pending' = Pending /\ Adoptable' /\ Ordered' /\ Handed /\ Origin
  BY <1>1, Still DEF uiVars
<1>3. Made' = Made /\ Made \subseteq Edits BY <1>1, QueueTypes DEF Made, uiVars
<1>4. TypeOK'
  <2>1. desired' \in Clones /\ lost' \in Clones BY <1>3 DEF Clones
  <2>2. ui' \cup desired' \cup lost' \subseteq Made'
    BY <1>1, <1>3 DEF TypeOK, uiVars
  <2> QED BY <1>1, <2>1, <2>2 DEF TypeOK, uiVars
<1>5. /\ \A s \in Range(events)' \cup Range(jobs)' \cup Range(done)' : s \subseteq Made
      /\ slot'.s \cup sup'.last \cup int'.last \cup fx'.s \subseteq Made
  BY <1>1 DEF Known, uiVars
<1> QED BY <1>2, <1>4, <1>5, Assemble DEF uiVars

(* A lane that pulls has the clone of the slot, or keeps its own.          *)
LEMMA PulledLemma ==
    ASSUME TypeOK, Known, NEW lane \in Lanes, lane.gen <= slot.gen,
           lane.last \subseteq Made
    PROVE  /\ Pulled(lane) \in Lanes /\ Pulled(lane).work = lane.work
           /\ Pulled(lane).gen <= slot.gen /\ Pulled(lane).last \subseteq Made
<1>1. slot \in [s : Clones, gen : Nat] /\ slot.s \subseteq Made BY DEF TypeOK, Known
<1>2. CASE slot.gen > lane.gen
  <2>1. Pulled(lane) = [lane EXCEPT !.last = slot.s, !.gen = slot.gen]
    BY <1>2 DEF Pulled
  <2>2. /\ Pulled(lane).work = lane.work /\ Pulled(lane).gen = slot.gen
        /\ Pulled(lane).last = slot.s
    BY <2>1 DEF Lanes
  <2>3. Pulled(lane) \in Lanes BY <1>1, <2>1 DEF Lanes
  <2>4. slot.gen \in Nat BY <1>1
  <2>5. slot.gen <= slot.gen BY <2>4
  <2> QED BY <1>1, <2>2, <2>3, <2>5
<1>3. CASE ~(slot.gen > lane.gen)
  <2>1. Pulled(lane) = lane BY <1>3 DEF Pulled
  <2> QED BY <2>1
<1> QED BY <1>2, <1>3

(* supervisor_loop: the pull from the slot.                                *)
LEMMA StepSupPull == ASSUME LanesInv, SupPull PROVE LanesInv'
<1>1. TypeOK /\ Known /\ Routed BY DEF LanesInv
<1>2. /\ sup' \in Lanes /\ sup'.work = sup.work /\ sup'.pc = "merge"
      /\ sup'.gen <= slot.gen /\ sup'.last \subseteq Made
  <2> DEFINE p == Pulled(sup)
  <2>1. /\ p \in Lanes /\ p.work = sup.work /\ p.gen <= slot.gen
        /\ p.last \subseteq Made
    BY <1>1, PulledLemma DEF TypeOK, Known
  <2>2. sup' = [p EXCEPT !.pc = "merge"] BY DEF SupPull
  <2> HIDE DEF p
  <2> QED BY <2>1, <2>2 DEF Lanes
<1>3. Routed' BY <1>1, <1>2 DEF Routed, SupPull, Heard
<1>4. desired' \cup lost' \subseteq Made /\ Heard' = Heard
  BY <1>1 DEF SupPull, TypeOK, Heard
<1> QED BY <1>1, <1>2, <1>3, <1>4, LaneStill DEF SupPull, TypeOK, Known, uiVars, fxVars

(* A rack that is done is merged into the lane's clone.                    *)
LEMMA StepSupMerge == ASSUME LanesInv, SupMerge PROVE LanesInv'
<1>1. TypeOK /\ Known /\ Routed BY DEF LanesInv
<1> DEFINE m == Merged(sup.last, Head(done))
<1>2. /\ Head(done) \in Range(done) /\ Tail(done) \in Seq(Clones)
      /\ Range(done) = {Head(done)} \cup Range(Tail(done))
  BY <1>1, QueueTypes, TailLemma DEF SupMerge
<1>3. m \subseteq Made /\ m \in Clones
  <2>1. m \subseteq sup.last \cup Head(done) BY DEF Merged, Of
  <2>2. sup.last \subseteq Made /\ Head(done) \subseteq Made BY <1>1, <1>2 DEF Known
  <2>3. Made \subseteq Edits BY <1>1, QueueTypes
  <2> QED BY <2>1, <2>2, <2>3 DEF Clones
<1>4. sup' = [sup EXCEPT !.last = m] BY DEF SupMerge
<1> HIDE DEF m
<1>5. /\ sup' \in Lanes /\ sup'.work = sup.work /\ sup'.pc = sup.pc
      /\ sup'.gen = sup.gen /\ sup'.last = m
  BY <1>1, <1>3, <1>4 DEF TypeOK, Lanes
<1>6. /\ slot' \in [s : Clones, gen : Nat] /\ slot'.gen = slot.gen
      /\ slot'.s \subseteq Made
  BY <1>1, <1>3, <1>5 DEF SupMerge, Published, TypeOK, Known
<1>7. Routed' BY <1>1, <1>5 DEF Routed, SupMerge, Heard
<1>8. desired' \cup lost' \subseteq Made /\ Heard' = Heard
  BY <1>1 DEF SupMerge, TypeOK, Heard
<1>9. done' \in Seq(Clones) /\ \A s \in Range(done)' : s \subseteq Made
  BY <1>1, <1>2 DEF SupMerge, Known
<1>10. sup'.gen <= slot'.gen /\ int'.gen <= slot'.gen /\ int' \in Lanes
  BY <1>1, <1>5, <1>6 DEF TypeOK, SupMerge
<1>11. slot'.s \cup sup'.last \cup int'.last \subseteq Made
  BY <1>1, <1>3, <1>5, <1>6 DEF Known, SupMerge
<1> QED BY <1>5, <1>6, <1>7, <1>8, <1>9, <1>10, <1>11, LaneStill DEF SupMerge, uiVars

(* Nothing more to merge: the lane waits for commands.                     *)
LEMMA StepSupWait == ASSUME LanesInv, SupWait PROVE LanesInv'
<1>1. TypeOK /\ Known /\ Routed BY DEF LanesInv
<1>2. /\ sup' \in Lanes /\ sup'.work = sup.work /\ sup'.pc = "recv"
      /\ sup'.gen <= slot.gen /\ sup'.last \subseteq Made
  BY <1>1 DEF SupWait, TypeOK, Lanes, Known
<1>3. Routed' BY <1>1, <1>2 DEF Routed, SupWait, Heard
<1>4. desired' \cup lost' \subseteq Made /\ Heard' = Heard
  BY <1>1 DEF SupWait, TypeOK, Heard
<1> QED BY <1>1, <1>2, <1>3, <1>4, LaneStill DEF SupWait, TypeOK, Known, uiVars, fxVars

(* The wait is over without a command.                                     *)
LEMMA StepSupTimeout == ASSUME LanesInv, SupTimeout PROVE LanesInv'
<1>1. TypeOK /\ Known /\ Routed BY DEF LanesInv
<1>2. /\ sup' \in Lanes /\ sup'.work = sup.work
      /\ sup'.pc \in {"pull", "sweep", "reclaim"} /\ sup.work = <<>>
      /\ sup'.gen <= slot.gen /\ sup'.last \subseteq Made
  BY <1>1 DEF SupTimeout, TypeOK, Lanes, Known, Routed
<1>3. Routed' BY <1>1, <1>2 DEF Routed, SupTimeout, Heard
<1>4. desired' \cup lost' \subseteq Made /\ Heard' = Heard
  BY <1>1 DEF SupTimeout, TypeOK, Heard
<1> QED BY <1>1, <1>2, <1>3, <1>4, LaneStill DEF SupTimeout, TypeOK, Known, uiVars, fxVars

(* The batch is done: the lane mirrors its clone.                          *)
LEMMA StepSupPublish == ASSUME LanesInv, SupPublish PROVE LanesInv'
<1>1. TypeOK /\ Known /\ Routed BY DEF LanesInv
<1>2. /\ sup' \in Lanes /\ sup'.work = sup.work /\ sup.work = <<>>
      /\ sup'.pc = "pull" /\ sup'.gen = sup.gen /\ sup'.last \subseteq Made
  BY <1>1 DEF SupPublish, TypeOK, Lanes, Known
<1>3. /\ slot' \in [s : Clones, gen : Nat] /\ slot'.gen = slot.gen
      /\ slot'.s \subseteq Made
  BY <1>1 DEF SupPublish, Published, TypeOK, Known, Lanes
<1>4. Routed' BY <1>1, <1>2 DEF Routed, SupPublish, Heard
<1>5. desired' \cup lost' \subseteq Made /\ Heard' = Heard
  BY <1>1 DEF SupPublish, TypeOK, Heard
<1>6. sup'.gen <= slot'.gen /\ int'.gen <= slot'.gen
  BY <1>1, <1>2, <1>3 DEF TypeOK, SupPublish
<1> QED
  BY <1>1, <1>2, <1>3, <1>4, <1>5, <1>6, LaneStill
  DEF SupPublish, TypeOK, Known, uiVars, fxVars

(* ApplySession and EnsureTrack: DesiredState from the command's clone.    *)
LEMMA StepSupArm == ASSUME LanesInv, SupArm PROVE LanesInv'
<1>1. TypeOK /\ Known /\ Routed BY DEF LanesInv
<1>2. Current(sup) \in Pending /\ Current(sup).s \in SUBSET Made
  <2>1. sup.work # <<>> BY DEF SupArm, Busy
  <2>2. Head(sup.work) \in Range(sup.work) BY <1>1, <2>1, QueueTypes, TailLemma
  <2> QED BY <1>1, <2>2 DEF Known, Pending, Current
<1>3. /\ Current(sup).s \subseteq Heard' /\ Heard \subseteq Heard' /\ lost \subseteq lost'
      /\ desired' \subseteq Made /\ lost' \subseteq Made
  BY <1>1, <1>2, SyncLemma DEF SupArm, uiVars
<1>4. /\ sup' \in Lanes /\ sup'.work = sup.work /\ sup'.pc = "again"
      /\ sup'.gen <= slot.gen /\ sup'.last \subseteq Made
  BY <1>1 DEF SupArm, TypeOK, Lanes, Known
<1>5. Routed'
  BY <1>1, <1>3, <1>4 DEF Routed, SupArm, Busy, Current
<1> QED BY <1>1, <1>3, <1>4, <1>5, LaneStill DEF SupArm, TypeOK, Known, uiVars, fxVars

(* ... and once more for the apps.                                         *)
LEMMA StepSupPlace == ASSUME LanesInv, SupPlace PROVE LanesInv'
<1>1. TypeOK /\ Known /\ Routed BY DEF LanesInv
<1>2. Current(sup) \in Pending /\ Current(sup).s \in SUBSET Made
  <2>1. sup.work # <<>> BY <1>1 DEF SupPlace, Routed
  <2>2. Head(sup.work) \in Range(sup.work) BY <1>1, <2>1, QueueTypes, TailLemma
  <2> QED BY <1>1, <2>2 DEF Known, Pending, Current
<1>3. /\ Current(sup).s \subseteq Heard' /\ Heard \subseteq Heard' /\ lost \subseteq lost'
      /\ desired' \subseteq Made /\ lost' \subseteq Made
  BY <1>1, <1>2, SyncLemma DEF SupPlace, uiVars
<1>4. /\ sup' \in Lanes /\ sup'.work = sup.work /\ sup'.pc = "auth"
      /\ sup'.gen <= slot.gen /\ sup'.last \subseteq Made
  BY <1>1 DEF SupPlace, TypeOK, Lanes, Known
<1>5. Routed'
  BY <1>1, <1>3, <1>4 DEF Routed, SupPlace, Current
<1> QED BY <1>1, <1>3, <1>4, <1>5, LaneStill DEF SupPlace, TypeOK, Known, uiVars, fxVars

(* A swallowed command, at either of the two places.                       *)
LEMMA StepSwallowed ==
    ASSUME LanesInv, supQ # <<>>, Swallow,
           UNCHANGED <<kind, ui, fxDue, events, intQ, slot, int, jobs, done, fx, desired>>,
           sup' \in Lanes, sup'.work = sup.work, sup.work = <<>>,
           sup'.pc \in {"pull", "reclaim"},
           sup'.gen <= slot.gen, sup'.last \subseteq Made
    PROVE  LanesInv'
<1>1. TypeOK /\ Known /\ Routed /\ Adoptable /\ Ordered BY DEF LanesInv
<1>2. int'.work = int.work /\ Made' = Made BY DEF Made
<1>3. /\ Pending' \subseteq Pending
      /\ supQ' \in Seq(Commands) /\ Range(supQ)' \subseteq Range(supQ)
      /\ lost \subseteq lost' /\ Heard \subseteq Heard' /\ lost' \subseteq Made
      /\ lost' \in Clones
      /\ Ordered' /\ Handed /\ Origin
  BY <1>1, <1>2, Swallowed
<1>4. TypeOK' BY <1>1, <1>2, <1>3 DEF TypeOK
<1>5. Routed' BY <1>1, <1>2, <1>3 DEF Routed
<1>6. Adoptable' BY <1>1, <1>3 DEF Adoptable
<1>7. /\ \A s \in Range(events)' \cup Range(jobs)' \cup Range(done)' : s \subseteq Made
      /\ slot'.s \cup sup'.last \cup int'.last \cup fx'.s \subseteq Made
  BY <1>1 DEF Known
<1> QED BY <1>3, <1>4, <1>5, <1>6, <1>7, Assemble

(* The reclaim of apps: DesiredState from the lane's own clone, or a       *)
(* command swallowed.                                                      *)
LEMMA StepSupReclaim == ASSUME LanesInv, SupReclaim PROVE LanesInv'
<1>1. TypeOK /\ Known /\ Routed /\ Adoptable /\ Ordered BY DEF LanesInv
<1>2. /\ sup' \in Lanes /\ sup'.work = sup.work /\ sup'.pc = "pull" /\ sup.work = <<>>
      /\ sup'.gen <= slot.gen /\ sup'.last \subseteq Made
  BY <1>1 DEF SupReclaim, TypeOK, Lanes, Known, Routed
<1>3. CASE supQ = <<>>
  <2>1. sup.last \in SUBSET Made BY <1>1 DEF Known
  <2>2. /\ Heard \subseteq Heard' /\ lost \subseteq lost'
        /\ desired' \subseteq Made /\ lost' \subseteq Made
    BY <1>1, <1>3, <2>1, SyncLemma DEF SupReclaim, uiVars
  <2>3. Routed' BY <1>1, <1>2, <1>3, <2>2 DEF Routed, SupReclaim
  <2> QED
    BY <1>1, <1>2, <1>3, <2>2, <2>3, LaneStill
    DEF SupReclaim, TypeOK, Known, uiVars, fxVars
<1>4. CASE supQ # <<>>
  <2>1. /\ Swallow
        /\ UNCHANGED <<kind, ui, fxDue, events, intQ, slot, int, jobs, done, fx, desired>>
    BY <1>4 DEF SupReclaim, uiVars, fxVars
  <2> QED BY <1>2, <1>4, <2>1, StepSwallowed
<1> QED BY <1>3, <1>4

(* The question whether a command is waiting, on the sweep's tick.         *)
LEMMA StepSupSweep == ASSUME LanesInv, SupSweep PROVE LanesInv'
<1>1. TypeOK /\ Known /\ Routed /\ Adoptable /\ Ordered BY DEF LanesInv
<1>2. /\ sup' \in Lanes /\ sup'.work = sup.work /\ sup.work = <<>>
      /\ sup'.pc \in {"pull", "reclaim"}
      /\ sup'.gen <= slot.gen /\ sup'.last \subseteq Made
  BY <1>1 DEF SupSweep, TypeOK, Lanes, Known, Routed
<1>3. CASE supQ = <<>>
  <2>1. UNCHANGED <<supQ, lost, desired>> BY <1>3 DEF SupSweep
  <2>2. desired' \cup lost' \subseteq Made /\ Heard' = Heard
    BY <1>1, <2>1 DEF TypeOK, Heard
  <2>3. Routed' BY <1>1, <1>2, <2>1, <2>2 DEF Routed, SupSweep
  <2> QED
    BY <1>1, <1>2, <2>1, <2>2, <2>3, LaneStill
    DEF SupSweep, TypeOK, Known, uiVars, fxVars
<1>4. CASE supQ # <<>>
  <2>1. /\ Swallow
        /\ UNCHANGED <<kind, ui, fxDue, events, intQ, slot, int, jobs, done, fx, desired>>
    BY <1>4 DEF SupSweep, uiVars, fxVars
  <2> QED BY <1>2, <1>4, <2>1, StepSwallowed
<1> QED BY <1>3, <1>4

(* The lane takes what has arrived.                                        *)
LEMMA StepSupTake == ASSUME LanesInv, SupTake PROVE LanesInv'
<1>1. TypeOK /\ Known /\ Routed /\ Adoptable /\ Ordered BY DEF LanesInv
<1>2. PICK n \in 1 .. Len(supQ) : sup' = Took(sup, supQ, n) /\ supQ' = Left(supQ, n)
  BY DEF SupTake
<1>3. sup.work = <<>> BY <1>1 DEF SupTake, Routed
<1> DEFINE w == Coalesce(SubSeq(supQ, 1, n))
<1>4. sup' = [sup EXCEPT !.pc = "run", !.work = w] BY <1>2 DEF Took
<1>5. /\ sup'.work = w /\ sup'.pc = "run" /\ sup'.gen = sup.gen /\ sup'.last = sup.last
      /\ w \in Seq(Commands) => sup' \in Lanes
  <2> HIDE DEF w
  <2> QED BY <1>1, <1>4 DEF TypeOK, Lanes
<1>6. /\ Pending' \subseteq Pending
      /\ supQ' \in Seq(Commands) /\ sup'.work \in Seq(Commands)
      /\ Range(supQ)' \cup Range(sup.work)' \subseteq Range(supQ)
      /\ Ordered' /\ Handed /\ Origin
  BY <1>1, <1>2, <1>3, <1>5, SupTaken DEF SupTake, uiVars, fxVars
<1> HIDE DEF w
<1>7. TypeOK'
  BY <1>1, <1>5, <1>6 DEF TypeOK, SupTake, uiVars, fxVars, Made
<1>8. Routed' BY <1>1, <1>5, <1>6 DEF Routed, SupTake, Heard
<1>9. Adoptable' BY <1>1 DEF Adoptable, SupTake, uiVars, Heard
<1>10. /\ \A s \in Range(events)' \cup Range(jobs)' \cup Range(done)' : s \subseteq Made
       /\ slot'.s \cup sup'.last \cup int'.last \cup fx'.s \subseteq Made
  BY <1>1, <1>5 DEF Known, SupTake, uiVars, fxVars
<1> QED BY <1>6, <1>7, <1>8, <1>9, <1>10, Assemble DEF SupTake, uiVars

(* RewireSessionRoutes and PruneTrack.                                     *)
LEMMA StepSupRewire == ASSUME LanesInv, SupRewire PROVE LanesInv'
<1>1. TypeOK /\ Known /\ Routed /\ Adoptable /\ Ordered BY DEF LanesInv
<1>2. sup.work # <<>> /\ Current(sup).kind \in {"route", "prune"} /\ sup.pc = "run"
  BY DEF SupRewire, Busy
<1>3. /\ Current(sup) \in Range(sup.work) /\ Current(sup) \in Commands
      /\ Tail(sup.work) \in Seq(Commands)
  BY <1>1, <1>2, QueueTypes, TailLemma DEF Current
<1>4. Current(sup).s \in SUBSET Made /\ Current(sup).s \in Clones
  BY <1>1, <1>3 DEF Known, Pending, Commands
<1>5. /\ Current(sup).s \subseteq Heard' /\ Heard \subseteq Heard' /\ lost \subseteq lost'
      /\ desired' \subseteq Made /\ lost' \subseteq Made
      /\ desired' \in Clones /\ lost' \in Clones
  BY <1>1, <1>4, SyncLemma DEF SupRewire, uiVars
<1>6. /\ sup' \in Lanes /\ sup'.work = Tail(sup.work) /\ sup'.pc = "run"
      /\ sup'.gen = sup.gen /\ sup'.last = Current(sup).s
  BY <1>1, <1>3, <1>4 DEF SupRewire, Finished, TypeOK, Lanes
<1>7. /\ Pending' \subseteq Pending /\ Range(sup.work)' \subseteq Range(sup.work)
      /\ Ordered' /\ Handed /\ Origin
  BY <1>1, <1>2, <1>5, <1>6, SupFinish DEF SupRewire, uiVars, fxVars, SyncKinds
<1>8. TypeOK'
  <2>1. ui \cup desired' \cup lost' \subseteq Made' BY <1>1, <1>5 DEF TypeOK, SupRewire, uiVars, Made
  <2> QED BY <1>1, <1>5, <1>6, <2>1 DEF TypeOK, SupRewire, uiVars, fxVars
<1>9. Routed' BY <1>1, <1>5, <1>6, <1>7 DEF Routed, SupRewire
<1>10. Adoptable' BY <1>1, <1>5 DEF Adoptable, SupRewire, uiVars
<1>11. /\ \A s \in Range(events)' \cup Range(jobs)' \cup Range(done)' : s \subseteq Made
       /\ slot'.s \cup sup'.last \cup int'.last \cup fx'.s \subseteq Made
  BY <1>1, <1>4, <1>6 DEF Known, SupRewire, uiVars, fxVars
<1> QED BY <1>5, <1>7, <1>8, <1>9, <1>10, <1>11, Assemble DEF SupRewire, uiVars

(* RewireTrackFx: the FX thread's job.                                     *)
LEMMA StepSupQueueFx == ASSUME LanesInv, SupQueueFx PROVE LanesInv'
<1>1. TypeOK /\ Known /\ Routed /\ Adoptable /\ Ordered BY DEF LanesInv
<1>2. sup.work # <<>> /\ Current(sup).kind = "fx" /\ sup.pc = "run"
  BY DEF SupQueueFx, Busy
<1>3. /\ Current(sup) \in Range(sup.work) /\ Current(sup) \in Commands
      /\ Tail(sup.work) \in Seq(Commands)
  BY <1>1, <1>2, QueueTypes, TailLemma DEF Current
<1>4. Current(sup).s \in SUBSET Made /\ Current(sup).s \in Clones
  BY <1>1, <1>3 DEF Known, Pending, Commands
<1>5. /\ sup' \in Lanes /\ sup'.work = Tail(sup.work) /\ sup'.pc = "run"
      /\ sup'.gen = sup.gen /\ sup'.last = Current(sup).s
  BY <1>1, <1>3, <1>4 DEF SupQueueFx, Finished, TypeOK, Lanes
<1>6. /\ Pending' \subseteq Pending /\ Range(sup.work)' \subseteq Range(sup.work)
      /\ Range(jobs)' = Range(jobs) \cup {Current(sup).s}
      /\ jobs' \in Seq(Clones)
      /\ Ordered' /\ Handed /\ Origin
  BY <1>1, <1>2, <1>5, SupHandOver DEF SupQueueFx, uiVars
<1>7. TypeOK' BY <1>1, <1>5, <1>6 DEF TypeOK, SupQueueFx, uiVars, Made
<1>8. Routed' BY <1>1, <1>5, <1>6 DEF Routed, SupQueueFx, Heard
<1>9. Adoptable' BY <1>1 DEF Adoptable, SupQueueFx, uiVars, Heard
<1>10. /\ \A s \in Range(events)' \cup Range(jobs)' \cup Range(done)' : s \subseteq Made
       /\ slot'.s \cup sup'.last \cup int'.last \cup fx'.s \subseteq Made
  BY <1>1, <1>4, <1>5, <1>6 DEF Known, SupQueueFx, uiVars
<1> QED BY <1>6, <1>7, <1>8, <1>9, <1>10, Assemble DEF SupQueueFx, uiVars

(* The authoritative publication, and after an apply the notice to the     *)
(* window.                                                                 *)
LEMMA StepSupAuthority == ASSUME LanesInv, SupAuthority PROVE LanesInv'
<1>1. TypeOK /\ Known /\ Routed /\ Adoptable /\ Ordered BY DEF LanesInv
<1>2. /\ sup.work # <<>> /\ Current(sup).kind \in {"apply", "ensure"}
      /\ Current(sup).s \subseteq Heard
  BY <1>1 DEF SupAuthority, Routed, Current
<1>3. /\ Current(sup) \in Range(sup.work) /\ Current(sup) \in Commands
      /\ Tail(sup.work) \in Seq(Commands)
  BY <1>1, <1>2, QueueTypes, TailLemma DEF Current
<1>4. Current(sup).s \in SUBSET Made /\ Current(sup).s \in Clones
  BY <1>1, <1>3 DEF Known, Pending, Commands
<1>5. /\ slot' \in [s : Clones, gen : Nat]
      /\ slot'.gen = slot.gen + 1 /\ slot'.s = Current(sup).s
  BY <1>1, <1>4 DEF SupAuthority, Authority, TypeOK
<1>6. /\ sup' \in Lanes /\ sup'.work = Tail(sup.work) /\ sup'.pc = "run"
      /\ sup'.gen = slot'.gen /\ sup'.last = Current(sup).s
  BY <1>1, <1>3, <1>4, <1>5 DEF SupAuthority, Finished, TypeOK, Lanes
<1>7. Heard' = Heard /\ lost' = lost BY DEF SupAuthority, Heard
<1>8. /\ Pending' \subseteq Pending /\ Range(sup.work)' \subseteq Range(sup.work)
      /\ Ordered' /\ Handed /\ Origin
  BY <1>1, <1>2, <1>6, <1>7, SupFinish DEF SupAuthority, fxVars, SyncKinds
<1>9. /\ events' \in Seq(Clones)
      /\ Range(events)' \subseteq Range(events) \cup {Current(sup).s}
  <2>1. CASE Current(sup).kind = "apply"
    <3>1. events' = Append(events, Current(sup).s) BY <2>1 DEF SupAuthority
    <3>2. events \in Seq(Clones) BY <1>1, QueueTypes
    <3> QED BY <1>4, <3>1, <3>2, AppendLemma
  <2>2. CASE Current(sup).kind # "apply"
    <3>1. events' = events BY <2>2 DEF SupAuthority
    <3> QED BY <1>1, <3>1, QueueTypes
  <2> QED BY <2>1, <2>2
<1>10. TypeOK'
  <2>1. int.gen <= slot'.gen /\ sup'.gen <= slot'.gen
    BY <1>1, <1>5, <1>6 DEF TypeOK, Lanes
  <2> QED BY <1>1, <1>5, <1>6, <1>9, <2>1 DEF TypeOK, SupAuthority, fxVars, Made
<1>11. Routed' BY <1>1, <1>6, <1>7, <1>8 DEF Routed, SupAuthority
<1>12. Adoptable' BY <1>1, <1>2, <1>7, <1>9 DEF Adoptable
<1>13. /\ \A s \in Range(events)' \cup Range(jobs)' \cup Range(done)' : s \subseteq Made
       /\ slot'.s \cup sup'.last \cup int'.last \cup fx'.s \subseteq Made
  BY <1>1, <1>4, <1>5, <1>6, <1>9 DEF Known, SupAuthority, fxVars
<1> QED BY <1>7, <1>8, <1>10, <1>11, <1>12, <1>13, Assemble DEF SupAuthority

(* The FX thread takes a job.                                              *)
LEMMA StepFxTake == ASSUME LanesInv, FxTake PROVE LanesInv'
<1>1. TypeOK /\ Known /\ Routed /\ Adoptable /\ Ordered BY DEF LanesInv
<1>2. PICK n \in 1 .. Len(jobs) :
        fx' = [pc |-> "run", s |-> jobs[n]] /\ jobs' = Left(jobs, n)
  BY DEF FxTake
<1>3. /\ Pending' = Pending
      /\ jobs' \in Seq(Clones) /\ Range(jobs)' \subseteq Range(jobs)
      /\ fx'.s \in Range(jobs)
      /\ Ordered' /\ Handed /\ Origin
  BY <1>1, <1>2, FxTaken DEF FxTake, uiVars
<1>4. jobs[n] \in Clones BY <1>1, QueueTypes, ElementOfSeq
<1>5. fx' \in [pc : {"idle", "run", "built"}, s : Clones] BY <1>2, <1>4
<1>6. TypeOK' BY <1>1, <1>3, <1>5 DEF TypeOK, FxTake, uiVars, Made
<1>7. Routed' BY <1>1 DEF Routed, FxTake, Heard
<1>8. Adoptable' BY <1>1 DEF Adoptable, FxTake, uiVars, Heard
<1>9. /\ \A s \in Range(events)' \cup Range(jobs)' \cup Range(done)' : s \subseteq Made
      /\ slot'.s \cup sup'.last \cup int'.last \cup fx'.s \subseteq Made
  BY <1>1, <1>3 DEF Known, FxTake, uiVars
<1> QED BY <1>3, <1>6, <1>7, <1>8, <1>9, Assemble DEF FxTake, uiVars

(* The rack is rewired, or its track is not found.                         *)
LEMMA StepFxSync == ASSUME LanesInv, FxSync PROVE LanesInv'
<1>1. TypeOK /\ Known /\ Routed /\ Adoptable /\ Ordered /\ FxSafe BY DEF LanesInv
<1>2. fx.s \in SUBSET Made /\ fx.s \in Clones BY <1>1 DEF Known, TypeOK
<1>3. /\ Heard \subseteq Heard' /\ lost \subseteq lost'
      /\ desired' \subseteq Made /\ lost' \subseteq Made
      /\ desired' \in Clones /\ lost' \in Clones
      /\ fx' \in [pc : {"idle", "run", "built"}, s : Clones]
      /\ fx'.pc # "run" /\ fx'.s \subseteq Made
      /\ \/ fx.s \subseteq Heard'
         \/ \A e \in Of("fx", fx.s) : Bound(e)
  <2>1. CASE HasTrack(fx.s)
    <3>1. Sync(fx.s) /\ fx' = [fx EXCEPT !.pc = "built"] BY <2>1 DEF FxSync
    <3>2. /\ fx.s \subseteq Heard' /\ Heard \subseteq Heard' /\ lost \subseteq lost'
          /\ desired' \subseteq Made /\ lost' \subseteq Made
          /\ desired' \in Clones /\ lost' \in Clones
      BY <1>1, <1>2, <3>1, SyncLemma DEF FxSync, uiVars
    <3>3. /\ fx' \in [pc : {"idle", "run", "built"}, s : Clones]
          /\ fx'.pc # "run" /\ fx'.s \subseteq Made
      BY <1>1, <1>2, <3>1 DEF TypeOK
    <3> QED BY <3>2, <3>3
  <2>2. CASE ~HasTrack(fx.s)
    <3>1. fx' = [pc |-> "idle", s |-> {}] /\ desired' = desired /\ lost' = lost
      BY <2>2 DEF FxSync
    <3>2. \A e \in Of("fx", fx.s) : Bound(e)
      BY <1>1, <2>2 DEF FxSafe, Safe, FxSync
    <3> QED BY <1>1, <3>1, <3>2 DEF TypeOK, Heard, Clones
  <2> QED BY <2>1, <2>2
<1>4. Pending' = Pending /\ Adoptable' /\ Ordered' /\ Handed /\ Origin
  <2>1. UNCHANGED <<ui, events, supQ, intQ, jobs, sup.work, int.work>>
    BY DEF FxSync, uiVars
  <2> QED BY <1>1, <1>3, <2>1, Still
<1>5. TypeOK'
  <2>1. ui \cup desired' \cup lost' \subseteq Made' BY <1>1, <1>3 DEF TypeOK, FxSync, uiVars, Made
  <2> QED BY <1>1, <1>3, <2>1 DEF TypeOK, FxSync, uiVars
<1>6. Routed' BY <1>1, <1>3 DEF Routed, FxSync
<1>7. /\ \A s \in Range(events)' \cup Range(jobs)' \cup Range(done)' : s \subseteq Made
      /\ slot'.s \cup sup'.last \cup int'.last \cup fx'.s \subseteq Made
  BY <1>1, <1>3 DEF Known, FxSync, uiVars
<1> QED BY <1>3, <1>4, <1>5, <1>6, <1>7, Assemble DEF FxSync, uiVars

(* The clone goes back to the lane.                                        *)
LEMMA StepFxDone == ASSUME LanesInv, FxDone PROVE LanesInv'
<1>1. TypeOK /\ Known /\ Routed /\ Adoptable /\ Ordered BY DEF LanesInv
<1>2. fx.s \in Clones /\ fx.s \subseteq Made /\ done \in Seq(Clones)
  BY <1>1 DEF TypeOK, Known
<1>3. /\ done' \in Seq(Clones) /\ Range(done') = Range(done) \cup {fx.s}
  BY <1>2, AppendLemma DEF FxDone
<1>4. fx' = [pc |-> "idle", s |-> {}] /\ fx.pc = "built" BY DEF FxDone
<1>5. Heard' = Heard /\ lost' = lost BY DEF FxDone, Heard
<1>6. Pending' = Pending /\ Adoptable' /\ Ordered' /\ Handed /\ Origin
  <2>1. UNCHANGED <<ui, events, supQ, intQ, jobs, sup.work, int.work>>
    BY DEF FxDone, uiVars
  <2>2. fx'.pc # "run" /\ fx.pc # "run" BY <1>4
  <2> QED BY <1>1, <1>5, <2>1, <2>2, Still
<1>7. fx' \in [pc : {"idle", "run", "built"}, s : Clones] /\ fx'.s \subseteq Made
  BY <1>4 DEF Clones
<1>8. TypeOK' BY <1>1, <1>3, <1>7 DEF TypeOK, FxDone, uiVars, Made
<1>9. Routed' BY <1>1, <1>5 DEF Routed, FxDone
<1>10. /\ \A s \in Range(events)' \cup Range(jobs)' \cup Range(done)' : s \subseteq Made
       /\ slot'.s \cup sup'.last \cup int'.last \cup fx'.s \subseteq Made
  BY <1>1, <1>2, <1>3, <1>7 DEF Known, FxDone, uiVars
<1> QED BY <1>5, <1>6, <1>8, <1>9, <1>10, Assemble DEF FxDone, uiVars

(* interactive_loop: the pull from the slot.                               *)
LEMMA StepIntPull == ASSUME LanesInv, IntPull PROVE LanesInv'
<1>1. TypeOK /\ Known /\ Routed BY DEF LanesInv
<1>2. /\ int' \in Lanes /\ int'.work = int.work /\ int'.pc = "publish"
      /\ int'.gen <= slot.gen /\ int'.last \subseteq Made
  <2> DEFINE p == Pulled(int)
  <2>1. /\ p \in Lanes /\ p.work = int.work /\ p.gen <= slot.gen
        /\ p.last \subseteq Made
    BY <1>1, PulledLemma DEF TypeOK, Known
  <2>2. int' = [p EXCEPT !.pc = "publish"] BY DEF IntPull
  <2> HIDE DEF p
  <2> QED BY <2>1, <2>2 DEF Lanes
<1>3. Routed' BY <1>1, <1>2 DEF Routed, IntPull, Heard
<1>4. desired' \cup lost' \subseteq Made /\ Heard' = Heard
  BY <1>1 DEF IntPull, TypeOK, Heard
<1> QED BY <1>1, <1>2, <1>3, <1>4, LaneStill DEF IntPull, TypeOK, Known, uiVars, fxVars

(* The lane mirrors its clone before it waits.                             *)
LEMMA StepIntMirror == ASSUME LanesInv, IntMirror PROVE LanesInv'
<1>1. TypeOK /\ Known /\ Routed BY DEF LanesInv
<1>2. /\ int' \in Lanes /\ int'.work = int.work /\ int.work = <<>>
      /\ int'.pc = "recv" /\ int'.gen = int.gen /\ int'.last \subseteq Made
  BY <1>1 DEF IntMirror, TypeOK, Lanes, Known, Routed
<1>3. /\ slot' \in [s : Clones, gen : Nat] /\ slot'.gen = slot.gen
      /\ slot'.s \subseteq Made
  BY <1>1 DEF IntMirror, Published, TypeOK, Known, Lanes
<1>4. Routed' BY <1>1, <1>2 DEF Routed, IntMirror, Heard
<1>5. desired' \cup lost' \subseteq Made /\ Heard' = Heard
  BY <1>1 DEF IntMirror, TypeOK, Heard
<1>6. sup'.gen <= slot'.gen /\ int'.gen <= slot'.gen
  BY <1>1, <1>2, <1>3 DEF TypeOK, IntMirror
<1> QED
  BY <1>1, <1>2, <1>3, <1>4, <1>5, <1>6, LaneStill
  DEF IntMirror, TypeOK, Known, uiVars, fxVars

(* The batch is done: the lane mirrors its clone.                          *)
LEMMA StepIntPublish == ASSUME LanesInv, IntPublish PROVE LanesInv'
<1>1. TypeOK /\ Known /\ Routed BY DEF LanesInv
<1>2. /\ int' \in Lanes /\ int'.work = int.work /\ int.work = <<>>
      /\ int'.pc = "pull" /\ int'.gen = int.gen /\ int'.last \subseteq Made
  BY <1>1 DEF IntPublish, TypeOK, Lanes, Known
<1>3. /\ slot' \in [s : Clones, gen : Nat] /\ slot'.gen = slot.gen
      /\ slot'.s \subseteq Made
  BY <1>1 DEF IntPublish, Published, TypeOK, Known, Lanes
<1>4. Routed' BY <1>1, <1>2 DEF Routed, IntPublish, Heard
<1>5. desired' \cup lost' \subseteq Made /\ Heard' = Heard
  BY <1>1 DEF IntPublish, TypeOK, Heard
<1>6. sup'.gen <= slot'.gen /\ int'.gen <= slot'.gen
  BY <1>1, <1>2, <1>3 DEF TypeOK, IntPublish
<1> QED
  BY <1>1, <1>2, <1>3, <1>4, <1>5, <1>6, LaneStill
  DEF IntPublish, TypeOK, Known, uiVars, fxVars

(* The wait is over without a command.                                     *)
LEMMA StepIntTimeout == ASSUME LanesInv, IntTimeout PROVE LanesInv'
<1>1. TypeOK /\ Known /\ Routed BY DEF LanesInv
<1>2. /\ int' \in Lanes /\ int'.work = int.work /\ int.work = <<>>
      /\ int'.pc = "pull" /\ int'.gen <= slot.gen /\ int'.last \subseteq Made
  BY <1>1 DEF IntTimeout, TypeOK, Lanes, Known, Routed
<1>3. Routed' BY <1>1, <1>2 DEF Routed, IntTimeout, Heard
<1>4. desired' \cup lost' \subseteq Made /\ Heard' = Heard
  BY <1>1 DEF IntTimeout, TypeOK, Heard
<1> QED BY <1>1, <1>2, <1>3, <1>4, LaneStill DEF IntTimeout, TypeOK, Known, uiVars, fxVars

(* The lane takes what has arrived.                                        *)
LEMMA StepIntTake == ASSUME LanesInv, IntTake PROVE LanesInv'
<1>1. TypeOK /\ Known /\ Routed /\ Adoptable /\ Ordered BY DEF LanesInv
<1>2. PICK n \in 1 .. Len(intQ) : int' = Took(int, intQ, n) /\ intQ' = Left(intQ, n)
  BY DEF IntTake
<1>3. int.work = <<>> BY <1>1 DEF IntTake, Routed
<1> DEFINE w == Coalesce(SubSeq(intQ, 1, n))
<1>4. int' = [int EXCEPT !.pc = "run", !.work = w] BY <1>2 DEF Took
<1>5. /\ int'.work = w /\ int'.pc = "run" /\ int'.gen = int.gen /\ int'.last = int.last
      /\ w \in Seq(Commands) => int' \in Lanes
  <2> HIDE DEF w
  <2> QED BY <1>1, <1>4 DEF TypeOK, Lanes
<1>6. /\ Pending' \subseteq Pending
      /\ intQ' \in Seq(Commands) /\ int'.work \in Seq(Commands)
      /\ Range(intQ)' \cup Range(int.work)' \subseteq Range(intQ)
      /\ Ordered' /\ Handed /\ Origin
  BY <1>1, <1>2, <1>3, <1>5, IntTaken DEF IntTake, uiVars, fxVars
<1> HIDE DEF w
<1>7. TypeOK'
  BY <1>1, <1>5, <1>6 DEF TypeOK, IntTake, uiVars, fxVars, Made
<1>8. Routed' BY <1>1, <1>5, <1>6 DEF Routed, IntTake, Heard
<1>9. Adoptable' BY <1>1 DEF Adoptable, IntTake, uiVars, Heard
<1>10. /\ \A s \in Range(events)' \cup Range(jobs)' \cup Range(done)' : s \subseteq Made
       /\ slot'.s \cup sup'.last \cup int'.last \cup fx'.s \subseteq Made
  BY <1>1, <1>5 DEF Known, IntTake, uiVars, fxVars
<1> QED BY <1>6, <1>7, <1>8, <1>9, <1>10, Assemble DEF IntTake, uiVars

(* SetDefaultSink: the lane's clone with the one edit, with authority.     *)
LEMMA StepIntPick == ASSUME LanesInv, IntPick PROVE LanesInv'
<1>1. TypeOK /\ Known /\ Routed BY DEF LanesInv
<1> DEFINE s == int.last \cup {Current(int).e}
<1>2. int.work # <<>> /\ Current(int).kind = "pick" /\ int.pc = "run"
  BY DEF IntPick, Busy
<1>3. Current(int) \in Pending
  <2>1. Head(int.work) \in Range(int.work) BY <1>1, <1>2, QueueTypes, TailLemma
  <2> QED BY <2>1 DEF Pending, Current
<1>4. s \subseteq Made /\ s \in Clones
  <2>1. int.last \subseteq Made /\ Current(int).e \in Made BY <1>1, <1>3 DEF Known
  <2>2. Made \subseteq Edits BY <1>1, QueueTypes
  <2> QED BY <2>1, <2>2 DEF Clones
<1>5. /\ slot' = [s |-> s, gen |-> slot.gen + 1]
      /\ int' = [int EXCEPT !.pc = "prefer", !.last = s, !.gen = slot'.gen]
  BY DEF IntPick, Authority
<1> HIDE DEF s
<1>6. /\ slot' \in [s : Clones, gen : Nat] /\ slot'.gen = slot.gen + 1
      /\ slot'.s = s
  BY <1>1, <1>4, <1>5 DEF TypeOK
<1>7. /\ int' \in Lanes /\ int'.work = int.work /\ int'.pc = "prefer"
      /\ int'.gen = slot'.gen /\ int'.last = s
  BY <1>1, <1>4, <1>5, <1>6 DEF TypeOK, Lanes
<1>8. Routed' BY <1>1, <1>2, <1>7 DEF Routed, IntPick, Heard, Current
<1>9. desired' \cup lost' \subseteq Made /\ Heard' = Heard
  BY <1>1 DEF IntPick, TypeOK, Heard
<1>10. sup'.gen <= slot'.gen /\ int'.gen <= slot'.gen /\ sup' \in Lanes
  BY <1>1, <1>6, <1>7 DEF TypeOK, IntPick, Lanes
<1>11. slot'.s \cup sup'.last \cup int'.last \subseteq Made
  BY <1>1, <1>4, <1>6, <1>7 DEF Known, IntPick
<1> QED
  BY <1>1, <1>6, <1>7, <1>8, <1>9, <1>10, <1>11, LaneStill
  DEF IntPick, TypeOK, Known, uiVars, fxVars

(* ... then the one field of DesiredState.                                 *)
LEMMA StepIntPrefer == ASSUME LanesInv, IntPrefer PROVE LanesInv'
<1>1. TypeOK /\ Known /\ Routed BY DEF LanesInv
<1>2. int.work # <<>> /\ Current(int).kind = "pick"
  BY <1>1 DEF IntPrefer, Routed, Current
<1>3. Current(int).e \in Made
  <2>1. Head(int.work) \in Range(int.work) BY <1>1, <1>2, QueueTypes, TailLemma
  <2> QED BY <1>1, <2>1 DEF Known, Pending, Current
<1>4. /\ desired' \cup lost' \subseteq Made
      /\ Heard \subseteq Heard' /\ Current(int).e \in Heard' /\ lost \subseteq lost'
  BY <1>1, <1>3 DEF IntPrefer, TypeOK, Heard
<1>5. /\ int' \in Lanes /\ int'.work = int.work /\ int'.pc = "place"
      /\ int'.gen <= slot.gen /\ int'.last \subseteq Made
  BY <1>1 DEF IntPrefer, TypeOK, Lanes, Known
<1>6. Routed' BY <1>1, <1>2, <1>4, <1>5 DEF Routed, IntPrefer, Current
<1> QED
  BY <1>1, <1>4, <1>5, <1>6, LaneStill
  DEF IntPrefer, TypeOK, Known, uiVars, fxVars

(* The lane is done with a command, which the engine has heard.            *)
LEMMA StepIntFinished ==
    ASSUME LanesInv, UNCHANGED <<uiVars, supQ, intQ, slot, sup, fxVars>>,
           int.work # <<>>, NEW s \in SUBSET Made, int' = Finished(int, s),
           Heard \subseteq Heard', lost \subseteq lost',
           desired' \cup lost' \subseteq Made,
           \/ Current(int).kind # "pick" /\ Current(int).s \subseteq Heard'
           \/ Current(int).kind = "capture" /\ Of("capture", Current(int).s) \subseteq Heard'
           \/ Current(int).kind = "pick" /\ Current(int).e \in Heard'
    PROVE  LanesInv'
<1>1. TypeOK /\ Known /\ Routed /\ Adoptable /\ Ordered BY DEF LanesInv
<1>2. Made' = Made /\ Made \subseteq Edits BY <1>1, QueueTypes DEF Made, uiVars
<1>3. Tail(int.work) \in Seq(Commands) BY <1>1, QueueTypes, TailLemma
<1>4. /\ int' \in Lanes /\ int'.work = Tail(int.work) /\ int'.pc = "run"
      /\ int'.gen = int.gen /\ int'.last = s
  BY <1>1, <1>2, <1>3 DEF Finished, TypeOK, Lanes, Clones
<1>5. /\ Pending' \subseteq Pending /\ Range(int.work)' \subseteq Range(int.work)
      /\ Ordered' /\ Handed /\ Origin
  <2>1. UNCHANGED <<ui, supQ, intQ, sup.work, jobs, fx>> BY DEF uiVars, fxVars
  <2> QED BY <1>1, <1>4, <2>1, IntFinish
<1>6. TypeOK'
  <2>1. ui' \cup desired' \cup lost' \subseteq Made' BY <1>1, <1>2 DEF TypeOK, uiVars
  <2>2. desired' \in Clones /\ lost' \in Clones BY <1>2 DEF Clones
  <2> QED BY <1>1, <1>4, <2>1, <2>2 DEF TypeOK, uiVars, fxVars
<1>7. Routed' BY <1>1, <1>4, <1>5 DEF Routed
<1>8. Adoptable' BY <1>1 DEF Adoptable, uiVars
<1>9. /\ \A t \in Range(events)' \cup Range(jobs)' \cup Range(done)' : t \subseteq Made
      /\ slot'.s \cup sup'.last \cup int'.last \cup fx'.s \subseteq Made
  BY <1>1, <1>4 DEF Known, uiVars, fxVars
<1> QED BY <1>5, <1>6, <1>7, <1>8, <1>9, Assemble DEF uiVars

(* ... and the apps, from the lane's clone.                                *)
LEMMA StepIntReclaim == ASSUME LanesInv, IntReclaim PROVE LanesInv'
<1>1. TypeOK /\ Known /\ Routed BY DEF LanesInv
<1>2. /\ int.work # <<>> /\ Current(int).kind = "pick"
      /\ Current(int).e \in Heard
  BY <1>1 DEF IntReclaim, Routed, Current
<1>3. int.last \in SUBSET Made BY <1>1 DEF Known
<1>4. /\ Heard \subseteq Heard' /\ lost \subseteq lost'
      /\ desired' \subseteq Made /\ lost' \subseteq Made
  BY <1>1, <1>3, SyncLemma DEF IntReclaim, uiVars
<1> QED BY <1>2, <1>3, <1>4, StepIntFinished DEF IntReclaim

(* A patch of DesiredState takes edits that were made, and forgets none.   *)
LEMMA PatchLemma ==
    ASSUME TypeOK, NEW ks, NEW s \in SUBSET Made, Patch(ks, s)
    PROVE  /\ Heard \subseteq Heard' /\ lost \subseteq lost'
           /\ desired' \cup lost' \subseteq Made
           /\ {e \in s : kind[e] \in ks} \subseteq Heard'
BY DEF Patch, Heard, TypeOK

(* SyncCaptureDelta: the outputs, unless the engine is busy ...            *)
LEMMA StepIntEgress == ASSUME LanesInv, IntEgress PROVE LanesInv'
<1>1. TypeOK /\ Known /\ Routed BY DEF LanesInv
<1>2. int.work # <<>> /\ Current(int).kind = "capture" BY DEF IntEgress, Busy
<1>3. Current(int).s \in SUBSET Made
  <2>1. Head(int.work) \in Range(int.work) BY <1>1, <1>2, QueueTypes, TailLemma
  <2> QED BY <1>1, <2>1 DEF Known, Pending, Current
<1>4. /\ Heard \subseteq Heard' /\ lost \subseteq lost'
      /\ desired' \cup lost' \subseteq Made
  <2>1. CASE UNCHANGED <<desired, lost>> BY <1>1, <2>1 DEF Heard, TypeOK
  <2>2. CASE Patch({"route"}, Current(int).s) BY <1>1, <1>3, <2>2, PatchLemma
  <2> QED BY <2>1, <2>2 DEF IntEgress
<1>5. /\ int' \in Lanes /\ int'.work = int.work /\ int'.pc = "rack"
      /\ int'.gen <= slot.gen /\ int'.last \subseteq Made
  BY <1>1 DEF IntEgress, TypeOK, Lanes, Known
<1>6. Routed' BY <1>1, <1>2, <1>4, <1>5 DEF Routed, IntEgress, Current
<1> QED
  BY <1>1, <1>4, <1>5, <1>6, LaneStill
  DEF IntEgress, TypeOK, Known, uiVars, fxVars

(* ... and the inputs; the rest of DesiredState stays.                     *)
LEMMA StepIntCapture == ASSUME LanesInv, IntCapture PROVE LanesInv'
<1>1. TypeOK /\ Known /\ Routed BY DEF LanesInv
<1>2. int.work # <<>> /\ Current(int).kind = "capture"
  BY <1>1 DEF IntCapture, Routed, Current
<1>3. Current(int).s \in SUBSET Made
  <2>1. Head(int.work) \in Range(int.work) BY <1>1, <1>2, QueueTypes, TailLemma
  <2> QED BY <1>1, <2>1 DEF Known, Pending, Current
<1>4. Patch({"capture"}, Current(int).s) BY DEF IntCapture
<1>5. /\ Heard \subseteq Heard' /\ lost \subseteq lost'
      /\ desired' \cup lost' \subseteq Made
      /\ {e \in Current(int).s : kind[e] \in {"capture"}} \subseteq Heard'
  BY <1>1, <1>3, <1>4, PatchLemma
<1>6. Of("capture", Current(int).s) \subseteq Heard' BY <1>5 DEF Of
<1>7. int' = Finished(int, Current(int).s) BY DEF IntCapture
<1>8. UNCHANGED <<uiVars, supQ, intQ, slot, sup, fxVars>> BY DEF IntCapture
<1> QED BY <1>2, <1>3, <1>5, <1>6, <1>7, <1>8, StepIntFinished

(* SyncPlayback: DesiredState from the command's clone.                    *)
LEMMA StepIntPlay == ASSUME LanesInv, IntPlay PROVE LanesInv'
<1>1. TypeOK /\ Known /\ Routed BY DEF LanesInv
<1>2. int.work # <<>> /\ Current(int).kind = "play" BY DEF IntPlay, Busy
<1>3. Current(int).s \in SUBSET Made
  <2>1. Head(int.work) \in Range(int.work) BY <1>1, <1>2, QueueTypes, TailLemma
  <2> QED BY <1>1, <2>1 DEF Known, Pending, Current
<1>4. /\ Current(int).s \subseteq Heard'
      /\ Heard \subseteq Heard' /\ lost \subseteq lost'
      /\ desired' \subseteq Made /\ lost' \subseteq Made
  BY <1>1, <1>3, SyncLemma DEF IntPlay, uiVars
<1> QED BY <1>2, <1>3, <1>4, StepIntFinished DEF IntPlay

-----------------------------------------------------------------------------
(***************************************************************************)
(* The steps of the window.                                                *)
(***************************************************************************)

(* One edit more.                                                          *)
LEMMA EditLemma ==
    ASSUME TypeOK, Known, NEW k, UiEdit(k)
    PROVE  /\ Made' = Made \cup {Len(kind) + 1} /\ Len(kind) + 1 \in Made'
           /\ kind' \in Seq(Kinds) /\ Len(kind') = Len(kind) + 1
           /\ Len(kind') <= MaxEdit /\ kind'[Len(kind) + 1] = k
           /\ SameKinds /\ ui' = ui \cup {Len(kind) + 1}
           /\ ui' \in Clones /\ ui' \subseteq Made' /\ ui' \cup lost = Made'
           /\ Made' \subseteq Edits
<1>1. /\ kind' \in Seq(Kinds) /\ Len(kind') = Len(kind) + 1
      /\ DOMAIN kind' = 1 .. Len(kind) + 1
      /\ DOMAIN kind = 1 .. Len(kind) /\ Len(kind) \in Nat
      /\ kind'[Len(kind) + 1] = k
      /\ \A i \in 1 .. Len(kind) : kind'[i] = kind[i]
  <2>1. kind \in Seq(Kinds) BY QueueTypes
  <2>2. k \in Kinds /\ kind' = Append(kind, k) BY DEF UiEdit
  <2> QED BY <2>1, <2>2, AppendLemma
<1>2. Made' = Made \cup {Len(kind) + 1}
  <2>1. Made = 1 .. Len(kind) /\ Made' = 1 .. Len(kind) + 1 BY <1>1 DEF Made
  <2> QED BY <1>1, <2>1
<1>3. Len(kind') <= MaxEdit BY <1>1, KindsAssumption DEF UiEdit
<1>4. Made' \subseteq Edits
  <2>1. Made' = 1 .. Len(kind) + 1 BY <1>1 DEF Made
  <2> QED BY <1>1, <1>3, <2>1, KindsAssumption DEF Edits
<1>5. SameKinds BY <1>1, <1>2 DEF SameKinds, Made
<1>6. ui' = ui \cup {Len(kind) + 1} BY DEF UiEdit
<1>7. ui' \subseteq Made' /\ ui' \cup lost = Made' BY <1>2, <1>6 DEF Known
<1> QED BY <1>1, <1>2, <1>3, <1>4, <1>5, <1>6, <1>7 DEF Clones

(* A command with the whole session is queued for the supervisor ...       *)
LEMMA SentToSupervisor ==
    ASSUME TypeOK, Known, Ordered, NEW c \in Commands, Made \subseteq c.s \cup lost,
           supQ' = Append(supQ, c),
           UNCHANGED <<intQ, sup, int, fxVars, lost>>, Heard \subseteq Heard'
    PROVE  /\ Pending' = Pending \cup {c} /\ supQ' \in Seq(Commands)
           /\ Range(supQ)' = Range(supQ) \cup {c}
           /\ Ordered' /\ Handed
<1>1. /\ supQ' \in Seq(Commands) /\ Range(supQ') = Range(supQ) \cup {c}
      /\ DOMAIN supQ' = 1 .. Len(supQ) + 1 /\ DOMAIN supQ = 1 .. Len(supQ)
      /\ Len(supQ) \in Nat /\ supQ'[Len(supQ) + 1] = c
      /\ \A i \in 1 .. Len(supQ) : supQ'[i] = supQ[i]
  BY QueueTypes, AppendLemma
<1>2. Pending' = Pending \cup {c} BY <1>1 DEF Pending
<1>3. /\ \A d \in Pending : d.s \subseteq c.s \cup lost
      /\ \A s \in Range(jobs) : s \subseteq c.s \cup lost
  BY DEF Known
<1>4. Growing(supQ)'
  <2> SUFFICES ASSUME NEW i \in DOMAIN supQ', NEW j \in DOMAIN supQ', i < j
               PROVE  supQ'[i].s \subseteq supQ'[j].s \cup lost
    BY DEF Growing
  <2>1. i \in DOMAIN supQ BY <1>1
  <2>2. CASE j \in DOMAIN supQ
    <3>1. supQ[i].s \subseteq supQ[j].s \cup lost BY <2>1, <2>2 DEF Ordered, Growing
    <3> QED BY <1>1, <2>1, <2>2, <3>1
  <2>3. CASE j = Len(supQ) + 1
    <3>1. supQ[i] \in Pending BY <2>1 DEF Pending, Range
    <3> QED BY <1>1, <1>3, <2>1, <2>3, <3>1
  <2> QED BY <1>1, <2>2, <2>3
<1>5. Ordered'
  <2>1. Growing(intQ)' BY DEF Ordered, Growing
  <2>2. UNCHANGED <<jobs, sup, lost>> BY DEF fxVars
  <2>3. \A s \in Range(jobs)', d \in Range(supQ)' \cup Range(sup.work)' :
          d.kind = "fx" => s \subseteq d.s \cup lost'
    BY <1>1, <1>3, <2>2 DEF Ordered
  <2>4. \A b \in Range(sup.work)', d \in Range(supQ)' :
          b.kind = "fx" => b.s \subseteq d.s \cup lost'
    BY <1>1, <1>3, <2>2 DEF Ordered, Pending
  <2> QED BY <1>4, <2>1, <2>2, <2>3, <2>4 DEF Ordered
<1>6. Handed
  <2>1. \A s \in Range(jobs) : \E t \in Range(jobs)' : s \subseteq t \cup lost'
    BY DEF fxVars
  <2>2. Heard \subseteq Heard' /\ UNCHANGED <<fx, lost>> BY DEF fxVars
  <2> QED BY <1>2, <2>1, <2>2 DEF Handed
<1> QED BY <1>1, <1>2, <1>5, <1>6

(* ... or for the interactive lane.                                        *)
LEMMA SentToInteractive ==
    ASSUME TypeOK, Known, Ordered, NEW c \in Commands, Made \subseteq c.s \cup lost,
           intQ' = Append(intQ, c),
           UNCHANGED <<supQ, sup, int, fxVars, desired, lost>>
    PROVE  /\ Pending' = Pending \cup {c} /\ intQ' \in Seq(Commands)
           /\ Range(intQ)' = Range(intQ) \cup {c}
           /\ Ordered' /\ Handed
<1>1. /\ intQ' \in Seq(Commands) /\ Range(intQ') = Range(intQ) \cup {c}
      /\ DOMAIN intQ' = 1 .. Len(intQ) + 1 /\ DOMAIN intQ = 1 .. Len(intQ)
      /\ Len(intQ) \in Nat /\ intQ'[Len(intQ) + 1] = c
      /\ \A i \in 1 .. Len(intQ) : intQ'[i] = intQ[i]
  BY QueueTypes, AppendLemma
<1>2. Pending' = Pending \cup {c} BY <1>1 DEF Pending
<1>3. \A d \in Pending : d.s \subseteq c.s \cup lost BY DEF Known
<1>4. Growing(intQ)'
  <2> SUFFICES ASSUME NEW i \in DOMAIN intQ', NEW j \in DOMAIN intQ', i < j
               PROVE  intQ'[i].s \subseteq intQ'[j].s \cup lost
    BY DEF Growing
  <2>1. i \in DOMAIN intQ BY <1>1
  <2>2. CASE j \in DOMAIN intQ
    <3>1. intQ[i].s \subseteq intQ[j].s \cup lost BY <2>1, <2>2 DEF Ordered, Growing
    <3> QED BY <1>1, <2>1, <2>2, <3>1
  <2>3. CASE j = Len(intQ) + 1
    <3>1. intQ[i] \in Pending BY <2>1 DEF Pending, Range
    <3> QED BY <1>1, <1>3, <2>1, <2>3, <3>1
  <2> QED BY <1>1, <2>2, <2>3
<1>5. Ordered'
  <2>1. Growing(supQ)' BY DEF Ordered, Growing
  <2> QED BY <1>4, <2>1 DEF Ordered, fxVars
<1>6. Handed
  <2>1. \A s \in Range(jobs) : \E t \in Range(jobs)' : s \subseteq t \cup lost'
    BY DEF fxVars
  <2>2. Heard' = Heard /\ UNCHANGED <<fx, lost>> BY DEF Heard, fxVars
  <2> QED BY <1>2, <2>1, <2>2 DEF Handed
<1> QED BY <1>1, <1>2, <1>5, <1>6

(* The parts of the invariant, put together for an edit.                   *)
LEMMA AssembleEdit ==
    ASSUME LanesInv, NEW k, UiEdit(k), NEW e0, e0 = Len(kind) + 1, Handed, TypeOK', Routed', Ordered',
           UNCHANGED <<events, slot, sup, int, fxVars, lost>>,
           \A c \in Pending' : c \in Pending \/ (c.s = ui' /\ c.e \in Made'),
           \A c \in Pending' : c.kind = "fx" => c \in Pending,
           Safe(ui)', CarriedEdit(e0)',
           fxDue' => k = "fx" \/ fxDue,
           fxDue => fxDue' \/ \A e \in Made : Bound(e)'
    PROVE  LanesInv'
<1>1. TypeOK /\ Known /\ Adoptable /\ FxSafe /\ Carried BY DEF LanesInv
<1>2. /\ Made' = Made \cup {e0} /\ e0 \in Made' /\ kind'[e0] = k
      /\ SameKinds /\ ui' \subseteq Made' /\ ui' \cup lost = Made'
  BY <1>1, EditLemma
<1>3. Known'
  <2>1. \A c \in Pending' : c.s \subseteq Made' /\ c.e \in Made'
    BY <1>1, <1>2 DEF Known
  <2>2. \A s \in Range(events)' \cup Range(jobs)' \cup Range(done)' : s \subseteq Made'
    BY <1>1, <1>2 DEF Known, fxVars
  <2>3. slot'.s \cup sup'.last \cup int'.last \cup fx'.s \subseteq Made'
    BY <1>1, <1>2 DEF Known, fxVars
  <2>4. fxDue' => \E e \in Made' : kind'[e] = "fx"
    BY <1>1, <1>2 DEF Known, SameKinds
  <2> QED BY <1>2, <2>1, <2>2, <2>3, <2>4 DEF Known
<1>4. Adoptable' BY <1>1 DEF Adoptable, Handed
<1>5. \A s \in SUBSET Made : Safe(s) => Safe(s)' BY <1>2, SafeKept
<1>6. FxSafe'
  <2>1. ASSUME NEW c \in Pending', c.kind = "fx"
        PROVE  Safe(c.s)'
    BY <1>1, <1>5, <2>1 DEF FxSafe, Known
  <2>2. ASSUME NEW s \in Range(jobs)'
        PROVE  Safe(s)'
    BY <1>1, <1>5, <2>2 DEF FxSafe, Known, fxVars
  <2>3. ASSUME fx'.pc = "run"
        PROVE  Safe(fx.s)'
    <3>1. PICK s : s = fx'.s OBVIOUS
    <3>2. Safe(s) /\ s \in SUBSET Made BY <1>1, <2>3, <3>1 DEF FxSafe, Known, fxVars
    <3>3. Safe(s)' BY <1>5, <3>2
    <3> QED BY <3>1, <3>3 DEF Safe, HasTrack, Of
  <2> QED BY <2>1, <2>2, <2>3 DEF FxSafe
<1>7. Carried'
  <2>1. ASSUME NEW e \in Made
        PROVE  CarriedEdit(e)'
    <3>1. CarriedEdit(e) BY <1>1 DEF Carried
    <3> QED BY <1>2, <3>1, CarriedKept
  <2> QED BY <1>2, <2>1 DEF Carried
<1> QED BY <1>3, <1>4, <1>6, <1>7 DEF LanesInv

(* An edit of a kind that DesiredState is replaced for: its command brings *)
(* everything the window has.                                              *)
LEMMA SyncCarries ==
    ASSUME NEW c \in Pending', c.kind \in SyncKinds, c.s = ui'
    PROVE  /\ \A e \in ui' : Bound(e)' /\ CarriedEdit(e)'
           /\ Safe(ui)'
<1>1. \A e \in ui' : Bound(e)' BY DEF Bound
<1>2. \A e \in ui' : CarriedEdit(e)' BY <1>1 DEF CarriedEdit
<1>3. Safe(ui)' BY <1>1 DEF Safe, Of
<1> QED BY <1>1, <1>2, <1>3

(* A surgical change of the structure.                                     *)
LEMMA StepUiStructural == ASSUME LanesInv, UiStructural PROVE LanesInv'
<1>1. TypeOK /\ Known /\ Routed /\ Ordered BY DEF LanesInv
<1>2. PICK k \in {"ensure", "prune"} :
        UiEdit(k) /\ supQ' = Append(supQ, Sent(k))
  BY DEF UiStructural
<1>0. PICK e0 : e0 = Len(kind) + 1 OBVIOUS
<1> DEFINE c == Sent(k)
<1>3. /\ e0 \in Made' /\ kind' \in Seq(Kinds) /\ Len(kind') = e0
      /\ Len(kind') <= MaxEdit /\ Made' = Made \cup {e0} /\ ui' = ui \cup {e0}
      /\ ui' \in Clones /\ ui' \subseteq Made' /\ ui' \cup lost = Made'
      /\ Made' \subseteq Edits /\ SameKinds
  BY <1>0, <1>1, <1>2, EditLemma
<1>4. c \in Commands /\ c.kind = k /\ c.s = ui' /\ c.e = e0
  BY <1>2, <1>3 DEF Sent, Cmd, Commands, UiEdit
<1> HIDE DEF c
<1>5. Made \subseteq c.s \cup lost BY <1>3, <1>4
<1>6. UNCHANGED <<fxDue, events, intQ, slot, sup, int, fxVars, desired, lost>>
  BY DEF UiStructural
<1>7. /\ Pending' = Pending \cup {c} /\ supQ' \in Seq(Commands)
      /\ Range(supQ)' = Range(supQ) \cup {c}
      /\ Ordered' /\ Handed
  BY <1>1, <1>2, <1>4, <1>5, <1>6, SentToSupervisor DEF c, Heard
<1>8. TypeOK' BY <1>1, <1>3, <1>6, <1>7 DEF TypeOK, fxVars
<1>9. Routed' BY <1>1, <1>2, <1>4, <1>6, <1>7 DEF Routed, SupKinds, Heard
<1>10. (\A e \in ui' : CarriedEdit(e)') /\ Safe(ui)'
  BY <1>2, <1>4, <1>7, SyncCarries DEF SyncKinds
<1>11. \A d \in Pending' : d.kind = "fx" => d \in Pending BY <1>2, <1>4, <1>7
<1>12. \A d \in Pending' : d \in Pending \/ (d.s = ui' /\ d.e \in Made')
  BY <1>3, <1>4, <1>7
<1> QED
  BY <1>0, <1>2, <1>3, <1>6, <1>7, <1>8, <1>9, <1>10, <1>11, <1>12, AssembleEdit

(* The outputs of a strip, patched in DesiredState by the window itself.   *)
LEMMA StepUiRoute == ASSUME LanesInv, UiRoute PROVE LanesInv'
<1>1. TypeOK /\ Known /\ Routed /\ Ordered BY DEF LanesInv
<1>2. PICK k \in {"route"} : UiEdit(k) /\ supQ' = Append(supQ, Sent(k))
  BY DEF UiRoute
<1>0. PICK e0 : e0 = Len(kind) + 1 OBVIOUS
<1> DEFINE c == Sent(k)
<1>3. /\ e0 \in Made' /\ kind' \in Seq(Kinds) /\ Len(kind') = e0
      /\ Len(kind') <= MaxEdit /\ Made' = Made \cup {e0} /\ ui' = ui \cup {e0}
      /\ ui' \in Clones /\ ui' \subseteq Made' /\ ui' \cup lost = Made'
      /\ Made' \subseteq Edits /\ SameKinds
  BY <1>0, <1>1, <1>2, EditLemma
<1>4. c \in Commands /\ c.kind = k /\ c.s = ui' /\ c.e = e0
  BY <1>2, <1>3 DEF Sent, Cmd, Commands, UiEdit
<1> HIDE DEF c
<1>5. Made \subseteq c.s \cup lost BY <1>3, <1>4
<1>6. /\ UNCHANGED <<fxDue, events, intQ, slot, sup, int, fxVars, lost>>
      /\ Heard \subseteq Heard' /\ desired' \subseteq Made'
  <2>1. CASE UNCHANGED <<desired, lost>> BY <1>1, <1>3, <2>1 DEF UiRoute, Heard, TypeOK
  <2>2. CASE /\ desired' = {e \in desired : kind[e] # "route"} \cup Of("route", ui)
                              \cup {Len(kind')}
             /\ lost' = lost \cup (desired \ desired')
    <3>1. desired \ desired' \subseteq lost BY <1>1, <2>2 DEF Of, Known, TypeOK
    <3>2. desired' \subseteq Made' BY <1>1, <1>3, <2>2 DEF Of, Known, TypeOK
    <3> QED BY <2>2, <3>1, <3>2 DEF UiRoute, Heard
  <2> QED BY <2>1, <2>2 DEF UiRoute
<1>7. /\ Pending' = Pending \cup {c} /\ supQ' \in Seq(Commands)
      /\ Range(supQ)' = Range(supQ) \cup {c}
      /\ Ordered' /\ Handed
  BY <1>1, <1>2, <1>4, <1>5, <1>6, SentToSupervisor DEF c, Heard
<1>8. TypeOK'
  <2>1. /\ ui' \cup desired' \cup lost' \subseteq Made'
        /\ desired' \in Clones /\ lost' \in Clones
    BY <1>1, <1>3, <1>6 DEF Clones, TypeOK
  <2> QED BY <1>1, <1>3, <1>6, <1>7, <2>1 DEF TypeOK, fxVars
<1>9. Routed' BY <1>1, <1>2, <1>4, <1>6, <1>7 DEF Routed, SupKinds, Heard
<1>10. (\A e \in ui' : CarriedEdit(e)') /\ Safe(ui)'
  BY <1>2, <1>4, <1>7, SyncCarries DEF SyncKinds
<1>11. \A d \in Pending' : d.kind = "fx" => d \in Pending BY <1>2, <1>4, <1>7
<1>12. \A d \in Pending' : d \in Pending \/ (d.s = ui' /\ d.e \in Made')
  BY <1>3, <1>4, <1>7
<1> QED
  BY <1>0, <1>2, <1>3, <1>6, <1>7, <1>8, <1>9, <1>10, <1>11, <1>12, AssembleEdit

(* An apply, which covers the rack edits that are pending.                 *)
LEMMA StepUiApply == ASSUME LanesInv, UiApply PROVE LanesInv'
<1>1. TypeOK /\ Known /\ Routed /\ Ordered BY DEF LanesInv
<1>2. UiEdit("apply") /\ supQ' = Append(supQ, Sent("apply")) /\ fxDue' = FALSE
  BY DEF UiApply
<1>0. PICK e0 : e0 = Len(kind) + 1 OBVIOUS
<1> DEFINE c == Sent("apply")
<1>3. /\ e0 \in Made' /\ kind' \in Seq(Kinds) /\ Len(kind') = e0
      /\ Len(kind') <= MaxEdit /\ Made' = Made \cup {e0} /\ ui' = ui \cup {e0}
      /\ ui' \in Clones /\ ui' \subseteq Made' /\ ui' \cup lost = Made'
      /\ Made' \subseteq Edits /\ SameKinds
  BY <1>0, <1>1, <1>2, EditLemma
<1>4. c \in Commands /\ c.kind = "apply" /\ c.s = ui' /\ c.e = e0
  BY <1>2, <1>3 DEF Sent, Cmd, Commands, UiEdit
<1> HIDE DEF c
<1>5. Made \subseteq c.s \cup lost BY <1>3, <1>4
<1>6. UNCHANGED <<events, intQ, slot, sup, int, fxVars, desired, lost>>
  BY DEF UiApply
<1>7. /\ Pending' = Pending \cup {c} /\ supQ' \in Seq(Commands)
      /\ Range(supQ)' = Range(supQ) \cup {c}
      /\ Ordered' /\ Handed
  BY <1>1, <1>2, <1>4, <1>5, <1>6, SentToSupervisor DEF c, Heard
<1>8. TypeOK' BY <1>1, <1>2, <1>3, <1>6, <1>7 DEF TypeOK, fxVars
<1>9. Routed' BY <1>1, <1>4, <1>6, <1>7 DEF Routed, SupKinds, Heard
<1>10. (\A e \in ui' : Bound(e)' /\ CarriedEdit(e)') /\ Safe(ui)'
  BY <1>4, <1>7, SyncCarries DEF SyncKinds
<1>11. \A e \in Made : Bound(e)'
  <2>1. \A e \in lost : Bound(e)' BY <1>6 DEF Bound, Heard
  <2> QED BY <1>3, <1>10, <2>1
<1>12. \A d \in Pending' : d.kind = "fx" => d \in Pending BY <1>4, <1>7
<1>13. \A d \in Pending' : d \in Pending \/ (d.s = ui' /\ d.e \in Made')
  BY <1>3, <1>4, <1>7
<1> QED
  BY <1>0, <1>2, <1>3, <1>6, <1>7, <1>8, <1>9, <1>10, <1>11, <1>12, <1>13,
     AssembleEdit

(* A change of the interactive lane's: it is in its command.               *)
LEMMA StepUiInteractive == ASSUME LanesInv, UiInteractive PROVE LanesInv'
<1>1. TypeOK /\ Known /\ Routed /\ Ordered /\ FxSafe BY DEF LanesInv
<1>2. PICK k \in IntKinds : UiEdit(k) /\ intQ' = Append(intQ, Sent(k))
  BY DEF UiInteractive
<1>0. PICK e0 : e0 = Len(kind) + 1 OBVIOUS
<1> DEFINE c == Sent(k)
<1>3. /\ e0 \in Made' /\ kind' \in Seq(Kinds) /\ Len(kind') = e0
      /\ Len(kind') <= MaxEdit /\ Made' = Made \cup {e0} /\ ui' = ui \cup {e0}
      /\ ui' \in Clones /\ ui' \subseteq Made' /\ ui' \cup lost = Made'
      /\ Made' \subseteq Edits /\ SameKinds /\ kind'[e0] = k
  BY <1>0, <1>1, <1>2, EditLemma
<1>4. c \in Commands /\ c.kind = k /\ c.s = ui' /\ c.e = e0
  BY <1>2, <1>3 DEF Sent, Cmd, Commands, UiEdit
<1> HIDE DEF c
<1>5. Made \subseteq c.s \cup lost BY <1>3, <1>4
<1>6. UNCHANGED <<fxDue, events, supQ, slot, sup, int, fxVars, desired, lost>>
  BY DEF UiInteractive
<1>7. /\ Pending' = Pending \cup {c} /\ intQ' \in Seq(Commands)
      /\ Range(intQ)' = Range(intQ) \cup {c}
      /\ Ordered' /\ Handed
  BY <1>1, <1>2, <1>4, <1>5, <1>6, SentToInteractive DEF c
<1>8. TypeOK' BY <1>1, <1>3, <1>6, <1>7 DEF TypeOK, fxVars
<1>9. Routed' BY <1>1, <1>2, <1>4, <1>6, <1>7 DEF Routed, Heard
<1>10. Safe(ui)'
  <2>1. CASE HasTrack(ui)
    <3>1. HasTrack(ui)'
      BY <1>1, <1>2, <1>3, <2>1 DEF HasTrack, Of, SameKinds, Known, IntKinds
    <3> QED BY <3>1 DEF Safe
  <2>2. CASE \A e \in Of("fx", ui) : Bound(e)
    <3>1. \A e \in Of("fx", ui) : Bound(e)' BY <1>7, <2>2, BoundKept
    <3>2. Of("fx", ui)' \subseteq Of("fx", ui)
      BY <1>1, <1>2, <1>3 DEF Of, SameKinds, Known, IntKinds
    <3> QED BY <3>1, <3>2 DEF Safe
  <2> QED BY <1>1, <2>1, <2>2 DEF FxSafe, Safe
<1>11. CarriedEdit(e0)'
  <2>1. c \in Pending' /\ e0 \in c.s BY <1>3, <1>4, <1>7
  <2>2. CASE k = "play" BY <1>4, <2>1, <2>2 DEF CarriedEdit, Bound, SyncKinds
  <2>3. CASE k = "capture" BY <1>3, <1>4, <2>1, <2>3 DEF CarriedEdit
  <2>4. CASE k = "pick" BY <1>3, <1>4, <2>1, <2>4 DEF CarriedEdit
  <2> QED BY <1>2, <2>2, <2>3, <2>4 DEF IntKinds
<1>12. \A d \in Pending' : d.kind = "fx" => d \in Pending
  BY <1>2, <1>4, <1>7 DEF IntKinds
<1>13. \A d \in Pending' : d \in Pending \/ (d.s = ui' /\ d.e \in Made')
  BY <1>3, <1>4, <1>7
<1> QED
  BY <1>0, <1>2, <1>6, <1>7, <1>8, <1>9, <1>10, <1>11, <1>12, <1>13, AssembleEdit

(* An edit of the rack: the deadline is set.                               *)
LEMMA StepUiFx == ASSUME LanesInv, UiFx PROVE LanesInv'
<1>1. TypeOK /\ Known /\ Routed /\ Ordered BY DEF LanesInv
<1>2. UiEdit("fx") /\ fxDue' = TRUE /\ HasTrack(ui) BY DEF UiFx
<1>3. UNCHANGED <<events, supQ, intQ, slot, sup, int, fxVars, desired, lost>>
  BY DEF UiFx
<1>0. PICK e0 : e0 = Len(kind) + 1 OBVIOUS
<1>4. /\ e0 \in Made' /\ kind' \in Seq(Kinds) /\ Len(kind') = e0
      /\ Len(kind') <= MaxEdit /\ Made' = Made \cup {e0} /\ ui' = ui \cup {e0}
      /\ ui' \in Clones /\ ui' \subseteq Made' /\ ui' \cup lost = Made'
      /\ Made' \subseteq Edits /\ SameKinds /\ kind'[e0] = "fx"
  BY <1>0, <1>1, <1>2, EditLemma
<1>5. Pending' = Pending BY <1>3 DEF Pending
<1>6. Ordered'
  <2>1. Growing(supQ)' /\ Growing(intQ)' BY <1>1, <1>3 DEF Ordered, Growing
  <2> QED BY <1>1, <1>3, <2>1 DEF Ordered, fxVars
<1>7. Handed
  <2>1. \A s \in Range(jobs) : \E t \in Range(jobs)' : s \subseteq t \cup lost'
    BY <1>3 DEF fxVars
  <2>2. Heard' = Heard /\ UNCHANGED <<fx, lost>> BY <1>3 DEF Heard, fxVars
  <2> QED BY <1>5, <2>1, <2>2 DEF Handed
<1>8. TypeOK' BY <1>1, <1>2, <1>3, <1>4 DEF TypeOK, fxVars
<1>9. Routed' BY <1>1, <1>3 DEF Routed, Heard
<1>10. Safe(ui)'
  <2>1. HasTrack(ui)' BY <1>1, <1>2, <1>4 DEF HasTrack, Of, SameKinds, Known
  <2> QED BY <2>1 DEF Safe
<1>11. CarriedEdit(e0)' BY <1>2, <1>4 DEF CarriedEdit
<1> QED
  BY <1>0, <1>2, <1>3, <1>5, <1>6, <1>7, <1>8, <1>9, <1>10, <1>11, AssembleEdit

(* The deadline: the session goes to the supervisor.                       *)
LEMMA StepUiFlushFx == ASSUME LanesInv, UiFlushFx PROVE LanesInv'
<1>1. TypeOK /\ Known /\ Routed /\ Adoptable /\ Ordered /\ FxSafe /\ Carried
  BY DEF LanesInv
<1> DEFINE c == Cmd(Len(kind), "fx", ui)
<1>2. /\ fxDue /\ fxDue' = FALSE /\ supQ' = Append(supQ, c)
      /\ UNCHANGED <<kind, ui, events, intQ, slot, sup, int, fxVars, desired, lost>>
  BY DEF UiFlushFx
<1>3. PICK e \in Made : kind[e] = "fx" BY <1>1, <1>2 DEF Known
<1>4. /\ kind \in Seq(Kinds) /\ Made = 1 .. Len(kind) /\ Len(kind) \in Nat
      /\ Made \subseteq Edits /\ Made' = Made
  BY <1>1, <1>2, QueueTypes DEF Made
<1>5. Len(kind) \in Made /\ "fx" \in Kinds
  <2>1. kind[e] \in Kinds BY <1>3, <1>4, ElementOfSeq
  <2> QED BY <1>3, <1>4, <2>1
<1>6. c \in Commands /\ c.kind = "fx" /\ c.s = ui /\ c.e = Len(kind)
  BY <1>1, <1>4, <1>5 DEF Cmd, Commands, TypeOK
<1> HIDE DEF c
<1>7. Made \subseteq c.s \cup lost BY <1>1, <1>6 DEF Known
<1>8. /\ Pending' = Pending \cup {c} /\ supQ' \in Seq(Commands)
      /\ Range(supQ)' = Range(supQ) \cup {c}
      /\ Ordered' /\ Handed
  BY <1>1, <1>2, <1>6, <1>7, SentToSupervisor DEF Heard
<1>9. TypeOK' BY <1>1, <1>2, <1>8 DEF TypeOK, fxVars, Made
<1>10. Routed' BY <1>1, <1>2, <1>6, <1>8 DEF Routed, SupKinds, Heard
<1>11. Adoptable' BY <1>1, <1>2 DEF Adoptable, Heard
<1>12. Known'
  <2>1. ui \subseteq Made BY <1>1 DEF Known
  <2> QED BY <1>1, <1>2, <1>4, <1>5, <1>6, <1>8, <2>1 DEF Known, fxVars
<1>13. Origin BY <1>2, <1>6, <1>8 DEF Origin, fxVars
<1>14. \A d \in Made : kind[d] = "fx" => FxBound(d)' \/ Bound(d)'
  <2>1. \A d \in ui : FxBound(d)' BY <1>6, <1>8 DEF FxBound
  <2>2. \A d \in lost : Bound(d)' BY <1>2 DEF Bound, Heard
  <2> QED BY <1>1, <2>1, <2>2 DEF Known
<1>15. FxSafe' /\ Carried' BY <1>1, <1>2, <1>8, <1>13, <1>14, EditsKept
<1> QED BY <1>8, <1>9, <1>10, <1>11, <1>12, <1>15 DEF LanesInv

(* The window adopts what an apply has brought to DesiredState.            *)
LEMMA StepUiAdopt == ASSUME LanesInv, UiAdopt PROVE LanesInv'
<1>1. TypeOK /\ Known /\ Routed /\ Adoptable /\ Ordered /\ FxSafe /\ Carried
  BY DEF LanesInv
<1>2. PICK h : h = Head(events) OBVIOUS
<1>3. /\ ui' = h /\ events' = Tail(events) /\ lost' = lost \cup (ui \ h)
      /\ UNCHANGED <<kind, fxDue, supQ, intQ, slot, sup, int, fxVars, desired>>
  BY <1>2 DEF UiAdopt
<1>4. /\ h \in Range(events) /\ Tail(events) \in Seq(Clones) /\ h \in Clones
      /\ Range(events) = {h} \cup Range(Tail(events))
  BY <1>1, <1>2, QueueTypes, TailLemma DEF UiAdopt
<1>5. h \subseteq Made /\ h \subseteq Heard BY <1>1, <1>4 DEF Known, Adoptable
<1>6. Made' = Made /\ Made \subseteq Edits /\ SameKinds
  BY <1>1, <1>3, QueueTypes DEF Made, SameKinds
<1>7. /\ Heard \subseteq Heard' /\ lost \subseteq lost' /\ lost' \subseteq Made
      /\ ui' \cup lost' = Made
  BY <1>1, <1>3, <1>5 DEF Heard, Known, TypeOK
<1>8. Pending' = Pending BY <1>3 DEF Pending
<1>9. TypeOK'
  <2>1. ui' \cup desired' \cup lost' \subseteq Made'
    BY <1>1, <1>3, <1>5, <1>6, <1>7 DEF TypeOK
  <2>2. lost' \in Clones BY <1>6, <1>7 DEF Clones
  <2> QED BY <1>1, <1>3, <1>4, <2>1, <2>2 DEF TypeOK, fxVars
<1>10. Known' BY <1>1, <1>3, <1>4, <1>6, <1>7, <1>8 DEF Known, fxVars
<1>11. Routed' BY <1>1, <1>3, <1>7 DEF Routed
<1>12. Adoptable' BY <1>1, <1>3, <1>4, <1>7 DEF Adoptable
<1>13. Ordered'
  <2>1. Growing(supQ)' /\ Growing(intQ)'
    BY <1>1, <1>3, <1>7 DEF Ordered, Growing
  <2>2. UNCHANGED <<supQ, jobs, sup>> BY <1>3 DEF fxVars
  <2>3. /\ \A i, j \in DOMAIN jobs' : i < j => jobs'[i] \subseteq jobs'[j] \cup lost'
        /\ \A s \in Range(jobs)', c \in Range(supQ)' \cup Range(sup.work)' :
             c.kind = "fx" => s \subseteq c.s \cup lost'
        /\ \A c \in Range(sup.work)', d \in Range(supQ)' :
             c.kind = "fx" => c.s \subseteq d.s \cup lost'
    BY <1>1, <1>7, <2>2 DEF Ordered
  <2>4. \A i, j \in DOMAIN sup'.work :
          sup'.work[i].kind = "fx" /\ sup'.work[j].kind = "fx" => i = j
    BY <1>1, <2>2 DEF Ordered
  <2> QED BY <2>1, <2>3, <2>4 DEF Ordered
<1>14. Handed
  <2>1. UNCHANGED <<jobs, fx>> BY <1>3 DEF fxVars
  <2>2. \A s \in Range(jobs) : \E t \in Range(jobs)' : s \subseteq t \cup lost'
    BY <2>1
  <2> QED BY <1>7, <1>8, <2>1, <2>2 DEF Handed
<1>15. \A s \in SUBSET Made : Safe(s) => Safe(s)' BY <1>6, <1>14, SafeKept
<1>16. FxSafe'
  <2>1. Safe(ui)'
    <3>1. \A e \in ui' : Bound(e)' BY <1>3, <1>5, <1>7 DEF Bound
    <3> QED BY <3>1 DEF Safe, Of
  <2>2. ASSUME NEW c \in Pending', c.kind = "fx"
        PROVE  Safe(c.s)'
    BY <1>1, <1>8, <1>15, <2>2 DEF FxSafe, Known
  <2>3. ASSUME NEW s \in Range(jobs)'
        PROVE  Safe(s)'
    BY <1>1, <1>3, <1>15, <2>3 DEF FxSafe, Known, fxVars
  <2>4. ASSUME fx'.pc = "run"
        PROVE  Safe(fx.s)'
    <3>1. PICK s : s = fx'.s OBVIOUS
    <3>2. Safe(s) /\ s \in SUBSET Made
      BY <1>1, <1>3, <2>4, <3>1 DEF FxSafe, Known, fxVars
    <3>3. Safe(s)' BY <1>15, <3>2
    <3> QED BY <3>1, <3>3 DEF Safe, HasTrack, Of
  <2> QED BY <2>1, <2>2, <2>3, <2>4 DEF FxSafe
<1>17. Carried'
  <2>1. ASSUME NEW e \in Made
        PROVE  CarriedEdit(e)'
    <3>1. CarriedEdit(e) BY <1>1 DEF Carried
    <3> QED BY <1>3, <1>6, <1>14, <3>1, CarriedKept
  <2> QED BY <1>6, <2>1 DEF Carried
<1> QED BY <1>9, <1>10, <1>11, <1>12, <1>13, <1>16, <1>17 DEF LanesInv

-----------------------------------------------------------------------------
(***************************************************************************)
(* The theorems.                                                           *)
(***************************************************************************)

(* The session that is loaded and applied satisfies the invariant.         *)
LEMMA InitLanes == Init => LanesInv
<1> SUFFICES ASSUME Init PROVE LanesInv OBVIOUS
<1> USE DEF Init
<1>1. /\ DOMAIN <<>> = {} /\ Len(<<>>) = 0 /\ Range(<<>>) = {}
      /\ \A S : <<>> \in Seq(S)
  <2>1. DOMAIN <<>> = {} OBVIOUS
  <2> QED BY <2>1, EmptySeq DEF Range
<1>2. Made = {} /\ Pending = {} /\ Heard = {} BY <1>1 DEF Made, Pending, Heard
<1>3. {} \in Clones BY DEF Clones
<1>4. TypeOK
  <2>1. sup \in Lanes /\ int \in Lanes BY <1>1, <1>3 DEF Lanes
  <2>2. kind \in Seq(Kinds) /\ Len(kind) <= MaxEdit BY <1>1, KindsAssumption
  <2>3. sup.gen <= slot.gen /\ int.gen <= slot.gen OBVIOUS
  <2>4. slot \in [s : Clones, gen : Nat] BY <1>3
  <2>5. fx \in [pc : {"idle", "run", "built"}, s : Clones] BY <1>3
  <2>6. ui \cup desired \cup lost \subseteq Made OBVIOUS
  <2>7. /\ ui \in Clones /\ desired \in Clones /\ lost \in Clones
        /\ fxDue \in BOOLEAN
    BY <1>3
  <2>8. /\ events \in Seq(Clones) /\ jobs \in Seq(Clones) /\ done \in Seq(Clones)
        /\ supQ \in Seq(Commands) /\ intQ \in Seq(Commands)
    BY <1>1
  <2> QED BY <2>1, <2>2, <2>3, <2>4, <2>5, <2>6, <2>7, <2>8 DEF TypeOK
<1>5. Known BY <1>1, <1>2 DEF Known
<1>6. Routed BY <1>1 DEF Routed
<1>7. Adoptable BY <1>1 DEF Adoptable
<1>8. Ordered BY <1>1 DEF Ordered, Growing
<1>9. FxSafe BY <1>1, <1>2 DEF FxSafe, Safe, Of
<1>10. Carried BY <1>2 DEF Carried
<1> QED BY <1>4, <1>5, <1>6, <1>7, <1>8, <1>9, <1>10 DEF LanesInv

(* A step that changes nothing.                                            *)
LEMMA StutterLanes == LanesInv /\ UNCHANGED vars => LanesInv'
<1> SUFFICES ASSUME LanesInv, UNCHANGED vars PROVE LanesInv' OBVIOUS
<1>1. TypeOK /\ Known /\ Routed BY DEF LanesInv
<1>2. /\ UNCHANGED <<uiVars, supQ, intQ, slot, sup, int, fxVars, desired, lost>>
      /\ UNCHANGED <<jobs, done, fx>>
  BY DEF vars, fxVars
<1>3. Routed' BY <1>1, <1>2 DEF Routed, Heard
<1>4. desired' \cup lost' \subseteq Made /\ Heard' = Heard
  BY <1>1, <1>2 DEF TypeOK, Heard
<1> QED BY <1>1, <1>2, <1>3, <1>4, LaneStill DEF TypeOK, Known

(* Every step of the window, of the lanes and of the FX thread.            *)
LEMMA StepLanes == LanesInv /\ [Next]_vars => LanesInv'
<1> SUFFICES ASSUME LanesInv, [Next]_vars PROVE LanesInv' OBVIOUS
<1>1. CASE Ui
  BY <1>1, StepUiStructural, StepUiRoute, StepUiInteractive, StepUiApply, StepUiFx,
     StepUiFlushFx, StepUiAdopt DEF Ui
<1>2. CASE Supervisor
  BY <1>2, StepSupPull, StepSupMerge, StepSupWait, StepSupTake, StepSupTimeout,
     StepSupSweep, StepSupReclaim, StepSupRewire, StepSupQueueFx, StepSupArm,
     StepSupPlace, StepSupAuthority, StepSupPublish DEF Supervisor
<1>3. CASE FxThread BY <1>3, StepFxTake, StepFxSync, StepFxDone DEF FxThread
<1>4. CASE Interactive
  BY <1>4, StepIntPull, StepIntMirror, StepIntTake, StepIntTimeout, StepIntPick,
     StepIntPrefer, StepIntReclaim, StepIntEgress, StepIntCapture, StepIntPlay, StepIntPublish
  DEF Interactive
<1>5. CASE UNCHANGED vars BY <1>5, StutterLanes
<1> QED BY <1>1, <1>2, <1>3, <1>4, <1>5 DEF Next

(* At every step each edit is somewhere: the engine has it, something has  *)
(* undone it, or a clone that carries it has yet to be brought to          *)
(* DesiredState.                                                           *)
THEOREM LanesInvariant == Spec => []LanesInv
<1> QED BY InitLanes, StepLanes, PTL DEF Spec

(* The variables stay in their types; no lane is ahead of the slot.        *)
THEOREM TypeCorrect == Spec => []TypeOK
<1>1. LanesInv => TypeOK BY DEF LanesInv
<1> QED BY <1>1, LanesInvariant, PTL

(* What is on no way is nowhere else.                                      *)
LEMMA SettledAccounted == LanesInv => Accounted
<1> SUFFICES ASSUME LanesInv, Settled, NEW e \in Made \ lost
             PROVE  e \in desired /\ e \in ui
  BY DEF Accounted
<1>1. Known /\ Routed /\ Carried BY DEF LanesInv
<1>2. sup.work = <<>> /\ int.work = <<>>
  BY <1>1 DEF Settled, Resting, Routed
<1>3. DOMAIN <<>> = {} OBVIOUS
<1>4. Range(<<>>) = {} BY <1>3 DEF Range
<1>5. Pending = {} /\ Range(jobs) = {} /\ fx.pc # "run" /\ ~fxDue
  BY <1>2, <1>4 DEF Pending, Settled
<1>6. e \in Heard BY <1>1, <1>5 DEF Carried, CarriedEdit, Bound, FxBound
<1> QED BY <1>1, <1>6 DEF Heard, Known

(* When nothing is on its way, the engine has every edit that the window   *)
(* shows, except those that a stale clone or a swallowed command undid.    *)
THEOREM EditsAccounted == Spec => []Accounted
<1> QED BY LanesInvariant, SettledAccounted, PTL
=============================================================================
