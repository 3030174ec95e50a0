----------------------------- MODULE PwPlaneProofs -----------------------------
(***************************************************************************)
(* Whatever threads race for the control plane, the one that is installed  *)
(* has a living loop, a plane being started belongs to one thread only,    *)
(* and only a plane taken out of the slot is ever told to quit.            *)
(***************************************************************************)
EXTENDS PwPlane, TLAPS

\* p is being started: by a caller, or by the reconnect
Fresh(p) == \/ recon.pc = "start" /\ recon.plane = p
            \/ \E t \in Threads : thr[t].pc = "starting" /\ thr[t].plane = p

Where == [pc : {"idle", "starting", "ensured", "waiting", "gone", "mark"},
          plane : Planes \cup {None}]
Reconnect == [pc : {"watch", "hollow", "join", "start", "arm"}, plane : Planes \cup {None}]

\* What a loop thread leaves behind: no request in a loop that does not run,
\* and no ready flag before the first sync
Sound(r) == /\ r.life \notin Looping => Range(r.queue) \cup {r.sync} \subseteq {None}
            /\ r.ready => r.life \in {"running", "lost", "ended"}

\* It was told to quit
Leaving(r) == Quit \in Range(r.queue) \/ (r.life = "ended" /\ r.ready)

Counters == /\ pw \in BOOLEAN /\ dead \in BOOLEAN /\ asked \in BOOLEAN
            /\ misses \in Nat
            /\ calls \in 0 .. MaxCalls /\ deaths \in 0 .. MaxDeaths /\ slow \in 0 .. MaxSlow

Loops == /\ planes \in [Planes -> Plane]
         /\ \A p \in Planes : Sound(planes[p])

Placed == /\ thr \in [Threads -> Where]
          /\ \A t \in Threads : thr[t].pc \in {"starting", "waiting"} => thr[t].plane \in Planes
          /\ recon \in Reconnect
          /\ recon.pc = "start" => recon.plane \in Planes

Installable == /\ slot \in Planes \cup {None}
               /\ slot # None => planes[slot].life \in Looping

\* A plane that is being started has one owner
Unshared ==
    /\ \A t \in Threads : thr[t].pc = "starting" =>
         /\ thr[t].plane # slot /\ thr[t].plane # recon.plane
         /\ \A u \in Threads : u # t => thr[u].plane # thr[t].plane
    /\ recon.pc = "start" => /\ recon.plane # slot
                             /\ \A t \in Threads : thr[t].plane # recon.plane

\* A plane told to quit is neither installed nor being started
Retired == \A p \in Planes : Leaving(planes[p]) => p # slot /\ ~Fresh(p)

PlaneInv == Counters /\ Loops /\ Placed /\ Installable /\ Unshared /\ Retired
-----------------------------------------------------------------------------
\* What Append, Head and Tail do to the requests of a channel.
LEMMA Channel ==
    ASSUME NEW S, NEW q \in Seq(S)
    PROVE  /\ \A e \in S : /\ Append(q, e) \in Seq(S)
                           /\ Range(Append(q, e)) = Range(q) \cup {e}
           /\ q # <<>> => /\ Head(q) \in S /\ Head(q) \in Range(q)
                          /\ Tail(q) \in Seq(S) /\ Range(Tail(q)) \subseteq Range(q)
<1>1. ASSUME NEW e \in S
      PROVE  Append(q, e) \in Seq(S) /\ Range(Append(q, e)) = Range(q) \cup {e}
  <2>1. /\ Append(q, e) \in Seq(S)
        /\ DOMAIN Append(q, e) = DOMAIN q \cup {Len(q) + 1}
        /\ \A i \in DOMAIN q : Append(q, e)[i] = q[i]
        /\ Append(q, e)[Len(q) + 1] = e
    OBVIOUS
  <2> QED
    BY <2>1 DEF Range
<1>2. ASSUME q # <<>>
      PROVE  /\ Head(q) \in S /\ Head(q) \in Range(q)
             /\ Tail(q) \in Seq(S) /\ Range(Tail(q)) \subseteq Range(q)
  <2>1. /\ 1 \in DOMAIN q /\ Head(q) = q[1] /\ Head(q) \in S /\ Tail(q) \in Seq(S)
        /\ \A i \in DOMAIN Tail(q) : i + 1 \in DOMAIN q /\ Tail(q)[i] = q[i + 1]
    BY <1>2
  <2> QED
    BY <2>1 DEF Range
<1> QED
  BY <1>1, <1>2

\* The place given to a new loop thread is one nobody holds.
LEMMA NewPlane ==
    ASSUME NEW held, Spare(held) # {}
    PROVE  New(held) \in Planes /\ New(held) \notin held
<1>1. New(held) \in Spare(held)
  BY DEF New
<1> QED
  BY <1>1 DEF Spare

\* A new loop thread is sound and leaves nothing behind.
LEMMA OffSound ==
    /\ Off \in Plane
    /\ \A l \in Lives : /\ [Off EXCEPT !.life = l] \in Plane
                        /\ Sound([Off EXCEPT !.life = l])
                        /\ ~Leaving([Off EXCEPT !.life = l])
<1>1. <<>> \in Seq(Threads \cup {None, Quit}) /\ Range(<<>>) = {}
  BY DEF Range
<1> QED
  BY <1>1 DEF Off, Plane, Lives, Sound, Leaving, Looping

\* Every state of the plane and of whoever uses it stays of its type.
LEMMA CountersNext == Counters /\ Placed /\ [Next]_vars => Counters'
<1> SUFFICES ASSUME Counters, Placed, [Next]_vars PROVE Counters'
  OBVIOUS
<1> MaxCalls \in Nat /\ MaxDeaths \in Nat /\ MaxSlow \in Nat
  BY ConstantsAssumption
<1> USE DEF Counters
<1>1. ASSUME NEW c \in Callers, Ensure(c) PROVE Counters'
  BY <1>1 DEF Ensure
<1>2. ASSUME NEW t \in Threads, Step(t) PROVE Counters'
  <2>1. CASE Started(t)
    BY <2>1 DEF Started, SyncTooLate
  <2>2. CASE Send(t)
    BY <2>2 DEF Send
  <2>3. CASE TimedOut(t)
    <3>1. /\ UNCHANGED <<pw, dead, asked, calls, deaths>>
          /\ misses' = misses \/ misses' = misses + 1
          /\ (slow < MaxSlow /\ slow' = slow + 1) \/ slow' = slow
      BY <2>3 DEF TimedOut
    <3> QED
      BY <3>1
  <2>4. CASE Disconnected(t) \/ MarkDead(t) \/ MarkSlot(t)
    BY <2>4 DEF Disconnected, MarkDead, MarkSlot
  <2> QED
    BY <1>2, <2>1, <2>2, <2>3, <2>4 DEF Step
<1>3. ASSUME NEW p \in Planes, Loop(p) PROVE Counters'
  <2>1. UNCHANGED <<pw, asked, calls, deaths, slow>>
    BY <1>3 DEF Loop
  <2>2. /\ dead' = dead \/ dead' = TRUE
        /\ misses' = misses \/ misses' = 0
    <3>1. \A t : Answer(t) => misses' = misses \/ misses' = 0
      BY DEF Answer
    <3> QED
      BY <1>3, <3>1 DEF Loop, Connect, FirstSync, Handle, SyncDone, CoreError, Exit
  <2>3. dead' \in BOOLEAN
    BY <2>2, Zenon
  <2> QED
    BY <2>1, <2>2, <2>3
<1>4. CASE Supervise
  <2>1. UNCHANGED <<pw, misses, calls, deaths>>
    BY <1>4 DEF Supervise
  <2>2. dead' = dead \/ dead' \in BOOLEAN
    BY <1>4 DEF Supervise, Probe, SeeHollow, Debounced, TakeAsked, Joined, Restarted, Armed
  <2>3. asked' = asked \/ asked' = FALSE
    BY <1>4 DEF Supervise, Probe, SeeHollow, Debounced, TakeAsked, Joined, Restarted, Armed
  <2>4. slow' = slow \/ (slow < MaxSlow /\ slow' = slow + 1)
    <3>1. \A p : SyncTooLate(p) => slow' = slow \/ (slow < MaxSlow /\ slow' = slow + 1)
      BY DEF SyncTooLate
    <3> QED
      BY <1>4, <3>1 DEF Supervise, Probe, SeeHollow, Debounced, TakeAsked, Joined, Restarted,
                        Armed
  <2>5. dead' \in BOOLEAN /\ asked' \in BOOLEAN
    BY <2>2, <2>3, Zenon
  <2> QED
    BY <2>1, <2>4, <2>5
<1>5. CASE Ask \/ PwDown \/ PwUp
  <2>1. UNCHANGED <<dead, misses, slow>>
    BY <1>5 DEF Ask, PwDown, PwUp
  <2>2. /\ pw' = pw \/ pw' \in BOOLEAN
        /\ asked' = asked \/ asked' = TRUE
        /\ calls' = calls \/ (calls < MaxCalls /\ calls' = calls + 1)
        /\ deaths' = deaths \/ (deaths < MaxDeaths /\ deaths' = deaths + 1)
    BY <1>5 DEF Ask, PwDown, PwUp
  <2>3. pw' \in BOOLEAN /\ asked' \in BOOLEAN
    BY <2>2, Zenon
  <2> QED
    BY <2>1, <2>2, <2>3
<1>6. CASE UNCHANGED vars
  BY <1>6 DEF vars
<1> QED
  BY <1>1, <1>2, <1>3, <1>4, <1>5, <1>6 DEF Next
-----------------------------------------------------------------------------
\* What a step leaves of plane p: it stays sound, the installed one goes on
\* looping unless it was told to quit, and only the one taken out is told so
Kept(p) == /\ planes'[p] \in Plane /\ Sound(planes'[p])
           /\ p = slot /\ ~Leaving(planes[p]) => planes'[p].life \in Looping
           /\ Leaving(planes'[p]) => Leaving(planes[p]) \/ (p = slot /\ slot' = None)

AllKept == /\ planes' \in [Planes -> Plane]
           /\ \A p \in Planes : Kept(p)

\* A step that leaves the planes alone.
LEMMA NoPlane ==
    ASSUME Loops, Installable, planes' = planes
    PROVE  AllKept
<1> None \notin Planes
  BY ConstantsAssumption
<1> QED
  BY DEF Loops, Installable, AllKept, Kept

\* A step that changes one plane.
LEMMA OnePlane ==
    ASSUME Loops, Installable, NEW p \in Planes, NEW r \in Plane, Sound(r),
           planes' = [planes EXCEPT ![p] = r],
           p = slot /\ ~Leaving(planes[p]) => r.life \in Looping,
           Leaving(r) => Leaving(planes[p]) \/ (p = slot /\ slot' = None)
    PROVE  AllKept
<1>1. \A q \in Planes : planes'[q] = IF q = p THEN r ELSE planes[q]
  BY DEF Loops
<1>2. planes' \in [Planes -> Plane]
  BY DEF Loops
<1>3. \A q \in Planes : Kept(q)
  BY <1>1, ConstantsAssumption DEF Loops, Installable, Kept
<1> QED
  BY <1>2, <1>3 DEF AllKept

\* A request that is given up leaves a place in the queue that wakes nobody.
LEMMA ForgetKeeps ==
    ASSUME NEW t \in Threads, NEW r \in Plane, Sound(r)
    PROVE  /\ Forget(t, r) \in Plane /\ Sound(Forget(t, r))
           /\ Forget(t, r).life = r.life
           /\ Leaving(Forget(t, r)) => Leaving(r)
<1> DEFINE q == [i \in DOMAIN r.queue |-> IF r.queue[i] = t THEN None ELSE r.queue[i]]
           s == IF r.sync = t THEN None ELSE r.sync
<1>1. r.queue \in Seq(Threads \cup {None, Quit}) /\ r.sync \in Threads \cup {None}
  BY DEF Plane
<1>2. q \in Seq(Threads \cup {None, Quit}) /\ s \in Threads \cup {None}
  BY <1>1
<1>3. Range(q) \subseteq Range(r.queue) \cup {None}
  BY <1>1 DEF Range
<1>4. None # Quit
  BY DEF None, Quit
<1>5. Forget(t, r) = [r EXCEPT !.queue = q, !.sync = s]
  BY DEF Forget
<1>6. /\ Forget(t, r) \in Plane
      /\ Forget(t, r).life = r.life /\ Forget(t, r).ready = r.ready
      /\ Forget(t, r).queue = q /\ Forget(t, r).sync = s
  <2> HIDE DEF q, s
  <2> QED
    BY <1>2, <1>5 DEF Plane
<1> HIDE DEF q
<1> QED
  BY <1>3, <1>4, <1>6 DEF Sound, Leaving
-----------------------------------------------------------------------------
\* A thread that starts a plane takes a place nobody holds.
LEMMA SpawnKeeps ==
    ASSUME Loops, Installable, NEW held, slot \in held, Spawn(held)
    PROVE  /\ AllKept
           /\ New(held) \in Planes \ held
           /\ ~Leaving(planes'[New(held)])
<1> DEFINE p == New(held)
           r == [Off EXCEPT !.life = "connecting"]
<1>1. p \in Planes /\ p \notin held
  BY NewPlane DEF Spawn
<1>2. r \in Plane /\ Sound(r) /\ ~Leaving(r)
  BY OffSound DEF Lives
<1>3. planes' = [planes EXCEPT ![p] = r]
  BY DEF Spawn
<1>4. planes'[p] = r
  BY <1>1, <1>3 DEF Loops
<1> HIDE DEF p, r
<1>5. AllKept
  BY <1>1, <1>2, <1>3, OnePlane
<1> QED
  BY <1>1, <1>2, <1>4, <1>5 DEF p

\* One step of the loop thread.
LEMMA LoopKeeps ==
    ASSUME Loops, Installable, NEW p \in Planes, Loop(p)
    PROVE  AllKept
<1> DEFINE old == planes[p]
<1>1. old \in Plane /\ Sound(old) /\ (p = slot => old.life \in Looping)
  BY ConstantsAssumption DEF Loops, Installable
<1>2. /\ old.queue \in Seq(Threads \cup {None, Quit}) /\ old.sync \in Threads \cup {None}
      /\ old.life \in Lives /\ old.ready \in BOOLEAN /\ old.master \in BOOLEAN
  BY <1>1 DEF Plane
<1>3. CASE Connect(p)
  <2> DEFINE r == [old EXCEPT !.life = IF pw THEN "syncing" ELSE "ended"]
  <2>1. old.life = "connecting" /\ planes' = [planes EXCEPT ![p] = r]
    BY <1>3 DEF Connect
  <2>2. r \in Plane /\ r.life \in {"syncing", "ended"}
        /\ r.queue = old.queue /\ r.sync = old.sync /\ r.ready = old.ready
    BY <1>1 DEF Plane, Lives
  <2>3. ~old.ready /\ Range(old.queue) \cup {old.sync} \subseteq {None} /\ p # slot
    BY <1>1, <2>1 DEF Sound, Looping
  <2> HIDE DEF r, old
  <2>4. Sound(r) /\ ~Leaving(r)
    BY <2>2, <2>3 DEF Sound, Leaving, None, Quit
  <2> QED
    BY <2>1, <2>2, <2>3, <2>4, OnePlane
<1>4. CASE FirstSync(p)
  <2> DEFINE r == [old EXCEPT !.life = "running", !.ready = TRUE]
  <2>1. old.life = "syncing" /\ planes' = [planes EXCEPT ![p] = r]
    BY <1>4 DEF FirstSync, Loops
  <2>2. r \in Plane /\ r.life = "running" /\ r.queue = old.queue /\ r.sync = old.sync
    BY <1>1 DEF Plane, Lives
  <2>3. Sound(r) /\ r.life \in Looping /\ (Leaving(r) => Leaving(old))
    BY <2>2 DEF Sound, Leaving, Looping
  <2> HIDE DEF r
  <2> QED
    BY <2>1, <2>2, <2>3, OnePlane
<1>5. CASE Handle(p)
  <2> DEFINE t == Head(old.queue)
             rest == [old EXCEPT !.queue = Tail(@)]
             creates == t = Sup /\ old.life = "running" /\ ~MasterThere
             gone == [Off EXCEPT !.life = "ended", !.ready = rest.ready]
             held == [rest EXCEPT !.sync = t, !.master = @ \/ creates]
  <2>1. /\ old.life \in Looping /\ old.queue # <<>>
        /\ \/ t = Quit /\ planes' = [planes EXCEPT ![p] = gone]
           \/ t # Quit /\ planes' = [planes EXCEPT ![p] = rest]
           \/ t # Quit /\ planes' = [planes EXCEPT ![p] = held]
    BY <1>5 DEF Handle
  <2>2. /\ t \in Threads \cup {None, Quit} /\ t \in Range(old.queue)
        /\ Tail(old.queue) \in Seq(Threads \cup {None, Quit})
        /\ Range(Tail(old.queue)) \subseteq Range(old.queue)
    BY <1>2, <2>1, Channel
  <2>3. /\ rest \in Plane /\ rest.life = old.life /\ rest.ready = old.ready
        /\ rest.queue = Tail(old.queue)
    <3> HIDE DEF t
    <3> QED
      BY <1>1, <2>2 DEF Plane
  <2>4. Sound(rest) /\ (Leaving(rest) => Leaving(old))
    BY <1>1, <2>1, <2>2, <2>3 DEF Sound, Leaving
  <2>5. t # Quit => /\ held \in Plane /\ held.life = old.life /\ held.ready = old.ready
                    /\ held.queue = Tail(old.queue)
    <3>1. rest.master \in BOOLEAN
      BY <2>3 DEF Plane
    <3>2. (rest.master \/ creates) \in BOOLEAN
      BY <3>1, Zenon
    <3>3. \A m \in BOOLEAN : t # Quit =>
             LET h == [rest EXCEPT !.sync = t, !.master = m]
             IN  /\ h \in Plane /\ h.life = old.life /\ h.ready = old.ready
                 /\ h.queue = Tail(old.queue)
      <4> HIDE DEF t, rest, creates
      <4> QED
        BY <2>2, <2>3 DEF Plane
    <3>4. held = [rest EXCEPT !.sync = t, !.master = (rest.master \/ creates)]
      <4> HIDE DEF t, creates
      <4> QED
        BY <2>3 DEF Plane
    <3> HIDE DEF t, rest, creates, held
    <3> QED
      BY <3>2, <3>3, <3>4
  <2>6. t # Quit => Sound(held) /\ (Leaving(held) => Leaving(old))
    BY <1>1, <2>1, <2>2, <2>5 DEF Sound, Leaving
  <2>7. /\ gone \in Plane /\ Sound(gone)
    <3>1. <<>> \in Seq(Threads \cup {None, Quit}) /\ Range(<<>>) = {} /\ rest.ready \in BOOLEAN
      BY <1>2, <2>3 DEF Range
    <3> HIDE DEF rest
    <3> QED
      BY <3>1 DEF Off, Plane, Lives, Sound, Looping
  <2>8. t = Quit => Leaving(old)
    BY <2>2 DEF Leaving
  <2> HIDE DEF rest, held, gone, t
  <2>9. CASE t = Quit /\ planes' = [planes EXCEPT ![p] = gone]
    BY <2>7, <2>8, <2>9, OnePlane
  <2>10. CASE t # Quit /\ planes' = [planes EXCEPT ![p] = rest]
    BY <2>1, <2>3, <2>4, <2>10, OnePlane
  <2>11. CASE t # Quit /\ planes' = [planes EXCEPT ![p] = held]
    BY <2>1, <2>5, <2>6, <2>11, OnePlane
  <2> QED
    BY <2>1, <2>9, <2>10, <2>11
<1>6. CASE SyncDone(p)
  <2> DEFINE r == [old EXCEPT !.sync = None]
  <2>1. old.life = "running" /\ planes' = [planes EXCEPT ![p] = r]
    BY <1>6 DEF SyncDone
  <2>2. r \in Plane /\ r.life = "running" /\ r.queue = old.queue /\ r.ready = old.ready
    BY <1>1, <2>1 DEF Plane
  <2>3. Sound(r) /\ r.life \in Looping /\ (Leaving(r) => Leaving(old))
    BY <2>2 DEF Sound, Leaving, Looping
  <2> HIDE DEF r
  <2> QED
    BY <2>1, <2>2, <2>3, OnePlane
<1>7. CASE CoreError(p)
  <2> DEFINE r == [old EXCEPT !.life = "broken", !.ready = FALSE]
  <2>1. planes' = [planes EXCEPT ![p] = r]
    BY <1>7 DEF CoreError, Loops
  <2>2. r \in Plane /\ r.life = "broken" /\ r.queue = old.queue /\ r.ready = FALSE
    BY <1>1 DEF Plane, Lives
  <2>3. Sound(r) /\ r.life \in Looping /\ (Leaving(r) => Leaving(old))
    BY <2>2 DEF Sound, Leaving, Looping
  <2> HIDE DEF r
  <2> QED
    BY <2>1, <2>2, <2>3, OnePlane
<1>8. CASE Exit(p)
  <2>1. old.life = "ended" /\ planes' = [planes EXCEPT ![p] = Off]
    BY <1>8 DEF Exit
  <2>2. Off \in Plane
    BY OffSound
  <2>3. Sound(Off) /\ ~Leaving(Off)
    BY DEF Off, Sound, Leaving, Range
  <2>4. p # slot
    BY <1>1, <2>1 DEF Looping
  <2> QED
    BY <2>1, <2>2, <2>3, <2>4, OnePlane
<1> QED
  BY <1>3, <1>4, <1>5, <1>6, <1>7, <1>8 DEF Loop
-----------------------------------------------------------------------------
\* One step of a thread that talks to the plane: a request goes to the one
\* installed, whoever gives up takes its request back, and a late mark_dead
\* only clears the ready flag.
LEMMA StepKeeps ==
    ASSUME Loops, Installable, Placed, NEW t \in Threads, Step(t)
    PROVE  AllKept
<1> thr[t] \in Where
  BY DEF Placed
<1>1. CASE Send(t) /\ ~dead /\ Ready(slot)
  <2> DEFINE old == planes[slot]
             r == [old EXCEPT !.queue = Append(old.queue, t)]
  <2>1. slot \in Planes /\ old \in Plane /\ Sound(old) /\ old.life \in Looping
    BY <1>1 DEF Loops, Installable, Ready
  <2>2. planes' = [planes EXCEPT ![slot] = r]
    BY <1>1, <2>1 DEF Send
  <2>3. old.queue \in Seq(Threads \cup {None, Quit})
    BY <2>1 DEF Plane
  <2>4. /\ Append(old.queue, t) \in Seq(Threads \cup {None, Quit})
        /\ Range(Append(old.queue, t)) = Range(old.queue) \cup {t}
    BY <2>3, Channel
  <2>5. /\ r \in Plane /\ r.life = old.life /\ r.ready = old.ready
        /\ r.queue = Append(old.queue, t)
    BY <2>1, <2>4 DEF Plane
  <2>6. Sound(r) /\ (Leaving(r) => Leaving(old))
    BY <2>1, <2>4, <2>5, ConstantsAssumption DEF Sound, Leaving, Threads
  <2> HIDE DEF r
  <2> QED
    BY <2>1, <2>2, <2>5, <2>6, OnePlane
<1>2. CASE TimedOut(t)
  <2> DEFINE p == thr[t].plane
             r == Forget(t, planes[p])
  <2>1. p \in Planes /\ planes' = [planes EXCEPT ![p] = r]
    BY <1>2 DEF TimedOut, Placed, Loops
  <2>2. planes[p] \in Plane /\ Sound(planes[p])
    BY <2>1 DEF Loops
  <2>3. /\ r \in Plane /\ Sound(r) /\ r.life = planes[p].life
        /\ Leaving(r) => Leaving(planes[p])
    BY <2>2, ForgetKeeps
  <2>4. p = slot => planes[p].life \in Looping
    BY <2>1, ConstantsAssumption DEF Installable
  <2> HIDE DEF r, p
  <2> QED
    BY <2>1, <2>3, <2>4, OnePlane
<1>3. CASE MarkSlot(t) /\ slot # None
  <2> DEFINE old == planes[slot]
             r == [old EXCEPT !.ready = FALSE]
  <2>1. slot \in Planes /\ old \in Plane /\ Sound(old) /\ old.life \in Looping
    BY <1>3 DEF Loops, Installable
  <2>2. planes' = [planes EXCEPT ![slot] = r]
    BY <1>3, <2>1 DEF MarkSlot, Loops
  <2>3. r \in Plane /\ r.life = old.life /\ r.queue = old.queue /\ r.ready = FALSE
    BY <2>1 DEF Plane
  <2>4. Sound(r) /\ (Leaving(r) => Leaving(old))
    BY <2>1, <2>3 DEF Sound, Leaving
  <2> HIDE DEF r
  <2> QED
    BY <2>1, <2>2, <2>3, <2>4, OnePlane
<1>4. CASE planes' = planes
  BY <1>4, NoPlane
<1>5. \/ Send(t) /\ ~dead /\ Ready(slot)
      \/ TimedOut(t)
      \/ MarkSlot(t) /\ slot # None
      \/ planes' = planes
  BY DEF Step, Started, Send, Disconnected, MarkDead, MarkSlot
<1> QED
  BY <1>1, <1>2, <1>3, <1>4, <1>5

\* A plane taken out of the slot is told to quit, and is no longer ready.
LEMMA TakenKeeps ==
    ASSUME Loops, Installable, Taken
    PROVE  AllKept
<1>1. CASE slot = None
  BY <1>1, NoPlane DEF Taken, Shutdown
<1>2. CASE slot # None
  <2> DEFINE old == planes[slot]
             r == [old EXCEPT !.ready = FALSE, !.queue = Append(old.queue, Quit)]
  <2>1. slot \in Planes /\ old \in Plane /\ Sound(old) /\ old.life \in Looping /\ slot' = None
    BY <1>2 DEF Loops, Installable, Taken
  <2>2. planes' = [planes EXCEPT ![slot] = r]
    BY <1>2, <2>1 DEF Taken, Shutdown, Loops
  <2>3. old.queue \in Seq(Threads \cup {None, Quit})
    BY <2>1 DEF Plane
  <2>4. Append(old.queue, Quit) \in Seq(Threads \cup {None, Quit})
    BY <2>3, Channel
  <2>5. r \in Plane /\ r.life = old.life /\ r.ready = FALSE
    BY <2>1, <2>4 DEF Plane
  <2>6. Sound(r)
    BY <2>1, <2>5 DEF Sound
  <2> HIDE DEF r
  <2> QED
    BY <2>1, <2>2, <2>5, <2>6, OnePlane
<1> QED
  BY <1>1, <1>2

\* PipeWire goes away: a loop that was connected has lost its connection.
LEMMA PwDownKeeps ==
    ASSUME Loops, Installable, PwDown
    PROVE  AllKept
<1> DEFINE cut(r) == [r EXCEPT !.life = "lost", !.master = FALSE]
<1>1. ASSUME NEW p \in Planes
      PROVE  /\ cut(planes[p]) \in Plane /\ cut(planes[p]).life = "lost"
             /\ cut(planes[p]).queue = planes[p].queue
             /\ planes[p] \in Plane /\ Sound(planes[p])
  BY DEF Loops, Plane, Lives
<1>2. planes' = [p \in Planes |-> IF planes[p].life \in {"syncing", "running"}
                                  THEN cut(planes[p]) ELSE planes[p]]
  BY DEF PwDown
<1> HIDE DEF cut
<1>3. ASSUME NEW p \in Planes PROVE Kept(p)
  BY <1>1, <1>2, ConstantsAssumption DEF Kept, Sound, Leaving, Looping, Installable
<1> QED
  BY <1>1, <1>2, <1>3 DEF AllKept

\* Every step keeps the planes, and a step that starts one keeps its place.
LEMMA PlaneStep ==
    ASSUME Loops, Installable, Placed, [Next]_vars
    PROVE  AllKept
<1> slot \in Held
  BY DEF Held
<1>1. ASSUME NEW t \in Threads, Begin(t) PROVE AllKept
  BY <1>1, SpawnKeeps DEF Begin
<1>2. ASSUME NEW c \in Callers, Ensure(c) PROVE AllKept
  BY <1>1, <1>2, NoPlane DEF Ensure, Threads
<1>3. CASE Supervise
  <2>1. CASE Probe
    BY <1>1, <2>1 DEF Probe, Threads
  <2>2. CASE Taken
    BY <2>2, TakenKeeps
  <2>3. CASE Joined
    BY <2>3, SpawnKeeps DEF Joined
  <2>4. CASE planes' = planes
    BY <2>4, NoPlane
  <2>5. Probe \/ Taken \/ Joined \/ planes' = planes
    BY <1>3 DEF Supervise, SeeHollow, Debounced, TakeAsked, Restarted, Armed
  <2> QED
    BY <2>1, <2>2, <2>3, <2>4, <2>5
<1>4. CASE Ask \/ PwUp \/ UNCHANGED vars
  BY <1>4, NoPlane DEF Ask, PwUp, vars
<1> QED
  BY <1>2, <1>3, <1>4, LoopKeeps, StepKeeps, PwDownKeeps DEF Next
-----------------------------------------------------------------------------
\* A step in which nobody starts a plane and none is installed: whoever
\* refers to a plane afterwards did before, or refers to the installed one.
LEMMA NobodyStarts ==
    ASSUME PlaneInv, AllKept, Placed',
           slot' \in {slot, None},
           \A t \in Threads : /\ thr'[t].pc = "starting" => thr'[t] = thr[t]
                              /\ thr'[t].plane \in {thr[t].plane, slot, None},
           recon'.pc = "start" => recon' = recon,
           recon'.plane \in {recon.plane, slot, None}
    PROVE  Installable' /\ Unshared' /\ Retired'
<1> USE DEF PlaneInv
<1> None \notin Planes
  BY ConstantsAssumption
<1>1. Installable'
  <2>1. CASE slot' = None
    BY <2>1 DEF Installable
  <2>2. CASE slot' = slot /\ slot # None
    <3>1. slot \in Planes /\ ~Leaving(planes[slot])
      BY <2>2 DEF Installable, Retired
    <3> QED
      BY <2>2, <3>1 DEF Installable, AllKept, Kept
  <2> QED
    BY <2>1, <2>2
<1>2. Unshared'
  <2>1. ASSUME NEW t \in Threads, thr'[t].pc = "starting"
        PROVE  /\ thr'[t].plane # slot' /\ thr'[t].plane # recon'.plane
               /\ \A u \in Threads : u # t => thr'[u].plane # thr'[t].plane
    <3>1. thr'[t] = thr[t] /\ thr[t].pc = "starting" /\ thr[t].plane \in Planes
      BY <2>1 DEF Placed
    <3>2. /\ thr[t].plane # slot /\ thr[t].plane # recon.plane /\ thr[t].plane # None
          /\ \A u \in Threads : u # t => thr[u].plane # thr[t].plane
      BY <3>1 DEF Unshared
    <3> QED
      BY <3>1, <3>2
  <2>2. ASSUME recon'.pc = "start"
        PROVE  /\ recon'.plane # slot'
               /\ \A t \in Threads : thr'[t].plane # recon'.plane
    <3>1. recon' = recon /\ recon.pc = "start" /\ recon.plane \in Planes
      BY <2>2 DEF Placed
    <3> QED
      BY <3>1 DEF Unshared
  <2> QED
    BY <2>1, <2>2 DEF Unshared
<1>3. ASSUME NEW p \in Planes, Leaving(planes'[p])
      PROVE  p # slot' /\ ~Fresh(p)'
  <2>1. Leaving(planes[p]) \/ (p = slot /\ slot' = None)
    BY <1>3 DEF AllKept, Kept
  <2>2. Fresh(p)' => Fresh(p)
    BY DEF Fresh
  <2>3. Fresh(p) => p # slot
    BY DEF Fresh, Unshared
  <2> QED
    BY <2>1, <2>2, <2>3 DEF Retired
<1> QED
  BY <1>1, <1>2, <1>3 DEF Retired

\* A step that installs the plane its owner has started.
LEMMA Installs ==
    ASSUME PlaneInv, planes' = planes, Placed',
           NEW p \in Planes, Fresh(p), slot' = p,
           planes[p].life \in Looping \/ planes[p].ready,
           \A t \in Threads : /\ thr'[t].pc = "starting" => thr'[t] = thr[t] /\ thr[t].plane # p
                              /\ thr'[t].plane \in {thr[t].plane, None},
           recon'.pc = "start" => recon' = recon /\ recon.plane # p,
           recon'.plane \in {recon.plane, None}
    PROVE  Installable' /\ Unshared' /\ Retired'
<1> USE DEF PlaneInv
<1> None \notin Planes
  BY ConstantsAssumption
<1>1. Installable'
  <2>1. ~Leaving(planes[p]) /\ Sound(planes[p])
    BY DEF Retired, Loops
  <2> QED
    BY <2>1 DEF Installable, Sound, Leaving, Looping
<1>2. Unshared'
  <2>1. ASSUME NEW t \in Threads, thr'[t].pc = "starting"
        PROVE  /\ thr'[t].plane # slot' /\ thr'[t].plane # recon'.plane
               /\ \A u \in Threads : u # t => thr'[u].plane # thr'[t].plane
    <3>1. thr'[t] = thr[t] /\ thr[t].pc = "starting" /\ thr[t].plane \in Planes \ {p}
      BY <2>1 DEF Placed
    <3>2. /\ thr[t].plane # recon.plane /\ thr[t].plane # None
          /\ \A u \in Threads : u # t => thr[u].plane # thr[t].plane
      BY <3>1 DEF Unshared
    <3> QED
      BY <3>1, <3>2
  <2>2. ASSUME recon'.pc = "start"
        PROVE  /\ recon'.plane # slot'
               /\ \A t \in Threads : thr'[t].plane # recon'.plane
    <3>1. recon' = recon /\ recon.pc = "start" /\ recon.plane \in Planes \ {p}
      BY <2>2 DEF Placed
    <3> QED
      BY <3>1 DEF Unshared
  <2> QED
    BY <2>1, <2>2 DEF Unshared
<1>3. ASSUME NEW q \in Planes, Leaving(planes'[q])
      PROVE  q # slot' /\ ~Fresh(q)'
  <2>1. Leaving(planes[q]) /\ ~Fresh(q)
    BY <1>3 DEF Retired
  <2>2. Fresh(q)' => Fresh(q)
    BY DEF Fresh
  <2> QED
    BY <2>1, <2>2
<1> QED
  BY <1>1, <1>2, <1>3 DEF Retired

\* A thread starts a plane: the place is its own.
LEMMA BeginStarts ==
    ASSUME PlaneInv, NEW t \in Threads, Begin(t), slot' = slot, recon' = recon
    PROVE  Placed' /\ Installable' /\ Unshared' /\ Retired'
<1> USE DEF PlaneInv
<1> DEFINE held == Held \cup {recon.plane}
           p == New(held)
<1>1. /\ AllKept /\ p \in Planes \ held /\ ~Leaving(planes'[p])
      /\ thr' = [thr EXCEPT ![t] = [pc |-> "starting", plane |-> p]]
      /\ slot = None
  <2>1. slot \in held
    BY DEF Held
  <2> QED
    BY <2>1, SpawnKeeps DEF Begin
<1>2. p # recon.plane /\ \A u \in Threads : thr[u].plane # p
  BY <1>1 DEF Held
<1> HIDE DEF p
<1>3. /\ thr'[t] = [pc |-> "starting", plane |-> p]
      /\ \A u \in Threads : u # t => thr'[u] = thr[u]
  BY <1>1 DEF Placed
<1>4. Placed'
  BY <1>1 DEF Placed, Where
<1>5. Installable'
  BY <1>1 DEF Installable
<1>6. Unshared'
  <2>1. ASSUME NEW u \in Threads, thr'[u].pc = "starting"
        PROVE  /\ thr'[u].plane # slot' /\ thr'[u].plane # recon'.plane
               /\ \A w \in Threads : w # u => thr'[w].plane # thr'[u].plane
    BY <1>1, <1>2, <1>3, <2>1, ConstantsAssumption DEF Unshared
  <2>2. ASSUME recon'.pc = "start"
        PROVE  /\ recon'.plane # slot'
               /\ \A u \in Threads : thr'[u].plane # recon'.plane
    BY <1>1, <1>2, <1>3, <2>2 DEF Unshared
  <2> QED
    BY <2>1, <2>2 DEF Unshared
<1>7. ASSUME NEW q \in Planes, Leaving(planes'[q])
      PROVE  q # slot' /\ ~Fresh(q)'
  <2>1. Leaving(planes[q]) /\ q # p
    BY <1>1, <1>7, ConstantsAssumption DEF AllKept, Kept
  <2>2. q # slot /\ ~Fresh(q)
    BY <2>1 DEF Retired
  <2> QED
    BY <1>3, <2>1, <2>2 DEF Fresh
<1> QED
  BY <1>4, <1>5, <1>6, <1>7 DEF Retired

\* The reconnect starts its plane: the place is its own.
LEMMA JoinedStarts ==
    ASSUME PlaneInv, Joined, thr' = thr
    PROVE  Placed' /\ Installable' /\ Unshared' /\ Retired'
<1> USE DEF PlaneInv
<1> DEFINE p == New(Held)
<1>1. /\ AllKept /\ p \in Planes \ Held /\ ~Leaving(planes'[p])
      /\ recon' = [pc |-> "start", plane |-> p] /\ recon.pc = "join"
      /\ slot' = slot
  <2>1. slot \in Held
    BY DEF Held
  <2> QED
    BY <2>1, SpawnKeeps DEF Joined
<1>2. p # slot /\ \A t \in Threads : thr[t].plane # p
  BY <1>1 DEF Held
<1> HIDE DEF p
<1>3. Placed'
  BY <1>1 DEF Placed, Reconnect
<1>4. Installable'
  <2>1. slot # None => slot \in Planes /\ ~Leaving(planes[slot])
    BY ConstantsAssumption DEF Installable, Retired
  <2> QED
    BY <1>1, <2>1 DEF Installable, AllKept, Kept
<1>5. Unshared'
  BY <1>1, <1>2 DEF Unshared
<1>6. ASSUME NEW q \in Planes, Leaving(planes'[q])
      PROVE  q # slot' /\ ~Fresh(q)'
  <2>1. Leaving(planes[q]) \/ (q = slot /\ slot' = None)
    BY <1>1, <1>6 DEF AllKept, Kept
  <2>2. q # p /\ (q = slot => slot' # None)
    BY <1>1, <1>6, ConstantsAssumption
  <2>3. q # slot /\ ~Fresh(q)
    BY <2>1, <2>2 DEF Retired
  <2> QED
    BY <1>1, <2>2, <2>3 DEF Fresh
<1> QED
  BY <1>3, <1>4, <1>5, <1>6 DEF Retired

\* The planes, whoever uses them and the slot, over every step.
LEMMA PlaneNext == PlaneInv /\ [Next]_vars => PlaneInv'
<1> SUFFICES ASSUME PlaneInv, [Next]_vars PROVE PlaneInv'
  OBVIOUS
<1>1. Loops /\ Placed /\ Installable /\ Unshared /\ Retired /\ Counters
  BY DEF PlaneInv
<1>2. AllKept
  BY <1>1, PlaneStep
<1>3. Loops'
  BY <1>2 DEF AllKept, Kept, Loops
<1>4. Counters'
  BY <1>1, CountersNext
<1> DEFINE Rightly == Placed' /\ Installable' /\ Unshared' /\ Retired'
<1>5. ASSUME NEW t \in Threads, NEW r \in Where, thr' = [thr EXCEPT ![t] = r],
             r.pc \notin {"starting", "waiting"}, r.plane \in {thr[t].plane, None},
             slot' = slot, recon' = recon
      PROVE  Rightly
  <2>1. Placed'
    BY <1>1, <1>5 DEF Placed
  <2> QED
    BY <1>1, <1>2, <1>5, <2>1, NobodyStarts DEF Placed
<1>6. ASSUME thr' = thr, slot' = slot, recon' = recon
      PROVE  Rightly
  <2>1. Placed'
    BY <1>1, <1>6 DEF Placed
  <2> QED
    BY <1>1, <1>2, <1>6, <2>1, NobodyStarts
<1>7. Rest \in Where /\ Rest.pc = "idle" /\ Rest.plane = None
  BY DEF Rest, Where
<1> HIDE DEF Rightly
<1>8. ASSUME NEW c \in Callers, Ensure(c) PROVE Rightly
  <2>1. c \in Threads
    BY DEF Threads
  <2>2. CASE Begin(c)
    BY <1>8, <2>1, <2>2, BeginStarts DEF Ensure, Rightly
  <2>3. CASE ~Begin(c)
    <3> DEFINE r == [pc |-> "ensured", plane |-> None]
    <3>1. r \in Where /\ r.pc = "ensured" /\ r.plane = None
      BY DEF Where
    <3>2. thr' = [thr EXCEPT ![c] = r] /\ slot' = slot /\ recon' = recon
      BY <1>8, <2>3 DEF Ensure
    <3> HIDE DEF r
    <3> QED
      BY <1>5, <2>1, <3>1, <3>2
  <2> QED
    BY <2>2, <2>3
<1>9. ASSUME NEW t \in Threads, Step(t) PROVE Rightly
  <2>1. CASE Started(t)
    <3> DEFINE p == thr[t].plane
    <3>1. slot' = slot \/ (slot' = p /\ slot = None)
      BY <2>1 DEF Started, Installed
    <3>2. PICK r \in Where : thr' = [thr EXCEPT ![t] = r] /\ r.plane = None
                           /\ r.pc \notin {"starting", "waiting"}
      <4>1. After(t) \in Where /\ After(t).plane = None /\ After(t).pc \in {"idle", "ensured"}
        BY <1>7 DEF After, Where
      <4>2. thr' = [thr EXCEPT ![t] = Rest] \/ thr' = [thr EXCEPT ![t] = After(t)]
        BY <2>1 DEF Started
      <4> QED
        BY <1>7, <4>1, <4>2
    <3>3. recon' = recon /\ planes' = planes /\ thr[t].pc = "starting" /\ p \in Planes
      BY <1>1, <2>1 DEF Started, Placed
    <3>4. CASE slot' = slot
      BY <1>5, <3>2, <3>3, <3>4
    <3>5. CASE slot' = p /\ slot' # slot
      <4>1. planes[p].life \in Looping \/ planes[p].ready
        BY <2>1, <3>5 DEF Started, SyncTooLate, Ready
      <4>2. Placed'
        BY <1>1, <3>2, <3>3 DEF Placed
      <4>3. Fresh(p)
        BY <3>3 DEF Fresh
      <4>4. \A u \in Threads : /\ thr'[u].pc = "starting" => thr'[u] = thr[u] /\ thr[u].plane # p
                               /\ thr'[u].plane \in {thr[u].plane, None}
        BY <1>1, <3>2, <3>3 DEF Placed, Unshared
      <4>5. recon'.pc = "start" => recon.plane # p
        BY <1>1, <3>3 DEF Unshared
      <4> HIDE DEF p
      <4> QED
        BY <3>3, <3>5, <4>1, <4>2, <4>3, <4>4, <4>5, Installs DEF Rightly
    <3> QED
      BY <3>1, <3>4, <3>5
  <2>2. CASE Send(t)
    <3>1. CASE dead \/ ~Ready(slot)
      BY <1>5, <1>7, <2>2, <3>1 DEF Send
    <3>2. CASE ~(dead \/ ~Ready(slot))
      <4>1. /\ thr' = [thr EXCEPT ![t] = [pc |-> "waiting", plane |-> slot]]
            /\ slot' = slot /\ recon' = recon /\ slot \in Planes
        BY <1>1, <2>2, <3>2 DEF Send, Ready, Installable
      <4>2. Placed'
        BY <1>1, <4>1 DEF Placed, Where
      <4>3. \A u \in Threads : /\ thr'[u].pc = "starting" => thr'[u] = thr[u]
                               /\ thr'[u].plane \in {thr[u].plane, slot, None}
        BY <1>1, <4>1 DEF Placed
      <4> QED
        BY <1>2, <4>1, <4>2, <4>3, NobodyStarts DEF Rightly
    <3> QED
      BY <3>1, <3>2
  <2>3. CASE TimedOut(t) \/ Disconnected(t)
    <3> DEFINE lost == [pc |-> "gone", plane |-> None]
    <3>1. lost \in Where /\ lost.pc = "gone" /\ lost.plane = None
      BY DEF Where
    <3>2. /\ thr' = [thr EXCEPT ![t] = lost] \/ thr' = [thr EXCEPT ![t] = Rest]
          /\ slot' = slot /\ recon' = recon
      BY <2>3 DEF TimedOut, Disconnected
    <3> HIDE DEF lost
    <3> QED
      BY <1>5, <1>7, <3>1, <3>2
  <2>4. CASE MarkDead(t)
    <3> DEFINE r == [thr[t] EXCEPT !.pc = "mark"]
    <3>1. r \in Where /\ r.pc = "mark" /\ r.plane = thr[t].plane
      BY <1>1 DEF Placed, Where
    <3>2. thr' = [thr EXCEPT ![t] = r] /\ slot' = slot /\ recon' = recon
      BY <2>4 DEF MarkDead
    <3> HIDE DEF r
    <3> QED
      BY <1>5, <3>1, <3>2
  <2>5. CASE MarkSlot(t)
    BY <1>5, <1>7, <2>5 DEF MarkSlot
  <2> QED
    BY <1>9, <2>1, <2>2, <2>3, <2>4, <2>5 DEF Step
<1>10. ASSUME NEW p \in Planes, Loop(p) PROVE Rightly
  <2>1. ASSUME NEW t, Answer(t), slot' = slot, recon' = recon PROVE Rightly
    BY <1>5, <1>6, <1>7, <2>1 DEF Answer
  <2>2. slot' = slot /\ recon' = recon
    BY <1>10 DEF Loop
  <2>3. thr' = thr \/ \E t : Answer(t)
    BY <1>10 DEF Loop, Connect, FirstSync, Handle, SyncDone, CoreError, Exit
  <2> QED
    BY <1>6, <2>1, <2>2, <2>3
<1>11. ASSUME Supervise PROVE Rightly
  <2>1. CASE Probe
    <3>1. Sup \in Threads
      BY DEF Threads
    <3> QED
      BY <2>1, <3>1, BeginStarts DEF Probe, Rightly
  <2>2. CASE Joined
    BY <1>11, <2>2, JoinedStarts DEF Joined, Rightly
  <2>3. CASE Restarted /\ slot' # slot
    <3> DEFINE p == recon.plane
    <3>1. /\ recon.pc = "start" /\ p \in Planes /\ slot' = p /\ planes' = planes
          /\ planes[p].ready
          /\ thr' = [thr EXCEPT ![Sup] = [pc |-> "ensured", plane |-> None]]
          /\ recon' = [pc |-> "arm", plane |-> None]
      BY <1>1, <2>3 DEF Restarted, Ready, Placed
    <3>2. Placed'
      BY <1>1, <3>1 DEF Placed, Where, Reconnect
    <3>3. Fresh(p)
      BY <3>1 DEF Fresh
    <3>4. \A u \in Threads : /\ thr'[u].pc = "starting" => thr'[u] = thr[u] /\ thr[u].plane # p
                             /\ thr'[u].plane \in {thr[u].plane, None}
      BY <1>1, <3>1 DEF Placed, Unshared
    <3> HIDE DEF p
    <3> QED
      BY <3>1, <3>2, <3>3, <3>4, Installs DEF Rightly
  <2>4. CASE thr' = thr /\ slot' \in {slot, None} /\ recon' \in Reconnect
             /\ (recon'.pc = "start" => recon' = recon)
             /\ recon'.plane \in {recon.plane, slot, None}
    <3>1. Placed'
      BY <1>1, <2>4 DEF Placed
    <3> QED
      BY <1>2, <2>4, <3>1, NobodyStarts DEF Rightly
  <2>5. ASSUME SeeHollow \/ Debounced \/ TakeAsked \/ Armed
        PROVE  /\ thr' = thr /\ slot' \in {slot, None} /\ recon' \in Reconnect
               /\ recon'.pc = "start" => recon' = recon
               /\ recon'.plane \in {recon.plane, slot, None}
    <3>1. thr' = thr /\ slot' \in {slot, None}
      BY <2>5 DEF SeeHollow, Debounced, TakeAsked, Armed, Taken
    <3>2. recon \in Reconnect /\ slot \in Planes \cup {None}
      BY <1>1 DEF Placed, Installable
    <3>3. \/ recon' = recon
          \/ recon' = [recon EXCEPT !.pc = "hollow"]
          \/ recon' = [recon EXCEPT !.pc = "watch"]
          \/ recon' = [pc |-> "join", plane |-> slot]
      BY <2>5 DEF SeeHollow, Debounced, TakeAsked, Armed, Taken
    <3> QED
      BY <3>1, <3>2, <3>3 DEF Reconnect
  <2>6. CASE Restarted /\ slot' = slot
    <3>1. recon.pc = "start" /\ recon.plane # slot
      BY <1>1, <2>6 DEF Restarted, Unshared
    <3>2. thr' = thr /\ recon' = [pc |-> "watch", plane |-> None]
      BY <2>6, <3>1 DEF Restarted
    <3>3. recon' \in Reconnect
      BY <3>2 DEF Reconnect
    <3> QED
      BY <2>4, <2>6, <3>2, <3>3
  <2> QED
    BY <1>11, <2>1, <2>2, <2>3, <2>4, <2>5, <2>6 DEF Supervise
<1>12. ASSUME Ask \/ PwDown \/ PwUp \/ UNCHANGED vars PROVE Rightly
  BY <1>6, <1>12 DEF Ask, PwDown, PwUp, vars
<1> QED
  BY <1>3, <1>4, <1>8, <1>9, <1>10, <1>11, <1>12 DEF Next, PlaneInv, Rightly

\* The session has been brought up: one plane, installed, nobody else.
LEMMA PlaneInit == Init => PlaneInv
<1> SUFFICES ASSUME Init PROVE PlaneInv
  OBVIOUS
<1> DEFINE up == [Off EXCEPT !.life = "running", !.ready = TRUE, !.master = TRUE]
<1>1. slot \in Planes /\ None \notin Planes
  BY ConstantsAssumption DEF Init
<1>2. <<>> \in Seq(Threads \cup {None, Quit}) /\ Range(<<>>) = {}
  BY DEF Range
<1>3. /\ up \in Plane /\ Sound(up) /\ ~Leaving(up) /\ up.life \in Looping
      /\ Off \in Plane /\ Sound(Off) /\ ~Leaving(Off)
  BY <1>2 DEF Off, Plane, Lives, Sound, Leaving, Looping
<1>4. planes = [p \in Planes |-> IF p = slot THEN up ELSE Off]
  BY DEF Init
<1> HIDE DEF up
<1>5. Loops /\ Installable
  BY <1>1, <1>3, <1>4 DEF Loops, Installable
<1>6. /\ \A t \in Threads : thr[t] = Rest
      /\ recon = [pc |-> "watch", plane |-> None]
  BY DEF Init
<1>7. Placed /\ Unshared
  BY <1>6 DEF Init, Placed, Unshared, Where, Reconnect, Rest
<1>8. Retired
  BY <1>1, <1>3, <1>4 DEF Retired
<1>9. Counters
  <2>1. 0 \in 0 .. MaxCalls /\ 0 \in 0 .. MaxDeaths /\ 0 \in 0 .. MaxSlow /\ 0 \in Nat
    BY ConstantsAssumption
  <2>2. misses = 0 /\ calls = 0 /\ deaths = 0 /\ slow = 0
    BY DEF Init
  <2>3. pw = TRUE /\ dead = FALSE /\ asked = FALSE
    BY DEF Init
  <2>4. pw \in BOOLEAN /\ dead \in BOOLEAN /\ asked \in BOOLEAN
    BY <2>3
  <2> QED
    BY <2>1, <2>2, <2>4 DEF Counters
<1> QED
  BY <1>5, <1>7, <1>8, <1>9 DEF PlaneInv

\* What the plane, its users and the slot keep, over every behaviour.
THEOREM PlaneInvariant == Spec => []PlaneInv
  BY PlaneInit, PlaneNext, PTL DEF Spec

\* The plane the slot holds always has a loop that runs: not one that failed to
\* connect, was told to quit or has gone (PLANE, session.rs); no request lies
\* in a loop that does not run, and none counts as ready before its first sync.
THEOREM TypeCorrect == Spec => []TypeOK
<1>1. PlaneInv => TypeOK
  BY DEF PlaneInv, Counters, Loops, Placed, Installable, Sound, Where, Reconnect, TypeOK,
         Requests
<1> QED
  BY <1>1, PlaneInvariant, PTL

\* A loop thread that is being started has one owner, who alone installs it,
\* and Rpc::Shutdown only ever reaches a plane that the reconnect has taken
\* out of the slot, whoever else was starting one meanwhile.
THEOREM OnlyTakenQuit == Spec => [](Unshared /\ Retired)
<1>1. PlaneInv => Unshared /\ Retired
  BY DEF PlaneInv
<1> QED
  BY <1>1, PlaneInvariant, PTL
=============================================================================
