-------------------------------- MODULE PwPlane --------------------------------
(***************************************************************************)
(* The native control plane (engine/src/backend/native/session.rs): one    *)
(* thread with the PipeWire loop, requests over a channel, answers with a  *)
(* timeout; and the reconnect of the Supervisor (app/src/audio/worker.rs)  *)
(* when PipeWire restarts or the graph is hollow.                          *)
(*                                                                         *)
(* A thread that is given up goes on running: its plane stays in `planes`. *)
(* Nodes die with the connection that made them (object.linger = false);   *)
(* of the graph only the Master sink is kept, which tells hollow from      *)
(* rebuilt.                                                                *)
(***************************************************************************)
EXTENDS Naturals, FiniteSets, SequencesExt

CONSTANTS
    Callers,    \* threads that talk to PipeWire: engine calls, meter taps
    Sup,        \* the Supervisor lane
    Planes,     \* loop threads alive at one time
    Fatal,      \* RPC_TIMEOUT_DEATH
    MaxCalls,   \* bound: requests of the callers
    MaxDeaths,  \* bound: times PipeWire goes away
    MaxSlow     \* bound: answers of a sound plane that come too late

None == "none"        \* no plane, nobody
Quit == "quit"        \* Rpc::Shutdown

ASSUME ConstantsAssumption ==
    /\ Sup \notin Callers /\ {None, Quit} \cap (Callers \cup {Sup}) = {}
    /\ Planes # {} /\ None \notin Planes
    /\ Fatal \in Nat \ {0}
    /\ MaxCalls \in Nat /\ MaxDeaths \in Nat /\ MaxSlow \in Nat

Threads == Callers \cup {Sup}

VARIABLES
    pw,         \* PipeWire is up
    slot,       \* PLANE: the installed plane
    dead,       \* PLANE_DEAD
    misses,     \* RPC_TIMEOUTS
    planes,     \* every loop thread: life, ready, requests, after_sync, Master
    thr,        \* every caller: where it is, in which plane
    recon,      \* Supervisor: step of the reconnect, plane it waits for
    asked,      \* ReconnectPipeWire sent by the window
    calls, deaths, slow

vars == <<pw, slot, dead, misses, planes, thr, recon, asked,
          calls, deaths, slow>>

Lives == {"off", "connecting", "syncing", "running", "lost", "broken", "ended"}
Looping == {"syncing", "running", "lost", "broken"}
Plane == [life : Lives, ready : BOOLEAN, master : BOOLEAN,
          queue : Seq(Threads \cup {None, Quit}), sync : Threads \cup {None}]
Off == [life |-> "off", ready |-> FALSE, master |-> FALSE, queue |-> <<>>, sync |-> None]
Rest == [pc |-> "idle", plane |-> None]

Requests(p) == Range(planes[p].queue) \cup {planes[p].sync}

TypeOK ==
    /\ pw \in BOOLEAN /\ dead \in BOOLEAN /\ asked \in BOOLEAN
    /\ slot \in Planes \cup {None}
    /\ misses \in Nat
    /\ planes \in [Planes -> Plane]
    /\ thr \in [Threads -> [pc : {"idle", "starting", "ensured", "waiting", "gone", "mark"},
                            plane : Planes \cup {None}]]
    /\ recon \in [pc : {"watch", "hollow", "join", "start", "arm"}, plane : Planes \cup {None}]
    /\ slot # None => planes[slot].life \in Looping
    /\ \A p \in Planes :
         /\ planes[p].life \notin Looping => Requests(p) \subseteq {None}
         /\ planes[p].ready => planes[p].life \in {"running", "lost", "ended"}
    /\ calls \in 0 .. MaxCalls /\ deaths \in 0 .. MaxDeaths /\ slow \in 0 .. MaxSlow

Ready(p) == p # None /\ planes[p].ready
MasterThere == \E p \in Planes : planes[p].master /\ planes[p].life = "running"
Hollow == dead \/ ~Ready(slot) \/ ~MasterThere
-----------------------------------------------------------------------------
(* start_plane, in the thread that needs a plane *)

\* A loop thread that has ended, or lost its connection with nobody left who
\* refers to it, changes nothing any more: its place is given to a new one
Held == {slot} \cup {thr[t].plane : t \in Threads}
Spare(held) == {p \in Planes \ held : planes[p].life \in {"off", "broken"}}

New(held) == CHOOSE p \in Spare(held) : TRUE
Spawn(held) == /\ Spare(held) # {}
               /\ planes' = [planes EXCEPT ![New(held)] = [Off EXCEPT !.life = "connecting"]]

Failed(p) == planes[p].life \in {"off", "ended"}

\* Two seconds for the first sync
SyncTooLate(p) ==
    /\ planes[p].life \in Looping /\ ~planes[p].ready
    /\ IF planes[p].life = "syncing" THEN slow < MaxSlow /\ slow' = slow + 1
                                     ELSE UNCHANGED slow

Begin(t) ==
    /\ thr[t].pc = "idle" /\ ~dead /\ slot = None
    /\ LET held == Held \cup {recon.plane}
       IN  /\ Spawn(held)
           /\ thr' = [thr EXCEPT ![t] = [pc |-> "starting", plane |-> New(held)]]

\* A plane is installed if none is; if one came first this one is dropped
Installed(p) == slot' = IF slot = None THEN p ELSE slot
After(t) == IF t = Sup THEN Rest ELSE [pc |-> "ensured", plane |-> None]

Started(t) ==
    LET p == thr[t].plane
    IN  /\ thr[t].pc = "starting"
        /\ \/ /\ Failed(p) /\ UNCHANGED slow
              /\ thr' = [thr EXCEPT ![t] = Rest]
              /\ UNCHANGED slot
           \/ /\ (Ready(p) /\ UNCHANGED slow) \/ SyncTooLate(p)
              /\ Installed(p)
              /\ thr' = [thr EXCEPT ![t] = After(t)]
    /\ UNCHANGED <<pw, dead, misses, planes, recon, asked, calls, deaths>>
-----------------------------------------------------------------------------
(* call *)

Ensure(c) ==
    /\ calls < MaxCalls /\ calls' = calls + 1
    /\ \/ /\ thr[c].pc = "idle" /\ ~dead /\ Ready(slot)
          /\ thr' = [thr EXCEPT ![c] = [pc |-> "ensured", plane |-> None]]
          /\ UNCHANGED planes
       \/ Begin(c)
    /\ UNCHANGED <<pw, slot, dead, misses, recon, asked, deaths, slow>>

Send(t) ==
    /\ thr[t].pc = "ensured"
    /\ IF ~dead /\ Ready(slot)
       THEN /\ planes' = [planes EXCEPT ![slot].queue = Append(@, t)]
            /\ thr' = [thr EXCEPT ![t] = [pc |-> "waiting", plane |-> slot]]
       ELSE thr' = [thr EXCEPT ![t] = Rest] /\ UNCHANGED planes
    /\ UNCHANGED <<pw, slot, dead, misses, recon, asked, calls, deaths, slow>>

\* Whoever waits no longer leaves his request behind
Forget(t, p) == [p EXCEPT !.queue = [i \in DOMAIN @ |-> IF @[i] = t THEN None ELSE @[i]],
                          !.sync = IF @ = t THEN None ELSE @]

Kills(n, migrating) == ~migrating /\ n >= Fatal

TimedOut(t) ==
    LET p == thr[t].plane
        Miss(migrating) ==
            /\ misses' = IF migrating THEN misses ELSE misses + 1
            /\ thr' = [thr EXCEPT ![t] = IF Kills(misses + 1, migrating)
                                         THEN [pc |-> "gone", plane |-> None] ELSE Rest]
    IN  /\ thr[t].pc = "waiting" /\ t \in Requests(p)
        /\ IF planes[p].life = "running" THEN slow < MaxSlow /\ slow' = slow + 1
                                         ELSE UNCHANGED slow
        /\ planes' = [planes EXCEPT ![p] = Forget(t, @)]
        /\ Miss(TRUE) \/ Miss(FALSE)
        /\ UNCHANGED <<pw, slot, dead, recon, asked, calls, deaths>>

\* Nobody holds the request's sender any more
Disconnected(t) ==
    /\ thr[t].pc = "waiting" /\ t \notin Requests(thr[t].plane)
    /\ thr' = [thr EXCEPT ![t] = [pc |-> "gone", plane |-> None]]
    /\ UNCHANGED <<pw, slot, dead, misses, planes, recon, asked, calls, deaths, slow>>

\* mark_dead: the flag, then the plane that is installed by then
MarkDead(t) ==
    /\ thr[t].pc = "gone"
    /\ dead' = TRUE
    /\ thr' = [thr EXCEPT ![t].pc = "mark"]
    /\ UNCHANGED <<pw, slot, misses, planes, recon, asked, calls, deaths, slow>>

MarkSlot(t) ==
    /\ thr[t].pc = "mark"
    /\ planes' = IF slot = None THEN planes ELSE [planes EXCEPT ![slot].ready = FALSE]
    /\ thr' = [thr EXCEPT ![t] = Rest]
    /\ UNCHANGED <<pw, slot, dead, misses, recon, asked, calls, deaths, slow>>

Step(t) == Started(t) \/ Send(t) \/ TimedOut(t) \/ Disconnected(t) \/ MarkDead(t) \/ MarkSlot(t)
-----------------------------------------------------------------------------
(* The loop thread *)

Answer(t) == /\ thr' = IF t \in Threads THEN [thr EXCEPT ![t] = Rest] ELSE thr
             /\ misses' = IF t \in Threads THEN 0 ELSE misses

Connect(p) ==
    /\ planes[p].life = "connecting"
    /\ planes' = [planes EXCEPT ![p].life = IF pw THEN "syncing" ELSE "ended"]
    /\ UNCHANGED <<dead, misses, thr>>

FirstSync(p) ==
    /\ planes[p].life = "syncing"
    /\ planes' = [planes EXCEPT ![p].life = "running", ![p].ready = TRUE]
    /\ UNCHANGED <<dead, misses, thr>>

\* Answered at once: unlink and levels, a link that is live, a failed create.
\* Otherwise the answer waits for the next sync, in the one place there is.
Handle(p) ==
    LET t == Head(planes[p].queue)
        rest == [planes[p] EXCEPT !.queue = Tail(@)]
        creates == t = Sup /\ planes[p].life = "running" /\ ~MasterThere
    IN  /\ planes[p].life \in Looping /\ planes[p].queue # <<>>
        /\ \/ /\ t = Quit
              /\ planes' = [planes EXCEPT ![p] = [Off EXCEPT !.life = "ended", !.ready = rest.ready]]
              /\ UNCHANGED <<misses, thr>>
           \/ /\ t # Quit /\ ~creates
              /\ planes' = [planes EXCEPT ![p] = rest]
              /\ Answer(t)
           \/ /\ t # Quit
              /\ planes' = [planes EXCEPT ![p] =
                              [rest EXCEPT !.sync = t, !.master = @ \/ creates]]
              /\ UNCHANGED <<misses, thr>>
        /\ UNCHANGED dead

SyncDone(p) ==
    /\ planes[p].life = "running" /\ planes[p].sync # None
    /\ planes' = [planes EXCEPT ![p].sync = None]
    /\ Answer(planes[p].sync)
    /\ UNCHANGED <<dead>>

CoreError(p) ==
    /\ planes[p].life = "lost"
    /\ planes' = [planes EXCEPT ![p].life = "broken", ![p].ready = FALSE]
    /\ dead' = TRUE
    /\ UNCHANGED <<misses, thr>>

Exit(p) ==
    /\ planes[p].life = "ended"
    /\ planes' = [planes EXCEPT ![p] = Off]
    /\ dead' = TRUE
    /\ UNCHANGED <<misses, thr>>

Loop(p) ==
    /\ Connect(p) \/ FirstSync(p) \/ Handle(p) \/ SyncDone(p) \/ CoreError(p) \/ Exit(p)
    /\ UNCHANGED <<pw, slot, recon, asked, calls, deaths, slow>>
-----------------------------------------------------------------------------
(* The Supervisor: hollow graph, ReconnectPipeWire, reconnect_plane *)

Watching == recon.pc = "watch" /\ thr[Sup].pc = "idle"

\* native_ready starts a plane when there is none
Probe ==
    /\ recon.pc = "watch" /\ pw
    /\ Begin(Sup)
    /\ UNCHANGED <<slot, dead, recon, asked, slow>>

SeeHollow ==
    /\ Watching /\ pw /\ Hollow
    /\ recon' = [recon EXCEPT !.pc = "hollow"]
    /\ UNCHANGED <<slot, dead, planes, thr, asked, slow>>

\* Mutant: the old plane is dropped without Rpc::Shutdown
ShutdownUnsent(p) == IF p = None THEN planes ELSE [planes EXCEPT ![p].ready = FALSE]

Shutdown(p) ==
    IF p = None THEN planes
    ELSE [planes EXCEPT ![p].ready = FALSE,
                        ![p].queue = IF planes[p].life \in Looping THEN Append(@, Quit) ELSE @]

\* Mutant: the slot is read, not taken
TakenKeepsSlot ==
    /\ recon' = [pc |-> "join", plane |-> slot]
    /\ UNCHANGED slot
    /\ planes' = Shutdown(slot)

Taken ==
    /\ recon' = [pc |-> "join", plane |-> slot]
    /\ slot' = None
    /\ planes' = Shutdown(slot)

Debounced ==
    /\ recon.pc = "hollow"
    /\ IF pw /\ Hollow THEN Taken
       ELSE recon' = [recon EXCEPT !.pc = "watch"] /\ UNCHANGED <<slot, planes>>
    /\ UNCHANGED <<dead, thr, asked, slow>>

TakeAsked ==
    /\ Watching /\ asked
    /\ asked' = FALSE
    /\ IF pw THEN Taken ELSE UNCHANGED <<slot, planes, recon>>
    /\ UNCHANGED <<dead, thr, slow>>

\* Mutant: PLANE_DEAD is not lifted before the new plane is started
JoinedStillDead ==
    /\ recon.pc = "join"
    /\ recon.plane # None => planes[recon.plane].life = "off"
    /\ Spawn(Held)
    /\ recon' = [pc |-> "start", plane |-> New(Held)]
    /\ UNCHANGED <<slot, dead, thr, asked, slow>>

Joined ==
    /\ recon.pc = "join"
    /\ recon.plane # None => planes[recon.plane].life = "off"
    /\ dead' = FALSE
    /\ Spawn(Held)
    /\ recon' = [pc |-> "start", plane |-> New(Held)]
    /\ UNCHANGED <<slot, thr, asked, slow>>

Restarted ==
    LET p == recon.plane
    IN  /\ recon.pc = "start"
        /\ \/ /\ Failed(p) /\ UNCHANGED slow
              /\ recon' = [pc |-> "watch", plane |-> None]
              /\ UNCHANGED <<slot, dead, thr>>
           \/ /\ SyncTooLate(p)
              /\ recon' = [pc |-> "watch", plane |-> None]
              /\ dead' = TRUE
              /\ UNCHANGED <<slot, thr>>
           \/ /\ Ready(p)
              /\ slot' = p
              /\ thr' = [thr EXCEPT ![Sup] = [pc |-> "ensured", plane |-> None]]
              /\ recon' = [pc |-> "arm", plane |-> None]
              /\ UNCHANGED <<dead, slow>>
        /\ UNCHANGED <<planes, asked>>

Armed ==
    /\ recon.pc = "arm" /\ thr[Sup].pc = "idle"
    /\ recon' = [recon EXCEPT !.pc = "watch"]
    /\ UNCHANGED <<slot, dead, planes, thr, asked, slow>>

Supervise ==
    /\ Probe \/ SeeHollow \/ Debounced \/ TakeAsked \/ Joined \/ Restarted \/ Armed
    /\ UNCHANGED <<pw, misses, calls, deaths>>
-----------------------------------------------------------------------------
(* The window and PipeWire *)

Ask ==
    /\ ~asked /\ Hollow /\ calls < MaxCalls
    /\ asked' = TRUE /\ calls' = calls + 1
    /\ UNCHANGED <<pw, slot, dead, misses, planes, thr, recon, deaths, slow>>

PwDown ==
    /\ pw /\ deaths < MaxDeaths
    /\ pw' = FALSE /\ deaths' = deaths + 1
    /\ planes' = [p \in Planes |->
                    IF planes[p].life \in {"syncing", "running"}
                    THEN [planes[p] EXCEPT !.life = "lost", !.master = FALSE] ELSE planes[p]]
    /\ UNCHANGED <<slot, dead, misses, thr, recon, asked, calls, slow>>

PwUp ==
    /\ ~pw /\ pw' = TRUE
    /\ UNCHANGED <<slot, dead, misses, planes, thr, recon, asked, calls, deaths, slow>>

\* The first apply has brought the session up
Init ==
    /\ pw = TRUE /\ dead = FALSE /\ misses = 0
    /\ slot = CHOOSE p \in Planes : TRUE
    /\ planes = [p \in Planes |->
                   IF p = slot THEN [Off EXCEPT !.life = "running", !.ready = TRUE, !.master = TRUE]
                   ELSE Off]
    /\ thr = [t \in Threads |-> Rest]
    /\ recon = [pc |-> "watch", plane |-> None]
    /\ asked = FALSE
    /\ calls = 0 /\ deaths = 0 /\ slow = 0

Next ==
    \/ \E c \in Callers : Ensure(c)
    \/ \E t \in Threads : Step(t)
    \/ \E p \in Planes : Loop(p)
    \/ Supervise
    \/ Ask \/ PwDown \/ PwUp

Fairness ==
    /\ \A t \in Threads : WF_vars(Step(t))
    /\ \A p \in Planes : WF_vars(Loop(p))
    /\ WF_vars(Supervise)

Spec == Init /\ [][Next]_vars /\ Fairness
-----------------------------------------------------------------------------
\* Code bug against a comment (session.rs:38-40: "One 800ms miss is normal ...
\* Kill the plane only after a sustained stall"): while PipeWire stays up fewer
\* than RPC_TIMEOUT_DEATH misses never cost the plane.
MissesTolerated == deaths = 0 /\ slow < Fatal => ~dead

\* Every request is answered, times out or learns that its plane is gone, and
\* every reconnect comes to its end, whatever happens to PipeWire meanwhile.
NobodyStuck ==
    /\ \A t \in Threads : thr[t].pc # "idle" ~> thr[t].pc = "idle"
    /\ recon.pc # "watch" ~> recon.pc = "watch"

\* Whatever threads raced for the plane and whichever was marked dead by a
\* late caller: once PipeWire is up a connected plane with a Master is back.
Recovers == pw ~> ~pw \/ ~Hollow
=============================================================================
