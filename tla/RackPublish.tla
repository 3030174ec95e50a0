----------------------------- MODULE RackPublish -----------------------------
(***************************************************************************)
(* How the rack of one FX host changes hands (engine/src/host/node.rs).    *)
(*                                                                         *)
(* The current rack is an Arc<Mutex<Rack>> behind the raw pointer          *)
(* rack_ptr.  The audio callback takes a strong reference per block and    *)
(* try-locks the rack; an engine thread, always under the REGISTRY mutex   *)
(* and therefore one at a time, publishes a new rack or harvests the       *)
(* plugin state of the current one.  The racks of one host are built under *)
(* the engine mutex, so a rack's generation is its place in the order of   *)
(* publication.                                                            *)
(*                                                                         *)
(* The callback loads rack_ptr and increments the count in two steps, and  *)
(* nothing keeps the publisher from dropping the rack in between.  The     *)
(* increment then lands in memory that was returned: this is undefined     *)
(* behaviour, the process may die or go on with a corrupted heap.  The     *)
(* model does not follow the callback further (rt = "wild"), and no        *)
(* property speaks of what comes after.                                    *)
(***************************************************************************)
EXTENDS Naturals

CONSTANTS
    MaxGen,       \* bound: racks published
    MaxHarvest    \* bound: harvests

ASSUME BoundsAssumption == MaxGen \in Nat /\ MaxHarvest \in Nat

NoRack == 0
Gens == 1 .. MaxGen

VARIABLES
    rackPtr,     \* HostRtState::rack_ptr
    refs,        \* strong count of each rack
    freedBy,     \* the thread that dropped the last reference, "no" before
    owner,       \* holder of each rack's Mutex
    built,       \* racks published so far
    observed,    \* rack of the last processed block (observed_gen)
    live,        \* the filter exists, so the callback can run
    rt, rtRack,  \* the callback: step and the rack it works on
    eng, engRack, harvests, \* the engine thread: step, its rack, its count
    mail         \* newest generation a waiting control message was resolved for

rackVars == <<rackPtr, refs, freedBy, owner, built, observed, live, rt, rtRack,
              eng, engRack, harvests, mail>>

RtVars == <<rt, rtRack, observed, mail>>
EngVars == <<eng, engRack, harvests, built, rackPtr, live>>

(* Steps at which a thread owns a strong reference to the rack it names.   *)
RtHolds == rt \in {"try", "run", "drop"}
EngHolds == eng \in {"dropOld", "hLock", "hRead", "hDrop", "free"}

RackTypeOK ==
    /\ rackPtr \in Gens \cup {NoRack}
    /\ refs \in [Gens -> 0 .. 3]
    /\ freedBy \in [Gens -> {"no", "rt", "engine"}]
    /\ owner \in [Gens -> {"none", "rt", "engine"}]
    /\ built \in 0 .. MaxGen
    /\ observed \in 0 .. MaxGen
    /\ live \in BOOLEAN
    /\ rt \in {"idle", "clone", "try", "run", "drop", "wild"}
    /\ rtRack \in Gens \cup {NoRack}
    /\ eng \in {"idle", "dropOld", "hLock", "hRead", "hDrop", "free", "gone"}
    /\ engRack \in Gens \cup {NoRack}
    /\ harvests \in 0 .. MaxHarvest
    /\ mail \in 0 .. MaxGen

RackInit ==
    /\ rackPtr = NoRack
    /\ refs = [g \in Gens |-> 0]
    /\ freedBy = [g \in Gens |-> "no"]
    /\ owner = [g \in Gens |-> "none"]
    /\ built = 0 /\ observed = 0
    /\ live = TRUE
    /\ rt = "idle" /\ rtRack = NoRack
    /\ eng = "idle" /\ engRack = NoRack /\ harvests = 0
    /\ mail = 0

(* The mutants of this module, each before the definition it replaces, are *)
(* the slips of the code that the runs must notice.                        *)
DropRefForgotten(g, who) == UNCHANGED <<refs, freedBy>>

(* Arc::drop by one thread: the last reference frees the rack there.       *)
DropRef(g, who) ==
    /\ refs' = [refs EXCEPT ![g] = @ - 1]
    /\ freedBy' = IF refs[g] = 1 THEN [freedBy EXCEPT ![g] = who] ELSE freedBy

-----------------------------------------------------------------------------
(* publish_rack: swap the pointer, then drop the rack that was there.      *)
PublishSwap ==
    /\ eng = "idle" /\ built < MaxGen
    /\ built' = built + 1
    /\ rackPtr' = built + 1
    /\ refs' = [refs EXCEPT ![built + 1] = 1]
    /\ engRack' = rackPtr
    /\ eng' = IF rackPtr = NoRack THEN "idle" ELSE "dropOld"
    /\ UNCHANGED <<freedBy, owner, live, harvests, RtVars>>

PublishForgetOld ==
    /\ eng = "dropOld"
    /\ eng' = "idle" /\ engRack' = NoRack
    /\ UNCHANGED <<refs, freedBy, owner, rackPtr, built, live, harvests, RtVars>>

PublishDropOld ==
    /\ eng = "dropOld"
    /\ DropRef(engRack, "engine")
    /\ eng' = "idle" /\ engRack' = NoRack
    /\ UNCHANGED <<owner, rackPtr, built, live, harvests, RtVars>>

(* push_host_controls, push_host_param: a message resolved through         *)
(* control_index, which describes the newest rack.                         *)
PushControls ==
    /\ eng = "idle" /\ rackPtr # NoRack
    /\ mail' = built
    /\ UNCHANGED <<EngVars, refs, freedBy, owner, rt, rtRack, observed>>

HarvestWithoutClone ==
    /\ eng = "idle" /\ rackPtr # NoRack /\ harvests < MaxHarvest
    /\ engRack' = rackPtr
    /\ harvests' = harvests + 1
    /\ eng' = "hLock"
    /\ UNCHANGED <<refs, freedBy, owner, rackPtr, built, live, RtVars>>

(* harvest_from_node: a strong clone, a blocking lock, the read, and both  *)
(* released.  No publisher runs meanwhile, so load and clone are one step. *)
HarvestLoad ==
    /\ eng = "idle" /\ rackPtr # NoRack /\ harvests < MaxHarvest
    /\ engRack' = rackPtr
    /\ refs' = [refs EXCEPT ![rackPtr] = @ + 1]
    /\ harvests' = harvests + 1
    /\ eng' = "hLock"
    /\ UNCHANGED <<freedBy, owner, rackPtr, built, live, RtVars>>

HarvestLock ==
    /\ eng = "hLock" /\ owner[engRack] = "none"
    /\ owner' = [owner EXCEPT ![engRack] = "engine"]
    /\ eng' = "hRead"
    /\ UNCHANGED <<refs, freedBy, rackPtr, built, live, engRack, harvests, RtVars>>

HarvestUnlock ==
    /\ eng = "hRead"
    /\ owner' = [owner EXCEPT ![engRack] = "none"]
    /\ eng' = "hDrop"
    /\ UNCHANGED <<refs, freedBy, rackPtr, built, live, engRack, harvests, RtVars>>

HarvestDrop ==
    /\ eng = "hDrop"
    /\ DropRef(engRack, "engine")
    /\ eng' = "idle" /\ engRack' = NoRack
    /\ UNCHANGED <<owner, rackPtr, built, live, harvests, RtVars>>

(* PwFxNode::stop: pw_filter_destroy waits out the callback and none comes *)
(* after it; then HostRtState::drop clears the pointer and drops the rack. *)
StopFilter ==
    /\ eng = "idle" /\ live /\ rt = "idle"
    /\ live' = FALSE
    /\ rackPtr' = NoRack
    /\ engRack' = rackPtr
    /\ eng' = IF rackPtr = NoRack THEN "gone" ELSE "free"
    /\ UNCHANGED <<refs, freedBy, owner, built, harvests, RtVars>>

StateDrop ==
    /\ eng = "free"
    /\ DropRef(engRack, "engine")
    /\ eng' = "gone" /\ engRack' = NoRack
    /\ UNCHANGED <<owner, rackPtr, built, live, harvests, RtVars>>

Engine ==
    \/ PublishSwap \/ PublishDropOld \/ PushControls
    \/ HarvestLoad \/ HarvestLock \/ HarvestUnlock \/ HarvestDrop
    \/ StopFilter \/ StateDrop

-----------------------------------------------------------------------------
(* on_process: from_raw, clone, forget.  The load and the increment are    *)
(* two instructions.                                                       *)
RtLoad ==
    /\ live /\ rt = "idle" /\ rackPtr # NoRack
    /\ rtRack' = rackPtr
    /\ rt' = "clone"
    /\ UNCHANGED <<refs, freedBy, owner, observed, mail, EngVars>>

RtCloneForgotten ==
    /\ rt = "clone"
    /\ rt' = IF freedBy[rtRack] = "no" THEN "try" ELSE "wild"
    /\ UNCHANGED <<refs, rtRack, freedBy, owner, observed, mail, EngVars>>

(* A rack freed since the load: the step after which nothing is defined.   *)
RtClone ==
    /\ rt = "clone"
    /\ \/ /\ freedBy[rtRack] = "no"
          /\ refs' = [refs EXCEPT ![rtRack] = @ + 1]
          /\ rt' = "try"
       \/ /\ freedBy[rtRack] # "no"
          /\ rt' = "wild" /\ UNCHANGED refs
    /\ UNCHANGED <<rtRack, freedBy, owner, observed, mail, EngVars>>

RtSkipUnchanged ==
    /\ rt = "try"
    /\ IF owner[rtRack] = "none" /\ observed # rtRack
         THEN rt' = "run" /\ owner' = [owner EXCEPT ![rtRack] = "rt"]
         ELSE rt' = "drop" /\ UNCHANGED owner
    /\ UNCHANGED <<rtRack, refs, freedBy, observed, mail, EngVars>>

(* try_lock: a contended rack is skipped for this block, mailbox untouched. *)
RtTryLock ==
    /\ rt = "try"
    /\ IF owner[rtRack] = "none"
         THEN rt' = "run" /\ owner' = [owner EXCEPT ![rtRack] = "rt"]
         ELSE rt' = "drop" /\ UNCHANGED owner
    /\ UNCHANGED <<rtRack, refs, freedBy, observed, mail, EngVars>>

(* Drain the mailbox, apply it to this rack, process, note the generation. *)
RtRun ==
    /\ rt = "run"
    /\ mail' = 0
    /\ observed' = rtRack
    /\ owner' = [owner EXCEPT ![rtRack] = "none"]
    /\ rt' = "drop"
    /\ UNCHANGED <<rtRack, refs, freedBy, EngVars>>

RtDrop ==
    /\ rt = "drop"
    /\ DropRef(rtRack, "rt")
    /\ rt' = "idle" /\ rtRack' = NoRack
    /\ UNCHANGED <<owner, observed, mail, EngVars>>

Callback == RtLoad \/ RtClone \/ RtTryLock \/ RtRun \/ RtDrop

RackNext == Engine \/ Callback

RackSpec == RackInit /\ [][RackNext]_rackVars

(* The graph clock calls the callback, and a callback that runs finishes;  *)
(* an engine thread finishes what it began under REGISTRY, and begins      *)
(* nothing by obligation.                                                  *)
RackFairSpec ==
    /\ RackSpec
    /\ WF_rackVars(Callback)
    /\ WF_rackVars(PublishDropOld \/ StateDrop
                   \/ HarvestLock \/ HarvestUnlock \/ HarvestDrop)
-----------------------------------------------------------------------------
(* A reference that was counted is safe: the engine thread, the pointer    *)
(* and a callback past its increment never refer to a rack whose memory    *)
(* has been returned.  A callback before it may, but only to a rack that   *)
(* a publisher has replaced and dropped meanwhile.                         *)
CountedIsSafe == rt # "wild" =>
    /\ RtHolds => freedBy[rtRack] = "no"
    /\ rt = "clone" /\ freedBy[rtRack] # "no" =>
           freedBy[rtRack] = "engine" /\ live /\ rtRack < rackPtr
    /\ EngHolds => freedBy[engRack] = "no"
    /\ rackPtr # NoRack => freedBy[rackPtr] = "no"

(* No thread touches a rack whose memory has been returned.                *)
NoUseAfterFree ==
    /\ rt # "idle" => freedBy[rtRack] = "no"
    /\ EngHolds /\ engRack # NoRack => freedBy[engRack] = "no"
    /\ rackPtr # NoRack => freedBy[rackPtr] = "no"

(* As long as all is defined, the count of each rack is the number of      *)
(* owners it has: the pointer, the callback, the engine thread.            *)
Count(held) == IF held THEN 1 ELSE 0

Owners(g) == Count(rackPtr = g) + Count(RtHolds /\ rtRack = g)
                                + Count(EngHolds /\ engRack = g)

RefsExact == rt # "wild" => \A g \in Gens : refs[g] = Owners(g)

(* Once both threads rest, the only rack in memory is the published one:   *)
(* no generation leaks.                                                    *)
NoLeak ==
    rt = "idle" /\ eng \in {"idle", "gone"} =>
        \A g \in 1 .. built : freedBy[g] = "no" <=> g = rackPtr

(* A control message waits for at most a contended block, not for ever.    *)
MailDrained == mail > 0 ~> mail = 0 \/ ~live \/ rt = "wild"
=============================================================================
