----------------------------- MODULE MixerWrites -----------------------------
(***************************************************************************)
(* One fader with two hands on it.  The mixer window and the IPC clients   *)
(* (buschain-ctl, Quickshell) both write the gain and mute of a track; the *)
(* interactive lane of the audio worker brings the level to the engine.    *)
(* The code shares no session between them: it has a table of the last     *)
(* intentional write (TrackMixerAuthority), one patch slot in each         *)
(* direction and a generation stamped on every SetTrackLevel               *)
(* (app/src/daemon.rs, app_state.rs, ui/mixer.rs, audio/worker.rs).        *)
(*                                                                         *)
(* Each of those statics has its own mutex, so a step here is one critical *)
(* section.  A value is the number of the gesture that made it.            *)
(***************************************************************************)
EXTENDS Integers, Sequences

CONSTANTS
    MaxUi,        \* bound: gestures in the mixer window
    MaxIpc,       \* bound: gestures of the IPC clients
    MaxSolo       \* bound: solo changes, which resend the level unchanged

ASSUME BoundsAssumption == MaxUi \in Nat /\ MaxIpc \in Nat /\ MaxSolo \in Nat

Vals == 0 .. MaxUi + MaxIpc
NoVal == -1
MaxRev == 1 + 2 * MaxUi + MaxIpc + MaxSolo

VARIABLES
    auth,             \* TrackMixerAuthority: [val, rev, origin]
    uiPatch, dmPatch, \* the patch waiting for the window, for the daemon
    uiVal, dmVal,     \* the track in the window's and in the daemon's session
    ui, uArg, uRev,   \* the window's thread: step, value and rev it pushes
    pendLevel, pendFull, \* pending_level_track, levels_pending_full
    ipc, iRev,        \* the daemon's thread under the state lock: step, rev
    requests,         \* SetTrackMixer requests so far (history)
    chan,             \* SetTrackLevel commands on their way to the lane
    applied, engVal,  \* the lane: level_revs, the level the engine has
    writes, solos,    \* gestures of both hands, solo changes (history)
    clash             \* a gesture met an unfinished one of the other hand

uiVars == <<uiVal, ui, uArg, uRev, pendLevel, pendFull, solos>>
ipcVars == <<dmVal, ipc, iRev, requests>>
laneVars == <<applied, engVal>>
vars == <<auth, uiPatch, dmPatch, uiVars, ipcVars, chan, laneVars, writes, clash>>

Levels == [val : Vals, rev : 0 .. MaxRev]

TypeOK ==
    /\ auth \in [val : Vals, rev : 1 .. MaxRev, origin : {"ui", "external"}]
    /\ uiPatch \in Vals \cup {NoVal} /\ dmPatch \in Vals \cup {NoVal}
    /\ uiVal \in Vals /\ dmVal \in Vals
    /\ ui \in {"idle", "take", "ack", "flush", "check", "stale", "note", "patch", "send"}
    /\ uArg \in Vals /\ uRev \in 0 .. MaxRev
    /\ pendLevel \in BOOLEAN /\ pendFull \in BOOLEAN
    /\ ipc \in {"idle", "poll", "request", "note", "clear", "patch", "rev", "send"}
    /\ iRev \in 0 .. MaxRev
    /\ chan \in Seq(Levels)
    /\ applied \in 0 .. MaxRev /\ engVal \in Vals
    /\ writes \in Vals /\ requests \in 0 .. MaxIpc /\ solos \in 0 .. MaxSolo
    /\ clash \in BOOLEAN

(* A session has been loaded: the table is seeded and the engine has its   *)
(* levels.                                                                 *)
Init ==
    /\ auth = [val |-> 0, rev |-> 1, origin |-> "ui"]
    /\ uiPatch = NoVal /\ dmPatch = NoVal
    /\ uiVal = 0 /\ dmVal = 0
    /\ ui = "idle" /\ uArg = 0 /\ uRev = 0
    /\ pendLevel = FALSE /\ pendFull = FALSE
    /\ ipc = "idle" /\ iRev = 0
    /\ chan = <<>>
    /\ applied = 0 /\ engVal = 0
    /\ writes = 0 /\ requests = 0 /\ solos = 0 /\ clash = FALSE

-----------------------------------------------------------------------------
(* note_track_mixer_write                                                  *)
Noted(v, who) == [val |-> v, rev |-> auth.rev + 1, origin |-> who]

(* external_track_mixer_authority(..).unwrap_or(mine)                      *)
ExternalOr(mine) == IF auth.origin = "external" THEN auth.val ELSE mine

(* A write of the other hand that the window has not adopted yet.          *)
Unadopted ==
    \/ ipc \in {"clear", "patch", "rev", "send"}
    \/ uiPatch # NoVal \/ auth.origin = "external"

(* The window shows an older value than the one it acknowledged, or is     *)
(* about to adopt one.                                                     *)
Behind ==
    \/ auth.origin = "ui" /\ uiVal # auth.val
    \/ uiPatch \notin {NoVal, auth.val}

(* The window has chosen the value it will write but not written it.       *)
Undecided == ui \in {"check", "stale", "note"}

(* The window has not acknowledged the last request and is to resend its   *)
(* levels: its acknowledgement will release the next request as well.      *)
Unreleased == pendFull /\ (uiPatch # NoVal \/ ui = "ack")

-----------------------------------------------------------------------------
(* The fader of a strip: claim the authority at once, send at most at the  *)
(* coalescing rate (schedule_track_level).                                 *)
UiDrag ==
    /\ ui = "idle" /\ writes - requests < MaxUi
    /\ writes' = writes + 1
    /\ uiVal' = writes + 1
    /\ auth' = Noted(writes + 1, "ui")
    /\ pendLevel' = TRUE
    /\ ui' = "flush"
    /\ clash' = (clash \/ Unadopted)
    /\ UNCHANGED <<uiPatch, dmPatch, uArg, uRev, pendFull, solos, ipcVars, chan, laneVars>>

(* The mute lamp of a strip, and the popup's apply_track_level: push and   *)
(* send in one go.                                                         *)
UiLamp ==
    /\ ui = "idle" /\ writes - requests < MaxUi
    /\ writes' = writes + 1
    /\ uiVal' = writes + 1
    /\ uArg' = writes + 1
    /\ ui' = "check"
    /\ clash' = (clash \/ Unadopted)
    /\ UNCHANGED <<auth, uiPatch, dmPatch, uRev, pendLevel, pendFull, solos, ipcVars, chan, laneVars>>

(* schedule_levels: a solo change resends every track's level.             *)
UiSolo ==
    /\ ui = "idle" /\ solos < MaxSolo
    /\ solos' = solos + 1
    /\ pendFull' = TRUE
    /\ ui' = "flush"
    /\ clash' = (clash \/ Behind)
    /\ UNCHANGED <<auth, uiPatch, dmPatch, uiVal, uArg, uRev, pendLevel, ipcVars, chan, laneVars, writes>>

UiOverlayNothing ==
    /\ ui = "idle"
    /\ ui' = "take"
    /\ UNCHANGED <<auth, uiPatch, dmPatch, uiVal, uArg, uRev, pendLevel, pendFull, solos, ipcVars, chan, laneVars, writes, clash>>

(* tick: overlay the authority, adopt a patch, acknowledge it, flush.      *)
UiOverlay ==
    /\ ui = "idle"
    /\ uiVal' = auth.val
    /\ ui' = "take"
    /\ UNCHANGED <<auth, uiPatch, dmPatch, uArg, uRev, pendLevel, pendFull, solos, ipcVars, chan, laneVars, writes, clash>>

UiAdoptAlways ==
    /\ ui = "take"
    /\ uiVal' = uiPatch /\ uiPatch' = NoVal
    /\ ui' = "ack"
    /\ UNCHANGED <<auth, dmPatch, uArg, uRev, pendLevel, pendFull, solos, ipcVars, chan, laneVars, writes, clash>>

UiAdopt ==
    /\ ui = "take"
    /\ IF uiPatch = NoVal
         THEN ui' = "flush" /\ UNCHANGED <<uiVal, uiPatch>>
         ELSE ui' = "ack" /\ uiVal' = uiPatch /\ uiPatch' = NoVal
    /\ UNCHANGED <<auth, dmPatch, uArg, uRev, pendLevel, pendFull, solos, ipcVars, chan, laneVars, writes, clash>>

(* acknowledge_track_mixer_authority; the window's own unsent level for    *)
(* the track is dropped with it.                                           *)
UiAcknowledge ==
    /\ ui = "ack"
    /\ auth' = [auth EXCEPT !.origin = "ui"]
    /\ pendLevel' = FALSE
    /\ ui' = "flush"
    /\ UNCHANGED <<uiPatch, dmPatch, uiVal, uArg, uRev, pendFull, solos, ipcVars, chan, laneVars, writes, clash>>

UiHoldDropped ==
    /\ ui = "flush"
    /\ pendLevel' = FALSE
    /\ ui' = "idle"
    /\ UNCHANGED <<auth, uiPatch, dmPatch, uiVal, uArg, uRev, pendFull, solos, ipcVars, chan, laneVars, writes, clash>>

(* flush_levels with nothing to send, or too soon after the last time.     *)
UiHold ==
    /\ ui = "flush"
    /\ ui' = "idle"
    /\ UNCHANGED <<auth, uiPatch, dmPatch, uiVal, uArg, uRev, pendLevel, pendFull, solos, ipcVars, chan, laneVars, writes, clash>>

UiFlush ==
    /\ ui = "flush" /\ (pendLevel \/ pendFull)
    /\ uArg' = ExternalOr(uiVal)
    /\ pendLevel' = FALSE /\ pendFull' = FALSE
    /\ ui' = "check"
    /\ UNCHANGED <<auth, uiPatch, dmPatch, uiVal, uRev, solos, ipcVars, chan, laneVars, writes, clash>>

(* push_track_mixer_to_daemon: its test of the authority, and the write.   *)
UiCheck ==
    /\ ui = "check"
    /\ ui' = IF auth.origin = "external" /\ auth.val # uArg THEN "stale" ELSE "note"
    /\ UNCHANGED <<auth, uiPatch, dmPatch, uiVal, uArg, uRev, pendLevel, pendFull, solos, ipcVars, chan, laneVars, writes, clash>>

(* The echo is not written, but the caller gets the newer rev for it.      *)
UiStaleRev ==
    /\ ui = "stale"
    /\ uRev' = auth.rev
    /\ ui' = "send"
    /\ UNCHANGED <<auth, uiPatch, dmPatch, uiVal, uArg, pendLevel, pendFull, solos, ipcVars, chan, laneVars, writes, clash>>

UiNote ==
    /\ ui = "note"
    /\ auth' = Noted(uArg, "ui")
    /\ uRev' = auth.rev + 1
    /\ ui' = "patch"
    /\ UNCHANGED <<uiPatch, dmPatch, uiVal, uArg, pendLevel, pendFull, solos, ipcVars, chan, laneVars, writes, clash>>

UiPatchDaemon ==
    /\ ui = "patch"
    /\ dmPatch' = uArg
    /\ ui' = "send"
    /\ UNCHANGED <<auth, uiPatch, uiVal, uArg, uRev, pendLevel, pendFull, solos, ipcVars, chan, laneVars, writes, clash>>

UiSend ==
    /\ ui = "send"
    /\ chan' = Append(chan, [val |-> uArg, rev |-> uRev])
    /\ ui' = "idle" /\ uArg' = 0 /\ uRev' = 0
    /\ UNCHANGED <<auth, uiPatch, dmPatch, uiVal, pendLevel, pendFull, solos, ipcVars, laneVars, writes, clash>>

UiRest ==
    \/ UiOverlay \/ UiAdopt \/ UiAcknowledge \/ UiHold
    \/ UiCheck \/ UiStaleRev \/ UiNote \/ UiPatchDaemon \/ UiSend

Ui == UiDrag \/ UiLamp \/ UiSolo \/ UiFlush \/ UiRest

-----------------------------------------------------------------------------
(* drain_daemon_track_mixer_patches, from the serve loop or at the head of *)
(* a request: take the patch, then overlay the authority on it.            *)
IpcTake ==
    /\ ipc = "idle"
    /\ \/ ipc' = "poll"
       \/ ipc' = "request" /\ requests < MaxIpc
    /\ dmVal' = IF dmPatch = NoVal THEN dmVal ELSE dmPatch
    /\ dmPatch' = NoVal
    /\ UNCHANGED <<auth, uiPatch, uiVars, iRev, requests, chan, laneVars, writes, clash>>

IpcOverlay ==
    /\ ipc \in {"poll", "request"}
    /\ dmVal' = auth.val
    /\ ipc' = IF ipc = "request" THEN "note" ELSE "idle"
    /\ UNCHANGED <<auth, uiPatch, dmPatch, uiVars, iRev, requests, chan, laneVars, writes, clash>>

(* Request::SetTrackMixer, push_track_mixer_to_ui: write the authority,    *)
(* drop the window's echo, leave a patch for the window.                   *)
IpcNote ==
    /\ ipc = "note"
    /\ writes' = writes + 1 /\ requests' = requests + 1
    /\ dmVal' = writes + 1
    /\ auth' = Noted(writes + 1, "external")
    /\ ipc' = "clear"
    /\ clash' = (clash \/ Undecided \/ Unreleased)
    /\ UNCHANGED <<uiPatch, dmPatch, uiVars, iRev, chan, laneVars>>

IpcClear ==
    /\ ipc = "clear"
    /\ dmPatch' = NoVal
    /\ ipc' = "patch"
    /\ UNCHANGED <<auth, uiPatch, uiVars, dmVal, iRev, requests, chan, laneVars, writes, clash>>

IpcPatch ==
    /\ ipc = "patch"
    /\ uiPatch' = dmVal
    /\ ipc' = "rev"
    /\ UNCHANGED <<auth, dmPatch, uiVars, dmVal, iRev, requests, chan, laneVars, writes, clash>>

(* track_mixer_write_rev: a lock of its own, so not always its own rev.    *)
IpcRev ==
    /\ ipc = "rev"
    /\ iRev' = auth.rev
    /\ ipc' = "send"
    /\ UNCHANGED <<auth, uiPatch, dmPatch, uiVars, dmVal, requests, chan, laneVars, writes, clash>>

IpcSend ==
    /\ ipc = "send"
    /\ chan' = Append(chan, [val |-> dmVal, rev |-> iRev])
    /\ ipc' = "idle" /\ iRev' = 0
    /\ UNCHANGED <<auth, uiPatch, dmPatch, uiVars, dmVal, requests, laneVars, writes, clash>>

Ipc ==
    \/ IpcTake \/ IpcOverlay \/ IpcNote \/ IpcClear \/ IpcPatch \/ IpcRev
    \/ IpcSend

-----------------------------------------------------------------------------
LastQueued(batch) == Len(batch)

(* coalesce_commands: of the levels for one sink, the newest rev, and the  *)
(* later of two with the same.                                             *)
Winner(batch) ==
    CHOOSE i \in DOMAIN batch : \A j \in DOMAIN batch :
        batch[j].rev < batch[i].rev \/ (batch[j].rev = batch[i].rev /\ j <= i)

AcceptsAny(rev) == TRUE

(* Drop stale fader commands that lost the race to a newer write.          *)
Accepts(rev) == rev >= applied

(* The lane takes what has arrived, coalesces it and applies the winner.   *)
LaneBatch ==
    \E n \in DOMAIN chan :
        LET batch == SubSeq(chan, 1, n)
            level == batch[Winner(batch)]
        IN  /\ chan' = SubSeq(chan, n + 1, Len(chan))
            /\ IF Accepts(level.rev)
                 THEN applied' = level.rev /\ engVal' = level.val
                 ELSE UNCHANGED laneVars
            /\ UNCHANGED <<auth, uiPatch, dmPatch, uiVars, ipcVars, writes, clash>>

Next == Ui \/ Ipc \/ LaneBatch

Spec == Init /\ [][Next]_vars

(* egui repaints and so ticks, the daemon's serve loop polls, the lane     *)
(* receives, each for ever; the coalescing gap of a few milliseconds has   *)
(* passed at some tick while a level is pending.  Nobody has to move a     *)
(* fader.                                                                  *)
FairSpec ==
    /\ Spec
    /\ WF_vars(UiRest) /\ SF_vars(UiFlush)
    /\ WF_vars(Ipc) /\ WF_vars(LaneBatch)
-----------------------------------------------------------------------------
(* Nothing on its way: both hands rest, no patch, no level, no command.    *)
Settled ==
    /\ ui = "idle" /\ ~pendLevel /\ ~pendFull /\ uiPatch = NoVal
    /\ ipc \in {"idle", "poll", "request", "note"}
    /\ chan = <<>>

(* The last gesture wins: when nothing is on its way, the engine and the   *)
(* window have it, whichever hand made it and however the two hands'       *)
(* commands overtook each other -- as long as no hand began in the middle  *)
(* of the other's write.                                                   *)
LastWriteWins == Settled /\ ~clash => engVal = writes /\ uiVal = writes

(* A level never snaps back to an older gesture (worker.rs: "a queued      *)
(* pre-drag SetTrackLevel cannot snap volume after a newer write").        *)
NoSnapBack == [][~clash' => engVal <= engVal']_vars

(* Both views of the fader come to agree with the authority, clash or not. *)
ViewsAgree ==
    \A v \in Vals : auth.val = v ~> (uiVal = v /\ dmVal = v) \/ auth.val # v

(* Every gesture is heard, or a newer one.                                 *)
EventuallyHeard == \A k \in Vals : writes >= k ~> engVal >= k \/ clash
=============================================================================
