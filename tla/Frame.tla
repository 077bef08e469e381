------------------------------- MODULE Frame -------------------------------
(* Frames of a command-mode DECON: the completion event of a commit, the     *)
(* count of frames in flight, and the recovery of a panel that does not      *)
(* answer (exynos_drm_decon.c, exynos_drm_recovery.c, exynos_drm_crtc.c).    *)
(*                                                                           *)
(* A commit tail requests a shadow update and unmasks the trigger; at the    *)
(* next TE the hardware starts a frame, which raises frame start, and later  *)
(* frame done.  The tail waits for the completion event with a time limit;   *)
(* past it, it sends the event itself and queues the recovery work, which    *)
(* switches the CRTC off and on with the state it had.                       *)
(*                                                                           *)
(* decon->slock makes the interrupt handlers and the locked sections single  *)
(* steps; it is held over "starting".  The tails of one CRTC run one after   *)
(* another: its commits wait for each other in the DRM core.  Left out: the  *)
(* windows (Windows), block count and runtime PM (Hibernation), video mode,  *)
(* writeback, DisplayPort, and states without vblank event.                  *)
EXTENDS Integers, FiniteSets

CONSTANTS
  MaxCommits,  \* commits of the user
  MaxDebug,    \* writes to the recovery file of debugfs
  Faults,      \* which of FaultNames may happen
  MaxFaults    \* kinds of faults in one behaviour

FaultNames ==
  {"late_irq",         \* frame start is served between the timeout and its check
   "late_start",       \* a frame starts after the timeout was confirmed
   "dimming",          \* DQE dimming keeps the trigger unmasked
   "late_mask",        \* a frame is started again before the trigger is masked
   "lock_contention"}  \* a modeset lock answers -EDEADLK

ASSUME MaxCommitsAssumption == MaxCommits \in Nat
ASSUME MaxDebugAssumption == MaxDebug \in Nat
ASSUME MaxFaultsAssumption == MaxFaults \in Nat
ASSUME FaultsAssumption == Faults \subseteq FaultNames

(* Names for commits, used again when nobody holds their event: recoveries   *)
(* may follow each other for ever.                                           *)
MaxIds == MaxCommits + 2
Ids    == 1 .. MaxIds
Kinds  == {"frame", "skip", "sleep", "off"}
TailPcs == {"idle", "begin", "stop", "stopLate", "flush", "starting", "wait", "late",
            "giveUp", "force", "forceOnly", "mask", "drmWait"}
RecoveryPcs == {"idle", "suspend", "backoff", "suspending", "resuming", "succeeded", "failed"}
NoTail == [id |-> 0, kind |-> "off", pc |-> "idle"]

VARIABLES
  display,     \* the CRTC state: on, sleep (self refresh) or off
  locked,      \* the recovery work holds the modeset lock
  tail,        \* the commit tail that runs
  users,       \* commits of the user
  debugs,      \* writes to debugfs
  state,       \* decon->state
  frames,      \* decon->frames_pending
  gaveUp,      \* history: frames were given up since DECON started
  keepUnmask,  \* decon->keep_unmask
  faulted,     \* history: the faults that have happened
  armed,       \* decon->event, 0 is NULL
  drmArmed,    \* events in the vblank list of the DRM core
  refs,        \* vblank references of events
  sent,        \* how often the event of a commit was sent
  update,      \* hardware: a shadow update is requested
  unmasked,    \* hardware: the TE starts frames
  busy,        \* hardware: a frame is in transfer
  fsPending,   \* hardware: frame start interrupt
  fdPending,   \* hardware: frame done interrupt
  recovering,  \* decon->recovery.recovering
  queued,      \* the recovery work is pending
  rpc,         \* where the recovery work is
  saved        \* its suspend_state is not empty

user   == <<display, users>>
drv    == <<state, frames, gaveUp>>
events == <<armed, drmArmed, refs, sent>>
hw     == <<update, unmasked, busy, fsPending, fdPending>>
rec    == <<locked, debugs, recovering, queued, rpc, saved>>
dqe    == <<keepUnmask, faulted>>
vars   == <<user, tail, drv, dqe, events, hw, rec>>

TypeOK ==
  /\ display \in {"on", "sleep", "off"} /\ locked \in BOOLEAN
  /\ tail \in [id : 0 .. MaxIds, kind : Kinds, pc : TailPcs]
  /\ users \in 0 .. MaxCommits /\ debugs \in 0 .. MaxDebug
  /\ state \in {"ON", "HIBERNATION", "OFF"} /\ frames \in Nat /\ gaveUp \in BOOLEAN
  /\ keepUnmask \in BOOLEAN /\ faulted \subseteq Faults
  /\ armed \in 0 .. MaxIds /\ drmArmed \subseteq Ids /\ refs \in Int
  /\ sent \in [Ids -> Nat]
  /\ update \in BOOLEAN /\ unmasked \in BOOLEAN /\ busy \in BOOLEAN
  /\ fsPending \in BOOLEAN /\ fdPending \in BOOLEAN
  /\ recovering \in Nat /\ queued \in BOOLEAN /\ rpc \in RecoveryPcs /\ saved \in BOOLEAN

Init ==
  /\ display = "off" /\ locked = FALSE /\ tail = NoTail
  /\ users = 0 /\ debugs = 0
  /\ state = "OFF" /\ frames = 0 /\ gaveUp = FALSE
  /\ keepUnmask = FALSE /\ faulted = {}
  /\ armed = 0 /\ drmArmed = {} /\ refs = 0 /\ sent = [i \in Ids |-> 1]
  /\ update = FALSE /\ unmasked = FALSE /\ busy = FALSE
  /\ fsPending = FALSE /\ fdPending = FALSE
  /\ recovering = 0 /\ queued = FALSE /\ rpc = "idle" /\ saved = FALSE

-----------------------------------------------------------------------------
(* A fault happens where its condition holds, if it may. *)
Fault(f, cond) ==
  /\ cond => f \in Faults /\ Cardinality(faulted \cup {f}) <= MaxFaults
  /\ faulted' = IF cond THEN faulted \cup {f} ELSE faulted

Goto(p) == tail' = [tail EXCEPT !.pc = p]
Idle    == tail.pc = "idle"

Deliver(S) == sent' = [i \in Ids |-> IF i \in S THEN sent[i] + 1 ELSE sent[i]]

(* decon_send_vblank_event_locked: at most once, with its vblank reference.  *)
SendArmed ==
  /\ armed' = 0
  /\ IF armed = 0 THEN UNCHANGED <<refs, sent>>
     ELSE Deliver({armed}) /\ refs' = refs - 1
  /\ UNCHANGED drmArmed

Free == Ids \ ({armed} \cup drmArmed)

(* A commit: its event is created and the CRTC state swapped. *)
Commit(kind) ==
  /\ Idle
  /\ \E i \in Free :
       /\ \A j \in Free : i <= j
       /\ tail' = [id |-> i, kind |-> kind, pc |-> "begin"]
       /\ sent' = [sent EXCEPT ![i] = 0]
  /\ UNCHANGED <<armed, drmArmed, refs>>
  /\ display' = CASE kind = "sleep" -> "sleep" [] kind = "off" -> "off" [] OTHER -> "on"

(* The hibernation handler only enters self refresh without vblank users.    *)
UserCommits ==
  \E kind \in Kinds :
    /\ ~locked /\ users < MaxCommits
    /\ users' = users + 1
    /\ CASE kind = "frame" -> TRUE
         [] kind = "skip"  -> display = "on"
         [] kind = "sleep" -> display = "on" /\ refs = 0
         [] kind = "off"   -> display # "off"
    /\ Commit(kind)
    /\ UNCHANGED <<drv, dqe, hw, rec>>

-----------------------------------------------------------------------------
(* Commit tails that stop DECON. *)
Disables == tail.kind \in {"sleep", "off"}

(* The CRTC sends the event itself; drm_crtc_vblank_off sends those the DRM  *)
(* core holds.                                                               *)
CrtcDown ==
  /\ IF tail.kind = "off"
     THEN /\ Deliver({tail.id} \cup drmArmed)
          /\ drmArmed' = {} /\ refs' = refs - Cardinality(drmArmed)
     ELSE Deliver({tail.id}) /\ UNCHANGED <<drmArmed, refs>>
  /\ UNCHANGED armed
  /\ tail' = NoTail

(* From hibernation DECON goes off without another stop. *)
TailAlreadyStopped ==
  /\ tail.pc = "begin" /\ Disables
  /\ state # "ON"
  /\ state' = "OFF"
  /\ CrtcDown
  /\ UNCHANGED <<user, frames, gaveUp, dqe, hw, rec>>

(* Mutant: DECON is stopped whatever is in transfer. *)
TailWaitsForNothing ==
  /\ tail.pc = "begin" /\ Disables
  /\ state = "ON"
  /\ Goto("stop")
  /\ UNCHANGED <<user, drv, dqe, events, hw, rec>>

TailWaitsFrameDone ==
  /\ tail.pc = "begin" /\ Disables
  /\ state = "ON"
  /\ frames = 0 \/ ~busy
  /\ Goto("stop")
  /\ UNCHANGED <<user, drv, dqe, events, hw, rec>>

TailFrameDoneTimeout ==
  /\ tail.pc = "begin" /\ Disables
  /\ state = "ON"
  /\ frames > 0 /\ busy
  /\ Goto("stopLate")
  /\ UNCHANGED <<user, drv, dqe, events, hw, rec>>

TailStops ==
  /\ tail.pc \in {"stop", "stopLate"}
  /\ frames' = 0 /\ gaveUp' = FALSE
  /\ state' = IF tail.kind = "sleep" THEN "HIBERNATION" ELSE "OFF"
  /\ update' = FALSE /\ unmasked' = FALSE /\ busy' = FALSE
  /\ fsPending' = FALSE /\ fdPending' = FALSE
  /\ CrtcDown
  /\ UNCHANGED <<user, dqe, rec>>

-----------------------------------------------------------------------------
(* Commit tails that show a frame. *)
TailEnables ==
  /\ tail.pc = "begin" /\ ~Disables
  /\ state' = "ON"
  /\ Goto("flush")
  /\ UNCHANGED <<user, frames, gaveUp, dqe, events, hw, rec>>

(* skip_update: the event is left to the next vblank. *)
TailSkips ==
  /\ tail.pc = "flush" /\ tail.kind = "skip"
  /\ drmArmed' = drmArmed \cup {tail.id} /\ refs' = refs + 1
  /\ Goto("wait")
  /\ UNCHANGED <<user, drv, dqe, armed, sent, hw, rec>>

(* decon_atomic_flush takes slock and requests the update... *)
TailFlushes ==
  /\ tail.pc = "flush" /\ tail.kind = "frame"
  /\ update' = TRUE
  /\ Goto("starting")
  /\ UNCHANGED <<user, drv, dqe, events, unmasked, busy, fsPending, fdPending, rec>>

ArmEvent ==
  /\ armed' = tail.id
  /\ IF armed = 0 THEN refs' = refs + 1 /\ UNCHANGED sent
     ELSE Deliver({armed}) /\ UNCHANGED refs
  /\ UNCHANGED drmArmed

(* Mutant: a frame start from before the update is not cleared. *)
TailStartsKeepsPending ==
  /\ tail.pc = "starting"
  /\ unmasked' = TRUE
  /\ frames' = frames + 1
  /\ ArmEvent
  /\ Goto("wait")
  /\ UNCHANGED <<user, state, gaveUp, dqe, update, busy, fsPending, fdPending, rec>>

(* Mutant: decon->event is not set under the reference it takes. *)
TailStartsTwoReferences ==
  /\ tail.pc = "starting"
  /\ fsPending' = FALSE
  /\ unmasked' = TRUE
  /\ frames' = frames + 1
  /\ armed' = tail.id /\ refs' = refs + 2 /\ UNCHANGED <<sent, drmArmed>>
  /\ Goto("wait")
  /\ UNCHANGED <<user, state, gaveUp, dqe, update, busy, fdPending, rec>>

(* ...clears a frame start of before, unmasks the trigger and arms the event.*)
TailStarts ==
  /\ tail.pc = "starting"
  /\ fsPending' = FALSE
  /\ unmasked' = TRUE
  /\ frames' = frames + 1
  /\ ArmEvent
  /\ Goto("wait")
  /\ UNCHANGED <<user, state, gaveUp, dqe, update, busy, fdPending, rec>>

TailFlipDone ==
  /\ tail.pc = "wait"
  /\ sent[tail.id] > 0
  /\ Goto("mask")
  /\ UNCHANGED <<user, drv, dqe, events, hw, rec>>

(* Mutant: the time only runs when the frame has started. *)
TailFlipTimeoutIfStarted ==
  /\ tail.pc = "wait"
  /\ sent[tail.id] = 0 /\ ~update
  /\ Goto("late")
  /\ UNCHANGED <<user, drv, dqe, events, hw, rec>>

TailFlipTimeout ==
  /\ tail.pc = "wait"
  /\ sent[tail.id] = 0
  /\ Goto("late")
  /\ UNCHANGED <<user, drv, dqe, events, hw, rec>>

(* Mutant: a pending frame start is not looked for. *)
TailChecksNothing ==
  /\ tail.pc = "late"
  /\ Goto("giveUp")
  /\ UNCHANGED <<user, drv, dqe, events, hw, rec>>

(* The scheduler may only have been late to serve the interrupt. *)
TailChecks ==
  /\ tail.pc = "late"
  /\ fsPending' = FALSE
  /\ IF fsPending THEN SendArmed /\ Goto("mask")
     ELSE UNCHANGED events /\ Goto("giveUp")
  /\ UNCHANGED <<user, drv, dqe, update, unmasked, busy, fdPending, rec>>

(* Whether a recovery is under way is read here and used below. *)
TailGivesUp ==
  /\ tail.pc = "giveUp"
  /\ frames' = 0 /\ gaveUp' = TRUE
  /\ Goto(IF recovering = 0 THEN "force" ELSE "forceOnly")
  /\ UNCHANGED <<user, state, dqe, events, hw, rec>>

Trigger == recovering' = recovering + 1 /\ queued' = TRUE

(* Mutant: the event is sent but still there to be sent again. *)
TailForcesKeepsEvent ==
  /\ tail.pc \in {"force", "forceOnly"}
  /\ IF armed = 0 THEN UNCHANGED <<refs, sent>>
     ELSE Deliver({armed}) /\ refs' = refs - 1
  /\ UNCHANGED <<armed, drmArmed>>
  /\ IF tail.pc = "force" THEN Trigger ELSE UNCHANGED <<recovering, queued>>
  /\ Goto("mask")
  /\ UNCHANGED <<user, drv, dqe, hw, locked, debugs, rpc, saved>>

TailForces ==
  /\ tail.pc \in {"force", "forceOnly"}
  /\ SendArmed
  /\ IF tail.pc = "force" THEN Trigger ELSE UNCHANGED <<recovering, queued>>
  /\ Goto("mask")
  /\ UNCHANGED <<user, drv, dqe, hw, locked, debugs, rpc, saved>>

TailMasks ==
  /\ tail.pc = "mask"
  /\ unmasked' = (unmasked /\ keepUnmask)
  /\ Goto("drmWait")
  /\ UNCHANGED <<user, drv, dqe, events, update, busy, fsPending, fdPending, rec>>

(* The DRM core waits for the event as well, for ten seconds. *)
TailEnds ==
  /\ tail.pc = "drmWait"
  /\ tail' = NoTail
  /\ UNCHANGED <<user, drv, dqe, events, hw, rec>>

-----------------------------------------------------------------------------
(* Hardware and interrupts.  slock keeps the handlers out of "starting".     *)
Unlocked == tail.pc # "starting"

GivenUp == tail.pc \in {"giveUp", "force", "forceOnly", "mask", "drmWait"}

FrameStarts ==
  /\ state = "ON" /\ unmasked /\ ~busy
  /\ IF update THEN Fault("late_start", GivenUp) ELSE Fault("late_mask", ~keepUnmask)
  /\ update' = FALSE /\ busy' = TRUE /\ fsPending' = TRUE
  /\ UNCHANGED <<user, tail, drv, keepUnmask, events, unmasked, fdPending, rec>>

FrameEnds ==
  /\ busy
  /\ busy' = FALSE /\ fdPending' = TRUE
  /\ UNCHANGED <<user, tail, drv, dqe, events, update, unmasked, fsPending, rec>>

FsIrq ==
  /\ state = "ON" /\ Unlocked /\ fsPending
  /\ Fault("late_irq", tail.pc = "late")
  /\ fsPending' = FALSE
  /\ SendArmed
  /\ UNCHANGED <<user, tail, drv, keepUnmask, update, unmasked, busy, fdPending, rec>>

(* Mutant: atomic_dec instead of atomic_dec_if_positive. *)
DoneIrqAlwaysCounts ==
  /\ state = "ON" /\ Unlocked /\ fdPending
  /\ fdPending' = FALSE
  /\ frames' = frames - 1
  /\ UNCHANGED <<user, tail, state, gaveUp, dqe, events, update, unmasked, busy, fsPending, rec>>

DoneIrq ==
  /\ state = "ON" /\ Unlocked /\ fdPending
  /\ fdPending' = FALSE
  /\ frames' = IF frames > 0 THEN frames - 1 ELSE 0
  /\ UNCHANGED <<user, tail, state, gaveUp, dqe, events, update, unmasked, busy, fsPending, rec>>

DimmingStartIrq ==
  /\ Fault("dimming", TRUE)
  /\ state = "ON" /\ Unlocked /\ ~keepUnmask
  /\ keepUnmask' = TRUE /\ unmasked' = TRUE
  /\ UNCHANGED <<user, tail, drv, events, update, busy, fsPending, fdPending, rec>>

DimmingEndIrq ==
  /\ state = "ON" /\ Unlocked /\ keepUnmask
  /\ keepUnmask' = FALSE
  /\ unmasked' = (unmasked /\ armed # 0)
  /\ UNCHANGED <<user, tail, drv, faulted, events, update, busy, fsPending, fdPending, rec>>

(* drm_crtc_handle_vblank; a reference keeps the interrupt on. *)
TeIrq ==
  /\ state # "OFF" /\ refs > 0 /\ drmArmed # {}
  /\ Deliver(drmArmed)
  /\ drmArmed' = {} /\ refs' = refs - Cardinality(drmArmed)
  /\ UNCHANGED <<user, tail, drv, dqe, armed, hw, rec>>

-----------------------------------------------------------------------------
(* Recovery. *)
DebugTriggers ==
  /\ debugs < MaxDebug
  /\ debugs' = debugs + 1
  /\ Trigger
  /\ UNCHANGED <<user, tail, drv, dqe, events, hw, locked, rpc, saved>>

recRest == <<user, tail, drv, keepUnmask, events, hw, debugs>>

(* exynos_duplicate_active_crtc_state: nothing to recover of a CRTC that is  *)
(* off, and no second try when a lock is contended.                          *)
RecoveryStarts ==
  /\ rpc = "idle" /\ queued /\ ~locked
  /\ queued' = FALSE /\ locked' = TRUE
  /\ \/ display # "off" /\ rpc' = "suspend" /\ saved' = TRUE
        /\ UNCHANGED faulted
     \/ display = "off" /\ rpc' = "failed" /\ saved' = FALSE /\ UNCHANGED faulted
     \/ Fault("lock_contention", TRUE) /\ rpc' = "failed" /\ saved' = FALSE
  /\ UNCHANGED <<recovering, recRest>>

(* exynos_crtc_suspend switches the CRTC off with a blocking commit... *)
RecoverySuspends ==
  /\ rpc = "suspend"
  /\ rpc' = "suspending"
  /\ IF display # "off" THEN Commit("off") /\ UNCHANGED users ELSE Idle /\ UNCHANGED <<user, tail, events>>
  /\ UNCHANGED <<drv, dqe, hw, locked, debugs, recovering, queued, saved>>

(* ...or drops its locks and both states, and tries again with neither. *)
RecoveryBacksOff ==
  /\ rpc = "suspend" /\ Fault("lock_contention", TRUE)
  /\ rpc' = "backoff" /\ saved' = FALSE /\ locked' = FALSE
  /\ UNCHANGED <<recovering, queued, recRest>>

RecoveryRetries ==
  /\ rpc = "backoff"
  /\ rpc' = "suspend" /\ locked' = TRUE
  /\ UNCHANGED <<recovering, queued, saved, faulted, recRest>>

(* Mutant: the saved state is not committed. *)
RecoveryForgets ==
  /\ rpc = "suspending" /\ Idle
  /\ rpc' = "succeeded" /\ UNCHANGED <<user, tail>>
  /\ UNCHANGED <<drv, dqe, events, hw, locked, debugs, recovering, queued, saved>>

(* exynos_crtc_resume commits what was saved. *)
RecoveryResumes ==
  /\ rpc = "suspending" /\ Idle
  /\ IF saved THEN Commit("frame") /\ UNCHANGED users /\ rpc' = "resuming"
     ELSE rpc' = "succeeded" /\ UNCHANGED <<user, tail, events>>
  /\ UNCHANGED <<drv, dqe, hw, locked, debugs, recovering, queued, saved>>

RecoveryResumed ==
  /\ rpc = "resuming" /\ Idle
  /\ rpc' = "succeeded"
  /\ UNCHANGED <<recovering, queued, saved, locked, faulted, recRest>>

(* Mutant: only a recovery that succeeded clears the flag. *)
RecoveryEndsWithFlag ==
  /\ rpc \in {"succeeded", "failed"}
  /\ recovering' = (IF rpc = "failed" THEN recovering ELSE 0)
  /\ locked' = FALSE
  /\ rpc' = "idle" /\ saved' = FALSE
  /\ UNCHANGED <<queued, faulted, recRest>>

RecoveryEnds ==
  /\ rpc \in {"succeeded", "failed"}
  /\ recovering' = 0 /\ locked' = FALSE
  /\ rpc' = "idle" /\ saved' = FALSE
  /\ UNCHANGED <<queued, faulted, recRest>>

-----------------------------------------------------------------------------
Tail ==
  \/ TailAlreadyStopped \/ TailWaitsFrameDone \/ TailFrameDoneTimeout \/ TailStops
  \/ TailEnables \/ TailSkips \/ TailFlushes \/ TailStarts
  \/ TailFlipDone \/ TailFlipTimeout \/ TailChecks \/ TailGivesUp \/ TailForces
  \/ TailMasks \/ TailEnds

Irqs == FsIrq \/ DoneIrq \/ DimmingStartIrq \/ DimmingEndIrq \/ TeIrq

Recovery ==
  \/ RecoveryStarts \/ RecoverySuspends \/ RecoveryBacksOff \/ RecoveryRetries
  \/ RecoveryResumes \/ RecoveryResumed \/ RecoveryEnds

Next == UserCommits \/ Tail \/ FrameStarts \/ FrameEnds \/ Irqs \/ DebugTriggers \/ Recovery

Spec == Init /\ [][Next]_vars

(* Commit tails and the recovery work run, and their waits have time limits; *)
(* nothing is assumed of the hardware.  A lock that was given up with        *)
(* -EDEADLK is then waited for, so that trying again ends.                   *)
FairSpec == Spec /\ WF_vars(Tail) /\ WF_vars(Recovery) /\ SF_vars(RecoverySuspends)

-----------------------------------------------------------------------------
(* No event is sent twice, whoever of the interrupt handlers, the timeout,   *)
(* vblank_off and the next commit gets to it, and a commit tail does not end *)
(* before its event is sent.  Only the event of a skipped update may stay    *)
(* with the DRM core until the next vblank.                                  *)
EventExactlyOnce ==
  \A i \in Ids :
    /\ sent[i] <= 1
    /\ i # tail.id /\ i \notin drmArmed => sent[i] = 1

(* Each event that waits holds one vblank reference, and nothing else does.  *)
VblankBalanced == refs = Cardinality(drmArmed) + IF armed = 0 THEN 0 ELSE 1

(* When the frame start interrupt completes a commit, its update has been    *)
(* taken over by the hardware: the start of an older frame does not count.   *)
EventMeansShown ==
  tail.kind = "frame" /\ tail.pc = "wait" /\ sent[tail.id] > 0 => ~update

(* The completion of a commit, over every fault.                             *)
EventsSound == TypeOK /\ EventExactlyOnce /\ VblankBalanced /\ EventMeansShown

(* DECON is stopped in the middle of a frame only after the wait for frame   *)
(* done timed out, or a frame before it was given up.  Dimming and a late    *)
(* mask of the trigger start frames nobody counts.                           *)
StopsIdle ==
  faulted \cap {"dimming", "late_mask"} = {} /\ tail.pc = "stop" /\ ~gaveUp => ~busy

(* A frame is only given up, and the panel recovered, if it did not start;   *)
(* the check of the pending frame start misses it if the frame starts, or    *)
(* its interrupt is served, around the check.                                *)
RecoversStuckOnly ==
  faulted \cap {"late_irq", "late_start", "dimming"} = {} /\ tail.pc = "giveUp" /\ tail.kind = "frame"
    => update

(* What the driver takes for the state of the hardware is its state.         *)
FramesSound == StopsIdle /\ RecoversStuckOnly

(* A recovery that counts as successful leaves the display on, unless a      *)
(* modeset lock was contended.                                               *)
RecoveryRestores ==
  "lock_contention" \notin faulted /\ rpc = "succeeded" => display = "on" /\ state = "ON"

(* Whatever the hardware does, a commit tail ends, and a recovery that was   *)
(* triggered ends and can be triggered again.                                *)
CommitsEnd    == tail.pc # "idle" ~> tail.pc = "idle"
RecoveryReady == recovering > 0 ~> recovering = 0
WorkEnds      == CommitsEnd /\ RecoveryReady
=============================================================================
