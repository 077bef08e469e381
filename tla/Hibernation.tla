---------------------------- MODULE Hibernation ----------------------------
(***************************************************************************)
(* Display hibernation of one command-mode CRTC: the block count and the   *)
(* delayed work of exynos_drm_hibernation.c, the commits that run on the   *)
(* DECON's kthread worker or inline (commit_tail, exynos_drm_drv.c), the   *)
(* DECON state machine with its runtime-PM references (exynos_drm_decon.c) *)
(* and the CRTC wrapper that decides which transition a commit makes       *)
(* (exynos_drm_crtc.c, exynos_disable_outputs in exynos_drm_fb.c).         *)
(*                                                                         *)
(* Threads: the worker, user threads that commit, wake the display up, use *)
(* the debugfs switch or wait for vblanks, and the system suspend thread.  *)
(* Of the DRM core only what orders these is kept: the modeset lock,       *)
(* flip_done and hw_done of the last commit, vblank references.            *)
(***************************************************************************)
EXTENDS Integers, Sequences, FiniteSets, FiniteSetsExt, SequencesExt

CONSTANTS
  User,               \* user threads
  Worker,             \* decon->worker's kthread
  Suspender,          \* the thread that suspends the system
  NoThread,
  MaxRequests,        \* bound: requests that user threads and suspend make
  ActiveOnly,         \* may ACTIVE be cleared without disabling (DPMS off)?
  BlockOverPending,   \* do blocking commits start while a frame is pending?
  TimerRaces          \* can the 50 ms timer expire inside the handler or suspend?

Thread == User \cup {Worker, Suspender}

ASSUME HibernationAssumption ==
  /\ IsFiniteSet(User)
  /\ Worker # Suspender /\ {Worker, Suspender} \cap User = {}
  /\ NoThread \notin Thread
  /\ MaxRequests \in Nat
  /\ {ActiveOnly, BlockOverPending, TimerRaces} \subseteq BOOLEAN

(* The fields of drm_crtc_state and exynos_drm_crtc_state that matter here. *)
CrtcState == [enable : BOOLEAN, active : BOOLEAN, sr : BOOLEAN, hexit : BOOLEAN]
CrtcOff   == [enable |-> FALSE, active |-> FALSE, sr |-> FALSE, hexit |-> FALSE]

DeconState  == {"INIT", "HANDOVER", "ON", "HIBERNATION", "OFF"}
ActiveState == {"INACTIVE", "ACTIVE", "SELF_REFRESH"}

UserKinds == {"flip", "on", "off"} \cup (IF ActiveOnly THEN {"dpms"} ELSE {})
Kinds     == {"none", "enter", "exit", "flip", "on", "off", "dpms"}

TailPcs == {"tDisable", "tDown", "tState", "tDownEnd", "tEnable", "tFlush",
            "tFlip", "tEnd", "tUnblock", "tRearm"}
Pcs == {"idle", "lock", "swap", "tBlock"} \cup TailPcs
       \cup {"hLock", "hCheck", "hDone"}                       \* handler, _run
       \cup {"xBlock", "xCancel", "xWait", "xUnblock", "xRearm"}  \* block_exit
       \cup {"sCancel", "sWait", "sFlush", "sCheck", "sDone"}  \* suspend
       \cup {"holdsVblank"}

VARIABLES
  \* software state
  crtc,      \* crtc->state
  lock,      \* holder of the modeset lock
  tail,      \* the last swapped commit, until and after its hw_done
  \* hibernation
  blockCnt,  \* block_cnt
  enabled,   \* enabled
  mutex,     \* holder of hibernation->lock
  dwork,     \* "idle" or "timer"; a queued dwork is in queue
  canceling, \* dwork.work.canceling
  queue,     \* work items of decon->worker: "dwork", "commit"
  camera,    \* is the camera operating (or DQE dimming in progress)?
  \* DECON
  decon,     \* decon->state
  pm,        \* runtime-PM usage count
  powered,   \* runtime-PM status
  active,    \* exynos_crtc->active_state
  vblank,    \* vblank interrupt: on, references, enabled
  event,     \* is decon->event armed?
  \* threads
  pc, back, kind, nonblock, new, held, vote, op, result,
  requests   \* requests made so far

swVars    == <<crtc, lock, tail>>
hibVars   == <<blockCnt, enabled, mutex, dwork, canceling, queue, camera>>
deconVars == <<decon, pm, powered, active, vblank, event>>
thVars    == <<pc, back, kind, nonblock, new, held, vote, op, result, requests>>
vars      == <<swVars, hibVars, deconVars, thVars>>

Commit == [live : BOOLEAN, flip : BOOLEAN, mode : BOOLEAN, old : CrtcState, new : CrtcState]

TypeOK ==
  /\ crtc \in CrtcState
  /\ lock \in Thread \cup {NoThread}
  /\ tail \in Commit
  /\ blockCnt \in Nat
  /\ enabled \in BOOLEAN
  /\ mutex \in Thread \cup {NoThread}
  /\ dwork \in {"idle", "timer"}
  /\ canceling \in Nat
  /\ queue \in Seq({"dwork", "commit"})
  /\ camera \in BOOLEAN
  /\ decon \in DeconState
  /\ pm \in Nat
  /\ powered \in BOOLEAN
  /\ active \in ActiveState
  /\ vblank \in [on : BOOLEAN, ref : Nat, enabled : BOOLEAN]
  /\ event \in BOOLEAN
  /\ pc \in [Thread -> Pcs]
  /\ back \in [Thread -> {"idle", "hDone", "xUnblock"}]
  /\ kind \in [Thread -> Kinds]
  /\ nonblock \in [Thread -> BOOLEAN]
  /\ new \in [Thread -> CrtcState]
  /\ held \in [Thread -> BOOLEAN]
  /\ vote \in [Thread -> BOOLEAN]
  /\ op \in [Thread -> {"none", "wakeup", "disable", "enable"}]
  /\ result \in {"none", "ok", "busy", "again"}
  /\ requests \in 0 .. MaxRequests

(* decon_probe leaves INIT with the power down, or HANDOVER with a reference *)
(* held when the boot loader's image is to be taken over.                    *)
Init ==
  /\ crtc = CrtcOff /\ lock = NoThread
  /\ tail = [live |-> FALSE, flip |-> TRUE, mode |-> FALSE, old |-> CrtcOff, new |-> CrtcOff]
  /\ blockCnt = 0 /\ enabled = TRUE /\ mutex = NoThread
  /\ dwork = "idle" /\ canceling = 0 /\ queue = <<>> /\ camera \in BOOLEAN
  /\ \/ decon = "INIT" /\ pm = 0 /\ powered = FALSE
     \/ decon = "HANDOVER" /\ pm = 1 /\ powered = TRUE
  /\ active = "INACTIVE"
  /\ vblank = [on |-> FALSE, ref |-> 0, enabled |-> FALSE]
  /\ event = FALSE
  /\ pc = [t \in Thread |-> "idle"]
  /\ back = [t \in Thread |-> "idle"]
  /\ kind = [t \in Thread |-> "none"]
  /\ nonblock = [t \in Thread |-> FALSE]
  /\ new = [t \in Thread |-> CrtcOff]
  /\ held = [t \in Thread |-> FALSE]
  /\ vote = [t \in Thread |-> FALSE]
  /\ op = [t \in Thread |-> "none"]
  /\ result = "none"
  /\ requests = 0

-----------------------------------------------------------------------------
Goto(t, from, to) == pc[t] = from /\ pc' = [pc EXCEPT ![t] = to]

EffectivelyActive(s) == s.active \/ s.sr

(* The worker runs commits inline never, so it is in the commit procedure    *)
(* only for the handler.                                                     *)
InHandler == pc[Worker] \in {"hLock", "hCheck", "lock", "swap", "hDone"}

(* The queue without the hibernation work. *)
Unqueued == RemoveFirst(queue, "dwork")

(* kthread_mod_delayed_work: restart the timer, taking the work off the      *)
(* queue if it waits there; nothing while somebody cancels it.               *)
ModDelayed ==
  IF canceling > 0 THEN UNCHANGED <<dwork, queue>>
  ELSE dwork' = "timer" /\ queue' = Unqueued

(* hibernation_block: count and push the hibernation work out. *)
Block == blockCnt' = blockCnt + 1 /\ ModDelayed

IsBlocked(cnt) == ~enabled \/ cnt > 0 \/ decon # "ON"

(* The rear half of hibernation_unblock_enter. *)
Rearm(cnt) == IF IsBlocked(cnt) THEN UNCHANGED <<dwork, queue>> ELSE ModDelayed

(* hibernation_block, hibernation_unblock_enter around an atomic check or a  *)
(* queued commit of an active CRTC.                                          *)
Toggle(isActive) == IF isActive THEN ModDelayed ELSE UNCHANGED <<dwork, queue>>

(* drm_crtc_vblank_get: enabling the interrupt blocks hibernation. *)
VblankGet ==
  /\ vblank' = [vblank EXCEPT !.ref = @ + 1, !.enabled = TRUE]
  /\ IF vblank.enabled THEN UNCHANGED <<blockCnt, dwork, queue>> ELSE Block

VblankPut == vblank' = [vblank EXCEPT !.ref = @ - 1]

-----------------------------------------------------------------------------
(* Commits: check, swap, queue (exynos_atomic_commit) *)

Duplicated == [crtc EXCEPT !.active = EffectivelyActive(crtc), !.sr = FALSE, !.hexit = FALSE]

Wanted(k) ==
  CASE k = "enter" -> [Duplicated EXCEPT !.active = FALSE, !.sr = TRUE]
    [] k = "exit"  -> [Duplicated EXCEPT !.active = TRUE, !.hexit = TRUE]
    [] k \in {"flip", "on"} -> [Duplicated EXCEPT !.enable = TRUE, !.active = TRUE]
    [] k = "off"   -> CrtcOff
    [] k = "dpms"  -> [Duplicated EXCEPT !.active = FALSE]

(* exynos_crtc_self_refresh_update skips a disabled CRTC and one that is in  *)
(* the desired state; the user does not flip a disabled CRTC.                *)
Refused(k) ==
  \/ k # "on" /\ ~crtc.enable
  \/ k = "enter" /\ ~crtc.active
  \/ k = "exit" /\ crtc.active

Stall(t) == ~nonblock[t] \/ crtc.sr \/ crtc.hexit

(* Mutant: nonblocking commits never fail. *)
BusyNever(t) == FALSE

(* drm_atomic_helper_setup_commit: -EBUSY unless the last frame is on. *)
Busy(t) == ~Stall(t) /\ tail.live /\ ~tail.flip

Leave(t) == pc' = [pc EXCEPT ![t] = back[t]]

CommitRefused(t) ==
  /\ pc[t] = "lock" /\ lock = NoThread
  /\ Refused(kind[t])
  /\ Leave(t)
  /\ UNCHANGED <<swVars, hibVars, deconVars, back, kind, nonblock, new, held, vote, op, result, requests>>

CommitBusy(t) ==
  /\ pc[t] = "lock" /\ lock = NoThread
  /\ ~Refused(kind[t]) /\ Busy(t)
  /\ Toggle(Wanted(kind[t]).active)
  /\ Leave(t)
  /\ UNCHANGED <<swVars, blockCnt, enabled, mutex, canceling, camera, deconVars,
                 back, kind, nonblock, new, held, vote, op, result, requests>>

CommitCheck(t) ==
  /\ lock = NoThread
  /\ ~Refused(kind[t]) /\ ~Busy(t)
  /\ (t \in User /\ ~nonblock[t] /\ ~BlockOverPending) => ~tail.live
  /\ Goto(t, "lock", "swap")
  /\ lock' = t
  /\ new' = [new EXCEPT ![t] = Wanted(kind[t])]
  /\ Toggle(Wanted(kind[t]).active)
  /\ UNCHANGED <<crtc, tail, blockCnt, enabled, mutex, canceling, camera, deconVars,
                 back, kind, nonblock, held, vote, op, result, requests>>

(* drm_atomic_helper_swap_state waits, with the modeset lock held, for the   *)
(* hw_done of the last commit.                                               *)
SwapState(t) ==
  /\ ~tail.live
  /\ crtc' = new[t]
  /\ tail' = [live |-> TRUE, flip |-> ~crtc.active /\ ~new[t].active,
              mode |-> crtc.enable # new[t].enable \/ kind[t] = "on",
              old |-> crtc, new |-> new[t]]

CommitInline(t) ==
  /\ ~nonblock[t]
  /\ Goto(t, "swap", "tBlock")
  /\ SwapState(t)
  /\ UNCHANGED <<lock, hibVars, deconVars, back, kind, nonblock, new, held, vote, op, result, requests>>

(* exynos_atomic_queue_work *)
CommitQueue(t) ==
  /\ nonblock[t]
  /\ Goto(t, "swap", back[t])
  /\ SwapState(t)
  /\ lock' = NoThread
  /\ IF crtc.active /\ canceling = 0
     THEN /\ dwork' = "timer"
          /\ queue' = Append(Unqueued, "commit")
     ELSE queue' = Append(queue, "commit") /\ UNCHANGED dwork
  /\ UNCHANGED <<blockCnt, enabled, mutex, canceling, camera, deconVars,
                 back, kind, nonblock, new, held, vote, op, result, requests>>

-----------------------------------------------------------------------------
(* The commit tail, run by the worker or inline *)

TailUnchanged == UNCHANGED <<crtc, enabled, mutex, canceling, camera,
                             back, kind, nonblock, new, op, result, requests>>

NeedsModeset == tail.mode \/ tail.old.active # tail.new.active

(* Mutant: a mode change in self refresh does not disable. *)
NeedsDisableNotForMode ==
  \/ tail.old.active
  \/ tail.old.sr /\ ~tail.new.enable
  \/ tail.new.sr

(* exynos_crtc_needs_disable, after exynos_disable_outputs has made a mode   *)
(* change out of self refresh look like one of an active CRTC.               *)
NeedsDisable ==
  \/ tail.old.active
  \/ tail.old.sr /\ (tail.mode \/ ~tail.new.enable)
  \/ tail.new.sr

TailBlock(t) ==
  /\ Goto(t, "tBlock", "tDisable")
  /\ IF tail.old.active \/ tail.new.active
     THEN Block /\ held' = [held EXCEPT ![t] = TRUE]
     ELSE UNCHANGED <<blockCnt, dwork, queue, held>>
  /\ UNCHANGED <<lock, tail, deconVars, vote>> /\ TailUnchanged

TailNoDisable(t) ==
  /\ Goto(t, "tDisable", "tEnable")
  /\ ~(NeedsModeset /\ NeedsDisable)
  /\ UNCHANGED <<lock, tail, blockCnt, dwork, queue, deconVars, held, vote>> /\ TailUnchanged

(* exynos_disable_outputs keeps a runtime-PM vote while it disables. *)
TailDisable(t) ==
  /\ Goto(t, "tDisable", "tDown")
  /\ NeedsModeset /\ NeedsDisable
  /\ IF EffectivelyActive(tail.old) /\ ~tail.new.active
     THEN pm' = pm + 1 /\ powered' = TRUE /\ vote' = [vote EXCEPT ![t] = TRUE]
     ELSE UNCHANGED <<pm, powered, vote>>
  /\ UNCHANGED <<lock, tail, blockCnt, dwork, queue, decon, active, vblank, event, held>>
  /\ TailUnchanged

ActiveTarget == IF tail.new.sr THEN "SELF_REFRESH" ELSE "INACTIVE"

(* exynos_drm_crtc_atomic_disable and decon_disable up to the state change:  *)
(* stopping a running DECON drops its reference.                             *)
DeconStop(t) ==
  /\ active # ActiveTarget /\ decon = "ON"
  /\ Goto(t, "tDown", "tState")
  /\ pm' = pm - 1
  /\ UNCHANGED <<lock, tail, blockCnt, dwork, queue, decon, powered, active, vblank, event, held, vote>>
  /\ TailUnchanged

DeconStopped(t) ==
  /\ Goto(t, "tState", "tDownEnd")
  /\ decon' = IF tail.new.sr THEN "HIBERNATION" ELSE "OFF"
  /\ UNCHANGED <<lock, tail, blockCnt, dwork, queue, pm, powered, active, vblank, event, held, vote>>
  /\ TailUnchanged

(* A DECON that is not running only changes state, and only towards OFF. *)
DeconAlreadyStopped(t) ==
  /\ active # ActiveTarget /\ decon # "ON"
  /\ Goto(t, "tDown", "tDownEnd")
  /\ decon' = IF tail.new.sr THEN decon ELSE "OFF"
  /\ UNCHANGED <<lock, tail, blockCnt, dwork, queue, pm, powered, active, vblank, event, held, vote>>
  /\ TailUnchanged

(* drm_crtc_vblank_off disables the interrupt, which unblocks hibernation. *)
CrtcDown(t) ==
  /\ Goto(t, "tDownEnd", "tEnable")
  /\ active' = ActiveTarget
  /\ IF ActiveTarget = "INACTIVE"
     THEN /\ vblank' = [vblank EXCEPT !.on = FALSE, !.enabled = FALSE]
          /\ IF vblank.enabled
             THEN blockCnt' = blockCnt - 1 /\ Rearm(blockCnt - 1)
             ELSE UNCHANGED <<blockCnt, dwork, queue>>
     ELSE UNCHANGED <<vblank, blockCnt, dwork, queue>>
  /\ UNCHANGED <<lock, tail, decon, pm, powered, event, held, vote>> /\ TailUnchanged

(* Mutant: leaving self refresh does not enable. *)
WillEnableOnlyInactive == NeedsModeset /\ tail.new.active /\ active = "INACTIVE"

WillEnable == NeedsModeset /\ tail.new.active /\ active # "ACTIVE"

TailNoEnable(t) ==
  /\ Goto(t, "tEnable", "tFlush")
  /\ ~WillEnable
  /\ UNCHANGED <<lock, tail, blockCnt, dwork, queue, deconVars, held, vote>> /\ TailUnchanged

(* exynos_drm_crtc_atomic_enable and decon_enable; the reference that probe  *)
(* took for a handover is dropped.                                           *)
TailEnable(t) ==
  /\ Goto(t, "tEnable", "tFlush")
  /\ WillEnable
  /\ active' = "ACTIVE"
  /\ IF decon = "ON" THEN UNCHANGED <<decon, pm, powered>>
     ELSE /\ decon' = "ON" /\ powered' = TRUE
          /\ pm' = IF decon = "HANDOVER" THEN pm ELSE pm + 1
  /\ IF active = "INACTIVE"
     THEN /\ vblank' = [vblank EXCEPT !.on = TRUE, !.enabled = (vblank.ref > 0)]
          /\ IF vblank.ref > 0 THEN Block ELSE UNCHANGED <<blockCnt, dwork, queue>>
     ELSE UNCHANGED <<vblank, blockCnt, dwork, queue>>
  /\ UNCHANGED <<lock, tail, event, held, vote>> /\ TailUnchanged

(* decon_atomic_flush arms the completion event of an active CRTC; leaving   *)
(* hibernation, or a CRTC that is not active, completes at once.             *)
TailFlush(t) ==
  /\ Goto(t, "tFlush", "tFlip")
  /\ IF tail.new.active /\ ~tail.new.hexit
     THEN /\ event' = TRUE /\ VblankGet
          /\ UNCHANGED tail
     ELSE /\ tail' = [tail EXCEPT !.flip = TRUE]
          /\ UNCHANGED <<event, vblank, blockCnt, dwork, queue>>
  /\ UNCHANGED <<lock, decon, pm, powered, active, held, vote>> /\ TailUnchanged

TailFlipDone(t) ==
  /\ tail.flip
  /\ Goto(t, "tFlip", "tEnd")
  /\ UNCHANGED <<lock, tail, blockCnt, dwork, queue, deconVars, held, vote>> /\ TailUnchanged

(* Mutant: the vote is not given back. *)
TailHwDoneKeepsVote(t) ==
  /\ Goto(t, "tEnd", "tUnblock")
  /\ vote' = [vote EXCEPT ![t] = FALSE]
  /\ tail' = [tail EXCEPT !.live = FALSE]
  /\ UNCHANGED <<lock, blockCnt, dwork, queue, deconVars, held>>
  /\ TailUnchanged

TailHwDone(t) ==
  /\ Goto(t, "tEnd", "tUnblock")
  /\ pm' = IF vote[t] THEN pm - 1 ELSE pm
  /\ vote' = [vote EXCEPT ![t] = FALSE]
  /\ tail' = [tail EXCEPT !.live = FALSE]
  /\ UNCHANGED <<lock, blockCnt, dwork, queue, decon, powered, active, vblank, event, held>>
  /\ TailUnchanged

(* Mutant: unblocks though the CRTC was and is not active. *)
TailUnblockAlways(t) ==
  /\ Goto(t, "tUnblock", "tRearm")
  /\ blockCnt' = blockCnt - 1
  /\ UNCHANGED <<lock, tail, dwork, queue, deconVars, held, vote>> /\ TailUnchanged

TailUnblock(t) ==
  /\ Goto(t, "tUnblock", "tRearm")
  /\ blockCnt' = IF held[t] THEN blockCnt - 1 ELSE blockCnt
  /\ UNCHANGED <<lock, tail, dwork, queue, deconVars, held, vote>> /\ TailUnchanged

TailRearm(t) ==
  /\ pc[t] = "tRearm"
  /\ IF held[t] THEN Rearm(blockCnt) ELSE UNCHANGED <<dwork, queue>>
  /\ held' = [held EXCEPT ![t] = FALSE]
  /\ lock' = IF lock = t THEN NoThread ELSE lock
  /\ Leave(t)
  /\ UNCHANGED <<tail, blockCnt, deconVars, vote>> /\ TailUnchanged

-----------------------------------------------------------------------------
(* Interrupts and vblank references *)

(* The frame's event goes out at a frame start, or when wait_for_flip_done   *)
(* times out, and drops its vblank reference.                                *)
SendEvent ==
  /\ event
  /\ event' = FALSE
  /\ tail' = [tail EXCEPT !.flip = TRUE]
  /\ VblankPut
  /\ UNCHANGED <<crtc, lock, hibVars, decon, pm, powered, active, thVars>>

(* The DRM core disables an unreferenced vblank interrupt after a while. *)
VblankOff ==
  /\ vblank.enabled /\ vblank.ref = 0
  /\ vblank' = [vblank EXCEPT !.enabled = FALSE]
  /\ blockCnt' = blockCnt - 1
  /\ Rearm(blockCnt - 1)
  /\ UNCHANGED <<swVars, enabled, mutex, canceling, camera,
                 decon, pm, powered, active, event, thVars>>

-----------------------------------------------------------------------------
(* The worker and the hibernation work *)

TimerFires ==
  /\ dwork = "timer"
  /\ TimerRaces \/ ~(InHandler \/ pc[Suspender] \in {"sCheck", "hLock", "hCheck", "lock", "swap"})
  /\ dwork' = "idle"
  /\ queue' = Append(queue, "dwork")
  /\ UNCHANGED <<swVars, blockCnt, enabled, mutex, canceling, camera, deconVars, thVars>>

WorkerTakes(item, to) ==
  /\ queue # <<>> /\ Head(queue) = item
  /\ Goto(Worker, "idle", to)
  /\ queue' = Tail(queue)
  /\ back' = [back EXCEPT ![Worker] = "idle"]
  /\ UNCHANGED <<swVars, blockCnt, enabled, mutex, dwork, canceling, camera, deconVars,
                 kind, nonblock, new, held, vote, op, result, requests>>

WorkerTakesHibernation == WorkerTakes("dwork", "hLock")
WorkerTakesCommit      == WorkerTakes("commit", "tBlock")

(* _exynos_hibernation_run, by the handler or the suspend callback *)
RunLock(t) ==
  /\ mutex = NoThread
  /\ Goto(t, "hLock", "hCheck")
  /\ mutex' = t
  /\ UNCHANGED <<swVars, blockCnt, enabled, dwork, canceling, queue, camera, deconVars,
                 back, kind, nonblock, new, held, vote, op, result, requests>>

RunEnds(t, from, outcome) ==
  /\ Goto(t, from, IF t = Worker THEN "idle" ELSE "sDone")
  /\ mutex' = NoThread
  /\ result' = IF t = Worker THEN result ELSE outcome
  /\ UNCHANGED <<swVars, enabled, canceling, camera, deconVars,
                 back, kind, nonblock, new, held, vote, op, requests>>

(* Mutant: returns without unlocking the mutex. *)
RunBlockedKeepsMutex(t) ==
  /\ IsBlocked(blockCnt)
  /\ Goto(t, "hCheck", IF t = Worker THEN "idle" ELSE "sDone")
  /\ result' = IF t = Worker THEN result ELSE IF decon = "ON" THEN "busy" ELSE "ok"
  /\ UNCHANGED <<swVars, hibVars, deconVars, back, kind, nonblock, new, held, vote, op, requests>>

RunBlocked(t) ==
  /\ IsBlocked(blockCnt)
  /\ RunEnds(t, "hCheck", IF decon = "ON" THEN "busy" ELSE "ok")
  /\ UNCHANGED <<blockCnt, dwork, queue>>

(* Mutant: the handler does not try again. *)
RunAgainNever(t) ==
  /\ ~IsBlocked(blockCnt) /\ camera
  /\ RunEnds(t, "hCheck", "again")
  /\ UNCHANGED <<blockCnt, dwork, queue>>

(* Only the handler turns -EAGAIN into another try. *)
RunAgain(t) ==
  /\ ~IsBlocked(blockCnt) /\ camera
  /\ RunEnds(t, "hCheck", "again")
  /\ IF t = Worker THEN ModDelayed ELSE UNCHANGED <<dwork, queue>>
  /\ UNCHANGED blockCnt

(* Start the commit procedure; it continues at bk. *)
Submit(t, from, k, nb, bk) ==
  /\ Goto(t, from, "lock")
  /\ kind' = [kind EXCEPT ![t] = k]
  /\ nonblock' = [nonblock EXCEPT ![t] = nb]
  /\ back' = [back EXCEPT ![t] = bk]

RunEnter(t) ==
  /\ ~IsBlocked(blockCnt) /\ ~camera
  /\ Block
  /\ Submit(t, "hCheck", "enter", t = Worker, "hDone")
  /\ UNCHANGED <<swVars, enabled, mutex, canceling, camera, deconVars,
                 new, held, vote, op, result, requests>>

(* Mutant: the entry does not unblock. *)
RunDoneBlocked(t) ==
  /\ RunEnds(t, "hDone", "ok")
  /\ UNCHANGED <<blockCnt, dwork, queue>>

RunDone(t) ==
  /\ RunEnds(t, "hDone", "ok")
  /\ blockCnt' = blockCnt - 1
  /\ UNCHANGED <<dwork, queue>>

-----------------------------------------------------------------------------
(* Requests of user threads; they are frozen while the system suspends. *)

Requesting(t) ==
  /\ pc[t] = "idle" /\ pc[Suspender] = "idle"
  /\ requests < MaxRequests
  /\ requests' = requests + 1

UserCommit(t, k, nb) ==
  /\ Requesting(t)
  /\ k # "on" => crtc.enable
  /\ k # "flip" => ~nb
  /\ Submit(t, "idle", k, nb, "idle")
  /\ UNCHANGED <<swVars, hibVars, deconVars, new, held, vote, op, result>>

DeconEffectivelyActive == decon \in {"ON", "HIBERNATION"}

(* drm_crtc_vblank_get for a vblank event; decon_enable_vblank refuses when  *)
(* DECON is off.                                                             *)
UserGetsVblank(t) ==
  /\ Requesting(t)
  /\ vblank.on /\ (vblank.enabled \/ DeconEffectivelyActive)
  /\ VblankGet
  /\ Goto(t, "idle", "holdsVblank")
  /\ UNCHANGED <<swVars, enabled, mutex, canceling, camera, decon, pm, powered, active, event,
                 back, kind, nonblock, new, held, vote, op, result>>

UserPutsVblank(t) ==
  /\ Goto(t, "holdsVblank", "idle")
  /\ VblankPut
  /\ UNCHANGED <<swVars, hibVars, decon, pm, powered, active, event,
                 back, kind, nonblock, new, held, vote, op, result, requests>>

(* early_wakeup_store (async_exit), hibernation_store with 0 *)
UserExits(t, o) ==
  /\ Requesting(t)
  /\ o \in {"wakeup", "disable"}
  /\ Goto(t, "idle", "xBlock")
  /\ op' = [op EXCEPT ![t] = o]
  /\ UNCHANGED <<swVars, hibVars, deconVars, back, kind, nonblock, new, held, vote, result>>

(* hibernation_store with 1 *)
UserEnables(t) ==
  /\ Requesting(t)
  /\ Goto(t, "idle", "xUnblock")
  /\ enabled' = TRUE
  /\ Block
  /\ op' = [op EXCEPT ![t] = "enable"]
  /\ UNCHANGED <<swVars, mutex, canceling, camera, deconVars,
                 back, kind, nonblock, new, held, vote, result>>

-----------------------------------------------------------------------------
(* _hibernation_block_exit, then hibernation_unblock_enter *)

ExitUnchanged == UNCHANGED <<swVars, mutex, camera, deconVars, new, held, vote, op, result, requests>>

(* hibernation_block; nothing to cancel when hibernation is disabled *)
ExitBlocks(t) ==
  /\ Goto(t, "xBlock", IF enabled THEN "xCancel" ELSE "xUnblock")
  /\ Block
  /\ UNCHANGED <<enabled, canceling, back, kind, nonblock>> /\ ExitUnchanged

(* kthread_cancel_delayed_work_sync: nothing is left pending, and a running  *)
(* handler is waited for.                                                    *)
CancelWork ==
  /\ dwork' = "idle"
  /\ queue' = Unqueued
  /\ canceling' = canceling + 1

ExitCancels(t) ==
  /\ Goto(t, "xCancel", "xWait")
  /\ blockCnt' = blockCnt + 1
  /\ CancelWork
  /\ UNCHANGED <<enabled, back, kind, nonblock>> /\ ExitUnchanged

(* The inner hold goes; a DECON in hibernation is told to leave it. *)
ExitCancelled(t) ==
  /\ pc[t] = "xWait" /\ ~InHandler
  /\ canceling' = canceling - 1
  /\ blockCnt' = blockCnt - 1
  /\ IF decon = "HIBERNATION"
     THEN Submit(t, "xWait", "exit", op[t] = "wakeup", "xUnblock")
     ELSE Goto(t, "xWait", "xUnblock") /\ UNCHANGED <<back, kind, nonblock>>
  /\ UNCHANGED <<enabled, dwork, queue>> /\ ExitUnchanged

ExitUnblocks(t) ==
  /\ Goto(t, "xUnblock", "xRearm")
  /\ enabled' = IF op[t] = "disable" THEN FALSE ELSE enabled
  /\ blockCnt' = blockCnt - 1
  /\ UNCHANGED <<dwork, queue, canceling, back, kind, nonblock>> /\ ExitUnchanged

ExitRearms(t) ==
  /\ Goto(t, "xRearm", "idle")
  /\ Rearm(blockCnt)
  /\ op' = [op EXCEPT ![t] = "none"]
  /\ UNCHANGED <<swVars, blockCnt, enabled, mutex, canceling, camera, deconVars,
                 back, kind, nonblock, new, held, vote, result, requests>>

-----------------------------------------------------------------------------
(* System suspend: decon_suspend, exynos_hibernation_suspend *)

SuspendUnchanged == UNCHANGED <<swVars, blockCnt, enabled, mutex, camera, deconVars,
                                back, kind, nonblock, new, held, vote, op>>

SuspendStarts ==
  /\ \A t \in User : pc[t] \in {"idle", "holdsVblank"}
  /\ Requesting(Suspender)
  /\ Goto(Suspender, "idle", "sCancel")
  /\ result' = "none"
  /\ UNCHANGED <<dwork, queue, canceling>> /\ SuspendUnchanged

SuspendCancels ==
  /\ Goto(Suspender, "sCancel", "sWait")
  /\ CancelWork
  /\ UNCHANGED <<result, requests>> /\ SuspendUnchanged

SuspendCancelled ==
  /\ ~InHandler
  /\ Goto(Suspender, "sWait", "sFlush")
  /\ canceling' = canceling - 1
  /\ UNCHANGED <<dwork, queue, result, requests>> /\ SuspendUnchanged

(* Mutant: the worker is not flushed. *)
SuspendUnflushed ==
  /\ Goto(Suspender, "sFlush", "sCheck")
  /\ UNCHANGED <<dwork, queue, canceling, result, requests>> /\ SuspendUnchanged

SuspendFlushed ==
  /\ queue = <<>> /\ pc[Worker] = "idle"
  /\ Goto(Suspender, "sFlush", "sCheck")
  /\ UNCHANGED <<dwork, queue, canceling, result, requests>> /\ SuspendUnchanged

SuspendChecks ==
  /\ IF blockCnt > 0
     THEN Goto(Suspender, "sCheck", "sDone") /\ result' = "busy"
     ELSE Goto(Suspender, "sCheck", "hLock") /\ result' = result
  /\ UNCHANGED <<dwork, queue, canceling, requests>> /\ SuspendUnchanged

(* The system sleeps and resumes, or the suspend is given up. *)
SuspendEnds ==
  /\ Goto(Suspender, "sDone", "idle")
  /\ UNCHANGED <<dwork, queue, canceling, result, requests>> /\ SuspendUnchanged

-----------------------------------------------------------------------------
(* The camera stops operating; runtime PM suspends an unused DECON. *)

CameraStops ==
  /\ camera /\ camera' = FALSE
  /\ UNCHANGED <<swVars, blockCnt, enabled, mutex, dwork, canceling, queue, deconVars, thVars>>

RuntimeSuspend ==
  /\ pm = 0 /\ powered /\ decon \in {"HIBERNATION", "OFF"}
  /\ powered' = FALSE
  /\ UNCHANGED <<swVars, hibVars, decon, pm, active, vblank, event, thVars>>

-----------------------------------------------------------------------------
Tail1(t) ==
  \/ TailBlock(t) \/ TailNoDisable(t) \/ TailDisable(t)
  \/ DeconStop(t) \/ DeconStopped(t) \/ DeconAlreadyStopped(t)
  \/ CrtcDown(t) \/ TailNoEnable(t) \/ TailEnable(t)
  \/ TailFlush(t) \/ TailFlipDone(t) \/ TailHwDone(t) \/ TailUnblock(t) \/ TailRearm(t)

CommitSteps(t) ==
  CommitRefused(t) \/ CommitBusy(t) \/ CommitCheck(t) \/ CommitInline(t) \/ CommitQueue(t)

RunSteps(t) == RunLock(t) \/ RunBlocked(t) \/ RunAgain(t) \/ RunEnter(t) \/ RunDone(t)

ExitSteps(t) ==
  \/ ExitBlocks(t) \/ ExitCancels(t) \/ ExitCancelled(t) \/ ExitUnblocks(t) \/ ExitRearms(t)

SuspendSteps == SuspendCancels \/ SuspendCancelled \/ SuspendFlushed \/ SuspendChecks \/ SuspendEnds

(* What goes on by itself once started *)
Progress(t) ==
  \/ CommitSteps(t) \/ Tail1(t)
  \/ t \in {Worker, Suspender} /\ RunSteps(t)
  \/ t = Worker /\ (WorkerTakesHibernation \/ WorkerTakesCommit)
  \/ t = Suspender /\ SuspendSteps
  \/ t \in User /\ (ExitSteps(t) \/ UserPutsVblank(t))

Request ==
  \/ \E t \in User, k \in UserKinds, nb \in BOOLEAN : UserCommit(t, k, nb)
  \/ \E t \in User : UserGetsVblank(t) \/ UserEnables(t)
  \/ \E t \in User, o \in {"wakeup", "disable"} : UserExits(t, o)
  \/ SuspendStarts

Next ==
  \/ \E t \in Thread : Progress(t)
  \/ Request
  \/ SendEvent \/ VblankOff \/ TimerFires \/ CameraStops \/ RuntimeSuspend

Spec == Init /\ [][Next]_vars

(* Every thread runs, timers expire, interrupts and timeouts arrive, and the *)
(* camera is not used for ever.                                              *)
Fairness ==
  /\ \A t \in Thread : WF_vars(Progress(t))
  /\ WF_vars(SendEvent) /\ WF_vars(VblankOff) /\ WF_vars(TimerFires)
  /\ WF_vars(CameraStops) /\ WF_vars(RuntimeSuspend)

FairSpec == Spec /\ Fairness

-----------------------------------------------------------------------------
(* What a thread holds hibernation blocked for: it is inside block_exit, it   *)
(* cancels the work there, it runs the entry, or it runs a commit tail.      *)
Reasons     == {"exit", "cancel", "entry", "tail"}
InCommit(t) == pc[t] \in {"lock", "swap", "tBlock"} \cup TailPcs

Holds(t, r) ==
  CASE r = "exit"   -> pc[t] \in {"xCancel", "xWait", "xUnblock"} \/ (InCommit(t) /\ back[t] = "xUnblock")
    [] r = "cancel" -> pc[t] = "xWait"
    [] r = "entry"  -> pc[t] = "hDone" \/ (InCommit(t) /\ back[t] = "hDone")
    [] r = "tail"   -> held[t] /\ pc[t] # "tRearm"

Holders == {h \in Thread \X Reasons : Holds(h[1], h[2])}

(* block_cnt is the number of holders there are, and one for the enabled     *)
(* vblank interrupt.  It never leaks a count, which would keep the display   *)
(* on for ever, nor drops one twice.                                         *)
BlockCountExact == blockCnt = Cardinality(Holders) + (IF vblank.enabled THEN 1 ELSE 0)

(* A frame is only sent to a DECON that runs and has power. *)
FrameHitsRunningDecon ==
  \A t \in Thread :
    pc[t] \in {"tFlush", "tFlip"} /\ tail.new.active => decon = "ON" /\ powered /\ pm > 0

(* Once a commit has reached the hardware, DECON and runtime PM are where    *)
(* the CRTC's state says.                                                    *)
StateAgrees ==
  ~tail.live =>
    /\ crtc.active <=> decon = "ON"
    /\ crtc.sr <=> decon = "HIBERNATION"
    /\ pm = IF decon \in {"ON", "HANDOVER"} THEN 1 ELSE 0

(* DECON leaves hibernation only for a commit that follows a self refresh    *)
(* (WARN_ON in decon_enable).                                                *)
ResumeFromSelfRefreshOnly ==
  \A t \in Thread :
    pc[t] = "tEnable" /\ WillEnable /\ decon = "HIBERNATION" => tail.old.sr /\ ~tail.mode

(* Whoever switches it, DECON is in the state its CRTC says and no frame is  *)
(* sent to it in another.                                                    *)
DeconSound == TypeOK /\ FrameHitsRunningDecon /\ StateAgrees /\ ResumeFromSelfRefreshOnly

(* A suspend that reports success has left no display running.               *)
SuspendPowersDown ==
  pc[Suspender] = "sDone" /\ result = "ok" => decon # "ON"

(* A queued commit never stalls for good behind the other work of its DECON's*)
(* worker: the hibernation handler does not wait for the modeset lock of a   *)
(* thread that, swapping its state, waits for a commit queued behind the     *)
(* handler.  A blocking commit over a pending frame makes it do so.          *)
NoCircularWait ==
  ~ /\ pc[Worker] = "lock" /\ lock # NoThread
    /\ pc[lock] = "swap" /\ tail.live /\ "commit" \in ToSet(queue)

(* A display left alone goes to hibernation, unless a system suspend was     *)
(* given up because the camera operates (or DQE dims).                       *)
IdleDisplayHibernates == <>[](enabled /\ result # "again" => decon # "ON")

(* Every request ends. *)
RequestsEnd == []<>(\A t \in User \cup {Suspender} : pc[t] = "idle")
=============================================================================
