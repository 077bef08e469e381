------------------------------ MODULE LocalHbm ------------------------------
(* Local high brightness (LHBM) of a panel: the request of user space, the   *)
(* state the driver reports, its time limit and the work that reports it     *)
(* effective (panel/panel-samsung-drv.c).                                    *)
(*                                                                           *)
(* Four threads change it under mode_lock: the commit tail, which also       *)
(* forces LHBM off before the panel is switched off or to low power, a       *)
(* sysfs write, the timeout work and the post work.  With a post work the    *)
(* thread that disables LHBM drops mode_lock in the middle, to wait for that *)
(* work; every other section under the lock is one step.  Left out: global   *)
(* HBM, whose sections never drop the lock, and full modesets, which leave   *)
(* LHBM as it is.                                                            *)
EXTENDS Integers

CONSTANTS
  LhbmCommits,  \* commits that change the panel or ask for LHBM
  LhbmStores,   \* writes to local_hbm_mode
  LhbmRaces     \* which of LhbmRaceNames may happen

LhbmRaceNames ==
  {"reenable",       \* LHBM is asked for while a thread that disables it waits
   "double_disable", \* a second thread disables LHBM meanwhile
   "store_check",    \* the panel leaves NORMAL between a write's check and its lock
   "stale_request"}  \* a recovery with LHBM off and a request that was never taken back

ASSUME LhbmBoundsAssumption == LhbmCommits \in Nat /\ LhbmStores \in Nat
ASSUME LhbmRacesAssumption == LhbmRaces \subseteq LhbmRaceNames

Threads   == {"commit", "store", "timeout"}
States    == {"DISABLED", "ENABLING", "ENABLED"}
LhbmModes == {"peak", "low", "lp"}
(* What a thread that switches LHBM off does next under the lock. *)
Nexts     == {"return", "off", "lp", "recover"}

VARIABLES
  lhbmState,   \* ctx->panel_state, as far as LHBM tells apart: OFF, NORMAL, LP
  lhbmMode,    \* ctx->current_mode: peak refresh rate, a lower one, low power
  requested,   \* local_hbm.requested_state is not LOCAL_HBM_DISABLED
  effective,   \* local_hbm.effective_state
  armed,       \* timeout_work is pending
  queued,      \* post_work is queued
  post,        \* where post_work is
  postEnable,  \* is_local_hbm_post_enabling_supported
  pc,          \* where the threads are
  then,        \* what a thread does when LHBM is off
  stored,      \* the value a sysfs write has to set
  before,      \* history: LHBM was on when the recovery began, or asked for since
  lhbmUsed     \* commits and writes so far

panel    == <<lhbmState, lhbmMode>>
lhbm     == <<requested, effective, armed, queued, post>>
lhbmVars == <<panel, lhbm, postEnable, pc, then, stored, before, lhbmUsed>>

LhbmTypeOK ==
  /\ lhbmState \in {"OFF", "NORMAL", "LP"} /\ lhbmMode \in LhbmModes
  /\ requested \in BOOLEAN /\ effective \in States /\ armed \in BOOLEAN
  /\ queued \in BOOLEAN /\ post \in {"idle", "cmd", "notify", "lastCmd", "lastNotify"}
  /\ postEnable \in BOOLEAN
  /\ pc \in [Threads -> {"idle", "checked", "start", "cancel", "wait", "relock", "dark", "relight"}]
  /\ then \in [Threads -> Nexts]
  /\ stored \in BOOLEAN /\ before \in BOOLEAN
  /\ lhbmUsed \in [commits : 0 .. LhbmCommits, stores : 0 .. LhbmStores]
  /\ postEnable \/ (~queued /\ post = "idle" /\ effective # "ENABLING")

LhbmActive   == lhbmState \in {"NORMAL", "LP"}
Disabled     == effective = "DISABLED"
Disabling(t) == pc[t] \in {"cancel", "wait", "relock"}
Canceling    == post # "idle" /\ \E t \in Threads : pc[t] = "wait"

LhbmInit ==
  /\ lhbmState = "NORMAL" /\ lhbmMode = "peak"
  /\ requested = FALSE /\ effective = "DISABLED" /\ armed = FALSE
  /\ queued = FALSE /\ post = "idle" /\ postEnable \in BOOLEAN
  /\ pc = [t \in Threads |-> "idle"] /\ then = [t \in Threads |-> "return"]
  /\ stored = FALSE /\ before = FALSE
  /\ lhbmUsed = [commits |-> 0, stores |-> 0]

-----------------------------------------------------------------------------
(* panel_update_local_hbm_locked and panel_update_local_hbm_notimeout_locked *)
SetEffective(on) ==
  effective' = IF ~on THEN "DISABLED" ELSE IF postEnable THEN "ENABLING" ELSE "ENABLED"

(* Mutant: queued for panels without a post work, too. *)
QueuePostAlways == queued' = (queued \/ ~Canceling)

(* A work that is being cancelled cannot be queued. *)
QueuePost == queued' = (postEnable /\ (queued \/ ~Canceling))

(* Mutant: only asking again starts the time limit. *)
CarryOutUnlimited ==
  IF Disabled /\ lhbmMode # "peak" THEN UNCHANGED <<effective, armed, queued>>
  ELSE IF Disabled THEN SetEffective(TRUE) /\ QueuePost /\ UNCHANGED armed
  ELSE armed' = TRUE /\ UNCHANGED <<effective, queued>>

(* LHBM can only be switched on at the peak refresh rate; asking again       *)
(* starts the time limit again.                                              *)
CarryOut ==
  IF Disabled /\ lhbmMode # "peak" THEN UNCHANGED <<effective, armed, queued>>
  ELSE /\ armed' = TRUE
       /\ IF Disabled THEN SetEffective(TRUE) /\ QueuePost ELSE UNCHANGED <<effective, queued>>

AskOn ==
  /\ "reenable" \in LhbmRaces \/ \A t \in Threads : ~Disabling(t)
  /\ requested' = TRUE /\ before' = TRUE
  /\ CarryOut
  /\ UNCHANGED <<panel, post>>

(* What the thread does with the lock still held: the request is restored    *)
(* for a recovery, and low power is entered.                                 *)
Finish(t, next, req) ==
  /\ requested' = (req \/ next # "return")
  /\ IF next = "lp" THEN lhbmState' = "LP" /\ lhbmMode' = "lp" ELSE UNCHANGED panel
  /\ pc' = [pc EXCEPT ![t] = IF next = "recover" THEN "dark" ELSE "idle"]

(* Switching off, up to the unlock. *)
AskOff(t, next) ==
  /\ "double_disable" \in LhbmRaces \/ \A u \in Threads : ~Disabling(u)
  /\ then' = [then EXCEPT ![t] = next]
  /\ IF ~Disabled /\ postEnable
     THEN /\ requested' = FALSE /\ pc' = [pc EXCEPT ![t] = "cancel"]
          /\ UNCHANGED <<panel, effective>>
     ELSE /\ SetEffective(FALSE)
          /\ Finish(t, next, FALSE)
  /\ UNCHANGED <<queued, post>>

Disarm == armed' = FALSE

(* Without mode_lock, kthread_cancel_work_sync takes the work off its queue  *)
(* and waits for it if it runs.                                              *)
Cancel(t) ==
  /\ pc[t] = "cancel" /\ pc' = [pc EXCEPT ![t] = "wait"]
  /\ queued' = FALSE
  /\ UNCHANGED <<panel, requested, effective, armed, post, postEnable, then, stored, before, lhbmUsed>>

Waited(t) ==
  /\ pc[t] = "wait" /\ post = "idle" /\ pc' = [pc EXCEPT ![t] = "relock"]
  /\ UNCHANGED <<panel, lhbm, postEnable, then, stored, before, lhbmUsed>>

(* With the lock again, whatever is requested by now becomes effective.      *)
Relock(t) ==
  /\ pc[t] = "relock"
  /\ SetEffective(requested)
  /\ Finish(t, then[t], requested)
  /\ UNCHANGED <<armed, queued, post, postEnable, then, stored, before, lhbmUsed>>

-----------------------------------------------------------------------------
(* The commit tail. *)
LhbmCommit ==
  /\ pc["commit"] = "idle" /\ lhbmUsed.commits < LhbmCommits
  /\ lhbmUsed' = [lhbmUsed EXCEPT !.commits = @ + 1]

Settled == "store_check" \in LhbmRaces \/ pc["store"] # "checked"

(* exynos_panel_bridge_disable: the state is OFF before exynos_panel_disable *)
(* takes the lock.  A recovery switches off and on by itself.                *)
LhbmSwitchOff ==
  /\ LhbmCommit /\ LhbmActive /\ Settled
  /\ lhbmState' = "OFF"
  /\ \E next \in {"off", "recover"} :
       /\ next = "recover" => "stale_request" \in LhbmRaces \/ (requested => ~Disabled)
       /\ then' = [then EXCEPT !["commit"] = next]
       /\ before' = (requested /\ ~Disabled)
  /\ pc' = [pc EXCEPT !["commit"] = "start"]
  /\ UNCHANGED <<lhbmMode, lhbm, postEnable, stored>>

LhbmEnterLp ==
  /\ LhbmCommit /\ lhbmState = "NORMAL" /\ Settled
  /\ then' = [then EXCEPT !["commit"] = "lp"]
  /\ pc' = [pc EXCEPT !["commit"] = "start"]
  /\ UNCHANGED <<panel, lhbm, postEnable, stored, before>>

(* Mutant: LHBM stays on. *)
ForceNothing ==
  /\ pc["commit"] = "start"
  /\ IF then["commit"] = "lp" THEN lhbmState' = "LP" /\ lhbmMode' = "lp" ELSE UNCHANGED panel
  /\ pc' = [pc EXCEPT !["commit"] = IF then["commit"] = "recover" THEN "dark" ELSE "idle"]
  /\ UNCHANGED <<lhbm, then, postEnable, stored, before, lhbmUsed>>

(* _exynos_panel_disable_normal_feat_locked *)
ForceOff ==
  /\ pc["commit"] = "start"
  /\ IF Disabled
     THEN /\ IF then["commit"] = "lp" THEN lhbmState' = "LP" /\ lhbmMode' = "lp" ELSE UNCHANGED panel
          /\ pc' = [pc EXCEPT !["commit"] = IF then["commit"] = "recover" THEN "dark" ELSE "idle"]
          /\ UNCHANGED <<lhbm, then>>
     ELSE AskOff("commit", then["commit"]) /\ Disarm
  /\ UNCHANGED <<postEnable, stored, before, lhbmUsed>>

(* The second commit of a recovery; its exynos_panel_connector_atomic_commit *)
(* carries out the request that was restored.                                *)
RecoverOn ==
  /\ pc["commit"] = "dark"
  /\ lhbmState' = IF lhbmMode = "lp" THEN "LP" ELSE "NORMAL"
  /\ pc' = [pc EXCEPT !["commit"] = "relight"]
  /\ UNCHANGED <<lhbmMode, lhbm, postEnable, then, stored, before, lhbmUsed>>

(* Mutant: the restored request is not carried out. *)
RelightNothing ==
  /\ pc["commit"] = "relight"
  /\ pc' = [pc EXCEPT !["commit"] = "idle"]
  /\ UNCHANGED <<panel, lhbm, postEnable, then, stored, before, lhbmUsed>>

Relight ==
  /\ pc["commit"] = "relight"
  /\ IF requested
     THEN /\ "reenable" \in LhbmRaces \/ \A t \in Threads : ~Disabling(t)
          /\ CarryOut
     ELSE UNCHANGED <<effective, armed, queued>>
  /\ pc' = [pc EXCEPT !["commit"] = "idle"]
  /\ UNCHANGED <<panel, requested, post, postEnable, then, stored, before, lhbmUsed>>

(* On, out of low power, and between refresh rates. *)
LhbmSetMode ==
  /\ LhbmCommit
  /\ \E m \in LhbmModes :
       /\ m # lhbmMode \/ lhbmState = "OFF"
       /\ m = "lp" => lhbmState = "OFF"
       /\ lhbmMode' = m /\ lhbmState' = IF m = "lp" THEN "LP" ELSE "NORMAL"
  /\ UNCHANGED <<lhbm, postEnable, pc, then, stored, before>>

(* exynos_panel_pre_commit_properties drops the request in low power. *)
CommitAsks ==
  /\ LhbmCommit /\ lhbmState = "NORMAL"
  /\ \/ AskOn /\ UNCHANGED <<pc, then>>
     \/ AskOff("commit", "return") /\ Disarm /\ before' = FALSE
  /\ UNCHANGED <<postEnable, stored>>

-----------------------------------------------------------------------------
(* local_hbm_mode_store tests the panel, waits for a vblank, and then asks.  *)
StoreChecks ==
  /\ pc["store"] = "idle" /\ lhbmUsed.stores < LhbmStores /\ LhbmActive
  /\ pc' = [pc EXCEPT !["store"] = "checked"]
  /\ stored' \in BOOLEAN
  /\ lhbmUsed' = [lhbmUsed EXCEPT !.stores = @ + 1]
  /\ UNCHANGED <<panel, lhbm, postEnable, then, before>>

StoreSets ==
  /\ pc["store"] = "checked"
  /\ \/ stored /\ AskOn /\ pc' = [pc EXCEPT !["store"] = "idle"] /\ UNCHANGED then
     \/ ~stored /\ AskOff("store", "return") /\ Disarm /\ before' = FALSE
  /\ UNCHANGED <<postEnable, stored, lhbmUsed>>

(* local_hbm_timeout_work *)
Expire ==
  /\ armed /\ pc["timeout"] = "idle"
  /\ armed' = FALSE /\ pc' = [pc EXCEPT !["timeout"] = "checked"]
  /\ UNCHANGED <<panel, requested, effective, queued, post, postEnable, then, stored, before, lhbmUsed>>

TimeoutRuns ==
  /\ pc["timeout"] = "checked"
  /\ AskOff("timeout", "return") /\ UNCHANGED armed
  /\ before' = FALSE
  /\ UNCHANGED <<postEnable, stored, lhbmUsed>>

(* local_hbm_post_work: a command and the notification, in either order. *)
PostStarts ==
  /\ queued /\ post = "idle" /\ queued' = FALSE
  /\ post' \in {"cmd", "notify"}
  /\ UNCHANGED <<panel, requested, effective, armed, postEnable, pc, then, stored, before, lhbmUsed>>

PostCmd ==
  /\ post \in {"cmd", "lastCmd"}
  /\ post' = IF post = "cmd" THEN "lastNotify" ELSE "idle"
  /\ UNCHANGED <<panel, requested, effective, armed, queued, postEnable, pc, then, stored, before, lhbmUsed>>

PostNotify ==
  /\ post \in {"notify", "lastNotify"}
  /\ post' = IF post = "notify" THEN "lastCmd" ELSE "idle"
  /\ effective' = IF effective = "ENABLING" THEN "ENABLED" ELSE effective
  /\ UNCHANGED <<panel, requested, armed, queued, postEnable, pc, then, stored, before, lhbmUsed>>

DisableSteps(t) == Cancel(t) \/ Waited(t) \/ Relock(t)

LhbmNext ==
  \/ LhbmSwitchOff \/ LhbmEnterLp \/ ForceOff \/ RecoverOn \/ Relight \/ LhbmSetMode \/ CommitAsks
  \/ StoreChecks \/ StoreSets \/ Expire \/ TimeoutRuns
  \/ PostStarts \/ PostCmd \/ PostNotify
  \/ \E t \in Threads : DisableSteps(t)

LhbmSpec == LhbmInit /\ [][LhbmNext]_lhbmVars

(* Timers expire, and works and threads that have begun go on. *)
LhbmFairness ==
  /\ WF_lhbmVars(Expire) /\ WF_lhbmVars(TimeoutRuns) /\ WF_lhbmVars(StoreSets)
  /\ WF_lhbmVars(ForceOff) /\ WF_lhbmVars(RecoverOn) /\ WF_lhbmVars(Relight)
  /\ WF_lhbmVars(PostStarts) /\ WF_lhbmVars(PostCmd) /\ WF_lhbmVars(PostNotify)
  /\ \A t \in Threads : WF_lhbmVars(DisableSteps(t))

LhbmFairSpec == LhbmSpec /\ LhbmFairness

-----------------------------------------------------------------------------
(* Between commits LHBM is only on, or coming on, while the panel shows      *)
(* normal content: no path leaves it set in low power or on a dark panel.    *)
LhbmOnlyWhenLit == pc["commit"] = "idle" /\ ~Disabled => lhbmState = "NORMAL"

(* LHBM reported as coming on has a post work to report it on, unless a      *)
(* thread is switching it off: it does not stay ENABLING until the limit.    *)
EnablingEnds ==
  effective = "ENABLING" =>
    queued \/ post \in {"cmd", "notify", "lastNotify"} \/ \E t \in Threads : Disabling(t)

LhbmSound == LhbmTypeOK /\ LhbmOnlyWhenLit /\ EnablingEnds

(* A recovery ends with LHBM on exactly when it was on at its begin, unless  *)
(* user space or the time limit changed it meanwhile or is just doing so.    *)
RecoveryKeepsLhbm ==
  [][pc["commit"] = "relight" /\ pc'["commit"] = "idle" /\ lhbmMode = "peak"
     /\ (\A t \in Threads : ~Disabling(t))
       => (effective' # "DISABLED") = before]_lhbmVars

(* The time limit holds: LHBM does not stay on, whoever asked for it and     *)
(* however the requests and the timer meet.                                  *)
LhbmTimesOut == ~Disabled ~> Disabled

=============================================================================
