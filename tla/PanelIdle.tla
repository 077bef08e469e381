----------------------------- MODULE PanelIdle ------------------------------
(* Refresh rates and panel idle: the driver core (panel/panel-samsung-drv.c) *)
(* over the driver of the s6e3hc4 (panel/panel-samsung-s6e3hc4.c).           *)
(*                                                                           *)
(* The chip refreshes at the rate of its mode, or lowers its rate by itself  *)
(* ("auto").  What may be automatic depends on the mode, self refresh, HBM,  *)
(* the settings in sysfs and a delay, and the delayed idle work applies it   *)
(* later.  The chip driver keeps in hw_* what it sent, and sends only what   *)
(* changed.  Threads: the commit tail, the idle work and sysfs writes; each  *)
(* section under mode_lock is a step, but the idle work has two, because     *)
(* the tail switches a panel off without the lock.                           *)
(*                                                                           *)
(* Abstracted: frequencies are the ones of the s6e3hc4; the age of a time    *)
(* stamp is whether it is younger than idle_delay_ms; registers are named    *)
(* for what they select.  Left out: supplies and backlight (Panel), local    *)
(* HBM (LocalHbm), IRC, TE2 and force_changeable_te of debugfs.              *)
EXTENDS Integers, Sequences

CONSTANTS
  IdleCommits,  \* commits
  IdleStores,   \* writes to sysfs
  IdleRaces     \* which of IdleRaceNames may happen

IdleRaceNames ==
  {"op_hz_lp",    \* op_hz is set in low power
   "over_op_hz",  \* a mode above op_hz is set
   "hbm_auto"}    \* HBM is switched by sysfs in self refresh

ASSUME IdleBoundsAssumption == IdleCommits \in Nat /\ IdleStores \in Nat
ASSUME IdleRacesAssumption == IdleRaces \subseteq IdleRaceNames

Modes == {"m60", "m120", "lp"}
Vrefresh(m) == CASE m = "m60" -> 60 [] m = "m120" -> 120 [] m = "lp" -> 30
(* pmode->idle_mode *)
IdleMode(m) == CASE m = "m60" -> "selfRefresh" [] m = "m120" -> "inactivity" [] m = "lp" -> "none"

Features == {"HBM", "EARLY_EXIT", "OP_NS", "FRAME_AUTO"}
Stamps   == {"modeSet", "refresh", "idleSet"}
Calls    == {"rest", "off", "blank", "offChip", "modeset", "modeSet", "enable", "pre", "done"}

VARIABLES
  asked,        \* the CRTC state DRM has swapped in
  todo,         \* what its tail has still to do
  panelState,   \* ctx->panel_state
  curMode,      \* ctx->current_mode
  selfRefresh,  \* ctx->self_refresh_active
  pending,      \* ctx->panel_update_idle_mode_pending
  work,         \* idle_work: idle, queued, started, or holding mode_lock
  recent,       \* the time stamps younger than the delay
  set,          \* the settings: panel_idle_enabled, min_vrefresh, idle_delay_ms > 0, op_hz, hbm_mode
  drv,          \* spanel->feat, auto_mode_vrefresh, hw_* and ctx->panel_idle_vrefresh
  registers,    \* the registers of the chip
  idleUsed      \* commits and writes so far

idleVars ==
  <<asked, todo, panelState, curMode, selfRefresh, pending, work, recent, set, drv, registers, idleUsed>>

Rates == {0, 10, 30, 60}
Regs  == [te : {"fixed", "changeable"}, ns : BOOLEAN, ee : BOOLEAN, hbm : BOOLEAN,
          auto : BOOLEAN, rate : {10, 30, 60, 120}, aod : BOOLEAN]

IdleTypeOK ==
  /\ asked \in [on : BOOLEAN, refresh : BOOLEAN, mode : Modes]
  /\ todo \in Seq(Calls)
  /\ panelState \in {"OFF", "NORMAL", "LP", "MODESET", "BLANK"} /\ curMode \in Modes
  /\ selfRefresh \in BOOLEAN /\ pending \in BOOLEAN
  /\ work \in {"idle", "queued", "started", "locked"}
  /\ recent \subseteq Stamps
  /\ set \in [idle : BOOLEAN, min : {-1, 10, 60}, delay : BOOLEAN, op : {60, 120}, hbm : BOOLEAN]
  /\ drv \in [feat : SUBSET Features, auto : Rates, hwFeat : SUBSET Features,
              hwVrefresh : {30, 60, 120}, hwIdle : Rates, panelIdle : Rates]
  /\ registers \in Regs
  /\ idleUsed \in [commits : 0 .. IdleCommits, stores : 0 .. IdleStores]

PanelActive == panelState \in {"NORMAL", "LP"}
TailDone    == todo = <<>>
Lock        == work # "locked"

(* The chip after its reset. *)
ResetRegs == [te |-> "changeable", ns |-> FALSE, ee |-> FALSE, hbm |-> FALSE,
              auto |-> FALSE, rate |-> 60, aod |-> FALSE]

IdleInit ==
  /\ asked = [on |-> FALSE, refresh |-> FALSE, mode |-> "m60"] /\ todo = <<>>
  /\ panelState = "OFF" /\ curMode = "m60" /\ selfRefresh = FALSE
  /\ pending = FALSE /\ work = "idle" /\ recent = {}
  /\ set = [idle |-> TRUE, min |-> 10, delay |-> FALSE, op |-> 120, hbm |-> FALSE]
  /\ drv = [feat |-> {}, auto |-> 0, hwFeat |-> {}, hwVrefresh |-> 60, hwIdle |-> 0, panelIdle |-> 0]
  /\ registers = ResetRegs
  /\ idleUsed = [commits |-> 0, stores |-> 0]

-----------------------------------------------------------------------------
(* The chip driver, as functions of p = [drv, chip].  s is the settings.     *)
P == [drv |-> drv, chip |-> registers]

(* The rate the frequency registers select, in manual and in auto mode. *)
ManualRate(f, vrefresh) == IF "OP_NS" \in f /\ vrefresh > 30 THEN 60 ELSE vrefresh
AutoRate(f, idle) ==
  IF "OP_NS" \in f THEN (IF idle = 10 THEN 10 ELSE 30)
  ELSE IF idle \in {10, 30} THEN idle ELSE 60

(* What the registers are when every part of the sequence has been sent. *)
RegsOf(f, vrefresh, idle) ==
  [te |-> IF "EARLY_EXIT" \in f THEN "fixed" ELSE "changeable",
   ns |-> "OP_NS" \in f, ee |-> "EARLY_EXIT" \in f, hbm |-> "HBM" \in f,
   auto |-> "FRAME_AUTO" \in f,
   rate |-> IF "FRAME_AUTO" \in f THEN AutoRate(f, idle) ELSE ManualRate(f, vrefresh),
   aod |-> FALSE]

(* Mutant: the TE setting follows the speed only. *)
SentTeWithSpeed(old, f, vrefresh, idle, changed) ==
  LET new == RegsOf(f, vrefresh, idle) IN
  [new EXCEPT !.te  = IF "OP_NS" \in changed THEN new.te ELSE old.te,
              !.ns  = IF "OP_NS" \in changed THEN new.ns ELSE old.ns,
              !.aod = old.aod]

(* The parts for TE and for the speed are only sent when they changed. *)
Sent(old, f, vrefresh, idle, changed) ==
  LET new == RegsOf(f, vrefresh, idle) IN
  [new EXCEPT
     !.te  = IF changed \cap {"EARLY_EXIT", "OP_NS"} # {} THEN new.te ELSE old.te,
     !.ns  = IF "OP_NS" \in changed THEN new.ns ELSE old.ns,
     !.aod = old.aod]

(* s6e3hc4_set_panel_feat *)
SetPanelFeat(p, vrefresh, idle, f, enforce) ==
  LET d       == p.drv
      changed == IF enforce THEN Features ELSE (f \ d.hwFeat) \cup (d.hwFeat \ f)
  IN  IF changed = {} /\ vrefresh = d.hwVrefresh /\ idle = d.hwIdle THEN p
      ELSE [drv  |-> [d EXCEPT !.hwFeat = f, !.hwVrefresh = vrefresh, !.hwIdle = idle],
            chip |-> Sent(p.chip, f, vrefresh, idle, changed)]

DisablePanelFeat(p, vrefresh) == SetPanelFeat(p, vrefresh, 0, {}, TRUE)

UpdatePanelFeat(p, vrefresh, enforce) ==
  SetPanelFeat(p, vrefresh, p.drv.auto, p.drv.feat, enforce)

With(f, feature, on) == IF on THEN f \cup {feature} ELSE f \ {feature}

UpdateRefreshMode(p, m, idle) ==
  LET f == With(With(p.drv.feat, "FRAME_AUTO", idle # 0),
                "EARLY_EXIT", Vrefresh(m) = 120 \/ idle # 0)
  IN  UpdatePanelFeat([p EXCEPT !.drv.feat = f, !.drv.auto = idle, !.drv.panelIdle = idle],
                      Vrefresh(m), FALSE)

(* panel_get_idle_time_delta: whether the delay has not passed, for mode m.  *)
Delayed(s, m, stamps) ==
  /\ s.delay
  /\ \/ IdleMode(m) = "inactivity" /\ "modeSet" \in stamps
     \/ IdleMode(m) = "selfRefresh" /\ stamps # {}

(* Mutant: the lowest rate is taken as it was written. *)
MinIdleRaw(s, m) == IF s.hbm \/ ~s.idle \/ s.min >= Vrefresh(m) THEN 0 ELSE s.min

(* The idle rate the settings allow, without and with the delay. *)
MinIdle(s, m) ==
  LET min == IF s.min <= 10 THEN 10 ELSE s.min IN
  IF s.min < 0 \/ s.hbm \/ ~s.idle \/ min >= Vrefresh(m) THEN 0 ELSE min

GetMinIdleVrefresh(s, m, stamps) == IF Delayed(s, m, stamps) THEN 0 ELSE MinIdle(s, m)

ChangeFrequency(p, s, m, stamps) ==
  IF Vrefresh(m) > s.op THEN p
  ELSE UpdateRefreshMode(p, m,
         IF IdleMode(m) = "inactivity" THEN GetMinIdleVrefresh(s, m, stamps) ELSE 0)

(* s6e3hc4_set_self_refresh, and whether it returns true. *)
Applies(p, s, m, on, stamps) ==
  LET idle == GetMinIdleVrefresh(s, m, stamps) IN
  CASE IdleMode(m) = "none"        -> FALSE
    [] IdleMode(m) = "inactivity"  -> p.drv.auto # idle
    [] IdleMode(m) = "selfRefresh" -> p.drv.panelIdle # (IF on THEN idle ELSE 0)

SetSelfRefresh(p, s, m, on, stamps) ==
  LET idle == GetMinIdleVrefresh(s, m, stamps) IN
  IF IdleMode(m) = "none" THEN [p EXCEPT !.drv.panelIdle = IF on THEN 10 ELSE 0]
  ELSE IF ~Applies(p, s, m, on, stamps) THEN p
  ELSE UpdateRefreshMode(p, m, IF on \/ IdleMode(m) = "inactivity" THEN idle ELSE 0)

(* s6e3hc4_set_hbm_mode; settings and p change together. *)
SetHbm(p, m, on) ==
  LET q == [p EXCEPT !.drv.feat = With(@, "HBM", on)] IN
  IF m = "lp" THEN q ELSE UpdatePanelFeat(q, Vrefresh(m), FALSE)

AodRegs(old) == [old EXCEPT !.te = "fixed", !.rate = 30, !.auto = TRUE, !.aod = TRUE]

SetLpMode(p, enabled) ==
  LET q == DisablePanelFeat(p, IF enabled THEN p.drv.hwVrefresh ELSE 60) IN
  [drv |-> [q.drv EXCEPT !.hwVrefresh = 30], chip |-> AodRegs(q.chip)]

SetNolpMode(p, s, m, stamps) ==
  LET q == [drv  |-> [p.drv EXCEPT !.hwIdle = 0],
            chip |-> [p.chip EXCEPT !.auto = FALSE, !.te = "changeable", !.rate = 30, !.aod = FALSE]]
  IN  ChangeFrequency(UpdatePanelFeat(q, Vrefresh(m), TRUE), s, m, stamps)

(* s6e3hc4_enable, with a reset of a panel that was off. *)
EnableChip(p, s, m, stamps, reset) ==
  LET q == IF reset THEN [p EXCEPT !.chip = ResetRegs] ELSE p IN
  IF m = "lp" THEN SetLpMode(q, ~reset)
  ELSE ChangeFrequency(UpdatePanelFeat([q EXCEPT !.chip.aod = FALSE], Vrefresh(m), TRUE), s, m, stamps)

(* s6e3hc4_disable forgets the cache, which the chip loses with its supply.  *)
IdleDisableChip(p) ==
  LET q == DisablePanelFeat(p, 60) IN
  [q EXCEPT !.drv.feat = @ \ {"HBM"}, !.drv.hwFeat = {}, !.drv.hwVrefresh = 60, !.drv.hwIdle = 0]

Take(p) == drv' = p.drv /\ registers' = p.chip

-----------------------------------------------------------------------------
(* panel_update_idle_mode_locked, for a panel in state p of the driver with  *)
(* self refresh on or off.                                                   *)
Unqueued == IF work = "queued" THEN "idle" ELSE work

(* Mutant: a queued idle work stands for every later change. *)
UpdateIdleModeOnce(p, on, s, stamps, delayUpdate) ==
  IF ~PanelActive \/ work = "queued" THEN Take(p) /\ recent' = stamps /\ UNCHANGED <<pending, work>>
  ELSE IF on /\ Delayed(s, curMode, stamps)
       THEN Take(p) /\ recent' = stamps /\ work' = "queued" /\ UNCHANGED pending
  ELSE IF ~on /\ delayUpdate
       THEN Take(p) /\ recent' = stamps /\ pending' = TRUE /\ UNCHANGED work
  ELSE /\ pending' = FALSE /\ work' = Unqueued
       /\ Take(SetSelfRefresh(p, s, curMode, on, stamps))
       /\ recent' = IF Applies(p, s, curMode, on, stamps) THEN stamps \cup {"refresh"} ELSE stamps

UpdateIdleMode(p, on, s, stamps, delayUpdate) ==
  IF ~PanelActive THEN Take(p) /\ recent' = stamps /\ UNCHANGED <<pending, work>>
  ELSE IF on /\ Delayed(s, curMode, stamps)
       THEN Take(p) /\ recent' = stamps /\ work' = "queued" /\ UNCHANGED pending
  ELSE IF ~on /\ delayUpdate
       THEN Take(p) /\ recent' = stamps /\ pending' = TRUE /\ UNCHANGED work
  ELSE /\ pending' = FALSE /\ work' = Unqueued
       /\ Take(SetSelfRefresh(p, s, curMode, on, stamps))
       /\ recent' = IF Applies(p, s, curMode, on, stamps) THEN stamps \cup {"refresh"} ELSE stamps

-----------------------------------------------------------------------------
(* Commits. *)
IdleCommit(new, sequence) ==
  /\ TailDone /\ idleUsed.commits < IdleCommits
  /\ asked' = new /\ todo' = sequence
  /\ idleUsed' = [idleUsed EXCEPT !.commits = @ + 1]
  /\ UNCHANGED <<panelState, curMode, selfRefresh, pending, work, recent, set, drv, registers>>

Wake == IF asked.refresh THEN <<"enable">> ELSE <<>>

(* A frame, with or without a seamless change of the refresh rate; a full    *)
(* modeset changes the resolution, too.  Low power is entered and left       *)
(* without one.                                                              *)
IdleFrame ==
  \E m \in Modes, full \in BOOLEAN :
    /\ asked.on
    /\ "over_op_hz" \in IdleRaces \/ Vrefresh(m) <= set.op
    /\ full => m # "lp" /\ asked.mode # "lp"
    /\ IdleCommit([asked EXCEPT !.refresh = FALSE, !.mode = m],
              IF full THEN <<"modeset", "modeSet", "enable", "pre", "done">>
              ELSE Wake \o <<"pre">> \o (IF m # asked.mode THEN <<"modeSet">> ELSE <<>>) \o <<"done">>)

(* The hibernation handler. *)
Rest ==
  /\ asked.on /\ ~asked.refresh
  /\ IdleCommit([asked EXCEPT !.refresh = TRUE], <<"rest">>)

IdleSwitchOff ==
  /\ asked.on
  /\ \E state \in {"off", "blank"} :
       IdleCommit([asked EXCEPT !.on = FALSE, !.refresh = FALSE], <<state, "offChip">>)

IdleSwitchOn ==
  \E m \in Modes :
    /\ ~asked.on
    /\ "over_op_hz" \in IdleRaces \/ Vrefresh(m) <= set.op
    /\ IdleCommit([on |-> TRUE, refresh |-> FALSE, mode |-> m], <<"modeSet", "enable", "pre", "done">>)

-----------------------------------------------------------------------------
(* The callbacks of the tail. *)
Call(c) == todo # <<>> /\ Head(todo) = c /\ todo' = Tail(todo)

(* exynos_panel_bridge_disable, into self refresh. *)
EnterSelfRefresh ==
  /\ Call("rest") /\ Lock
  /\ selfRefresh' = TRUE
  /\ UpdateIdleMode(P, TRUE, set, recent, FALSE)
  /\ UNCHANGED <<asked, panelState, curMode, set, idleUsed>>

(* bridge_disable and exynos_panel_disable up to the lock, for a panel that  *)
(* is switched off or blanked.                                               *)
IdleDisable ==
  /\ \/ Call("off") /\ panelState' = "OFF"
     \/ Call("blank") /\ panelState' = "BLANK"
  /\ selfRefresh' = FALSE /\ drv' = [drv EXCEPT !.panelIdle = 0]
  /\ UNCHANGED <<asked, curMode, pending, work, recent, set, registers, idleUsed>>

(* The rest of s6e3hc4_disable; HBM is switched off first.                   *)
DisableRest ==
  /\ Call("offChip") /\ Lock
  /\ set' = [set EXCEPT !.hbm = FALSE]
  /\ Take(IdleDisableChip(IF set.hbm THEN SetHbm(P, curMode, FALSE) ELSE P))
  /\ UNCHANGED <<asked, panelState, curMode, selfRefresh, pending, work, recent, idleUsed>>

(* s6e3hc4_disable does nothing for a full modeset. *)
DisableForModeset ==
  /\ Call("modeset") /\ panelState' = "MODESET"
  /\ UNCHANGED <<asked, curMode, selfRefresh, pending, work, recent, set, drv, registers, idleUsed>>

IdleSameMode ==
  /\ Call("modeSet") /\ asked.mode = curMode
  /\ UNCHANGED <<asked, panelState, curMode, selfRefresh, pending, work, recent, set, drv, registers, idleUsed>>

(* exynos_panel_bridge_mode_set; what a panel that is not active needs is    *)
(* sent when it is enabled.  current_mode is still the old mode when the idle *)
(* delay is looked at: out of low power there is none, and between the other *)
(* modes the change itself is too young for either.                          *)
ModeSet ==
  /\ Call("modeSet") /\ Lock /\ asked.mode # curMode
  /\ curMode' = asked.mode /\ recent' = recent \cup {"modeSet"}
  /\ IF ~PanelActive THEN UNCHANGED <<panelState, set, drv, registers>>
     ELSE IF curMode' = "lp"
     THEN /\ panelState' = "LP" /\ set' = [set EXCEPT !.hbm = FALSE]
          /\ Take(SetLpMode(IF set.hbm THEN SetHbm(P, curMode, FALSE) ELSE P, TRUE))
     ELSE IF curMode = "lp"
     THEN panelState' = "NORMAL" /\ Take(SetNolpMode(P, set, curMode', {})) /\ UNCHANGED set
     ELSE Take(ChangeFrequency(P, set, curMode', recent')) /\ UNCHANGED <<panelState, set>>
  /\ UNCHANGED <<asked, selfRefresh, pending, work, idleUsed>>

(* exynos_panel_bridge_enable; a panel in self refresh is active.            *)
EnableOn ==
  /\ Call("enable") /\ Lock /\ ~PanelActive /\ ~selfRefresh
  /\ Take(EnableChip(P, set, curMode, recent, panelState = "OFF"))
  /\ panelState' = IF curMode = "lp" THEN "LP" ELSE "NORMAL"
  /\ UNCHANGED <<asked, curMode, selfRefresh, pending, work, recent, set, idleUsed>>

(* Mutant: the panel is not told to wake up. *)
LeaveSelfRefreshSilently ==
  /\ Call("enable") /\ Lock /\ PanelActive
  /\ selfRefresh' = FALSE
  /\ UNCHANGED <<asked, panelState, curMode, pending, work, recent, set, drv, registers, idleUsed>>

LeaveSelfRefresh ==
  /\ Call("enable") /\ Lock /\ PanelActive
  /\ selfRefresh' = FALSE
  /\ UpdateIdleMode(P, FALSE, set, recent, FALSE)
  /\ UNCHANGED <<asked, panelState, curMode, set, idleUsed>>

(* A full modeset out of self refresh leaves self_refresh_active set, and    *)
(* the panel is active by the time its idle mode is updated.                 *)
EnableModeset ==
  /\ Call("enable") /\ Lock /\ ~PanelActive /\ selfRefresh
  /\ selfRefresh' = FALSE /\ panelState' = "NORMAL"
  /\ LET p == EnableChip(P, set, curMode, recent, FALSE) IN
     /\ Take(SetSelfRefresh(p, set, curMode, FALSE, recent))
     /\ recent' = IF Applies(p, set, curMode, FALSE, recent) THEN recent \cup {"refresh"} ELSE recent
  /\ pending' = FALSE /\ work' = Unqueued
  /\ UNCHANGED <<asked, curMode, set, idleUsed>>

(* exynos_panel_connector_atomic_pre_commit: HBM of the commit, unless in    *)
(* low power, and an update that was put off.                                *)
PreCommit ==
  /\ Call("pre") /\ Lock
  /\ \E hbm \in BOOLEAN :
       /\ curMode = "lp" => hbm = set.hbm
       /\ set' = [set EXCEPT !.hbm = hbm]
       /\ LET p == IF hbm # set.hbm THEN SetHbm(P, curMode, hbm) ELSE P IN
          IF pending THEN UpdateIdleMode(p, selfRefresh, set', recent, FALSE)
          ELSE Take(p) /\ UNCHANGED <<pending, work, recent>>
  /\ UNCHANGED <<asked, panelState, curMode, selfRefresh, idleUsed>>

(* s6e3hc4_commit_done: an automatic display that had time to lower its rate *)
(* goes manual if there is a delay.                                          *)
CommitDone ==
  /\ Call("done") /\ Lock
  /\ \E paused \in BOOLEAN :
       LET p == [P EXCEPT !.drv.panelIdle = 0] IN
       IF curMode = "lp" THEN ~paused /\ UNCHANGED <<recent, drv, registers>>
       ELSE IF paused /\ "FRAME_AUTO" \in drv.feat
       THEN /\ recent' = recent \cup {"modeSet"}
            /\ Take(IF set.delay THEN UpdateRefreshMode(p, curMode, 0) ELSE p)
       ELSE Take(p) /\ UNCHANGED recent
  /\ UNCHANGED <<asked, panelState, curMode, selfRefresh, pending, work, set, idleUsed>>

-----------------------------------------------------------------------------
(* panel_idle_work: the state of the panel is tested, and then it is used,   *)
(* while the tail may be switching the panel off.                            *)
IdleExpire ==
  /\ work = "queued" /\ work' = "started"
  /\ UNCHANGED <<asked, todo, panelState, curMode, selfRefresh, pending, recent, set, drv, registers, idleUsed>>

WorkTests ==
  /\ work = "started"
  /\ work' = IF ~PanelActive THEN "idle"
             ELSE IF selfRefresh /\ Delayed(set, curMode, recent) THEN "queued" ELSE "locked"
  /\ UNCHANGED <<asked, todo, panelState, curMode, selfRefresh, pending, recent, set, drv, registers, idleUsed>>

(* Mutant: the update is taken off without being made. *)
WorkAppliesNothing ==
  /\ work = "locked" /\ work' = "idle"
  /\ pending' = FALSE
  /\ UNCHANGED <<asked, todo, panelState, curMode, selfRefresh, recent, set, drv, registers, idleUsed>>

WorkApplies ==
  /\ work = "locked" /\ work' = "idle"
  /\ pending' = FALSE
  /\ Take(SetSelfRefresh(P, set, curMode, selfRefresh, recent))
  /\ recent' = IF Applies(P, set, curMode, selfRefresh, recent) THEN recent \cup {"refresh"} ELSE recent
  /\ UNCHANGED <<asked, todo, panelState, curMode, selfRefresh, set, idleUsed>>

Age ==
  /\ \E t \in recent : recent' = recent \ {t}
  /\ UNCHANGED <<asked, todo, panelState, curMode, selfRefresh, pending, work, set, drv, registers, idleUsed>>

-----------------------------------------------------------------------------
(* sysfs. *)
Store ==
  /\ Lock /\ idleUsed.stores < IdleStores
  /\ idleUsed' = [idleUsed EXCEPT !.stores = @ + 1]
  /\ UNCHANGED <<asked, todo, panelState, curMode, selfRefresh>>

(* panel_idle_store, min_vrefresh_store, idle_delay_ms_store *)
StoreIdle ==
  /\ Store
  /\ \E new \in {[set EXCEPT !.idle = ~@], [set EXCEPT !.delay = ~@]}
              \cup {[set EXCEPT !.min = m] : m \in {-1, 10, 60} \ {set.min}} :
       /\ set' = new
       /\ UpdateIdleMode(P, selfRefresh, new,
                         IF new.idle /\ ~set.idle THEN recent \cup {"idleSet"} ELSE recent, TRUE)

(* exynos_panel_set_op_hz, from sysfs or from a commit. *)
StoreOpHz ==
  /\ Store /\ PanelActive /\ ("op_hz_lp" \in IdleRaces \/ curMode # "lp")
  /\ \E hz \in {60, 120} \ {set.op} :
       /\ Vrefresh(curMode) <= hz
       /\ asked.on /\ ("over_op_hz" \in IdleRaces \/ Vrefresh(asked.mode) <= hz)
       /\ set' = [set EXCEPT !.op = hz]
       /\ Take(UpdatePanelFeat([P EXCEPT !.drv.feat = With(@, "OP_NS", hz = 60)], Vrefresh(curMode), FALSE))
  /\ UNCHANGED <<pending, work, recent>>

(* hbm_mode_store *)
StoreHbm ==
  /\ Store /\ PanelActive /\ curMode # "lp"
  /\ "hbm_auto" \in IdleRaces \/ ~selfRefresh
  /\ set' = [set EXCEPT !.hbm = ~@]
  /\ Take(SetHbm(P, curMode, ~set.hbm))
  /\ UNCHANGED <<pending, work, recent>>

IdleNext ==
  \/ IdleFrame \/ Rest \/ IdleSwitchOff \/ IdleSwitchOn
  \/ EnterSelfRefresh \/ IdleDisable \/ DisableRest \/ DisableForModeset
  \/ IdleSameMode \/ ModeSet \/ EnableOn \/ LeaveSelfRefresh \/ EnableModeset
  \/ PreCommit \/ CommitDone
  \/ IdleExpire \/ WorkTests \/ WorkApplies \/ Age
  \/ StoreIdle \/ StoreOpHz \/ StoreHbm

IdleSpec == IdleInit /\ [][IdleNext]_idleVars

(* Tails go on, time passes, the idle work gets its turn. *)
IdleFairness ==
  /\ WF_idleVars(EnterSelfRefresh) /\ WF_idleVars(IdleExpire) /\ WF_idleVars(WorkTests) /\ WF_idleVars(WorkApplies)
  /\ WF_idleVars(Age)

IdleFairSpec == IdleSpec /\ IdleFairness

-----------------------------------------------------------------------------
(* Commands that were skipped because nothing changed were indeed not        *)
(* needed: while the panel shows normal content its registers are what hw_*  *)
(* stands for, after any order of modes, low power, blanking and resets; and *)
(* in low power they are those of low power.                                 *)
ChipMatchesCache == panelState = "NORMAL" => registers = RegsOf(drv.hwFeat, drv.hwVrefresh, drv.hwIdle)
AodKept          == panelState = "LP" => registers = AodRegs(ResetRegs)
ChipSound        == IdleTypeOK /\ ChipMatchesCache /\ AodKept

(* After a commit the panel refreshes at the rate of the mode DRM asked for, *)
(* and a display that is awake at 60 Hz, where the display pipeline cannot   *)
(* follow a change of the rate, is not left automatic.                       *)
RateFollowsMode ==
  TailDone /\ panelState = "NORMAL" =>
    /\ curMode = asked.mode /\ drv.hwVrefresh = Vrefresh(curMode)
    /\ curMode = "m60" /\ ~selfRefresh => ~registers.auto

(* The idle rate the driver reports is the one the panel may go down to; and *)
(* a panel in self refresh without an idle work to come has the idle rate    *)
(* of the settings, however they changed meanwhile.                          *)
IdleReported == panelState = "NORMAL" /\ drv.panelIdle # 0 => registers.auto /\ drv.hwIdle = drv.panelIdle
IdleApplied  ==
  TailDone /\ panelState = "NORMAL" /\ selfRefresh /\ work = "idle" => drv.auto = MinIdle(set, curMode)
IdleSound    == IdleReported /\ IdleApplied

(* A panel in self refresh reaches its idle rate, unless it is woken up or   *)
(* switched off: no change of a setting and no race of the idle work loses   *)
(* the update.                                                               *)
IdleReached ==
  (selfRefresh /\ panelState = "NORMAL") ~>
    (~selfRefresh \/ panelState # "NORMAL" \/ drv.auto = MinIdle(set, curMode))

=============================================================================
