---------------------------- MODULE DisplayPort ----------------------------
(* Hotplug of the DisplayPort output (exynos_drm_dp.c).                      *)
(*                                                                           *)
(* The USB HAL reports HPD events through sysfs; each one queues a work on a *)
(* single-threaded workqueue, a work that is still pending is not queued     *)
(* again.  The works train the link, tell DRM, and wait with time limits for *)
(* what other threads do in answer: a DRM commit enables or disables the     *)
(* output, ALSA opens or closes the audio stream, an atomic check confirms   *)
(* the connection.  dp_tui_lock keeps DP and the trusted UI apart.           *)
(*                                                                           *)
(* hpd_lock is taken by the works only, which the workqueue already runs one *)
(* by one; cmd_lock makes dp_enable and dp_disable single steps.  Left out:  *)
(* BIST and emulation mode, reboot, HDCP, EDID contents, sinks without PCM.  *)
EXTENDS Integers, Sequences, FiniteSets

CONSTANTS
  MaxEvents,   \* HPD events the HAL reports
  Races        \* which of RaceNames may happen

RaceNames ==
  {"late_enable",    \* a commit enables DP after its unplug was handled
   "late_check",     \* an unplug overtakes an atomic check that saw it connected
   "slow_audio",     \* ALSA takes longer to stop than an unplug waits
   "stale_hpd",      \* a new plug arrives before the failure of the last is noted
   "sink_leaves"}    \* the branch device loses its sink during a new training

ASSUME MaxEventsAssumption == MaxEvents \in Nat
ASSUME RacesAssumption == Races \subseteq RaceNames

MaxDepth == 2   \* bound on irqDepth

Works == {"plug", "unplug", "irq"}
DpStates == {"INIT", "ON", "RUN"}
Pcs == {"idle", "link", "on", "waitRun", "plugFailed", "off", "offAudio",
        "offWaitAudio", "offWaitState", "unplugged", "irq"}

VARIABLES
  cable,      \* the cable is in (external)
  hpd,        \* dp->hpd_current_state
  queue,      \* works pending on dp->dp_wq
  pc,         \* where the running work is
  ctx,        \* what called dp_link_up or dp_off_by_hpd_plug
  state,      \* dp->state
  power,      \* the runtime PM reference taken by HPD_PLUG
  awake,      \* the wakeup source held by HPD_PLUG
  tuiLock,    \* holder of dp_tui_lock
  sink,       \* dp->sink_count, -1 after a failed read
  branch,     \* dp->dfp_count > 0
  trained,    \* the link is trained
  irqDepth,   \* enable_irq minus disable_irq calls
  status,     \* connector->status
  drm,        \* DRM has the DP CRTC on
  request,    \* commit between its check and its tail
  check,      \* dp_conn_atomic_check between reading and enabling
  confirmed,  \* dp->hdcp_and_audio_enabled
  extcon,     \* what the audio notifier told ALSA last
  audio,      \* dp->audio_state: off is DP_AUDIO_DISABLE, opening is still off
  events      \* HPD events so far

work  == <<queue, pc, ctx>>
link  == <<power, awake, tuiLock, sink, branch, trained>>
out   == <<state, irqDepth>>
user  == <<drm, request, check>>
sound == <<confirmed, extcon, audio>>
vars  == <<cable, hpd, work, link, out, user, sound, status, events>>

TypeOK ==
  /\ cable \in BOOLEAN /\ hpd \in {"PLUG", "UNPLUG"}
  /\ queue \in Seq(Works) /\ Len(queue) <= 3
  /\ pc \in Pcs /\ ctx \in {"none", "plug", "unplug", "relink", "sinkUp", "sinkDown"}
  /\ state \in DpStates /\ irqDepth \in -1 .. MaxDepth
  /\ power \in BOOLEAN /\ awake \in BOOLEAN /\ tuiLock \in {"free", "dp", "tui"}
  /\ sink \in -1 .. 1 /\ branch \in BOOLEAN /\ trained \in BOOLEAN
  /\ status \in {"connected", "disconnected"}
  /\ drm \in BOOLEAN /\ request \in {"none", "enable", "disable"}
  /\ check \in BOOLEAN /\ confirmed \in BOOLEAN /\ extcon \in BOOLEAN /\ audio \in {"off", "opening", "on"}
  /\ events \in 0 .. MaxEvents

Init ==
  /\ cable = FALSE /\ hpd = "UNPLUG"
  /\ queue = <<>> /\ pc = "idle" /\ ctx = "none"
  /\ state = "INIT" /\ irqDepth = 0
  /\ power = FALSE /\ awake = FALSE /\ tuiLock = "free"
  /\ sink = 0 /\ branch = FALSE /\ trained = FALSE
  /\ status = "disconnected" /\ drm = FALSE /\ request = "none" /\ check = FALSE
  /\ confirmed = FALSE /\ extcon = FALSE /\ audio = "off"
  /\ events = 0

-----------------------------------------------------------------------------
(* Mutant: a pending work is queued again. *)
QueueTwice(w) == Append(queue, w)

(* The USB HAL.  queue_work returns false for a work that is still pending.  *)
QueueWork(w) ==
  IF \E i \in DOMAIN queue : queue[i] = w THEN queue ELSE Append(queue, w)

Stale == pc = "plugFailed" \/ (pc = "link" /\ ctx = "plug")

HpdPlug ==
  /\ events < MaxEvents
  /\ events' = events + 1
  /\ cable' = TRUE
  /\ IF hpd = "UNPLUG"
     THEN /\ "stale_hpd" \in Races \/ ~Stale
          /\ hpd' = "PLUG" /\ queue' = QueueWork("plug")
     ELSE UNCHANGED <<hpd, queue>>
  /\ UNCHANGED <<pc, ctx, link, out, user, sound, status>>

HpdUnplug ==
  /\ events < MaxEvents
  /\ events' = events + 1
  /\ cable' = FALSE
  /\ IF hpd = "PLUG"
     THEN hpd' = "UNPLUG" /\ queue' = QueueWork("unplug")
     ELSE UNCHANGED <<hpd, queue>>
  /\ UNCHANGED <<pc, ctx, link, out, user, sound, status>>

HpdIrq ==
  /\ events < MaxEvents
  /\ events' = events + 1
  /\ cable /\ hpd = "PLUG"
  /\ queue' = QueueWork("irq")
  /\ UNCHANGED <<cable, hpd, pc, ctx, link, out, user, sound, status>>

-----------------------------------------------------------------------------
(* The works. *)
Goto(p, c) == pc' = p /\ ctx' = c
Done == Goto("idle", "none")

Take(w) == pc = "idle" /\ queue # <<>> /\ Head(queue) = w /\ queue' = Tail(queue)

(* Mutant: dp_tui_lock is not tried. *)
PlugStartsUnlocked ==
  /\ Take("plug")
  /\ awake' = TRUE /\ power' = TRUE
  /\ Goto("link", "plug")
  /\ UNCHANGED <<cable, hpd, tuiLock, sink, branch, trained, out, user, sound, status, events>>

(* HPD_PLUG takes dp_tui_lock, the wakeup source and the power reference... *)
PlugStarts ==
  /\ Take("plug")
  /\ tuiLock = "free"
  /\ tuiLock' = "dp" /\ awake' = TRUE /\ power' = TRUE
  /\ Goto("link", "plug")
  /\ UNCHANGED <<cable, hpd, sink, branch, trained, out, user, sound, status, events>>

(* ...or gives up while the trusted UI (or DP itself) holds the lock. *)
PlugBailsOut ==
  /\ Take("plug")
  /\ tuiLock # "free"
  /\ Done
  /\ UNCHANGED <<cable, hpd, link, out, user, sound, status, events>>

UnplugIgnored ==
  /\ Take("unplug")
  /\ ~power
  /\ Done
  /\ UNCHANGED <<cable, hpd, link, out, user, sound, status, events>>

UnplugStarts ==
  /\ Take("unplug")
  /\ power
  /\ Goto(IF sink > 0 THEN "off" ELSE "unplugged", "unplug")
  /\ UNCHANGED <<cable, hpd, link, out, user, sound, status, events>>

IrqStarts ==
  /\ Take("irq")
  /\ IF power THEN Goto("irq", "none") ELSE Done
  /\ UNCHANGED <<cable, hpd, link, out, user, sound, status, events>>

(* dp_off_by_hpd_plug returns; dp_link_down follows unless the link is only  *)
(* trained again.                                                            *)
AfterOff ==
  /\ CASE ctx = "unplug"   -> Goto("unplugged", ctx)
       [] ctx = "relink"   -> Goto("link", ctx)
       [] ctx = "sinkDown" -> Done
  /\ trained' = (trained /\ ctx = "relink")

linkExceptTrained == <<power, awake, tuiLock, sink, branch>>

(* Training succeeded: dp_on_by_hpd_plug follows. *)
LinkTrained ==
  /\ pc = "link"
  /\ cable
  /\ trained' = TRUE /\ sink' = 1 /\ branch' \in BOOLEAN
  /\ Goto("on", ctx)
  /\ UNCHANGED <<cable, hpd, queue, power, awake, tuiLock, out, user, sound, status, events>>

(* Mutant: HPD_PLUG does not look at the sink count. *)
LinkDeferredTurnsOn ==
  /\ pc = "link"
  /\ cable
  /\ trained' = FALSE /\ sink' = 0 /\ branch' = TRUE
  /\ Goto("on", ctx)
  /\ UNCHANGED <<cable, hpd, queue, power, awake, tuiLock, out, user, sound, status, events>>

(* A branch device without sink defers the training, and that is no error:   *)
(* only HPD_PLUG looks at the sink count again.                              *)
LinkDeferred ==
  /\ pc = "link"
  /\ cable
  /\ ctx = "plug" \/ "sink_leaves" \in Races
  /\ trained' = FALSE /\ sink' = 0 /\ branch' = TRUE
  /\ IF ctx = "plug" THEN Done ELSE Goto("on", ctx)
  /\ UNCHANGED <<cable, hpd, queue, power, awake, tuiLock, out, user, sound, status, events>>

(* AUX or negotiation fails before or after the sink count is read.  Only    *)
(* HPD_PLUG undoes the plug.                                                 *)
LinkFails ==
  /\ pc = "link"
  /\ trained' = FALSE
  /\ \/ UNCHANGED <<sink, branch>>
     \/ sink' = -1 /\ UNCHANGED branch
     \/ sink' \in 0 .. 1 /\ branch' \in BOOLEAN
  /\ IF ctx = "plug"
     THEN Goto("plugFailed", ctx) /\ hpd' = "UNPLUG" /\ state' = "INIT" /\ audio' = "off"
     ELSE Done /\ UNCHANGED <<hpd, state, audio>>
  /\ UNCHANGED <<cable, queue, power, awake, tuiLock, irqDepth, user, confirmed, extcon,
                 status, events>>

PlugReleases ==
  /\ pc = "plugFailed"
  /\ power' = FALSE /\ awake' = FALSE /\ tuiLock' = "free"
  /\ Done
  /\ UNCHANGED <<cable, hpd, queue, sink, branch, trained, out, user, sound, status, events>>

(* dp_on_by_hpd_plug: the hotplug event is not sent if an unplug came in.    *)
On ==
  /\ pc = "on"
  /\ state' = "ON"
  /\ IF hpd = "UNPLUG" THEN Done /\ UNCHANGED status
     ELSE Goto("waitRun", ctx) /\ status' = "connected"
  /\ UNCHANGED <<cable, hpd, queue, link, irqDepth, user, sound, events>>

(* DRM enabled the output, or a second passed: a warning only. *)
OnWaited ==
  /\ pc = "waitRun"
  /\ Done
  /\ UNCHANGED <<cable, hpd, queue, link, out, user, sound, status, events>>

(* dp_off_by_hpd_plug. *)
Off ==
  /\ pc = "off"
  /\ "late_enable" \in Races \/ request # "enable"
  /\ IF state = "INIT" THEN AfterOff /\ UNCHANGED status
     ELSE Goto("offAudio", ctx) /\ status' = "disconnected" /\ UNCHANGED trained
  /\ UNCHANGED <<cable, hpd, queue, linkExceptTrained, out, user, sound, events>>

(* Mutant: hdcp_and_audio_enabled is not reset. *)
OffAudioKeepsConfirmed ==
  /\ pc = "offAudio"
  /\ "late_check" \in Races \/ ~check
  /\ extcon' = FALSE
  /\ Goto("offWaitAudio", ctx)
  /\ UNCHANGED <<cable, hpd, queue, link, out, user, confirmed, audio, status, events>>

OffAudio ==
  /\ pc = "offAudio"
  /\ "late_check" \in Races \/ ~check
  /\ extcon' = FALSE /\ confirmed' = FALSE
  /\ Goto("offWaitAudio", ctx)
  /\ UNCHANGED <<cable, hpd, queue, link, out, user, audio, status, events>>

(* Mutant: no wait for audio. *)
OffAudioNotWaited ==
  /\ pc = "offWaitAudio"
  /\ Goto("offWaitState", ctx)
  /\ UNCHANGED <<cable, hpd, queue, link, out, user, sound, status, events>>

OffAudioWaited ==
  /\ pc = "offWaitAudio"
  /\ audio = "off" \/ "slow_audio" \in Races
  /\ Goto("offWaitState", ctx)
  /\ UNCHANGED <<cable, hpd, queue, link, out, user, sound, status, events>>

OffStateWaited ==
  /\ pc = "offWaitState"
  /\ state = "ON"
  /\ AfterOff
  /\ UNCHANGED <<cable, hpd, queue, linkExceptTrained, out, user, sound, status, events>>

(* dp_disable: only an output that runs is stopped. *)
Disabled ==
  IF state = "RUN" THEN state' = "ON" /\ irqDepth' = irqDepth - 1 ELSE UNCHANGED out

(* Mutant: the wait for DRM has no limit. *)
OffTimeoutAfterDrm ==
  /\ pc = "offWaitState"
  /\ state # "ON" /\ ~drm
  /\ Disabled
  /\ AfterOff
  /\ UNCHANGED <<cable, hpd, queue, linkExceptTrained, user, sound, status, events>>

(* DRM did not answer in three seconds: the work disables the output itself. *)
OffTimeout ==
  /\ pc = "offWaitState"
  /\ state # "ON"
  /\ Disabled
  /\ AfterOff
  /\ UNCHANGED <<cable, hpd, queue, linkExceptTrained, user, sound, status, events>>

(* Mutant: dp->state is not reset. *)
UnplugEndsKeepsState ==
  /\ pc = "unplugged"
  /\ trained' = FALSE
  /\ power' = FALSE /\ awake' = FALSE /\ tuiLock' = "free"
  /\ Done
  /\ UNCHANGED <<cable, hpd, queue, sink, branch, out, user, sound, status, events>>

UnplugEnds ==
  /\ pc = "unplugged"
  /\ state' = "INIT" /\ trained' = FALSE
  /\ power' = FALSE /\ awake' = FALSE /\ tuiLock' = "free"
  /\ Done
  /\ UNCHANGED <<cable, hpd, queue, sink, branch, irqDepth, user, sound, status, events>>

(* dp_work_hpd_irq: nothing to do, a link that is down, or another number of *)
(* sinks.  A failed AUX read leaves sink_count and link_status               *)
(* uninitialised, so every branch is possible whatever the sink reports.     *)
IrqNothing ==
  /\ pc = "irq"
  /\ Done
  /\ UNCHANGED <<cable, hpd, queue, link, out, user, sound, status, events>>

IrqLinkDown ==
  /\ pc = "irq"
  /\ branch => sink > 0
  /\ Goto("off", "relink")
  /\ UNCHANGED <<cable, hpd, queue, link, out, user, sound, status, events>>

IrqSinkCount ==
  /\ pc = "irq"
  /\ branch
  /\ \E new \in 0 .. 1 :
       /\ sink' = new
       /\ IF sink = 0 /\ new > 0 THEN Goto("link", "sinkUp")
          ELSE IF sink > 0 /\ new = 0 THEN Goto("off", "sinkDown")
          ELSE Done
  /\ UNCHANGED <<cable, hpd, queue, power, awake, tuiLock, branch, trained, out, user, sound,
                 status, events>>

-----------------------------------------------------------------------------
(* A DRM client reads the connector status, or switches the screen off... *)
UserCommits ==
  /\ request = "none"
  /\ tuiLock # "tui"
  /\ \/ ~drm /\ status = "connected" /\ request' = "enable"
     \/ drm /\ request' = "disable"
  /\ UNCHANGED <<cable, hpd, work, link, out, drm, check, sound, status, events>>

(* ...and the tail of its commit calls dp_enable, which checks nothing... *)
TailEnables ==
  /\ request = "enable"
  /\ irqDepth < MaxDepth
  /\ state' = "RUN" /\ irqDepth' = irqDepth + 1
  /\ drm' = TRUE /\ request' = "none"
  /\ UNCHANGED <<cable, hpd, work, link, check, sound, status, events>>

(* ...or dp_disable, which does nothing when DP has no power. *)
TailDisables ==
  /\ request = "disable"
  /\ IF power THEN Disabled ELSE UNCHANGED out
  /\ drm' = FALSE /\ request' = "none"
  /\ UNCHANGED <<cable, hpd, work, link, check, sound, status, events>>

(* dp_conn_atomic_check of a commit finds the connection in use... *)
CheckConfirms ==
  /\ ~check
  /\ tuiLock # "tui"
  /\ status = "connected" /\ state = "RUN" /\ drm /\ ~confirmed
  /\ check' = TRUE
  /\ UNCHANGED <<cable, hpd, work, link, out, drm, request, sound, status, events>>

(* ...and then enables HDCP and audio. *)
CheckEnables ==
  /\ check
  /\ check' = FALSE
  /\ extcon' = TRUE /\ confirmed' = TRUE
  /\ UNCHANGED <<cable, hpd, work, link, out, drm, request, audio, status, events>>

(* ALSA opens the stream if the notifier announced it; dp_audio_config is    *)
(* refused while DP is in INIT.                                              *)
AudioOpens ==
  /\ extcon /\ audio = "off"
  /\ audio' = "opening"
  /\ UNCHANGED <<cable, hpd, work, link, out, user, confirmed, extcon, status, events>>

AudioConfigured ==
  /\ audio = "opening"
  /\ audio' = IF state = "INIT" THEN "off" ELSE "on"
  /\ UNCHANGED <<cable, hpd, work, link, out, user, confirmed, extcon, status, events>>

AudioCloses ==
  /\ audio = "on"
  /\ state # "INIT"
  /\ audio' = "off"
  /\ UNCHANGED <<cable, hpd, work, link, out, user, confirmed, extcon, status, events>>

(* The trusted UI takes the lock if it is free; by then DRM has switched the *)
(* DP CRTC off.                                                              *)
TuiEnters ==
  /\ tuiLock = "free" /\ request = "none" /\ ~drm /\ ~check
  /\ tuiLock' = "tui"
  /\ UNCHANGED <<cable, hpd, work, power, awake, sink, branch, trained, out, user, sound,
                 status, events>>

TuiExits ==
  /\ tuiLock = "tui"
  /\ tuiLock' = "free"
  /\ UNCHANGED <<cable, hpd, work, power, awake, sink, branch, trained, out, user, sound,
                 status, events>>

-----------------------------------------------------------------------------
Worker ==
  \/ PlugStarts \/ PlugBailsOut \/ UnplugIgnored \/ UnplugStarts \/ IrqStarts
  \/ LinkTrained \/ LinkDeferred \/ LinkFails \/ PlugReleases
  \/ On \/ OnWaited
  \/ Off \/ OffAudio \/ OffAudioWaited \/ OffStateWaited \/ OffTimeout \/ UnplugEnds
  \/ IrqNothing \/ IrqLinkDown \/ IrqSinkCount

Tails  == TailEnables \/ TailDisables \/ CheckEnables
Audio  == AudioConfigured \/ AudioCloses

Next ==
  \/ HpdPlug \/ HpdUnplug \/ HpdIrq
  \/ Worker
  \/ UserCommits \/ CheckConfirms \/ Tails
  \/ AudioOpens \/ Audio
  \/ TuiEnters \/ TuiExits

Spec == Init /\ [][Next]_vars

(* The works run, a commit that has begun ends, and ALSA closes a stream     *)
(* whose device was announced as gone.  The steps of the unplug under SF     *)
(* never block in the code: only the guards that keep a race out hold them   *)
(* up, and those let go again and again.                                     *)
FairSpec ==
  /\ Spec /\ WF_vars(Worker) /\ WF_vars(Tails) /\ WF_vars(Audio)
  /\ SF_vars(Off) /\ SF_vars(OffAudio) /\ SF_vars(OffAudioWaited)

(* Without the power reference of HPD_PLUG the output is disabled and its    *)
(* interrupt off: dp_disable takes "no power" for "already disabled".        *)
PoweredOffMeansDisabled == ~power => state = "INIT" /\ irqDepth = 0

(* The output only runs over a link that was trained for the current sink.   *)
RunsTrained == state = "RUN" => trained

(* While the trusted UI holds dp_tui_lock, DP has no power and does not run. *)
TuiExcludesDp == tuiLock = "tui" => ~power /\ state = "INIT"

(* Power, link, trusted UI and output: each is on only over the one below.   *)
OutputSound == TypeOK /\ PoweredOffMeansDisabled /\ RunsTrained /\ TuiExcludesDp

(* HDCP and audio are enabled for a connected display only.                  *)
AudioOnlyWhileConnected ==
  pc = "idle" /\ (extcon \/ confirmed) => status = "connected"

(* The audio stream is stopped before the output loses its power.            *)
AudioStopsFirst == ~power => audio # "on"

(* Audio lives inside the connection, and ends before it.                    *)
AudioSound == AudioOnlyWhileConnected /\ AudioStopsFirst

(* After an unplug DP loses its power, unless it is plugged in again.        *)
UnplugPowersDown == (hpd = "UNPLUG" /\ power) ~> (~power \/ hpd = "PLUG")
=============================================================================
