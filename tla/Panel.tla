------------------------------- MODULE Panel -------------------------------
(* The life of a DSI panel: supplies, reset, panel_state and the backlight   *)
(* (panel/panel-samsung-drv.c), over the panel driver of the s6e3hc4         *)
(* (panel/panel-samsung-s6e3hc4.c).                                          *)
(*                                                                           *)
(* The commit tail calls the bridge callbacks of the panel one after the     *)
(* other: disable, post disable, mode set, pre enable, enable, and a mode    *)
(* set again from the flush of a seamless switch.  Around and between them   *)
(* run the sysfs writes: brightness, which tests the panel state before it   *)
(* takes mode_lock, and force_power_on, which takes the lock of the bridge   *)
(* and not mode_lock.  A callback, or the part of it under mode_lock, is a   *)
(* step; the backlight update some of them end with is a step of its own.    *)
(*                                                                           *)
(* The chip is what its supplies, its reset line and the commands it         *)
(* received make of it.  Local HBM is in LocalHbm, refresh rates and idle    *)
(* in PanelIdle.  Left out: identification, gamma, TE2, regulator errors and *)
(* is_pixel_off, which only says how a level of 0 is sent.                   *)
EXTENDS Integers, Sequences

CONSTANTS
  MaxCommits,  \* modesets of the user, the hibernation and the trusted UI
  MaxWrites,   \* writes to sysfs
  Races        \* which of RaceNames may happen

RaceNames ==
  {"force_dark",   \* force_power_on is set while the panel is off
   "brightness",   \* the panel is disabled between the check and the lock
   "brightness_boot",\* a level is written while the boot loader's picture stands
   "modeset_lp"}   \* low power is entered or left in a full modeset of a lit panel

ASSUME PanelBoundsAssumption == MaxCommits \in Nat /\ MaxWrites \in Nat
ASSUME PanelRacesAssumption == Races \subseteq RaceNames

(* A display mode is a resolution and the low-power flag. *)
Mode   == [res : {"wqhd", "fhd"}, lp : BOOLEAN]
NoMode == [res |-> "none", lp |-> FALSE]

PanelStates == {"UNINITIALIZED", "HANDOFF", "HANDOFF_MODESET", "OFF", "NORMAL", "LP",
                "MODESET", "BLANK"}
(* dead: no supply; held: in reset; sleep: after sleep-in; dark: awake with  *)
(* the display off; on and aod: it shows normal or low-power content.        *)
ChipStates == {"dead", "held", "sleep", "dark", "on", "aod"}
Callbacks == {"disable", "postDisable", "modeSet", "preEnable", "enable", "backlight"}
(* A level each for the bins of low power, up to 80 and up to 2047, and one  *)
(* above them.                                                               *)
Levels  == {0, 2047, 4095}
NoWrite == -1

VARIABLES
  drm,         \* the CRTC state DRM has swapped in
  calls,       \* callbacks the commit tail has still to make
  changed,     \* mode_changed of its CRTC state
  pstate,      \* ctx->panel_state
  mode,        \* ctx->current_mode
  refresh,     \* ctx->self_refresh_active
  forceOn,     \* ctx->force_power_on
  regs,        \* how often the supplies are enabled
  power,       \* bl->props.power is FB_BLANK_UNBLANK
  vddd,        \* the voltage of VDDD: normal or lp
  postLp,      \* ctx->post_vddd_lp
  needLp,      \* ctx->need_post_vddd_lp
  chip,        \* what the chip does
  lost,        \* history: a command was sent to a chip that cannot hear it
  level,       \* bl->props.brightness
  bl,          \* bl->props.state: normal, lp or standby
  binned,      \* ctx->current_binned_lp: none, low or high
  shown,       \* the brightness the chip shows in a normal mode
  brInit,      \* ctx->is_brightness_initialized
  writer,      \* the brightness write between its check and mode_lock, or NoWrite
  used         \* commits and sysfs writes so far

tail   == <<drm, calls, changed>>
supply == <<regs, power>>
low    == <<vddd, needLp>>
light  == <<level, bl, binned, shown, brInit>>
vars   == <<tail, pstate, mode, refresh, forceOn, supply, low, postLp, chip, lost, light, writer, used>>

TypeOK ==
  /\ drm \in [on : BOOLEAN, refresh : BOOLEAN, blanked : BOOLEAN, mode : Mode \cup {NoMode}]
  /\ calls \in Seq(Callbacks) /\ changed \in BOOLEAN
  /\ pstate \in PanelStates /\ mode \in Mode \cup {NoMode}
  /\ refresh \in BOOLEAN /\ forceOn \in BOOLEAN
  /\ regs \in Nat /\ power \in BOOLEAN
  /\ vddd \in {"normal", "lp"} /\ postLp \in BOOLEAN /\ needLp \in BOOLEAN
  /\ chip \in ChipStates /\ lost \in BOOLEAN
  /\ level \in Levels /\ bl \in {"normal", "lp", "standby"}
  /\ binned \in {"none", "low", "high"} /\ shown \in Levels /\ brInit \in BOOLEAN
  /\ writer \in Levels \cup {NoWrite}
  /\ used \in [commits : 0 .. MaxCommits, writes : 0 .. MaxWrites]

Active      == pstate \in {"LP", "NORMAL"}            \* is_panel_active
Enabled     == pstate \notin {"OFF", "UNINITIALIZED"} \* is_panel_enabled
AtRest      == calls = <<>>
Wqhd        == [res |-> "wqhd", lp |-> FALSE]         \* the preferred mode

(* The boot loader left the panel on, or off. *)
Init ==
  /\ drm = [on |-> FALSE, refresh |-> FALSE, blanked |-> FALSE, mode |-> NoMode]
  /\ calls = <<>> /\ changed = FALSE
  /\ \E lit \in BOOLEAN :
       /\ pstate = IF lit THEN "HANDOFF" ELSE "UNINITIALIZED"
       /\ mode = IF lit THEN Wqhd ELSE NoMode
       /\ chip = IF lit THEN "on" ELSE "dead"
       /\ regs = IF lit THEN 1 ELSE 0
       /\ power = lit /\ brInit = lit
  /\ refresh = FALSE /\ forceOn = FALSE
  /\ vddd = "normal" /\ postLp \in BOOLEAN /\ needLp = FALSE
  /\ lost = FALSE
  /\ level = 2047 /\ bl = "normal" /\ binned = "none" /\ shown = 2047
  /\ writer = NoWrite /\ used = [commits |-> 0, writes |-> 0]

-----------------------------------------------------------------------------
(* Commits: the state DRM swaps in and the callbacks its tail will make.     *)
Commit(new, isChanged, sequence) ==
  /\ AtRest /\ used.commits < MaxCommits
  /\ drm' = new /\ changed' = isChanged /\ calls' = sequence
  /\ used' = [used EXCEPT !.commits = @ + 1]
  /\ UNCHANGED <<pstate, mode, refresh, forceOn, supply, low, postLp, chip, lost, light, writer>>

Off      == <<"disable", "postDisable">>
SetMode(different) == IF different THEN <<"modeSet">> ELSE <<>>
On       == <<"preEnable", "enable">>

(* A lit panel goes into or out of low power with another resolution, or     *)
(* from the boot loader's picture.                                           *)
ModesetLp(m) ==
  /\ chip \in {"on", "aod"} /\ m.lp # (chip = "aod")
  /\ m.res # drm.mode.res

SwitchOn ==
  \E m \in Mode :
    /\ ~drm.on /\ ~drm.blanked
    /\ "modeset_lp" \in Races \/ ~ModesetLp(m)
    /\ Commit([on |-> TRUE, refresh |-> FALSE, blanked |-> FALSE, mode |-> m], m # drm.mode,
              SetMode(m # drm.mode) \o On)

SwitchOff ==
  /\ drm.on
  /\ Commit([drm EXCEPT !.on = FALSE, !.refresh = FALSE], FALSE, Off)

(* The hibernation handler enters self refresh, a frame leaves it. *)
Sleep ==
  /\ drm.on /\ ~drm.refresh
  /\ Commit([drm EXCEPT !.refresh = TRUE], FALSE, Off)

(* A seamless switch keeps the panel on, and its mode is set in the flush;   *)
(* exynos_drm_connector_check_mode allows it for an active panel and the     *)
(* same resolution.                                                          *)
Seamless(m) == Active /\ m.res = mode.res

Frame ==
  \E m \in Mode :
    /\ drm.on /\ (drm.refresh \/ m # drm.mode)
    /\ "modeset_lp" \in Races \/ ~ModesetLp(m)
    /\ Commit([drm EXCEPT !.refresh = FALSE, !.mode = m], m # drm.mode /\ ~Seamless(m),
         IF m = drm.mode THEN On
         ELSE IF Seamless(m) THEN (IF drm.refresh THEN On ELSE <<>>) \o <<"modeSet">>
         ELSE Off \o <<"modeSet">> \o On)

(* The trusted UI blanks an awake display, and brings its state back later.  *)
Blank ==
  /\ drm.on /\ ~drm.refresh
  /\ Commit([drm EXCEPT !.on = FALSE, !.blanked = TRUE], FALSE, Off)

Unblank ==
  /\ drm.blanked
  /\ Commit([drm EXCEPT !.on = TRUE, !.blanked = FALSE], FALSE, On)

-----------------------------------------------------------------------------
(* The chip and the backlight. *)
Deaf(c) == c \in {"dead", "held"}

(* A command makes a chip that hears it do something else. *)
After(c, to) == IF Deaf(c) THEN c ELSE to

PowerOn ==
  /\ regs' = regs + 1 /\ power' = TRUE
  /\ chip' = IF regs = 0 THEN "held" ELSE chip

(* exynos_panel_set_power drives the reset line low before the supplies go.  *)
PowerOff ==
  /\ regs' = regs - 1 /\ power' = FALSE
  /\ chip' = IF regs = 1 THEN "dead" ELSE "held"

BacklightOf(p, old) ==
  CASE p = "NORMAL" -> "normal" [] p = "LP" -> "lp" [] p = "MODESET" -> old [] OTHER -> "standby"

SetBacklightState(p) == bl' = BacklightOf(p, bl)

(* s6e3hc4_binned_lp: the bin of a level in low power, if it has one.        *)
HasBin(br) == br <= 2047
Bin(br)    == IF br <= 80 THEN "low" ELSE "high"

(* set_brightness and, in a low-power mode, exynos_panel_set_binned_lp,      *)
(* which leaves the panel as it is for a level without a bin.                *)
SetBrightness(br) ==
  IF ~mode.lp
  THEN shown' = br /\ lost' = (lost \/ Deaf(chip)) /\ UNCHANGED <<bl, binned>>
  ELSE IF ~HasBin(br) \/ (bl = "lp" /\ binned = Bin(br))
  THEN UNCHANGED <<bl, binned, shown, lost>>
  ELSE /\ binned' = Bin(br) /\ SetBacklightState("LP")
       /\ lost' = (lost \/ Deaf(chip))
       /\ UNCHANGED shown

(* exynos_update_status ignores a level 0 before the first other level. *)
Ignored(br) == ~Active \/ (~brInit /\ br = 0)

-----------------------------------------------------------------------------
(* The callbacks of the commit tail. *)
At(c) == calls # <<>> /\ Head(calls) = c
Next_(updateBacklight) ==
  calls' = (IF updateBacklight THEN <<"backlight">> ELSE <<>>) \o Tail(calls)

Idle == "brightness" \in Races \/ writer = NoWrite

(* exynos_panel_bridge_disable on the way into self refresh. *)
DisableForRefresh ==
  /\ At("disable") /\ drm.refresh /\ ~drm.blanked
  /\ refresh' = TRUE
  /\ IF postLp /\ needLp THEN vddd' = "lp" /\ needLp' = FALSE ELSE UNCHANGED low
  /\ Next_(FALSE)
  /\ UNCHANGED <<drm, changed, pstate, mode, forceOn, supply, postLp, chip, lost, light, writer, used>>

StateWhileDisabled ==
  IF drm.blanked            THEN "BLANK"
  ELSE IF changed /\ drm.on THEN "MODESET"
  ELSE IF forceOn           THEN "BLANK"
  ELSE "OFF"

(* s6e3hc4_disable: nothing for a modeset, else display off, and sleep in    *)
(* for an off panel.                                                         *)
DisableChip(p) ==
  IF p = "MODESET" THEN UNCHANGED <<refresh, binned, chip, lost>>
  ELSE /\ refresh' = FALSE /\ binned' = "none"
       /\ chip' = After(chip, IF p = "OFF" \/ chip = "sleep" THEN "sleep" ELSE "dark")
       /\ lost' = (lost \/ Deaf(chip))

Disable ==
  /\ At("disable") /\ ~(drm.refresh /\ ~drm.blanked)
  /\ Idle
  /\ pstate' = StateWhileDisabled
  /\ DisableChip(pstate')
  /\ Next_(FALSE)
  /\ UNCHANGED <<drm, changed, mode, forceOn, supply, low, postLp, level, bl, shown, brInit, writer, used>>

(* Mutant: the supplies go whatever the state. *)
PostDisableAlways ==
  /\ At("postDisable")
  /\ PowerOff
  /\ SetBacklightState(pstate)
  /\ Next_(FALSE)
  /\ UNCHANGED <<drm, changed, pstate, mode, refresh, forceOn, low, postLp, lost,
                 level, binned, shown, brInit, writer, used>>

PostDisable ==
  /\ At("postDisable")
  /\ IF Enabled THEN UNCHANGED <<supply, chip>> ELSE PowerOff
  /\ SetBacklightState(pstate)
  /\ Next_(FALSE)
  /\ UNCHANGED <<drm, changed, pstate, mode, refresh, forceOn, low, postLp, lost,
                 level, binned, shown, brInit, writer, used>>

-----------------------------------------------------------------------------
(* exynos_panel_bridge_mode_set. *)
SameMode ==
  /\ At("modeSet") /\ drm.mode = mode
  /\ Next_(FALSE)
  /\ UNCHANGED <<drm, changed, pstate, mode, refresh, forceOn, supply, low, postLp, chip, lost,
                 light, writer, used>>

StateAtModeSet == IF pstate = "HANDOFF" THEN "HANDOFF_MODESET" ELSE pstate

(* Mutant: the backlight is not told of low power. *)
EnterLpNoBacklight ==
  /\ At("modeSet") /\ drm.mode # mode /\ drm.mode.lp
  /\ mode' = drm.mode
  /\ IF Active
     THEN pstate' = "LP" /\ chip' = After(chip, "aod") /\ lost' = (lost \/ Deaf(chip))
     ELSE pstate' = StateAtModeSet /\ UNCHANGED <<chip, lost>>
  /\ IF postLp THEN needLp' = TRUE /\ UNCHANGED vddd ELSE vddd' = "lp" /\ UNCHANGED needLp
  /\ Next_(FALSE)
  /\ UNCHANGED <<drm, changed, refresh, forceOn, supply, postLp, light, writer, used>>

EnterLp ==
  /\ At("modeSet") /\ drm.mode # mode /\ drm.mode.lp
  /\ mode' = drm.mode
  /\ IF Active
     THEN pstate' = "LP" /\ chip' = After(chip, "aod") /\ lost' = (lost \/ Deaf(chip))
     ELSE pstate' = StateAtModeSet /\ UNCHANGED <<chip, lost>>
  /\ IF postLp THEN needLp' = TRUE /\ UNCHANGED vddd ELSE vddd' = "lp" /\ UNCHANGED needLp
  /\ Next_(Active)
  /\ UNCHANGED <<drm, changed, refresh, forceOn, supply, postLp, light, writer, used>>

(* Mutant: a voltage change put off is not called off. *)
LeaveLpKeepsNeed ==
  /\ At("modeSet") /\ ~drm.mode.lp /\ mode.lp
  /\ mode' = drm.mode
  /\ vddd' = "normal" /\ binned' = "none" /\ UNCHANGED needLp
  /\ IF Active
     THEN /\ pstate' = "NORMAL" /\ SetBacklightState("NORMAL")
          /\ chip' = After(chip, "on") /\ lost' = (lost \/ Deaf(chip))
     ELSE pstate' = StateAtModeSet /\ UNCHANGED <<chip, lost, bl>>
  /\ Next_(Active)
  /\ UNCHANGED <<drm, changed, refresh, forceOn, supply, postLp, level, shown, brInit, writer, used>>

LeaveLp ==
  /\ At("modeSet") /\ ~drm.mode.lp /\ mode.lp
  /\ mode' = drm.mode
  /\ needLp' = FALSE /\ vddd' = "normal" /\ binned' = "none"
  /\ IF Active
     THEN /\ pstate' = "NORMAL" /\ SetBacklightState("NORMAL")
          /\ chip' = After(chip, "on") /\ lost' = (lost \/ Deaf(chip))
     ELSE pstate' = StateAtModeSet /\ UNCHANGED <<chip, lost, bl>>
  /\ Next_(Active)
  /\ UNCHANGED <<drm, changed, refresh, forceOn, supply, postLp, level, shown, brInit, writer, used>>

SetNormalMode ==
  /\ At("modeSet") /\ drm.mode # mode /\ ~drm.mode.lp /\ ~mode.lp
  /\ mode' = drm.mode /\ pstate' = StateAtModeSet
  /\ lost' = (lost \/ (Active /\ Deaf(chip)))
  /\ Next_(FALSE)
  /\ UNCHANGED <<drm, changed, refresh, forceOn, supply, low, postLp, chip, light, writer, used>>

-----------------------------------------------------------------------------
(* exynos_panel_bridge_pre_enable; no panel driver has a panel_reset. *)
PreEnable ==
  /\ At("preEnable")
  /\ IF Enabled THEN UNCHANGED <<supply, chip>> ELSE PowerOn
  /\ Next_(FALSE)
  /\ UNCHANGED <<drm, changed, pstate, mode, refresh, forceOn, low, postLp, lost, light, writer, used>>

(* Mutant: no display on out of BLANK. *)
ChipAfterEnableDark(p) ==
  LET needsReset == p \in {"OFF", "UNINITIALIZED"}
      awake      == IF needsReset THEN (IF regs > 0 THEN "dark" ELSE "dead") ELSE chip
      to         == IF mode.lp THEN "aod" ELSE IF needsReset THEN "on" ELSE awake
  IN  IF Deaf(awake) \/ awake = "sleep" THEN awake ELSE to

(* s6e3hc4_enable: reset and initialisation for a panel that was off; the    *)
(* display is switched on after those, out of BLANK and into low power.      *)
ChipAfterEnable(p) ==
  LET needsReset == p \in {"OFF", "UNINITIALIZED"}
      awake      == IF needsReset THEN (IF regs > 0 THEN "dark" ELSE "dead") ELSE chip
      to         == IF mode.lp THEN "aod" ELSE IF needsReset \/ p = "BLANK" THEN "on" ELSE awake
  IN  IF Deaf(awake) \/ awake = "sleep" THEN awake ELSE to

(* A panel that was on at boot is only identified, unless that fails or its  *)
(* mode changed; an active panel comes out of self refresh and stays as it   *)
(* is.                                                                       *)
Enable ==
  /\ At("enable")
  /\ \E identified \in BOOLEAN :
       LET before == IF pstate = "HANDOFF_MODESET" /\ identified THEN "MODESET" ELSE pstate
           skip   == Active \/ (pstate = "HANDOFF" /\ identified)
       IN /\ identified \/ pstate \in {"HANDOFF", "HANDOFF_MODESET"}
          /\ IF skip THEN UNCHANGED <<chip, lost, brInit>>
             ELSE /\ chip' = ChipAfterEnable(before)
                  /\ lost' = (lost \/ Deaf(chip'))
                  /\ brInit' = (brInit /\ before \notin {"OFF", "UNINITIALIZED"})
          /\ Next_(~skip)
  /\ pstate' = IF mode.lp THEN "LP" ELSE "NORMAL"
  /\ refresh' = FALSE
  /\ IF refresh THEN UNCHANGED bl ELSE SetBacklightState(pstate')
  /\ UNCHANGED <<drm, changed, mode, forceOn, supply, low, postLp, level, binned, shown, writer, used>>

(* backlight_update_status, under its update_lock. *)
UpdateBacklight ==
  /\ At("backlight") /\ writer = NoWrite
  /\ IF Ignored(level) THEN UNCHANGED <<bl, binned, shown, lost, brInit>>
     ELSE SetBrightness(IF power THEN level ELSE 0) /\ brInit' = TRUE
  /\ Next_(FALSE)
  /\ UNCHANGED <<drm, changed, pstate, mode, refresh, forceOn, supply, low, postLp, chip, level, writer, used>>

-----------------------------------------------------------------------------
(* sysfs. *)
Write ==
  /\ used.writes < MaxWrites
  /\ used' = [used EXCEPT !.writes = @ + 1]

WriteBrightness ==
  /\ Write /\ writer = NoWrite
  /\ \E br \in Levels :
       /\ br # level /\ level' = br
       /\ "brightness_boot" \in Races \/ pstate # "HANDOFF"
       /\ IF Ignored(br) THEN UNCHANGED <<writer, brInit>>
          ELSE writer' = (IF power THEN br ELSE 0) /\ brInit' = TRUE
  /\ UNCHANGED <<tail, pstate, mode, refresh, forceOn, supply, low, postLp, chip, lost, bl, binned, shown>>

SendBrightness ==
  /\ writer # NoWrite /\ writer' = NoWrite
  /\ SetBrightness(writer)
  /\ UNCHANGED <<tail, pstate, mode, refresh, forceOn, supply, low, postLp, chip, level, brInit, used>>

(* force_power_on_store powers a panel that is off, and makes it BLANK.      *)
ForcePowerOn ==
  /\ Write
  /\ \E on \in BOOLEAN :
       /\ on # forceOn /\ forceOn' = on
       /\ "force_dark" \in Races \/ ~on \/ pstate # "OFF"
       /\ IF on /\ pstate = "OFF" THEN PowerOn /\ pstate' = "BLANK"
          ELSE UNCHANGED <<supply, chip, pstate>>
  /\ UNCHANGED <<tail, mode, refresh, low, postLp, lost, light, writer>>

Next ==
  \/ SwitchOn \/ SwitchOff \/ Sleep \/ Frame \/ Blank \/ Unblank
  \/ DisableForRefresh \/ Disable \/ PostDisable
  \/ SameMode \/ EnterLp \/ LeaveLp \/ SetNormalMode
  \/ PreEnable \/ Enable \/ UpdateBacklight
  \/ WriteBrightness \/ SendBrightness \/ ForcePowerOn

Spec == Init /\ [][Next]_vars

-----------------------------------------------------------------------------
(* Whatever the callbacks and the sysfs writes did, between commits a panel  *)
(* that is off holds no supply and any other holds them once.                *)
SupplyAgrees == AtRest => regs = (IF Enabled THEN 1 ELSE 0)

(* No command of the bridge callbacks or of a brightness write goes to a     *)
(* panel without supply or in reset, where it is lost without an error.      *)
CommandsReachPanel == ~lost

(* VDDD is only at its low-power voltage while the panel shows nothing or    *)
(* low-power content, never under a normal picture.                          *)
VoltageSuffices == vddd = "lp" => chip # "on"

(* The three together: power, voltage and commands go with what the panel is *)
(* in.                                                                       *)
PowerSound == TypeOK /\ SupplyAgrees /\ CommandsReachPanel /\ VoltageSuffices

(* After every commit that leaves the display on, the panel shows content of *)
(* the mode DRM asked for, whatever state it came from: boot, off, forced    *)
(* on, blanked by the trusted UI, self refresh or a full modeset.            *)
ShowsWhatDrmAsked ==
  AtRest /\ drm.on =>
    /\ Active /\ mode = drm.mode
    /\ chip = IF mode.lp THEN "aod" ELSE "on"

(* The backlight device tells user space what the panel does, and the panel  *)
(* shows the brightness that was asked for last, in low power its bin if the *)
(* level has one; a level 0 is not passed on before the first other level    *)
(* after a reset.                                                            *)
BacklightAgrees ==
  AtRest /\ writer = NoWrite /\ drm.mode # NoMode =>
    /\ pstate = "NORMAL" => bl = "normal" /\ (brInit => shown = level)
    /\ pstate = "LP" /\ brInit /\ HasBin(level) => bl = "lp" /\ binned = Bin(level)
    /\ pstate \in {"OFF", "BLANK"} => bl = "standby"

=============================================================================
