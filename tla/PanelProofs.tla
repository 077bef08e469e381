----------------------------- MODULE PanelProofs -----------------------------
(***************************************************************************)
(* The panel driver, for every number of commits and writes.  The module   *)
(* extends the three parts of the driver core, Panel, LocalHbm and         *)
(* PanelIdle: they share no state, and each theorem is about one of them.  *)
(* The theorems name the races they exclude; the others may happen.        *)
(***************************************************************************)
EXTENDS Panel, LocalHbm, PanelIdle, SequenceTheorems, TLAPS

-----------------------------------------------------------------------------
(* The callbacks a commit tail has still to make *)

(* What is left of a tail at each of its places. *)
PostDisableLeft == <<"postDisable">>
ModesetLeft     == <<"disable", "postDisable", "modeSet", "preEnable", "enable">>
PostModesetLeft == <<"postDisable", "modeSet", "preEnable", "enable">>
SwitchOnLeft    == <<"modeSet", "preEnable", "enable">>
OnLeft          == <<"preEnable", "enable">>
EnableLeft      == <<"enable">>
WakeLeft        == <<"preEnable", "enable", "modeSet">>
EnableWakeLeft  == <<"enable", "modeSet">>
SeamlessLeft    == <<"modeSet">>
BacklightLeft   == <<"backlight">>
DisableLeft     == <<"disable", "postDisable">>

Lefts ==
  {<<>>, DisableLeft, PostDisableLeft, ModesetLeft, PostModesetLeft, SwitchOnLeft, OnLeft, EnableLeft,
   WakeLeft, EnableWakeLeft, SeamlessLeft, BacklightLeft}

(* Their lengths and first callbacks tell them apart. *)
LEMMA LeftsDiffer ==
  /\ Len(DisableLeft) = 2 /\ Head(DisableLeft) = "disable"
  /\ Len(PostDisableLeft) = 1 /\ Head(PostDisableLeft) = "postDisable"
  /\ Len(ModesetLeft) = 5 /\ Head(ModesetLeft) = "disable"
  /\ Len(PostModesetLeft) = 4 /\ Head(PostModesetLeft) = "postDisable"
  /\ Len(SwitchOnLeft) = 3 /\ Head(SwitchOnLeft) = "modeSet"
  /\ Len(OnLeft) = 2 /\ Head(OnLeft) = "preEnable"
  /\ Len(EnableLeft) = 1 /\ Head(EnableLeft) = "enable"
  /\ Len(WakeLeft) = 3 /\ Head(WakeLeft) = "preEnable"
  /\ Len(EnableWakeLeft) = 2 /\ Head(EnableWakeLeft) = "enable"
  /\ Len(SeamlessLeft) = 1 /\ Head(SeamlessLeft) = "modeSet"
  /\ Len(BacklightLeft) = 1 /\ Head(BacklightLeft) = "backlight"
  /\ Len(<<>>) = 0
  BY DEF DisableLeft, PostDisableLeft, ModesetLeft, PostModesetLeft, SwitchOnLeft, OnLeft,
     EnableLeft,
         WakeLeft, EnableWakeLeft, SeamlessLeft, BacklightLeft

LEMMA LeftsApart ==
  /\ <<>> \notin {DisableLeft, PostDisableLeft, ModesetLeft, PostModesetLeft, SwitchOnLeft,
        OnLeft, EnableLeft, WakeLeft, EnableWakeLeft, SeamlessLeft, BacklightLeft}
  /\ DisableLeft \notin {PostDisableLeft, ModesetLeft, PostModesetLeft, SwitchOnLeft, OnLeft,
        EnableLeft, WakeLeft, EnableWakeLeft, SeamlessLeft, BacklightLeft}
  /\ PostDisableLeft \notin {ModesetLeft, PostModesetLeft, SwitchOnLeft, OnLeft, EnableLeft,
        WakeLeft, EnableWakeLeft, SeamlessLeft, BacklightLeft}
  /\ ModesetLeft \notin {PostModesetLeft, SwitchOnLeft, OnLeft, EnableLeft, WakeLeft,
        EnableWakeLeft, SeamlessLeft, BacklightLeft}
  /\ PostModesetLeft \notin {SwitchOnLeft, OnLeft, EnableLeft, WakeLeft, EnableWakeLeft,
        SeamlessLeft, BacklightLeft}
  /\ SwitchOnLeft \notin {OnLeft, EnableLeft, WakeLeft, EnableWakeLeft, SeamlessLeft,
        BacklightLeft}
  /\ OnLeft \notin {EnableLeft, WakeLeft, EnableWakeLeft, SeamlessLeft, BacklightLeft}
  /\ EnableLeft \notin {WakeLeft, EnableWakeLeft, SeamlessLeft, BacklightLeft}
  /\ WakeLeft \notin {EnableWakeLeft, SeamlessLeft, BacklightLeft}
  /\ EnableWakeLeft \notin {SeamlessLeft, BacklightLeft}
  /\ SeamlessLeft \notin {BacklightLeft}
<1> USE LeftsDiffer
<1>1. <<>> \notin {DisableLeft, PostDisableLeft, ModesetLeft, PostModesetLeft, SwitchOnLeft,
        OnLeft, EnableLeft, WakeLeft, EnableWakeLeft, SeamlessLeft, BacklightLeft}
  OBVIOUS
<1>2. DisableLeft \notin {PostDisableLeft, ModesetLeft, PostModesetLeft, SwitchOnLeft,
        OnLeft, EnableLeft, WakeLeft, EnableWakeLeft, SeamlessLeft, BacklightLeft}
  OBVIOUS
<1>3. PostDisableLeft \notin {ModesetLeft, PostModesetLeft, SwitchOnLeft, OnLeft,
        EnableLeft, WakeLeft, EnableWakeLeft, SeamlessLeft, BacklightLeft}
  OBVIOUS
<1>4. ModesetLeft \notin {PostModesetLeft, SwitchOnLeft, OnLeft, EnableLeft, WakeLeft,
        EnableWakeLeft, SeamlessLeft, BacklightLeft}
  OBVIOUS
<1>5. PostModesetLeft \notin {SwitchOnLeft, OnLeft, EnableLeft, WakeLeft, EnableWakeLeft,
        SeamlessLeft, BacklightLeft}
  OBVIOUS
<1>6. SwitchOnLeft \notin {OnLeft, EnableLeft, WakeLeft, EnableWakeLeft, SeamlessLeft,
        BacklightLeft}
  OBVIOUS
<1>7. OnLeft \notin {EnableLeft, WakeLeft, EnableWakeLeft, SeamlessLeft, BacklightLeft}
  OBVIOUS
<1>8. EnableLeft \notin {WakeLeft, EnableWakeLeft, SeamlessLeft, BacklightLeft}
  OBVIOUS
<1>9. WakeLeft \notin {EnableWakeLeft, SeamlessLeft, BacklightLeft}
  OBVIOUS
<1>10. EnableWakeLeft \notin {SeamlessLeft, BacklightLeft}
  OBVIOUS
<1>11. SeamlessLeft \notin {BacklightLeft}
  OBVIOUS
<1> QED BY <1>1, <1>2, <1>3, <1>4, <1>5, <1>6, <1>7, <1>8, <1>9, <1>10, <1>11

LEMMA LeftsTyped == Lefts \subseteq Seq(Callbacks)
  BY DEF Lefts, DisableLeft, PostDisableLeft, ModesetLeft, PostModesetLeft, SwitchOnLeft,
     OnLeft, EnableLeft,
         WakeLeft, EnableWakeLeft, SeamlessLeft, BacklightLeft, Callbacks

(* The sequences the commits begin with. *)
LEMMA BegunLeft ==
  /\ Off = DisableLeft
  /\ On = OnLeft
  /\ SetMode(TRUE) \o On = SwitchOnLeft
  /\ SetMode(FALSE) \o On = OnLeft
  /\ On \o <<"modeSet">> = WakeLeft
  /\ <<>> \o <<"modeSet">> = SeamlessLeft
  /\ Off \o <<"modeSet">> \o On = ModesetLeft
<1> DEFINE one == <<"modeSet">>
           cut == <<"disable", "postDisable", "modeSet">>
<1>1. /\ DisableLeft \in Seq(Callbacks) /\ OnLeft \in Seq(Callbacks) /\ one \in Seq(Callbacks)
      /\ cut \in Seq(Callbacks) /\ ModesetLeft \in Seq(Callbacks) /\ WakeLeft \in Seq(Callbacks)
      /\ SwitchOnLeft \in Seq(Callbacks)
  BY DEF DisableLeft, OnLeft, ModesetLeft, WakeLeft, SwitchOnLeft, Callbacks
<1>2. DisableLeft \o one = cut
  <2>1. DisableLeft \o one \in Seq(Callbacks) /\ Len(DisableLeft \o one) = 3 /\ Len(cut) = 3
    BY <1>1 DEF DisableLeft
  <2>2. \A i \in 1 .. 3 : (DisableLeft \o one)[i] = cut[i]
    BY <1>1 DEF DisableLeft
  <2> HIDE DEF cut, one
  <2> QED BY <1>1, <2>1, <2>2, SeqEqual
<1>3. cut \o OnLeft = ModesetLeft
  <2>1. cut \o OnLeft \in Seq(Callbacks) /\ Len(cut \o OnLeft) = 5 /\ Len(ModesetLeft) = 5
    BY <1>1 DEF OnLeft, ModesetLeft
  <2>2. \A i \in 1 .. 5 : (cut \o OnLeft)[i] = ModesetLeft[i]
    BY <1>1 DEF OnLeft, ModesetLeft
  <2> HIDE DEF cut
  <2> QED BY <1>1, <2>1, <2>2, SeqEqual
<1>4. one \o OnLeft = SwitchOnLeft
  <2>1. one \o OnLeft \in Seq(Callbacks) /\ Len(one \o OnLeft) = 3 /\ Len(SwitchOnLeft) = 3
    BY <1>1 DEF OnLeft, SwitchOnLeft
  <2>2. \A i \in 1 .. 3 : (one \o OnLeft)[i] = SwitchOnLeft[i]
    BY <1>1 DEF OnLeft, SwitchOnLeft
  <2> HIDE DEF one
  <2> QED BY <1>1, <2>1, <2>2, SeqEqual
<1>5. OnLeft \o one = WakeLeft
  <2>1. OnLeft \o one \in Seq(Callbacks) /\ Len(OnLeft \o one) = 3 /\ Len(WakeLeft) = 3
    BY <1>1 DEF OnLeft, WakeLeft
  <2>2. \A i \in 1 .. 3 : (OnLeft \o one)[i] = WakeLeft[i]
    BY <1>1 DEF OnLeft, WakeLeft
  <2> HIDE DEF one
  <2> QED BY <1>1, <2>1, <2>2, SeqEqual
<1>6. Off = DisableLeft /\ On = OnLeft
  BY DEF Off, On, DisableLeft, OnLeft
<1>7. <<>> \o OnLeft = OnLeft /\ <<>> \o one = SeamlessLeft
  BY <1>1 DEF OnLeft, SeamlessLeft
<1>8. SetMode(TRUE) = one /\ SetMode(FALSE) = <<>>
  BY DEF SetMode
<1> HIDE DEF cut
<1> QED BY <1>2, <1>3, <1>4, <1>5, <1>6, <1>7, <1>8

LEMMA TailsLeft ==
  /\ Tail(DisableLeft) = PostDisableLeft /\ Tail(PostDisableLeft) = <<>>
  /\ Tail(ModesetLeft) = PostModesetLeft /\ Tail(PostModesetLeft) = SwitchOnLeft
  /\ Tail(SwitchOnLeft) = OnLeft /\ Tail(OnLeft) = EnableLeft /\ Tail(EnableLeft) = <<>>
  /\ Tail(WakeLeft) = EnableWakeLeft /\ Tail(EnableWakeLeft) = SeamlessLeft
  /\ Tail(SeamlessLeft) = <<>> /\ Tail(BacklightLeft) = <<>>
  BY DEF DisableLeft, PostDisableLeft, ModesetLeft, PostModesetLeft, SwitchOnLeft, OnLeft,
     EnableLeft,
         WakeLeft, EnableWakeLeft, SeamlessLeft, BacklightLeft

(* What Next_ makes of the callbacks after the first. *)
LEMMA NextLeaves ==
  ASSUME NEW update, Next_(update), calls \in Lefts, calls # <<>>
  PROVE  /\ ~update => calls' = Tail(calls)
         /\ update /\ Tail(calls) = <<>> => calls' = BacklightLeft
<1>1. Tail(calls) \in Seq(Callbacks)
  BY LeftsTyped
<1>2. <<>> \o Tail(calls) = Tail(calls)
  BY <1>1
<1>3. <<"backlight">> \o <<>> = BacklightLeft
  BY DEF BacklightLeft
<1> QED BY <1>2, <1>3 DEF Next_

(* What each callback leaves. *)
LEMMA DisableLeaves ==
  ASSUME calls \in Lefts, At("disable"), Next_(FALSE)
  PROVE  \/ calls = DisableLeft /\ calls' = PostDisableLeft
         \/ calls = ModesetLeft /\ calls' = PostModesetLeft
<1>1. calls \in {DisableLeft, ModesetLeft}
  BY LeftsDiffer DEF At, Lefts
<1> QED BY <1>1, NextLeaves, TailsLeft, LeftsDiffer DEF At

LEMMA PostDisableLeaves ==
  ASSUME calls \in Lefts, At("postDisable"), Next_(FALSE)
  PROVE  \/ calls = PostDisableLeft /\ calls' = <<>>
         \/ calls = PostModesetLeft /\ calls' = SwitchOnLeft
<1>1. calls \in {PostDisableLeft, PostModesetLeft}
  BY LeftsDiffer DEF At, Lefts
<1> QED BY <1>1, NextLeaves, TailsLeft, LeftsDiffer DEF At

LEMMA ModeSetLeaves ==
  ASSUME calls \in Lefts, At("modeSet"), NEW update, Next_(update)
  PROVE  \/ calls = SwitchOnLeft /\ (~update => calls' = OnLeft)
         \/ calls = SeamlessLeft /\ calls' = IF update THEN BacklightLeft ELSE <<>>
<1>1. calls \in {SwitchOnLeft, SeamlessLeft} /\ calls # <<>>
  BY LeftsDiffer DEF At, Lefts
<1>2. CASE update
  <2>1. Tail(calls) = <<>> => calls' = BacklightLeft
    BY <1>1, <1>2, NextLeaves, Zenon
  <2> QED BY <1>1, <1>2, <2>1, TailsLeft
<1>3. CASE ~update
  <2>1. Next_(FALSE)
    BY <1>3 DEF Next_
  <2>2. calls' = Tail(calls)
    BY <1>1, <2>1, NextLeaves
  <2> QED BY <1>1, <1>3, <2>2, TailsLeft
<1> QED BY <1>2, <1>3

LEMMA PreEnableLeaves ==
  ASSUME calls \in Lefts, At("preEnable"), Next_(FALSE)
  PROVE  \/ calls = OnLeft /\ calls' = EnableLeft
         \/ calls = WakeLeft /\ calls' = EnableWakeLeft
<1>1. calls \in {OnLeft, WakeLeft}
  BY LeftsDiffer DEF At, Lefts
<1> QED BY <1>1, NextLeaves, TailsLeft, LeftsDiffer DEF At

LEMMA EnableLeaves ==
  ASSUME calls \in Lefts, At("enable"), NEW update, Next_(update)
  PROVE  \/ calls = EnableLeft /\ calls' = IF update THEN BacklightLeft ELSE <<>>
         \/ calls = EnableWakeLeft /\ (~update => calls' = SeamlessLeft)
<1>1. calls \in {EnableLeft, EnableWakeLeft} /\ calls # <<>>
  BY LeftsDiffer DEF At, Lefts
<1>2. CASE update
  <2>1. Tail(calls) = <<>> => calls' = BacklightLeft
    BY <1>1, <1>2, NextLeaves, Zenon
  <2> QED BY <1>1, <1>2, <2>1, TailsLeft
<1>3. CASE ~update
  <2>1. Next_(FALSE)
    BY <1>3 DEF Next_
  <2>2. calls' = Tail(calls)
    BY <1>1, <2>1, NextLeaves
  <2> QED BY <1>1, <1>3, <2>2, TailsLeft
<1> QED BY <1>2, <1>3

LEMMA BacklightLeaves ==
  ASSUME calls \in Lefts, At("backlight"), Next_(FALSE)
  PROVE  calls = BacklightLeft /\ calls' = <<>>
<1>1. calls = BacklightLeft
  BY LeftsDiffer DEF At, Lefts
<1> QED BY <1>1, NextLeaves, TailsLeft, LeftsDiffer DEF At

-----------------------------------------------------------------------------
(* Types *)

DrmState == [on : BOOLEAN, refresh : BOOLEAN, blanked : BOOLEAN, mode : Mode \cup {NoMode}]

FlagsTyped ==
  /\ changed \in BOOLEAN /\ refresh \in BOOLEAN /\ forceOn \in BOOLEAN /\ power \in BOOLEAN
  /\ postLp \in BOOLEAN /\ needLp \in BOOLEAN /\ lost \in BOOLEAN /\ brInit \in BOOLEAN

ValuesTyped ==
  /\ pstate \in PanelStates /\ mode \in Mode \cup {NoMode}
  /\ vddd \in {"normal", "lp"} /\ chip \in ChipStates
  /\ level \in Levels /\ bl \in {"normal", "lp", "standby"}
  /\ binned \in {"none", "low", "high"} /\ shown \in Levels
  /\ writer \in Levels \cup {NoWrite}

BoundsTyped == used \in [commits : 0 .. MaxCommits, writes : 0 .. MaxWrites]

LEMMA DrmNext ==
  ASSUME drm \in DrmState, Next
  PROVE  drm' \in DrmState
<1> USE DEF DrmState
<1>1. CASE SwitchOn
  BY <1>1 DEF SwitchOn, Commit
<1>2. CASE SwitchOff
  BY <1>2 DEF SwitchOff, Commit
<1>3. CASE Sleep
  BY <1>3 DEF Sleep, Commit
<1>4. CASE Frame
  BY <1>4 DEF Frame, Commit
<1>5. CASE Blank
  BY <1>5 DEF Blank, Commit
<1>6. CASE Unblank
  BY <1>6 DEF Unblank, Commit
<1>7. CASE ~(SwitchOn \/ SwitchOff \/ Sleep \/ Frame \/ Blank \/ Unblank)
  <2>1. UNCHANGED drm
    BY <1>7 DEF Next, DisableForRefresh, Disable, PostDisable, SameMode, EnterLp, LeaveLp,
       SetNormalMode, PreEnable, Enable, UpdateBacklight, WriteBrightness, SendBrightness,
       ForcePowerOn, tail
  <2> QED BY <2>1
<1> QED
  BY <1>1, <1>2, <1>3, <1>4, <1>5, <1>6, <1>7

LEMMA BoundsNext ==
  ASSUME BoundsTyped, Next
  PROVE  BoundsTyped'
<1> USE PanelBoundsAssumption DEF BoundsTyped
<1>1. CASE SwitchOn \/ SwitchOff \/ Sleep \/ Frame \/ Blank \/ Unblank
  <2>1. used.commits < MaxCommits /\ used' = [used EXCEPT !.commits = @ + 1]
    BY <1>1 DEF Commit, SwitchOn, SwitchOff, Sleep, Frame, Blank, Unblank
  <2> QED BY <2>1
<1>2. CASE WriteBrightness \/ ForcePowerOn
  BY <1>2 DEF Write, WriteBrightness, ForcePowerOn
<1>3. CASE ~(SwitchOn \/ SwitchOff \/ Sleep \/ Frame \/ Blank \/ Unblank
             \/ WriteBrightness \/ ForcePowerOn)
  <2>1. UNCHANGED used
    BY <1>3 DEF Next, DisableForRefresh, Disable, PostDisable, SameMode, EnterLp, LeaveLp,
       SetNormalMode, PreEnable, Enable, UpdateBacklight, SendBrightness
  <2> QED BY <2>1
<1> QED
  BY <1>1, <1>2, <1>3

LEMMA FlagsNext ==
  ASSUME FlagsTyped, Next
  PROVE  FlagsTyped'
<1> USE DEF FlagsTyped
<1>1. CASE SwitchOn
  BY <1>1, Zenon DEF SwitchOn, Commit, ModesetLp, AtRest, supply, low, light
<1>2. CASE SwitchOff
  BY <1>2, Zenon DEF SwitchOff, Commit, AtRest, supply, low, light
<1>3. CASE Sleep
  BY <1>3, Zenon DEF Sleep, Commit, AtRest, supply, low, light
<1>4. CASE Frame
  BY <1>4, Zenon DEF Frame, Commit, ModesetLp, Seamless, AtRest, Active, supply, low, light
<1>5. CASE Blank
  BY <1>5, Zenon DEF Blank, Commit, AtRest, supply, low, light
<1>6. CASE Unblank
  BY <1>6, Zenon DEF Unblank, Commit, AtRest, supply, low, light
<1>7. CASE DisableForRefresh
  BY <1>7, Zenon DEF DisableForRefresh, Next_, At, supply, low, light
<1>8. CASE Disable
  BY <1>8, Zenon DEF Disable, Next_, At, StateWhileDisabled, DisableChip, Idle, After, Deaf,
     supply, low
<1>9. CASE PostDisable
  BY <1>9, Zenon DEF PostDisable, Next_, At, PowerOff, SetBacklightState, Enabled, BacklightOf,
     supply, low
<1>10. CASE SameMode
  BY <1>10, Zenon DEF SameMode, Next_, At, supply, low, light
<1>11. CASE EnterLp
  BY <1>11, Zenon DEF EnterLp, Next_, At, After, Deaf, StateAtModeSet, Active, supply, light
<1>12. CASE LeaveLp
  BY <1>12, Zenon DEF LeaveLp, Next_, At, After, Deaf, SetBacklightState, StateAtModeSet, Active,
          BacklightOf, supply
<1>13. CASE SetNormalMode
  BY <1>13, Zenon DEF SetNormalMode, Next_, At, Deaf, StateAtModeSet, Active, supply, low, light
<1>14. CASE PreEnable
  BY <1>14, Zenon DEF PreEnable, Next_, At, PowerOn, Enabled, supply, low, light
<1>15. CASE Enable
  BY <1>15, Zenon DEF Enable, Next_, At, Deaf, SetBacklightState, ChipAfterEnable, Active,
     BacklightOf,
          supply, low
<1>16. CASE UpdateBacklight
  BY <1>16, Zenon DEF UpdateBacklight, Next_, At, SetBrightness, Ignored, Deaf,
     SetBacklightState, Active,
          BacklightOf, supply, low
<1>17. CASE WriteBrightness
  BY <1>17, Zenon DEF WriteBrightness, Ignored, Write, Active, tail, supply, low
<1>18. CASE SendBrightness
  BY <1>18, Zenon DEF SendBrightness, SetBrightness, Deaf, SetBacklightState, BacklightOf, tail,
     supply, low
<1>19. CASE ForcePowerOn
  BY <1>19, Zenon DEF ForcePowerOn, PowerOn, Write, tail, supply, low, light
<1> QED
  BY <1>1, <1>2, <1>3, <1>4, <1>5, <1>6, <1>7, <1>8, <1>9, <1>10, <1>11, <1>12, <1>13, <1>14,
     <1>15, <1>16, <1>17, <1>18, <1>19 DEF Next

LEMMA ValuesNext ==
  ASSUME drm \in DrmState, FlagsTyped, ValuesTyped, Next
  PROVE  ValuesTyped'
<1>1. CASE SwitchOn \/ SwitchOff \/ Sleep \/ Frame \/ Blank \/ Unblank
  <2>1. UNCHANGED <<pstate, mode, vddd, chip, level, bl, binned, shown, writer>>
    BY <1>1 DEF SwitchOn, SwitchOff, Sleep, Frame, Blank, Unblank, Commit, low, light
  <2> QED BY <2>1 DEF ValuesTyped
<1> USE DEF DrmState, ValuesTyped, PanelStates, ChipStates, Levels
<1>2. CASE DisableForRefresh
  BY <1>2 DEF DisableForRefresh, Next_, At, supply, low, light
<1>3. CASE Disable
  BY <1>3 DEF Disable, Next_, At, StateWhileDisabled, DisableChip, Idle, After, Deaf, supply, low
<1>4. CASE PostDisable
  BY <1>4 DEF PostDisable, Next_, At, PowerOff, SetBacklightState, Enabled, BacklightOf, supply, low
<1>5. CASE SameMode
  BY <1>5 DEF SameMode, Next_, At, supply, low, light
<1>6. CASE EnterLp
  BY <1>6 DEF EnterLp, Next_, At, After, Deaf, StateAtModeSet, Active, supply, light
<1>7. CASE LeaveLp
  BY <1>7 DEF LeaveLp, Next_, At, After, Deaf, SetBacklightState, StateAtModeSet, Active,
          BacklightOf, supply
<1>8. CASE SetNormalMode
  BY <1>8 DEF SetNormalMode, Next_, At, Deaf, StateAtModeSet, Active, supply, low, light
<1>9. CASE PreEnable
  BY <1>9 DEF PreEnable, Next_, At, PowerOn, Enabled, supply, low, light
<1>10. CASE Enable
  BY <1>10 DEF Enable, Next_, At, Deaf, SetBacklightState, ChipAfterEnable, Active, BacklightOf,
          supply, low
<1>11. CASE UpdateBacklight
  BY <1>11 DEF UpdateBacklight, Next_, At, SetBrightness, Bin, Ignored, Deaf, SetBacklightState, Active,
          BacklightOf, supply, low
<1>12. CASE WriteBrightness
  BY <1>12 DEF WriteBrightness, Ignored, Write, Active, tail, supply, low
<1>13. CASE SendBrightness
  BY <1>13 DEF SendBrightness, SetBrightness, Bin, Deaf, SetBacklightState, BacklightOf, tail,
     supply, low
<1>14. CASE ForcePowerOn
  BY <1>14 DEF ForcePowerOn, PowerOn, Write, tail, supply, low, light
<1> QED
  BY <1>1, <1>2, <1>3, <1>4, <1>5, <1>6, <1>7, <1>8, <1>9, <1>10, <1>11, <1>12, <1>13, <1>14 DEF
     Next

-----------------------------------------------------------------------------
(* Supplies, chip and mode *)

(* The panel is not forced on while it is off, no brightness is sent after   *)
(* its check found another state, and low power is entered and left without  *)
(* a full modeset.                                                           *)
Sheltered == Races \cap {"force_dark", "brightness", "modeset_lp"} = {}

DrmInv ==
  /\ drm.refresh => drm.on
  /\ drm.blanked => ~drm.on
  /\ drm.on \/ drm.blanked => drm.mode # NoMode

Asked == mode = drm.mode

(* A display that DRM has switched off: as the boot loader left it, blanked, *)
(* kept on by force or off.                                                  *)
Dormant ==
  \/ drm.mode = NoMode /\ pstate \in {"HANDOFF", "UNINITIALIZED"} /\ ~drm.blanked
  \/ Asked /\ pstate = "BLANK"
  \/ Asked /\ pstate = "OFF" /\ ~drm.blanked

(* What is known at each place of the tail. *)
AtRestOk       == IF drm.on THEN Active /\ Asked ELSE Dormant
AtBacklight    == drm.on /\ Active /\ Asked
AtDisable      == Active /\ Asked /\ (drm.on <=> drm.refresh) /\ ~changed
AtPostDisable  ==
  IF drm.on THEN drm.refresh /\ Active /\ Asked ELSE Dormant /\ pstate \in {"OFF", "BLANK"}
AtModeset      == drm.on /\ ~drm.refresh /\ changed /\ Active /\ drm.mode.lp = mode.lp
AtPostModeset  == drm.on /\ pstate = "MODESET" /\ drm.mode.lp = mode.lp
AtSwitchOn     ==
  /\ drm.on /\ ~Active /\ pstate # "HANDOFF_MODESET"
  /\ pstate = "MODESET" => drm.mode.lp = mode.lp
  /\ pstate = "HANDOFF" => ~drm.mode.lp
AtOn           == drm.on /\ Asked
AtSeamless     == drm.on /\ Active

TailInv ==
  /\ calls \in Lefts
  /\ calls = <<>> => AtRestOk
  /\ calls = BacklightLeft => AtBacklight
  /\ calls = DisableLeft => AtDisable
  /\ calls = PostDisableLeft => AtPostDisable
  /\ calls = ModesetLeft => AtModeset
  /\ calls = PostModesetLeft => AtPostModeset
  /\ calls = SwitchOnLeft => AtSwitchOn
  /\ calls \in {OnLeft, EnableLeft} => AtOn
  /\ calls \in {WakeLeft, EnableWakeLeft, SeamlessLeft} => AtSeamless

(* What the chip does goes with the panel state and the mode. *)
ChipInv ==
  /\ Active \/ pstate = "MODESET" => chip = IF mode.lp THEN "aod" ELSE "on"
  /\ Active => (pstate = "LP" <=> mode.lp)
  /\ pstate \in {"HANDOFF", "HANDOFF_MODESET"} => chip = "on" /\ ~mode.lp
  /\ pstate = "BLANK" => chip = "dark"
  /\ pstate \in {"OFF", "UNINITIALIZED"} =>
       chip = IF calls = PostDisableLeft THEN "sleep" ELSE IF calls = EnableLeft THEN "held" ELSE "dead"
  /\ mode.lp => chip # "on"

(* The supplies are held for an enabled panel, and on the way there and back. *)
SupplyInv ==
  /\ regs = IF Enabled \/ calls \in {PostDisableLeft, EnableLeft} THEN 1 ELSE 0
  /\ power <=> regs = 1

VoltInv == ~mode.lp => vddd = "normal" /\ ~needLp

(* A brightness that is still to be sent finds the panel active. *)
WriterInv == writer # NoWrite => Active /\ writer = level

LifeInv == DrmInv /\ TailInv /\ ChipInv /\ SupplyInv /\ VoltInv /\ WriterInv /\ ~lost

Typed == drm \in DrmState /\ FlagsTyped /\ ValuesTyped

(* Being at a place, what is known there is all of TailInv. *)
LEMMA PlaceKnown ==
  /\ calls' = <<>> /\ AtRestOk' => TailInv'
  /\ calls' = BacklightLeft /\ AtBacklight' => TailInv'
  /\ calls' = DisableLeft /\ AtDisable' => TailInv'
  /\ calls' = PostDisableLeft /\ AtPostDisable' => TailInv'
  /\ calls' = ModesetLeft /\ AtModeset' => TailInv'
  /\ calls' = PostModesetLeft /\ AtPostModeset' => TailInv'
  /\ calls' = SwitchOnLeft /\ AtSwitchOn' => TailInv'
  /\ calls' \in {OnLeft, EnableLeft} /\ AtOn' => TailInv'
  /\ calls' \in {WakeLeft, EnableWakeLeft, SeamlessLeft} /\ AtSeamless' => TailInv'
<1>1. ASSUME calls' = <<>>, AtRestOk' PROVE TailInv'
  BY <1>1, LeftsApart DEF TailInv, Lefts
<1>2. ASSUME calls' = BacklightLeft, AtBacklight' PROVE TailInv'
  BY <1>2, LeftsApart DEF TailInv, Lefts
<1>3. ASSUME calls' = DisableLeft, AtDisable' PROVE TailInv'
  BY <1>3, LeftsApart DEF TailInv, Lefts
<1>4. ASSUME calls' = PostDisableLeft, AtPostDisable' PROVE TailInv'
  BY <1>4, LeftsApart DEF TailInv, Lefts
<1>5. ASSUME calls' = ModesetLeft, AtModeset' PROVE TailInv'
  BY <1>5, LeftsApart DEF TailInv, Lefts
<1>6. ASSUME calls' = PostModesetLeft, AtPostModeset' PROVE TailInv'
  BY <1>6, LeftsApart DEF TailInv, Lefts
<1>7. ASSUME calls' = SwitchOnLeft, AtSwitchOn' PROVE TailInv'
  BY <1>7, LeftsApart DEF TailInv, Lefts
<1>8. ASSUME calls' \in {OnLeft, EnableLeft}, AtOn' PROVE TailInv'
  BY <1>8, LeftsApart DEF TailInv, Lefts
<1>9. ASSUME calls' \in {WakeLeft, EnableWakeLeft, SeamlessLeft}, AtSeamless' PROVE TailInv'
  BY <1>9, LeftsApart DEF TailInv, Lefts
<1> QED BY <1>1, <1>2, <1>3, <1>4, <1>5, <1>6, <1>7, <1>8, <1>9

(* A commit only begins a tail. *)
LEMMA BeginKeeps ==
  ASSUME LifeInv, calls = <<>>,
         calls' \in {DisableLeft, ModesetLeft, SwitchOnLeft, OnLeft, WakeLeft, SeamlessLeft},
         UNCHANGED <<pstate, mode, refresh, forceOn, supply, low, postLp, chip, lost, light, writer>>
  PROVE  ChipInv' /\ SupplyInv' /\ VoltInv' /\ WriterInv' /\ ~lost'
<1> USE DEF LifeInv, Active, Enabled, supply, low, light
<1>1. calls \notin {PostDisableLeft, EnableLeft} /\ calls' \notin {PostDisableLeft, EnableLeft}
  BY LeftsDiffer
<1>2. ChipInv'
  BY <1>1 DEF ChipInv
<1>3. SupplyInv'
  BY <1>1 DEF SupplyInv
<1>4. VoltInv' /\ WriterInv' /\ ~lost'
  BY DEF VoltInv, WriterInv
<1> QED BY <1>2, <1>3, <1>4

-----------------------------------------------------------------------------
(* The invariant holds after a commit begins its tail. *)

LEMMA SwitchOffKeeps ==
  ASSUME Typed, LifeInv, SwitchOff
  PROVE  LifeInv'
<1> USE DEF Typed, DrmState
<1>1. /\ calls = <<>> /\ AtRestOk /\ DrmInv
      /\ UNCHANGED <<pstate, mode, refresh, forceOn, supply, low, postLp, chip, lost, light, writer>>
  BY DEF SwitchOff, Commit, AtRest, LifeInv, TailInv
<1>2. /\ calls' = DisableLeft /\ drm.on /\ changed' = FALSE
      /\ ~drm'.on /\ ~drm'.refresh /\ drm'.blanked = drm.blanked /\ drm'.mode = drm.mode
  BY BegunLeft DEF SwitchOff, Commit
<1>3. DrmInv'
  BY <1>1, <1>2 DEF DrmInv, AtRestOk
<1>4. TailInv'
  <2>1. AtDisable'
    BY <1>1, <1>2 DEF DrmInv, AtRestOk, Active, Asked, Dormant, AtDisable
  <2> QED BY <2>1, <1>2, PlaceKnown
<1>8. ChipInv' /\ SupplyInv' /\ VoltInv' /\ WriterInv' /\ ~lost'
  BY <1>1, <1>2, BeginKeeps
<1> QED BY <1>8, <1>3, <1>4 DEF LifeInv

LEMMA SleepKeeps ==
  ASSUME Typed, LifeInv, Sleep
  PROVE  LifeInv'
<1> USE DEF Typed, DrmState
<1>1. /\ calls = <<>> /\ AtRestOk /\ DrmInv
      /\ UNCHANGED <<pstate, mode, refresh, forceOn, supply, low, postLp, chip, lost, light, writer>>
  BY DEF Sleep, Commit, AtRest, LifeInv, TailInv
<1>2. /\ calls' = DisableLeft /\ drm.on /\ changed' = FALSE
      /\ drm'.on /\ drm'.refresh /\ drm'.blanked = drm.blanked /\ drm'.mode = drm.mode
  BY BegunLeft DEF Sleep, Commit
<1>3. DrmInv'
  BY <1>1, <1>2 DEF DrmInv, AtRestOk
<1>4. TailInv'
  <2>1. AtDisable'
    BY <1>1, <1>2 DEF DrmInv, AtRestOk, Active, Asked, Dormant, AtDisable
  <2> QED BY <2>1, <1>2, PlaceKnown
<1>8. ChipInv' /\ SupplyInv' /\ VoltInv' /\ WriterInv' /\ ~lost'
  BY <1>1, <1>2, BeginKeeps
<1> QED BY <1>8, <1>3, <1>4 DEF LifeInv

LEMMA BlankKeeps ==
  ASSUME Typed, LifeInv, Blank
  PROVE  LifeInv'
<1> USE DEF Typed, DrmState
<1>1. /\ calls = <<>> /\ AtRestOk /\ DrmInv
      /\ UNCHANGED <<pstate, mode, refresh, forceOn, supply, low, postLp, chip, lost, light, writer>>
  BY DEF Blank, Commit, AtRest, LifeInv, TailInv
<1>2. /\ calls' = DisableLeft /\ drm.on /\ changed' = FALSE
      /\ ~drm'.on /\ drm'.blanked /\ ~drm'.refresh /\ drm'.mode = drm.mode
  BY BegunLeft DEF Blank, Commit
<1>3. DrmInv'
  BY <1>1, <1>2 DEF DrmInv, AtRestOk
<1>4. TailInv'
  <2>1. AtDisable'
    BY <1>1, <1>2 DEF DrmInv, AtRestOk, Active, Asked, Dormant, AtDisable
  <2> QED BY <2>1, <1>2, PlaceKnown
<1>8. ChipInv' /\ SupplyInv' /\ VoltInv' /\ WriterInv' /\ ~lost'
  BY <1>1, <1>2, BeginKeeps
<1> QED BY <1>8, <1>3, <1>4 DEF LifeInv

LEMMA UnblankKeeps ==
  ASSUME Typed, LifeInv, Unblank
  PROVE  LifeInv'
<1> USE DEF Typed, DrmState
<1>1. /\ calls = <<>> /\ AtRestOk /\ DrmInv
      /\ UNCHANGED <<pstate, mode, refresh, forceOn, supply, low, postLp, chip, lost, light, writer>>
  BY DEF Unblank, Commit, AtRest, LifeInv, TailInv
<1>2. /\ calls' = OnLeft /\ drm.blanked
      /\ drm'.on /\ ~drm'.blanked /\ drm'.refresh = drm.refresh /\ drm'.mode = drm.mode
  BY BegunLeft DEF Unblank, Commit
<1>3. DrmInv'
  BY <1>1, <1>2 DEF DrmInv, AtRestOk
<1>4. TailInv'
  <2>1. AtOn'
    BY <1>1, <1>2 DEF DrmInv, AtRestOk, Active, Asked, Dormant, AtOn
  <2> QED BY <2>1, <1>2, PlaceKnown
<1>8. ChipInv' /\ SupplyInv' /\ VoltInv' /\ WriterInv' /\ ~lost'
  BY <1>1, <1>2, BeginKeeps
<1> QED BY <1>8, <1>3, <1>4 DEF LifeInv

LEMMA SwitchOnKeeps ==
  ASSUME Sheltered, Typed, LifeInv, SwitchOn
  PROVE  LifeInv'
<1> USE DEF Typed, DrmState
<1>1. /\ calls = <<>> /\ AtRestOk /\ DrmInv
      /\ UNCHANGED <<pstate, mode, refresh, forceOn, supply, low, postLp, chip, lost, light, writer>>
  BY DEF SwitchOn, Commit, AtRest, LifeInv, TailInv
<1>5. PICK m \in Mode :
         /\ ~drm.on /\ ~drm.blanked /\ ~ModesetLp(m)
         /\ drm' = [on |-> TRUE, refresh |-> FALSE, blanked |-> FALSE, mode |-> m]
         /\ calls' = SetMode(m # drm.mode) \o On
  BY DEF SwitchOn, Commit, Sheltered
<1>6. m # NoMode /\ drm'.on /\ ~drm'.refresh /\ ~drm'.blanked /\ drm'.mode = m
  BY <1>5 DEF Mode, NoMode
<1>2. calls' = IF m # drm.mode THEN SwitchOnLeft ELSE OnLeft
  BY <1>5, BegunLeft
<1>3. DrmInv'
  BY <1>6 DEF DrmInv
<1>4. TailInv'
  <2>1. CASE m = drm.mode
    <3>1. AtOn'
      BY <2>1, <1>1, <1>5, <1>6 DEF AtOn, Asked, AtRestOk, Dormant
    <3> QED BY <3>1, <2>1, <1>2, PlaceKnown
  <2>2. CASE m # drm.mode
    <3>1. pstate = "HANDOFF" => drm.mode = NoMode /\ chip = "on"
      BY <1>1, <1>5 DEF AtRestOk, Dormant, LifeInv, ChipInv
    <3>2. pstate = "HANDOFF" => ~m.lp
      BY <3>1, <1>5 DEF ModesetLp, Mode, NoMode
    <3>3. pstate \in {"HANDOFF", "UNINITIALIZED", "BLANK", "OFF"}
      BY <1>1, <1>5 DEF AtRestOk, Dormant
    <3>4. AtSwitchOn'
      BY <3>2, <3>3, <1>1, <1>6 DEF AtSwitchOn, Active
    <3> QED BY <3>4, <2>2, <1>2, PlaceKnown
  <2> QED BY <2>1, <2>2
<1>8. ChipInv' /\ SupplyInv' /\ VoltInv' /\ WriterInv' /\ ~lost'
  BY <1>1, <1>2, BeginKeeps
<1> QED BY <1>8, <1>3, <1>4 DEF LifeInv

LEMMA FrameKeeps ==
  ASSUME Sheltered, Typed, LifeInv, Frame
  PROVE  LifeInv'
<1> USE DEF Typed, DrmState
<1>1. /\ calls = <<>> /\ AtRestOk /\ DrmInv
      /\ UNCHANGED <<pstate, mode, refresh, forceOn, supply, low, postLp, chip, lost, light, writer>>
  BY DEF Frame, Commit, AtRest, LifeInv, TailInv
<1>5. PICK m \in Mode :
         /\ drm.on /\ (drm.refresh \/ m # drm.mode) /\ ~ModesetLp(m)
         /\ drm' = [drm EXCEPT !.refresh = FALSE, !.mode = m]
         /\ changed' = (m # drm.mode /\ ~Seamless(m))
         /\ calls' = IF m = drm.mode THEN On
                     ELSE IF Seamless(m) THEN (IF drm.refresh THEN On ELSE <<>>) \o <<"modeSet">>
                     ELSE Off \o <<"modeSet">> \o On
  BY DEF Frame, Commit, Sheltered
<1>6. m # NoMode /\ drm'.on /\ ~drm'.refresh /\ drm'.blanked = drm.blanked /\ drm'.mode = m
  BY <1>5 DEF Mode, NoMode
<1>7. Active /\ Asked
  BY <1>1, <1>5 DEF AtRestOk
<1>2. calls' = IF m = drm.mode THEN OnLeft
               ELSE IF Seamless(m) THEN (IF drm.refresh THEN WakeLeft ELSE SeamlessLeft)
               ELSE ModesetLeft
  BY <1>5, BegunLeft
<1>3. DrmInv'
  BY <1>1, <1>5, <1>6 DEF DrmInv
<1>4. TailInv'
  <2>1. CASE m = drm.mode
    <3>1. AtOn'
      BY <2>1, <1>1, <1>6, <1>7 DEF AtOn, Asked
    <3> QED BY <3>1, <2>1, <1>2, PlaceKnown
  <2>2. CASE m # drm.mode /\ Seamless(m)
    <3>1. AtSeamless'
      BY <1>1, <1>6, <1>7 DEF AtSeamless, Active
    <3> QED BY <3>1, <2>2, <1>2, PlaceKnown
  <2>3. CASE m # drm.mode /\ ~Seamless(m)
    <3>1. m.res # drm.mode.res
      BY <2>3, <1>7 DEF Seamless, Asked
    <3>2. chip = (IF mode.lp THEN "aod" ELSE "on") /\ mode \in Mode
      BY <1>1, <1>5, <1>7 DEF LifeInv, ChipInv, Active, DrmInv, Asked
    <3>3. m.lp = mode.lp
      BY <3>1, <3>2, <1>5 DEF ModesetLp, Mode
    <3>4. AtModeset'
      BY <2>3, <3>3, <1>1, <1>5, <1>6, <1>7 DEF AtModeset, Active
    <3> QED BY <3>4, <2>3, <1>2, PlaceKnown
  <2> QED BY <2>1, <2>2, <2>3
<1>8. ChipInv' /\ SupplyInv' /\ VoltInv' /\ WriterInv' /\ ~lost'
  BY <1>1, <1>2, BeginKeeps
<1> QED BY <1>8, <1>3, <1>4 DEF LifeInv

-----------------------------------------------------------------------------
(* It holds after each callback of the tail. *)

LEMMA DisableForRefreshKeeps ==
  ASSUME Typed, LifeInv, DisableForRefresh
  PROVE  LifeInv'
<1> USE DEF Typed, DrmState, ValuesTyped
<1>1. DrmInv /\ TailInv /\ ChipInv /\ SupplyInv /\ VoltInv /\ WriterInv /\ ~lost /\ calls \in Lefts
  BY DEF LifeInv, TailInv
<1>2. (calls = DisableLeft /\ calls' = PostDisableLeft) \/ (calls = ModesetLeft /\ calls' = PostModesetLeft)
  BY <1>1, DisableLeaves DEF DisableForRefresh
<1>3. DrmInv'
  BY <1>1 DEF DrmInv, DisableForRefresh, supply, low, light
<1>4. TailInv'
  <2>1. CASE calls = DisableLeft /\ calls' = PostDisableLeft
    <3>1. AtDisable
      BY <1>1, <2>1 DEF TailInv
    <3>2. AtPostDisable'
      BY <1>1, <2>1, <3>1 DEF AtDisable, AtPostDisable, Asked, Dormant, Active, DrmInv,
         DisableForRefresh, supply, low, light
    <3> QED BY <2>1, <3>2, PlaceKnown
  <2>2. CASE calls = ModesetLeft /\ calls' = PostModesetLeft
    <3>1. AtModeset
      BY <1>1, <2>2 DEF TailInv
    <3>2. AtPostModeset'
      BY <1>1, <2>2, <3>1 DEF AtModeset, AtPostModeset, Asked, Dormant, Active, DrmInv,
         DisableForRefresh, supply, low, light
    <3> QED BY <2>2, <3>2, PlaceKnown
  <2> QED BY <1>2, <2>1, <2>2
<1>5. ChipInv'
  BY <1>1, <1>2, LeftsApart DEF TailInv, AtDisable, AtModeset, Asked, Dormant, Active, Enabled,
     DrmInv, DisableForRefresh, supply, low, light, ChipInv
<1>6. SupplyInv'
  BY <1>1, <1>2, LeftsApart DEF TailInv, AtDisable, AtModeset, Asked, Dormant, Active, Enabled,
     DrmInv, DisableForRefresh, supply, low, light, SupplyInv
<1>7. VoltInv'
  BY <1>1 DEF VoltInv, DisableForRefresh, supply, low, light
<1>8. WriterInv'
  BY <1>1 DEF WriterInv, Active, DisableForRefresh, supply, low, light
<1>9. ~lost'
  BY <1>1, <1>2, LeftsApart DEF TailInv, AtDisable, AtModeset, Asked, Dormant, Active, Enabled,
     DrmInv, DisableForRefresh, supply, low, light, ChipInv, WriterInv, Deaf, At
<1> QED BY <1>3, <1>4, <1>5, <1>6, <1>7, <1>8, <1>9 DEF LifeInv

LEMMA DisableKeeps ==
  ASSUME Sheltered, Typed, LifeInv, Disable
  PROVE  LifeInv'
<1> USE DEF Typed, DrmState, ValuesTyped
<1>1. DrmInv /\ TailInv /\ ChipInv /\ SupplyInv /\ VoltInv /\ WriterInv /\ ~lost /\ calls \in Lefts
  BY DEF LifeInv, TailInv
<1>2. (calls = DisableLeft /\ calls' = PostDisableLeft) \/ (calls = ModesetLeft /\ calls' = PostModesetLeft)
  BY <1>1, DisableLeaves DEF Disable
<1>3. DrmInv'
  BY <1>1 DEF DrmInv, Disable, StateWhileDisabled, DisableChip, Idle, After, Deaf, supply, low
<1>4. TailInv'
  <2>1. CASE calls = DisableLeft /\ calls' = PostDisableLeft
    <3>1. AtDisable
      BY <1>1, <2>1 DEF TailInv
    <3>2. AtPostDisable'
      BY <1>1, <2>1, <3>1 DEF AtDisable, AtPostDisable, Asked, Dormant, Active, DrmInv, Disable,
         StateWhileDisabled, DisableChip, Idle, After, Deaf, supply, low
    <3> QED BY <2>1, <3>2, PlaceKnown
  <2>2. CASE calls = ModesetLeft /\ calls' = PostModesetLeft
    <3>1. AtModeset
      BY <1>1, <2>2 DEF TailInv
    <3>2. AtPostModeset'
      <4>1. drm.on /\ ~drm.blanked /\ changed
        BY <1>1, <3>1 DEF AtModeset, DrmInv
      <4>2. StateWhileDisabled = "MODESET"
        BY <4>1 DEF StateWhileDisabled
      <4>3. pstate' = "MODESET"
        BY <4>2 DEF Disable
      <4>4. drm' = drm /\ mode' = mode
        BY DEF Disable
      <4> QED BY <3>1, <4>1, <4>3, <4>4 DEF AtModeset, AtPostModeset
    <3> QED BY <2>2, <3>2, PlaceKnown
  <2> QED BY <1>2, <2>1, <2>2
<1>5. ChipInv'
  BY <1>1, <1>2, LeftsApart DEF TailInv, AtDisable, AtModeset, Asked, Dormant, Active, Enabled,
     DrmInv, Disable, StateWhileDisabled, DisableChip, Idle, After, Deaf, supply, low, ChipInv
<1>6. SupplyInv'
  BY <1>1, <1>2, LeftsApart DEF TailInv, AtDisable, AtModeset, Asked, Dormant, Active, Enabled,
     DrmInv, Disable, StateWhileDisabled, DisableChip, Idle, After, Deaf, supply, low, SupplyInv
<1>7. VoltInv'
  BY <1>1 DEF VoltInv, Disable, StateWhileDisabled, DisableChip, Idle, After, Deaf, supply, low
<1>8. WriterInv'
  <2>1. writer = NoWrite /\ writer' = NoWrite
    BY DEF Sheltered, Disable, Idle
  <2> QED BY <2>1 DEF WriterInv
<1>9. ~lost'
  BY <1>1, <1>2, LeftsApart DEF TailInv, AtDisable, AtModeset, Asked, Dormant, Active, Enabled,
     DrmInv, Disable, StateWhileDisabled, DisableChip, Idle, After, Deaf, supply, low, ChipInv,
     WriterInv, Deaf, At
<1> QED BY <1>3, <1>4, <1>5, <1>6, <1>7, <1>8, <1>9 DEF LifeInv

LEMMA PostDisableKeeps ==
  ASSUME Typed, LifeInv, PostDisable
  PROVE  LifeInv'
<1> USE DEF Typed, DrmState, ValuesTyped
<1>1. DrmInv /\ TailInv /\ ChipInv /\ SupplyInv /\ VoltInv /\ WriterInv /\ ~lost /\ calls \in Lefts
  BY DEF LifeInv, TailInv
<1>2. (calls = PostDisableLeft /\ calls' = <<>>) \/ (calls = PostModesetLeft /\ calls' = SwitchOnLeft)
  BY <1>1, PostDisableLeaves DEF PostDisable
<1>3. DrmInv'
  BY <1>1 DEF DrmInv, PostDisable, PowerOff, SetBacklightState, Enabled, BacklightOf, supply, low
<1>4. TailInv'
  <2>1. CASE calls = PostDisableLeft /\ calls' = <<>>
    <3>1. AtPostDisable
      BY <1>1, <2>1 DEF TailInv
    <3>2. AtRestOk'
      BY <1>1, <2>1, <3>1 DEF AtPostDisable, AtRestOk, Asked, Dormant, Active, DrmInv,
         PostDisable, PowerOff, SetBacklightState, Enabled, BacklightOf, supply, low
    <3> QED BY <2>1, <3>2, PlaceKnown
  <2>2. CASE calls = PostModesetLeft /\ calls' = SwitchOnLeft
    <3>1. AtPostModeset
      BY <1>1, <2>2 DEF TailInv
    <3>2. AtSwitchOn'
      BY <1>1, <2>2, <3>1 DEF AtPostModeset, AtSwitchOn, Asked, Dormant, Active, DrmInv,
         PostDisable, PowerOff, SetBacklightState, Enabled, BacklightOf, supply, low
    <3> QED BY <2>2, <3>2, PlaceKnown
  <2> QED BY <1>2, <2>1, <2>2
<1>5. ChipInv'
  <2>1. CASE calls = PostModesetLeft
    <3>1. pstate = "MODESET" /\ UNCHANGED <<pstate, mode, chip>>
      BY <2>1, <1>1 DEF TailInv, AtPostModeset, PostDisable, Enabled
    <3> QED BY <1>1, <3>1 DEF ChipInv, Active
  <2>2. CASE calls = PostDisableLeft /\ Enabled
    <3>1. UNCHANGED <<pstate, mode, chip>>
      BY <2>2 DEF PostDisable
    <3> QED BY <1>1, <2>2, <3>1 DEF ChipInv, Active, Enabled
  <2>3. CASE calls = PostDisableLeft /\ ~Enabled
    <3>1. regs = 1 /\ chip' = "dead" /\ UNCHANGED <<pstate, mode>>
      BY <1>1, <2>3 DEF SupplyInv, PostDisable, PowerOff
    <3>2. calls' = <<>>
      BY <1>2, <2>3, LeftsApart
    <3> QED BY <2>3, <3>1, <3>2, LeftsApart DEF ChipInv, Active, Enabled
  <2> QED BY <1>2, <2>1, <2>2, <2>3
<1>6. SupplyInv'
  BY <1>1, <1>2, LeftsApart DEF TailInv, AtPostDisable, AtPostModeset, Asked, Dormant, Active,
     Enabled, DrmInv, PostDisable, PowerOff, SetBacklightState, Enabled, BacklightOf, supply, low,
     SupplyInv
<1>7. VoltInv'
  BY <1>1 DEF VoltInv, PostDisable, PowerOff, SetBacklightState, Enabled, BacklightOf, supply, low
<1>8. WriterInv'
  BY <1>1 DEF WriterInv, Active, PostDisable, PowerOff, SetBacklightState, Enabled, BacklightOf,
     supply, low
<1>9. ~lost'
  BY <1>1, <1>2, LeftsApart DEF TailInv, AtPostDisable, AtPostModeset, Asked, Dormant, Active,
     Enabled, DrmInv, PostDisable, PowerOff, SetBacklightState, Enabled, BacklightOf, supply, low,
     ChipInv, WriterInv, Deaf, At
<1> QED BY <1>3, <1>4, <1>5, <1>6, <1>7, <1>8, <1>9 DEF LifeInv

LEMMA SameModeKeeps ==
  ASSUME Typed, LifeInv, SameMode
  PROVE  LifeInv'
<1> USE DEF Typed, DrmState, ValuesTyped
<1>1. DrmInv /\ TailInv /\ ChipInv /\ SupplyInv /\ VoltInv /\ WriterInv /\ ~lost /\ calls \in Lefts
  BY DEF LifeInv, TailInv
<1>2. (calls = SwitchOnLeft /\ calls' = OnLeft) \/ (calls = SeamlessLeft /\ calls' = <<>>)
  BY <1>1, ModeSetLeaves DEF SameMode
<1>3. DrmInv'
  BY <1>1 DEF DrmInv, SameMode, supply, low, light
<1>4. TailInv'
  <2>1. CASE calls = SwitchOnLeft /\ calls' = OnLeft
    <3>1. AtSwitchOn
      BY <1>1, <2>1 DEF TailInv
    <3>2. AtOn'
      BY <1>1, <2>1, <3>1 DEF AtSwitchOn, AtOn, Asked, Dormant, Active, DrmInv, SameMode,
         supply, low, light
    <3> QED BY <2>1, <3>2, PlaceKnown
  <2>2. CASE calls = SeamlessLeft /\ calls' = <<>>
    <3>1. AtSeamless
      BY <1>1, <2>2 DEF TailInv
    <3>2. AtRestOk'
      BY <1>1, <2>2, <3>1 DEF AtSeamless, AtRestOk, Asked, Dormant, Active, DrmInv, SameMode,
         supply, low, light
    <3> QED BY <2>2, <3>2, PlaceKnown
  <2> QED BY <1>2, <2>1, <2>2
<1>5. ChipInv'
  BY <1>1, <1>2, LeftsApart DEF TailInv, AtSeamless, AtSwitchOn, Asked, Dormant, Active,
     Enabled, DrmInv, SameMode, supply, low, light, ChipInv
<1>6. SupplyInv'
  BY <1>1, <1>2, LeftsApart DEF TailInv, AtSeamless, AtSwitchOn, Asked, Dormant, Active,
     Enabled, DrmInv, SameMode, supply, low, light, SupplyInv
<1>7. VoltInv'
  BY <1>1 DEF VoltInv, SameMode, supply, low, light
<1>8. WriterInv'
  BY <1>1 DEF WriterInv, Active, SameMode, supply, low, light
<1>9. ~lost'
  BY <1>1, <1>2, LeftsApart DEF TailInv, AtSeamless, AtSwitchOn, Asked, Dormant, Active,
     Enabled, DrmInv, SameMode, supply, low, light, ChipInv, WriterInv, Deaf, At
<1> QED BY <1>3, <1>4, <1>5, <1>6, <1>7, <1>8, <1>9 DEF LifeInv

LEMMA SetNormalModeKeeps ==
  ASSUME Typed, LifeInv, SetNormalMode
  PROVE  LifeInv'
<1> USE DEF Typed, DrmState, ValuesTyped
<1>1. DrmInv /\ TailInv /\ ChipInv /\ SupplyInv /\ VoltInv /\ WriterInv /\ ~lost /\ calls \in Lefts
  BY DEF LifeInv, TailInv
<1>2. (calls = SwitchOnLeft /\ calls' = OnLeft) \/ (calls = SeamlessLeft /\ calls' = <<>>)
  BY <1>1, ModeSetLeaves DEF SetNormalMode
<1>3. DrmInv'
  BY <1>1 DEF DrmInv, SetNormalMode, Deaf, StateAtModeSet, Active, supply, low, light
<1>4. TailInv'
  <2>1. CASE calls = SwitchOnLeft /\ calls' = OnLeft
    <3>1. AtSwitchOn
      BY <1>1, <2>1 DEF TailInv
    <3>2. AtOn'
      BY <1>1, <2>1, <3>1 DEF AtSwitchOn, AtOn, Asked, Dormant, Active, DrmInv, SetNormalMode,
         Deaf, StateAtModeSet, Active, supply, low, light
    <3> QED BY <2>1, <3>2, PlaceKnown
  <2>2. CASE calls = SeamlessLeft /\ calls' = <<>>
    <3>1. AtSeamless
      BY <1>1, <2>2 DEF TailInv
    <3>2. AtRestOk'
      BY <1>1, <2>2, <3>1 DEF AtSeamless, AtRestOk, Asked, Dormant, Active, DrmInv,
         SetNormalMode, Deaf, StateAtModeSet, Active, supply, low, light
    <3> QED BY <2>2, <3>2, PlaceKnown
  <2> QED BY <1>2, <2>1, <2>2
<1>5. ChipInv'
  BY <1>1, <1>2, LeftsApart DEF TailInv, AtSeamless, AtSwitchOn, Asked, Dormant, Active,
     Enabled, DrmInv, SetNormalMode, Deaf, StateAtModeSet, Active, supply, low, light, ChipInv
<1>6. SupplyInv'
  BY <1>1, <1>2, LeftsApart DEF TailInv, AtSeamless, AtSwitchOn, Asked, Dormant, Active,
     Enabled, DrmInv, SetNormalMode, Deaf, StateAtModeSet, Active, supply, low, light, SupplyInv
<1>7. VoltInv'
  BY <1>1 DEF VoltInv, SetNormalMode, Deaf, StateAtModeSet, Active, supply, low, light
<1>8. WriterInv'
  BY <1>1 DEF WriterInv, Active, SetNormalMode, Deaf, StateAtModeSet, Active, supply, low, light
<1>9. ~lost'
  BY <1>1, <1>2, LeftsApart DEF TailInv, AtSeamless, AtSwitchOn, Asked, Dormant, Active,
     Enabled, DrmInv, SetNormalMode, Deaf, StateAtModeSet, Active, supply, low, light, ChipInv,
     WriterInv, Deaf, At
<1> QED BY <1>3, <1>4, <1>5, <1>6, <1>7, <1>8, <1>9 DEF LifeInv

LEMMA PreEnableKeeps ==
  ASSUME Typed, LifeInv, PreEnable
  PROVE  LifeInv'
<1> USE DEF Typed, DrmState, ValuesTyped
<1>1. DrmInv /\ TailInv /\ ChipInv /\ SupplyInv /\ VoltInv /\ WriterInv /\ ~lost /\ calls \in Lefts
  BY DEF LifeInv, TailInv
<1>2. (calls = OnLeft /\ calls' = EnableLeft) \/ (calls = WakeLeft /\ calls' = EnableWakeLeft)
  BY <1>1, PreEnableLeaves DEF PreEnable
<1>3. DrmInv'
  BY <1>1 DEF DrmInv, PreEnable, PowerOn, Enabled, supply, low, light
<1>4. TailInv'
  <2>1. CASE calls = OnLeft /\ calls' = EnableLeft
    <3>1. AtOn
      BY <1>1, <2>1 DEF TailInv
    <3>2. AtOn'
      BY <1>1, <2>1, <3>1 DEF AtOn, AtOn, Asked, Dormant, Active, DrmInv, PreEnable, PowerOn,
         Enabled, supply, low, light
    <3> QED BY <2>1, <3>2, PlaceKnown
  <2>2. CASE calls = WakeLeft /\ calls' = EnableWakeLeft
    <3>1. AtSeamless
      BY <1>1, <2>2 DEF TailInv
    <3>2. AtSeamless'
      BY <1>1, <2>2, <3>1 DEF AtSeamless, AtSeamless, Asked, Dormant, Active, DrmInv, PreEnable,
         PowerOn, Enabled, supply, low, light
    <3> QED BY <2>2, <3>2, PlaceKnown
  <2> QED BY <1>2, <2>1, <2>2
<1>5. ChipInv'
  <2>1. UNCHANGED <<pstate, mode>>
    BY DEF PreEnable
  <2>2. CASE Enabled
    <3>1. UNCHANGED chip
      BY <2>2 DEF PreEnable
    <3> QED BY <1>1, <2>1, <2>2, <3>1 DEF ChipInv, Active, Enabled
  <2>3. CASE ~Enabled
    <3>1. calls = OnLeft /\ calls' = EnableLeft
      BY <1>1, <1>2, <2>3 DEF TailInv, AtSeamless, Active, Enabled
    <3>2. regs = 0
      BY <1>1, <2>3, <3>1, LeftsApart DEF SupplyInv
    <3>3. chip' = "held"
      BY <2>3, <3>2 DEF PreEnable, PowerOn
    <3> QED BY <2>1, <2>3, <3>1, <3>3, LeftsApart DEF ChipInv, Active, Enabled
  <2> QED BY <2>2, <2>3
<1>6. SupplyInv'
  BY <1>1, <1>2, LeftsApart DEF TailInv, AtOn, AtSeamless, Asked, Dormant, Active, Enabled,
     DrmInv, PreEnable, PowerOn, Enabled, supply, low, light, SupplyInv
<1>7. VoltInv'
  BY <1>1 DEF VoltInv, PreEnable, PowerOn, Enabled, supply, low, light
<1>8. WriterInv'
  BY <1>1 DEF WriterInv, Active, PreEnable, PowerOn, Enabled, supply, low, light
<1>9. ~lost'
  BY <1>1, <1>2, LeftsApart DEF TailInv, AtOn, AtSeamless, Asked, Dormant, Active, Enabled,
     DrmInv, PreEnable, PowerOn, Enabled, supply, low, light, ChipInv, WriterInv, Deaf, At
<1> QED BY <1>3, <1>4, <1>5, <1>6, <1>7, <1>8, <1>9 DEF LifeInv

LEMMA UpdateBacklightKeeps ==
  ASSUME Typed, LifeInv, UpdateBacklight
  PROVE  LifeInv'
<1> USE DEF Typed, DrmState, ValuesTyped
<1>1. DrmInv /\ TailInv /\ ChipInv /\ SupplyInv /\ VoltInv /\ WriterInv /\ ~lost /\ calls \in Lefts
  BY DEF LifeInv, TailInv
<1>2. (calls = BacklightLeft /\ calls' = <<>>)
  BY <1>1, BacklightLeaves DEF UpdateBacklight
<1>3. DrmInv'
  BY <1>1 DEF DrmInv, UpdateBacklight, SetBrightness, Ignored, Deaf, SetBacklightState, Active,
     BacklightOf,
          supply, low
<1>4. TailInv'
  <2>1. CASE calls = BacklightLeft /\ calls' = <<>>
    <3>1. AtBacklight
      BY <1>1, <2>1 DEF TailInv
    <3>2. AtRestOk'
      BY <1>1, <2>1, <3>1 DEF AtBacklight, AtRestOk, Asked, Dormant, Active, DrmInv,
         UpdateBacklight, SetBrightness, Ignored, Deaf, SetBacklightState, Active, BacklightOf,
          supply, low
    <3> QED BY <2>1, <3>2, PlaceKnown
  <2> QED BY <1>2, <2>1
<1>5. ChipInv'
  BY <1>1, <1>2, LeftsApart DEF TailInv, AtBacklight, Asked, Dormant, Active, Enabled, DrmInv,
     UpdateBacklight, SetBrightness, Ignored, Deaf, SetBacklightState, Active, BacklightOf,
          supply, low, ChipInv
<1>6. SupplyInv'
  BY <1>1, <1>2, LeftsApart DEF TailInv, AtBacklight, Asked, Dormant, Active, Enabled, DrmInv,
     UpdateBacklight, SetBrightness, Ignored, Deaf, SetBacklightState, Active, BacklightOf,
          supply, low, SupplyInv
<1>7. VoltInv'
  BY <1>1 DEF VoltInv, UpdateBacklight, SetBrightness, Ignored, Deaf, SetBacklightState, Active,
     BacklightOf,
          supply, low
<1>8. WriterInv'
  BY <1>1 DEF WriterInv, Active, UpdateBacklight, SetBrightness, Ignored, Deaf,
     SetBacklightState, Active, BacklightOf,
          supply, low
<1>9. ~lost'
  BY <1>1, <1>2, LeftsApart DEF TailInv, AtBacklight, Asked, Dormant, Active, Enabled, DrmInv,
     UpdateBacklight, SetBrightness, Ignored, Deaf, SetBacklightState, Active, BacklightOf,
          supply, low, ChipInv, WriterInv, Deaf, At
<1> QED BY <1>3, <1>4, <1>5, <1>6, <1>7, <1>8, <1>9 DEF LifeInv

LEMMA EnterLpKeeps ==
  ASSUME Typed, LifeInv, EnterLp
  PROVE  LifeInv'
<1> USE DEF Typed, DrmState, ValuesTyped
<1>1. DrmInv /\ TailInv /\ ChipInv /\ SupplyInv /\ VoltInv /\ WriterInv /\ ~lost /\ calls \in Lefts
  BY DEF LifeInv, TailInv
<1>2. /\ drm.mode.lp /\ mode' = drm.mode
      /\ UNCHANGED <<drm, changed, regs, power, level, writer>>
  BY DEF EnterLp, supply, light
<1>3. \/ calls = SeamlessLeft /\ calls' = BacklightLeft /\ Active
      \/ calls = SwitchOnLeft /\ calls' = OnLeft /\ ~Active
  BY <1>1, ModeSetLeaves, LeftsApart DEF EnterLp, TailInv, AtSeamless, AtSwitchOn
<1>4. CASE calls = SeamlessLeft /\ calls' = BacklightLeft /\ Active
  <2>1. drm.on /\ chip \in {"aod", "on"}
    BY <1>1, <1>4 DEF TailInv, AtSeamless, ChipInv
  <2>2. pstate' = "LP" /\ chip' = "aod" /\ ~lost'
    BY <1>1, <1>4, <2>1 DEF EnterLp, After, Deaf
  <2>3. TailInv'
    <3>1. AtBacklight'
      BY <1>2, <2>1, <2>2 DEF AtBacklight, Active, Asked
    <3> QED BY <1>4, <3>1, PlaceKnown
  <2>4. ChipInv' /\ DrmInv' /\ VoltInv'
    BY <1>1, <1>2, <2>2 DEF ChipInv, DrmInv, VoltInv, Active
  <2>5. SupplyInv' /\ WriterInv' /\ ~lost'
    BY <1>1, <1>2, <1>4, <2>2 DEF SupplyInv, WriterInv, Active, Enabled
  <2> QED BY <2>3, <2>4, <2>5 DEF LifeInv
<1>5. CASE calls = SwitchOnLeft /\ calls' = OnLeft /\ ~Active
  <2>1. AtSwitchOn
    BY <1>1, <1>5 DEF TailInv
  <2>2. pstate' = pstate /\ chip' = chip /\ lost' = lost
    BY <1>2, <1>5, <2>1 DEF EnterLp, StateAtModeSet, AtSwitchOn
  <2>3. pstate \in {"OFF", "UNINITIALIZED", "BLANK"} \/ (pstate = "MODESET" /\ mode.lp)
    BY <1>2, <2>1 DEF AtSwitchOn, Active, PanelStates
  <2>4. TailInv'
    <3>1. AtOn'
      BY <1>2, <2>1 DEF AtSwitchOn, AtOn, Asked
    <3> QED BY <1>5, <3>1, PlaceKnown
  <2>5. ChipInv'
    BY <1>1, <1>2, <1>5, <2>2, <2>3, LeftsApart DEF ChipInv, Active
  <2>6. DrmInv' /\ VoltInv'
    BY <1>1, <1>2 DEF DrmInv, VoltInv
  <2>7. SupplyInv' /\ WriterInv' /\ ~lost'
    BY <1>1, <1>2, <1>5, <2>2, LeftsApart DEF SupplyInv, WriterInv, Active, Enabled
  <2> QED BY <2>4, <2>5, <2>6, <2>7 DEF LifeInv
<1> QED BY <1>3, <1>4, <1>5

LEMMA LeaveLpKeeps ==
  ASSUME Typed, LifeInv, LeaveLp
  PROVE  LifeInv'
<1> USE DEF Typed, DrmState, ValuesTyped
<1>1. DrmInv /\ TailInv /\ ChipInv /\ SupplyInv /\ VoltInv /\ WriterInv /\ ~lost /\ calls \in Lefts
  BY DEF LifeInv, TailInv
<1>2. /\ ~drm.mode.lp /\ mode.lp /\ mode' = drm.mode
      /\ needLp' = FALSE /\ vddd' = "normal"
      /\ UNCHANGED <<drm, changed, regs, power, level, writer>>
  BY DEF LeaveLp, supply
<1>3. \/ calls = SeamlessLeft /\ calls' = BacklightLeft /\ Active
      \/ calls = SwitchOnLeft /\ calls' = OnLeft /\ ~Active
  BY <1>1, ModeSetLeaves, LeftsApart DEF LeaveLp, TailInv, AtSeamless, AtSwitchOn
<1>4. CASE calls = SeamlessLeft /\ calls' = BacklightLeft /\ Active
  <2>1. drm.on /\ chip \in {"aod", "on"}
    BY <1>1, <1>4 DEF TailInv, AtSeamless, ChipInv
  <2>2. pstate' = "NORMAL" /\ chip' = "on" /\ ~lost'
    BY <1>1, <1>4, <2>1 DEF LeaveLp, After, Deaf
  <2>3. TailInv'
    <3>1. AtBacklight'
      BY <1>2, <2>1, <2>2 DEF AtBacklight, Active, Asked
    <3> QED BY <1>4, <3>1, PlaceKnown
  <2>4. ChipInv' /\ DrmInv' /\ VoltInv'
    BY <1>1, <1>2, <2>2 DEF ChipInv, DrmInv, VoltInv, Active
  <2>5. SupplyInv' /\ WriterInv' /\ ~lost'
    BY <1>1, <1>2, <1>4, <2>2 DEF SupplyInv, WriterInv, Active, Enabled
  <2> QED BY <2>3, <2>4, <2>5 DEF LifeInv
<1>5. CASE calls = SwitchOnLeft /\ calls' = OnLeft /\ ~Active
  <2>1. AtSwitchOn
    BY <1>1, <1>5 DEF TailInv
  <2>2. pstate \in {"OFF", "UNINITIALIZED", "BLANK"}
    BY <1>1, <1>2, <2>1 DEF AtSwitchOn, ChipInv, Active, PanelStates
  <2>3. pstate' = pstate /\ chip' = chip /\ lost' = lost
    BY <1>5, <2>2 DEF LeaveLp, StateAtModeSet
  <2>4. TailInv'
    <3>1. AtOn'
      BY <1>2, <2>1 DEF AtSwitchOn, AtOn, Asked
    <3> QED BY <1>5, <3>1, PlaceKnown
  <2>5. ChipInv'
    BY <1>1, <1>2, <1>5, <2>2, <2>3, LeftsApart DEF ChipInv, Active
  <2>6. DrmInv' /\ VoltInv'
    BY <1>1, <1>2 DEF DrmInv, VoltInv
  <2>7. SupplyInv' /\ WriterInv' /\ ~lost'
    BY <1>1, <1>2, <1>5, <2>3, LeftsApart DEF SupplyInv, WriterInv, Active, Enabled
  <2> QED BY <2>4, <2>5, <2>6, <2>7 DEF LifeInv
<1> QED BY <1>3, <1>4, <1>5

LEMMA EnableKeeps ==
  ASSUME Typed, LifeInv, Enable
  PROVE  LifeInv'
<1> USE DEF Typed, DrmState, ValuesTyped
<1>1. DrmInv /\ TailInv /\ ChipInv /\ SupplyInv /\ VoltInv /\ WriterInv /\ ~lost /\ calls \in Lefts
  BY DEF LifeInv, TailInv
<1>2. /\ pstate' = IF mode.lp THEN "LP" ELSE "NORMAL"
      /\ UNCHANGED <<drm, changed, mode, regs, power, vddd, needLp, level, writer>>
  BY DEF Enable, supply, low
<1>3. PICK identified \in BOOLEAN :
        LET from == IF pstate = "HANDOFF_MODESET" /\ identified THEN "MODESET" ELSE pstate
            skip   == Active \/ (pstate = "HANDOFF" /\ identified)
        IN /\ identified \/ pstate \in {"HANDOFF", "HANDOFF_MODESET"}
           /\ IF skip THEN UNCHANGED <<chip, lost, brInit>>
              ELSE /\ chip' = ChipAfterEnable(from)
                   /\ lost' = (lost \/ Deaf(chip'))
                   /\ brInit' = (brInit /\ from \notin {"OFF", "UNINITIALIZED"})
           /\ Next_(~skip)
  BY DEF Enable
<1> DEFINE from == IF pstate = "HANDOFF_MODESET" /\ identified THEN "MODESET" ELSE pstate
           skip   == Active \/ (pstate = "HANDOFF" /\ identified)
<1>4. At("enable") /\ Next_(~skip)
  BY <1>3 DEF Enable
<1>5. \/ calls = EnableLeft /\ calls' = IF ~skip THEN BacklightLeft ELSE <<>>
      \/ calls = EnableWakeLeft /\ (skip => calls' = SeamlessLeft)
  <2> HIDE DEF skip
  <2> QED BY <1>1, <1>4, EnableLeaves
<1>6. drm.on /\ (calls = EnableLeft => Asked) /\ (calls = EnableWakeLeft => Active)
  BY <1>1, <1>5 DEF TailInv, AtOn, AtSeamless
<1>7. TailInv'
  <2>1. CASE calls = EnableLeft
    <3>1. AtBacklight' /\ AtRestOk'
      BY <2>1, <1>2, <1>6 DEF AtBacklight, AtRestOk, Active, Asked
    <3>2. calls' \in {BacklightLeft, <<>>}
      BY <2>1, <1>5, LeftsApart
    <3> QED BY <3>1, <3>2, PlaceKnown
  <2>2. CASE calls = EnableWakeLeft
    <3>1. calls' = SeamlessLeft
      BY <2>2, <1>5, <1>6, LeftsApart
    <3>2. AtSeamless'
      BY <2>2, <1>2, <1>6 DEF AtSeamless, Active
    <3> QED BY <3>1, <3>2, PlaceKnown
  <2> QED BY <1>5, <2>1, <2>2
<1>8. chip' = (IF mode.lp THEN "aod" ELSE "on") /\ ~lost'
  <2>1. CASE skip
    <3>1. chip' = chip /\ ~lost'
      BY <2>1, <1>1, <1>3
    <3> QED BY <2>1, <3>1, <1>1 DEF ChipInv
  <2>2. CASE ~skip
    <3>1. chip' = ChipAfterEnable(from) /\ lost' = (lost \/ Deaf(chip')) /\ ~Active
      BY <2>2, <1>3
    <3>2. calls = EnableLeft /\ regs = 1
      BY <3>1, <1>1, <1>5, <1>6 DEF SupplyInv
    <3>3. CASE pstate \in {"OFF", "UNINITIALIZED"}
      <4>1. from \in {"OFF", "UNINITIALIZED"} /\ regs > 0
        BY <3>2, <3>3
      <4> HIDE DEF from
      <4>2. ChipAfterEnable(from) = IF mode.lp THEN "aod" ELSE "on"
        BY <4>1 DEF ChipAfterEnable, Deaf
      <4> QED BY <3>1, <4>2, <1>1 DEF Deaf
    <3>4. CASE pstate = "BLANK"
      <4>1. chip = "dark" /\ from = "BLANK"
        BY <3>4, <1>1 DEF ChipInv
      <4> QED BY <3>1, <4>1, <1>1 DEF ChipAfterEnable, Deaf
    <3>5. CASE pstate \in {"HANDOFF", "HANDOFF_MODESET", "MODESET"}
      <4>1. chip = (IF mode.lp THEN "aod" ELSE "on") /\ from \in {"HANDOFF", "HANDOFF_MODESET", "MODESET"}
        BY <3>5, <1>1 DEF ChipInv
      <4> QED BY <3>1, <4>1, <1>1 DEF ChipAfterEnable, Deaf
    <3> QED BY <3>1, <3>3, <3>4, <3>5 DEF Active, PanelStates
  <2> QED BY <2>1, <2>2
<1>9. ChipInv'
  BY <1>1, <1>2, <1>8 DEF ChipInv, Active
<1>10. SupplyInv'
  BY <1>1, <1>2, <1>5, <1>6 DEF SupplyInv, Active, Enabled
<1>11. DrmInv' /\ VoltInv' /\ WriterInv' /\ ~lost'
  BY <1>1, <1>2, <1>8 DEF DrmInv, VoltInv, WriterInv, Active
<1> QED BY <1>7, <1>9, <1>10, <1>11 DEF LifeInv

(* What looks at neither the backlight nor the counts stays while the rest   *)
(* stays.                                                                    *)
LEMMA LifeStays ==
  ASSUME LifeInv, UNCHANGED <<tail, pstate, mode, supply, low, chip>>
  PROVE  DrmInv' /\ TailInv' /\ ChipInv' /\ SupplyInv' /\ VoltInv'
<1> USE DEF tail, supply, low, LifeInv
<1>1. DrmInv'
  BY DEF DrmInv
<1>2. TailInv'
  BY DEF TailInv, AtRestOk, AtBacklight, AtDisable, AtPostDisable, AtModeset, AtPostModeset,
         AtSwitchOn, AtOn, AtSeamless, Dormant, Asked, Active
<1>3. ChipInv' /\ SupplyInv' /\ VoltInv'
  BY DEF ChipInv, SupplyInv, VoltInv, Active, Enabled
<1> QED BY <1>1, <1>2, <1>3

(* A write to sysfs keeps it too. *)
LEMMA WriteBrightnessKeeps ==
  ASSUME Typed, LifeInv, WriteBrightness
  PROVE  LifeInv'
<1>1. DrmInv' /\ TailInv' /\ ChipInv' /\ SupplyInv' /\ VoltInv'
  BY LifeStays DEF WriteBrightness
<1>2. UNCHANGED <<pstate, lost>> /\ writer = NoWrite
  BY DEF WriteBrightness
<1>3. power \/ ~Active
  BY DEF LifeInv, SupplyInv, Active, Enabled
<1>4. writer' = NoWrite \/ (Active /\ writer' = level')
  BY <1>2, <1>3 DEF WriteBrightness, Ignored
<1> QED BY <1>1, <1>2, <1>4 DEF LifeInv, WriterInv, Active

LEMMA SendBrightnessKeeps ==
  ASSUME Typed, LifeInv, SendBrightness
  PROVE  LifeInv'
<1>1. DrmInv' /\ TailInv' /\ ChipInv' /\ SupplyInv' /\ VoltInv'
  BY LifeStays DEF SendBrightness
<1>2. writer # NoWrite /\ writer' = NoWrite
  BY DEF SendBrightness
<1>3. ~Deaf(chip)
  BY <1>2 DEF LifeInv, WriterInv, ChipInv, Deaf
<1>4. ~lost'
  BY <1>3 DEF SendBrightness, SetBrightness, LifeInv
<1> QED BY <1>1, <1>2, <1>4 DEF LifeInv, WriterInv

LEMMA ForcePowerOnKeeps ==
  ASSUME Sheltered, Typed, LifeInv, ForcePowerOn
  PROVE  LifeInv'
<1>1. UNCHANGED <<tail, pstate, mode, supply, low, chip, lost, level, writer>>
  BY DEF Sheltered, ForcePowerOn, light
<1>2. DrmInv' /\ TailInv' /\ ChipInv' /\ SupplyInv' /\ VoltInv'
  BY <1>1, LifeStays
<1> QED BY <1>1, <1>2 DEF LifeInv, WriterInv, Active

LEMMA StutterKeeps ==
  ASSUME LifeInv, UNCHANGED vars
  PROVE  LifeInv'
<1>1. UNCHANGED <<tail, pstate, mode, supply, low, chip, lost, level, writer>>
  BY DEF vars, light
<1>2. DrmInv' /\ TailInv' /\ ChipInv' /\ SupplyInv' /\ VoltInv'
  BY <1>1, LifeStays
<1> QED BY <1>1, <1>2 DEF LifeInv, WriterInv, Active

-----------------------------------------------------------------------------
(* The invariant holds from the start. *)

LEMMA LifeInvInit ==
  Init => Typed /\ BoundsTyped /\ LifeInv
<1> SUFFICES ASSUME Init PROVE Typed /\ BoundsTyped /\ LifeInv
  OBVIOUS
<1> USE DEF Init
<1>1. drm \in DrmState
  BY DEF DrmState
<1>2. FlagsTyped
  BY DEF FlagsTyped
<1>3. ValuesTyped
  BY DEF ValuesTyped, PanelStates, Wqhd, Mode, ChipStates, Levels
<1>4. BoundsTyped
  BY PanelBoundsAssumption DEF BoundsTyped
<1>5. DrmInv /\ VoltInv /\ WriterInv /\ ~lost
  BY DEF DrmInv, VoltInv, WriterInv
<1>6. AtRestOk
  BY DEF AtRestOk, Dormant
<1>7. TailInv
  BY <1>6, LeftsApart DEF TailInv, Lefts
<1>8. PICK lit \in BOOLEAN :
        /\ pstate = IF lit THEN "HANDOFF" ELSE "UNINITIALIZED"
        /\ mode = IF lit THEN Wqhd ELSE NoMode
        /\ chip = IF lit THEN "on" ELSE "dead"
        /\ regs = IF lit THEN 1 ELSE 0
        /\ power = lit
  OBVIOUS
<1>9. ChipInv /\ SupplyInv
  BY <1>8, LeftsApart DEF ChipInv, SupplyInv, Active, Enabled, Wqhd, NoMode
<1> QED BY <1>1, <1>2, <1>3, <1>4, <1>5, <1>7, <1>9 DEF Typed, LifeInv

LEMMA LifeInvNext ==
  ASSUME Sheltered, Typed, LifeInv, [Next]_vars
  PROVE  LifeInv'
  BY SwitchOnKeeps, SwitchOffKeeps, SleepKeeps, FrameKeeps, BlankKeeps, UnblankKeeps,
     DisableForRefreshKeeps, DisableKeeps, PostDisableKeeps, SameModeKeeps, EnterLpKeeps,
     LeaveLpKeeps, SetNormalModeKeeps, PreEnableKeeps, EnableKeeps, UpdateBacklightKeeps,
     WriteBrightnessKeeps, SendBrightnessKeeps, ForcePowerOnKeeps, StutterKeeps DEF Next

LEMMA TypedNext ==
  ASSUME Typed, BoundsTyped, [Next]_vars
  PROVE  Typed' /\ BoundsTyped'
<1>1. CASE Next
  BY <1>1, DrmNext, BoundsNext, FlagsNext, ValuesNext DEF Typed
<1>2. CASE UNCHANGED vars
  BY <1>2 DEF vars, tail, supply, low, light, Typed, DrmState, FlagsTyped, ValuesTyped, BoundsTyped
<1> QED BY <1>1, <1>2

LEMMA LifeInvKept ==
  Sheltered /\ Spec => [](Typed /\ BoundsTyped /\ LifeInv)
<1>1. CASE Sheltered
  <2>1. Typed /\ BoundsTyped /\ LifeInv /\ [Next]_vars => (Typed /\ BoundsTyped /\ LifeInv)'
    BY <1>1, LifeInvNext, TypedNext
  <2> QED BY <2>1, LifeInvInit, PTL DEF Spec
<1>2. CASE ~Sheltered
  BY <1>2
<1> QED BY <1>1, <1>2

LEMMA LifeInvTypes ==
  Typed /\ BoundsTyped /\ LifeInv => TypeOK
<1> SUFFICES ASSUME Typed, BoundsTyped, LifeInv PROVE TypeOK
  OBVIOUS
<1>1. regs \in Nat
  BY DEF LifeInv, SupplyInv
<1>2. calls \in Seq(Callbacks)
  BY LeftsTyped DEF LifeInv, TailInv
<1> QED BY <1>1, <1>2 DEF Typed, DrmState, FlagsTyped, ValuesTyped, BoundsTyped, TypeOK

(* Panel.tla, PowerSound: types, SupplyAgrees, CommandsReachPanel and        *)
(* VoltageSuffices.                                                          *)
THEOREM PowerKept == Sheltered /\ Spec => []PowerSound
<1>1. Typed /\ BoundsTyped /\ LifeInv => PowerSound
  <2> SUFFICES ASSUME Typed, BoundsTyped, LifeInv PROVE PowerSound
    OBVIOUS
  <2>1. SupplyAgrees
    BY LeftsApart DEF SupplyAgrees, AtRest, LifeInv, SupplyInv
  <2>2. VoltageSuffices
    BY DEF VoltageSuffices, LifeInv, VoltInv, ChipInv
  <2> QED BY <2>1, <2>2, LifeInvTypes DEF PowerSound, CommandsReachPanel, LifeInv
<1> QED BY <1>1, LifeInvKept, PTL

(* Panel.tla, ShowsWhatDrmAsked: after a commit that leaves the display on   *)
(* the panel shows content of the mode DRM asked for.                        *)
THEOREM ModeKept == Sheltered /\ Spec => []ShowsWhatDrmAsked
<1>1. LifeInv => ShowsWhatDrmAsked
  BY DEF LifeInv, TailInv, AtRestOk, ChipInv, ShowsWhatDrmAsked, AtRest, Asked, Active
<1> QED BY <1>1, LifeInvKept, PTL

-----------------------------------------------------------------------------
(* The backlight *)

(* No brightness is under way, and the first one was sent. *)
Quiescent == writer = NoWrite /\ calls # BacklightLeft /\ brInit

LightInv ==
  /\ refresh => Active \/ pstate = "MODESET"
  /\ pstate \in {"NORMAL", "HANDOFF", "HANDOFF_MODESET"} \/ (pstate = "MODESET" /\ ~mode.lp) =>
       bl = "normal"
  /\ pstate \in {"OFF", "BLANK"} /\ calls # PostDisableLeft => bl = "standby"
  /\ pstate = "HANDOFF" => shown = level
  /\ pstate = "NORMAL" /\ Quiescent => shown = level
  /\ pstate = "LP" /\ Quiescent /\ HasBin(level) => bl = "lp" /\ binned = Bin(level)

(* A step that leaves the panel state and the backlight alone. *)
LEMMA LightStays ==
  ASSUME LightInv, UNCHANGED <<pstate, mode, light, writer>>,
         refresh' => refresh \/ Active,
         calls # PostDisableLeft \/ calls' = PostDisableLeft \/ pstate \notin {"OFF", "BLANK"},
         calls # BacklightLeft \/ calls' = BacklightLeft
  PROVE  LightInv'
  BY DEF LightInv, Quiescent, light, Active

LEMMA CommitLight ==
  ASSUME LifeInv, LightInv, SwitchOn \/ SwitchOff \/ Sleep \/ Frame \/ Blank \/ Unblank
  PROVE  LightInv'
<1>1. UNCHANGED <<pstate, mode, light, writer, refresh>> /\ calls = <<>>
  BY DEF SwitchOn, SwitchOff, Sleep, Frame, Blank, Unblank, Commit, AtRest
<1> QED BY <1>1, LightStays, LeftsApart

LEMMA DisableForRefreshLight ==
  ASSUME LifeInv, LightInv, DisableForRefresh
  PROVE  LightInv'
<1>1. calls \in {DisableLeft, ModesetLeft}
  BY DisableLeaves DEF DisableForRefresh, LifeInv, TailInv
<1>2. Active
  BY <1>1 DEF LifeInv, TailInv, AtDisable, AtModeset
<1>3. UNCHANGED <<pstate, mode, light, writer>>
  BY DEF DisableForRefresh
<1> QED BY <1>1, <1>2, <1>3, LightStays, LeftsApart

LEMMA DisableLight ==
  ASSUME Typed, LifeInv, LightInv, Disable
  PROVE  LightInv'
<1>1. UNCHANGED <<drm, changed, mode, bl>> /\ pstate' = StateWhileDisabled
  BY DEF Disable
<1>2. \/ calls = DisableLeft /\ calls' = PostDisableLeft
      \/ calls = ModesetLeft /\ calls' = PostModesetLeft
  BY DisableLeaves DEF Disable, LifeInv, TailInv
<1>3. CASE calls = DisableLeft /\ calls' = PostDisableLeft
  <2>1. ~changed
    BY <1>3 DEF LifeInv, TailInv, AtDisable
  <2>2. pstate' \in {"OFF", "BLANK"}
    BY <1>1, <2>1 DEF StateWhileDisabled
  <2>3. ~refresh'
    BY <2>2 DEF Disable, DisableChip
  <2> QED BY <1>3, <2>2, <2>3 DEF LightInv
<1>4. CASE calls = ModesetLeft /\ calls' = PostModesetLeft
  <2>1. AtModeset /\ DrmInv /\ ChipInv
    BY <1>4 DEF LifeInv, TailInv
  <2>2. drm.on /\ ~drm.blanked /\ changed
    BY <2>1 DEF AtModeset, DrmInv
  <2>3. pstate' = "MODESET"
    BY <1>1, <2>2 DEF StateWhileDisabled
  <2>4. ~mode.lp => bl = "normal"
    BY <2>1 DEF AtModeset, ChipInv, Active, LightInv
  <2> QED BY <1>1, <2>3, <2>4 DEF LightInv
<1> QED BY <1>2, <1>3, <1>4

LEMMA PostDisableLight ==
  ASSUME LifeInv, LightInv, PostDisable
  PROVE  LightInv'
<1>1. /\ UNCHANGED <<pstate, mode, refresh, level, binned, shown, brInit, writer>>
      /\ bl' = BacklightOf(pstate, bl)
  BY DEF PostDisable, SetBacklightState
<1>2. \/ calls = PostDisableLeft /\ calls' = <<>>
      \/ calls = PostModesetLeft /\ calls' = SwitchOnLeft
  BY PostDisableLeaves DEF PostDisable, LifeInv, TailInv
<1>3. pstate \in {"NORMAL", "LP", "MODESET", "OFF", "BLANK"}
  BY <1>2 DEF LifeInv, TailInv, AtPostDisable, AtPostModeset, Active
<1>4. Quiescent' => Quiescent
  BY <1>1, <1>2, LeftsApart DEF Quiescent
<1> QED BY <1>1, <1>3, <1>4 DEF LightInv, BacklightOf, Active

LEMMA SameModeLight ==
  ASSUME LifeInv, LightInv, SameMode
  PROVE  LightInv'
<1>1. calls \in {SwitchOnLeft, SeamlessLeft}
  BY ModeSetLeaves DEF SameMode, LifeInv, TailInv
<1>2. UNCHANGED <<pstate, mode, light, writer, refresh>>
  BY DEF SameMode
<1> QED BY <1>1, <1>2, LightStays, LeftsApart

LEMMA EnterLpLight ==
  ASSUME Typed, LifeInv, LightInv, EnterLp
  PROVE  LightInv'
<1>1. drm.mode.lp /\ mode' = drm.mode /\ UNCHANGED <<light, refresh, writer>>
  BY DEF EnterLp
<1>2. \/ calls = SeamlessLeft /\ calls' = BacklightLeft /\ Active
      \/ calls = SwitchOnLeft /\ ~Active
  BY ModeSetLeaves, LeftsApart DEF EnterLp, LifeInv, TailInv, AtSeamless, AtSwitchOn
<1>3. CASE Active
  <2>1. pstate' = "LP" /\ calls' = BacklightLeft
    BY <1>2, <1>3 DEF EnterLp
  <2> QED BY <2>1 DEF LightInv, Quiescent, Active
<1>4. CASE calls = SwitchOnLeft /\ ~Active
  <2>1. AtSwitchOn /\ ChipInv
    BY <1>4 DEF LifeInv, TailInv
  <2>2. pstate' = pstate /\ pstate \in {"OFF", "UNINITIALIZED", "BLANK", "MODESET"}
    BY <1>1, <1>4, <2>1 DEF EnterLp, StateAtModeSet, AtSwitchOn, Active, Typed, ValuesTyped,
       PanelStates
  <2> QED BY <1>1, <1>4, <2>2, LeftsApart DEF LightInv, Quiescent, Active, light
<1> QED BY <1>2, <1>3, <1>4

LEMMA LeaveLpLight ==
  ASSUME Typed, LifeInv, LightInv, LeaveLp
  PROVE  LightInv'
<1>1. ~drm.mode.lp /\ mode.lp /\ UNCHANGED <<refresh, level, shown, brInit, writer>>
  BY DEF LeaveLp
<1>2. \/ calls = SeamlessLeft /\ calls' = BacklightLeft /\ Active
      \/ calls = SwitchOnLeft /\ ~Active
  BY ModeSetLeaves, LeftsApart DEF LeaveLp, LifeInv, TailInv, AtSeamless, AtSwitchOn
<1>3. CASE Active
  <2>1. pstate' = "NORMAL" /\ bl' = "normal" /\ calls' = BacklightLeft
    BY <1>2, <1>3 DEF LeaveLp, SetBacklightState, BacklightOf
  <2> QED BY <2>1 DEF LightInv, Quiescent, Active
<1>4. CASE calls = SwitchOnLeft /\ ~Active
  <2>1. AtSwitchOn /\ ChipInv
    BY <1>4 DEF LifeInv, TailInv
  <2>2. pstate \in {"OFF", "UNINITIALIZED", "BLANK"}
    BY <1>1, <2>1 DEF AtSwitchOn, ChipInv, Active, Typed, ValuesTyped, PanelStates
  <2>3. pstate' = pstate /\ bl' = bl
    BY <1>4, <2>2 DEF LeaveLp, StateAtModeSet
  <2> QED BY <1>1, <1>4, <2>2, <2>3, LeftsApart DEF LightInv, Quiescent, Active
<1> QED BY <1>2, <1>3, <1>4

LEMMA SetNormalModeLight ==
  ASSUME LifeInv, LightInv, SetNormalMode
  PROVE  LightInv'
<1>1. /\ UNCHANGED <<light, refresh, writer>> /\ pstate' = StateAtModeSet
      /\ ~mode.lp /\ calls \in {SwitchOnLeft, SeamlessLeft}
  BY ModeSetLeaves DEF SetNormalMode, LifeInv, TailInv
<1>2. Quiescent' => Quiescent
  BY <1>1, LeftsApart DEF Quiescent, light
<1> QED BY <1>1, <1>2, LeftsApart DEF LightInv, StateAtModeSet, Active, light

LEMMA PreEnableLight ==
  ASSUME LifeInv, LightInv, PreEnable
  PROVE  LightInv'
<1>1. calls \in {OnLeft, WakeLeft}
  BY PreEnableLeaves DEF PreEnable, LifeInv, TailInv
<1>2. UNCHANGED <<pstate, mode, light, writer, refresh>>
  BY DEF PreEnable
<1> QED BY <1>1, <1>2, LightStays, LeftsApart

LEMMA EnableLight ==
  ASSUME Typed, LifeInv, LightInv, Enable
  PROVE  LightInv'
<1>1. PICK identified \in BOOLEAN :
        LET skip == Active \/ (pstate = "HANDOFF" /\ identified)
        IN (skip => UNCHANGED brInit) /\ Next_(~skip)
  BY DEF Enable
<1> DEFINE skip == Active \/ (pstate = "HANDOFF" /\ identified)
<1>2. /\ pstate' = (IF mode.lp THEN "LP" ELSE "NORMAL") /\ ~refresh'
      /\ bl' = (IF refresh THEN bl ELSE BacklightOf(pstate', bl))
      /\ UNCHANGED <<mode, level, binned, shown, writer>>
  BY DEF Enable, SetBacklightState
<1>3. ChipInv /\ calls \in Lefts /\ At("enable")
  BY DEF LifeInv, TailInv, Enable
<1>4. /\ calls \in {EnableLeft, EnableWakeLeft}
      /\ calls = EnableLeft /\ ~skip => calls' = BacklightLeft
  <2>1. Next_(~skip)
    BY <1>1
  <2> HIDE DEF skip
  <2> QED BY <1>3, <2>1, EnableLeaves, LeftsApart
<1>5. calls = EnableWakeLeft => Active
  BY DEF LifeInv, TailInv, AtSeamless
<1>6. pstate' = "NORMAL" => bl' = "normal"
  BY <1>2, <1>3 DEF LightInv, BacklightOf, ChipInv, Active
<1>7. CASE ~skip
  <2>1. calls' = BacklightLeft
    BY <1>4, <1>5, <1>7
  <2> QED BY <1>2, <1>6, <2>1 DEF LightInv, Quiescent, Active
<1>8. CASE skip
  <2>1. Quiescent' => Quiescent
    BY <1>1, <1>2, <1>4, <1>8, LeftsApart DEF Quiescent
  <2>2. pstate' = "NORMAL" /\ Quiescent' => shown' = level'
    BY <1>2, <1>3, <1>8, <2>1 DEF LightInv, ChipInv, Active
  <2>3. pstate' = "LP" => pstate = "LP"
    BY <1>2, <1>3, <1>8 DEF ChipInv, Active
  <2>4. pstate' = "LP" /\ Quiescent' /\ HasBin(level') => bl' = "lp" /\ binned' = Bin(level')
    BY <1>2, <2>1, <2>3 DEF LightInv, BacklightOf
  <2> QED BY <1>2, <1>6, <2>2, <2>4 DEF LightInv, Active
<1> QED BY <1>7, <1>8

(* The level that is asked for reaches a panel that is active. *)
LEMMA BrightnessReaches ==
  ASSUME LifeInv, LightInv, Active, SetBrightness(level), UNCHANGED <<pstate, mode, level, refresh>>
  PROVE  LightInv'
<1>1. ChipInv
  BY DEF LifeInv
<1>2. CASE mode.lp
  <2>1. pstate' = "LP"
    BY <1>1, <1>2 DEF ChipInv
  <2>2. HasBin(level) => bl' = "lp" /\ binned' = Bin(level)
    BY <1>2 DEF SetBrightness, SetBacklightState, BacklightOf
  <2> QED BY <2>1, <2>2 DEF LightInv, Active
<1>3. CASE ~mode.lp
  <2>1. pstate' = "NORMAL"
    BY <1>1, <1>3 DEF ChipInv, Active
  <2>2. shown' = level /\ bl' = bl
    BY <1>3 DEF SetBrightness
  <2> QED BY <2>1, <2>2 DEF LightInv, Active
<1> QED BY <1>2, <1>3

LEMMA UpdateBacklightLight ==
  ASSUME LifeInv, LightInv, UpdateBacklight
  PROVE  LightInv'
<1>1. UNCHANGED <<pstate, mode, refresh, level, writer>>
  BY DEF UpdateBacklight
<1>2. Active
  BY BacklightLeaves DEF UpdateBacklight, LifeInv, TailInv, AtBacklight
<1>3. power
  BY <1>2 DEF LifeInv, SupplyInv, Active, Enabled
<1>4. CASE Ignored(level)
  <2>1. UNCHANGED <<bl, binned, shown, brInit>> /\ ~brInit
    BY <1>2, <1>4 DEF UpdateBacklight, Ignored
  <2> QED BY <1>1, <1>2, <2>1 DEF LightInv, Quiescent, Active
<1>5. CASE ~Ignored(level)
  <2>1. SetBrightness(level)
    BY <1>3, <1>5 DEF UpdateBacklight
  <2> QED BY <1>1, <1>2, <2>1, BrightnessReaches
<1> QED BY <1>4, <1>5

LEMMA WriteBrightnessLight ==
  ASSUME "brightness_boot" \notin Races, LifeInv, LightInv, WriteBrightness
  PROVE  LightInv'
<1>1. UNCHANGED <<calls, pstate, mode, refresh, bl, binned, shown>> /\ pstate # "HANDOFF"
  BY DEF WriteBrightness, tail
<1>2. Active => ~Quiescent'
  <2> SUFFICES ASSUME Active PROVE ~Quiescent'
    OBVIOUS
  <2>1. power
    BY DEF LifeInv, SupplyInv, Active, Enabled
  <2>2. PICK br \in Levels :
          IF Ignored(br) THEN UNCHANGED <<writer, brInit>>
          ELSE writer' = (IF power THEN br ELSE 0) /\ brInit' = TRUE
    BY DEF WriteBrightness
  <2>3. CASE Ignored(br)
    BY <2>2, <2>3 DEF Ignored, Quiescent
  <2>4. CASE ~Ignored(br)
    BY <2>1, <2>2, <2>4 DEF Levels, NoWrite, Quiescent
  <2> QED BY <2>3, <2>4
<1> QED BY <1>1, <1>2 DEF LightInv, Active

LEMMA SendBrightnessLight ==
  ASSUME LifeInv, LightInv, SendBrightness
  PROVE  LightInv'
<1>1. UNCHANGED <<pstate, mode, refresh, level>> /\ writer # NoWrite /\ SetBrightness(writer)
  BY DEF SendBrightness
<1>2. Active /\ writer = level
  BY <1>1 DEF LifeInv, WriterInv
<1> QED BY <1>1, <1>2, BrightnessReaches

LEMMA ForcePowerOnLight ==
  ASSUME Sheltered, LightInv, ForcePowerOn
  PROVE  LightInv'
<1>1. UNCHANGED <<calls, pstate, mode, light, writer, refresh>>
  BY DEF Sheltered, ForcePowerOn, tail
<1> QED BY <1>1, LightStays

LEMMA StutterLight ==
  ASSUME LightInv, UNCHANGED vars
  PROVE  LightInv'
<1>1. UNCHANGED <<calls, pstate, mode, light, writer, refresh>>
  BY DEF vars, tail
<1> QED BY <1>1, LightStays

(* Panel.tla, BacklightAgrees: the backlight device says what the panel      *)
(* does, and the panel shows the brightness asked for last.                  *)
THEOREM BacklightKept ==
  Sheltered /\ "brightness_boot" \notin Races /\ Spec => []BacklightAgrees
<1>1. Init => LightInv
  BY LeftsApart DEF Init, LightInv, Quiescent, Wqhd, Active
<1>2. Typed /\ LifeInv /\ LightInv => BacklightAgrees
  <2> SUFFICES ASSUME Typed, LifeInv, LightInv, AtRest, writer = NoWrite, drm.mode # NoMode
               PROVE  /\ pstate = "NORMAL" => bl = "normal" /\ (brInit => shown = level)
                      /\ pstate = "LP" /\ brInit /\ HasBin(level) =>
                           bl = "lp" /\ binned = Bin(level)
                      /\ pstate \in {"OFF", "BLANK"} => bl = "standby"
    BY DEF BacklightAgrees
  <2>1. calls \notin {PostDisableLeft, BacklightLeft}
    BY LeftsApart DEF AtRest
  <2> QED BY <2>1 DEF LightInv, Quiescent
<1>3. CASE Sheltered /\ "brightness_boot" \notin Races
  <2>1. Typed /\ LifeInv /\ LightInv /\ [Next]_vars => LightInv'
    BY <1>3, CommitLight, DisableForRefreshLight, DisableLight, PostDisableLight, SameModeLight,
       EnterLpLight, LeaveLpLight, SetNormalModeLight, PreEnableLight, EnableLight,
       UpdateBacklightLight, WriteBrightnessLight, SendBrightnessLight, ForcePowerOnLight,
       StutterLight DEF Next
  <2>2. Sheltered
    BY <1>3
  <2> QED BY <1>1, <1>2, <2>1, <2>2, LifeInvKept, PTL DEF Spec
<1>4. CASE ~(Sheltered /\ "brightness_boot" \notin Races)
  BY <1>4
<1> QED BY <1>3, <1>4

-----------------------------------------------------------------------------
(* Nobody gets in between the unlock and the relock of a thread that         *)
(* switches LHBM off, nor between a write's check of the panel and its lock. *)
Exclusive == LhbmRaces \cap {"reenable", "double_disable", "store_check"} = {}

-----------------------------------------------------------------------------
(* The inductive invariant *)

Places == {"idle", "checked", "start", "cancel", "wait", "relock", "dark", "relight"}

(* One thread at a time is between the unlock and the relock, and the        *)
(* request stays dropped until it has the lock again.                        *)
Turns == \A t, u \in Threads : Disabling(t) => ~requested /\ (Disabling(u) => t = u)

ModeInv == (lhbmState = "LP" => lhbmMode = "lp") /\ (lhbmState = "NORMAL" => lhbmMode # "lp")

StoreInv == pc["store"] = "checked" => lhbmState # "OFF"

(* A recovery that has the panel off. *)
Recovers == then["commit"] = "recover" /\ (pc["commit"] = "start" \/ Disabling("commit"))

(* A commit that has begun ends with LHBM off, unless it lights the panel.   *)
CommitInv ==
  /\ then["store"] = "return" /\ then["timeout"] = "return"
  /\ pc["commit"] \in {"idle", "start", "cancel", "wait", "relock", "dark", "relight"}
  /\ pc["commit"] = "dark" => Disabled /\ lhbmState = "OFF"
  /\ pc["commit"] = "relight" => lhbmState # "OFF" /\ (~Disabled => lhbmState = "NORMAL")
  /\ Recovers => lhbmState = "OFF"

LhbmInv == LhbmTypeOK /\ Turns /\ ModeInv /\ StoreInv /\ CommitInv /\ LhbmOnlyWhenLit /\ EnablingEnds

(* What a recovery knows of the request: before says whether it is there     *)
(* to be restored.                                                           *)
RequestInv ==
  /\ ~Disabled /\ (\A t \in Threads : ~Disabling(t)) => requested
  /\ pc["commit"] = "start" /\ Recovers => before = requested /\ (requested => ~Disabled)
  /\ Disabling("commit") /\ Recovers => before
  /\ pc["commit"] \in {"dark", "relight"} => before = requested

-----------------------------------------------------------------------------
(* The invariant holds at the start. *)
LEMMA LhbmInitInv == LhbmInit => LhbmInv /\ RequestInv
<1> USE LhbmBoundsAssumption
<1> SUFFICES ASSUME LhbmInit PROVE LhbmInv /\ RequestInv
  OBVIOUS
<1>1. lhbmUsed \in [commits : 0 .. LhbmCommits, stores : 0 .. LhbmStores]
  BY DEF LhbmInit
<1>2. /\ pc \in [Threads -> {"idle", "checked", "start", "cancel", "wait", "relock", "dark", "relight"}]
      /\ then \in [Threads -> Nexts]
  BY DEF LhbmInit, Nexts
<1>3. LhbmTypeOK
  BY <1>1, <1>2 DEF LhbmInit, LhbmTypeOK, LhbmModes, States
<1> QED
  BY <1>3 DEF LhbmInit, LhbmInv, Turns, ModeInv, StoreInv, Recovers, CommitInv, LhbmOnlyWhenLit,
     EnablingEnds,
     RequestInv, Disabled, Disabling, Threads

-----------------------------------------------------------------------------
(* Steps of the threads under the lock *)

LEMMA CommitStep ==
  ASSUME Exclusive, LhbmInv, LhbmSwitchOff \/ LhbmEnterLp \/ RecoverOn \/ LhbmSetMode PROVE LhbmInv'
<1> USE DEF LhbmInv
<1>1. LhbmTypeOK'
  <2>1. lhbmUsed' \in [commits : 0 .. LhbmCommits, stores : 0 .. LhbmStores]
    BY LhbmBoundsAssumption DEF LhbmTypeOK, LhbmSwitchOff, LhbmEnterLp, RecoverOn, LhbmSetMode,
       LhbmCommit
  <2>2. pc' \in [Threads -> Places] /\ then' \in [Threads -> Nexts]
    BY DEF LhbmTypeOK, Places, LhbmSwitchOff, LhbmEnterLp, RecoverOn, LhbmSetMode, LhbmCommit,
       Threads, Nexts
  <2>3. lhbmState' \in {"OFF", "NORMAL", "LP"} /\ lhbmMode' \in LhbmModes
    BY DEF LhbmTypeOK, LhbmSwitchOff, LhbmEnterLp, RecoverOn, LhbmSetMode, lhbm, panel, LhbmModes
  <2>4. UNCHANGED <<lhbm, postEnable, stored>> /\ before' \in BOOLEAN
    BY DEF LhbmTypeOK, LhbmSwitchOff, LhbmEnterLp, RecoverOn, LhbmSetMode
  <2> QED BY <2>1, <2>2, <2>3, <2>4 DEF LhbmTypeOK, Places, lhbm
<1>2. Turns'
  BY DEF Turns, LhbmSwitchOff, LhbmEnterLp, RecoverOn, LhbmSetMode, LhbmCommit, lhbm, panel,
     Disabling, Threads, LhbmTypeOK
<1>3. ModeInv' /\ StoreInv'
  BY DEF Exclusive, StoreInv, ModeInv, LhbmSwitchOff, LhbmEnterLp, RecoverOn, LhbmSetMode,
     LhbmCommit, lhbm, panel, Settled, Threads, LhbmTypeOK, LhbmModes
<1>4. CommitInv'
  BY DEF Exclusive, CommitInv, ModeInv, LhbmSwitchOff, LhbmEnterLp, RecoverOn, LhbmSetMode,
     LhbmCommit, lhbm, panel, Disabling, Disabled, Recovers, Threads, LhbmTypeOK, LhbmModes
<1>5. LhbmOnlyWhenLit'
  BY DEF Exclusive, LhbmOnlyWhenLit, CommitInv, LhbmSwitchOff, LhbmEnterLp, RecoverOn,
     LhbmSetMode, LhbmCommit, lhbm, panel, Disabled, Threads, LhbmTypeOK, LhbmModes
<1>6. EnablingEnds'
  BY DEF Exclusive, EnablingEnds, LhbmSwitchOff, LhbmEnterLp, RecoverOn, LhbmSetMode,
     LhbmCommit, lhbm, panel, Disabling, Threads, LhbmTypeOK
<1> QED BY <1>1, <1>2, <1>3, <1>4, <1>5, <1>6

(* Beginning to switch LHBM off, or doing so under the lock when there is no *)
(* post work.                                                                *)
LEMMA AskOffInv ==
  ASSUME Exclusive, LhbmInv, NEW t \in Threads, NEW next \in Nexts, AskOff(t, next),
         UNCHANGED <<postEnable, stored>>, armed' \in BOOLEAN, before' \in BOOLEAN,
         lhbmUsed' \in [commits : 0 .. LhbmCommits, stores : 0 .. LhbmStores],
         t # "commit" => next = "return",
         t = "commit" => pc[t] \in {"idle", "start"},
         t = "commit" /\ next = "recover" => lhbmState = "OFF"
  PROVE  LhbmInv'
<1> USE DEF LhbmInv
<1>1. pc' \in [Threads -> Places] /\ then' \in [Threads -> Nexts]
  BY DEF LhbmTypeOK, Places, AskOff, Finish
<1>2. pc'[t] \in {"cancel", "dark", "idle"} /\ then'[t] = next
      /\ \A u \in Threads : u # t => pc'[u] = pc[u] /\ then'[u] = then[u]
  BY DEF LhbmTypeOK, AskOff, Finish
<1>3. \A u \in Threads : ~Disabling(u)
  BY DEF Exclusive, AskOff
<1>4. CASE ~Disabled /\ postEnable
  <2>1. pc'[t] = "cancel" /\ requested' = FALSE /\ UNCHANGED <<panel, effective, queued, post>>
    BY <1>4 DEF AskOff, LhbmTypeOK
  <2>2. LhbmTypeOK'
    BY <1>1, <2>1 DEF LhbmTypeOK, Places, panel
  <2>3. Turns'
    BY <1>2, <1>3, <2>1 DEF Turns, Disabling
  <2>4. ModeInv' /\ StoreInv' /\ CommitInv'
    BY <1>2, <1>3, <2>1 DEF ModeInv, StoreInv, CommitInv, Recovers, Disabling, Disabled, panel,
       Threads
  <2>5. LhbmOnlyWhenLit' /\ EnablingEnds'
    BY <1>2, <2>1 DEF LhbmOnlyWhenLit, EnablingEnds, Disabled, Disabling, panel, Threads
  <2> QED BY <2>2, <2>3, <2>4, <2>5
<1>5. CASE ~(~Disabled /\ postEnable)
  <2>1. /\ pc'[t] = IF next = "recover" THEN "dark" ELSE "idle"
        /\ effective' = "DISABLED" /\ requested' = (next # "return") /\ UNCHANGED <<queued, post>>
        /\ IF next = "lp" THEN lhbmState' = "LP" /\ lhbmMode' = "lp" ELSE UNCHANGED panel
    BY <1>5 DEF AskOff, Finish, SetEffective, LhbmTypeOK
  <2>2. LhbmTypeOK'
    <3>1. requested' \in BOOLEAN /\ effective' \in States /\ effective' # "ENABLING"
      BY <2>1 DEF States
    <3>2. lhbmState' \in {"OFF", "NORMAL", "LP"} /\ lhbmMode' \in LhbmModes
      BY <2>1 DEF LhbmTypeOK, panel, LhbmModes
    <3> QED BY <1>1, <2>1, <3>1, <3>2 DEF LhbmTypeOK, Places
  <2>3. Turns'
    BY <1>2, <1>3, <2>1 DEF Turns, Disabling
  <2>4. ModeInv' /\ StoreInv' /\ CommitInv'
    BY <1>2, <1>3, <2>1 DEF ModeInv, StoreInv, CommitInv, Recovers, Disabling, Disabled, panel,
       Threads
  <2>5. LhbmOnlyWhenLit' /\ EnablingEnds'
    BY <2>1 DEF LhbmOnlyWhenLit, EnablingEnds, Disabled
  <2> QED BY <2>2, <2>3, <2>4, <2>5
<1> QED BY <1>4, <1>5

(* Carrying out a request to switch LHBM on, with the panel lit.             *)
LEMMA CarryOutInv ==
  ASSUME Exclusive, LhbmInv, CarryOut, \A t \in Threads : ~Disabling(t), lhbmState # "OFF",
         UNCHANGED <<panel, post, postEnable, then, stored>>, requested' \in BOOLEAN, before' \in BOOLEAN,
         lhbmUsed' \in [commits : 0 .. LhbmCommits, stores : 0 .. LhbmStores], pc' \in [Threads -> Places],
         \A t \in Threads : pc'[t] \in {"idle", pc[t]},
         pc["commit"] = "start" => pc'["commit"] = "start"
  PROVE  LhbmInv'
<1> USE DEF LhbmInv
<1>1. armed' \in BOOLEAN /\ queued' \in BOOLEAN /\ effective' \in States
      /\ (postEnable \/ (~queued' /\ effective' # "ENABLING"))
  BY DEF CarryOut, SetEffective, QueuePost, LhbmTypeOK, States
<1>2. LhbmTypeOK'
  BY <1>1 DEF LhbmTypeOK, Places, panel
<1>3. \A t \in Threads : ~Disabling(t)'
  BY DEF Disabling
<1>4. Turns'
  BY <1>3 DEF Turns
<1>5. (effective' # "DISABLED" /\ pc["commit"] # "start") => ~Disabled \/ lhbmState = "NORMAL"
  BY DEF CarryOut, SetEffective, ModeInv, Disabled, LhbmTypeOK, LhbmModes
<1>6. ModeInv' /\ StoreInv' /\ CommitInv'
  BY <1>3, <1>5 DEF ModeInv, StoreInv, CommitInv, Recovers, Disabling, Disabled, panel, Threads
<1>7. LhbmOnlyWhenLit'
  BY <1>5 DEF LhbmOnlyWhenLit, CommitInv, Disabled, Disabling, panel, Threads
<1>8. EnablingEnds'
  BY <1>3 DEF EnablingEnds, CarryOut, SetEffective, QueuePost, Canceling, Disabled, Disabling,
     LhbmTypeOK
<1> QED BY <1>2, <1>4, <1>6, <1>7, <1>8

LEMMA ForceOffInv == ASSUME Exclusive, LhbmInv, ForceOff PROVE LhbmInv'
<1> USE DEF LhbmInv
<1>1. pc["commit"] = "start" /\ UNCHANGED <<postEnable, stored, before, lhbmUsed>>
  BY DEF ForceOff
<1>2. CASE Disabled
  <2> DEFINE next == then["commit"]
  <2>1. /\ IF next = "lp" THEN lhbmState' = "LP" /\ lhbmMode' = "lp" ELSE UNCHANGED panel
        /\ pc' = [pc EXCEPT !["commit"] = IF next = "recover" THEN "dark" ELSE "idle"]
        /\ UNCHANGED <<lhbm, then>>
    BY <1>2 DEF ForceOff
  <2>2. pc' \in [Threads -> Places]
    BY <2>1 DEF LhbmTypeOK, Places
  <2>3. pc'["commit"] = (IF next = "recover" THEN "dark" ELSE "idle")
        /\ \A t \in Threads : t # "commit" => pc'[t] = pc[t]
    BY <2>1 DEF LhbmTypeOK, Threads
  <2>4. LhbmTypeOK'
    <3>1. lhbmState' \in {"OFF", "NORMAL", "LP"} /\ lhbmMode' \in LhbmModes
      BY <2>1 DEF LhbmTypeOK, panel, LhbmModes
    <3> QED BY <1>1, <2>1, <2>2, <3>1 DEF LhbmTypeOK, Places, lhbm
  <2>5. Turns' /\ LhbmOnlyWhenLit' /\ EnablingEnds'
    BY <1>1, <1>2, <2>1, <2>3 DEF Turns, LhbmOnlyWhenLit, EnablingEnds, Disabling, Disabled, lhbm
  <2>6. ModeInv' /\ StoreInv' /\ CommitInv'
    BY <1>1, <1>2, <2>1, <2>3 DEF ModeInv, StoreInv, CommitInv, Recovers, Disabling, Disabled,
       panel, lhbm, Threads
  <2> QED BY <2>4, <2>5, <2>6
<1>3. CASE ~Disabled
  <2>1. AskOff("commit", then["commit"]) /\ armed' = FALSE
    BY <1>3 DEF ForceOff, Disarm
  <2>2. then["commit"] \in Nexts /\ (then["commit"] = "recover" => lhbmState = "OFF")
    BY <1>1 DEF LhbmTypeOK, CommitInv, Recovers, Threads
  <2>3. before' \in BOOLEAN /\ lhbmUsed' \in [commits : 0 .. LhbmCommits, stores : 0 .. LhbmStores]
    BY <1>1 DEF LhbmTypeOK
  <2> QED BY <1>1, <2>1, <2>2, <2>3, AskOffInv DEF Threads
<1> QED BY <1>2, <1>3

LEMMA RelightInv == ASSUME Exclusive, LhbmInv, Relight PROVE LhbmInv'
<1> USE DEF LhbmInv
<1>1. /\ pc["commit"] = "relight" /\ pc' = [pc EXCEPT !["commit"] = "idle"]
      /\ UNCHANGED <<panel, requested, post, postEnable, then, stored, before, lhbmUsed>>
  BY DEF Relight
<1>2. pc' \in [Threads -> Places] /\ pc'["commit"] = "idle" /\ \A t \in Threads : t # "commit" => pc'[t] = pc[t]
  BY <1>1 DEF LhbmTypeOK, Places, Threads
<1>3. /\ lhbmState # "OFF" /\ requested' \in BOOLEAN /\ before' \in BOOLEAN
      /\ lhbmUsed' \in [commits : 0 .. LhbmCommits, stores : 0 .. LhbmStores]
  BY <1>1 DEF CommitInv, LhbmTypeOK
<1>4. CASE requested
  <2>1. CarryOut /\ \A t \in Threads : ~Disabling(t)
    BY <1>4 DEF Relight, Exclusive
  <2> QED BY <1>1, <1>2, <1>3, <2>1, CarryOutInv
<1>5. CASE ~requested
  <2>1. UNCHANGED <<effective, armed, queued>>
    BY <1>5 DEF Relight
  <2>2. LhbmTypeOK'
    BY <1>1, <1>2, <2>1 DEF LhbmTypeOK, Places, panel
  <2>3. Turns' /\ LhbmOnlyWhenLit' /\ EnablingEnds'
    BY <1>1, <1>2, <2>1 DEF Turns, CommitInv, LhbmOnlyWhenLit, EnablingEnds, Disabling,
       Disabled, panel, Threads
  <2>4. ModeInv' /\ StoreInv' /\ CommitInv'
    BY <1>1, <1>2, <2>1 DEF ModeInv, StoreInv, CommitInv, Recovers, Disabling, Disabled, panel,
       Threads
  <2> QED BY <2>2, <2>3, <2>4
<1> QED BY <1>4, <1>5

LEMMA CommitAsksInv == ASSUME Exclusive, LhbmInv, CommitAsks PROVE LhbmInv'
<1> USE DEF LhbmInv
<1>1. /\ pc["commit"] = "idle" /\ lhbmState = "NORMAL" /\ UNCHANGED <<postEnable, stored>>
      /\ lhbmUsed' = [lhbmUsed EXCEPT !.commits = lhbmUsed.commits + 1] /\ lhbmUsed.commits < LhbmCommits
  BY DEF CommitAsks, LhbmCommit
<1>2. lhbmUsed' \in [commits : 0 .. LhbmCommits, stores : 0 .. LhbmStores]
  BY <1>1, LhbmBoundsAssumption DEF LhbmTypeOK
<1>3. CASE AskOff("commit", "return") /\ Disarm /\ before' = FALSE
  BY <1>1, <1>2, <1>3, AskOffInv DEF Disarm, Threads, Nexts
<1>4. CASE AskOn /\ UNCHANGED <<pc, then>>
  <2>1. CarryOut /\ (\A t \in Threads : ~Disabling(t)) /\ UNCHANGED <<panel, post>>
        /\ requested' \in BOOLEAN /\ before' \in BOOLEAN
    BY <1>4 DEF AskOn, Exclusive
  <2>2. pc' \in [Threads -> Places]
    BY <1>4 DEF LhbmTypeOK, Places
  <2> QED BY <1>1, <1>2, <1>4, <2>1, <2>2, CarryOutInv
<1> QED BY <1>3, <1>4 DEF CommitAsks

LEMMA StoreSetsInv == ASSUME Exclusive, LhbmInv, StoreSets PROVE LhbmInv'
<1> USE DEF LhbmInv
<1>1. pc["store"] = "checked" /\ UNCHANGED <<postEnable, stored, lhbmUsed>>
  BY DEF StoreSets
<1>2. lhbmState # "OFF" /\ lhbmUsed' \in [commits : 0 .. LhbmCommits, stores : 0 .. LhbmStores]
  BY <1>1 DEF StoreInv, LhbmTypeOK
<1>3. CASE AskOff("store", "return") /\ Disarm /\ before' = FALSE
  BY <1>1, <1>2, <1>3, AskOffInv DEF Disarm, Threads, Nexts
<1>4. CASE AskOn /\ pc' = [pc EXCEPT !["store"] = "idle"] /\ UNCHANGED then
  <2>1. CarryOut /\ (\A t \in Threads : ~Disabling(t)) /\ UNCHANGED <<panel, post>>
        /\ requested' \in BOOLEAN /\ before' \in BOOLEAN
    BY <1>4 DEF AskOn, Exclusive
  <2>2. /\ pc' \in [Threads -> Places] /\ \A t \in Threads : pc'[t] \in {"idle", pc[t]}
        /\ pc["commit"] = "start" => pc'["commit"] = "start"
    BY <1>4 DEF LhbmTypeOK, Places, Threads
  <2> QED BY <1>1, <1>2, <1>4, <2>1, <2>2, CarryOutInv
<1> QED BY <1>3, <1>4 DEF StoreSets

LEMMA TimeoutRunsInv == ASSUME Exclusive, LhbmInv, TimeoutRuns PROVE LhbmInv'
<1>1. /\ AskOff("timeout", "return") /\ UNCHANGED <<armed, postEnable, stored, lhbmUsed>>
      /\ before' = FALSE
  BY DEF TimeoutRuns
<1>2. armed' \in BOOLEAN /\ lhbmUsed' \in [commits : 0 .. LhbmCommits, stores : 0 .. LhbmStores]
  BY <1>1 DEF LhbmInv, LhbmTypeOK
<1> QED BY <1>1, <1>2, AskOffInv DEF Threads, Nexts

(* The second half of switching LHBM off.                                    *)
LEMMA RelockInv == ASSUME Exclusive, LhbmInv, NEW t \in Threads, Relock(t) PROVE LhbmInv'
<1> USE DEF LhbmInv
<1> DEFINE next == then[t]
<1>1. Disabling(t) /\ ~requested /\ \A u \in Threads : u # t => ~Disabling(u)
  BY DEF Relock, Disabling, Turns
<1>2. /\ effective' = "DISABLED" /\ requested' = (next # "return")
      /\ IF next = "lp" THEN lhbmState' = "LP" /\ lhbmMode' = "lp" ELSE UNCHANGED panel
      /\ pc' = [pc EXCEPT ![t] = IF next = "recover" THEN "dark" ELSE "idle"]
      /\ UNCHANGED <<armed, queued, post, postEnable, then, stored, before, lhbmUsed>>
  BY <1>1 DEF Relock, SetEffective, Finish, LhbmTypeOK
<1>3. pc' \in [Threads -> Places] /\ pc'[t] = (IF next = "recover" THEN "dark" ELSE "idle")
      /\ \A u \in Threads : u # t => pc'[u] = pc[u]
  BY <1>2 DEF LhbmTypeOK, Places
<1>4. LhbmTypeOK'
  <2>1. requested' \in BOOLEAN /\ effective' \in States /\ effective' # "ENABLING"
    BY <1>2 DEF States
  <2>2. lhbmState' \in {"OFF", "NORMAL", "LP"} /\ lhbmMode' \in LhbmModes
    BY <1>2 DEF LhbmTypeOK, panel, LhbmModes
  <2> QED BY <1>2, <1>3, <2>1, <2>2 DEF LhbmTypeOK, Places
<1>5. Turns'
  BY <1>1, <1>2, <1>3 DEF Turns, Disabling
<1>6. ModeInv' /\ StoreInv' /\ CommitInv'
  BY <1>1, <1>2, <1>3 DEF ModeInv, StoreInv, CommitInv, Recovers, Disabling, Disabled, panel,
     Threads
<1>7. LhbmOnlyWhenLit' /\ EnablingEnds'
  BY <1>2 DEF LhbmOnlyWhenLit, EnablingEnds, Disabled
<1> QED BY <1>4, <1>5, <1>6, <1>7

-----------------------------------------------------------------------------
(* Steps without the lock *)

LEMMA FreeStep ==
  ASSUME Exclusive, LhbmInv, StoreChecks \/ Expire \/ \E t \in Threads : Cancel(t) \/ Waited(t)
  PROVE  LhbmInv'
<1> USE DEF LhbmInv
<1>1. UNCHANGED <<panel, requested, effective, post, postEnable, then, before>>
      /\ armed' \in {armed, FALSE} /\ queued' \in {queued, FALSE} /\ stored' \in BOOLEAN
  <2>1. CASE StoreChecks
    BY <2>1 DEF StoreChecks, lhbm
  <2>2. CASE Expire
    BY <2>2 DEF Expire, LhbmTypeOK
  <2>3. CASE \E t \in Threads : Cancel(t) \/ Waited(t)
    BY <2>3 DEF Cancel, Waited, lhbm, LhbmTypeOK
  <2> QED BY <2>1, <2>2, <2>3
<1>2. lhbmUsed' \in [commits : 0 .. LhbmCommits, stores : 0 .. LhbmStores]
  BY LhbmBoundsAssumption DEF StoreChecks, Expire, Cancel, Waited, LhbmTypeOK
<1>3. pc' \in [Threads -> Places]
  BY DEF StoreChecks, Expire, Cancel, Waited, LhbmTypeOK, Places, Threads
<1>4. LhbmTypeOK'
  <2>1. armed \in BOOLEAN /\ queued \in BOOLEAN /\ (postEnable \/ queued = FALSE)
    BY DEF LhbmTypeOK
  <2>2. armed' \in BOOLEAN /\ queued' \in BOOLEAN /\ (postEnable \/ queued' = FALSE)
    BY <1>1, <2>1
  <2> QED BY <1>1, <1>2, <1>3, <2>2 DEF LhbmTypeOK, Places, panel
<1>5. /\ \A t \in Threads : Disabling(t)' <=> Disabling(t)
      /\ pc'["commit"] \in {"idle", "start", "dark", "relight"} \/ pc["commit"] \in {"idle", "start", "dark", "relight"}
           => pc'["commit"] = pc["commit"]
      /\ pc'["store"] = "checked" => pc["store"] = "checked" \/ lhbmState # "OFF"
  BY DEF StoreChecks, Expire, Cancel, Waited, LhbmTypeOK, Disabling, LhbmActive, Threads
<1>6. Turns' /\ ModeInv' /\ StoreInv' /\ LhbmOnlyWhenLit'
  BY <1>1, <1>5 DEF Turns, ModeInv, StoreInv, LhbmOnlyWhenLit, Disabled, panel, Threads
<1>7. CommitInv'
  BY <1>1, <1>5 DEF CommitInv, Recovers, Disabled, Disabling, panel, Threads
<1>8. EnablingEnds'
  <2>1. queued => queued' \/ \E t \in Threads : Disabling(t)
    BY DEF StoreChecks, Expire, Cancel, Waited, Disabling, lhbm
  <2> QED BY <1>1, <1>5, <2>1 DEF EnablingEnds
<1> QED BY <1>4, <1>6, <1>7, <1>8

LEMMA PostStep == ASSUME LhbmInv, PostStarts \/ PostCmd \/ PostNotify PROVE LhbmInv'
<1> USE DEF LhbmInv
<1>1. UNCHANGED <<panel, requested, armed, postEnable, pc, then, stored, before, lhbmUsed>>
  BY DEF PostStarts, PostCmd, PostNotify
<1>2. postEnable /\ queued' \in BOOLEAN /\ post' \in {"idle", "cmd", "notify", "lastCmd", "lastNotify"}
      /\ effective' \in States /\ (effective' = "DISABLED" <=> Disabled)
  BY DEF PostStarts, PostCmd, PostNotify, LhbmTypeOK, States, Disabled
<1>3. LhbmTypeOK'
  BY <1>1, <1>2 DEF LhbmTypeOK, panel
<1>4. Turns' /\ ModeInv' /\ StoreInv' /\ LhbmOnlyWhenLit' /\ CommitInv'
  BY <1>1, <1>2 DEF Turns, ModeInv, StoreInv, LhbmOnlyWhenLit, CommitInv, Recovers, Disabled,
     Disabling, panel
<1>5. EnablingEnds'
  BY DEF EnablingEnds, PostStarts, PostCmd, PostNotify, Disabling, LhbmTypeOK, States
<1> QED BY <1>3, <1>4, <1>5

LEMMA LhbmNextInv == ASSUME Exclusive, LhbmInv, [LhbmNext]_lhbmVars PROVE LhbmInv'
<1>1. CASE UNCHANGED lhbmVars
  BY <1>1 DEF lhbmVars, panel, lhbm, LhbmInv, LhbmTypeOK, Turns, ModeInv, StoreInv, CommitInv,
     Recovers, LhbmOnlyWhenLit,
     EnablingEnds, Disabled, Disabling
<1>2. CASE LhbmNext
  BY <1>2, CommitStep, ForceOffInv, RelightInv, CommitAsksInv, StoreSetsInv, TimeoutRunsInv,
     RelockInv, FreeStep, PostStep
     DEF LhbmNext, DisableSteps
<1> QED BY <1>1, <1>2

(* Local high brightness is never left set on a panel that is off or in low  *)
(* power, and reported as coming on only while something will report it on   *)
(* (or off), whatever else races: also when a recovery restores a request    *)
(* that is older than the disable.                                           *)
THEOREM LhbmCorrect == ASSUME Exclusive PROVE LhbmSpec => []LhbmSound
<1>1. LhbmInv /\ [LhbmNext]_lhbmVars => LhbmInv'
  BY LhbmNextInv
<1>2. LhbmInit => LhbmInv
  BY LhbmInitInv
<1>3. LhbmInv => LhbmSound
  BY DEF LhbmInv, LhbmSound
<1> QED BY <1>1, <1>2, <1>3, PTL DEF LhbmSpec

-----------------------------------------------------------------------------
(* The request across a recovery *)

(* Beginning to switch LHBM off keeps what is known of the request: only the *)
(* thread of the commit restores it.                                         *)
LEMMA AskOffKeeps ==
  ASSUME Exclusive, LhbmInv, RequestInv, NEW t \in Threads, NEW next \in Nexts, AskOff(t, next),
         t # "commit" => next = "return" /\ before' = FALSE,
         t = "commit" => \/ pc[t] = "idle" /\ next = "return"
                         \/ pc[t] = "start" /\ next = then[t] /\ ~Disabled /\ before' = before
  PROVE  RequestInv'
<1> USE DEF LhbmInv
<1>1. pc'[t] \in {"cancel", "dark", "idle"} /\ then'[t] = next
      /\ \A u \in Threads : u # t => pc'[u] = pc[u] /\ then'[u] = then[u]
  BY DEF LhbmTypeOK, AskOff, Finish
<1>2. \A u \in Threads : ~Disabling(u)
  BY DEF Exclusive, AskOff
<1>3. CASE ~Disabled /\ postEnable
  <2>1. pc'[t] = "cancel" /\ requested' = FALSE /\ UNCHANGED effective
    BY <1>3 DEF AskOff, LhbmTypeOK
  <2> QED BY <1>1, <1>2, <1>3, <2>1 DEF RequestInv, Recovers, Disabling, Disabled, Threads
<1>4. CASE ~(~Disabled /\ postEnable)
  <2>1. /\ pc'[t] = IF next = "recover" THEN "dark" ELSE "idle"
        /\ effective' = "DISABLED" /\ requested' = (next # "return")
    BY <1>4 DEF AskOff, Finish, SetEffective, LhbmTypeOK
  <2> QED BY <1>1, <1>2, <2>1 DEF RequestInv, Recovers, Disabling, Disabled, Threads
<1> QED BY <1>3, <1>4

LEMMA RequestNext ==
  ASSUME Exclusive, "stale_request" \notin LhbmRaces, LhbmInv, RequestInv, [LhbmNext]_lhbmVars PROVE RequestInv'
<1> USE DEF LhbmInv
<1>1. CASE LhbmSwitchOff
  BY <1>1 DEF LhbmSwitchOff, LhbmCommit, RequestInv, Recovers, Disabling, Disabled, lhbm,
     LhbmTypeOK, Threads
<1>2. CASE LhbmEnterLp \/ RecoverOn \/ LhbmSetMode
  BY <1>2 DEF LhbmEnterLp, RecoverOn, LhbmSetMode, LhbmCommit, RequestInv, Recovers, Disabling,
     Disabled, lhbm, panel, LhbmTypeOK, Threads
<1>3. CASE ForceOff
  <2>1. CASE Disabled
    BY <1>3, <2>1 DEF ForceOff, RequestInv, Recovers, Disabling, Disabled, lhbm, LhbmTypeOK, Threads
  <2>2. CASE ~Disabled
    <3>1. AskOff("commit", then["commit"]) /\ pc["commit"] = "start" /\ before' = before
      BY <1>3, <2>2 DEF ForceOff
    <3>2. then["commit"] \in Nexts
      BY DEF LhbmTypeOK, Threads
    <3> QED BY <2>2, <3>1, <3>2, AskOffKeeps DEF Threads
  <2> QED BY <2>1, <2>2
<1>4. CASE Relight
  BY <1>4 DEF Relight, CarryOut, SetEffective, RequestInv, Recovers, Disabling, Disabled,
     LhbmTypeOK, Threads
<1>5. CASE AskOff("commit", "return") /\ pc["commit"] = "idle"
  BY <1>5, AskOffKeeps DEF Threads, Nexts
<1>6. CASE AskOn /\ UNCHANGED then /\ (UNCHANGED pc \/ pc' = [pc EXCEPT !["store"] = "idle"]) /\ lhbmState # "OFF"
  <2>1. (\A t \in Threads : ~Disabling(t)) /\ requested' = TRUE /\ before' = TRUE
    BY <1>6 DEF AskOn, Exclusive
  <2>2. (\A t \in Threads : ~Disabling(t)') /\ pc'["commit"] = pc["commit"]
    BY <1>6, <2>1 DEF LhbmTypeOK, Disabling, Threads
  <2>3. ~Recovers /\ ~Recovers'
    BY <1>6, <2>1, <2>2 DEF CommitInv, Recovers, Threads
  <2> QED BY <2>1, <2>2, <2>3 DEF RequestInv
<1>7. CASE AskOff("store", "return") /\ before' = FALSE
  BY <1>7, AskOffKeeps DEF Threads, Nexts
<1>8. CASE TimeoutRuns
  BY <1>8, AskOffKeeps DEF TimeoutRuns, Threads, Nexts
<1>9. ASSUME NEW t \in Threads, Relock(t) PROVE RequestInv'
  <2>1. Disabling(t) /\ ~requested /\ \A u \in Threads : u # t => ~Disabling(u)
    BY <1>9 DEF Relock, Disabling, Turns
  <2>2. /\ effective' = "DISABLED" /\ requested' = (then[t] # "return")
        /\ pc' = [pc EXCEPT ![t] = IF then[t] = "recover" THEN "dark" ELSE "idle"]
        /\ UNCHANGED <<then, before>>
    BY <1>9, <2>1 DEF Relock, SetEffective, Finish, LhbmTypeOK
  <2>3. pc'[t] = (IF then[t] = "recover" THEN "dark" ELSE "idle") /\ \A u \in Threads : u # t => pc'[u] = pc[u]
    BY <2>2 DEF LhbmTypeOK
  <2>4. CASE t = "commit"
    BY <2>1, <2>2, <2>3, <2>4 DEF RequestInv, Recovers, Disabling, Disabled, LhbmTypeOK, Threads
  <2>5. CASE t # "commit"
    BY <2>1, <2>2, <2>3, <2>5 DEF CommitInv, RequestInv, Recovers, Disabling, Disabled,
       LhbmTypeOK, Threads
  <2> QED BY <2>4, <2>5
<1>10. CASE StoreChecks \/ Expire \/ \E t \in Threads : Cancel(t) \/ Waited(t)
  <2>1. UNCHANGED <<requested, effective, then, before>>
    BY <1>10 DEF StoreChecks, Expire, Cancel, Waited, lhbm
  <2>2. /\ \A t \in Threads : Disabling(t)' <=> Disabling(t)
        /\ pc'["commit"] \in {"start", "dark", "relight"} \/ pc["commit"] \in {"start", "dark", "relight"}
             => pc'["commit"] = pc["commit"]
    BY <1>10 DEF StoreChecks, Expire, Cancel, Waited, LhbmTypeOK, Disabling, Threads
  <2>3. Recovers' <=> Recovers
    BY <2>1, <2>2 DEF Recovers, Threads
  <2>4. Disabled' <=> Disabled
    BY <2>1 DEF Disabled
  <2> QED BY <2>1, <2>2, <2>3, <2>4 DEF RequestInv, Threads
<1>11. CASE PostStarts \/ PostCmd \/ PostNotify
  BY <1>11 DEF PostStarts, PostCmd, PostNotify, RequestInv, Recovers, Disabling, Disabled,
     LhbmTypeOK, States
<1>12. CASE UNCHANGED lhbmVars
  BY <1>12 DEF lhbmVars, panel, lhbm, RequestInv, Recovers, Disabling, Disabled
<1>13. CASE CommitAsks
  <2>1. pc["commit"] = "idle" /\ lhbmState = "NORMAL"
    BY <1>13 DEF CommitAsks, LhbmCommit
  <2> QED BY <1>5, <1>6, <1>13, <2>1 DEF CommitAsks
<1>14. CASE StoreSets
  BY <1>6, <1>7, <1>14 DEF StoreSets, StoreInv
<1> QED
  BY <1>1, <1>2, <1>3, <1>4, <1>8, <1>9, <1>10, <1>11, <1>12, <1>13, <1>14 DEF LhbmNext,
     DisableSteps

(* A recovery takes a panel with LHBM on through a disable and back, and     *)
(* ends with LHBM on exactly when it began with it, unless someone asked     *)
(* otherwise meanwhile; the argument is RequestInv, what the recovery knows  *)
(* of the request at each of its steps.                                      *)
THEOREM RecoveryKeeps ==
  ASSUME Exclusive, "stale_request" \notin LhbmRaces PROVE LhbmSpec => RecoveryKeepsLhbm
<1>1. LhbmInit => LhbmInv /\ RequestInv
  BY LhbmInitInv
<1>2. LhbmInv /\ RequestInv /\ [LhbmNext]_lhbmVars => (LhbmInv /\ RequestInv)'
  BY LhbmNextInv, RequestNext
<1>3. LhbmInv /\ RequestInv /\ [LhbmNext]_lhbmVars
      => [pc["commit"] = "relight" /\ pc'["commit"] = "idle" /\ lhbmMode = "peak"
          /\ (\A t \in Threads : ~Disabling(t)) => (effective' # "DISABLED") = before]_lhbmVars
  <2> SUFFICES ASSUME LhbmInv, RequestInv, LhbmNext, pc["commit"] = "relight", pc'["commit"] = "idle", lhbmMode = "peak",
                      \A t \in Threads : ~Disabling(t)
               PROVE  (effective' # "DISABLED") = before
    OBVIOUS
  <2> USE DEF LhbmInv
  <2>1. CASE Relight
    BY <2>1 DEF Relight, CarryOut, SetEffective, RequestInv, Disabled, LhbmTypeOK
  <2>2. CASE LhbmSwitchOff \/ LhbmEnterLp \/ ForceOff \/ RecoverOn \/ LhbmSetMode \/ CommitAsks
    BY <2>2 DEF LhbmSwitchOff, LhbmEnterLp, ForceOff, RecoverOn, LhbmSetMode, CommitAsks, LhbmCommit
  <2>3. CASE StoreChecks \/ Expire \/ PostStarts \/ PostCmd \/ PostNotify
    BY <2>3 DEF StoreChecks, Expire, PostStarts, PostCmd, PostNotify, LhbmTypeOK, Threads
  <2>4. CASE StoreSets \/ TimeoutRuns
    BY <2>4 DEF StoreSets, TimeoutRuns, AskOff, Finish, LhbmTypeOK, Threads
  <2>5. CASE \E t \in Threads : DisableSteps(t)
    BY <2>5 DEF DisableSteps, Cancel, Waited, Relock, Disabling
  <2> QED BY <2>1, <2>2, <2>3, <2>4, <2>5 DEF LhbmNext
<1> QED BY <1>1, <1>2, <1>3, PTL DEF LhbmSpec, RecoveryKeepsLhbm

-----------------------------------------------------------------------------
(* The tails of the refresh rates and the idle work *)

(* What is left of a tail at each of its places. *)
RestLeft    == <<"rest">>
OffLeft     == <<"off", "offChip">>
BlankLeft   == <<"blank", "offChip">>
OffChipLeft == <<"offChip">>
FullLeft    == <<"modeset", "modeSet", "enable", "pre", "done">>
SetLeft     == <<"modeSet", "enable", "pre", "done">>
IdleOnLeft      == <<"enable", "pre", "done">>
PreLeft     == <<"pre", "done">>
DoneLeft    == <<"done">>
WakeSetLeft == <<"enable", "pre", "modeSet", "done">>
PreSetLeft  == <<"pre", "modeSet", "done">>
SetDoneLeft == <<"modeSet", "done">>

IdleLefts ==
  {<<>>, RestLeft, OffLeft, BlankLeft, OffChipLeft, FullLeft, SetLeft, IdleOnLeft, PreLeft, DoneLeft,
   WakeSetLeft, PreSetLeft, SetDoneLeft}

-----------------------------------------------------------------------------
(* The driver of the chip *)

Drv  == [feat : SUBSET Features, auto : Rates, hwFeat : SUBSET Features,
         hwVrefresh : {30, 60, 120}, hwIdle : Rates, panelIdle : Rates]
Pair == [drv : Drv, chip : Regs]

(* The registers are what hw_* stands for. *)
Cached(p) == p.chip = RegsOf(p.drv.hwFeat, p.drv.hwVrefresh, p.drv.hwIdle)

(* The cache is that of p, but for what was sent. *)
Sends(q, p, f, v, idle) ==
  /\ q.drv.hwFeat = f /\ q.drv.hwVrefresh = v /\ q.drv.hwIdle = idle
  /\ q.drv.feat = p.drv.feat /\ q.drv.auto = p.drv.auto /\ q.drv.panelIdle = p.drv.panelIdle

(* Every register but aod is what hw_* stands for. *)
AllSent(q, aod) ==
  q.chip = [RegsOf(q.drv.hwFeat, q.drv.hwVrefresh, q.drv.hwIdle) EXCEPT !.aod = aod]

Settings == [idle : BOOLEAN, min : {-1, 10, 60}, delay : BOOLEAN, op : {60, 120}, hbm : BOOLEAN]

LEMMA RegsOfType ==
  ASSUME NEW f \in SUBSET Features, NEW v \in {30, 60, 120}, NEW idle \in Rates
  PROVE  RegsOf(f, v, idle) \in Regs
BY DEF RegsOf, Regs, AutoRate, ManualRate, Rates

LEMMA PairType == IdleTypeOK => P \in Pair
BY DEF IdleTypeOK, P, Pair, Drv

LEMMA TakeType ==
  ASSUME NEW p \in Pair, Take(p) PROVE P' = p /\ drv' = p.drv /\ registers' = p.chip
BY DEF Take, P, Pair

LEMMA TakeFacts ==
  ASSUME NEW p \in Pair PROVE p.drv \in Drv /\ p.chip \in Regs
BY DEF Pair

(* s6e3hc4_set_panel_feat brings the cache up to date, and sends the chip    *)
(* all it is short of.                                                       *)
LEMMA SetPanelFeatKeeps ==
  ASSUME NEW p \in Pair, NEW v \in {30, 60, 120}, NEW idle \in Rates, NEW f \in SUBSET Features,
         NEW enforce, NEW q, q = SetPanelFeat(p, v, idle, f, enforce)
  PROVE  /\ q \in Pair
         /\ Sends(q, p, f, v, idle)
         /\ Cached(p) => Cached(q)
         /\ enforce => AllSent(q, p.chip.aod)
<1> DEFINE d == p.drv
           diff == IF enforce THEN Features ELSE (f \ d.hwFeat) \cup (d.hwFeat \ f)
           new == RegsOf(f, v, idle)
<1>1. d \in Drv /\ p.chip \in Regs /\ new \in Regs
  BY TakeFacts, RegsOfType
<1>2. CASE diff = {} /\ v = d.hwVrefresh /\ idle = d.hwIdle
  <2>1. q = p /\ ~enforce
    BY <1>2 DEF SetPanelFeat, Features
  <2>2. f = d.hwFeat
    BY <1>2, <2>1
  <2> QED BY <1>2, <2>1, <2>2 DEF Sends
<1>3. CASE ~(diff = {} /\ v = d.hwVrefresh /\ idle = d.hwIdle)
  <2> DEFINE e == [d EXCEPT !.hwFeat = f, !.hwVrefresh = v, !.hwIdle = idle]
             c == Sent(p.chip, f, v, idle, diff)
  <2>1. q = [drv |-> e, chip |-> c]
    BY <1>3 DEF SetPanelFeat
  <2>2. e \in Drv /\ e.hwFeat = f /\ e.hwVrefresh = v /\ e.hwIdle = idle
    BY <1>1 DEF Drv
  <2>3. c \in Regs
    BY <1>1 DEF Sent, Regs
  <2>4. Cached(p) => c = new
    <3> SUFFICES ASSUME Cached(p) PROVE c = new
      OBVIOUS
    <3>1. p.chip.aod = FALSE /\ new.aod = FALSE
      BY DEF Cached, RegsOf
    <3>2. diff \cap {"EARLY_EXIT", "OP_NS"} = {} => p.chip.te = new.te
      BY DEF Cached, RegsOf, Features
    <3>3. "OP_NS" \notin diff => p.chip.ns = new.ns
      BY DEF Cached, RegsOf, Features
    <3>4. c = [new EXCEPT !.te = new.te, !.ns = new.ns, !.aod = new.aod]
      BY <3>1, <3>2, <3>3, <1>1 DEF Sent, Regs
    <3> HIDE DEF c, new
    <3> QED BY <3>4, <1>1 DEF Regs
  <2>5. enforce => c = [new EXCEPT !.aod = p.chip.aod]
    BY <1>1 DEF Sent, Regs, Features
  <2>6. q \in Pair /\ q.drv = e /\ q.chip = c
    <3> HIDE DEF e, c
    <3> QED BY <2>1, <2>2, <2>3 DEF Pair
  <2>7. Cached(p) => Cached(q)
    <3> HIDE DEF e, c
    <3> QED BY <2>2, <2>4, <2>6 DEF Cached
  <2>8. Sends(q, p, f, v, idle)
    BY <1>1, <2>6 DEF Sends, Drv
  <2>9. enforce => AllSent(q, p.chip.aod)
    <3> HIDE DEF e, c
    <3> QED BY <2>2, <2>5, <2>6 DEF AllSent
  <2> QED BY <2>6, <2>7, <2>8, <2>9
<1> QED BY <1>2, <1>3

(* What drv says of a panel that shows mode m. *)
Awake(p, m) ==
  /\ p.drv.hwFeat = p.drv.feat /\ p.drv.hwIdle = p.drv.auto /\ p.drv.hwVrefresh = Vrefresh(m)
  /\ "FRAME_AUTO" \in p.drv.feat <=> p.drv.auto # 0
  /\ p.drv.panelIdle \in {0, p.drv.auto}
  /\ m = "m60" => p.drv.panelIdle = p.drv.auto

LEMMA VrefreshType == \A m \in Modes : Vrefresh(m) \in {30, 60, 120}
BY DEF Modes, Vrefresh

LEMMA UpdatePanelFeatKeeps ==
  ASSUME NEW p \in Pair, NEW v \in {30, 60, 120}, NEW enforce,
         NEW q, q = UpdatePanelFeat(p, v, enforce)
  PROVE  /\ q \in Pair
         /\ Sends(q, p, p.drv.feat, v, p.drv.auto)
         /\ Cached(p) => Cached(q)
         /\ enforce => AllSent(q, p.chip.aod)
<1>1. p.drv.auto \in Rates /\ p.drv.feat \in SUBSET Features
  BY TakeFacts DEF Drv
<1>2. q = SetPanelFeat(p, v, p.drv.auto, p.drv.feat, enforce)
  BY DEF UpdatePanelFeat
<1> QED BY <1>1, <1>2, SetPanelFeatKeeps

(* Truth values as arguments, which the provers match only by name. *)
Yes == TRUE
No  == FALSE

LEMMA UpdateAllKeeps ==
  ASSUME NEW p \in Pair, NEW v \in {30, 60, 120}, NEW q, q = UpdatePanelFeat(p, v, Yes)
  PROVE  /\ q \in Pair
         /\ Sends(q, p, p.drv.feat, v, p.drv.auto)
         /\ AllSent(q, p.chip.aod)
<1>1. q \in Pair /\ Sends(q, p, p.drv.feat, v, p.drv.auto) /\ (Yes => AllSent(q, p.chip.aod))
  BY UpdatePanelFeatKeeps
<1> QED BY <1>1 DEF Yes

LEMMA DisablePanelFeatKeeps ==
  ASSUME NEW p \in Pair, NEW v \in {30, 60, 120}, NEW q, q = DisablePanelFeat(p, v)
  PROVE  /\ q \in Pair
         /\ Sends(q, p, {}, v, 0)
         /\ AllSent(q, p.chip.aod)
<1> DEFINE none == {}
<1>1. q = SetPanelFeat(p, v, 0, none, Yes)
  BY DEF DisablePanelFeat, Yes
<1>2. none \in SUBSET Features /\ 0 \in Rates
  BY DEF Rates
<1> HIDE DEF none
<1>3. q \in Pair /\ Sends(q, p, none, v, 0) /\ (Yes => AllSent(q, p.chip.aod))
  BY <1>1, <1>2, SetPanelFeatKeeps
<1> QED BY <1>3 DEF none, Yes

LEMMA UpdateRefreshModeKeeps ==
  ASSUME NEW p \in Pair, NEW m \in Modes, NEW idle \in Rates, NEW q, q = UpdateRefreshMode(p, m, idle)
  PROVE  /\ q \in Pair
         /\ Cached(p) => Cached(q)
         /\ Awake(q, m) /\ q.drv.auto = idle
<1> DEFINE f == With(With(p.drv.feat, "FRAME_AUTO", idle # 0),
                     "EARLY_EXIT", Vrefresh(m) = 120 \/ idle # 0)
           r == [p EXCEPT !.drv.feat = f, !.drv.auto = idle, !.drv.panelIdle = idle]
<1>1. p.drv \in Drv /\ p.chip \in Regs
  BY TakeFacts
<1>2. p.drv.feat \in SUBSET Features
  BY <1>1 DEF Drv
<1>3. f \in SUBSET Features /\ ("FRAME_AUTO" \in f <=> idle # 0)
  BY <1>2 DEF With, Features
<1> HIDE DEF f
<1>4. r = [drv |-> [p.drv EXCEPT !.feat = f, !.auto = idle, !.panelIdle = idle], chip |-> p.chip]
  <2> DEFINE r1 == [p EXCEPT !.drv.feat = f]
             r2 == [r1 EXCEPT !.drv.auto = idle]
  <2>1. r1 = [drv |-> [p.drv EXCEPT !.feat = f], chip |-> p.chip]
    BY <1>1 DEF Pair, Drv
  <2> HIDE DEF r1
  <2>2. r2 = [drv |-> [p.drv EXCEPT !.feat = f, !.auto = idle], chip |-> p.chip]
    BY <1>1, <2>1 DEF Drv
  <2>3. r = [r2 EXCEPT !.drv.panelIdle = idle]
    BY DEF r1
  <2> HIDE DEF r2
  <2> QED BY <1>1, <2>2, <2>3 DEF Drv
<1> HIDE DEF r
<1>5. r.drv \in Drv /\ r.chip = p.chip /\ r.drv.feat = f /\ r.drv.auto = idle /\ r.drv.panelIdle = idle
  BY <1>1, <1>3, <1>4 DEF Drv
<1>6. r.drv.hwFeat = p.drv.hwFeat /\ r.drv.hwVrefresh = p.drv.hwVrefresh /\ r.drv.hwIdle = p.drv.hwIdle
  BY <1>1, <1>4 DEF Drv
<1>7. r \in Pair
  BY <1>1, <1>4, <1>5 DEF Pair
<1>8. q = UpdatePanelFeat(r, Vrefresh(m), No)
  BY DEF UpdateRefreshMode, f, r, No
<1>9. /\ q \in Pair /\ (Cached(r) => Cached(q))
      /\ Sends(q, r, f, Vrefresh(m), idle)
  <2>1. Vrefresh(m) \in {30, 60, 120}
    BY VrefreshType
  <2>2. /\ q \in Pair /\ (Cached(r) => Cached(q))
        /\ Sends(q, r, r.drv.feat, Vrefresh(m), r.drv.auto)
    BY <1>7, <1>8, <2>1, UpdatePanelFeatKeeps
  <2> QED BY <1>5, <2>2
<1>10. /\ q.drv.feat = f /\ q.drv.auto = idle /\ q.drv.panelIdle = idle
       /\ q.drv.hwFeat = f /\ q.drv.hwVrefresh = Vrefresh(m) /\ q.drv.hwIdle = idle
  BY <1>5, <1>9 DEF Sends
<1> QED BY <1>3, <1>5, <1>6, <1>9, <1>10 DEF Awake, Cached

LEMMA MinIdleType ==
  ASSUME NEW s \in Settings, NEW m \in Modes, NEW stamps \in SUBSET Stamps
  PROVE  MinIdle(s, m) \in Rates /\ GetMinIdleVrefresh(s, m, stamps) \in Rates
BY DEF Settings, MinIdle, GetMinIdleVrefresh, Rates

(* A mode above op_hz is not set. *)
LEMMA ChangeFrequencyKeeps ==
  ASSUME NEW p \in Pair, NEW s \in Settings, NEW m \in Modes, NEW stamps \in SUBSET Stamps,
         NEW q, q = ChangeFrequency(p, s, m, stamps)
  PROVE  /\ q \in Pair
         /\ Cached(p) => Cached(q)
         /\ Vrefresh(m) <= s.op => Awake(q, m) /\ (m = "m60" => q.drv.auto = 0)
<1> DEFINE idle == IF IdleMode(m) = "inactivity" THEN GetMinIdleVrefresh(s, m, stamps) ELSE 0
<1>1. idle \in Rates /\ (m = "m60" => idle = 0)
  BY MinIdleType DEF Rates, IdleMode
<1>2. CASE Vrefresh(m) > s.op
  <2>1. q = p
    BY <1>2 DEF ChangeFrequency
  <2>2. ~(Vrefresh(m) <= s.op)
    BY <1>2, VrefreshType DEF Settings
  <2> QED BY <2>1, <2>2
<1>3. CASE ~(Vrefresh(m) > s.op)
  <2>1. q = UpdateRefreshMode(p, m, idle)
    BY <1>3 DEF ChangeFrequency
  <2> HIDE DEF idle
  <2> QED BY <1>1, <2>1, UpdateRefreshModeKeeps
<1> QED BY <1>2, <1>3

LEMMA SetSelfRefreshKeeps ==
  ASSUME NEW p \in Pair, NEW s \in Settings, NEW m \in Modes, NEW on \in BOOLEAN,
         NEW stamps \in SUBSET Stamps, NEW q, q = SetSelfRefresh(p, s, m, on, stamps)
  PROVE  /\ q \in Pair
         /\ Cached(p) => Cached(q)
         /\ m = "lp" => q.chip = p.chip
         /\ m # "lp" /\ Awake(p, m) => Awake(q, m)
         /\ m = "m60" /\ ~on /\ Awake(p, m) => q.drv.auto = 0
         /\ m # "lp" /\ on /\ Awake(p, m) /\ ~Delayed(s, m, stamps) => q.drv.auto = MinIdle(s, m)
<1> DEFINE idle == GetMinIdleVrefresh(s, m, stamps)
<1>1. idle \in Rates /\ (~Delayed(s, m, stamps) => idle = MinIdle(s, m))
  BY MinIdleType DEF GetMinIdleVrefresh
<1>2. CASE m = "lp"
  <2>1. q = [p EXCEPT !.drv.panelIdle = IF on THEN 10 ELSE 0]
    BY <1>2 DEF SetSelfRefresh, IdleMode
  <2>2. q = [drv |-> [p.drv EXCEPT !.panelIdle = IF on THEN 10 ELSE 0], chip |-> p.chip]
    BY <2>1, TakeFacts DEF Pair, Drv
  <2>3. /\ q \in Pair /\ q.chip = p.chip /\ q.drv.hwFeat = p.drv.hwFeat
        /\ q.drv.hwVrefresh = p.drv.hwVrefresh /\ q.drv.hwIdle = p.drv.hwIdle
    BY <2>2, TakeFacts DEF Pair, Drv, Rates
  <2> QED BY <1>2, <2>3 DEF Cached
<1>3. CASE m # "lp" /\ ~Applies(p, s, m, on, stamps)
  <2>1. q = p
    BY <1>3 DEF SetSelfRefresh, Modes, IdleMode
  <2>2. m = "m60" => p.drv.panelIdle = IF on THEN idle ELSE 0
    BY <1>3 DEF Applies, IdleMode
  <2>3. m = "m120" => p.drv.auto = idle
    BY <1>3 DEF Applies, IdleMode
  <2> HIDE DEF idle
  <2> QED BY <1>1, <1>3, <2>1, <2>2, <2>3 DEF Awake, Modes
<1>4. CASE m # "lp" /\ Applies(p, s, m, on, stamps)
  <2> DEFINE i == IF on \/ IdleMode(m) = "inactivity" THEN idle ELSE 0
  <2>1. q = UpdateRefreshMode(p, m, i)
    BY <1>4 DEF SetSelfRefresh, Modes, IdleMode
  <2>2. i \in Rates /\ (on => i = idle) /\ (m = "m60" /\ ~on => i = 0)
    BY <1>1 DEF Rates, IdleMode
  <2> HIDE DEF i, idle
  <2> QED BY <1>1, <1>4, <2>1, <2>2, UpdateRefreshModeKeeps
<1> QED BY <1>2, <1>3, <1>4

LEMMA SetHbmKeeps ==
  ASSUME NEW p \in Pair, NEW m \in Modes, NEW on, NEW q, q = SetHbm(p, m, on)
  PROVE  /\ q \in Pair
         /\ Cached(p) => Cached(q)
         /\ m = "lp" => q.chip = p.chip
         /\ m # "lp" /\ Awake(p, m) => Awake(q, m) /\ q.drv.auto = p.drv.auto
<1> DEFINE f == With(p.drv.feat, "HBM", on)
           r == [p EXCEPT !.drv.feat = With(@, "HBM", on)]
<1>1. p.drv \in Drv /\ p.chip \in Regs
  BY TakeFacts
<1>2. p.drv.feat \in SUBSET Features
  BY <1>1 DEF Drv
<1>3. f \in SUBSET Features /\ ("FRAME_AUTO" \in f <=> "FRAME_AUTO" \in p.drv.feat)
  BY <1>2 DEF With, Features
<1>4. r = [drv |-> [p.drv EXCEPT !.feat = f], chip |-> p.chip]
  BY <1>1 DEF Pair, Drv
<1> HIDE DEF r, f
<1>5. /\ r.drv \in Drv /\ r.chip = p.chip /\ r.drv.feat = f /\ r.drv.auto = p.drv.auto
      /\ r.drv.panelIdle = p.drv.panelIdle /\ r.drv.hwFeat = p.drv.hwFeat
      /\ r.drv.hwVrefresh = p.drv.hwVrefresh /\ r.drv.hwIdle = p.drv.hwIdle
  BY <1>1, <1>3, <1>4 DEF Drv
<1>6. r \in Pair /\ (Cached(p) => Cached(r))
  BY <1>1, <1>4, <1>5 DEF Pair, Cached
<1>7. CASE m = "lp"
  <2>1. q = r
    BY <1>7 DEF SetHbm, r
  <2> QED BY <1>5, <1>6, <1>7, <2>1
<1>8. CASE m # "lp"
  <2>1. q = UpdatePanelFeat(r, Vrefresh(m), No)
    BY <1>8 DEF SetHbm, r, No
  <2>2. Vrefresh(m) \in {30, 60, 120}
    BY VrefreshType
  <2>3. q \in Pair /\ Sends(q, r, r.drv.feat, Vrefresh(m), r.drv.auto) /\ (Cached(r) => Cached(q))
    BY <1>6, <2>1, <2>2, UpdatePanelFeatKeeps
  <2>4. /\ q.drv.feat = f /\ q.drv.hwFeat = f /\ q.drv.auto = p.drv.auto /\ q.drv.hwIdle = p.drv.auto
        /\ q.drv.panelIdle = p.drv.panelIdle /\ q.drv.hwVrefresh = Vrefresh(m)
    BY <1>5, <2>3 DEF Sends
  <2> QED BY <1>3, <1>6, <1>8, <2>3, <2>4 DEF Awake
<1> QED BY <1>7, <1>8

LEMMA LpRegs ==
  ASSUME NEW c \in Regs, c.ns = FALSE, c.ee = FALSE, c.hbm = FALSE
  PROVE  AodRegs(c) = AodRegs(ResetRegs) /\ AodRegs(c) \in Regs
<1> DEFINE a == [c EXCEPT !.te = "fixed", !.rate = 30, !.auto = Yes, !.aod = Yes]
           b == [ResetRegs EXCEPT !.te = "fixed", !.rate = 30, !.auto = Yes, !.aod = Yes]
           lp == [te |-> "fixed", ns |-> No, ee |-> No, hbm |-> No, auto |-> Yes, rate |-> 30, aod |-> Yes]
<1>1. AodRegs(c) = a /\ AodRegs(ResetRegs) = b
  BY DEF AodRegs, Yes
<1>2. ResetRegs = [te |-> "changeable", ns |-> No, ee |-> No, hbm |-> No, auto |-> No, rate |-> 60, aod |-> No]
  BY DEF ResetRegs, No
<1>3. Yes \in BOOLEAN /\ No \in BOOLEAN /\ c.ns = No /\ c.ee = No /\ c.hbm = No
  BY DEF Yes, No
<1>4. a \in Regs /\ b \in Regs
  <2>1. a \in Regs
    BY <1>3 DEF Regs
  <2>2. ResetRegs \in Regs
    BY <1>2, <1>3 DEF Regs
  <2>3. b \in Regs
    BY <1>3, <2>2 DEF Regs
  <2> QED BY <2>1, <2>3
<1>5. a.te = "fixed" /\ a.rate = 30 /\ a.auto = Yes /\ a.aod = Yes /\ a.ns = No /\ a.ee = No /\ a.hbm = No
  BY <1>3 DEF Regs
<1>6. b.te = "fixed" /\ b.rate = 30 /\ b.auto = Yes /\ b.aod = Yes /\ b.ns = No /\ b.ee = No /\ b.hbm = No
  BY <1>2 DEF Regs
<1> HIDE DEF a, b
<1>7. a = lp
  BY <1>4, <1>5 DEF Regs
<1>8. b = lp
  BY <1>4, <1>6 DEF Regs
<1> QED BY <1>1, <1>4, <1>7, <1>8

LEMMA SetLpModeKeeps ==
  ASSUME NEW p \in Pair, NEW enabled, NEW q, q = SetLpMode(p, enabled)
  PROVE  q \in Pair /\ q.chip = AodRegs(ResetRegs)
<1> DEFINE v == IF enabled THEN p.drv.hwVrefresh ELSE 60
           r == DisablePanelFeat(p, v)
<1>1. p.drv \in Drv /\ p.chip \in Regs
  BY TakeFacts
<1>2. v \in {30, 60, 120}
  BY <1>1 DEF Drv
<1>3. q = [drv |-> [r.drv EXCEPT !.hwVrefresh = 30], chip |-> AodRegs(r.chip)]
  BY DEF SetLpMode
<1> HIDE DEF r, v
<1>4. r \in Pair /\ Sends(r, p, {}, v, 0) /\ AllSent(r, p.chip.aod)
  BY <1>2, DisablePanelFeatKeeps DEF r
<1>5. r.drv \in Drv /\ r.chip \in Regs
  BY <1>4, TakeFacts
<1>6. r.chip = [RegsOf({}, v, 0) EXCEPT !.aod = p.chip.aod]
  BY <1>4 DEF Sends, AllSent
<1>7. ~r.chip.ns /\ ~r.chip.ee /\ ~r.chip.hbm
  BY <1>6 DEF RegsOf
<1>8. AodRegs(r.chip) = AodRegs(ResetRegs) /\ AodRegs(r.chip) \in Regs
  <2> DEFINE c == r.chip
  <2>1. c \in Regs /\ ~c.ns /\ ~c.ee /\ ~c.hbm
    BY <1>5, <1>7
  <2> HIDE DEF c
  <2>2. c.ns = FALSE /\ c.ee = FALSE /\ c.hbm = FALSE
    BY <2>1 DEF Regs
  <2> QED BY <2>1, <2>2, LpRegs DEF c
<1> HIDE DEF AodRegs
<1>9. [r.drv EXCEPT !.hwVrefresh = 30] \in Drv
  BY <1>5 DEF Drv
<1> QED BY <1>3, <1>8, <1>9 DEF Pair

(* Everything is sent again, and aod is off. *)
LEMMA SentAgain ==
  ASSUME NEW q \in Pair, AllSent(q, FALSE) PROVE Cached(q)
BY DEF AllSent, Cached, RegsOf

LEMMA SetNolpModeKeeps ==
  ASSUME NEW p \in Pair, NEW s \in Settings, NEW m \in Modes, NEW stamps \in SUBSET Stamps,
         NEW q, q = SetNolpMode(p, s, m, stamps)
  PROVE  /\ q \in Pair /\ Cached(q)
         /\ Vrefresh(m) <= s.op => Awake(q, m) /\ (m = "m60" => q.drv.auto = 0)
<1> DEFINE r == [drv  |-> [p.drv EXCEPT !.hwIdle = 0],
                 chip |-> [p.chip EXCEPT !.auto = FALSE, !.te = "changeable", !.rate = 30, !.aod = FALSE]]
           u == UpdatePanelFeat(r, Vrefresh(m), Yes)
<1>1. p.drv \in Drv /\ p.chip \in Regs
  BY TakeFacts
<1>2. r.drv \in Drv /\ r.chip \in Regs /\ r.chip.aod = FALSE
  <2>1. r.drv \in Drv
    BY <1>1 DEF Drv, Rates
  <2>2. r.chip \in Regs
    BY <1>1 DEF Regs
  <2> QED BY <1>1, <2>1, <2>2 DEF Regs
<1>3. r \in Pair
  BY <1>2 DEF Pair
<1>4. q = ChangeFrequency(u, s, m, stamps)
  BY DEF SetNolpMode, Yes
<1>5. Vrefresh(m) \in {30, 60, 120}
  BY VrefreshType
<1> HIDE DEF r
<1>6. u \in Pair /\ AllSent(u, r.chip.aod)
  BY <1>3, <1>5, UpdateAllKeeps
<1> HIDE DEF u
<1>7. Cached(u)
  BY <1>2, <1>6, SentAgain
<1> QED BY <1>4, <1>6, <1>7, ChangeFrequencyKeeps

LEMMA EnableChipKeeps ==
  ASSUME NEW p \in Pair, NEW s \in Settings, NEW m \in Modes, NEW stamps \in SUBSET Stamps,
         NEW reset, NEW q, q = EnableChip(p, s, m, stamps, reset)
  PROVE  /\ q \in Pair
         /\ m = "lp" => q.chip = AodRegs(ResetRegs)
         /\ m # "lp" => Cached(q)
         /\ m # "lp" /\ Vrefresh(m) <= s.op => Awake(q, m) /\ (m = "m60" => q.drv.auto = 0)
<1> DEFINE o == IF reset THEN [p EXCEPT !.chip = ResetRegs] ELSE p
<1>1. p.drv \in Drv /\ p.chip \in Regs
  BY TakeFacts
<1>2. ResetRegs \in Regs
  BY DEF ResetRegs, Regs
<1>3. o \in Pair
  BY <1>1, <1>2 DEF Pair
<1>4. CASE m = "lp"
  <2>1. q = SetLpMode(o, ~reset)
    BY <1>4 DEF EnableChip
  <2> DEFINE enabled == ~reset
  <2>2. q = SetLpMode(o, enabled)
    BY <2>1
  <2> HIDE DEF o, enabled
  <2> QED BY <1>3, <1>4, <2>2, SetLpModeKeeps
<1>5. CASE m # "lp"
  <2> DEFINE r == [o EXCEPT !.chip.aod = FALSE]
             u == UpdatePanelFeat(r, Vrefresh(m), Yes)
  <2>1. q = ChangeFrequency(u, s, m, stamps)
    BY <1>5 DEF EnableChip, Yes
  <2> HIDE DEF o
  <2>2. o.drv \in Drv /\ o.chip \in Regs
    BY <1>3, TakeFacts
  <2>3. r = [drv |-> o.drv, chip |-> [o.chip EXCEPT !.aod = FALSE]]
    <3>1. r = [o EXCEPT !.chip = [o.chip EXCEPT !.aod = FALSE]]
      OBVIOUS
    <3> DEFINE c == [o.chip EXCEPT !.aod = FALSE]
    <3>2. r = [o EXCEPT !.chip = c]
      BY <3>1
    <3> HIDE DEF c, r
    <3>3. r = [drv |-> o.drv, chip |-> c]
      BY <1>3, <3>2 DEF Pair
    <3> QED BY <3>3 DEF c
  <2> HIDE DEF r
  <2>4. r \in Pair /\ r.chip.aod = FALSE
    BY <2>2, <2>3 DEF Pair, Regs
  <2>5. Vrefresh(m) \in {30, 60, 120}
    BY VrefreshType
  <2>6. u \in Pair /\ AllSent(u, r.chip.aod)
    BY <2>4, <2>5, UpdateAllKeeps
  <2> HIDE DEF u
  <2>7. Cached(u)
    BY <2>4, <2>6, SentAgain
  <2> QED BY <1>5, <2>1, <2>6, <2>7, ChangeFrequencyKeeps
<1> QED BY <1>4, <1>5

LEMMA IdleDisableChipKeeps ==
  ASSUME NEW p \in Pair, NEW q, q = IdleDisableChip(p) PROVE q \in Pair
<1> DEFINE r == DisablePanelFeat(p, 60)
           e == [r.drv EXCEPT !.feat = @ \ {"HBM"}, !.hwFeat = {}, !.hwVrefresh = 60, !.hwIdle = 0]
<1>1. r \in Pair
  BY DisablePanelFeatKeeps
<1>2. q = [r EXCEPT !.drv.feat = @ \ {"HBM"}, !.drv.hwFeat = {}, !.drv.hwVrefresh = 60, !.drv.hwIdle = 0]
  BY DEF IdleDisableChip
<1> HIDE DEF r
<1> DEFINE r1 == [r EXCEPT !.drv.feat = @ \ {"HBM"}]
           r2 == [r1 EXCEPT !.drv.hwFeat = {}]
           r3 == [r2 EXCEPT !.drv.hwVrefresh = 60]
           r4 == [r3 EXCEPT !.drv.hwIdle = 0]
<1>3. r1 \in Pair
  BY <1>1 DEF Pair, Drv
<1>4. q = r4
  BY <1>2
<1> HIDE DEF r1
<1>5. r2 \in Pair
  BY <1>3 DEF Pair, Drv
<1> HIDE DEF r2
<1>6. r3 \in Pair
  BY <1>5 DEF Pair, Drv
<1> HIDE DEF r3
<1>7. r4 \in Pair
  BY <1>6 DEF Pair, Drv, Rates
<1> QED BY <1>4, <1>7

(* Their lengths and first calls tell them apart. *)
LEMMA IdleLeftsDiffer ==
  /\ Len(RestLeft) = 1 /\ Head(RestLeft) = "rest"
  /\ Len(OffLeft) = 2 /\ Head(OffLeft) = "off"
  /\ Len(BlankLeft) = 2 /\ Head(BlankLeft) = "blank"
  /\ Len(OffChipLeft) = 1 /\ Head(OffChipLeft) = "offChip"
  /\ Len(FullLeft) = 5 /\ Head(FullLeft) = "modeset"
  /\ Len(SetLeft) = 4 /\ Head(SetLeft) = "modeSet"
  /\ Len(IdleOnLeft) = 3 /\ Head(IdleOnLeft) = "enable"
  /\ Len(PreLeft) = 2 /\ Head(PreLeft) = "pre"
  /\ Len(DoneLeft) = 1 /\ Head(DoneLeft) = "done"
  /\ Len(WakeSetLeft) = 4 /\ Head(WakeSetLeft) = "enable"
  /\ Len(PreSetLeft) = 3 /\ Head(PreSetLeft) = "pre"
  /\ Len(SetDoneLeft) = 2 /\ Head(SetDoneLeft) = "modeSet"
  /\ Len(<<>>) = 0
BY DEF RestLeft, OffLeft, BlankLeft, OffChipLeft, FullLeft, SetLeft, IdleOnLeft, PreLeft,
   DoneLeft, WakeSetLeft, PreSetLeft, SetDoneLeft

LEMMA IdleLeftsApart ==
  /\ <<>> \notin {RestLeft, OffLeft, BlankLeft, OffChipLeft, FullLeft, SetLeft, IdleOnLeft,
        PreLeft, DoneLeft, WakeSetLeft, PreSetLeft, SetDoneLeft}
  /\ RestLeft \notin {OffLeft, BlankLeft, OffChipLeft, FullLeft, SetLeft, IdleOnLeft, PreLeft,
        DoneLeft, WakeSetLeft, PreSetLeft, SetDoneLeft}
  /\ OffLeft \notin {BlankLeft, OffChipLeft, FullLeft, SetLeft, IdleOnLeft, PreLeft, DoneLeft,
        WakeSetLeft, PreSetLeft, SetDoneLeft}
  /\ BlankLeft \notin {OffChipLeft, FullLeft, SetLeft, IdleOnLeft, PreLeft, DoneLeft,
        WakeSetLeft, PreSetLeft, SetDoneLeft}
  /\ OffChipLeft \notin {FullLeft, SetLeft, IdleOnLeft, PreLeft, DoneLeft, WakeSetLeft,
        PreSetLeft, SetDoneLeft}
  /\ FullLeft \notin {SetLeft, IdleOnLeft, PreLeft, DoneLeft, WakeSetLeft, PreSetLeft,
        SetDoneLeft}
  /\ SetLeft \notin {IdleOnLeft, PreLeft, DoneLeft, WakeSetLeft, PreSetLeft, SetDoneLeft}
  /\ IdleOnLeft \notin {PreLeft, DoneLeft, WakeSetLeft, PreSetLeft, SetDoneLeft}
  /\ PreLeft \notin {DoneLeft, WakeSetLeft, PreSetLeft, SetDoneLeft}
  /\ DoneLeft \notin {WakeSetLeft, PreSetLeft, SetDoneLeft}
  /\ WakeSetLeft \notin {PreSetLeft, SetDoneLeft}
  /\ PreSetLeft \notin {SetDoneLeft}
<1> USE IdleLeftsDiffer
<1>1. <<>> \notin {RestLeft, OffLeft, BlankLeft, OffChipLeft, FullLeft, SetLeft, IdleOnLeft,
        PreLeft, DoneLeft, WakeSetLeft, PreSetLeft, SetDoneLeft}
  OBVIOUS
<1>2. RestLeft \notin {OffLeft, BlankLeft, OffChipLeft, FullLeft, SetLeft, IdleOnLeft, PreLeft,
        DoneLeft, WakeSetLeft, PreSetLeft, SetDoneLeft}
  OBVIOUS
<1>3. OffLeft \notin {BlankLeft, OffChipLeft, FullLeft, SetLeft, IdleOnLeft, PreLeft, DoneLeft,
        WakeSetLeft, PreSetLeft, SetDoneLeft}
  OBVIOUS
<1>4. BlankLeft \notin {OffChipLeft, FullLeft, SetLeft, IdleOnLeft, PreLeft, DoneLeft,
        WakeSetLeft, PreSetLeft, SetDoneLeft}
  OBVIOUS
<1>5. OffChipLeft \notin {FullLeft, SetLeft, IdleOnLeft, PreLeft, DoneLeft, WakeSetLeft,
        PreSetLeft, SetDoneLeft}
  OBVIOUS
<1>6. FullLeft \notin {SetLeft, IdleOnLeft, PreLeft, DoneLeft, WakeSetLeft, PreSetLeft,
        SetDoneLeft}
  OBVIOUS
<1>7. SetLeft \notin {IdleOnLeft, PreLeft, DoneLeft, WakeSetLeft, PreSetLeft, SetDoneLeft}
  OBVIOUS
<1>8. IdleOnLeft \notin {PreLeft, DoneLeft, WakeSetLeft, PreSetLeft, SetDoneLeft}
  OBVIOUS
<1>9. PreLeft \notin {DoneLeft, WakeSetLeft, PreSetLeft, SetDoneLeft}
  OBVIOUS
<1>10. DoneLeft \notin {WakeSetLeft, PreSetLeft, SetDoneLeft}
  OBVIOUS
<1>11. WakeSetLeft \notin {PreSetLeft, SetDoneLeft}
  OBVIOUS
<1>12. PreSetLeft \notin {SetDoneLeft}
  OBVIOUS
<1> QED BY <1>1, <1>2, <1>3, <1>4, <1>5, <1>6, <1>7, <1>8, <1>9, <1>10, <1>11, <1>12

LEMMA IdleLeftsTyped == IdleLefts \subseteq Seq(Calls)
BY DEF IdleLefts, Calls, RestLeft, OffLeft, BlankLeft, OffChipLeft, FullLeft, SetLeft,
   IdleOnLeft, PreLeft, DoneLeft, WakeSetLeft, PreSetLeft, SetDoneLeft

LEMMA IdleTailsLeft ==
  /\ Tail(RestLeft) = <<>>
  /\ Tail(OffLeft) = OffChipLeft
  /\ Tail(BlankLeft) = OffChipLeft
  /\ Tail(OffChipLeft) = <<>>
  /\ Tail(FullLeft) = SetLeft
  /\ Tail(SetLeft) = IdleOnLeft
  /\ Tail(IdleOnLeft) = PreLeft
  /\ Tail(PreLeft) = DoneLeft
  /\ Tail(DoneLeft) = <<>>
  /\ Tail(WakeSetLeft) = PreSetLeft
  /\ Tail(PreSetLeft) = SetDoneLeft
  /\ Tail(SetDoneLeft) = DoneLeft
BY DEF RestLeft, OffLeft, BlankLeft, OffChipLeft, FullLeft, SetLeft, IdleOnLeft, PreLeft,
   DoneLeft, WakeSetLeft, PreSetLeft, SetDoneLeft

LEMMA RestLeaves ==
  ASSUME todo \in IdleLefts, Call("rest")
  PROVE  todo = RestLeft /\ todo' = <<>>
BY IdleLeftsDiffer, IdleTailsLeft DEF IdleLefts, Call

LEMMA OffLeaves ==
  ASSUME todo \in IdleLefts, Call("off")
  PROVE  todo = OffLeft /\ todo' = OffChipLeft
BY IdleLeftsDiffer, IdleTailsLeft DEF IdleLefts, Call

LEMMA BlankLeaves ==
  ASSUME todo \in IdleLefts, Call("blank")
  PROVE  todo = BlankLeft /\ todo' = OffChipLeft
BY IdleLeftsDiffer, IdleTailsLeft DEF IdleLefts, Call

LEMMA OffChipLeaves ==
  ASSUME todo \in IdleLefts, Call("offChip")
  PROVE  todo = OffChipLeft /\ todo' = <<>>
BY IdleLeftsDiffer, IdleTailsLeft DEF IdleLefts, Call

LEMMA ModesetLeaves ==
  ASSUME todo \in IdleLefts, Call("modeset")
  PROVE  todo = FullLeft /\ todo' = SetLeft
BY IdleLeftsDiffer, IdleTailsLeft DEF IdleLefts, Call

LEMMA IdleModeSetLeaves ==
  ASSUME todo \in IdleLefts, Call("modeSet")
  PROVE  \/ todo = SetLeft /\ todo' = IdleOnLeft
         \/ todo = SetDoneLeft /\ todo' = DoneLeft
BY IdleLeftsDiffer, IdleTailsLeft DEF IdleLefts, Call

LEMMA IdleEnableLeaves ==
  ASSUME todo \in IdleLefts, Call("enable")
  PROVE  \/ todo = IdleOnLeft /\ todo' = PreLeft
         \/ todo = WakeSetLeft /\ todo' = PreSetLeft
BY IdleLeftsDiffer, IdleTailsLeft DEF IdleLefts, Call

LEMMA PreLeaves ==
  ASSUME todo \in IdleLefts, Call("pre")
  PROVE  \/ todo = PreLeft /\ todo' = DoneLeft
         \/ todo = PreSetLeft /\ todo' = SetDoneLeft
BY IdleLeftsDiffer, IdleTailsLeft DEF IdleLefts, Call

LEMMA DoneLeaves ==
  ASSUME todo \in IdleLefts, Call("done")
  PROVE  todo = DoneLeft /\ todo' = <<>>
BY IdleLeftsDiffer, IdleTailsLeft DEF IdleLefts, Call

(* The sequences the frames begin with. *)
LEMMA FrameLeft ==
  /\ <<"enable">> \o <<"pre">> \o <<>> \o <<"done">> = IdleOnLeft
  /\ <<"enable">> \o <<"pre">> \o <<"modeSet">> \o <<"done">> = WakeSetLeft
  /\ <<>> \o <<"pre">> \o <<>> \o <<"done">> = PreLeft
  /\ <<>> \o <<"pre">> \o <<"modeSet">> \o <<"done">> = PreSetLeft
<1> DEFINE e == <<"enable">>
           p == <<"pre">>
           m == <<"modeSet">>
           d == <<"done">>
           n == <<>>
           ep == <<"enable", "pre">>
           epm == <<"enable", "pre", "modeSet">>
           pm == <<"pre", "modeSet">>
<1>1. /\ e \in Seq(Calls) /\ p \in Seq(Calls) /\ m \in Seq(Calls) /\ d \in Seq(Calls) /\ n \in Seq(Calls)
      /\ ep \in Seq(Calls) /\ epm \in Seq(Calls) /\ pm \in Seq(Calls) /\ IdleOnLeft \in Seq(Calls)
      /\ WakeSetLeft \in Seq(Calls) /\ PreLeft \in Seq(Calls) /\ PreSetLeft \in Seq(Calls)
  BY DEF IdleOnLeft, WakeSetLeft, PreLeft, PreSetLeft, Calls
<1>2. e \o p = ep
  <2>1. e \o p \in Seq(Calls) /\ Len(e \o p) = 2 /\ Len(ep) = 2
    BY <1>1
  <2>2. \A i \in 1 .. 2 : (e \o p)[i] = ep[i]
    BY <1>1
  <2> HIDE DEF e, p, m, d, ep, epm, pm
  <2> QED BY <1>1, <2>1, <2>2, SeqEqual
<1>3. ep \o m = epm
  <2>1. ep \o m \in Seq(Calls) /\ Len(ep \o m) = 3 /\ Len(epm) = 3
    BY <1>1
  <2>2. \A i \in 1 .. 3 : (ep \o m)[i] = epm[i]
    BY <1>1
  <2> HIDE DEF e, p, m, d, ep, epm, pm
  <2> QED BY <1>1, <2>1, <2>2, SeqEqual
<1>4. p \o m = pm
  <2>1. p \o m \in Seq(Calls) /\ Len(p \o m) = 2 /\ Len(pm) = 2
    BY <1>1
  <2>2. \A i \in 1 .. 2 : (p \o m)[i] = pm[i]
    BY <1>1
  <2> HIDE DEF e, p, m, d, ep, epm, pm
  <2> QED BY <1>1, <2>1, <2>2, SeqEqual
<1>5. ep \o d = IdleOnLeft
  <2>1. ep \o d \in Seq(Calls) /\ Len(ep \o d) = 3 /\ Len(IdleOnLeft) = 3
    BY <1>1 DEF IdleOnLeft
  <2>2. \A i \in 1 .. 3 : (ep \o d)[i] = IdleOnLeft[i]
    BY <1>1 DEF IdleOnLeft
  <2> HIDE DEF e, p, m, d, ep, epm, pm
  <2> QED BY <1>1, <2>1, <2>2, SeqEqual
<1>6. epm \o d = WakeSetLeft
  <2>1. epm \o d \in Seq(Calls) /\ Len(epm \o d) = 4 /\ Len(WakeSetLeft) = 4
    BY <1>1 DEF WakeSetLeft
  <2>2. \A i \in 1 .. 4 : (epm \o d)[i] = WakeSetLeft[i]
    BY <1>1 DEF WakeSetLeft
  <2> HIDE DEF e, p, m, d, ep, epm, pm
  <2> QED BY <1>1, <2>1, <2>2, SeqEqual
<1>7. p \o d = PreLeft
  <2>1. p \o d \in Seq(Calls) /\ Len(p \o d) = 2 /\ Len(PreLeft) = 2
    BY <1>1 DEF PreLeft
  <2>2. \A i \in 1 .. 2 : (p \o d)[i] = PreLeft[i]
    BY <1>1 DEF PreLeft
  <2> HIDE DEF e, p, m, d, ep, epm, pm
  <2> QED BY <1>1, <2>1, <2>2, SeqEqual
<1>8. pm \o d = PreSetLeft
  <2>1. pm \o d \in Seq(Calls) /\ Len(pm \o d) = 3 /\ Len(PreSetLeft) = 3
    BY <1>1 DEF PreSetLeft
  <2>2. \A i \in 1 .. 3 : (pm \o d)[i] = PreSetLeft[i]
    BY <1>1 DEF PreSetLeft
  <2> HIDE DEF e, p, m, d, ep, epm, pm
  <2> QED BY <1>1, <2>1, <2>2, SeqEqual
<1>9. n \o p = p /\ p \o n = p /\ ep \o n = ep
  BY <1>1, ConcatEmptySeq
<1> HIDE DEF e, p, m, d, n, ep, epm, pm
<1>10. e \o p \o n \o d = IdleOnLeft /\ e \o p \o m \o d = WakeSetLeft
  BY <1>2, <1>3, <1>5, <1>6, <1>9
<1>11. n \o p \o n \o d = PreLeft /\ n \o p \o m \o d = PreSetLeft
  BY <1>4, <1>7, <1>8, <1>9
<1> QED BY <1>10, <1>11 DEF e, p, m, d, n

-----------------------------------------------------------------------------
(* The tail and the state of the panel *)

Follows == curMode = asked.mode
Dark    == panelState \in {"OFF", "BLANK"}

IdleTailInv ==
  /\ todo \in IdleLefts
  /\ todo = <<>> => IF asked.on THEN PanelActive /\ Follows /\ selfRefresh = asked.refresh ELSE Dark
  /\ todo = RestLeft => asked.on /\ asked.refresh /\ PanelActive /\ Follows /\ ~selfRefresh
  /\ todo \in {OffLeft, BlankLeft} => ~asked.on /\ PanelActive
  /\ todo = OffChipLeft => ~asked.on /\ Dark
  /\ todo = FullLeft => asked.on /\ ~asked.refresh /\ panelState = "NORMAL" /\ asked.mode # "lp"
  /\ todo = SetLeft =>
       asked.on /\ ~asked.refresh /\ (Dark \/ (panelState = "MODESET" /\ asked.mode # "lp"))
  /\ todo = IdleOnLeft => asked.on /\ ~asked.refresh /\ Follows
  /\ todo \in {PreLeft, DoneLeft} => asked.on /\ ~asked.refresh /\ PanelActive /\ Follows /\ ~selfRefresh
  /\ todo = WakeSetLeft => asked.on /\ ~asked.refresh /\ PanelActive
  /\ todo \in {PreSetLeft, SetDoneLeft} => asked.on /\ ~asked.refresh /\ PanelActive /\ ~selfRefresh

IdleStateInv ==
  /\ panelState = "LP" => curMode = "lp"
  /\ panelState \in {"NORMAL", "MODESET"} => curMode # "lp"
  /\ panelState = "MODESET" => todo \in {SetLeft, IdleOnLeft}
  /\ selfRefresh => ~Dark

IdleLifeTyped ==
  /\ asked \in [on : BOOLEAN, refresh : BOOLEAN, mode : Modes]
  /\ panelState \in {"OFF", "NORMAL", "LP", "MODESET", "BLANK"} /\ curMode \in Modes /\ selfRefresh \in BOOLEAN

IdleLifeInv == IdleLifeTyped /\ IdleTailInv /\ IdleStateInv

LEMMA IdleLifeStays ==
  ASSUME IdleLifeInv, UNCHANGED <<asked, todo, panelState, curMode, selfRefresh>> PROVE IdleLifeInv'
BY DEF IdleLifeInv, IdleLifeTyped, IdleTailInv, IdleStateInv, PanelActive, Dark, Follows

(* A commit, between tails. *)
LEMMA IdleCommitLife ==
  ASSUME IdleLifeInv, NEW new \in [on : BOOLEAN, refresh : BOOLEAN, mode : Modes], NEW sequence \in IdleLefts,
         IdleCommit(new, sequence), IdleTailInv'
  PROVE  IdleLifeInv'
<1>1. todo = <<>> /\ asked' = new /\ todo' = sequence /\ UNCHANGED <<panelState, curMode, selfRefresh>>
  BY DEF IdleCommit, TailDone
<1>2. IdleLifeTyped'
  BY <1>1 DEF IdleLifeInv, IdleLifeTyped
<1>3. IdleStateInv'
  BY <1>1, IdleLeftsApart DEF IdleLifeInv, IdleStateInv, Dark
<1> QED BY <1>2, <1>3 DEF IdleLifeInv

LEMMA IdleFrameLife == ASSUME IdleLifeInv, IdleFrame PROVE IdleLifeInv'
<1>1. PICK m \in Modes, full \in BOOLEAN :
        /\ asked.on
        /\ full => m # "lp" /\ asked.mode # "lp"
        /\ IdleCommit([asked EXCEPT !.refresh = FALSE, !.mode = m],
              IF full THEN <<"modeset", "modeSet", "enable", "pre", "done">>
              ELSE Wake \o <<"pre">> \o (IF m # asked.mode THEN <<"modeSet">> ELSE <<>>) \o <<"done">>)
  BY DEF IdleFrame
<1> DEFINE new == [asked EXCEPT !.refresh = FALSE, !.mode = m]
           sequence == IF full THEN FullLeft
                       ELSE IF asked.refresh THEN (IF m # asked.mode THEN WakeSetLeft ELSE IdleOnLeft)
                       ELSE IF m # asked.mode THEN PreSetLeft ELSE PreLeft
<1>2. new \in [on : BOOLEAN, refresh : BOOLEAN, mode : Modes] /\ new.on /\ ~new.refresh /\ new.mode = m
  BY <1>1 DEF IdleLifeInv, IdleLifeTyped
<1>3. IdleCommit(new, sequence)
  BY <1>1, FrameLeft DEF Wake, FullLeft
<1> HIDE DEF new
<1>4. todo = <<>> /\ asked' = new /\ todo' = sequence /\ UNCHANGED <<panelState, curMode, selfRefresh>>
  BY <1>3 DEF IdleCommit, TailDone
<1>5. PanelActive /\ Follows /\ selfRefresh = asked.refresh /\ (panelState = "LP" => curMode = "lp")
  BY <1>1, <1>4 DEF IdleLifeInv, IdleTailInv, IdleStateInv
<1>6. sequence \in IdleLefts
  BY DEF IdleLefts
<1>7. sequence = FullLeft => panelState' = "NORMAL" /\ m # "lp"
  BY <1>1, <1>4, <1>5, IdleLeftsApart DEF PanelActive, Follows
<1>8. sequence \in {PreLeft, PreSetLeft} => ~selfRefresh' 
  BY <1>4, <1>5, IdleLeftsApart DEF IdleLifeInv, IdleLifeTyped
<1>9. sequence \in {IdleOnLeft, PreLeft} => Follows'
  BY <1>2, <1>4, <1>5, IdleLeftsApart DEF Follows
<1>10. PanelActive'
  BY <1>4, <1>5 DEF PanelActive
<1>11. sequence \in {FullLeft, IdleOnLeft, PreLeft, WakeSetLeft, PreSetLeft}
  OBVIOUS
<1> HIDE DEF sequence
<1>12. IdleTailInv'
  BY <1>2, <1>4, <1>6, <1>7, <1>8, <1>9, <1>10, <1>11, IdleLeftsApart DEF IdleTailInv
<1> QED BY <1>2, <1>3, <1>6, <1>12, IdleCommitLife

LEMMA RestLife == ASSUME IdleLifeInv, Rest PROVE IdleLifeInv'
<1> DEFINE new == [asked EXCEPT !.refresh = TRUE]
<1>1. asked.on /\ ~asked.refresh /\ IdleCommit(new, RestLeft)
  BY DEF Rest, RestLeft
<1>2. new \in [on : BOOLEAN, refresh : BOOLEAN, mode : Modes] /\ new.on /\ new.refresh /\ new.mode = asked.mode
  BY <1>1 DEF IdleLifeInv, IdleLifeTyped
<1> HIDE DEF new
<1>4. todo = <<>> /\ asked' = new /\ todo' = RestLeft /\ UNCHANGED <<panelState, curMode, selfRefresh>>
  BY <1>1 DEF IdleCommit, TailDone
<1>5. PanelActive /\ Follows /\ ~selfRefresh
  BY <1>1, <1>4 DEF IdleLifeInv, IdleTailInv, IdleLifeTyped
<1>6. RestLeft \in IdleLefts
  BY DEF IdleLefts
<1>12. IdleTailInv'
  BY <1>2, <1>4, <1>5, <1>6, IdleLeftsApart DEF IdleTailInv, PanelActive, Follows
<1> QED BY <1>1, <1>2, <1>6, <1>12, IdleCommitLife

LEMMA IdleSwitchOffLife == ASSUME IdleLifeInv, IdleSwitchOff PROVE IdleLifeInv'
<1> DEFINE new == [asked EXCEPT !.on = FALSE, !.refresh = FALSE]
<1>1. PICK sequence \in {OffLeft, BlankLeft} : asked.on /\ IdleCommit(new, sequence)
  BY DEF IdleSwitchOff, OffLeft, BlankLeft
<1>2. new \in [on : BOOLEAN, refresh : BOOLEAN, mode : Modes] /\ ~new.on
  BY <1>1 DEF IdleLifeInv, IdleLifeTyped
<1> HIDE DEF new
<1>4. todo = <<>> /\ asked' = new /\ todo' = sequence /\ UNCHANGED <<panelState, curMode, selfRefresh>>
  BY <1>1 DEF IdleCommit, TailDone
<1>5. PanelActive
  BY <1>1, <1>4 DEF IdleLifeInv, IdleTailInv
<1>6. sequence \in IdleLefts
  BY <1>1 DEF IdleLefts
<1>12. IdleTailInv'
  BY <1>1, <1>2, <1>4, <1>5, <1>6, IdleLeftsApart DEF IdleTailInv, PanelActive
<1> QED BY <1>1, <1>2, <1>6, <1>12, IdleCommitLife

LEMMA IdleSwitchOnLife == ASSUME IdleLifeInv, IdleSwitchOn PROVE IdleLifeInv'
<1>1. PICK m \in Modes : ~asked.on /\ IdleCommit([on |-> TRUE, refresh |-> FALSE, mode |-> m], SetLeft)
  BY DEF IdleSwitchOn, SetLeft
<1> DEFINE new == [on |-> TRUE, refresh |-> FALSE, mode |-> m]
<1>2. new \in [on : BOOLEAN, refresh : BOOLEAN, mode : Modes] /\ new.on /\ ~new.refresh
  OBVIOUS
<1>3. IdleCommit(new, SetLeft)
  BY <1>1
<1> HIDE DEF new
<1>4. todo = <<>> /\ asked' = new /\ todo' = SetLeft /\ UNCHANGED <<panelState, curMode, selfRefresh>>
  BY <1>3 DEF IdleCommit, TailDone
<1>5. Dark
  BY <1>1, <1>4 DEF IdleLifeInv, IdleTailInv
<1>6. SetLeft \in IdleLefts
  BY DEF IdleLefts
<1>12. IdleTailInv'
  BY <1>2, <1>4, <1>5, <1>6, IdleLeftsApart DEF IdleTailInv, Dark
<1> QED BY <1>2, <1>3, <1>6, <1>12, IdleCommitLife

LEMMA EnterSelfRefreshLife == ASSUME IdleLifeInv, EnterSelfRefresh PROVE IdleLifeInv'
<1>1. todo \in IdleLefts
  BY DEF IdleLifeInv, IdleTailInv
<1>2. todo = RestLeft /\ todo' = <<>>
  BY <1>1, RestLeaves DEF EnterSelfRefresh
<1>3. IdleLifeTyped'
  BY DEF IdleLifeInv, IdleLifeTyped, EnterSelfRefresh
<1>4. IdleTailInv'
  BY <1>2, IdleLeftsApart DEF IdleLifeInv, IdleLifeTyped, IdleTailInv, IdleStateInv,
     PanelActive, Dark, Follows, IdleLefts, EnterSelfRefresh
<1>5. IdleStateInv'
  BY <1>2, IdleLeftsApart DEF IdleLifeInv, IdleLifeTyped, IdleTailInv, IdleStateInv,
     PanelActive, Dark, Follows, EnterSelfRefresh
<1> QED BY <1>3, <1>4, <1>5 DEF IdleLifeInv

LEMMA IdleDisableLife == ASSUME IdleLifeInv, IdleDisable PROVE IdleLifeInv'
<1>1. todo \in IdleLefts
  BY DEF IdleLifeInv, IdleTailInv
<1>2. (todo = OffLeft \/ todo = BlankLeft) /\ todo' = OffChipLeft
  BY <1>1, OffLeaves, BlankLeaves DEF IdleDisable
<1>3. IdleLifeTyped'
  BY DEF IdleLifeInv, IdleLifeTyped, IdleDisable
<1>4. IdleTailInv'
  BY <1>2, IdleLeftsApart DEF IdleLifeInv, IdleLifeTyped, IdleTailInv, IdleStateInv,
     PanelActive, Dark, Follows, IdleLefts, IdleDisable
<1>5. IdleStateInv'
  BY <1>2, IdleLeftsApart DEF IdleLifeInv, IdleLifeTyped, IdleTailInv, IdleStateInv,
     PanelActive, Dark, Follows, IdleDisable
<1> QED BY <1>3, <1>4, <1>5 DEF IdleLifeInv

LEMMA DisableRestLife == ASSUME IdleLifeInv, DisableRest PROVE IdleLifeInv'
<1>1. todo \in IdleLefts
  BY DEF IdleLifeInv, IdleTailInv
<1>2. todo = OffChipLeft /\ todo' = <<>>
  BY <1>1, OffChipLeaves DEF DisableRest
<1>3. IdleLifeTyped'
  BY DEF IdleLifeInv, IdleLifeTyped, DisableRest
<1>4. IdleTailInv'
  BY <1>2, IdleLeftsApart DEF IdleLifeInv, IdleLifeTyped, IdleTailInv, IdleStateInv,
     PanelActive, Dark, Follows, IdleLefts, DisableRest
<1>5. IdleStateInv'
  BY <1>2, IdleLeftsApart DEF IdleLifeInv, IdleLifeTyped, IdleTailInv, IdleStateInv,
     PanelActive, Dark, Follows, DisableRest
<1> QED BY <1>3, <1>4, <1>5 DEF IdleLifeInv

LEMMA DisableForModesetLife == ASSUME IdleLifeInv, DisableForModeset PROVE IdleLifeInv'
<1>1. todo \in IdleLefts
  BY DEF IdleLifeInv, IdleTailInv
<1>2. todo = FullLeft /\ todo' = SetLeft
  BY <1>1, ModesetLeaves DEF DisableForModeset
<1>3. IdleLifeTyped'
  BY DEF IdleLifeInv, IdleLifeTyped, DisableForModeset
<1>4. IdleTailInv'
  BY <1>2, IdleLeftsApart DEF IdleLifeInv, IdleLifeTyped, IdleTailInv, IdleStateInv,
     PanelActive, Dark, Follows, IdleLefts, DisableForModeset
<1>5. IdleStateInv'
  BY <1>2, IdleLeftsApart DEF IdleLifeInv, IdleLifeTyped, IdleTailInv, IdleStateInv,
     PanelActive, Dark, Follows, DisableForModeset
<1> QED BY <1>3, <1>4, <1>5 DEF IdleLifeInv

LEMMA IdleSameModeLife == ASSUME IdleLifeInv, IdleSameMode PROVE IdleLifeInv'
<1>1. todo \in IdleLefts
  BY DEF IdleLifeInv, IdleTailInv
<1>2. (todo = SetLeft /\ todo' = IdleOnLeft) \/ (todo = SetDoneLeft /\ todo' = DoneLeft)
  BY <1>1, IdleModeSetLeaves DEF IdleSameMode
<1>3. IdleLifeTyped'
  BY DEF IdleLifeInv, IdleLifeTyped, IdleSameMode
<1>4. IdleTailInv'
  BY <1>2, IdleLeftsApart DEF IdleLifeInv, IdleLifeTyped, IdleTailInv, IdleStateInv,
     PanelActive, Dark, Follows, IdleLefts, IdleSameMode
<1>5. IdleStateInv'
  BY <1>2, IdleLeftsApart DEF IdleLifeInv, IdleLifeTyped, IdleTailInv, IdleStateInv,
     PanelActive, Dark, Follows, IdleSameMode
<1> QED BY <1>3, <1>4, <1>5 DEF IdleLifeInv

LEMMA ModeSetLife == ASSUME IdleLifeInv, ModeSet PROVE IdleLifeInv'
<1>1. todo \in IdleLefts
  BY DEF IdleLifeInv, IdleTailInv
<1>2. (todo = SetLeft /\ todo' = IdleOnLeft) \/ (todo = SetDoneLeft /\ todo' = DoneLeft)
  BY <1>1, IdleModeSetLeaves DEF ModeSet
<1>3. IdleLifeTyped'
  BY DEF IdleLifeInv, IdleLifeTyped, ModeSet
<1>4. IdleTailInv'
  BY <1>2, IdleLeftsApart DEF IdleLifeInv, IdleLifeTyped, IdleTailInv, IdleStateInv,
     PanelActive, Dark, Follows, IdleLefts, ModeSet
<1>5. IdleStateInv'
  BY <1>2, IdleLeftsApart DEF IdleLifeInv, IdleLifeTyped, IdleTailInv, IdleStateInv,
     PanelActive, Dark, Follows, ModeSet
<1> QED BY <1>3, <1>4, <1>5 DEF IdleLifeInv

LEMMA EnableOnLife == ASSUME IdleLifeInv, EnableOn PROVE IdleLifeInv'
<1>1. todo \in IdleLefts
  BY DEF IdleLifeInv, IdleTailInv
<1>2. (todo = IdleOnLeft /\ todo' = PreLeft) \/ (todo = WakeSetLeft /\ todo' = PreSetLeft)
  BY <1>1, IdleEnableLeaves DEF EnableOn
<1>3. IdleLifeTyped'
  BY DEF IdleLifeInv, IdleLifeTyped, EnableOn
<1>4. IdleTailInv'
  BY <1>2, IdleLeftsApart DEF IdleLifeInv, IdleLifeTyped, IdleTailInv, IdleStateInv,
     PanelActive, Dark, Follows, IdleLefts, EnableOn
<1>5. IdleStateInv'
  BY <1>2, IdleLeftsApart DEF IdleLifeInv, IdleLifeTyped, IdleTailInv, IdleStateInv,
     PanelActive, Dark, Follows, EnableOn
<1> QED BY <1>3, <1>4, <1>5 DEF IdleLifeInv

LEMMA LeaveSelfRefreshLife == ASSUME IdleLifeInv, LeaveSelfRefresh PROVE IdleLifeInv'
<1>1. todo \in IdleLefts
  BY DEF IdleLifeInv, IdleTailInv
<1>2. (todo = IdleOnLeft /\ todo' = PreLeft) \/ (todo = WakeSetLeft /\ todo' = PreSetLeft)
  BY <1>1, IdleEnableLeaves DEF LeaveSelfRefresh
<1>3. IdleLifeTyped'
  BY DEF IdleLifeInv, IdleLifeTyped, LeaveSelfRefresh
<1>4. IdleTailInv'
  BY <1>2, IdleLeftsApart DEF IdleLifeInv, IdleLifeTyped, IdleTailInv, IdleStateInv,
     PanelActive, Dark, Follows, IdleLefts, LeaveSelfRefresh
<1>5. IdleStateInv'
  BY <1>2, IdleLeftsApart DEF IdleLifeInv, IdleLifeTyped, IdleTailInv, IdleStateInv,
     PanelActive, Dark, Follows, LeaveSelfRefresh
<1> QED BY <1>3, <1>4, <1>5 DEF IdleLifeInv

LEMMA EnableModesetLife == ASSUME IdleLifeInv, EnableModeset PROVE IdleLifeInv'
<1>1. todo \in IdleLefts
  BY DEF IdleLifeInv, IdleTailInv
<1>2. (todo = IdleOnLeft /\ todo' = PreLeft) \/ (todo = WakeSetLeft /\ todo' = PreSetLeft)
  BY <1>1, IdleEnableLeaves DEF EnableModeset
<1>3. IdleLifeTyped'
  BY DEF IdleLifeInv, IdleLifeTyped, EnableModeset
<1>4. IdleTailInv'
  BY <1>2, IdleLeftsApart DEF IdleLifeInv, IdleLifeTyped, IdleTailInv, IdleStateInv,
     PanelActive, Dark, Follows, IdleLefts, EnableModeset
<1>5. IdleStateInv'
  BY <1>2, IdleLeftsApart DEF IdleLifeInv, IdleLifeTyped, IdleTailInv, IdleStateInv,
     PanelActive, Dark, Follows, EnableModeset
<1> QED BY <1>3, <1>4, <1>5 DEF IdleLifeInv

LEMMA PreCommitLife == ASSUME IdleLifeInv, PreCommit PROVE IdleLifeInv'
<1>1. todo \in IdleLefts
  BY DEF IdleLifeInv, IdleTailInv
<1>2. (todo = PreLeft /\ todo' = DoneLeft) \/ (todo = PreSetLeft /\ todo' = SetDoneLeft)
  BY <1>1, PreLeaves DEF PreCommit
<1>3. IdleLifeTyped'
  BY DEF IdleLifeInv, IdleLifeTyped, PreCommit
<1>4. IdleTailInv'
  BY <1>2, IdleLeftsApart DEF IdleLifeInv, IdleLifeTyped, IdleTailInv, IdleStateInv,
     PanelActive, Dark, Follows, IdleLefts, PreCommit
<1>5. IdleStateInv'
  BY <1>2, IdleLeftsApart DEF IdleLifeInv, IdleLifeTyped, IdleTailInv, IdleStateInv,
     PanelActive, Dark, Follows, PreCommit
<1> QED BY <1>3, <1>4, <1>5 DEF IdleLifeInv

LEMMA CommitDoneLife == ASSUME IdleLifeInv, CommitDone PROVE IdleLifeInv'
<1>1. todo \in IdleLefts
  BY DEF IdleLifeInv, IdleTailInv
<1>2. todo = DoneLeft /\ todo' = <<>>
  BY <1>1, DoneLeaves DEF CommitDone
<1>3. IdleLifeTyped'
  BY DEF IdleLifeInv, IdleLifeTyped, CommitDone
<1>4. IdleTailInv'
  BY <1>2, IdleLeftsApart DEF IdleLifeInv, IdleLifeTyped, IdleTailInv, IdleStateInv,
     PanelActive, Dark, Follows, IdleLefts, CommitDone
<1>5. IdleStateInv'
  BY <1>2, IdleLeftsApart DEF IdleLifeInv, IdleLifeTyped, IdleTailInv, IdleStateInv,
     PanelActive, Dark, Follows, CommitDone
<1> QED BY <1>3, <1>4, <1>5 DEF IdleLifeInv

-----------------------------------------------------------------------------
(* The chip, the rate and the idle rate *)

SysTyped ==
  /\ pending \in BOOLEAN /\ work \in {"idle", "queued", "started", "locked"}
  /\ recent \in SUBSET Stamps /\ set \in Settings
  /\ drv \in Drv /\ registers \in Regs
  /\ idleUsed \in [commits : 0 .. IdleCommits, stores : 0 .. IdleStores]

IdleChipInv ==
  /\ panelState \in {"NORMAL", "MODESET"} => Cached(P)
  /\ panelState = "LP" => registers = AodRegs(ResetRegs)

IdleRateInv ==
  /\ asked.on => Vrefresh(asked.mode) <= set.op
  /\ panelState = "NORMAL" => Awake(P, curMode)
  /\ panelState = "NORMAL" /\ curMode = "m60" /\ ~selfRefresh => drv.auto = 0

IdleInv ==
  /\ work = "locked" /\ selfRefresh => ~Delayed(set, curMode, recent)
  /\ panelState = "NORMAL" /\ selfRefresh /\ work = "idle" => drv.auto = MinIdle(set, curMode)

(* What each step shows: each part of the invariant from those before it. *)
IdleKeeps ==
  /\ SysTyped' /\ IdleChipInv'
  /\ "over_op_hz" \notin IdleRaces /\ IdleRateInv => IdleRateInv'
  /\ IdleRaces \cap {"over_op_hz", "hbm_auto"} = {} /\ IdleRateInv /\ IdleInv => IdleInv'

LEMMA PType == ASSUME SysTyped PROVE P \in Pair /\ P.drv = drv /\ P.chip = registers
BY DEF SysTyped, P, Pair

LEMMA TypeOKParts == IdleLifeInv /\ SysTyped => IdleTypeOK
BY IdleLeftsTyped DEF IdleLifeInv, IdleLifeTyped, IdleTailInv, SysTyped, Settings, Drv, IdleTypeOK

(* panel_update_idle_mode_locked *)
LEMMA UpdateIdleModeKeeps ==
  ASSUME NEW p \in Pair, NEW on \in BOOLEAN, NEW s \in Settings, NEW stamps \in SUBSET Stamps,
         NEW delayUpdate \in BOOLEAN, curMode \in Modes, SysTyped, UpdateIdleMode(p, on, s, stamps, delayUpdate)
  PROVE  /\ P' \in Pair /\ drv' \in Drv /\ registers' \in Regs /\ P'.drv = drv' /\ P'.chip = registers'
         /\ recent' \in SUBSET Stamps /\ pending' \in BOOLEAN
         /\ work' \in {"idle", "queued", "started", "locked"} /\ (work # "locked" => work' # "locked")
         /\ Cached(p) => Cached(P')
         /\ curMode = "lp" => registers' = p.chip
         /\ curMode # "lp" /\ Awake(p, curMode) => Awake(P', curMode)
         /\ curMode = "m60" /\ ~on /\ Awake(p, curMode) /\ ((PanelActive /\ ~delayUpdate) \/ p.drv.auto = 0)
              => drv'.auto = 0
         /\ curMode # "lp" /\ on /\ PanelActive /\ Awake(p, curMode) /\ work' = "idle" => drv'.auto = MinIdle(s, curMode)
<1> DEFINE q == SetSelfRefresh(p, s, curMode, on, stamps)
<1>1. PICK r \in {p, q} :
        /\ Take(r)
        /\ r = q \/ ~PanelActive \/ (on /\ Delayed(s, curMode, stamps) /\ work' = "queued") \/ (~on /\ delayUpdate)
        /\ r # p => ~(on /\ Delayed(s, curMode, stamps))
        /\ recent' \in {stamps, stamps \cup {"refresh"}} /\ pending' \in {pending, TRUE, FALSE}
        /\ work' \in {work, "queued", Unqueued}
        /\ PanelActive /\ on /\ work' = "idle" => r = q /\ ~Delayed(s, curMode, stamps)
  <2>1. CASE ~PanelActive
    BY <2>1 DEF UpdateIdleMode
  <2>2. CASE PanelActive /\ on /\ Delayed(s, curMode, stamps)
    BY <2>2 DEF UpdateIdleMode
  <2>3. CASE PanelActive /\ ~on /\ delayUpdate
    BY <2>3 DEF UpdateIdleMode
  <2>4. CASE PanelActive /\ ~(on /\ Delayed(s, curMode, stamps)) /\ ~(~on /\ delayUpdate)
    <3>1. Take(q) /\ pending' = FALSE /\ work' = Unqueued /\ recent' \in {stamps, stamps \cup {"refresh"}}
      BY <2>4 DEF UpdateIdleMode
    <3> HIDE DEF q
    <3> QED BY <2>4, <3>1
  <2> QED BY <2>1, <2>2, <2>3, <2>4
<1>2. /\ q \in Pair
      /\ Cached(p) => Cached(q)
      /\ curMode = "lp" => q.chip = p.chip
      /\ curMode # "lp" /\ Awake(p, curMode) => Awake(q, curMode)
      /\ curMode = "m60" /\ ~on /\ Awake(p, curMode) => q.drv.auto = 0
      /\ curMode # "lp" /\ on /\ Awake(p, curMode) /\ ~Delayed(s, curMode, stamps) => q.drv.auto = MinIdle(s, curMode)
  BY SetSelfRefreshKeeps
<1> HIDE DEF q
<1>3. r \in Pair
  BY <1>1, <1>2
<1>4. P' = r /\ drv' = r.drv /\ registers' = r.chip /\ r.drv \in Drv /\ r.chip \in Regs
  BY <1>1, <1>3, TakeType, TakeFacts
<1>5. recent' \in SUBSET Stamps /\ pending' \in BOOLEAN
  BY <1>1 DEF Stamps, SysTyped
<1>6. work' \in {"idle", "queued", "started", "locked"} /\ (work # "locked" => work' # "locked")
  BY <1>1 DEF SysTyped, Unqueued
<1> QED BY <1>1, <1>2, <1>3, <1>4, <1>5, <1>6

(* Steps that leave the panel and its driver alone. *)
LEMMA QuietKeeps ==
  ASSUME IdleLifeInv, SysTyped, IdleChipInv, UNCHANGED <<panelState, curMode, selfRefresh, set, drv, registers, pending>>,
         recent' \in SUBSET recent, work' \in {"idle", "queued", "started", "locked"},
         idleUsed' \in [commits : 0 .. IdleCommits, stores : 0 .. IdleStores],
         work' = "locked" => work = "locked" \/ ~(selfRefresh /\ Delayed(set, curMode, recent)),
         work' = "idle" => work = "idle" \/ ~PanelActive,
         "over_op_hz" \notin IdleRaces /\ IdleRateInv => (asked'.on => Vrefresh(asked'.mode) <= set.op)
  PROVE  IdleKeeps
<1>1. P' = P
  BY DEF P
<1>2. SysTyped' /\ IdleChipInv'
  BY <1>1 DEF SysTyped, IdleChipInv, Cached, RegsOf, AodRegs
<1>3. "over_op_hz" \notin IdleRaces /\ IdleRateInv => IdleRateInv'
  BY <1>1 DEF IdleRateInv
<1>4. Delayed(set', curMode', recent') => Delayed(set, curMode, recent)
  BY DEF Delayed, IdleMode
<1>5. IdleInv => IdleInv'
  BY <1>4 DEF IdleInv, PanelActive
<1> QED BY <1>2, <1>3, <1>5 DEF IdleKeeps

LEMMA IdleCommitQuiet ==
  ASSUME SysTyped, NEW new, NEW sequence, IdleCommit(new, sequence)
  PROVE  /\ UNCHANGED <<panelState, curMode, selfRefresh, set, drv, registers, pending, recent, work>>
         /\ idleUsed' \in [commits : 0 .. IdleCommits, stores : 0 .. IdleStores] /\ asked' = new
BY IdleBoundsAssumption DEF IdleCommit, SysTyped

LEMMA IdleFrameKeeps == ASSUME IdleLifeInv, SysTyped, IdleChipInv, IdleFrame PROVE IdleKeeps
<1>1. PICK m \in Modes, sequence \in {todo'} :
        /\ "over_op_hz" \in IdleRaces \/ Vrefresh(m) <= set.op
        /\ IdleCommit([asked EXCEPT !.refresh = FALSE, !.mode = m], sequence)
  BY DEF IdleFrame, IdleCommit
<1>2. asked'.mode = m
  BY <1>1 DEF IdleCommit, IdleLifeInv, IdleLifeTyped
<1>3. work' \in {"idle", "queued", "started", "locked"} /\ work' = work
  BY <1>1, IdleCommitQuiet DEF SysTyped
<1> QED BY <1>1, <1>2, <1>3, IdleCommitQuiet, QuietKeeps

LEMMA RestKeeps == ASSUME IdleLifeInv, SysTyped, IdleChipInv, Rest PROVE IdleKeeps
<1> DEFINE new == [asked EXCEPT !.refresh = TRUE]
<1>1. PICK sequence \in {<<"rest">>} : asked.on /\ IdleCommit(new, sequence)
  BY DEF Rest
<1>2. new.mode = asked.mode /\ new.on
  BY <1>1 DEF IdleLifeInv, IdleLifeTyped
<1>3. work' \in {"idle", "queued", "started", "locked"} /\ work' = work
  BY <1>1, IdleCommitQuiet DEF SysTyped
<1> HIDE DEF new
<1>4. asked' = new
  BY <1>1 DEF IdleCommit
<1>5. IdleRateInv => (asked'.on => Vrefresh(asked'.mode) <= set.op)
  BY <1>1, <1>2, <1>4 DEF IdleRateInv
<1> QED BY <1>1, <1>3, <1>5, IdleCommitQuiet, QuietKeeps

LEMMA IdleSwitchOffKeeps == ASSUME IdleLifeInv, SysTyped, IdleChipInv, IdleSwitchOff PROVE IdleKeeps
<1> DEFINE new == [asked EXCEPT !.on = FALSE, !.refresh = FALSE]
<1>1. PICK sequence \in {todo'} : IdleCommit(new, sequence)
  BY DEF IdleSwitchOff, IdleCommit
<1>2. ~new.on
  BY DEF IdleLifeInv, IdleLifeTyped
<1>3. work' \in {"idle", "queued", "started", "locked"} /\ work' = work
  BY <1>1, IdleCommitQuiet DEF SysTyped
<1> HIDE DEF new
<1>4. ~asked'.on
  BY <1>1, <1>2 DEF IdleCommit
<1> QED BY <1>1, <1>3, <1>4, IdleCommitQuiet, QuietKeeps

LEMMA IdleSwitchOnKeeps == ASSUME IdleLifeInv, SysTyped, IdleChipInv, IdleSwitchOn PROVE IdleKeeps
<1>1. PICK m \in Modes, sequence \in {todo'} :
        /\ "over_op_hz" \in IdleRaces \/ Vrefresh(m) <= set.op
        /\ IdleCommit([on |-> TRUE, refresh |-> FALSE, mode |-> m], sequence)
  BY DEF IdleSwitchOn, IdleCommit
<1>2. asked'.mode = m
  BY <1>1 DEF IdleCommit
<1>3. work' \in {"idle", "queued", "started", "locked"} /\ work' = work
  BY <1>1, IdleCommitQuiet DEF SysTyped
<1> QED BY <1>1, <1>2, <1>3, IdleCommitQuiet, QuietKeeps

LEMMA TimeKeeps ==
  ASSUME IdleLifeInv, SysTyped, IdleChipInv, IdleSameMode \/ IdleExpire \/ WorkTests \/ Age PROVE IdleKeeps
<1>1. /\ UNCHANGED <<asked, panelState, curMode, selfRefresh, set, drv, registers, pending, idleUsed>>
      /\ recent' \in SUBSET recent /\ work' \in {"idle", "queued", "started", "locked"}
      /\ work' = "locked" => work = "locked" \/ ~(selfRefresh /\ Delayed(set, curMode, recent))
      /\ work' = "idle" => work = "idle" \/ ~PanelActive
  BY DEF IdleSameMode, IdleExpire, WorkTests, Age, SysTyped
<1>2. idleUsed' \in [commits : 0 .. IdleCommits, stores : 0 .. IdleStores]
  BY <1>1 DEF SysTyped
<1>3. IdleRateInv => (asked'.on => Vrefresh(asked'.mode) <= set.op)
  BY <1>1 DEF IdleRateInv
<1> QED BY <1>1, <1>2, <1>3, QuietKeeps

LEMMA EnterSelfRefreshKeeps == ASSUME IdleLifeInv, SysTyped, IdleChipInv, EnterSelfRefresh PROVE IdleKeeps
<1> DEFINE no == FALSE
           yes == TRUE
<1>1. /\ UpdateIdleMode(P, yes, set, recent, no) /\ selfRefresh' = TRUE /\ work # "locked"
      /\ UNCHANGED <<asked, panelState, curMode, set, idleUsed>>
  BY DEF EnterSelfRefresh, Lock
<1>2. yes \in BOOLEAN /\ no \in BOOLEAN /\ yes
  OBVIOUS
<1>3. curMode \in Modes /\ (panelState \in {"NORMAL", "MODESET"} => curMode # "lp") /\ (panelState = "LP" => curMode = "lp")
  BY DEF IdleLifeInv, IdleLifeTyped, IdleStateInv
<1>4. P \in Pair /\ P.drv = drv /\ P.chip = registers
  BY PType
<1>5. set \in Settings /\ recent \in SUBSET Stamps
  BY DEF SysTyped
<1> HIDE DEF no, yes
<1>6. /\ P' \in Pair /\ drv' \in Drv /\ registers' \in Regs /\ P'.drv = drv' /\ P'.chip = registers'
      /\ recent' \in SUBSET Stamps /\ pending' \in BOOLEAN
      /\ work' \in {"idle", "queued", "started", "locked"} /\ work' # "locked"
      /\ Cached(P) => Cached(P')
      /\ curMode = "lp" => registers' = registers
      /\ curMode # "lp" /\ Awake(P, curMode) => Awake(P', curMode)
      /\ curMode # "lp" /\ PanelActive /\ Awake(P, curMode) /\ work' = "idle" => drv'.auto = MinIdle(set, curMode)
  BY <1>1, <1>2, <1>3, <1>4, <1>5, UpdateIdleModeKeeps
<1>7. SysTyped'
  BY <1>1, <1>6 DEF SysTyped
<1>8. IdleChipInv'
  BY <1>1, <1>3, <1>6 DEF IdleChipInv, AodRegs, ResetRegs
<1>9. IdleRateInv => IdleRateInv'
  BY <1>1, <1>3, <1>6 DEF IdleRateInv
<1>10. IdleRateInv => IdleInv'
  BY <1>1, <1>3, <1>6 DEF IdleRateInv, IdleInv, PanelActive
<1> QED BY <1>7, <1>8, <1>9, <1>10 DEF IdleKeeps

LEMMA IdleDisableKeeps == ASSUME IdleLifeInv, SysTyped, IdleChipInv, IdleDisable PROVE IdleKeeps
<1>1. /\ panelState' \in {"OFF", "BLANK"} /\ selfRefresh' = FALSE
      /\ UNCHANGED <<asked, curMode, pending, work, recent, set, registers, idleUsed>>
  BY DEF IdleDisable
<1>2. drv' \in Drv
  BY DEF IdleDisable, SysTyped, Drv, Rates
<1>3. SysTyped'
  BY <1>1, <1>2 DEF SysTyped
<1> QED BY <1>1, <1>3 DEF IdleKeeps, IdleChipInv, IdleRateInv, IdleInv

LEMMA DisableRestKeeps == ASSUME IdleLifeInv, SysTyped, IdleChipInv, DisableRest PROVE IdleKeeps
<1> DEFINE p == IF set.hbm THEN SetHbm(P, curMode, FALSE) ELSE P
           q == IdleDisableChip(p)
<1>1. /\ set' = [set EXCEPT !.hbm = FALSE] /\ Take(q) /\ work # "locked" /\ todo = OffChipLeft
      /\ UNCHANGED <<asked, panelState, curMode, selfRefresh, pending, work, recent, idleUsed>>
  BY OffChipLeaves DEF DisableRest, Lock, IdleLifeInv, IdleTailInv
<1>2. panelState \in {"OFF", "BLANK"} /\ ~asked.on
  BY <1>1 DEF IdleLifeInv, IdleTailInv, Dark
<1>3. p \in Pair
  <2> DEFINE no == FALSE
             h == SetHbm(P, curMode, no)
  <2>1. p \in {P, h} /\ curMode \in Modes
    BY DEF IdleLifeInv, IdleLifeTyped
  <2> HIDE DEF no
  <2>2. h \in Pair
    BY <2>1, PType, SetHbmKeeps
  <2> QED BY <2>1, <2>2, PType
<1> HIDE DEF p
<1>4. q \in Pair
  BY <1>3, IdleDisableChipKeeps
<1> HIDE DEF q
<1>5. drv' \in Drv /\ registers' \in Regs
  BY <1>1, <1>4, TakeType, TakeFacts
<1>6. set' \in Settings
  BY <1>1 DEF SysTyped, Settings
<1>7. SysTyped'
  BY <1>1, <1>5, <1>6 DEF SysTyped
<1> QED BY <1>1, <1>2, <1>7 DEF IdleKeeps, IdleChipInv, IdleRateInv, IdleInv

LEMMA DisableForModesetKeeps == ASSUME IdleLifeInv, SysTyped, IdleChipInv, DisableForModeset PROVE IdleKeeps
<1>1. /\ panelState' = "MODESET" /\ todo = FullLeft
      /\ UNCHANGED <<asked, curMode, selfRefresh, pending, work, recent, set, drv, registers, idleUsed>>
  BY ModesetLeaves DEF DisableForModeset, IdleLifeInv, IdleTailInv
<1>2. panelState = "NORMAL" /\ P' = P
  BY <1>1 DEF IdleLifeInv, IdleTailInv, P
<1>3. SysTyped'
  BY <1>1 DEF SysTyped
<1>4. IdleChipInv'
  BY <1>1, <1>2 DEF IdleChipInv, Cached, RegsOf
<1>5. IdleInv => IdleInv'
  BY <1>1 DEF IdleInv
<1> QED BY <1>1, <1>3, <1>4, <1>5 DEF IdleKeeps, IdleRateInv

LEMMA ModeSetKeeps == ASSUME IdleLifeInv, SysTyped, IdleChipInv, ModeSet PROVE IdleKeeps
<1> DEFINE p == IF set.hbm THEN SetHbm(P, curMode, FALSE) ELSE P
           lp == SetLpMode(p, TRUE)
           nolp == SetNolpMode(P, set, curMode', {})
           freq == ChangeFrequency(P, set, curMode', recent')
<1>1. /\ todo \in {SetLeft, SetDoneLeft} /\ work # "locked"
      /\ curMode' = asked.mode /\ recent' = recent \cup {"modeSet"} /\ asked.mode # curMode
      /\ UNCHANGED <<asked, selfRefresh, pending, work, idleUsed>>
  BY IdleModeSetLeaves DEF ModeSet, Lock, IdleLifeInv, IdleTailInv
<1>2. CASE ~PanelActive
  <2>1. UNCHANGED <<panelState, set, drv, registers>>
    BY <1>2 DEF ModeSet
  <2>2. P' = P /\ panelState # "NORMAL" /\ panelState # "LP"
    BY <1>2, <2>1 DEF P, PanelActive
  <2>3. SysTyped'
    BY <1>1, <2>1 DEF SysTyped, Stamps
  <2>4. IdleChipInv'
    BY <2>1, <2>2 DEF IdleChipInv, Cached, RegsOf
  <2> QED BY <1>1, <2>1, <2>2, <2>3, <2>4 DEF IdleKeeps, IdleRateInv, IdleInv
<1>3. CASE PanelActive
  <2>1. asked.on /\ ~selfRefresh /\ todo = SetDoneLeft
    BY <1>1, <1>3, IdleLeftsApart DEF IdleLifeInv, IdleTailInv, PanelActive, Dark
  <2>2. curMode \in Modes /\ curMode' \in Modes /\ (panelState = "NORMAL" => curMode # "lp") /\ (panelState = "LP" => curMode = "lp")
    BY <1>1 DEF IdleLifeInv, IdleLifeTyped, IdleStateInv
  <2>3. recent' \in SUBSET Stamps /\ set \in Settings
    BY <1>1 DEF SysTyped, Stamps
  <2>4. "over_op_hz" \notin IdleRaces /\ IdleRateInv => Vrefresh(curMode') <= set.op
    BY <1>1, <2>1 DEF IdleRateInv
  <2>5. CASE curMode' = "lp"
    <3>1. panelState' = "LP" /\ set' = [set EXCEPT !.hbm = FALSE] /\ Take(lp)
      BY <1>3, <2>5 DEF ModeSet
    <3>2. p \in Pair
      <4> DEFINE no == FALSE
                 h == SetHbm(P, curMode, no)
      <4>1. p \in {P, h}
        OBVIOUS
      <4> HIDE DEF no
      <4>2. h \in Pair
        BY <2>2, PType, SetHbmKeeps
      <4> QED BY <4>1, <4>2, PType
    <3> HIDE DEF p
    <3>3. lp \in Pair /\ lp.chip = AodRegs(ResetRegs)
      <4> DEFINE yes == TRUE
                 l == SetLpMode(p, yes)
      <4>1. lp = l
        OBVIOUS
      <4> HIDE DEF yes, lp
      <4> QED BY <3>2, <4>1, SetLpModeKeeps
    <3> HIDE DEF lp
    <3>4. drv' \in Drv /\ registers' \in Regs /\ registers' = AodRegs(ResetRegs)
      BY <3>1, <3>3, TakeType, TakeFacts
    <3>5. set' \in Settings /\ set'.op = set.op
      BY <3>1, <2>3 DEF Settings
    <3>6. SysTyped'
      BY <1>1, <2>3, <3>4, <3>5 DEF SysTyped
    <3>7. IdleChipInv'
      BY <3>1, <3>4 DEF IdleChipInv, AodRegs, ResetRegs
    <3>8. "over_op_hz" \notin IdleRaces /\ IdleRateInv => IdleRateInv'
      BY <1>1, <3>1, <3>5, <2>4 DEF IdleRateInv
    <3> QED BY <1>1, <2>1, <3>6, <3>7, <3>8 DEF IdleKeeps, IdleInv
  <2>6. CASE curMode' # "lp"
    <3>1. PICK q \in {nolp, freq} :
            /\ Take(q) /\ UNCHANGED set /\ panelState' = "NORMAL"
            /\ q = nolp \/ (q = freq /\ panelState = "NORMAL")
      <4>1. CASE curMode = "lp"
        <5>1. panelState' = "NORMAL" /\ Take(nolp) /\ UNCHANGED set
          BY <1>3, <2>6, <4>1 DEF ModeSet
        <5> HIDE DEF nolp, freq
        <5> QED BY <5>1
      <4>2. CASE curMode # "lp"
        <5>1. Take(freq) /\ UNCHANGED <<panelState, set>>
          BY <1>3, <2>6, <4>2 DEF ModeSet
        <5> HIDE DEF nolp, freq
        <5> QED BY <5>1, <1>3, <2>2, <4>2 DEF PanelActive
      <4> QED BY <4>1, <4>2
    <3>2. P \in Pair /\ (panelState = "NORMAL" => Cached(P))
      BY PType DEF IdleChipInv
    <3>3. /\ nolp \in Pair /\ Cached(nolp)
          /\ Vrefresh(curMode') <= set.op => Awake(nolp, curMode') /\ (curMode' = "m60" => nolp.drv.auto = 0)
      BY <3>2, <2>2, <2>3, SetNolpModeKeeps
    <3>4. /\ freq \in Pair /\ (Cached(P) => Cached(freq))
          /\ Vrefresh(curMode') <= set.op => Awake(freq, curMode') /\ (curMode' = "m60" => freq.drv.auto = 0)
      BY <3>2, <2>2, <2>3, ChangeFrequencyKeeps
    <3> HIDE DEF nolp, freq
    <3>5. /\ q \in Pair /\ Cached(q)
          /\ Vrefresh(curMode') <= set.op => Awake(q, curMode') /\ (curMode' = "m60" => q.drv.auto = 0)
      BY <3>1, <3>2, <3>3, <3>4
    <3>6. drv' \in Drv /\ registers' \in Regs /\ P' = q /\ drv' = q.drv
      BY <3>1, <3>5, TakeType, TakeFacts
    <3>7. SysTyped'
      BY <1>1, <2>3, <3>1, <3>6 DEF SysTyped
    <3>8. IdleChipInv'
      BY <3>1, <3>5, <3>6 DEF IdleChipInv
    <3>9. "over_op_hz" \notin IdleRaces /\ IdleRateInv => IdleRateInv'
      BY <1>1, <2>4, <3>1, <3>5, <3>6 DEF IdleRateInv
    <3> QED BY <1>1, <2>1, <3>7, <3>8, <3>9 DEF IdleKeeps, IdleInv
  <2> QED BY <2>5, <2>6
<1> QED BY <1>2, <1>3

LEMMA EnableOnKeeps == ASSUME IdleLifeInv, SysTyped, IdleChipInv, EnableOn PROVE IdleKeeps
<1> DEFINE reset == panelState = "OFF"
           q == EnableChip(P, set, curMode, recent, reset)
<1>1. /\ ~PanelActive /\ ~selfRefresh /\ todo \in {IdleOnLeft, WakeSetLeft} /\ work # "locked" /\ Take(q)
      /\ panelState' = IF curMode = "lp" THEN "LP" ELSE "NORMAL"
      /\ UNCHANGED <<asked, curMode, selfRefresh, pending, work, recent, set, idleUsed>>
  BY IdleEnableLeaves DEF EnableOn, Lock, IdleLifeInv, IdleTailInv
<1>2. curMode \in Modes /\ set \in Settings /\ recent \in SUBSET Stamps /\ P \in Pair
  BY PType DEF IdleLifeInv, IdleLifeTyped, SysTyped
<1>3. asked.on /\ asked.mode = curMode
  BY <1>1, IdleLeftsApart DEF IdleLifeInv, IdleTailInv, Follows
<1> HIDE DEF reset
<1>4. /\ q \in Pair
      /\ curMode = "lp" => q.chip = AodRegs(ResetRegs)
      /\ curMode # "lp" => Cached(q)
      /\ curMode # "lp" /\ Vrefresh(curMode) <= set.op => Awake(q, curMode) /\ (curMode = "m60" => q.drv.auto = 0)
  BY <1>2, EnableChipKeeps
<1> HIDE DEF q
<1>5. drv' \in Drv /\ registers' \in Regs /\ P' = q /\ drv' = q.drv /\ registers' = q.chip
  BY <1>1, <1>4, TakeType, TakeFacts
<1>6. SysTyped'
  BY <1>1, <1>5 DEF SysTyped
<1>7. IdleChipInv'
  BY <1>1, <1>4, <1>5 DEF IdleChipInv, AodRegs, ResetRegs
<1>8. IdleRateInv => IdleRateInv'
  BY <1>1, <1>3, <1>4, <1>5 DEF IdleRateInv
<1> QED BY <1>1, <1>6, <1>7, <1>8 DEF IdleKeeps, IdleInv

LEMMA LeaveSelfRefreshKeeps == ASSUME IdleLifeInv, SysTyped, IdleChipInv, LeaveSelfRefresh PROVE IdleKeeps
<1> DEFINE no == FALSE
<1>1. /\ UpdateIdleMode(P, no, set, recent, no) /\ ~selfRefresh' /\ PanelActive
      /\ UNCHANGED <<asked, panelState, curMode, set, idleUsed>>
  BY DEF LeaveSelfRefresh
<1>2. no \in BOOLEAN /\ ~no
  OBVIOUS
<1>3. curMode \in Modes /\ (panelState \in {"NORMAL", "MODESET"} => curMode # "lp") /\ (panelState = "LP" => curMode = "lp")
  BY DEF IdleLifeInv, IdleLifeTyped, IdleStateInv
<1>4. P \in Pair /\ P.drv = drv /\ P.chip = registers /\ set \in Settings /\ recent \in SUBSET Stamps
  BY PType DEF SysTyped
<1> HIDE DEF no
<1>5. /\ P' \in Pair /\ drv' \in Drv /\ registers' \in Regs /\ P'.drv = drv' /\ P'.chip = registers'
      /\ recent' \in SUBSET Stamps /\ pending' \in BOOLEAN
      /\ work' \in {"idle", "queued", "started", "locked"}
      /\ Cached(P) => Cached(P')
      /\ curMode = "lp" => registers' = registers
      /\ curMode # "lp" /\ Awake(P, curMode) => Awake(P', curMode)
      /\ curMode = "m60" /\ Awake(P, curMode) => drv'.auto = 0
  BY <1>1, <1>2, <1>3, <1>4, UpdateIdleModeKeeps
<1>6. SysTyped'
  BY <1>1, <1>5 DEF SysTyped
<1>7. IdleChipInv'
  BY <1>1, <1>3, <1>5 DEF IdleChipInv, AodRegs, ResetRegs
<1>8. IdleRateInv => IdleRateInv'
  BY <1>1, <1>3, <1>5 DEF IdleRateInv
<1> QED BY <1>1, <1>6, <1>7, <1>8 DEF IdleKeeps, IdleInv

LEMMA EnableModesetKeeps == ASSUME IdleLifeInv, SysTyped, IdleChipInv, EnableModeset PROVE IdleKeeps
<1> DEFINE no == FALSE
           p == EnableChip(P, set, curMode, recent, no)
           q == SetSelfRefresh(p, set, curMode, no, recent)
<1>1. /\ ~PanelActive /\ selfRefresh /\ ~selfRefresh' /\ panelState' = "NORMAL" /\ todo \in {IdleOnLeft, WakeSetLeft}
      /\ UNCHANGED <<asked, curMode, set, idleUsed>>
  BY IdleEnableLeaves DEF EnableModeset, IdleLifeInv, IdleTailInv
<1>2. Take(q) /\ recent' \in {recent, recent \cup {"refresh"}} /\ pending' = FALSE /\ work' = Unqueued
  BY DEF EnableModeset
<1>3. curMode \in Modes /\ curMode # "lp"
  BY <1>1 DEF IdleLifeInv, IdleLifeTyped, IdleStateInv, PanelActive, Dark
<1>4. P \in Pair /\ set \in Settings /\ recent \in SUBSET Stamps
  BY PType DEF SysTyped
<1>5. asked.on /\ asked.mode = curMode
  BY <1>1, IdleLeftsApart DEF IdleLifeInv, IdleTailInv, Follows
<1>6. no \in BOOLEAN /\ ~no
  OBVIOUS
<1> HIDE DEF no
<1>7. p \in Pair /\ Cached(p) /\ (Vrefresh(curMode) <= set.op => Awake(p, curMode))
  BY <1>3, <1>4, EnableChipKeeps
<1> HIDE DEF p
<1>8. /\ q \in Pair /\ Cached(q)
      /\ Awake(p, curMode) => Awake(q, curMode) /\ (curMode = "m60" => q.drv.auto = 0)
  BY <1>3, <1>4, <1>6, <1>7, SetSelfRefreshKeeps
<1> HIDE DEF q
<1>9. drv' \in Drv /\ registers' \in Regs /\ P' = q /\ drv' = q.drv
  BY <1>2, <1>8, TakeType, TakeFacts
<1>10. SysTyped'
  BY <1>1, <1>2, <1>9 DEF SysTyped, Unqueued, Stamps
<1>11. IdleChipInv'
  BY <1>1, <1>8, <1>9 DEF IdleChipInv
<1>12. IdleRateInv => IdleRateInv'
  BY <1>1, <1>5, <1>7, <1>8, <1>9 DEF IdleRateInv
<1> QED BY <1>1, <1>10, <1>11, <1>12 DEF IdleKeeps, IdleInv

LEMMA PreCommitKeeps == ASSUME IdleLifeInv, SysTyped, IdleChipInv, PreCommit PROVE IdleKeeps
<1>1. PICK hbm \in BOOLEAN :
        /\ curMode = "lp" => hbm = set.hbm
        /\ set' = [set EXCEPT !.hbm = hbm]
        /\ LET p == IF hbm # set.hbm THEN SetHbm(P, curMode, hbm) ELSE P IN
           IF pending THEN UpdateIdleMode(p, selfRefresh, set', recent, FALSE)
           ELSE Take(p) /\ UNCHANGED <<pending, work, recent>>
  BY DEF PreCommit
<1> DEFINE no == FALSE
           p == IF hbm # set.hbm THEN SetHbm(P, curMode, hbm) ELSE P
<1>2. /\ todo \in {PreLeft, PreSetLeft} /\ work # "locked" /\ todo \in IdleLefts
      /\ UNCHANGED <<asked, panelState, curMode, selfRefresh, idleUsed>>
  BY PreLeaves DEF PreCommit, Lock, IdleLifeInv, IdleTailInv
<1>3. ~selfRefresh /\ PanelActive /\ selfRefresh \in BOOLEAN
  BY <1>2, IdleLeftsApart DEF IdleLifeInv, IdleLifeTyped, IdleTailInv
<1>4. curMode \in Modes /\ (panelState \in {"NORMAL", "MODESET"} => curMode # "lp") /\ (panelState = "LP" => curMode = "lp")
  BY DEF IdleLifeInv, IdleLifeTyped, IdleStateInv
<1>5. set' \in Settings /\ set'.op = set.op /\ recent \in SUBSET Stamps
  BY <1>1 DEF SysTyped, Settings
<1>6. /\ p \in Pair /\ (Cached(P) => Cached(p)) /\ (curMode = "lp" => p.chip = registers)
      /\ curMode # "lp" /\ Awake(P, curMode) => Awake(p, curMode) /\ p.drv.auto = drv.auto
  <2>1. CASE hbm = set.hbm
    BY <2>1, PType
  <2>2. CASE hbm # set.hbm
    <3>1. p = SetHbm(P, curMode, hbm)
      BY <2>2
    <3> HIDE DEF p
    <3> QED BY <3>1, <1>4, PType, SetHbmKeeps
  <2> QED BY <2>1, <2>2
<1>7. IF pending THEN UpdateIdleMode(p, selfRefresh, set', recent, no)
      ELSE Take(p) /\ UNCHANGED <<pending, work, recent>>
  BY <1>1
<1>8. no \in BOOLEAN /\ ~no
  OBVIOUS
<1> HIDE DEF p, no
<1>9. /\ drv' \in Drv /\ registers' \in Regs
      /\ recent' \in SUBSET Stamps /\ pending' \in BOOLEAN
      /\ work' \in {"idle", "queued", "started", "locked"}
      /\ Cached(p) => Cached(P')
      /\ curMode = "lp" => registers' = p.chip
      /\ curMode # "lp" /\ Awake(p, curMode) => Awake(P', curMode)
      /\ curMode = "m60" /\ Awake(p, curMode) /\ p.drv.auto = 0 => drv'.auto = 0
  <2>1. CASE pending
    <3>1. UpdateIdleMode(p, selfRefresh, set', recent, no)
      BY <2>1, <1>7
    <3> QED BY <3>1, <1>3, <1>4, <1>5, <1>6, <1>8, UpdateIdleModeKeeps
  <2>2. CASE ~pending
    <3>1. Take(p) /\ UNCHANGED <<pending, work, recent>>
      BY <2>2, <1>7
    <3>2. P' = p /\ drv' = p.drv /\ registers' = p.chip /\ p.drv \in Drv /\ p.chip \in Regs
      BY <3>1, <1>6, TakeType, TakeFacts
    <3> QED BY <3>1, <3>2 DEF SysTyped
  <2> QED BY <2>1, <2>2
<1>10. SysTyped'
  BY <1>2, <1>5, <1>9 DEF SysTyped
<1>11. IdleChipInv'
  BY <1>2, <1>4, <1>6, <1>9 DEF IdleChipInv, AodRegs, ResetRegs
<1>12. IdleRateInv => IdleRateInv'
  BY <1>2, <1>4, <1>5, <1>6, <1>9 DEF IdleRateInv
<1> QED BY <1>2, <1>3, <1>10, <1>11, <1>12 DEF IdleKeeps, IdleInv

LEMMA CommitDoneKeeps == ASSUME IdleLifeInv, SysTyped, IdleChipInv, CommitDone PROVE IdleKeeps
<1> DEFINE p == [P EXCEPT !.drv.panelIdle = 0]
           u == UpdateRefreshMode(p, curMode, 0)
<1>1. /\ todo = DoneLeft /\ work # "locked"
      /\ UNCHANGED <<asked, panelState, curMode, selfRefresh, pending, work, set, idleUsed>>
  BY DoneLeaves DEF CommitDone, Lock, IdleLifeInv, IdleTailInv
<1>2. ~selfRefresh /\ PanelActive
  BY <1>1, IdleLeftsApart DEF IdleLifeInv, IdleTailInv
<1>3. curMode \in Modes /\ (panelState = "NORMAL" => curMode # "lp") /\ (panelState = "LP" => curMode = "lp")
  BY DEF IdleLifeInv, IdleLifeTyped, IdleStateInv
<1>4. CASE curMode = "lp"
  <2>1. UNCHANGED <<recent, drv, registers>>
    BY <1>4 DEF CommitDone
  <2>2. SysTyped' /\ panelState' # "NORMAL" /\ panelState' # "MODESET"
    BY <1>1, <1>2, <1>3, <1>4, <2>1 DEF SysTyped, PanelActive
  <2>3. IdleChipInv'
    BY <1>1, <2>1, <2>2 DEF IdleChipInv, AodRegs, ResetRegs
  <2> QED BY <1>1, <1>2, <2>2, <2>3 DEF IdleKeeps, IdleRateInv, IdleInv
<1>5. CASE curMode # "lp"
  <2>1. PICK q \in {p, u} : Take(q) /\ recent' \in {recent, recent \cup {"modeSet"}}
    <3> HIDE DEF p, u
    <3> QED BY <1>5 DEF CommitDone, p, u
  <2>2. /\ p \in Pair /\ (Cached(P) => Cached(p))
        /\ Awake(P, curMode) /\ (curMode = "m60" => drv.auto = 0) => Awake(p, curMode) /\ p.drv.auto = drv.auto
    <3>1. P \in Pair /\ P.drv = drv /\ P.chip = registers /\ drv \in Drv /\ registers \in Regs
      BY PType DEF SysTyped
    <3>2. p = [drv |-> [drv EXCEPT !.panelIdle = 0], chip |-> registers]
      BY <3>1 DEF Pair, Drv
    <3> HIDE DEF p
    <3>3. /\ p.drv \in Drv /\ p.chip = registers /\ p.drv.feat = drv.feat /\ p.drv.auto = drv.auto
          /\ p.drv.hwFeat = drv.hwFeat /\ p.drv.hwVrefresh = drv.hwVrefresh /\ p.drv.hwIdle = drv.hwIdle
          /\ p.drv.panelIdle = 0
      BY <3>1, <3>2 DEF Drv, Rates
    <3>4. p \in Pair
      BY <3>1, <3>2, <3>3 DEF Pair
    <3> QED BY <3>1, <3>3, <3>4 DEF Cached, Awake
  <2> HIDE DEF p
  <2>3. u \in Pair /\ (Cached(p) => Cached(u)) /\ Awake(u, curMode) /\ u.drv.auto = 0
    <3>1. 0 \in Rates
      BY DEF Rates
    <3> QED BY <3>1, <1>3, <2>2, UpdateRefreshModeKeeps
  <2> HIDE DEF u
  <2>4. /\ q \in Pair /\ (Cached(P) => Cached(q))
        /\ Awake(P, curMode) /\ (curMode = "m60" => drv.auto = 0)
             => Awake(q, curMode) /\ (curMode = "m60" => q.drv.auto = 0)
    BY <2>1, <2>2, <2>3
  <2>5. drv' \in Drv /\ registers' \in Regs /\ P' = q /\ drv' = q.drv
    BY <2>1, <2>4, TakeType, TakeFacts
  <2>6. recent' \in SUBSET Stamps
    BY <2>1 DEF SysTyped, Stamps
  <2>7. SysTyped'
    BY <1>1, <2>5, <2>6 DEF SysTyped
  <2>8. IdleChipInv'
    BY <1>1, <1>2, <1>3, <1>5, <2>4, <2>5 DEF IdleChipInv
  <2>9. IdleRateInv => IdleRateInv'
    BY <1>1, <1>2, <2>4, <2>5 DEF IdleRateInv
  <2> QED BY <1>1, <1>2, <2>7, <2>8, <2>9 DEF IdleKeeps, IdleInv
<1> QED BY <1>4, <1>5

LEMMA WorkAppliesKeeps == ASSUME IdleLifeInv, SysTyped, IdleChipInv, WorkApplies PROVE IdleKeeps
<1> DEFINE q == SetSelfRefresh(P, set, curMode, selfRefresh, recent)
<1>1. /\ work = "locked" /\ work' = "idle" /\ pending' = FALSE /\ Take(q)
      /\ recent' \in {recent, recent \cup {"refresh"}}
      /\ UNCHANGED <<asked, todo, panelState, curMode, selfRefresh, set, idleUsed>>
  BY DEF WorkApplies
<1>2. /\ curMode \in Modes /\ selfRefresh \in BOOLEAN
      /\ (panelState \in {"NORMAL", "MODESET"} => curMode # "lp") /\ (panelState = "LP" => curMode = "lp")
  BY DEF IdleLifeInv, IdleLifeTyped, IdleStateInv
<1>3. P \in Pair /\ P.chip = registers /\ set \in Settings /\ recent \in SUBSET Stamps
  BY PType DEF SysTyped
<1>4. /\ q \in Pair /\ (Cached(P) => Cached(q))
      /\ curMode = "lp" => q.chip = P.chip
      /\ curMode # "lp" /\ Awake(P, curMode) => Awake(q, curMode)
      /\ curMode = "m60" /\ ~selfRefresh /\ Awake(P, curMode) => q.drv.auto = 0
      /\ curMode # "lp" /\ selfRefresh /\ Awake(P, curMode) /\ ~Delayed(set, curMode, recent)
           => q.drv.auto = MinIdle(set, curMode)
  BY <1>2, <1>3, SetSelfRefreshKeeps
<1> HIDE DEF q
<1>5. drv' \in Drv /\ registers' \in Regs /\ P' = q /\ drv' = q.drv /\ registers' = q.chip
  BY <1>1, <1>4, TakeType, TakeFacts
<1>6. SysTyped'
  BY <1>1, <1>5 DEF SysTyped, Stamps
<1>7. IdleChipInv'
  BY <1>1, <1>2, <1>3, <1>4, <1>5 DEF IdleChipInv, AodRegs, ResetRegs
<1>8. IdleRateInv => IdleRateInv'
  BY <1>1, <1>2, <1>4, <1>5 DEF IdleRateInv
<1>9. IdleRateInv /\ IdleInv => IdleInv'
  BY <1>1, <1>2, <1>4, <1>5 DEF IdleRateInv, IdleInv
<1> QED BY <1>6, <1>7, <1>8, <1>9 DEF IdleKeeps

LEMMA StoreTyped ==
  ASSUME SysTyped, Store
  PROVE  /\ work # "locked" /\ UNCHANGED <<asked, todo, panelState, curMode, selfRefresh>>
         /\ idleUsed' \in [commits : 0 .. IdleCommits, stores : 0 .. IdleStores]
BY IdleBoundsAssumption DEF SysTyped, Store, Lock

LEMMA StoreIdleKeeps == ASSUME IdleLifeInv, SysTyped, IdleChipInv, StoreIdle PROVE IdleKeeps
<1> DEFINE yes == TRUE
<1>1. PICK stamps \in SUBSET Stamps :
        /\ UpdateIdleMode(P, selfRefresh, set', stamps, yes)
        /\ set' \in Settings /\ set'.op = set.op
  <2>1. PICK new \in {[set EXCEPT !.idle = ~@], [set EXCEPT !.delay = ~@]}
              \cup {[set EXCEPT !.min = m] : m \in {-1, 10, 60} \ {set.min}} :
       /\ set' = new
       /\ UpdateIdleMode(P, selfRefresh, new,
                         IF new.idle /\ ~set.idle THEN recent \cup {"idleSet"} ELSE recent, TRUE)
    BY DEF StoreIdle
  <2>2. new \in Settings /\ new.op = set.op
    <3>1. CASE new = [set EXCEPT !.idle = ~@]
      BY <3>1 DEF SysTyped, Settings
    <3>2. CASE new = [set EXCEPT !.delay = ~@]
      BY <3>2 DEF SysTyped, Settings
    <3>3. CASE new \in {[set EXCEPT !.min = m] : m \in {-1, 10, 60} \ {set.min}}
      BY <3>3 DEF SysTyped, Settings
    <3> QED BY <2>1, <3>1, <3>2, <3>3
  <2> DEFINE stamps == IF new.idle /\ ~set.idle THEN recent \cup {"idleSet"} ELSE recent
  <2>3. stamps \in SUBSET Stamps
    BY DEF SysTyped, Stamps
  <2> QED BY <2>1, <2>2, <2>3
<1>2. /\ work # "locked" /\ UNCHANGED <<asked, todo, panelState, curMode, selfRefresh>>
      /\ idleUsed' \in [commits : 0 .. IdleCommits, stores : 0 .. IdleStores]
  BY StoreTyped DEF StoreIdle
<1>3. yes \in BOOLEAN
  OBVIOUS
<1>4. /\ curMode \in Modes /\ selfRefresh \in BOOLEAN
      /\ (panelState \in {"NORMAL", "MODESET"} => curMode # "lp") /\ (panelState = "LP" => curMode = "lp")
  BY DEF IdleLifeInv, IdleLifeTyped, IdleStateInv
<1>5. P \in Pair /\ P.drv = drv /\ P.chip = registers
  BY PType
<1> HIDE DEF yes
<1>6. /\ drv' \in Drv /\ registers' \in Regs
      /\ recent' \in SUBSET Stamps /\ pending' \in BOOLEAN
      /\ work' \in {"idle", "queued", "started", "locked"} /\ work' # "locked"
      /\ Cached(P) => Cached(P')
      /\ curMode = "lp" => registers' = registers
      /\ curMode # "lp" /\ Awake(P, curMode) => Awake(P', curMode)
      /\ curMode = "m60" /\ ~selfRefresh /\ Awake(P, curMode) /\ drv.auto = 0 => drv'.auto = 0
      /\ curMode # "lp" /\ selfRefresh /\ PanelActive /\ Awake(P, curMode) /\ work' = "idle"
           => drv'.auto = MinIdle(set', curMode)
  BY <1>1, <1>2, <1>3, <1>4, <1>5, UpdateIdleModeKeeps
<1>7. SysTyped'
  BY <1>1, <1>2, <1>6 DEF SysTyped
<1>8. IdleChipInv'
  BY <1>2, <1>4, <1>6 DEF IdleChipInv, AodRegs, ResetRegs
<1>9. IdleRateInv => IdleRateInv'
  BY <1>1, <1>2, <1>4, <1>6 DEF IdleRateInv
<1>10. IdleRateInv => IdleInv'
  BY <1>1, <1>2, <1>4, <1>6 DEF IdleRateInv, IdleInv, PanelActive
<1> QED BY <1>7, <1>8, <1>9, <1>10 DEF IdleKeeps

LEMMA StoreOpHzKeeps ==
  ASSUME "op_hz_lp" \notin IdleRaces, IdleLifeInv, SysTyped, IdleChipInv, StoreOpHz PROVE IdleKeeps
<1>1. PICK hz \in {60, 120} :
        /\ Vrefresh(curMode) <= hz
        /\ "over_op_hz" \in IdleRaces \/ Vrefresh(asked.mode) <= hz
        /\ set' = [set EXCEPT !.op = hz]
        /\ Take(UpdatePanelFeat([P EXCEPT !.drv.feat = With(@, "OP_NS", hz = 60)], Vrefresh(curMode), FALSE))
  BY DEF StoreOpHz
<1> DEFINE f == With(drv.feat, "OP_NS", hz = 60)
           p == [P EXCEPT !.drv.feat = With(@, "OP_NS", hz = 60)]
           q == UpdatePanelFeat(p, Vrefresh(curMode), No)
<1>2. /\ UNCHANGED <<asked, todo, panelState, curMode, selfRefresh, pending, work, recent>>
      /\ idleUsed' \in [commits : 0 .. IdleCommits, stores : 0 .. IdleStores]
  BY StoreTyped DEF StoreOpHz
<1>3. panelState = "NORMAL" /\ curMode \in Modes /\ curMode # "lp"
  BY DEF StoreOpHz, IdleLifeInv, IdleLifeTyped, IdleStateInv, PanelActive
<1>4. Take(q)
  BY <1>1 DEF No
<1>5. P \in Pair /\ P.drv = drv /\ P.chip = registers /\ drv \in Drv /\ registers \in Regs
  BY PType DEF SysTyped
<1>6. f \in SUBSET Features /\ ("FRAME_AUTO" \in f <=> "FRAME_AUTO" \in drv.feat)
  BY <1>5 DEF With, Features, Drv
<1>7. p = [drv |-> [drv EXCEPT !.feat = f], chip |-> registers]
  BY <1>5 DEF Pair, Drv
<1> HIDE DEF p, f
<1>8. /\ p.drv \in Drv /\ p.chip = registers /\ p.drv.feat = f /\ p.drv.auto = drv.auto
      /\ p.drv.hwFeat = drv.hwFeat /\ p.drv.hwVrefresh = drv.hwVrefresh /\ p.drv.hwIdle = drv.hwIdle
      /\ p.drv.panelIdle = drv.panelIdle
  BY <1>5, <1>6, <1>7 DEF Drv
<1>9. p \in Pair /\ (Cached(P) => Cached(p))
  BY <1>5, <1>7, <1>8 DEF Pair, Cached
<1>10. Vrefresh(curMode) \in {30, 60, 120}
  BY <1>3, VrefreshType
<1>11. q \in Pair /\ Sends(q, p, p.drv.feat, Vrefresh(curMode), p.drv.auto) /\ (Cached(p) => Cached(q))
  BY <1>9, <1>10, UpdatePanelFeatKeeps
<1>12. Awake(P, curMode) => Awake(q, curMode) /\ q.drv.auto = drv.auto
  BY <1>5, <1>6, <1>8, <1>11 DEF Awake, Sends
<1> HIDE DEF q
<1>13. drv' \in Drv /\ registers' \in Regs /\ P' = q /\ drv' = q.drv
  BY <1>4, <1>11, TakeType, TakeFacts
<1>14. set' \in Settings /\ set'.op = hz /\ MinIdle(set', curMode) = MinIdle(set, curMode)
       /\ Delayed(set', curMode, recent) = Delayed(set, curMode, recent)
  BY <1>1 DEF SysTyped, Settings, MinIdle, Delayed
<1>15. SysTyped'
  BY <1>2, <1>13, <1>14 DEF SysTyped
<1>16. IdleChipInv'
  BY <1>2, <1>3, <1>9, <1>11, <1>13 DEF IdleChipInv
<1>17. "over_op_hz" \notin IdleRaces /\ IdleRateInv => IdleRateInv'
  BY <1>1, <1>2, <1>12, <1>13, <1>14 DEF IdleRateInv
<1>18. IdleRateInv /\ IdleInv => IdleInv'
  BY <1>2, <1>12, <1>13, <1>14 DEF IdleRateInv, IdleInv
<1> QED BY <1>15, <1>16, <1>17, <1>18 DEF IdleKeeps

LEMMA StoreHbmKeeps == ASSUME IdleLifeInv, SysTyped, IdleChipInv, StoreHbm PROVE IdleKeeps
<1> DEFINE on == ~set.hbm
           q == SetHbm(P, curMode, on)
<1>1. /\ set' = [set EXCEPT !.hbm = ~@] /\ Take(q) /\ PanelActive /\ curMode # "lp"
      /\ "hbm_auto" \in IdleRaces \/ ~selfRefresh
  BY DEF StoreHbm
<1>2. /\ UNCHANGED <<asked, todo, panelState, curMode, selfRefresh, pending, work, recent>> /\ work # "locked"
      /\ idleUsed' \in [commits : 0 .. IdleCommits, stores : 0 .. IdleStores]
  BY StoreTyped DEF StoreHbm
<1>3. panelState = "NORMAL" /\ curMode \in Modes
  BY <1>1 DEF IdleLifeInv, IdleLifeTyped, IdleStateInv, PanelActive
<1> HIDE DEF on
<1>4. /\ q \in Pair /\ (Cached(P) => Cached(q))
      /\ Awake(P, curMode) => Awake(q, curMode) /\ q.drv.auto = P.drv.auto
  BY <1>1, <1>3, PType, SetHbmKeeps
<1> HIDE DEF q
<1>5. drv' \in Drv /\ registers' \in Regs /\ P' = q /\ drv' = q.drv /\ P.drv = drv
  BY <1>1, <1>4, TakeType, TakeFacts, PType
<1>6. set' \in Settings /\ set'.op = set.op
  BY <1>1 DEF SysTyped, Settings
<1>7. SysTyped'
  BY <1>2, <1>5, <1>6 DEF SysTyped
<1>8. IdleChipInv'
  BY <1>2, <1>3, <1>4, <1>5 DEF IdleChipInv
<1>9. IdleRateInv => IdleRateInv'
  BY <1>2, <1>4, <1>5, <1>6 DEF IdleRateInv
<1>10. "hbm_auto" \notin IdleRaces => IdleInv'
  BY <1>1, <1>2 DEF IdleInv
<1> QED BY <1>7, <1>8, <1>9, <1>10 DEF IdleKeeps

-----------------------------------------------------------------------------
(* The theorems *)

LEMMA IdleInvInit == IdleInit => IdleLifeInv /\ SysTyped /\ IdleChipInv /\ IdleRateInv /\ IdleInv
<1> SUFFICES ASSUME IdleInit PROVE IdleLifeInv /\ SysTyped /\ IdleChipInv /\ IdleRateInv /\ IdleInv
  OBVIOUS
<1>1. ~asked.on /\ panelState = "OFF" /\ ~selfRefresh /\ todo = <<>> /\ work = "idle"
  BY DEF IdleInit
<1>2. IdleLifeTyped
  BY DEF IdleInit, IdleLifeTyped, Modes
<1>3. IdleTailInv
  BY <1>1, IdleLeftsApart DEF IdleTailInv, IdleLefts, Dark
<1>4. IdleStateInv
  BY <1>1 DEF IdleStateInv
<1>5. drv \in Drv
  BY DEF IdleInit, Drv, Rates
<1>6. registers \in Regs
  BY DEF IdleInit, ResetRegs, Regs
<1>7. set \in Settings
  BY DEF IdleInit, Settings
<1>8. idleUsed \in [commits : 0 .. IdleCommits, stores : 0 .. IdleStores]
  BY IdleBoundsAssumption DEF IdleInit
<1>9. pending \in BOOLEAN /\ work \in {"idle", "queued", "started", "locked"} /\ recent \in SUBSET Stamps
  BY DEF IdleInit
<1>10. SysTyped
  BY <1>5, <1>6, <1>7, <1>8, <1>9 DEF SysTyped
<1> QED BY <1>1, <1>2, <1>3, <1>4, <1>10 DEF IdleLifeInv, IdleChipInv, IdleRateInv, IdleInv

LEMMA IdleLifeNext == ASSUME IdleLifeInv, [IdleNext]_idleVars PROVE IdleLifeInv'
<1>1. CASE IdleFrame \/ Rest \/ IdleSwitchOff \/ IdleSwitchOn
  BY <1>1, IdleFrameLife, RestLife, IdleSwitchOffLife, IdleSwitchOnLife
<1>2. CASE EnterSelfRefresh \/ IdleDisable \/ DisableRest \/ DisableForModeset \/ IdleSameMode \/ ModeSet
  BY <1>2, EnterSelfRefreshLife, IdleDisableLife, DisableRestLife, DisableForModesetLife,
     IdleSameModeLife, ModeSetLife
<1>3. CASE EnableOn \/ LeaveSelfRefresh \/ EnableModeset \/ PreCommit \/ CommitDone
  BY <1>3, EnableOnLife, LeaveSelfRefreshLife, EnableModesetLife, PreCommitLife, CommitDoneLife
<1>4. CASE IdleExpire \/ WorkTests \/ WorkApplies \/ Age \/ StoreIdle \/ StoreOpHz \/ StoreHbm \/ UNCHANGED idleVars
  <2>1. UNCHANGED <<asked, todo, panelState, curMode, selfRefresh>>
    BY <1>4 DEF IdleExpire, WorkTests, WorkApplies, Age, StoreIdle, StoreOpHz, StoreHbm, Store,
       idleVars
  <2> QED BY <2>1, IdleLifeStays
<1> QED BY <1>1, <1>2, <1>3, <1>4 DEF IdleNext

LEMMA IdleKeepsNext ==
  ASSUME "op_hz_lp" \notin IdleRaces, IdleLifeInv, SysTyped, IdleChipInv, [IdleNext]_idleVars PROVE IdleKeeps
<1>1. CASE IdleFrame \/ Rest \/ IdleSwitchOff \/ IdleSwitchOn
  BY <1>1, IdleFrameKeeps, RestKeeps, IdleSwitchOffKeeps, IdleSwitchOnKeeps
<1>2. CASE EnterSelfRefresh \/ IdleDisable \/ DisableRest \/ DisableForModeset \/ ModeSet
  BY <1>2, EnterSelfRefreshKeeps, IdleDisableKeeps, DisableRestKeeps, DisableForModesetKeeps,
     ModeSetKeeps
<1>3. CASE EnableOn \/ LeaveSelfRefresh \/ EnableModeset \/ PreCommit \/ CommitDone
  BY <1>3, EnableOnKeeps, LeaveSelfRefreshKeeps, EnableModesetKeeps, PreCommitKeeps, CommitDoneKeeps
<1>4. CASE IdleSameMode \/ IdleExpire \/ WorkTests \/ WorkApplies \/ Age
  BY <1>4, TimeKeeps, WorkAppliesKeeps
<1>5. CASE StoreIdle \/ StoreOpHz \/ StoreHbm
  BY <1>5, StoreIdleKeeps, StoreOpHzKeeps, StoreHbmKeeps
<1>6. CASE UNCHANGED idleVars
  <2>1. /\ UNCHANGED <<asked, panelState, curMode, selfRefresh, set, drv, registers, pending, idleUsed, work, recent>>
    BY <1>6 DEF idleVars
  <2>2. /\ recent' \in SUBSET recent /\ work' \in {"idle", "queued", "started", "locked"}
        /\ idleUsed' \in [commits : 0 .. IdleCommits, stores : 0 .. IdleStores]
    BY <2>1 DEF SysTyped
  <2>3. IdleRateInv => (asked'.on => Vrefresh(asked'.mode) <= set.op)
    BY <2>1 DEF IdleRateInv
  <2> QED BY <2>1, <2>2, <2>3, QuietKeeps
<1> QED BY <1>1, <1>2, <1>3, <1>4, <1>5, <1>6 DEF IdleNext

LEMMA AutoReg ==
  ASSUME NEW p, Cached(p) PROVE p.chip.auto <=> "FRAME_AUTO" \in p.drv.hwFeat
<1> DEFINE auto == "FRAME_AUTO" \in p.drv.hwFeat
<1>1. RegsOf(p.drv.hwFeat, p.drv.hwVrefresh, p.drv.hwIdle).auto <=> auto
  BY DEF RegsOf
<1> QED BY <1>1 DEF Cached

(* The commands the cache made the driver skip were not needed, whatever the *)
(* order of modes, low power, blanking, resets and writes, and whenever the  *)
(* idle work ran; op_hz is not set in low power.                             *)
THEOREM ChipCorrect == "op_hz_lp" \notin IdleRaces /\ IdleSpec => []ChipSound
<1>1. CASE "op_hz_lp" \in IdleRaces
  BY <1>1
<1>2. CASE "op_hz_lp" \notin IdleRaces
  <2>1. IdleInit => IdleLifeInv /\ SysTyped /\ IdleChipInv
    BY IdleInvInit
  <2>2. IdleLifeInv /\ SysTyped /\ IdleChipInv /\ [IdleNext]_idleVars => (IdleLifeInv /\ SysTyped /\ IdleChipInv)'
    BY <1>2, IdleLifeNext, IdleKeepsNext DEF IdleKeeps
  <2>3. IdleLifeInv /\ SysTyped /\ IdleChipInv => ChipSound
    <3> SUFFICES ASSUME IdleLifeInv, SysTyped, IdleChipInv PROVE ChipSound
      OBVIOUS
    <3> QED BY TypeOKParts DEF IdleChipInv, ChipSound, ChipMatchesCache, AodKept, Cached, P
  <2> QED BY <2>1, <2>2, <2>3, PTL DEF IdleSpec
<1> QED BY <1>1, <1>2

(* Without modes above op_hz the panel also refreshes at the rate of the     *)
(* mode DRM asked for, and is not left automatic while awake at 60 Hz.       *)
THEOREM RateCorrect == IdleRaces \cap {"op_hz_lp", "over_op_hz"} = {} /\ IdleSpec => []RateFollowsMode
<1>1. CASE IdleRaces \cap {"op_hz_lp", "over_op_hz"} # {}
  BY <1>1
<1>2. CASE IdleRaces \cap {"op_hz_lp", "over_op_hz"} = {}
  <2>1. IdleInit => IdleLifeInv /\ SysTyped /\ IdleChipInv /\ IdleRateInv
    BY IdleInvInit
  <2>2. IdleLifeInv /\ SysTyped /\ IdleChipInv /\ IdleRateInv /\ [IdleNext]_idleVars
          => (IdleLifeInv /\ SysTyped /\ IdleChipInv /\ IdleRateInv)'
    BY <1>2, IdleLifeNext, IdleKeepsNext DEF IdleKeeps
  <2>3. IdleLifeInv /\ SysTyped /\ IdleChipInv /\ IdleRateInv => RateFollowsMode
    <3> SUFFICES ASSUME IdleLifeInv, SysTyped, IdleChipInv, IdleRateInv, TailDone, panelState = "NORMAL"
                 PROVE  /\ curMode = asked.mode /\ drv.hwVrefresh = Vrefresh(curMode)
                        /\ curMode = "m60" /\ ~selfRefresh => ~registers.auto
      BY DEF RateFollowsMode
    <3>1. Awake(P, curMode) /\ P.drv = drv /\ P.chip = registers /\ Cached(P)
      BY PType DEF IdleRateInv, IdleChipInv
    <3>2. curMode = asked.mode
      BY DEF TailDone, IdleLifeInv, IdleTailInv, Follows, Dark
    <3>3. ASSUME curMode = "m60", ~selfRefresh PROVE ~registers.auto
      <4>1. drv.auto = 0
        BY <3>3 DEF IdleRateInv
      <4>2. "FRAME_AUTO" \notin drv.hwFeat
        BY <3>1, <4>1 DEF Awake
      <4> QED BY <3>1, <4>2, AutoReg
    <3> QED BY <3>1, <3>2, <3>3 DEF Awake
  <2> QED BY <2>1, <2>2, <2>3, PTL DEF IdleSpec
<1> QED BY <1>1, <1>2

(* If sysfs does not switch HBM of a panel in self refresh either, no change *)
(* of a setting is lost: the idle rate reported is the rate of the panel,    *)
(* and at rest it is the one the settings ask for.                           *)
THEOREM IdleCorrect == IdleRaces = {} /\ IdleSpec => []IdleSound
<1>1. CASE IdleRaces # {}
  BY <1>1
<1>2. CASE IdleRaces = {}
  <2>1. IdleInit => IdleLifeInv /\ SysTyped /\ IdleChipInv /\ IdleRateInv /\ IdleInv
    BY IdleInvInit
  <2>2. IdleLifeInv /\ SysTyped /\ IdleChipInv /\ IdleRateInv /\ IdleInv /\ [IdleNext]_idleVars
          => (IdleLifeInv /\ SysTyped /\ IdleChipInv /\ IdleRateInv /\ IdleInv)'
    BY <1>2, IdleLifeNext, IdleKeepsNext DEF IdleKeeps
  <2>3. IdleLifeInv /\ SysTyped /\ IdleChipInv /\ IdleRateInv /\ IdleInv => IdleSound
    <3> SUFFICES ASSUME IdleLifeInv, SysTyped, IdleChipInv, IdleRateInv, IdleInv PROVE IdleSound
      OBVIOUS
    <3>1. IdleApplied
      BY DEF IdleInv, IdleApplied
    <3>2. ASSUME panelState = "NORMAL", drv.panelIdle # 0 PROVE registers.auto /\ drv.hwIdle = drv.panelIdle
      <4>1. Awake(P, curMode) /\ P.drv = drv /\ P.chip = registers /\ Cached(P)
        BY <3>2, PType DEF IdleRateInv, IdleChipInv
      <4>2. drv.panelIdle = drv.auto /\ drv.hwIdle = drv.auto /\ "FRAME_AUTO" \in drv.hwFeat
        BY <3>2, <4>1 DEF Awake
      <4> QED BY <4>1, <4>2, AutoReg
    <3> QED BY <3>1, <3>2 DEF IdleSound, IdleReported
  <2> QED BY <2>1, <2>2, <2>3, PTL DEF IdleSpec
<1> QED BY <1>1, <1>2

=============================================================================
