-------------------------------- MODULE Tui --------------------------------
(* Handing the display to the trusted UI and taking it back                  *)
(* (exynos_atomic_enter_tui and exynos_atomic_exit_tui, exynos_drm_drv.c).   *)
(*                                                                           *)
(* Entering keeps hibernation out, takes dp_tui_lock from DisplayPort and    *)
(* all modeset locks, remembers the state of every CRTC, takes a power       *)
(* reference for each active one and commits all of them off: a CRTC whose   *)
(* connector knows self refresh goes to bypass, which looks like self        *)
(* refresh but keeps the power.  Leaving commits the remembered state.       *)
(* Ordinary commits, hibernation and DisplayPort run beside it; a commit     *)
(* under the modeset locks is one step (its tail is module Hibernation's).   *)
EXTENDS Integers, FiniteSets

CONSTANTS
  Crtcs,       \* CRTCs of the device
  Aware,       \* those whose connector is self_refresh_aware
  Threads,     \* callers of the ioctls of exynos_drm_tui.c
  MaxCommits,  \* ordinary commits, wake-ups and hibernations
  MaxCalls,    \* ioctl calls
  Races        \* which of RaceNames may happen

RaceNames ==
  {"exit_twice",  \* two callers leave at once
   "exit_fails",  \* the commit of the remembered state fails
   "wake_fails"}  \* the commit that ends hibernation fails

None == "none"

ASSUME TuiCrtcsAssumption == Aware \subseteq Crtcs /\ IsFiniteSet(Crtcs)
ASSUME TuiThreadsAssumption == IsFiniteSet(Threads) /\ None \notin Threads
ASSUME TuiBoundsAssumption == MaxCommits \in Nat /\ MaxCalls \in Nat
ASSUME TuiRacesAssumption == Races \subseteq RaceNames

CrtcState == [enable : BOOLEAN, active : BOOLEAN, sr : BOOLEAN, bypass : BOOLEAN]

(* A duplicated state of the whole device, or none. *)
Remembered == {<<>>} \cup {<<s>> : s \in [Crtcs -> CrtcState]}

VARIABLES
  crtc,     \* crtc->state
  decon,    \* decon->state
  pm,       \* usage count of the DECON's power domain
  block,    \* hibernation's block_cnt
  tui,      \* private->tui_enabled
  dpTui,    \* who holds dp_tui_lock
  locked,   \* who holds the modeset locks; None if nobody
  saved,    \* mode_config->suspend_state: a sequence of length 0 or 1
  pc,       \* where each caller is
  todo,     \* CRTCs a caller's loop has still to visit
  taken,    \* tui_crtc_mask
  failed,   \* ret is an error
  mine,     \* the state exynos_atomic_exit_tui read
  used      \* commits and calls so far

display == <<crtc, decon, pm>>
callers == <<pc, todo, taken, failed, mine>>
vars    == <<display, block, tui, dpTui, locked, saved, callers, used>>

Nobody == locked = None

TypeOK ==
  /\ crtc \in [Crtcs -> CrtcState]
  /\ decon \in [Crtcs -> {"ON", "HIBERNATION", "OFF"}]
  /\ pm \in [Crtcs -> Nat] /\ block \in [Crtcs -> 0 .. Cardinality(Threads)]
  /\ tui \in BOOLEAN /\ dpTui \in {"free", "dp", "tui"} /\ locked \in Threads \cup {None}
  /\ saved \in Remembered /\ mine \in [Threads -> Remembered]
  /\ pc \in [Threads -> {"idle", "block", "lock", "build", "commit", "unblock",
                         "exit", "exitCommit", "exitEnd"}]
  /\ todo \in [Threads -> SUBSET Crtcs] /\ taken \in [Threads -> SUBSET Crtcs]
  /\ failed \in [Threads -> BOOLEAN]
  /\ used \in [commits : 0 .. MaxCommits, calls : 0 .. MaxCalls]

Init ==
  /\ crtc = [c \in Crtcs |-> [enable |-> TRUE, active |-> TRUE, sr |-> FALSE, bypass |-> FALSE]]
  /\ decon = [c \in Crtcs |-> "ON"] /\ pm = [c \in Crtcs |-> 1]
  /\ block = [c \in Crtcs |-> 0]
  /\ tui = FALSE /\ dpTui = "free" /\ locked = None /\ saved = <<>>
  /\ pc = [t \in Threads |-> "idle"] /\ todo = [t \in Threads |-> {}]
  /\ taken = [t \in Threads |-> {}] /\ failed = [t \in Threads |-> FALSE]
  /\ mine = [t \in Threads |-> <<>>]
  /\ used = [commits |-> 0, calls |-> 0]

(* drm_atomic_get_crtc_state: a new update ends self refresh; bypass stays. *)
Duplicated(c) ==
  [crtc[c] EXCEPT !.active = crtc[c].active \/ crtc[c].sr, !.sr = FALSE]

(* Mutant: tui_enabled is not tested. *)
AcceptedInTui(new) == \A c \in Crtcs : new[c].bypass => new[c].sr

(* exynos_atomic_check and decon_atomic_check. *)
Accepted(new) ==
  /\ ~tui
  /\ \A c \in Crtcs : new[c].bypass => new[c].sr

(* exynos_crtc_needs_disable, with exynos_drm_crtc_atomic_disable's test that *)
(* the DECON is not already in that state.                                    *)
Disables(c, n) ==
  /\ (crtc[c].active /\ ~n.active) \/ (crtc[c].sr /\ ~n.enable)
  /\ decon[c] # IF n.sr THEN "HIBERNATION" ELSE "OFF"

(* decon_disable and decon_enable: an active DECON holds one reference, and  *)
(* bypass one from the commit that begins it to the one that ends it.        *)
DeconAfter(c, n) ==
  IF Disables(c, n) THEN IF n.sr THEN "HIBERNATION" ELSE "OFF"
  ELSE IF n.active THEN "ON" ELSE decon[c]

One(b) == IF b THEN 1 ELSE 0

PowerAfter(c, n) ==
  LET next == DeconAfter(c, n)
      enables == decon[c] # "ON" /\ next = "ON" IN
  One(Disables(c, n) /\ n.bypass) - One(decon[c] = "ON" /\ next # "ON")
  + One(enables) - One(enables /\ crtc[c].bypass)

(* A commit of new, with the references that its caller puts. *)
Commit(new, puts) ==
  /\ crtc' = new
  /\ decon' = [c \in Crtcs |-> DeconAfter(c, new[c])]
  /\ pm' = [c \in Crtcs |-> pm[c] + PowerAfter(c, new[c]) - puts[c]]

OneChanged(c, n) == [crtc EXCEPT ![c] = n]
NoPuts == [c \in Crtcs |-> 0]

-----------------------------------------------------------------------------
(* What runs beside the trusted UI.                                          *)
Beside ==
  /\ Nobody /\ used.commits < MaxCommits
  /\ used' = [used EXCEPT !.commits = @ + 1]
  /\ UNCHANGED <<block, tui, dpTui, locked, saved, callers>>

(* User space switches a CRTC on or off, or only shows a frame. *)
UserCommit(c, on) ==
  LET new == OneChanged(c, [Duplicated(c) EXCEPT !.enable = on, !.active = on]) IN
  /\ Beside /\ Accepted(new) /\ (on \/ crtc[c].enable)
  /\ Commit(new, NoPuts)

(* exynos_hibernation_enter on an idle CRTC. *)
Hibernate(c) ==
  LET new == OneChanged(c, [Duplicated(c) EXCEPT !.active = FALSE, !.sr = TRUE]) IN
  /\ Beside /\ c \in Aware /\ block[c] = 0 /\ crtc[c].active /\ Accepted(new)
  /\ Commit(new, NoPuts)

Woken(c) == OneChanged(c, [Duplicated(c) EXCEPT !.active = TRUE, !.sr = FALSE])
Wakes(c) == decon[c] = "HIBERNATION" /\ crtc[c].enable /\ Accepted(Woken(c))

(* hibernation_block_exit from elsewhere, an early wake-up say. *)
Wake(c) == Beside /\ Wakes(c) /\ Commit(Woken(c), NoPuts)

(* DisplayPort holds dp_tui_lock from plug to unplug. *)
Dp(from, to) ==
  /\ dpTui = from /\ dpTui' = to
  /\ UNCHANGED <<display, block, tui, locked, saved, callers, used>>

DpPlug   == Dp("free", "dp")
DpUnplug == Dp("dp", "free")

-----------------------------------------------------------------------------
(* exynos_atomic_enter_tui                                                   *)
Step(t, from, to) == pc[t] = from /\ pc' = [pc EXCEPT ![t] = to]

(* Refused while the trusted UI or DisplayPort has the lock. *)
Enter(t) ==
  /\ Step(t, "idle", "block") /\ used.calls < MaxCalls
  /\ ~tui /\ dpTui = "free"
  /\ dpTui' = "tui"
  /\ todo' = [todo EXCEPT ![t] = Crtcs]
  /\ taken' = [taken EXCEPT ![t] = {}] /\ failed' = [failed EXCEPT ![t] = FALSE]
  /\ used' = [used EXCEPT !.calls = @ + 1]
  /\ UNCHANGED <<display, block, tui, locked, saved, mine>>

(* hibernation_block_exit of the next CRTC: its commit needs the locks. *)
BlockExit(t, c) ==
  /\ pc[t] = "block" /\ c \in todo[t]
  /\ block' = [block EXCEPT ![c] = @ + 1]
  /\ \/ /\ Wakes(c) /\ Nobody
        /\ Commit(Woken(c), NoPuts)
     \/ /\ ~Wakes(c) \/ "wake_fails" \in Races
        /\ UNCHANGED display
  /\ todo' = [todo EXCEPT ![t] = @ \ {c}]
  /\ pc' = IF todo'[t] = {} THEN [pc EXCEPT ![t] = "lock"] ELSE pc
  /\ UNCHANGED <<tui, dpTui, locked, saved, taken, failed, mine, used>>

LockAll(t) ==
  /\ Step(t, "lock", "build") /\ Nobody
  /\ locked' = t
  /\ UNCHANGED <<display, block, tui, dpTui, saved, todo, taken, failed, mine, used>>

ActiveCrtcs == {c \in Crtcs : Duplicated(c).enable /\ Duplicated(c).active}

(* Mutant: suspend_state survives a failure. *)
GiveUpKeepsState(t) ==
  /\ failed' = [failed EXCEPT ![t] = TRUE]
  /\ dpTui' = "free" /\ locked' = None
  /\ pc' = [pc EXCEPT ![t] = "unblock"] /\ todo' = [todo EXCEPT ![t] = Crtcs]
  /\ UNCHANGED <<block, tui, saved, mine, used>>

(* err: drop the remembered state and the locks. *)
GiveUp(t) ==
  /\ failed' = [failed EXCEPT ![t] = TRUE]
  /\ saved' = <<>> /\ dpTui' = "free" /\ locked' = None
  /\ pc' = [pc EXCEPT ![t] = "unblock"] /\ todo' = [todo EXCEPT ![t] = Crtcs]
  /\ UNCHANGED <<block, tui, mine, used>>

Referenced(t, crtcs) ==
  /\ taken' = [taken EXCEPT ![t] = crtcs]
  /\ pm' = [c \in Crtcs |-> pm[c] + One(c \in crtcs)]
  /\ UNCHANGED <<crtc, decon>>

(* Remember every CRTC and take a reference for each active one... *)
Build(t) ==
  /\ Step(t, "build", "commit") /\ ActiveCrtcs # {}
  /\ saved' = <<[c \in Crtcs |-> Duplicated(c)]>>
  /\ Referenced(t, ActiveCrtcs)
  /\ UNCHANGED <<block, tui, dpTui, locked, todo, failed, mine, used>>

(* ...unless none is, or memory runs out after some of them. *)
BuildFails(t) ==
  /\ pc[t] = "build"
  /\ \E crtcs \in SUBSET ActiveCrtcs : Referenced(t, crtcs)
  /\ GiveUp(t)

Bypassed(t) ==
  [c \in Crtcs |->
     IF c \in taken[t]
     THEN [Duplicated(c) EXCEPT !.active = FALSE, !.sr = (c \in Aware), !.bypass = (c \in Aware)]
     ELSE Duplicated(c)]

CommitOff(t) ==
  /\ Step(t, "commit", "unblock") /\ Accepted(Bypassed(t))
  /\ Commit(Bypassed(t), NoPuts)
  /\ tui' = TRUE /\ locked' = None
  /\ todo' = [todo EXCEPT ![t] = Crtcs]
  /\ UNCHANGED <<block, dpTui, saved, taken, failed, mine, used>>

CommitOffFails(t) ==
  /\ pc[t] = "commit" /\ GiveUp(t)
  /\ UNCHANGED <<display, taken>>

(* Mutant: a failure leaks the references. *)
UnblockLeaks(t, c) ==
  /\ pc[t] = "unblock" /\ c \in todo[t]
  /\ block' = [block EXCEPT ![c] = @ - 1]
  /\ todo' = [todo EXCEPT ![t] = @ \ {c}]
  /\ pc' = IF todo'[t] = {} THEN [pc EXCEPT ![t] = "idle"] ELSE pc
  /\ UNCHANGED <<display, tui, dpTui, locked, saved, taken, failed, mine, used>>

(* Mutant: the reference is put for every CRTC after a failure. *)
UnblockPutsAll(t, c) ==
  /\ pc[t] = "unblock" /\ c \in todo[t]
  /\ block' = [block EXCEPT ![c] = @ - 1]
  /\ pm' = [pm EXCEPT ![c] = @ - One(failed[t])]
  /\ todo' = [todo EXCEPT ![t] = @ \ {c}]
  /\ pc' = IF todo'[t] = {} THEN [pc EXCEPT ![t] = "idle"] ELSE pc
  /\ UNCHANGED <<crtc, decon, tui, dpTui, locked, saved, taken, failed, mine, used>>

(* Let hibernation in again; after a failure put the references. *)
Unblock(t, c) ==
  /\ pc[t] = "unblock" /\ c \in todo[t]
  /\ block' = [block EXCEPT ![c] = @ - 1]
  /\ pm' = [pm EXCEPT ![c] = @ - One(failed[t] /\ c \in taken[t])]
  /\ todo' = [todo EXCEPT ![t] = @ \ {c}]
  /\ pc' = IF todo'[t] = {} THEN [pc EXCEPT ![t] = "idle"] ELSE pc
  /\ UNCHANGED <<crtc, decon, tui, dpTui, locked, saved, taken, failed, mine, used>>

-----------------------------------------------------------------------------
(* exynos_atomic_exit_tui                                                    *)
Leaving == {t \in Threads : pc[t] \in {"exit", "exitCommit", "exitEnd"}}

(* tui_enabled and suspend_state are read before the locks are taken. *)
Exit(t) ==
  /\ Step(t, "idle", "exit") /\ used.calls < MaxCalls
  /\ tui /\ saved # <<>>
  /\ Leaving = {} \/ "exit_twice" \in Races
  /\ mine' = [mine EXCEPT ![t] = saved]
  /\ used' = [used EXCEPT !.calls = @ + 1]
  /\ UNCHANGED <<display, block, tui, dpTui, locked, saved, todo, taken, failed>>

ExitLocks(t) ==
  /\ Step(t, "exit", "exitCommit") /\ Nobody
  /\ locked' = t /\ tui' = FALSE
  /\ UNCHANGED <<display, block, dpTui, saved, todo, taken, failed, mine, used>>

Puts(t) == [c \in Crtcs |-> One(mine[t][1][c].active)]

CommitAndPut(t, new) == Commit(new, Puts(t)) /\ saved' = <<>>

(* The remembered state stays, the references are put all the same. *)
PutOnly(t) ==
  /\ pm' = [c \in Crtcs |-> pm[c] - Puts(t)[c]]
  /\ UNCHANGED <<crtc, decon, saved>>

Restore(t) ==
  \/ Accepted(mine[t][1]) /\ CommitAndPut(t, mine[t][1])
  \/ (~Accepted(mine[t][1]) \/ "exit_fails" \in Races) /\ PutOnly(t)

ExitCommits(t) ==
  /\ Step(t, "exitCommit", "exitEnd")
  /\ Restore(t)
  /\ locked' = None
  /\ UNCHANGED <<block, tui, dpTui, todo, taken, failed, mine, used>>

ExitEnds(t) ==
  /\ Step(t, "exitEnd", "idle")
  /\ dpTui' = "free" /\ mine' = [mine EXCEPT ![t] = <<>>]
  /\ UNCHANGED <<display, block, tui, locked, saved, todo, taken, failed, used>>

-----------------------------------------------------------------------------
Entering(t) ==
  \/ Enter(t) \/ LockAll(t) \/ Build(t) \/ BuildFails(t) \/ CommitOff(t) \/ CommitOffFails(t)
  \/ \E c \in Crtcs : BlockExit(t, c) \/ Unblock(t, c)

Exiting(t) == Exit(t) \/ ExitLocks(t) \/ ExitCommits(t) \/ ExitEnds(t)

Others ==
  \/ \E c \in Crtcs : Hibernate(c) \/ Wake(c) \/ \E on \in BOOLEAN : UserCommit(c, on)
  \/ DpPlug \/ DpUnplug

Next == Others \/ \E t \in Threads : Entering(t) \/ Exiting(t)

Spec == Init /\ [][Next]_vars

-----------------------------------------------------------------------------
Idle == \A t \in Threads : pc[t] = "idle"

(* The power of a DECON: a running one has a reference, the trusted UI has   *)
(* one of its own on every display it took, and when no call is under way    *)
(* nothing else has, so none is leaked or put twice (the pm_runtime calls of *)
(* enter and exit, exynos_drm_drv.c 836, 917 and 962, against those of       *)
(* decon_disable and decon_enable).                                          *)
PowerSound ==
  /\ TypeOK
  /\ \A c \in Crtcs :
       LET owned == tui /\ saved[1][c].active IN
       /\ pm[c] >= One(decon[c] = "ON") + One(owned)
       /\ Idle => pm[c] = One(decon[c] = "ON") + One(owned) + One(crtc[c].bypass)

(* While the trusted UI has the display, no DECON runs, DisplayPort is kept  *)
(* out and the way back is known, whoever commits, wakes up or plugs in.     *)
TuiOwnsDisplay ==
  tui => /\ \A c \in Crtcs : decon[c] # "ON"
         /\ dpTui = "tui" /\ saved # <<>>

(* When it has not, and no call is under way, nothing is left of it that     *)
(* would refuse a commit (a CRTC in bypass), keep hibernation or DisplayPort *)
(* out, or light up an old state; and DECON does what its CRTC says.         *)
DisplayReturned ==
  (~tui /\ Idle) =>
    /\ saved = <<>> /\ dpTui # "tui"
    /\ \A c \in Crtcs :
         /\ ~crtc[c].bypass /\ block[c] = 0
         /\ decon[c] = IF crtc[c].active THEN "ON" ELSE IF crtc[c].sr THEN "HIBERNATION" ELSE "OFF"

=============================================================================
