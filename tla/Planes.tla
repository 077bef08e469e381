------------------------------- MODULE Planes -------------------------------
(* From the planes of a committed state to windows and DPPs: what the commit *)
(* tail makes of dpp->state, decon_id, win_id and is_win_connected, of the   *)
(* window registers of each DECON, and of the protection of secure buffers   *)
(* (exynos_drm_decon.c, exynos_drm_dpp.c, exynos_drm_plane.c).               *)
(*                                                                           *)
(* DPPs are shared: any plane may be used by any CRTC, one at a time.  Each  *)
(* CRTC has its own worker, so tails of two CRTCs interleave; a plane that a *)
(* CRTC gives up is free for the other one when that commit has flipped.     *)
(* Which windows a CRTC has is the business of WindowPool, which Windows     *)
(* implements: a commit here takes a step of it.                             *)
(*                                                                           *)
(* Left out: the handover of the boot loader's window, RCD planes, commits   *)
(* of several CRTCs, geometry, formats, and writeback.                       *)
EXTENDS Integers, FiniteSets, FiniteSetsExt, SequencesExt

CONSTANTS
  Crtc,        \* CRTCs, each with its DECON
  NoCrtc,      \* decon_id -1, or the owner of a free window
  NPlane,      \* planes, each with its DPP, in the order of drm_plane_index
  NWin,        \* windows
  MaxCommits,  \* bound on commits
  Races        \* which of RaceNames may happen

RaceNames ==
  {"color_reinit",  \* a DECON is reset while another shows a plane as a color map
   "kept_color",    \* an invisible plane follows a commit without planes
   "mask_race"}     \* two tails change secured_dpp_mask at once

ASSUME PlanesAssumption ==
  /\ NPlane \in Nat /\ NWin \in Nat /\ MaxCommits \in Nat
  /\ NoCrtc \notin Crtc
  /\ Races \subseteq RaceNames

Plane == 1 .. NPlane
Win   == 0 .. NWin - 1
NoWin == NWin              \* 0xFF
Dark  == <<"off", 0>>      \* a window that is not enabled

VARIABLES
  crtc,       \* the swapped-in CRTC states: power and planes by zpos
  owner,      \* which of them has reserved a window, or NoCrtc
  content,    \* what the committed plane states show
  job,        \* the commit tail of each CRTC
  commits,    \* commits so far
  decon,      \* decon->state
  window,     \* hardware: the windows each DECON has enabled, and for what
  dpp,        \* the DPPs
  protected,  \* dpp->protection, and the hardware: DPPs in protection mode
  mask,       \* private->secured_dpp_mask
  forwarded,  \* hardware: registers are written through EL3
  refused     \* history: DPPs whose last SMC_PROTECTION_SET failed

drm  == <<crtc, owner, content, commits>>
prot == <<protected, mask, forwarded, refused>>
vars == <<drm, job, decon, window, dpp, prot>>

Contents == {"none", "buffer", "secure", "color", "invisible"}
Fetched  == {"buffer", "secure"}
Phases   == {"idle", "stop", "start", "planes", "secure"}
Job(phase, todo, removed, zpos, skip) ==
  [phase |-> phase, todo |-> todo, removed |-> removed, zpos |-> zpos, skip |-> skip]

TypeOK ==
  /\ \A c \in Crtc :
       /\ crtc[c].power \in {"on", "sleep", "off"}
       /\ ToSet(crtc[c].order) \subseteq Plane /\ IsInjective(crtc[c].order)
       /\ job[c].phase \in Phases
       /\ job[c].todo \subseteq Plane /\ job[c].removed \subseteq Plane
  /\ owner \in [Win -> Crtc \cup {NoCrtc}]
  /\ content \in [Plane -> Contents] /\ commits \in 0 .. MaxCommits
  /\ decon \in [Crtc -> {"INIT", "ON", "HIBERNATION", "OFF"}]
  /\ window \in [Crtc -> [Win -> {Dark} \cup ({"dpp", "color"} \X (0 .. NPlane))]]
  /\ dpp \in [Plane -> [on : BOOLEAN, decon : Crtc \cup {NoCrtc}, win : 0 .. NoWin,
                        connected : BOOLEAN]]
  /\ protected \subseteq Plane /\ mask \subseteq Plane /\ refused \subseteq Plane
  /\ forwarded \in BOOLEAN

Pool == INSTANCE WindowPool WITH Window <- Win, Client <- Crtc, Free <- NoCrtc

Init ==
  /\ crtc = [c \in Crtc |-> [power |-> "off", order |-> <<>>]]
  /\ Pool!Init
  /\ content = [p \in Plane |-> "none"] /\ commits = 0
  /\ job = [c \in Crtc |-> Job("idle", {}, {}, FALSE, FALSE)]
  /\ decon = [c \in Crtc |-> "INIT"]
  /\ window = [c \in Crtc |-> [w \in Win |-> Dark]]
  /\ dpp = [p \in Plane |-> [on |-> FALSE, decon |-> NoCrtc, win |-> 0, connected |-> FALSE]]
  /\ protected = {} /\ mask = {} /\ forwarded = FALSE /\ refused = {}

-----------------------------------------------------------------------------
(* Checked and swapped states. *)

(* decon_get_win_id: the reserved window for a zpos. *)
WinAt(R, zpos) == CHOOSE w \in R : Cardinality({v \in R : v < w}) = zpos

(* visible_win_mask; zpos i is entry i + 1. *)
VisibleWindows(order, R, shows) ==
  {WinAt(R, i - 1) : i \in {j \in DOMAIN order : shows[order[j]] # "invisible"}}

WinCnt(power, order) == IF power = "off" THEN 0 ELSE Max({1, Len(order)})

(* The DRM core lets no plane go from one CRTC straight to another, and its  *)
(* next commit wait for the flip of the one that gave it up.                 *)
Taken(c) ==
  UNION {ToSet(crtc[d].order) \cup job[d].removed \cup job[d].todo : d \in Crtc \ {c}}

(* A DECON that runs is stopped for a power change and for a modeset; one in *)
(* hibernation is switched off.                                              *)
FirstPhase(c, power, modeset) ==
  LET stops == \/ decon[c] = "ON" /\ (power # "on" \/ modeset)
               \/ decon[c] = "HIBERNATION" /\ power = "off"
  IN  IF stops THEN "stop"
      ELSE IF power # "on" THEN "idle"
      ELSE IF decon[c] = "ON" THEN "planes" ELSE "start"

(* A commit of a CRTC waits until the tail of its last one has ended.         *)
Ready(c) == job[c].phase = "idle" /\ commits < MaxCommits

(* A commit for c: its planes by zpos, and what they show.  The helpers add  *)
(* all planes of a CRTC whose zpos or power changes, or that has a modeset.  *)
(* A CRTC that wakes with none of its planes in the state skips the update.  *)
Commit(c, power, order, touched, shows, modeset) ==
  LET old     == crtc[c]
      planes  == ToSet(order)
      removed == ToSet(old.order) \ planes
      zpos    == order # old.order
      all     == zpos \/ power # old.power \/ modeset
  IN  /\ \E R \in SUBSET Win :
           /\ Cardinality(R) = WinCnt(power, order)
           /\ owner' = [w \in Win |-> IF w \in R THEN c ELSE IF owner[w] = c THEN NoCrtc ELSE owner[w]]
           /\ Pool!Resize
           /\ power = "on" /\ order # <<>> /\ "kept_color" \notin Races =>
                \A w \in Win : window[c][w] = <<"color", 0>> => w \in VisibleWindows(order, R, shows)
      /\ crtc' = [crtc EXCEPT ![c] = [power |-> power, order |-> order]]
      /\ content' = shows
      /\ job' = [job EXCEPT ![c] =
           Job(FirstPhase(c, power, modeset),
               IF power # "on" THEN {} ELSE removed \cup (IF all THEN planes ELSE touched),
               IF FirstPhase(c, power, modeset) = "idle" THEN {} ELSE removed,
               power = "on" /\ zpos, power = "on" /\ old.power = "sleep" /\ touched = {})]
      /\ commits' = commits + 1
      /\ UNCHANGED <<decon, window, dpp, prot>>

(* The plane states of a commit: those of the planes in the state, none of   *)
(* the planes that c gives up.                                               *)
Committed(c, P, shows) ==
  [p \in Plane |-> IF p \in DOMAIN shows THEN shows[p]
                   ELSE IF p \in ToSet(crtc[c].order) \ P THEN "none" ELSE content[p]]

(* What user space asks of c; it switches c off with its planes or without.  *)
UserCommit(c) ==
  /\ Ready(c)
  /\ \E P \in SUBSET (Plane \ Taken(c)), power \in {"on", "off"}, modeset \in BOOLEAN :
     \E order \in SetToSeqs(P), touched \in SUBSET P :
       /\ modeset => power = "on" /\ crtc[c].power = "on"
       /\ power = "off" => crtc[c].power # "off" /\ touched = {} /\ order \in {<<>>, crtc[c].order}
       /\ P \ ToSet(crtc[c].order) \subseteq touched
       /\ P = ToSet(crtc[c].order) /\ order # crtc[c].order => touched # {}
       /\ \E shows \in [touched -> Contents \ {"none"}] :
            Commit(c, power, order, touched, Committed(c, P, shows), modeset)

(* Hibernation puts the CRTC into self refresh; its planes stay. *)
Hibernate(c) ==
  /\ Ready(c) /\ crtc[c].power = "on"
  /\ Commit(c, "sleep", crtc[c].order, {}, content, FALSE)

-----------------------------------------------------------------------------
(* The protection of a DPP. *)

(* update_resource_protection: the first DPP in protection mode makes        *)
(* registers be written through EL3, the last one ends that.                 *)
Forwarding(S) == IF (S = {}) # (mask = {}) THEN S # {} ELSE forwarded

(* set_protection(dpp, 0) of the DPPs of a set, by one thread. *)
Unprotect(S) ==
  \E failed \in SUBSET (S \cap protected) :
    LET freed == (S \cap protected) \ failed
    IN  /\ freed # {} /\ "mask_race" \notin Races => \A c \in Crtc : job[c].phase # "secure"
        /\ protected' = protected \ freed
        /\ mask' = mask \ freed
        /\ forwarded' = Forwarding(mask \ freed)
        /\ refused' = (refused \ freed) \cup failed

(* Mutant: forwarding goes on although no DPP could be protected. *)
SecuredForwardsOn(c) ==
  LET p == Min(job[c].todo)
  IN  /\ job[c].phase = "secure"
      /\ \/ /\ protected' = protected \cup {p} /\ mask' = mask \cup {p}
            /\ refused' = refused \ {p} /\ UNCHANGED forwarded
         \/ /\ refused' = refused \cup {p} /\ UNCHANGED <<protected, mask, forwarded>>
      /\ job' = [job EXCEPT ![c].phase = "planes", ![c].todo = job[c].todo \ {p}]
      /\ UNCHANGED <<drm, decon, window, dpp>>

(* The SMC of set_protection(dpp, 1) returns: a failure takes the forwarding *)
(* back if this DPP began it.                                                *)
Secured(c) ==
  LET p == Min(job[c].todo)
  IN  /\ job[c].phase = "secure"
      /\ \/ /\ protected' = protected \cup {p} /\ mask' = mask \cup {p}
            /\ refused' = refused \ {p} /\ UNCHANGED forwarded
         \/ /\ refused' = refused \cup {p}
            /\ forwarded' = (forwarded /\ mask # {})
            /\ UNCHANGED <<protected, mask>>
      /\ job' = [job EXCEPT ![c].phase = "planes", ![c].todo = job[c].todo \ {p}]
      /\ UNCHANGED <<drm, decon, window, dpp>>

-----------------------------------------------------------------------------
(* _dpp_disable: a DPP that is off already keeps its owner. *)
DppDisabled(d) ==
  [d EXCEPT !.on = FALSE, !.decon = IF d.on THEN NoCrtc ELSE d.decon, !.connected = FALSE]

(* _decon_reinit_locked: all windows, and the DPPs of this DECON or of none. *)
Reinit(c) ==
  LET own == {p \in Plane : dpp[p].decon \in {c, NoCrtc}}
  IN  /\ window' = [window EXCEPT ![c] = [w \in Win |-> Dark]]
      /\ dpp' = [p \in Plane |-> IF p \in own THEN [DppDisabled(dpp[p]) EXCEPT !.win = NoWin]
                                 ELSE dpp[p]]
      /\ Unprotect({p \in own : dpp[p].on})
      /\ "color_reinit" \notin Races =>
           \A d \in Crtc \ {c}, w \in Win, p \in own : window[d][w] # <<"color", p>>

(* decon_disable and decon_enter_hibernation. *)
Stop(c) ==
  /\ job[c].phase = "stop"
  /\ IF decon[c] = "ON" THEN Reinit(c) ELSE UNCHANGED <<window, dpp, prot>>
  /\ decon' = [decon EXCEPT ![c] = IF crtc[c].power = "sleep" THEN "HIBERNATION" ELSE "OFF"]
  /\ job' = [job EXCEPT ![c] = IF crtc[c].power = "on" THEN [job[c] EXCEPT !.phase = "start"]
                                ELSE Job("idle", {}, {}, FALSE, FALSE)]
  /\ UNCHANGED drm

(* decon_enable and decon_exit_hibernation. *)
Start(c) ==
  /\ job[c].phase = "start"
  /\ IF decon[c] = "INIT" THEN Reinit(c) ELSE UNCHANGED <<window, dpp, prot>>
  /\ decon' = [decon EXCEPT ![c] = "ON"]
  /\ job' = [job EXCEPT ![c].phase = "planes"]
  /\ UNCHANGED drm

-----------------------------------------------------------------------------
(* drm_atomic_helper_commit_planes: the planes of the state by their index. *)

(* Mutant: a window that another plane has taken over is disabled too. *)
WithoutTaken(c, w) == IF w \in Win THEN [window[c] EXCEPT ![w] = Dark] ELSE window[c]

(* decon_disable_win: not if a visible plane of the new state has it. *)
Without(c, w) ==
  IF w \in Win \ VisibleWindows(crtc[c].order, Pool!Held(c), content)
  THEN [window[c] EXCEPT ![w] = Dark] ELSE window[c]

(* exynos_plane_atomic_disable, and exynos_plane_atomic_update of a plane    *)
(* that is not visible.                                                      *)
DisablePlane(c) ==
  LET p == Min(job[c].todo)
  IN  /\ job[c].phase = "planes" /\ job[c].todo # {}
      /\ content[p] = "invisible" \/ p \in job[c].removed
      /\ window' = [window EXCEPT ![c] = Without(c, dpp[p].win)]
      /\ dpp' = [dpp EXCEPT ![p] = DppDisabled(dpp[p])]
      /\ Unprotect({q \in {p} : dpp[q].on})
      /\ job' = [job EXCEPT ![c].todo = job[c].todo \ {p}]
      /\ UNCHANGED <<drm, decon>>

(* Mutant: a connected plane keeps its window though the planes moved. *)
WinOfConnected(c, p) ==
  IF dpp[p].connected THEN dpp[p].win
  ELSE WinAt(Pool!Held(c), (CHOOSE i \in DOMAIN crtc[c].order : crtc[c].order[i] = p) - 1)

(* The window of a plane: looked up by zpos unless it is known already. *)
WinOf(c, p) ==
  IF dpp[p].connected /\ ~job[c].zpos THEN dpp[p].win
  ELSE WinAt(Pool!Held(c), (CHOOSE i \in DOMAIN crtc[c].order : crtc[c].order[i] = p) - 1)

(* The window part of decon_update_plane: the old one is disabled. *)
Connect(c, p, use) ==
  LET w    == WinOf(c, p)
      rest == IF dpp[p].win = w THEN window[c] ELSE Without(c, dpp[p].win)
  IN  window' = [window EXCEPT ![c] = [rest EXCEPT ![w] = <<use, p>>]]

(* decon_update_plane of a color map: the DPP is not used. *)
ColorPlane(c) ==
  LET p == Min(job[c].todo)
  IN  /\ job[c].phase = "planes" /\ job[c].todo # {}
      /\ content[p] = "color"
      /\ Connect(c, p, "color")
      /\ dpp' = [dpp EXCEPT ![p] = [DppDisabled([dpp[p] EXCEPT !.decon = c]) EXCEPT !.win = WinOf(c, p)]]
      /\ Unprotect({q \in {p} : dpp[q].on})
      /\ job' = [job EXCEPT ![c].todo = job[c].todo \ {p}]
      /\ UNCHANGED <<drm, decon>>

(* decon_update_plane of a buffer, with dpp_update; if the DPP has to go     *)
(* into protection mode, registers are forwarded before the SMC.             *)
UpdatePlane(c) ==
  LET p       == Min(job[c].todo)
      protect == content[p] = "secure" /\ p \notin protected
  IN  /\ job[c].phase = "planes" /\ job[c].todo # {}
      /\ content[p] \in Fetched
      /\ Connect(c, p, "dpp")
      /\ dpp' = [dpp EXCEPT ![p] = [on |-> TRUE, decon |-> c, win |-> WinOf(c, p), connected |-> TRUE]]
      /\ IF protect
         THEN /\ "mask_race" \notin Races => \A d \in Crtc : job[d].phase # "secure"
              /\ forwarded' = Forwarding(mask \cup {p})
              /\ UNCHANGED <<protected, mask, refused>>
              /\ job' = [job EXCEPT ![c].phase = "secure"]
         ELSE /\ Unprotect(IF content[p] = "buffer" THEN {p} ELSE {})
              /\ job' = [job EXCEPT ![c].todo = job[c].todo \ {p}]
      /\ UNCHANGED <<drm, decon>>

(* decon_atomic_flush: without planes a color map fills the first window.    *)
(* With the flip the planes that were given up are free.                     *)
Flush(c) ==
  /\ job[c].phase = "planes" /\ job[c].todo = {}
  /\ window' = IF job[c].skip \/ crtc[c].order # <<>> THEN window
               ELSE [window EXCEPT ![c][WinAt(Pool!Held(c), 0)] = <<"color", 0>>]
  /\ job' = [job EXCEPT ![c] = Job("idle", {}, {}, FALSE, job[c].skip)]
  /\ UNCHANGED <<drm, decon, dpp, prot>>

Next ==
  \E c \in Crtc :
    \/ UserCommit(c) \/ Hibernate(c) \/ Stop(c) \/ Start(c) \/ DisablePlane(c)
    \/ ColorPlane(c) \/ UpdatePlane(c) \/ Secured(c) \/ Flush(c)

Spec == Init /\ [][Next]_vars

-----------------------------------------------------------------------------
Settled(c) == job[c].phase = "idle"

(* What a window should be used for. *)
Use(c, w) ==
  LET order == crtc[c].order
      at(i) == WinAt(Pool!Held(c), i - 1) = w /\ content[order[i]] # "invisible"
  IN  IF decon[c] # "ON" THEN Dark
      ELSE IF \E i \in DOMAIN order : at(i)
      THEN LET p == order[CHOOSE i \in DOMAIN order : at(i)]
           IN  <<IF content[p] = "color" THEN "color" ELSE "dpp", p>>
      ELSE IF order = <<>> /\ ~job[c].skip /\ WinAt(Pool!Held(c), 0) = w
      THEN <<"color", 0>> ELSE Dark

(* After a commit the windows of its DECON are enabled for exactly what the  *)
(* state shows, each visible plane at the window of its zpos and nothing     *)
(* left of earlier states ("in case there are any stale mappings",           *)
(* exynos_drm_decon.c:1503), and a DPP runs exactly for a visible buffer of  *)
(* a running DECON, which it knows (decon_id, win_id).                       *)
WiringExact ==
  /\ TypeOK
  /\ \A c \in Crtc : Settled(c) =>
       /\ \A w \in Win : window[c][w] = Use(c, w)
       /\ \A p \in ToSet(crtc[c].order) :
            /\ dpp[p].on <=> decon[c] = "ON" /\ content[p] \in Fetched
            /\ dpp[p].on => dpp[p].decon = c /\ window[c][dpp[p].win] = <<"dpp", p>>
  /\ \A p \in Plane : p \notin UNION {ToSet(crtc[c].order) \cup job[c].removed : c \in Crtc}
       => ~dpp[p].on

(* secured_dpp_mask is the set of DPPs in protection mode, their registers   *)
(* are forwarded to EL3 from before the first enters it until the last has   *)
(* left it (exynos_drm_dpp.c:715, 735), also when an SMC fails on the way;   *)
(* and after a commit the DPPs that fetch secure buffers are in protection   *)
(* mode and no others, unless their SMC failed.                              *)
ProtectionSound ==
  /\ mask = protected
  /\ protected # {} => forwarded
  /\ (\A c \in Crtc : job[c].phase # "secure") => (forwarded <=> protected # {})
  /\ \A c \in Crtc : Settled(c) => \A p \in ToSet(crtc[c].order) :
       (p \in protected) = (dpp[p].on /\ content[p] = "secure") \/ p \in refused
=============================================================================
