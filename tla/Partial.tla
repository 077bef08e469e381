------------------------------ MODULE Partial ------------------------------
(* Partial update: a commit may say which lines changed, and only those are  *)
(* sent (exynos_drm_partial.c, with the commit and hibernation paths that    *)
(* call it).  The region has to agree in five places: the CRTC state, the    *)
(* coordinates of the planes, the size DECON, DSIM and DQE are set to, the   *)
(* address window of the panel, and the slices of its compression.           *)
(*                                                                           *)
(* A commit is one step: check, swap and tail (module Hibernation splits     *)
(* it).  The width is always the display's, so a region is a range of lines. *)
(* No panel of the repository sets is_partial; the panel here does.          *)
EXTENDS Integers, FiniteSets

CONSTANTS
  Height,          \* lines of the display
  Slice,           \* mode -> lines of a slice, its partial.min_height
  RegionRequests,  \* regions user space asks for: [lo, hi) in lines
  Places,          \* where user space puts the upper plane
  Kinds,           \* plane -> kinds of its buffer and geometry: plain, yuv, scaled
  MaxCommits,
  Races            \* which of RaceNames may happen

RaceNames ==
  {"skipped_wake",      \* the display is woken without a frame
   "skipped_off",       \* a commit that only turns planes off wakes the display
   "skipped_frame",     \* a fence times out and the frame is skipped
   "later_planes",      \* a plane after an unsupported one is not in the commit
   "odd_height",        \* a cut leaves an odd number of lines of a YUV buffer
   "unchanged_region",  \* a plane changes kind or place under a region that stays
   "no_planes",         \* a commit leaves no plane
   "test_only"}         \* a commit that is only tested asks for another mode

Modes  == DOMAIN Slice
Planes == {1, 2}  \* 2 lies over 1; drm_for_each_plane_mask goes by index
Lines  == 0 .. Height - 1
Full   == [lo |-> 0, hi |-> Height]
NoRequest == [lo |-> 0, hi |-> 0]
Rects  == [lo : 0 .. Height, hi : 0 .. Height]

ASSUME PartialHeightAssumption == Height \in Nat \ {0}
(* Neither regions nor planes are empty.  exynos_partial_adjust_region does  *)
(* not test that: it relies on user space.                                   *)
ASSUME PartialRectsAssumption ==
  /\ RegionRequests \subseteq [lo : Nat, hi : Nat] /\ \A r \in RegionRequests : r.lo < r.hi
  /\ Places \subseteq Rects /\ \A r \in Places : r.lo < r.hi
  /\ \A p \in Planes : Kinds[p] # {}
(* exynos_partial_init refuses a mode that its slices do not divide. *)
ASSUME PartialSliceAssumption == \A m \in Modes : Slice[m] \in Nat \ {0} /\ Height % Slice[m] = 0
ASSUME PartialBoundsAssumption == MaxCommits \in Nat /\ Races \subseteq RaceNames

VARIABLES
  decon,    \* decon->state
  mode,     \* crtc->state->mode
  minH,     \* decon->partial->min_h
  request,  \* the region of crtc->state->partial
  region,   \* crtc->state->partial_region
  place,    \* of each plane as user space set it: on, lines, kind
  dst,      \* plane_state->dst as programmed: visible, lines, first source line
  window,   \* the panel's page address
  size,     \* lines DECON and DSIM are set to
  refused,  \* a check of a DPP refused a commit for the region's sake
  stale,    \* lines of the panel's memory that are not what user space wants
  commits

swState == <<mode, request, region, place, dst, refused>>
hwState == <<window, size, stale>>
partialVars ==<<decon, swState, minH, hwState, commits>>

Off(q) == [q EXCEPT !.on = FALSE]
PlaceOf(r, kind) == [on |-> TRUE, lo |-> r.lo, hi |-> r.hi, kind |-> kind]
LinesOf(q) == {l \in Lines : q.lo <= l /\ l < q.hi}
Covered(q) == IF q.on THEN LinesOf(q) ELSE {}

PartialTypeOK ==
  /\ decon \in {"ON", "HIBERNATION", "OFF"} /\ mode \in Modes
  /\ minH \in {Slice[m] : m \in Modes}
  /\ request \in RegionRequests \cup {NoRequest}
  /\ region \in Rects /\ region.lo < region.hi
  /\ window \in Rects /\ window.lo < window.hi /\ size \in 1 .. Height
  /\ stale \subseteq Lines /\ commits \in 0 .. MaxCommits /\ refused \in BOOLEAN
  /\ \A p \in Planes :
       /\ place[p].kind \in Kinds[p]
       /\ dst[p].vis => (0 <= dst[p].lo /\ dst[p].lo < dst[p].hi /\ dst[p].hi <= Height)

PartialInit ==
  /\ decon = "OFF" /\ mode \in Modes /\ minH = Slice[mode]
  /\ request = NoRequest /\ region = Full
  /\ place = [p \in Planes |-> Off(PlaceOf(Full, CHOOSE k \in Kinds[p] : TRUE))]
  /\ dst = [p \in Planes |-> [vis |-> FALSE, lo |-> 0, hi |-> Height, src |-> 0]]
  /\ window = Full /\ size = Height /\ stale = Lines /\ commits = 0 /\ refused = FALSE

-----------------------------------------------------------------------------
(* Mutant: the limits of the display are not tested. *)
ValidAnywhere(r) == r # NoRequest

(* exynos_partial_adjust_region; anything it refuses is updated in full. *)
Valid(r) == r # NoRequest /\ r.hi <= Height

Adjusted(r) == [lo |-> (r.lo \div minH) * minH, hi |-> ((r.hi + minH - 1) \div minH) * minH]

Asked(r) == IF Valid(r) THEN Adjusted(r) ELSE Full

Greater(a, b) == IF a > b THEN a ELSE b
Lesser(a, b)  == IF a < b THEN a ELSE b
Inter(q, r) == [lo |-> Greater(q.lo, r.lo), hi |-> Lesser(q.hi, r.hi)]
Meets(q, r) == q.on /\ Inter(q, r).lo < Inter(q, r).hi

(* Mutant: the alignment of YUV is not tested. *)
SupportedAnyYuv(q, r) == Meets(q, r) => q.kind # "scaled"

(* is_partial_supported: no scaling or rotation; YUV starts at an even line  *)
(* of its buffer and is two lines high.                                      *)
Supported(q, r) ==
  Meets(q, r) =>
    /\ q.kind # "scaled"
    /\ q.kind = "yuv" => /\ Greater(r.lo - q.lo, 0) % 2 = 0
                         /\ Inter(q, r).hi - Inter(q, r).lo >= 2

(* exynos_partial_check fetches the state of plane after plane and stops at   *)
(* the first it does not support.                                             *)
Fetched(new, r) ==
  {p \in Planes : new[p].on /\ \A o \in Planes : (o < p /\ new[o].on) => Supported(new[o], r)}

NeedsModeset(m) == decon # "ON" \/ m # mode
PlaneMask(new)  == {p \in Planes : new[p].on}

(* exynos_partial_prepare.  planes_changed is set by a later check, so planes *)
(* that change under an unchanged region are not looked at.                   *)
Prepared(m, keep, req, new) ==
  IF NeedsModeset(m)
  THEN [region |-> Full, fetched |-> PlaneMask(new)]
  ELSE IF PlaneMask(new) = {} \/ keep \/ Asked(req) = region
  THEN [region |-> region, fetched |-> {}]
  ELSE [region |-> IF \A p \in Planes : Supported(new[p], Asked(req)) THEN Asked(req) ELSE Full,
        fetched |-> Fetched(new, Asked(req))]

Untouched(q) == [vis |-> q.on, lo |-> q.lo, hi |-> q.hi, src |-> 0]

(* Mutant: the coordinates are clipped, not moved. *)
ReconfiguredInPlace(q, r) ==
  [vis |-> Meets(q, r), lo |-> Inter(q, r).lo, hi |-> Inter(q, r).hi, src |-> Inter(q, r).lo - q.lo]

(* exynos_partial_reconfig_coords: relative to the region. *)
Reconfigured(q, r) ==
  [vis |-> Meets(q, r), lo |-> Inter(q, r).lo - r.lo, hi |-> Inter(q, r).hi - r.lo,
   src |-> Inter(q, r).lo - q.lo]

(* exynos_plane_atomic_check of a plane in the commit. *)
Coordinates(q, r) == IF r = Full THEN Untouched(q) ELSE Reconfigured(q, r)

(* dpp_check: it wants the source of a YUV buffer even in place and height.   *)
DppAccepts(d, kind) == (d.vis /\ kind = "yuv") => (d.src % 2 = 0 /\ (d.hi - d.lo) % 2 = 0)
OddHeight(d, kind)  == d.vis /\ kind = "yuv" /\ d.src % 2 = 0 /\ (d.hi - d.lo) % 2 = 1

(* A line of a frame of n lines, sent to window w, is right if every plane   *)
(* over the line it lands on shows the source line it should, and no other.  *)
Right(l, w, n, new, nd) ==
  LET i == l - w.lo IN
  /\ n = w.hi - w.lo
  /\ \A p \in Planes :
       LET over == nd[p].vis /\ nd[p].lo <= i /\ i < nd[p].hi IN
       /\ over <=> l \in Covered(new[p])
       /\ over => nd[p].src + i - nd[p].lo = l - new[p].lo

(* The panel's memory after such a frame. *)
Sent(old, w, n, new, nd) ==
  {l \in Lines : IF l \in LinesOf(w) THEN ~Right(l, w, n, new, nd) ELSE l \in old}

(* Mutant: the panel is not told. *)
UpdatesSizeOnly(r, w, n) ==
  /\ window' = w
  /\ IF r = region THEN size' = n ELSE size' = r.hi - r.lo

(* exynos_partial_update: panel, DSIM, DECON and DQE, if the region changed. *)
UpdatesRegion(r, w, n) ==
  IF r = region THEN window' = w /\ size' = n
  ELSE window' = r /\ size' = r.hi - r.lo

(* exynos_partial_restore, on leaving hibernation, reads the new state. *)
RestoredSize(r) == r.hi - r.lo

-----------------------------------------------------------------------------
Bounded == commits < MaxCommits /\ commits' = commits + 1

(* What user space may change under a request: lines outside it stay as they *)
(* are, so a plane that moves or comes moves inside it.                      *)
Damage(req)   == IF Valid(req) THEN LinesOf(req) ELSE Lines
Moved(p, new) == IF new[p] = place[p] THEN {} ELSE Covered(place[p]) \cup Covered(new[p])

(* exynos_check_updated_planes: planes that are turned off do not count. *)
PlanesUpdated(planes, new) == \E p \in planes : new[p].on

Allowed(m, keep, req, planes, new, next, skips, odd) ==
  LET partial == region # Full /\ ~NeedsModeset(m) IN
  /\ PlaneMask(new) # {} \/ "no_planes" \in Races
  /\ (decon = "HIBERNATION" /\ planes # {} /\ ~PlanesUpdated(planes, new)) =>
        "skipped_off" \in Races
  /\ (skips /\ next.region # region) =>
        (IF decon = "ON" THEN "skipped_frame" ELSE "skipped_wake") \in Races
  /\ (partial /\ next.region # region /\ ~(PlaneMask(new) \subseteq next.fetched \cup planes)) =>
        "later_planes" \in Races
  /\ (partial /\ next.region = region /\ ~\A p \in Planes : Supported(new[p], region)) =>
        "unchanged_region" \in Races
  /\ odd => "odd_height" \in Races

(* A commit of user space: a mode, a request or the one before (keep), and   *)
(* the planes it changes.  From hibernation it wakes the display, without a  *)
(* frame if it updates no plane.  A skipped frame leaves the region unsent.   *)
Commit(m, keep, req, planes, new, late) ==
  LET next  == Prepared(m, keep, req, new)
      in    == planes \cup next.fetched
      nd    == [p \in Planes |-> IF p \in in THEN Coordinates(new[p], next.region) ELSE dst[p]]
      skips == (decon = "HIBERNATION" /\ ~PlanesUpdated(planes, new)) \/ late
      odd   == \E p \in in : OddHeight(nd[p], new[p].kind)
      refuses == \E p \in in : ~DppAccepts(nd[p], new[p].kind)
      old   == IF decon = "OFF" THEN Lines
               ELSE IF planes = {} THEN stale ELSE stale \cup Damage(req)
      w     == IF decon = "OFF" THEN Full ELSE window
      n     == IF decon = "ON" THEN size ELSE RestoredSize(next.region) IN
  /\ Bounded
  /\ Allowed(m, keep, req, planes, new, next, skips, odd)
  /\ minH' = IF NeedsModeset(m) THEN Slice[m] ELSE minH
  /\ IF refuses
     THEN refused' = TRUE /\ UNCHANGED <<decon, mode, request, region, place, dst, hwState>>
     ELSE /\ decon' = "ON" /\ mode' = m /\ request' = req /\ UNCHANGED refused
          /\ region' = next.region /\ place' = new /\ dst' = nd
          /\ IF skips
             THEN window' = w /\ size' = n /\ stale' = old
             ELSE /\ UpdatesRegion(next.region, w, n)
                  /\ stale' = Sent(old, window', size', new, nd)

NewPlaces(p) ==
  {place[p], Off(place[p])}
  \cup {q \in {PlaceOf(r, k) : r \in (IF p = 1 THEN {Full} ELSE Places), k \in Kinds[p]} :
          DppAccepts(Untouched(q), q.kind)}

Choices(planes) ==
  {f \in [Planes -> UNION {NewPlaces(p) : p \in Planes}] :
     \A p \in Planes : f[p] \in (IF p \in planes THEN NewPlaces(p) ELSE {place[p]})}

UserCommit ==
  \E m \in Modes, keep \in BOOLEAN, planes \in SUBSET Planes :
  \E req \in IF keep THEN {request} ELSE RegionRequests \cup {NoRequest} :
  \E new \in Choices(planes) :
  \E late \in IF "skipped_frame" \in Races /\ planes # {} THEN BOOLEAN ELSE {FALSE} :
    /\ decon # "OFF" \/ planes # {}
    /\ ~NeedsModeset(m) => \A p \in planes : Moved(p, new) \subseteq Damage(req)
    /\ Commit(m, keep, req, planes, new, late)

(* exynos_hibernation_enter: the panel refreshes itself; states stay. *)
Hibernate ==
  /\ Bounded /\ decon = "ON" /\ decon' = "HIBERNATION"
  /\ UNCHANGED <<swState, minH, hwState>>

(* exynos_hibernation_exit: active changes, so the region becomes full, but   *)
(* plane checks and the flush are skipped.                                    *)
Wake ==
  /\ Bounded /\ decon = "HIBERNATION" /\ decon' = "ON"
  /\ region = Full \/ "skipped_wake" \in Races
  /\ region' = Full /\ size' = RestoredSize(Full) /\ minH' = Slice[mode]
  /\ UNCHANGED <<mode, request, place, dst, refused, window, stale>>

SwitchOff ==
  /\ Bounded /\ decon # "OFF" /\ decon' = "OFF"
  /\ stale' = Lines
  /\ place' = [p \in Planes |-> Off(place[p])]
  /\ dst' = [p \in Planes |-> [dst[p] EXCEPT !.vis = FALSE]]
  /\ UNCHANGED <<mode, request, region, refused, minH, window, size>>

(* exynos_atomic_prepare_partial_update writes decon->partial in every check. *)
TestOnly ==
  \E m \in IF "test_only" \in Races THEN Modes ELSE {mode} :
    /\ decon # "OFF" /\ minH' = Slice[m]
    /\ UNCHANGED <<decon, swState, hwState, commits>>

PartialNext == UserCommit \/ Hibernate \/ Wake \/ SwitchOff \/ TestOnly

PartialSpec == PartialInit /\ [][PartialNext]_partialVars

-----------------------------------------------------------------------------
(* The region of the CRTC state is where the panel puts the lines, what DECON *)
(* sends and a whole number of the mode's slices, through hibernation, mode   *)
(* sets and requests of any kind (exynos_partial_update only acts on a        *)
(* difference of two states).                                                 *)
RegionAgrees ==
  /\ PartialTypeOK
  /\ decon # "OFF" => window = region
  /\ decon = "ON" => size = region.hi - region.lo
  /\ decon # "OFF" => region.lo % Slice[mode] = 0 /\ region.hi % Slice[mode] = 0

(* The panel's memory holds what user space asked for, line by line, however  *)
(* requests, plane moves and hibernation follow each other.                   *)
PictureWhole == decon # "OFF" => stale = {}

(* A region that a DPP cannot follow is given up for the whole display        *)
(* (exynos_drm_partial.c:434: "check DPP hw limit if violated, update region  *)
(* is changed to full"): no commit is refused for its region's sake, and no   *)
(* plane is scaled under a partial one.                                       *)
DppLimitsKept ==
  /\ ~refused
  /\ (decon # "OFF" /\ region # Full) =>
       \A p \in Planes : dst[p].vis => place[p].kind # "scaled"

=============================================================================
