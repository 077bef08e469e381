----------------------------- MODULE Bandwidth -----------------------------
(* Votes for memory bandwidth and the DISP clock (exynos_drm_bts.c), composed *)
(* with the commit tails of Planes: a tail votes up before it programs the    *)
(* hardware and down after the flip (exynos_drm_fb.c).                        *)
(*                                                                            *)
(* Each DECON calculates from a table of what its windows fetch; for the peak *)
(* it adds the tables of the other DECONs, which other tails change.  The     *)
(* interconnect keeps one vote per DECON and grants the maximum of the peaks, *)
(* as it does for the clock.                                                  *)
(*                                                                            *)
(* Formulas are abstracted to the load of a buffer: all windows overlap and   *)
(* share an AXI port.  Left out: the refresh rate, rotation, writeback, RCD,  *)
(* scenarios, the urgent latency, and the trusted UI, which stops a DECON in  *)
(* hibernation (TrustedUi).                                                   *)
EXTENDS Planes

CONSTANT
  BtsRaces     \* which of BtsRaceNames may happen

BtsRaceNames ==
  {"sum_race",    \* a DECON adds the table of one that is about to fetch less
   "mixed_vote",  \* one part of a vote rises while another one falls
   "kept_table",  \* a CRTC wakes without planes after it lost them while off
   "first_start"} \* a plane stays as it is although its entry went with the
                  \* table when the DECON was enabled for the first time

ASSUME BandwidthAssumption ==
  /\ BtsRaces \subseteq BtsRaceNames
  /\ IsFiniteSet(Crtc) /\ Crtc # {}

VARIABLES
  tail,   \* the part of the tail that each CRTC is in: before or after
          \* exynos_atomic_bts_pre_update, or after the flip
  bts,    \* decon->bts, with the votes it has placed
  shown   \* hardware: the load that each DECON fetches, as of its last flip

btsVars == <<vars, tail, bts, shown>>

Nothing == [total |-> 0, peak |-> 0, freq |-> 0]

(* What fetching a plane takes; dpu_bts_calc_dpp_bw.  Only the state of a     *)
(* window tells the table apart, an invisible plane counts as a buffer.       *)
Load(shows) == CASE shows = "secure"                  -> 2
                 [] shows \in {"buffer", "invisible"} -> 1
                 [] OTHER                             -> 0

(* A clock for a window of full size; dpu_bts_calc_disp_with_full_size.       *)
FullSize == 1

Total(config) == FoldFunction(+, 0, config)

(* _decon_stop_locked leaves no window in the table.                          *)
NoWindows  == [w \in Win |-> 0]
Cleared(c) == bts[c].config = NoWindows

BtsTypeOK ==
  /\ tail \in [Crtc -> {"idle", "pre", "tail", "post"}]
  /\ shown \in [Crtc -> 0 .. 2 * NPlane]
  /\ \A c \in Crtc :
       /\ bts[c].config \in [Win -> 0 .. 2] /\ bts[c].ch \in 0 .. 2 * NPlane
       /\ \A v \in {"need", "prev", "vote"} :
            DOMAIN bts[c][v] = DOMAIN Nothing /\ \A x \in DOMAIN Nothing : bts[c][v][x] \in Nat

BtsInit ==
  /\ Init
  /\ tail = [c \in Crtc |-> "idle"] /\ shown = [c \in Crtc |-> 0]
  /\ bts = [c \in Crtc |-> [config |-> NoWindows, ch |-> 0, need |-> Nothing,
                            prev |-> Nothing, vote |-> Nothing]]

-----------------------------------------------------------------------------
(* The planes of the state that stay on c; a power change adds all of them.   *)
PlanesInState(c) ==
  IF crtc[c].power = "on" THEN job[c].todo \ job[c].removed ELSE ToSet(crtc[c].order)

(* win_config is indexed by zpos; entries past the planes are disabled when   *)
(* planes of an active CRTC change.                                           *)
Config(c) ==
  LET order == crtc[c].order
      past  == crtc[c].power = "on" /\ job[c].todo # {}
  IN  [i \in Win |->
         IF i < Len(order)
         THEN IF order[i + 1] \in PlanesInState(c) THEN Load(content[order[i + 1]])
              ELSE bts[c].config[i]
         ELSE IF past THEN 0 ELSE bts[c].config[i]]

(* dpu_bts_update_disp_ch_bw; it is not called without a load.                *)
ChBw(c, total) == IF total = 0 THEN bts[c].ch ELSE total

(* dpu_bts_sum_all_decon_bw. *)
AllDecons(c, ch) == ch + FoldFunctionOnSet(+, 0, [d \in Crtc |-> bts[d].ch], Crtc \ {c})

(* dpu_bts_find_max_disp_freq. *)
Clock(peak) == Max({peak, FullSize})

(* dpu_bts_calc_bw. *)
Calculated(c, config) ==
  LET total == Total(config)
      ch    == ChBw(c, total)
      peak  == IF total = 0 THEN 0 ELSE AllDecons(c, ch)
  IN  [bts[c] EXCEPT !.config = config, !.ch = ch,
                     !.need = [total |-> total, peak |-> peak, freq |-> Clock(peak)]]

(* The bandwidths are voted together, the clock on its own.                   *)
Voted(b, bw, freq) ==
  [b EXCEPT !.vote = [total |-> IF bw THEN b.need.total ELSE b.vote.total,
                      peak  |-> IF bw THEN b.need.peak ELSE b.vote.peak,
                      freq  |-> IF freq THEN b.need.freq ELSE b.vote.freq]]

(* Mutant: a vote that falls is placed before the hardware is programmed.     *)
VotedEarly(b) ==
  Voted(b, b.need.total # b.prev.total \/ b.need.peak # b.prev.peak, b.need.freq # b.prev.freq)

(* dpu_bts_update_resources before the hardware is programmed: votes rise.    *)
VotedUp(b) ==
  Voted(b, b.need.total > b.prev.total \/ b.need.peak > b.prev.peak, b.need.freq > b.prev.freq)

(* dpu_bts_update_resources after the flip: votes fall.                       *)
VotedDown(b) ==
  [Voted(b, b.need.total < b.prev.total \/ b.need.peak < b.prev.peak, b.need.freq < b.prev.freq)
     EXCEPT !.prev = b.need]

(* dpu_bts_release_resources. *)
Released(b) == [b EXCEPT !.ch = 0, !.prev = Nothing, !.vote = Nothing]

Mixed(b) ==
  \/ b.need.total > b.prev.total /\ b.need.peak < b.prev.peak
  \/ b.need.total < b.prev.total /\ b.need.peak > b.prev.peak

(* exynos_atomic_bts_pre_update: after what is disabled, before the rest.     *)
PreUpdate(c) ==
  /\ tail[c] = "pre" /\ job[c].phase # "stop"
  /\ bts' = [bts EXCEPT ![c] = IF crtc[c].power = "on" THEN VotedUp(Calculated(c, Config(c)))
                               ELSE [bts[c] EXCEPT !.config = Config(c)]]
  /\ tail' = [tail EXCEPT ![c] = IF crtc[c].power = "on" THEN "tail" ELSE "post"]
  /\ "sum_race" \notin BtsRaces /\ crtc[c].power = "on" =>
       \A d \in Crtc \ {c} : bts[d].ch >= shown[d]
  /\ "mixed_vote" \notin BtsRaces => ~Mixed(bts'[c])
  /\ "kept_table" \notin BtsRaces /\ crtc[c].power = "on" /\ crtc[c].order = <<>> =>
       Total(Config(c)) = 0
  /\ "first_start" \notin BtsRaces /\ crtc[c].power = "on" /\ Cleared(c) =>
       \A p \in ToSet(crtc[c].order) : p \in PlanesInState(c) \/ Load(content[p]) = 0
  /\ UNCHANGED <<vars, shown>>

(* exynos_atomic_bts_post_update: after the flip. *)
PostUpdate(c) ==
  /\ tail[c] = "post"
  /\ bts' = [bts EXCEPT ![c] = IF crtc[c].power = "on" THEN VotedDown(bts[c]) ELSE Released(bts[c])]
  /\ tail' = [tail EXCEPT ![c] = "idle"]
  /\ UNCHANGED <<vars, shown>>

-----------------------------------------------------------------------------
(* The rest of the tail. *)

TailCommit(c) ==
  /\ tail[c] = "idle"
  /\ UserCommit(c) \/ Hibernate(c)
  /\ tail' = [tail EXCEPT ![c] = "pre"]
  /\ UNCHANGED <<bts, shown>>

(* _decon_stop_locked also clears the table. *)
TailStop(c) ==
  /\ tail[c] = "pre" /\ Stop(c)
  /\ bts' = IF decon[c] = "ON" THEN [bts EXCEPT ![c].config = NoWindows] ELSE bts
  /\ shown' = [shown EXCEPT ![c] = 0]
  /\ UNCHANGED tail

(* decon_enable, after the vote: one that has not been enabled since probe is *)
(* stopped first, and that clears the table that was just filled.             *)
TailStart(c) ==
  /\ tail[c] = "tail" /\ Start(c)
  /\ bts' = IF decon[c] = "INIT" THEN [bts EXCEPT ![c].config = NoWindows] ELSE bts
  /\ UNCHANGED <<tail, shown>>

TailPlanes(c) ==
  /\ tail[c] = "tail"
  /\ DisablePlane(c) \/ ColorPlane(c) \/ UpdatePlane(c) \/ Secured(c)
  /\ UNCHANGED <<tail, bts, shown>>

(* With the flip the DECON fetches what its windows show.                     *)
TailFlip(c) ==
  /\ tail[c] = "tail" /\ Flush(c)
  /\ shown' = [shown EXCEPT ![c] =
       FoldFunction(+, 0, [w \in Win |-> IF window[c][w][1] = "dpp" THEN Load(content[window[c][w][2]])
                                         ELSE 0])]
  /\ tail' = [tail EXCEPT ![c] = "post"]
  /\ UNCHANGED bts

BtsNext ==
  \E c \in Crtc :
    \/ TailCommit(c) \/ TailStop(c) \/ PreUpdate(c) \/ TailStart(c)
    \/ TailPlanes(c) \/ TailFlip(c) \/ PostUpdate(c)

BtsSpec == BtsInit /\ [][BtsNext]_btsVars

-----------------------------------------------------------------------------
(* A DECON never fetches more than it has voted for, and the highest clock    *)
(* and peak voted for bear what all of them fetch together, while tails of    *)
(* two CRTCs change the tables and at any point of a tail ("update peak & R/W *)
(* bandwidth per DPU port", exynos_drm_bts.c:978); and no vote outlives its   *)
(* commit: at rest a DECON has voted for the planes of its state, or for      *)
(* nothing if it is off.                                                      *)
VotesCoverDisplay ==
  /\ BtsTypeOK
  /\ \A c \in Crtc : shown[c] <= bts[c].vote.total
  /\ LET fetched == FoldFunction(+, 0, shown)
     IN  \A x \in {"peak", "freq"} : fetched <= Max({bts[c].vote[x] : c \in Crtc})
  /\ \A c \in Crtc : tail[c] = "idle" =>
       IF decon[c] = "ON"
       THEN bts[c].vote.total = Total([p \in ToSet(crtc[c].order) |-> Load(content[p])])
       ELSE bts[c].vote = Nothing
=============================================================================
