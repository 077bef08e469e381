# Exynos display driver: verification project

TLA+ models of the Samsung/Google Exynos DRM display driver in `src/`, the TLC configurations
that check them, and TLAPS proofs about them.

## 1. The system

A display pipeline is a chain of hardware blocks with one driver file each: DPP (reads and scales
planes), DECON (blends windows into frames), DSIM (MIPI DSI link) or DP (DisplayPort), and the
panel. The DRM core drives it through atomic commits: a state is *checked*, *swapped in*, and a
*commit tail* carries it out, on the kthread worker of the DECON or in the calling thread.

### Inventory

| part | source | state it keeps | operations | what makes it correct |
|---|---|---|---|---|
| window pool | `exynos_drm_drv.c` 143-306 | `available_win_mask` in a private object, `reserved_win_mask` per CRTC state | check, drop, swap | no window leaked or shared, none enabled in two DECONs |
| atomic commit path | `exynos_drm_drv.c`, `_fb.c`, `_crtc.c` | CRTC states, the commit in flight, `active_state` | check, commit, tail, disable, enable | DECON goes through its states in order, no deadlock |
| hibernation | `exynos_drm_hibernation.c` | `block_cnt`, delayed work, `enabled` | block, unblock, handler, sync and async exit, suspend | an idle display sleeps, a used one does not |
| DECON | `exynos_drm_decon.c` | `state`, runtime PM, vblank interrupt, `event`, `frames_pending`, `te_ref`, `tout_ref` | enable, disable, hibernate, flush, wait for flip, interrupt handlers | one event per commit, no stop in the middle of a frame |
| recovery | `exynos_drm_recovery.c`, `_crtc.c` 547-679 | `recovering`, saved state | trigger, suspend, resume | the display comes back, a second trigger is not lost |
| DSIM | `exynos_drm_dsim.c` | `state`, runtime PM, packetgo queue, HS clock | enable, disable, ULPS, transfer, restart | FIFOs fit, nothing stays queued, references balance |
| DisplayPort | `exynos_drm_dp.c` | HPD state, works, link, power, DRM and audio state | HPD report, plug, unplug, IRQ, enable, disable, audio | an unplug powers down, audio and output follow the connection |
| trusted UI | `exynos_drm_tui.c`, `_drv.c` 774-977 | `tui_enabled`, saved state, `dp_tui_lock` | enter, exit | excludes DP; exit restores what enter saved |
| panel core | `panel/panel-samsung-drv.c` | power and panel state, mode, local HBM, idle, backlight | bridge callbacks, sysfs, works | commands reach a powered panel, which shows what DRM asked for; local HBM and idle follow the settings |
| panel models | `panel/panel-*.c` | register tables, a cache of what was sent | mode, feature and brightness commands | a skipped command was not needed |
| DPP, planes | `_dpp.c`, `_plane.c` | state, DECON and window of each DPP, protection | check, update, disable | windows, DPPs and protection are those of the state |
| partial update | `_partial.c` | region, slices | prepare, update, restore | the region agrees everywhere, no line is left out |
| BTS | `_bts.c` | table of windows, last and next vote | calculate, update, release | what is fetched is covered by votes, nothing is voted for a display that is off |
| DQE | `_dqe.c` | colour settings | check, update | |
| writeback, connector, GEM, format | `_writeback.c`, `_connector.c`, `_gem.c`, `_format.c` | jobs, properties, buffers | plumbing | |
| DP audio DMA | `dp_audio/` | stream state | ASoC callbacks | handshake with DP |
| debug | `_debug.c` | event log | dumps, switches | |
| register layers | `cal_9820` ... `cal_9865`, `cal_common` | hardware | register sequences | |

### How the parts interact

* Commits meet in the modeset lock, the window pool (private object lock), the DRM core's
  `flip_done`/`hw_done` and the worker of the DECON, which also runs the hibernation handler.
* Hibernation submits commits of its own and is blocked by commit tails, vblank users, debugfs and
  sysfs through one counter. Entering takes runtime PM references away from DECON and DSIM.
* Interrupts (TE, frame start, frame done, dimming) complete commits; a timeout completes them
  otherwise and triggers the recovery, which commits twice itself.
* DSIM commands come from commit tails and from threads of the panel core at any time; each takes a
  runtime PM reference that wakes the link.
* DP works run on one queue against DRM commits, ALSA, and the trusted UI (`dp_tui_lock`).

Hard: the interleavings of these threads, timeouts against late answers, values read under one lock
and used under another, partial failure of multi-step commits. `PROJECT.json` lists the hazards at
their lines, each with the properties that would show it or the reason why none does.

## 2. Modules

Each module names its source at the head; `PROJECT.json` maps every definition to lines.
Definitions marked *Mutant* are deliberately wrong variants; replacing the definition after them by
one shows that a property depends on the code it is about. They are not part of any specification.
The theorems about a module are in the `...Proofs` module named with it (section 5).

**Windows** (`MCWindows`, `WindowsProofs`). A thread works through the CRTCs of
an atomic state on private copies (`txn`), as `exynos_atomic_check_windows` does: unchanged, shrink,
grow, and the failure for lack of windows; then it drops the state or swaps it in. The first use of
the private object takes its lock. `pending` holds states whose tail has not run; `CommitTail`
programs the DECONs (`hw`), last. Planes are abstract; positions of visible planes are an input.
A swap waits for the tails of its own CRTCs only, so tails of different CRTCs lag behind in any
order. The constant `ActiveOnly` allows ACTIVE to be cleared alone.

**WindowPool** is the abstract specification of that pool: each window has one owner or is free, a
commit moves windows between an owner and the free ones, never from owner to owner, and each client
either takes or gives. `Windows` implements it (`ImplementsPool`) with `owner` mapped to the reserved
masks of the swapped-in states.

**Planes** (`MCPlanes`, `PlanesProofs`) starts where the pool ends: its commits take a step of `WindowPool`, and the
commit tails of two CRTCs, each on its own worker, turn planes into windows and DPPs. `dpp` holds
`state`, `decon_id`, `win_id` and `is_win_connected`; `window` what each DECON has enabled; `mask`,
`protected` and `forwarded` the protection of secure buffers, whose SMC may fail.

**Hibernation** (`HibernationProofs`). One command-mode CRTC. Threads with program counters: the worker
(hibernation handler and queued commits), users (flip, on, off, early wakeup, debugfs, vblank) and
system suspend. The commit path is one sequence of actions `Commit...`, `SwapState`, `Tail...` used
by all of them. `blockCnt`, `dwork`, `queue`, `canceling` are the counter and the kthread machinery;
`decon`, `pm`, `powered`, `active`, `vblank`, `event` the DECON.

**Frame** (`FrameProofs`). The completion event of a commit, frames in flight, interrupts, flip timeout and the
recovery work with its two commits. The hardware may start and finish a frame, or stay silent for
ever. `decon->slock` makes handlers and locked sections single steps; the two parts of a frame start
that the code does under different locks are separate actions.

**Dsim** (`DsimProofs`). The DSI link: `state`, runtime PM (`rpm`, its sticky error, `usage`), the interrupt depth,
system suspend, and transfers with `cmd_lock` and the packetgo queue (`pendPh`, `pendPl`) over the
hardware FIFO (`fifo`). A commit tail and another thread send single commands, sets (queued commands
and a last one), batches and reads. Payloads count in FIFO words; they fit when `Layouts`, the ways
to lay them one after another, is not empty.

**DisplayPort** (`DisplayPortProofs`). HPD reports, the plug, unplug and IRQ works with each of their waits as an action,
DRM commits and the connector check, ALSA, and `dp_tui_lock` with the trusted UI at the other end.

**Tui** (`TuiProofs`). Entry and exit of the trusted UI over several CRTCs, by two callers: hibernation block,
`dp_tui_lock`, modeset locks, the saved state, the power reference of each active CRTC, the commit of
all of them, and every failure on the way with what it undoes. Commits, wake-ups and hibernations of
others, and DisplayPort, run beside it. A CRTC whose connector knows self refresh goes to bypass, any
other is switched off.

**Partial** (`MCPartial`, `WindowsProofs`). The update region as a range of lines, in the five places where it has to
agree, and the picture line by line (`stale`). A commit adjusts the request to slices, cuts planes,
checks the limits of the DPPs, and programs what changed. Requested regions and destinations of
planes are taken to be non-empty: `exynos_drm_partial.c` does not test it and relies on user space
(`PartialRectsAssumption`).

**Bandwidth** (`MCPlanes`) extends Planes: the same commit tails with the votes of BTS around them.
`PreUpdate` runs after what a tail disables and raises votes, `PostUpdate` runs after the flip and
lowers or releases them; between them other tails change the tables that every DECON adds up.
`shown` is what each DECON fetches as of its last flip.

**Panel** (`PanelProofs`). Supplies, reset, `panel_state`, backlight and VDDD of a panel under the bridge callbacks
of the commit tail, with the writes to `brightness` and `force_power_on` between them. The chip is
what supplies, reset and commands make of it, and `lost` notes a command it cannot hear.
There is a brightness level for each of the two low-power bins of the s6e3hc4 (up to 80 and up to
2047) and one above them, which `exynos_panel_set_binned_lp` ignores: neither the bin nor the state of
the backlight device changes then, and `BacklightAgrees` claims nothing of them. `is_pixel_off` is left out.

**LocalHbm** (`PanelProofs`). Local high brightness: request and effective state, the timeout work and the post work,
and the thread that disables it and drops `mode_lock` in the middle. Two kinds of panel, with and
without a post work.

**PanelIdle** (`PanelProofs`). The s6e3hc4 under the idle work of the panel core: modes, features, automatic rates,
sysfs settings, and the cache (`drv`) by which the driver skips commands, against the registers of
the chip (`registers`).

`Windows` and `Planes` compose through `WindowPool`, and every step of `Bandwidth` is one of `Planes`
or leaves it unchanged. The other modules share no variables: what
connects two parts is modelled in both at the abstraction each needs (a commit tail in Windows is one
step, in Hibernation ten, in Frame the part around a frame, in Planes its loops over planes).

## 3. Runs

| run | question | bounds |
|---|---|---|
| `windows_check` | is the pool partitioned, does each CRTC have what its planes need, do the registers follow the states, is it the abstract pool | 2 windows, 2 CRTCs, 2 planes, 2 threads, symmetry of planes and threads |
| `windows_overlap` (violation) | can two DECONs have a window enabled | the same |
| `hibernation_paths` | do count, DECON, CRTC state and locks agree, do handler and commits never wait for each other, does every request end and an idle display sleep | 2 users, worker, suspend, 3 requests, fairness |
| `frame_recovery` | one event and one vblank reference per commit, stops between frames, recovery of stuck frames only, display restored, everything ends | 3 commits, 1 debugfs trigger, all faults, two kinds per behaviour, fairness |
| `dsim_commands` | FIFOs, references, link states, sets sent whole, queue drained | FIFO of 3 headers, 8 words, threshold 6, payloads 0, 2, 6, 2 senders, 2 messages beyond those that close a set or batch, fairness |
| `displayport_hpd` | power down after every unplug, output and audio follow the connection, TUI excluded | 8 HPD events, fairness |
| `tui_calls` | do references balance, does nobody else run the display meanwhile, does nothing stay behind | 2 CRTCs of both kinds, 2 callers, 3 calls, 3 commits of others |
| `partial_regions` | does the region agree in all places, is every line right, are the limits of DPPs kept | 4 lines, slices of 1 or 2, 2 planes, 3 requests, 4 commits |
| `planes_wiring` | after each commit, are windows, DPPs and protection exactly those of the state; is what the DECONs fetch always covered by their votes | 2 CRTCs, 2 planes, 2 windows, 3 commits, symmetry of CRTCs |
| `panel_states` | do supplies, commands, voltage and backlight go with the state, does the panel show what DRM asked for | 7 commits, 4 writes |
| `localhbm_requests` | is local HBM on only under a lit picture, does it survive a recovery, does it time out | 4 commits, 2 writes, fairness |
| `panelidle_rates` | were skipped commands unnecessary, does the rate follow the mode, does each setting reach the panel | 5 commits, 3 writes, fairness |

Why the bounds suffice. Two windows and two CRTCs with two planes make the pool run dry and a window
change its owner; two threads make two checks meet at the private object. Three requests make an
entry, an exit and a commit or a suspend meet; a fourth was tried for the safety properties and adds
nothing. Three commits cover a frame, one that times out (the two of its recovery are not counted)
and one after it; recoveries may follow each other for ever, since names of commits are used again.
All kinds of faults in one behaviour (`MaxFaults = 5`, 2 300 000 states) were tried for the
invariants, and four commits or two triggers for everything, with the same result. The link's FIFOs are scaled so that a full header FIFO, a full payload
FIFO and the 75% threshold all come within reach of one set. Eight HPD events are more than the works
can have pending (three) twice over. Three calls of two callers cover an entry, an exit and a call
that meets either. Four lines hold two coarse slices, so that a region can begin inside one and end
in the next. A plane moves from one CRTC to the other in three commits, and a
CRTC hibernates and wakes; with four commits (6 900 000 states) everything was found to hold as well,
and it takes four for `color_reinit` and `kept_table` below. Seven callback sequences of the panel go through off, lit, low power, self
refresh and blank and back, in every order; five commits do this for the rates and four for local
HBM, whose timer and works run between any two. All bounds are CONSTANTS in the guards.

Deadlock is not checked: in every module the environment may simply stop making requests. The
liveness properties and `NoCircularWait` say what must not get stuck.

### Fairness

* Hibernation: the worker, the timer, interrupts with their timeouts and threads inside a request
  run, and the camera stops sometime; all of it weak. New requests are never required.
* Frame: commit tails and the recovery work run (weak); the hardware gets none, it may stay silent.
  `RecoverySuspends` is strong because `drm_modeset_backoff` waits for the contended lock.
* Dsim: a transfer runs on, strongly because `cmd_lock` is contended but its holders let go after
  a time limit; panel code sends what ends the set or batch it began.
* DisplayPort: works, commit tails that have begun and ALSA's answers (weak). The three unplug steps
  under strong fairness are only held up by the guards that exclude a race; in the code they never
  block. DRM clients may never answer.
* LocalHbm: timers expire, queued works run, and threads that hold or wait for `mode_lock` go on
  (weak); nobody has to ask for anything.
* PanelIdle: tails go on, the delay passes, and the idle work gets its turn (weak): it is queued on
  the system workqueue, and `mode_lock` is held for a bounded time.

### What the passing runs leave out on purpose

These are real races of the code, or inputs its callers avoid; each is a constant, so that a run
without the exclusion shows what happens. For each the first property that fails was found by TLC.

| constant | excluded | what happens with it |
|---|---|---|
| Windows `ActiveOnly` | ACTIVE cleared alone | the windows stay reserved, `ReservedMatchesNeed` fails |
| Hibernation `BlockOverPending` | a blocking commit over a pending frame | a deadlock described below, `NoCircularWait` fails |
| Hibernation `TimerRaces` | 50 ms pass inside handler or suspend | suspend succeeds with DECON on, `SuspendPowersDown` fails |
| Hibernation `ActiveOnly` | DPMS off in self refresh | DECON resumes from a state that is not self refresh, `DeconSound` fails |
| Frame fault `late_irq`, `late_start` | frame start around the check of the timeout | a frame that started counts as stuck, `RecoversStuckOnly` allows it only then |
| Frame fault `dimming`, `late_mask` | DQE dimming keeps the trigger unmasked; trigger masked late | frames nobody counts, `StopsIdle` allows it only then |
| Frame fault `lock_contention` | `-EDEADLK` | the recovery reports success over a dark display, `RecoveryRestores` allows it only then |
| Dsim `garbage_last` | begin of a batch flushes another thread's queue (uninitialised `is_last`) | packets leave before their set is ready, `SetsWhole` fails; with four messages the FIFOs overflow, `FifosSound` fails |
| Dsim `Payload` above `Threshold` | a single command longer than 1536 bytes | its length stays in `total_pend_pl` after it was sent (`exynos_drm_dsim.c:2412`, `:2724`), the next commands are refused, `FifosSound` fails |
| Dsim `restart` | HS clock change with a set half queued | the FIFOs are reset under the counters, `SetsWhole` fails |
| Dsim `read` | read with a set half queued | two headers nobody counts, `FifosSound` fails |
| Dsim `disable` | DSIM disabled with a set half queued | `SetsWhole` fails |
| Dsim `bypass_transfer` | transfer while bypass ends | sticky runtime PM error, `LinkSound` fails |
| Dsim `long_last` | last command of a set longer than a quarter of the FIFO | refused, the set stays queued, `QueueDrains` fails |
| DisplayPort `late_enable` | commit enables after the unplug | DP runs without power, `OutputSound` fails |
| DisplayPort `late_check` | check overtaken by an unplug | audio of an unplugged display, `AudioSound` fails |
| DisplayPort `stale_hpd` | failed plug overwrites a newer state | unplug dropped, power stays, `UnplugPowersDown` fails |
| DisplayPort `sink_leaves` | sink lost during training | output over an untrained link, `OutputSound`, `AudioSound` and `UnplugPowersDown` fail |
| DisplayPort `slow_audio` | ALSA slower than the unplug waits | output loses power under audio, `AudioSound` fails |
| Tui `exit_twice` | two callers leave at once | references put twice, `PowerSound` fails |
| Tui `exit_fails` | the commit of the saved state fails | the state is never restored, `DisplayReturned` fails |
| Tui `wake_fails` | the commit that ends hibernation on entry fails | a reference leaks, `PowerSound` fails |
| Partial `skipped_wake` | woken without a frame while the region is partial | state full, panel partial: `RegionAgrees` fails |
| Partial `skipped_off` | a commit that only turns planes off wakes the display | their lines stay, `PictureWhole` fails |
| Partial `skipped_frame` | fence timeout skips the frame | region and picture are taken as sent, both properties fail |
| Partial `later_planes` | a plane after an unsupported one is not in the commit | it keeps cut coordinates, `PictureWhole` fails |
| Partial `odd_height` | a cut leaves an odd number of lines of a YUV buffer | commit refused, `DppLimitsKept` fails |
| Partial `unchanged_region` | a plane changes kind or place under a region that stays | limits not checked again, `DppLimitsKept` fails |
| Partial `no_planes` | a commit leaves no plane | `PictureWhole` fails |
| Partial `test_only` | TEST_ONLY with another mode | `decon->partial` is that of the tested mode, `RegionAgrees` fails |
| Planes `color_reinit` | a DECON is reset while another shows a color map | its DPP state is cleared, `WiringExact` fails |
| Planes `kept_color` | an invisible plane follows a commit without planes | the fallback color map stays, `WiringExact` fails |
| Planes `mask_race` | tails of two CRTCs change `secured_dpp_mask` at once | a bit is lost, `ProtectionSound` fails |
| Bandwidth `sum_race` | a DECON adds the table of one that is about to fetch less | no vote bears both, `VotesCoverDisplay` fails |
| Bandwidth `mixed_vote` | one part of a vote rises while another falls | the falling part is voted before the flip, `VotesCoverDisplay` fails |
| Bandwidth `kept_table` | planes are taken from a CRTC that is off, then it wakes without planes | it votes for their stale entries, `VotesCoverDisplay` fails |
| Bandwidth `first_start` | after its first start since probe, which clears the table (`exynos_drm_decon.c:1616`), a CRTC's commit leaves out a plane that is on; user space that lists all planes in each commit does not | it votes as if that plane were off, `VotesCoverDisplay` fails |
| Panel `force_dark` | `force_power_on` set while the panel is off | supplies enabled twice, `PowerSound` fails |
| Panel `brightness` | panel disabled between the check and the lock of a write | a command to a dead panel, `PowerSound` and `BacklightAgrees` fail |
| Panel `brightness_boot` | a level written under the boot loader's picture | the reset of the first mode set loses it, `BacklightAgrees` fails |
| Panel `modeset_lp` | low power entered or left by a full mode set of a lit panel | all three properties fail |
| LocalHbm `reenable` | asked for while a thread that disables it waits | ENABLING with no work to end it, `LhbmSound` fails |
| LocalHbm `double_disable` | a second thread disables it meanwhile | all three properties fail |
| LocalHbm `store_check` | the panel leaves NORMAL between check and lock of a write | local HBM in low power, `LhbmSound` fails |
| LocalHbm `stale_request` | a recovery finds a request that was never taken back | it switches local HBM on, `RecoveryKeepsLhbm` fails |
| PanelIdle `op_hz_lp` | `op_hz` set in low power | low-power registers overwritten, `ChipSound` fails |
| PanelIdle `over_op_hz` | a mode faster than `op_hz` | the chip stays slower, `RateFollowsMode` fails |
| PanelIdle `hbm_auto` | HBM by sysfs while the panel is in self refresh | automatic rates under HBM, `IdleSound` and `IdleReached` fail |

In Frame nothing excludes a debugfs trigger while the recovery runs: the end of that run clears the
flag of the next (`exynos_drm_recovery.c:57`), whose own frames then trigger further recoveries, and
with a silent panel the chain does not end though each run does, which is all `RecoveryReady` asks.

Also seen in Hibernation, where no constant excludes them and no property asks for them: debugfs
`disable` does not wait for a queued entry commit (`exynos_drm_debug.c:1589`); a vblank request
between the stop of DECON and `drm_crtc_vblank_off` finds DECON off (`exynos_drm_crtc.c:149`); a
suspend given up with `-EAGAIN` does not queue the delayed work again (`exynos_drm_hibernation.c:391`),
which `IdleDisplayHibernates` names as its exception. Runtime PM finds DECON still ON when a mode
change drops the last reference before it turns DECON on again.

## 4. Findings

The violation run `windows_overlap` contradicts a comment of the code: `exynos_drm_drv.c:229` wants
freed windows to go to the next CRTC "only after commit to hw is done". They are back in the mask
once the state is swapped in, as the FIXME at line 296 admits, so in the run a CRTC enables a window
that another DECON still has enabled. What does hold is `OverlapPasses`: the first DECON's own tail,
already queued, takes the window from it.

No comment speaks of the deadlock that TLC finds in `Hibernation` with `BlockOverPending = TRUE`
(`NoCircularWait` fails within three requests): a nonblocking commit is queued on the kthread worker
of its DECON while the hibernation handler runs there and waits for the modeset lock, and a blocking
commit holds that lock while it waits, in `drm_atomic_helper_swap_state`, for the queued one. Nothing
else makes them stall (`NeverStalls`, section 5); the nonblocking commits that stall after self
refresh or hibernation (`exynos_drm_drv.c:694`) do not.

The table above lists the other disagreements between threads that the models show.

## 5. Proofs

TLC checks the instances of section 3; the theorems below hold for every value of the constants
(any number of windows, planes, CRTCs, senders, requests and events, any size of FIFO). Where the
code needs its callers to avoid a race, the race is a hypothesis of the theorem, with the name it has
in the table of section 3; a theorem without hypothesis holds whichever races happen.

Each theorem rests on an inductive invariant, which says of every intermediate step what the checked
property says of the ends. Each was first checked by TLC as an invariant of the run of its module, that
of Dsim also with the races enabled that the theorems admit. The proof that
a step preserves it has one lemma per action, or per group of actions that touch the same part.

**WindowsProofs**, for every `ActiveOnly` unless said otherwise:

* `TypeCorrect`: `Spec => []TypeOK`.
* `PoolPartitioned`: `Spec => [](PoolSound /\ ChecksConserve)`.
* `RestsInPool`: `Spec => NeverHandedOver`, so a window rests in the pool between two owners.
* `NeedMet`: without `ActiveOnly`, `ReservedMatchesNeed`.
* `OverlapEnds`: `OverlapPasses`.

`PoolSound` is `TypeOK` and `WindowsPartitioned`, which speaks of swapped-in states only and is not inductive: a swap replaces masks by
what a check computed. The invariant adds what a check in progress preserves: `LocksHeld` (who locks
a CRTC or the private object, and that only a check with that lock has windows of its own) and
`ChecksConserve` (the windows a check has free, freed or reserved are exactly those of the states it
has locked, without overlap). `SwapInv` turns conservation per check into the partition after the
swap; `OwnStep` says that a step of one thread leaves the others' checks alone. `RestsInPool` also
needs `TakesFromPool`: a check reserves only windows its CRTC had or the pool had, never those freed
in the same check. `NeedMet` adds `CountInv`: what a check knows of each new CRTC state before and
after its loop has come to it, and what `FindSetBits` returns. `OverlapEnds` adds
`Follows`: a DECON has a window that its CRTC has not reserved only before that CRTC's tail, which
disables it. A swap finds the registers of its own CRTCs up to date, since it waits for their tails, and
a tail enables only what is reserved; with the partition, two DECONs have a window both only until
one of them loses it. Assumptions: `WindowsAssumption` (positive
counts, booleans, `NoThread` is none).

The same module proves the refinement, for the same values of the constants:

* `PoolImplemented`: `Spec => ImplementsPool`. The initial masks map to a free pool; a swap maps to
  `Resize` and every other step leaves `owner` alone. That no window goes from owner to owner is the
  argument of `RestsInPool`; that a client only takes or only gives needs one more invariant,
  `OneWay`: during a check the mask of a CRTC has either grown or shrunk against the swapped-in
  one, because each CRTC is looked at once.

and the other thing an atomic check decides, the update region of `Partial`, for every display,
height of slices, request and place of the planes:

* `RegionCorrect`: without `skipped_wake`, `skipped_frame` and `test_only`, `RegionAgrees`.
* `PictureCorrect`: without `skipped_wake`, `skipped_off`, `skipped_frame`, `later_planes` and
  `no_planes`, `PictureWhole`.
* `LimitsKept`: without `odd_height` and `unchanged_region`, `DppLimitsKept`.

Each theorem admits the races that its hypothesis does not name. `WindowInv` says where the copies
of the region in panel and DECON are those of the CRTC state while the display sleeps or runs;
`CutInv` that under a partial region every visible plane is one its DPP can be cut to, and is cut;
`DstInv` and `OffInv` that the coordinates of every plane are those of its place in the present
region, and `CoverInv` that this region holds every line user space spoke of. `RoundDown`, `RoundUp`
and what follows from them say that rounding to slices covers what it rounds, and `LineKept` that
cutting a plane and placing it in the region moves no line of the picture.

**HibernationProofs**, for any number of users and requests:

* `TypeCorrect` and `BlockCounted` (`BlockCountExact`), whatever commits and timers do.
* `DeconFollows`: without `ActiveOnly`, `DeconSound`.
* `SuspendEndsDark`: without `ActiveOnly` and `TimerRaces`, `SuspendPowersDown`.
* `NeverStalls`: without `BlockOverPending`, `NoCircularWait`, so that the deadlock of section 4 has
  no other cause.

`Base` holds always: `SerialInv` (one commit is between swap and `hw_done`, in the queue or with one
thread), `OwnInv` (what each thread holds, hence what it counts in `block_cnt`), `ActiveInv` and
`PowerInv` (`active_state`, DECON and its runtime PM reference between the steps of a tail) and
`CountInv`. `DeconInv` adds what DECON shows at each step: the old state until it is disabled, then
what is left to enable. `SuspendInv` follows suspend from the flush of the worker to its return;
`MutexInv` keeps the handler's entry out meanwhile. `StallInv` holds what keeps handler and commits
apart: `FlipInv` (the flip of a queued commit is not done, so a nonblocking flip over it gets
`-EBUSY`), `OverInv` (what is swapped over it follows an entry or an exit), `EntryInv` (a queued
entry is at the head of the queue, and the handler does not run before it), `ApartInv` and `ExitInv`
(an exit keeps the handler out, queued or not; this needs `DarkInv`, that DECON is not ON for a CRTC
that is not active) and `CancelInv` and `KindInv` under them. Counting over an unbounded set of threads uses
`Holders`, a finite set; `HibernationAssumption` says threads are finitely many.

**FrameProofs**, without hypotheses on the faults:

* `EventsSentOnce` (`EventsSound`), `HardwareAgrees` (`FramesSound`), `RecoveryLightsUp`
  (`RecoveryRestores`), `TypeCorrect`.

`EventInv` is the centre: `Open(i)` lists the places an unsent event can be in (`decon->event`, the
vblank list, a tail that has not flushed), and each event is sent once exactly when it is in none.
`TailInv` ties the step of the tail to the commit it carries, `ShownInv` a pending or served frame
start to an update taken over, `TriggerInv` and `StuckInv` the trigger to a frame under way,
`CountInv` bounds `frames_pending` from below by the frame in transfer, the one whose interrupt is
pending and the one to come, and `RecoveryInv` follows the recovery through its two commits under one
modeset lock. The faults that `FramesSound` and `RecoveryRestores` admit are in the properties.

**DsimProofs**, for any number of senders and FIFOs of any size:

* `TypeCorrect` and `ReferencesBalance` (`UsageBalanced`), whichever races happen.
* `LinkAgreed`: without `bypass_transfer`, `LinkSound`.
* `SetsKeptWhole`: without `garbage_last`, `restart` and `disable`, `SetsWhole`.
* `FifosNeverOverflow`: without `garbage_last` and `read`, `FifosFit`, for commands of every length.
* `NothingRefused`: if no single command is longer than the threshold, `NeverRefuses`; with both,
  `FifosCorrect` is `FifosSound`.

`Wire` ties `cmd_lock`, the commit tail, system sleep, the sticky error of runtime PM and the
interrupt to the link; `UsageBalanced` is inductive on top of it (`ActiveMoves` counts the
transfers). It implies `Quiet`: without references no transfer is under way and nothing is queued,
which is why ULPS never cuts a set. `HeldInv` relates the FIFO to the counters at each place of
`cmd_lock`: what is held back is counted, and nothing is in the FIFOs of a free link with an empty
queue unless the panel is stuck. `RoomInv` says the same of the room left, and `FitInv` that the
queued packets are among those counted. That payloads fit is stated without a recursive sum: a
*layout* is a sequence of ends, each payload after the one before, and `Layouts` are those that stay
within a number of words (`AppendLaid`, `TailLaid`).

**TuiProofs**, for any number of CRTCs and callers:

* `PowerBalanced` (`PowerSound`), `OwnsDisplay` (`TuiOwnsDisplay`), `TypeCorrect`: without
  `exit_twice` and `wake_fails` (`Orderly`).
* `NothingStays` (`DisplayReturned`): in addition without `exit_fails` (`Restores`).

`LocksInv` says which one caller owns the half-entered system, `CrtcInv` which CRTC state and DECON
state go together, `EnterInv` and `WokenInv` what a caller that enters has prepared, `BlockInv` and
`PowerInv` who holds each block and each reference at each step, failures included.

**PlanesProofs**, for any numbers of planes, DPPs, windows and CRTCs:

* `Protected`: without `mask_race`, `ProtectionSound`.
* `WiringKept`: without `color_reinit` and `kept_color`, `WiringExact`, whether tails change
  `secured_dpp_mask` at once or not.
* `VotingImplementsTails` (`BtsSpec => Spec`), and through it `ProtectedWhileVoting` and
  `WiringKeptWhileVoting`.

`Apart` (two CRTCs never touch the same plane) keeps one tail's steps out of another's DPPs. For
protection, `SecureInv` and `ForwardInv` speak of the SMC under way, and `DppInv` says for each plane
whether its protection is already that of the new state.

For the wiring, `WindowOfRank` and `RanksDiffer` say that `decon_get_win_id` finds one window for
each zpos, another for each (a counting argument over the finite set of reserved windows). `WInv`
splits the windows of a running DECON at every point of a tail: a plane that is done is `Wired` to
the window of its zpos, and a window that no visible plane takes is `Stale`: dark, or still showing a
plane on the list of the tail that remembers this window and will darken it. The proof of a commit is
where this is hard: if the order changed, everything the old windows show must be on the list, which
is what the helpers see to; if not, the reserved windows are the same set, since the pool only grows
or shrinks it and the counts agree. `KnownInv` justifies that the `win_id` of a connected plane
is used as it is when the zpos did not change; `DppOwned` and `OffUnlessOwned` say that a reset DECON takes no
DPP from another one. `Untouched` and `TailKeeps` do the other CRTCs once for all steps.

For the votes, `VotesKept`: without `color_reinit`, `kept_color` and the four races of Bandwidth,
`BtsSpec => []VotesCoverDisplay`. The bound on the votes of all CRTCs together is a maximum, so
`BandwidthAssumption` says that there are finitely many CRTCs, and at least one. `VotesCoverDisplay`
compares the hardware with votes made earlier, by tails that read each other's tables, and is not
inductive; `BInv` has four parts:

* `TableInv`: what stands in a table for each window is what the state fetches there, or the tail
  will still write it before it votes (this rests on `WInv`); or the whole table has been cleared, as
  it is by the first start, and then without `first_start` the next commit fills it.
* `RestInv` and `MidInv`: between tails a vote is that of the state, or nothing; between the two
  votes of a tail it covers both the need and the previous vote, whichever part of it rises.
* `PeakInv`: of any set of CRTCs, one has a peak that bears what all of the set fetch or may fetch
  before their next vote (`Bears`), and that still stands when its tail has ended (`Stands`). This
  is what "the interconnect grants the maximum" comes to: no CRTC by itself need cover all, and
  the one that does changes with every tail, so it must hold of every set and not only of all.
* `FallInv`: the new peak of a CRTC about to fetch less bears the others as well, and without
  `sum_race` none of those votes for more until it has flipped.

The sums are those of the model, folds over windows and over CRTCs. The prover cannot do induction
over data, so a sum is identified with the cardinality of a set of blocks, one per unit of load
(`SumIs`, by a smallest subset for which it would be wrong); that sums grow with their terms and
split over unions are then facts about cardinalities (`SumLaws`, `SumMonotone`, `SumBelow`).
`PeakStep` is the argument about maxima, once for all actions.

**DisplayPortProofs**, for any number of HPD events:

* `TypeCorrect`, whichever races happen.
* `OutputKept`: without `late_enable` and `sink_leaves` (`Answers`), `OutputSound`.
* `AudioKept`: moreover without `late_check` and `slow_audio` (`Waits`), `AudioSound`.

`CallInv` says which work called the two helpers that several share, at each place inside them, so
that they return to where they came from. `PowerInv` says that `HPD_PLUG`, power, wakeup source and
`dp_tui_lock` come and go as one and that no work does more without them. `ConnInv` is what a work
knows of the connection: DRM is asked to enable only an output that is connected, and a connected
output has a trained link and a sink unless a work is about to disconnect it. `AudioInv` says that
what was announced to ALSA or confirmed to user space, or is about to be, dies with the connection.
`stale_hpd` may happen in all three: it costs a power down, which is liveness.

**PanelProofs**, whatever the bounds, extends the three parts of the panel driver (they share no
state; definitions of `LocalHbm` and `PanelIdle` carry their prefix so that one module can). Of
`Panel`, without `force_dark`, `brightness` and `modeset_lp` (`Sheltered`):

* `PowerKept` (`PowerSound`) and `ModeKept` (`ShowsWhatDrmAsked`).
* `BacklightKept` (`BacklightAgrees`): moreover without `brightness_boot`.

`TailInv` says of each sequence of callbacks still to come what DRM, panel state and supplies are;
`ChipInv` and `SupplyInv` what the chip does then, `VoltInv` and `WriterInv` what VDDD and an
interrupted write to `brightness` may assume. `LightInv` adds backlight and brightness, which agree
only when no write and no callback is under way (`Quiescent`). The first attempt failed for a reason:
a `CASE` of the model had two guards that can both hold, where the code has a chain of `else if`; it
is a chain now. Of `LocalHbm`:

* `LhbmCorrect` (`LhbmSound`): without `reenable`, `double_disable` and `store_check` (`Exclusive`).
* `RecoveryKeeps` (`RecoveryKeepsLhbm`): in addition without `stale_request`.

`Turns` says that one thread at a time is between unlock and relock and that the request stays
dropped meanwhile; `RequestInv` what a recovery knows of the request at each of its steps. Of
`PanelIdle`:

* `ChipCorrect`: without `op_hz_lp`, `ChipSound`.
* `RateCorrect`: moreover without `over_op_hz`, `RateFollowsMode`.
* `IdleCorrect`: without any race, `IdleSound`.

Every operation of the panel driver is an operator on a pair of driver memory and registers, and each
has a lemma: `Cached(p)` (the registers are those its memory stands for) is kept although commands
are skipped, and `Awake(p, m)` (features, rates and refresh rate are those of mode `m`) is
established or kept. `IdleLifeInv` ties the callbacks still to come to panel state and mode;
`IdleChipInv` and `IdleRateInv` apply the two to the states that need them, and `IdleInv` adds what
the settings, the automatic rate and the idle work owe each other while a change is on its way.

Assumptions on constants are named in the modules that declare them; besides types they say that
threads, planes, users and senders are finite sets, that the distinguished ones are among them,
that the FIFOs hold more than one header, and that regions and destinations are not empty. Facts about all members of a finite set are proved through
cardinalities and minimal elements, not by induction over data.

Only model-checked: liveness and what depends on ENABLED (`RequestsEnd`, `IdleDisplayHibernates`,
`WorkEnds`, `QueueDrains`, `UnplugPowersDown`, `LhbmTimesOut`, `IdleReached`), which the prover does
not reach. Every other property of the passing runs is stated by a theorem.

## 6. Not modelled, and why

* The register layers (`cal_*`, a third of the source) write sequences to hardware and keep no state;
  the tables of panel models, formats and gamma are data. Together with headers, dumps and the
  plumbing of sysfs, debugfs and device tree they are most of the lines of the repository, so the
  models cover a small part of its lines though most of its control.
* Of BTS the formulas, the refresh rate and its delayed changes, rotation, writeback, RCD, scenarios
  and the urgent latency; DQE is tables under one lock.
* Writeback: the queue of its jobs and their completion are those of the DRM helpers.
  Read but not checked: `drm_writeback_queue_job` takes the job out of the connector state, so the
  old state that `exynos_atomic_bts_pre_update` looks at (`exynos_drm_fb.c` 425-436) has none and the
  write bandwidth stays in the table after the last job.
* Panel models other than the s6e3hc4: their control repeats it, or they have none.
* HDCP, EDID, PHY tests, BIST and the reboot notifier of DisplayPort; link training below its
  outcome; `dp_enable` and `dp_disable` are single steps.
* Video mode and dual DSI; `te_ref` and `tout_ref`; fences, except one that times out in `Partial`;
  `cleanup_done` waits of the DRM core; the `-EDEADLK` retry of user commits (it drops all locks and
  starts over).
* `Frame` leaves out CRTCs that get no window; that a skipped update which times out also zeroes the
  frame count of an older frame is part of `TailGivesUp`.

## 7. Plan

The modules planned are written, each with a passing run, and every safety property of the passing
runs is proved. What is left: models of other panels, where one adds control of its own to that of
the s6e3hc4.
