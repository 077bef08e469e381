------------------------------ MODULE Windows ------------------------------
(***************************************************************************)
(* The pool of DECON blending windows that all CRTCs share                 *)
(* (exynos_atomic_check_windows, exynos_drm_drv.c) and what the commit     *)
(* tails program into the window registers (exynos_drm_decon.c).           *)
(*                                                                         *)
(* A thread checks an atomic state CRTC by CRTC on private copies of the   *)
(* CRTC states, then drops it (TEST_ONLY, error) or swaps it in; the       *)
(* hardware follows later, when the commit tail runs.  The free windows    *)
(* live in a private object whose lock a check takes on first use.         *)
(***************************************************************************)
EXTENDS Integers, FiniteSets

CONSTANTS
  NWin,          \* MAX_WIN_PER_DECON: windows of the display unit
  NCrtc,         \* number of CRTCs
  Plane,         \* planes that are not RCD planes
  Thread,        \* threads that issue atomic commits
  NoThread,      \* nobody holds the private object's lock
  ActiveOnly     \* may ACTIVE be cleared without disabling the CRTC (DPMS)?

ASSUME WindowsAssumption ==
  /\ NWin \in Nat \ {0}
  /\ NCrtc \in Nat \ {0}
  /\ IsFiniteSet(Plane)
  /\ ActiveOnly \in BOOLEAN
  /\ NoThread \notin Thread

Win  == 0 .. NWin - 1
Crtc == 0 .. NCrtc - 1

(* drm_crtc_state and the exynos_drm_crtc_state fields that the check uses. *)
CrtcState == [enable : BOOLEAN, active : BOOLEAN, sr : BOOLEAN, skip : BOOLEAN,
              planes : SUBSET Plane, reserved : SUBSET Win, visible : SUBSET Win]

VARIABLES
  state,      \* the swapped-in state of each CRTC
  available,  \* the swapped-in exynos_drm_priv_state.available_win_mask
  txn,        \* per thread: the atomic state being checked
  privLock,   \* thread that holds the private object's lock
  pending,    \* swapped atomic states (sets of CRTCs) whose tail has not run
  hw          \* per CRTC: the windows its DECON has enabled

vars == <<state, available, txn, privLock, pending, hw>>

(* "crtcs" are locked by the thread; "todo" are those the loop has not seen. *)
Txn == [crtcs : SUBSET Crtc, todo : SUBSET Crtc, moved : SUBSET Crtc,
        new : [Crtc -> CrtcState], avail : SUBSET Win, freed : SUBSET Win,
        phase : {"idle", "check", "done"}]

CrtcOff == [enable |-> FALSE, active |-> FALSE, sr |-> FALSE, skip |-> FALSE,
            planes |-> {}, reserved |-> {}, visible |-> {}]

IdleTxn == [crtcs |-> {}, todo |-> {}, moved |-> {}, new |-> [c \in Crtc |-> CrtcOff],
            avail |-> {}, freed |-> {}, phase |-> "idle"]

TypeOK ==
  /\ state \in [Crtc -> CrtcState]
  /\ available \in SUBSET Win
  /\ txn \in [Thread -> Txn]
  /\ privLock \in Thread \cup {NoThread}
  /\ pending \in SUBSET (SUBSET Crtc)
  /\ hw \in [Crtc -> SUBSET Win]

(* Mutant: the mask of all windows has a bit too many. *)
InitOneTooMany ==
  /\ state = [c \in Crtc |-> CrtcOff]
  /\ available = 0 .. NWin
  /\ txn = [t \in Thread |-> IdleTxn]
  /\ privLock = NoThread
  /\ pending = {}
  /\ hw = [c \in Crtc |-> {}]

Init ==
  /\ state = [c \in Crtc |-> CrtcOff]
  /\ available = Win
  /\ txn = [t \in Thread |-> IdleTxn]
  /\ privLock = NoThread
  /\ pending = {}
  /\ hw = [c \in Crtc |-> {}]

-----------------------------------------------------------------------------
(* The n lowest windows of a mask; find_set_bits_mask returns 0 when the    *)
(* mask has fewer.                                                          *)
FindSetBits(mask, n) ==
  IF Cardinality(mask) < n THEN {}
  ELSE {w \in mask : Cardinality({v \in mask : v < w}) < n}

EffectivelyActive(s) == s.active \/ s.sr

(* One window is needed for the color map when there are no planes. *)
WinCnt(s) ==
  IF ~s.enable \/ ~EffectivelyActive(s) THEN 0
  ELSE IF s.planes = {} THEN 1 ELSE Cardinality(s.planes)

(* The i-th reserved window belongs to normalized zpos i. *)
VisibleWindows(reserved, zposVisible) ==
  {w \in reserved : Cardinality({v \in reserved : v < w}) \in zposVisible}

(* What a duplicated CRTC state may be turned into: a page flip or mode set, *)
(* disable, DPMS off, entering and leaving self refresh.  Duplicating sets   *)
(* active to the effective value and clears sr and skip.                     *)
Requests(s) ==
  LET dup == [s EXCEPT !.active = EffectivelyActive(s), !.sr = FALSE, !.skip = FALSE]
  IN  {[dup EXCEPT !.enable = TRUE, !.active = TRUE, !.planes = P] : P \in SUBSET Plane}
      \cup {[dup EXCEPT !.enable = FALSE, !.active = FALSE, !.planes = {}]}
      \cup (IF ActiveOnly /\ s.enable THEN {[dup EXCEPT !.active = FALSE]} ELSE {})
      \cup (IF s.active THEN {[dup EXCEPT !.active = FALSE, !.sr = TRUE]} ELSE {})
      \cup (IF s.sr THEN {[dup EXCEPT !.skip = TRUE]} ELSE {})

-----------------------------------------------------------------------------
(* Differences that drm_atomic_helper_check_modeset flags by itself. *)
Changed(old, new) ==
  \/ old.active # new.active
  \/ old.enable # new.enable
  \/ old.planes # new.planes

(* A plane is on one CRTC at a time, and locked by the state that moves it. *)
PlanesOf(d, S, req) ==
  IF d \in S THEN req[d].planes
  ELSE state[d].planes \cup UNION {txn[u].new[d].planes : u \in Thread}

(* The CRTCs a thread can lock. *)
Lockable(t) ==
  IF txn[t].phase = "idle" THEN {c \in Crtc : \A u \in Thread : c \notin txn[u].crtcs} ELSE {}

(* A thread locks some CRTCs and starts checking a state for them; "moved"   *)
(* are the CRTCs whose zpos or connectors alone change (listed only where    *)
(* the check would notice).                                                  *)
Begin(t, S, req, moved) ==
  /\ txn[t].phase = "idle"
  /\ \A u \in Thread : txn[u].crtcs \cap S = {}
  /\ \A c \in S : req[c] \in Requests(state[c])
  /\ \A c \in S, d \in Crtc : c # d => req[c].planes \cap PlanesOf(d, S, req) = {}
  /\ \A c \in S \cap moved : ~Changed(state[c], req[c]) /\ WinCnt(state[c]) # WinCnt(req[c])
  /\ txn' = [txn EXCEPT ![t] =
       [crtcs |-> S, todo |-> S, moved |-> moved,
        new |-> [c \in Crtc |-> IF c \in S THEN req[c] ELSE CrtcOff],
        avail |-> {}, freed |-> {}, phase |-> "check"]]
  /\ UNCHANGED <<state, available, privLock, pending, hw>>

(* The next CRTC of the first loop. *)
IsNext(t, c) ==
  /\ txn[t].phase = "check"
  /\ c \in txn[t].todo
  /\ \A d \in txn[t].todo : c <= d

Skipped(t, c) ==
  \/ c \notin txn[t].moved /\ ~Changed(state[c], txn[t].new[c])
  \/ WinCnt(state[c]) = WinCnt(txn[t].new[c])

CheckUnchanged(t, c) ==
  /\ IsNext(t, c)
  /\ Skipped(t, c)
  /\ txn' = [txn EXCEPT ![t] = [txn[t] EXCEPT !.todo = txn[t].todo \ {c}]]
  /\ UNCHANGED <<state, available, privLock, pending, hw>>

(* The CRTC's new state with other windows reserved. *)
WithReserved(t, c, windows) ==
  [txn[t].new EXCEPT ![c] = [txn[t].new[c] EXCEPT !.reserved = windows]]

(* Mutant: all windows of a shrinking CRTC go. *)
AllWindowsToFree(t, c) == txn[t].new[c].reserved

(* The windows a CRTC gives up; all of them when it needs none. *)
WindowsToFree(t, c) ==
  LET curr == txn[t].new[c].reserved
  IN  IF WinCnt(txn[t].new[c]) = 0 THEN curr
      ELSE FindSetBits(curr, WinCnt(state[c]) - WinCnt(txn[t].new[c]))

(* exynos_drm_get_priv_state: lock the private object and copy its state. *)
CanGetPriv(t) == privLock \in {t, NoThread}
PrivAvail(t)  == IF privLock = t THEN txn[t].avail ELSE available

(* Mutant: freed windows are available at once. *)
ShrinkIntoPool(t, c) ==
  /\ IsNext(t, c)
  /\ ~Skipped(t, c)
  /\ WinCnt(state[c]) > WinCnt(txn[t].new[c])
  /\ CanGetPriv(t)
  /\ privLock' = t
  /\ txn' = [txn EXCEPT ![t] = [txn[t] EXCEPT
       !.todo = txn[t].todo \ {c},
       !.avail = PrivAvail(t) \cup WindowsToFree(t, c),
       !.new = WithReserved(t, c, txn[t].new[c].reserved \ WindowsToFree(t, c))]]
  /\ UNCHANGED <<state, available, pending, hw>>

CheckShrink(t, c) ==
  /\ IsNext(t, c)
  /\ ~Skipped(t, c)
  /\ WinCnt(state[c]) > WinCnt(txn[t].new[c])
  /\ txn' = [txn EXCEPT ![t] = [txn[t] EXCEPT
       !.todo = txn[t].todo \ {c},
       !.freed = txn[t].freed \cup WindowsToFree(t, c),
       !.new = WithReserved(t, c, txn[t].new[c].reserved \ WindowsToFree(t, c))]]
  /\ UNCHANGED <<state, available, privLock, pending, hw>>

(* Mutant: windows that are given out stay in the pool. *)
GrowFromFullPool(t, c) ==
  LET win == FindSetBits(PrivAvail(t), WinCnt(txn[t].new[c]) - WinCnt(state[c]))
  IN  /\ IsNext(t, c)
      /\ ~Skipped(t, c)
      /\ WinCnt(state[c]) < WinCnt(txn[t].new[c])
      /\ CanGetPriv(t)
      /\ win # {}
      /\ privLock' = t
      /\ txn' = [txn EXCEPT ![t] = [txn[t] EXCEPT
           !.todo = txn[t].todo \ {c},
           !.avail = PrivAvail(t),
           !.new = WithReserved(t, c, txn[t].new[c].reserved \cup win)]]
      /\ UNCHANGED <<state, available, pending, hw>>

CheckGrow(t, c) ==
  LET win == FindSetBits(PrivAvail(t), WinCnt(txn[t].new[c]) - WinCnt(state[c]))
  IN  /\ IsNext(t, c)
      /\ ~Skipped(t, c)
      /\ WinCnt(state[c]) < WinCnt(txn[t].new[c])
      /\ CanGetPriv(t)
      /\ win # {}
      /\ privLock' = t
      /\ txn' = [txn EXCEPT ![t] = [txn[t] EXCEPT
           !.todo = txn[t].todo \ {c},
           !.avail = PrivAvail(t) \ win,
           !.new = WithReserved(t, c, txn[t].new[c].reserved \cup win)]]
      /\ UNCHANGED <<state, available, pending, hw>>

Unlock(t) == IF privLock = t THEN NoThread ELSE privLock

(* -ENOENT: the whole atomic state is dropped. *)
CheckNoWindows(t, c) ==
  /\ IsNext(t, c)
  /\ ~Skipped(t, c)
  /\ WinCnt(state[c]) < WinCnt(txn[t].new[c])
  /\ CanGetPriv(t)
  /\ FindSetBits(PrivAvail(t), WinCnt(txn[t].new[c]) - WinCnt(state[c])) = {}
  /\ txn' = [txn EXCEPT ![t] = IdleTxn]
  /\ privLock' = Unlock(t)
  /\ UNCHANGED <<state, available, pending, hw>>

(* The second loop computes the visible windows... *)
WithVisible(t, zposVisible) ==
  [c \in Crtc |->
     IF c \in txn[t].crtcs /\ txn[t].new[c].planes # {}
     THEN [txn[t].new[c] EXCEPT
             !.visible = VisibleWindows(txn[t].new[c].reserved, zposVisible)]
     ELSE [txn[t].new[c] EXCEPT !.visible = {}]]

(* ...then the freed windows, if any, go back to the pool. *)
CheckEnd(t, zposVisible) ==
  /\ txn[t].phase = "check"
  /\ txn[t].todo = {}
  /\ IF txn[t].freed = {}
     THEN /\ txn' = [txn EXCEPT ![t] = [txn[t] EXCEPT
                !.phase = "done", !.new = WithVisible(t, zposVisible)]]
          /\ UNCHANGED privLock
     ELSE /\ CanGetPriv(t)
          /\ privLock' = t
          /\ txn' = [txn EXCEPT ![t] = [txn[t] EXCEPT
                !.phase = "done", !.new = WithVisible(t, zposVisible),
                !.freed = {}, !.avail = PrivAvail(t) \cup txn[t].freed]]
  /\ UNCHANGED <<state, available, pending, hw>>

(* A TEST_ONLY commit, or an error after the check: nothing is swapped in. *)
Discard(t) ==
  /\ txn[t].phase = "done"
  /\ txn' = [txn EXCEPT ![t] = IdleTxn]
  /\ privLock' = Unlock(t)
  /\ UNCHANGED <<state, available, pending, hw>>

(* drm_atomic_helper_swap_state waits only for the tails of its own CRTCs;   *)
(* what the new pool frees is to be had from now on (the FIXME in            *)
(* exynos_atomic_commit_tail).                                               *)
Swap(t) ==
  /\ txn[t].phase = "done"
  /\ \A S \in pending : S \cap txn[t].crtcs = {}
  /\ state' = [c \in Crtc |-> IF c \in txn[t].crtcs THEN txn[t].new[c] ELSE state[c]]
  /\ available' = IF privLock = t THEN txn[t].avail ELSE available
  /\ pending' = pending \cup {txn[t].crtcs}
  /\ txn' = [txn EXCEPT ![t] = IdleTxn]
  /\ privLock' = Unlock(t)
  /\ UNCHANGED hw

(* Mutant: an inactive DECON keeps its windows enabled. *)
ProgrammedKeepsOff(c) ==
  IF ~state[c].active \/ state[c].skip THEN hw[c]
  ELSE IF state[c].planes = {} THEN FindSetBits(state[c].reserved, 1)
  ELSE state[c].visible

(* The windows enabled once the tail has run: none when the DECON is off or *)
(* hibernates (_decon_reinit_locked), unchanged when the update is skipped, *)
(* the color map window when there are no planes.                           *)
Programmed(c) ==
  IF ~state[c].active THEN {}
  ELSE IF state[c].skip THEN hw[c]
  ELSE IF state[c].planes = {} THEN FindSetBits(state[c].reserved, 1)
  ELSE state[c].visible

CommitTail(S) ==
  /\ S \in pending
  /\ hw' = [c \in Crtc |-> IF c \in S THEN Programmed(c) ELSE hw[c]]
  /\ pending' = pending \ {S}
  /\ UNCHANGED <<state, available, txn, privLock>>

-----------------------------------------------------------------------------
Next ==
  \/ \E t \in Thread : \E S \in SUBSET Lockable(t) \ {{}} :
       \E req \in [S -> UNION {Requests(state[c]) : c \in S}], moved \in SUBSET S :
         Begin(t, S, req, moved)
  \/ \E t \in Thread, c \in Crtc :
       \/ CheckUnchanged(t, c)
       \/ CheckShrink(t, c)
       \/ CheckGrow(t, c)
       \/ CheckNoWindows(t, c)
  \/ \E t \in Thread, Z \in SUBSET (0 .. Cardinality(Plane) - 1) : CheckEnd(t, Z)
  \/ \E t \in Thread : Discard(t) \/ Swap(t)
  \/ \E S \in pending : CommitTail(S)

Spec == Init /\ [][Next]_vars

-----------------------------------------------------------------------------
(* No window is reserved by two CRTCs, none is both reserved and free, and   *)
(* none is lost: whatever interleaving of checks, drops and swaps happened,  *)
(* exynos_atomic_check_windows neither leaks a window nor gives it twice.    *)
WindowsPartitioned ==
  /\ \A c, d \in Crtc : c # d => state[c].reserved \cap state[d].reserved = {}
  /\ \A c \in Crtc : state[c].reserved \cap available = {}
  /\ available \cup UNION {state[c].reserved : c \in Crtc} = Win

(* Every mask of the pool has its type, and its windows one place each.      *)
PoolSound == TypeOK /\ WindowsPartitioned

(* A check in progress conserves windows: its free, freed and newly reserved *)
(* masks are disjoint and are exactly what its CRTCs had, plus the pool if   *)
(* it holds the pool.  Locks: a CRTC is in one check at a time, and only the *)
(* holder of the private object has a copy of the pool.                      *)
LocksHeld ==
  \A t \in Thread :
    /\ \A u \in Thread \ {t} : txn[t].crtcs \cap txn[u].crtcs = {}
    /\ txn[t].todo \subseteq txn[t].crtcs
    /\ privLock = t => txn[t].phase # "idle"
    /\ privLock # t => txn[t].avail = {}
    /\ txn[t].phase # "check" => txn[t].freed = {}
    /\ \A c \in Crtc \ txn[t].crtcs : txn[t].new[c].reserved = {}

InCheck(t, w) ==
  \/ w \in txn[t].avail
  \/ w \in txn[t].freed
  \/ \E c \in Crtc : w \in txn[t].new[c].reserved

InLockedState(t, w) ==
  \/ privLock = t /\ w \in available
  \/ \E c \in txn[t].crtcs : w \in state[c].reserved

ChecksConserve ==
  \A t \in Thread :
    /\ \A w \in Win : InCheck(t, w) <=> InLockedState(t, w)
    /\ txn[t].avail \cap txn[t].freed = {}
    /\ \A c \in Crtc : txn[t].new[c].reserved \cap (txn[t].avail \cup txn[t].freed) = {}
    /\ \A c, d \in Crtc : c # d => txn[t].new[c].reserved \cap txn[t].new[d].reserved = {}

(* What a check reserves comes from its CRTC's old windows or from the pool. *)
TakesFromPool ==
  \A t \in Thread :
    LET pool == IF privLock = t THEN available ELSE {}
    IN  /\ \A c \in txn[t].crtcs : txn[t].new[c].reserved \subseteq state[c].reserved \cup pool
        /\ txn[t].phase = "check" => txn[t].avail \subseteq pool

(* Until a check has come to a CRTC its windows are the old ones; after that *)
(* it has taken some or given some up, never both.                           *)
OneWay ==
  \A t \in Thread : \A c \in txn[t].crtcs :
    /\ c \in txn[t].todo => txn[t].new[c].reserved = state[c].reserved
    /\ \/ txn[t].new[c].reserved \subseteq state[c].reserved
       \/ state[c].reserved \subseteq txn[t].new[c].reserved

(* A CRTC holds exactly as many windows as its planes need, so the window    *)
(* that decon_get_win_id looks up by zpos always exists.                     *)
ReservedMatchesNeed ==
  \A c \in Crtc : Cardinality(state[c].reserved) = WinCnt(state[c])

(* A window never goes from one CRTC to another in one swap: it rests in the *)
(* pool first (the comment on freed_win_mask).                               *)
NeverHandedOver ==
  [][\A c, d \in Crtc : c # d => state[c].reserved \cap state'[d].reserved = {}]_vars

(* A tail that is still to run takes the window from the CRTC's DECON. *)
AboutToLose(c, w) ==
  \E S \in pending : c \in S /\ w \notin Programmed(c)

(* The registers lag behind the states, but only as far as a tail that is    *)
(* queued: a window that a CRTC has given up is enabled no longer than until *)
(* that CRTC's own next tail, whatever was checked, dropped, skipped or      *)
(* swapped since; and when two DECONs have the same window enabled, because  *)
(* it went on through the pool meanwhile, one of them is about to lose it.   *)
OverlapPasses ==
  /\ \A c \in Crtc, w \in Win : w \in hw[c] => w \in state[c].reserved \/ AboutToLose(c, w)
  /\ \A c, d \in Crtc : c # d =>
       \A w \in hw[c] \cap hw[d] : AboutToLose(c, w) \/ AboutToLose(d, w)

(* Two DECONs never have the same window enabled: what the comment at        *)
(* exynos_drm_drv.c:229 wants of freed_win_mask, windows that another CRTC   *)
(* gets "only after commit to hw is done".                                   *)
HardwareDisjoint ==
  \A c, d \in Crtc : c # d => hw[c] \cap hw[d] = {}

(* The owner of each window; WindowsPartitioned says that there is one. *)
OwnerOf == [w \in Win |-> IF w \in available THEN -1 ELSE CHOOSE c \in Crtc : w \in state[c].reserved]

AbstractPool == INSTANCE WindowPool WITH Window <- Win, Client <- Crtc, Free <- -1, owner <- OwnerOf

(* Checks that overlap, fail, or are dropped look from outside like single   *)
(* steps of a pool in which a CRTC takes free windows or gives some up, and  *)
(* never gets one straight from another CRTC (the comment on freed_win_mask, *)
(* exynos_drm_drv.c:229).                                                    *)
ImplementsPool == AbstractPool!Spec
=============================================================================
