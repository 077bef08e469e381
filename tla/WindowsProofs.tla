--------------------------- MODULE WindowsProofs ---------------------------
(***************************************************************************)
(* What the checks of an atomic commit decide.  The window pool, for every *)
(* number of windows, CRTCs, planes and threads: its masks are a partition,*)
(* no swap hands a window over, a CRTC has the windows that it needs, the  *)
(* registers follow, and checks and swaps implement the pool of WindowPool.*)
(* The update region, for every display, slice, place and request: it      *)
(* agrees everywhere, the picture is whole, and no DPP is asked for what   *)
(* it cannot do.                                                           *)
(***************************************************************************)
EXTENDS Windows, Partial, FiniteSetTheorems, TLAPS

-----------------------------------------------------------------------------
(* Type correctness *)

(* find_set_bits_mask takes only bits of its mask. *)
LEMMA FindSetBitsSubset == ASSUME NEW mask, NEW n PROVE FindSetBits(mask, n) \subseteq mask
  BY DEF FindSetBits

(* What a client may ask of a CRTC is a CRTC state. *)
LEMMA RequestsTyped ==
  ASSUME NEW s \in CrtcState PROVE Requests(s) \subseteq CrtcState
<1> DEFINE dup == [s EXCEPT !.active = EffectivelyActive(s), !.sr = FALSE, !.skip = FALSE]
<1>1. EffectivelyActive(s) \in BOOLEAN
  BY DEF EffectivelyActive, CrtcState
<1>2. dup \in CrtcState
  BY <1>1 DEF CrtcState
<1> HIDE DEF dup
<1>3. \A P \in SUBSET Plane : [dup EXCEPT !.enable = TRUE, !.active = TRUE, !.planes = P] \in CrtcState
  BY <1>2 DEF CrtcState
<1>4. [dup EXCEPT !.enable = FALSE, !.active = FALSE, !.planes = {}] \in CrtcState
  BY <1>2 DEF CrtcState
<1>5. [dup EXCEPT !.active = FALSE] \in CrtcState
  BY <1>2 DEF CrtcState
<1>6. [dup EXCEPT !.active = FALSE, !.sr = TRUE] \in CrtcState
  BY <1>2 DEF CrtcState
<1>7. [dup EXCEPT !.skip = TRUE] \in CrtcState
  BY <1>2 DEF CrtcState
<1> QED
  BY <1>3, <1>4, <1>5, <1>6, <1>7 DEF Requests, dup

(* A CRTC that is off has a CRTC state. *)
LEMMA CrtcOffTyped == CrtcOff \in CrtcState
  BY DEF CrtcOff, CrtcState

(* A thread without an atomic state has a transaction record. *)
LEMMA IdleTxnTyped == IdleTxn \in Txn
  BY CrtcOffTyped DEF IdleTxn, Txn

(* Writing reserved_win_mask of one new CRTC state keeps the types. *)
LEMMA WithReservedTyped ==
  ASSUME TypeOK, NEW t \in Thread, NEW c \in Crtc, NEW windows \in SUBSET Win
  PROVE  WithReserved(t, c, windows) \in [Crtc -> CrtcState]
<1>1. txn[t].new \in [Crtc -> CrtcState] /\ txn[t].new[c] \in CrtcState
  BY DEF TypeOK, Txn
<1>2. [txn[t].new[c] EXCEPT !.reserved = windows] \in CrtcState
  BY <1>1 DEF CrtcState
<1> QED BY <1>1, <1>2 DEF WithReserved

(* Writing the visible planes of the new CRTC states keeps the types. *)
LEMMA WithVisibleTyped ==
  ASSUME TypeOK, NEW t \in Thread, NEW Z
  PROVE  WithVisible(t, Z) \in [Crtc -> CrtcState]
<1> SUFFICES ASSUME NEW c \in Crtc PROVE WithVisible(t, Z)[c] \in CrtcState
  BY DEF WithVisible
<1>1. txn[t].new[c] \in CrtcState
  BY DEF TypeOK, Txn
<1>2. VisibleWindows(txn[t].new[c].reserved, Z) \subseteq Win
  BY <1>1 DEF VisibleWindows, CrtcState
<1>3. \A v \in SUBSET Win : [txn[t].new[c] EXCEPT !.visible = v] \in CrtcState
  BY <1>1 DEF CrtcState
<1> QED BY <1>2, <1>3 DEF WithVisible

(* A thread locks no more than CRTCs. *)
LEMMA LockableCrtcs ==
  \A t \in Thread : \A S \in SUBSET Lockable(t) \ {{}} : S \in SUBSET Crtc
BY DEF Lockable

(* Every variable keeps its type, whatever the constants are: what the      *)
(* check loops of exynos_atomic_check_windows compute stays inside the      *)
(* window and plane masks.                                                  *)
THEOREM TypeCorrect == Spec => []TypeOK
<1>1. Init => TypeOK
  BY CrtcOffTyped, IdleTxnTyped DEF Init, TypeOK
<1>2. TypeOK /\ [Next]_vars => TypeOK'
  <2> SUFFICES ASSUME TypeOK, [Next]_vars PROVE TypeOK'
    OBVIOUS
  <2>1. ASSUME NEW t \in Thread, NEW S \in SUBSET Crtc,
               NEW req \in [S -> UNION {Requests(state[c]) : c \in S}],
               NEW moved \in SUBSET S, Begin(t, S, req, moved)
        PROVE  TypeOK'
    <3>1. \A c \in S : req[c] \in CrtcState
      BY <2>1, RequestsTyped DEF Begin, TypeOK
    <3>2. [c \in Crtc |-> IF c \in S THEN req[c] ELSE CrtcOff] \in [Crtc -> CrtcState]
      BY <3>1, CrtcOffTyped
    <3>3. txn' \in [Thread -> Txn]
      BY <2>1, <3>2 DEF Begin, TypeOK, Txn
    <3> QED BY <2>1, <3>3 DEF Begin, TypeOK
  <2>2. ASSUME NEW t \in Thread, NEW c \in Crtc, CheckUnchanged(t, c) PROVE TypeOK'
    <3>1. txn[t] \in Txn
      BY DEF TypeOK
    <3>2. [txn[t] EXCEPT !.todo = txn[t].todo \ {c}] \in Txn
      BY <3>1 DEF Txn
    <3> QED BY <2>2, <3>2 DEF CheckUnchanged, TypeOK
  <2>3. ASSUME NEW t \in Thread, NEW c \in Crtc, CheckShrink(t, c) PROVE TypeOK'
    <3> DEFINE curr == txn[t].new[c].reserved
               win == WindowsToFree(t, c)
    <3>1. txn[t] \in Txn /\ curr \subseteq Win
      BY DEF TypeOK, Txn, CrtcState
    <3>2. win \subseteq curr
      BY FindSetBitsSubset DEF WindowsToFree
    <3>3. WithReserved(t, c, curr \ win) \in [Crtc -> CrtcState]
      BY <3>1, WithReservedTyped
    <3>4. txn' \in [Thread -> Txn]
      <4> HIDE DEF curr, win
      <4>1. txn' = [txn EXCEPT ![t] = [txn[t] EXCEPT
                      !.todo = txn[t].todo \ {c}, !.freed = txn[t].freed \cup win,
                      !.new = WithReserved(t, c, curr \ win)]]
        BY <2>3 DEF CheckShrink, curr, win
      <4> QED BY <3>1, <3>2, <3>3, <4>1 DEF TypeOK, Txn
    <3> QED BY <2>3, <3>4 DEF CheckShrink, TypeOK
  <2>4. ASSUME NEW t \in Thread, NEW c \in Crtc, CheckGrow(t, c) PROVE TypeOK'
    <3> DEFINE curr == txn[t].new[c].reserved
               win == FindSetBits(PrivAvail(t), WinCnt(txn[t].new[c]) - WinCnt(state[c]))
    <3>1. txn[t] \in Txn /\ curr \subseteq Win
      BY DEF TypeOK, Txn, CrtcState
    <3>2. PrivAvail(t) \subseteq Win
      BY <3>1 DEF PrivAvail, TypeOK, Txn
    <3>3. win \subseteq Win
      BY <3>2, FindSetBitsSubset
    <3>4. WithReserved(t, c, curr \cup win) \in [Crtc -> CrtcState]
      BY <3>1, <3>3, WithReservedTyped
    <3>5. txn' \in [Thread -> Txn]
      <4> HIDE DEF curr, win
      <4>1. txn' = [txn EXCEPT ![t] = [txn[t] EXCEPT
                      !.todo = txn[t].todo \ {c}, !.avail = PrivAvail(t) \ win,
                      !.new = WithReserved(t, c, curr \cup win)]]
        BY <2>4 DEF CheckGrow, curr, win
      <4> QED BY <3>1, <3>2, <3>4, <4>1 DEF TypeOK, Txn
    <3> QED BY <2>4, <3>5 DEF CheckGrow, TypeOK
  <2>5. ASSUME NEW t \in Thread, NEW c \in Crtc, CheckNoWindows(t, c) PROVE TypeOK'
    BY <2>5, IdleTxnTyped DEF CheckNoWindows, TypeOK, Unlock
  <2>6. ASSUME NEW t \in Thread, NEW Z \in SUBSET (0 .. Cardinality(Plane) - 1), CheckEnd(t, Z)
        PROVE  TypeOK'
    <3>1. txn[t] \in Txn
      BY DEF TypeOK
    <3>2. WithVisible(t, Z) \in [Crtc -> CrtcState]
      BY WithVisibleTyped
    <3>3. PrivAvail(t) \cup txn[t].freed \subseteq Win
      BY <3>1 DEF PrivAvail, TypeOK, Txn
    <3>4. txn' \in [Thread -> Txn]
      <4>1. CASE txn[t].freed = {}
        <5>1. [txn[t] EXCEPT !.phase = "done", !.new = WithVisible(t, Z)] \in Txn
          BY <3>1, <3>2 DEF Txn
        <5> QED BY <2>6, <4>1, <5>1 DEF CheckEnd, TypeOK
      <4>2. CASE txn[t].freed # {}
        <5>1. [txn[t] EXCEPT !.phase = "done", !.new = WithVisible(t, Z), !.freed = {},
                             !.avail = PrivAvail(t) \cup txn[t].freed] \in Txn
          BY <3>1, <3>2, <3>3 DEF Txn
        <5> QED BY <2>6, <4>2, <5>1 DEF CheckEnd, TypeOK
      <4> QED BY <4>1, <4>2
    <3> QED BY <2>6, <3>4 DEF CheckEnd, TypeOK
  <2>7. ASSUME NEW t \in Thread, Discard(t) PROVE TypeOK'
    BY <2>7, IdleTxnTyped DEF Discard, TypeOK, Unlock
  <2>8. ASSUME NEW t \in Thread, Swap(t) PROVE TypeOK'
    BY <2>8, IdleTxnTyped DEF Swap, TypeOK, Unlock, Txn
  <2>9. ASSUME NEW S \in pending, CommitTail(S) PROVE TypeOK'
    <3>1. \A c \in Crtc : Programmed(c) \subseteq Win
      BY FindSetBitsSubset DEF Programmed, TypeOK, CrtcState
    <3> QED BY <2>9, <3>1 DEF CommitTail, TypeOK
  <2>10. CASE UNCHANGED vars
    BY <2>10 DEF vars, TypeOK
  <2> QED BY LockableCrtcs, <2>1, <2>2, <2>3, <2>4, <2>5, <2>6, <2>7, <2>8, <2>9, <2>10 DEF Next
<1> QED BY <1>1, <1>2, PTL DEF Spec

-----------------------------------------------------------------------------
(* The window pool *)

Inv == TypeOK /\ LocksHeld /\ ChecksConserve /\ WindowsPartitioned

(* What a thread's own step, to the check x, must establish: it touches      *)
(* nothing but its check and, when nobody else holds it, the private lock.   *)
OwnLocks(t, x) ==
  /\ txn' = [txn EXCEPT ![t] = x]
  /\ UNCHANGED <<state, available>>
  /\ privLock' = privLock \/ (privLock \in {t, NoThread} /\ privLock' \in {t, NoThread})
  /\ x.crtcs = txn[t].crtcs \/ \A u \in Thread : txn[u].crtcs \cap x.crtcs = {}
  /\ x.todo \subseteq x.crtcs
  /\ privLock' = t => x.phase # "idle"
  /\ privLock' # t => x.avail = {}
  /\ x.phase # "check" => x.freed = {}
  /\ \A c \in Crtc \ x.crtcs : x.new[c].reserved = {}

OwnWindows(t, x) ==
  /\ x.avail \cap x.freed = {}
  /\ \A c \in Crtc : x.new[c].reserved \cap (x.avail \cup x.freed) = {}
  /\ \A c, d \in Crtc : c # d => x.new[c].reserved \cap x.new[d].reserved = {}
  /\ \A w \in Win :
       (w \in x.avail \/ w \in x.freed \/ \E c \in Crtc : w \in x.new[c].reserved)
       <=> (privLock' = t /\ w \in available) \/ \E c \in x.crtcs : w \in state[c].reserved

(* A check that touches only its own copies leaves the other checks alone. *)
LEMMA OwnStep ==
  ASSUME Inv, TypeOK', NEW t \in Thread, NEW x \in Txn, OwnLocks(t, x), OwnWindows(t, x)
  PROVE  Inv'
<1>1. txn'[t] = x /\ \A u \in Thread \ {t} : txn'[u] = txn[u]
  BY DEF OwnLocks, Inv, TypeOK
<1>2. \A u \in Thread \ {t} : privLock' = u <=> privLock = u
  BY WindowsAssumption DEF OwnLocks
<1>3. LocksHeld'
  BY <1>1, <1>2 DEF OwnLocks, Inv, LocksHeld
<1>4. ChecksConserve'
  <2>1. ASSUME NEW u \in Thread \ {t}, NEW w \in Win PROVE (InCheck(u, w) <=> InLockedState(u, w))'
    BY <1>1, <1>2 DEF OwnLocks, Inv, ChecksConserve, InCheck, InLockedState
  <2>2. ASSUME NEW w \in Win PROVE (InCheck(t, w) <=> InLockedState(t, w))'
    BY <1>1 DEF OwnLocks, OwnWindows, InCheck, InLockedState
  <2>3. \A u \in Thread, w \in Win : (InCheck(u, w) <=> InLockedState(u, w))'
    BY <2>1, <2>2
  <2>4. /\ txn'[t].avail \cap txn'[t].freed = {}
        /\ \A c \in Crtc : txn'[t].new[c].reserved \cap (txn'[t].avail \cup txn'[t].freed) = {}
        /\ \A c, d \in Crtc : c # d => txn'[t].new[c].reserved \cap txn'[t].new[d].reserved = {}
    BY <1>1 DEF OwnWindows
  <2>5. ASSUME NEW u \in Thread \ {t}
        PROVE  /\ txn'[u].avail \cap txn'[u].freed = {}
               /\ \A c \in Crtc : txn'[u].new[c].reserved \cap (txn'[u].avail \cup txn'[u].freed) = {}
               /\ \A c, d \in Crtc : c # d => txn'[u].new[c].reserved \cap txn'[u].new[d].reserved = {}
    BY <1>1 DEF Inv, ChecksConserve
  <2> QED BY <2>3, <2>4, <2>5 DEF ChecksConserve
<1>5. WindowsPartitioned'
  BY DEF OwnLocks, Inv, WindowsPartitioned
<1> QED BY <1>3, <1>4, <1>5 DEF Inv

(* A duplicated CRTC state starts with the mask of the old one. *)
LEMMA RequestsKeepReserved ==
  ASSUME NEW s \in CrtcState, NEW r \in Requests(s) PROVE r.reserved = s.reserved
<1> DEFINE dup == [s EXCEPT !.active = EffectivelyActive(s), !.sr = FALSE, !.skip = FALSE]
<1>1. EffectivelyActive(s) \in BOOLEAN
  BY DEF EffectivelyActive, CrtcState
<1>2. dup \in CrtcState /\ dup.reserved = s.reserved
  BY <1>1 DEF CrtcState
<1> HIDE DEF dup
<1>3. \A P \in SUBSET Plane : [dup EXCEPT !.enable = TRUE, !.active = TRUE, !.planes = P].reserved = dup.reserved
  BY <1>2 DEF CrtcState
<1>4. [dup EXCEPT !.enable = FALSE, !.active = FALSE, !.planes = {}].reserved = dup.reserved
  BY <1>2 DEF CrtcState
<1>5. [dup EXCEPT !.active = FALSE].reserved = dup.reserved
  BY <1>2 DEF CrtcState
<1>6. [dup EXCEPT !.active = FALSE, !.sr = TRUE].reserved = dup.reserved
  BY <1>2 DEF CrtcState
<1>7. [dup EXCEPT !.skip = TRUE].reserved = dup.reserved
  BY <1>2 DEF CrtcState
<1> QED
  BY <1>2, <1>3, <1>4, <1>5, <1>6, <1>7 DEF Requests, dup

(* Duplicating the CRTC states of a new atomic state. *)
LEMMA BeginInv ==
  ASSUME Inv, NEW t \in Thread, NEW S \in SUBSET Crtc,
         NEW req \in [S -> UNION {Requests(state[c]) : c \in S}],
         NEW moved \in SUBSET S, Begin(t, S, req, moved), TypeOK'
  PROVE  Inv'
<1> DEFINE new == [c \in Crtc |-> IF c \in S THEN req[c] ELSE CrtcOff]
           x == [crtcs |-> S, todo |-> S, moved |-> moved, new |-> new,
                 avail |-> {}, freed |-> {}, phase |-> "check"]
<1>1. txn' = [txn EXCEPT ![t] = x] /\ UNCHANGED <<state, available, privLock>>
  BY DEF Begin
<1>2. \A c \in Crtc : new[c].reserved = IF c \in S THEN state[c].reserved ELSE {}
  BY RequestsKeepReserved DEF Begin, Inv, TypeOK, CrtcOff
<1>3. x \in Txn
  BY <1>1 DEF TypeOK, Inv
<1>4. privLock # t
  BY DEF Begin, Inv, LocksHeld
<1>5. \A u \in Thread : txn[u].crtcs \cap S = {}
  BY DEF Begin
<1>6. \A c, d \in Crtc : c # d => new[c].reserved \cap new[d].reserved = {}
  BY <1>2 DEF Inv, WindowsPartitioned
<1>7. \A w \in Win : (\E c \in Crtc : w \in new[c].reserved) <=> \E c \in S : w \in state[c].reserved
  BY <1>2
<1> HIDE DEF new
<1>8. OwnLocks(t, x)
  BY <1>1, <1>2, <1>4, <1>5 DEF OwnLocks
<1>9. OwnWindows(t, x)
  BY <1>1, <1>2, <1>4, <1>6, <1>7 DEF OwnWindows
<1> QED BY <1>3, <1>8, <1>9, OwnStep

(* The check of a CRTC whose number of windows stays. *)
LEMMA UnchangedInv ==
  ASSUME Inv, NEW t \in Thread, NEW c \in Crtc, CheckUnchanged(t, c), TypeOK' PROVE Inv'
<1> DEFINE x == [txn[t] EXCEPT !.todo = txn[t].todo \ {c}]
<1>1. txn' = [txn EXCEPT ![t] = x] /\ UNCHANGED <<state, available, privLock>>
  BY DEF CheckUnchanged
<1>2. txn[t] \in Txn /\ x \in Txn
  BY <1>1 DEF Inv, TypeOK
<1>3. /\ x.crtcs = txn[t].crtcs /\ x.todo \subseteq txn[t].todo /\ x.phase = txn[t].phase
      /\ x.avail = txn[t].avail /\ x.freed = txn[t].freed /\ x.new = txn[t].new
  BY <1>2 DEF Txn
<1> HIDE DEF x
<1>4. OwnLocks(t, x)
  BY <1>1, <1>3 DEF OwnLocks, Inv, LocksHeld
<1>5. OwnWindows(t, x)
  BY <1>1, <1>3 DEF OwnWindows, Inv, ChecksConserve, InCheck, InLockedState
<1> QED BY <1>2, <1>4, <1>5, OwnStep

(* Writing one reserved_win_mask leaves the others as they are. *)
LEMMA WithReservedEffect ==
  ASSUME TypeOK, NEW t \in Thread, NEW c \in Crtc, NEW windows,
         NEW d \in Crtc
  PROVE  WithReserved(t, c, windows)[d].reserved
           = IF d = c THEN windows ELSE txn[t].new[d].reserved
  BY DEF WithReserved, TypeOK, Txn, CrtcState

(* The first loop: surplus windows go to freed_win_mask. *)
LEMMA ShrinkInv ==
  ASSUME Inv, NEW t \in Thread, NEW c \in Crtc, CheckShrink(t, c), TypeOK' PROVE Inv'
<1> DEFINE curr == txn[t].new[c].reserved
           win == WindowsToFree(t, c)
           new == WithReserved(t, c, curr \ win)
           x == [txn[t] EXCEPT !.todo = txn[t].todo \ {c}, !.freed = txn[t].freed \cup win, !.new = new]
<1>1. txn' = [txn EXCEPT ![t] = x] /\ UNCHANGED <<state, available, privLock>>
  BY DEF CheckShrink
<1>2. txn[t] \in Txn /\ x \in Txn
  BY <1>1 DEF Inv, TypeOK
<1>3. /\ x.crtcs = txn[t].crtcs /\ x.todo \subseteq txn[t].todo /\ x.phase = txn[t].phase
      /\ x.avail = txn[t].avail /\ x.freed = txn[t].freed \cup win /\ x.new = new
  BY <1>2 DEF Txn
<1>4. win \subseteq curr
  BY FindSetBitsSubset DEF WindowsToFree
<1>5. \A d \in Crtc : new[d].reserved = IF d = c THEN curr \ win ELSE txn[t].new[d].reserved
  BY WithReservedEffect DEF Inv
<1>6. txn[t].phase = "check" /\ c \in txn[t].crtcs
  BY DEF CheckShrink, IsNext, Inv, LocksHeld
<1> HIDE DEF x, new, win
<1>7. \A w \in Win :
        (w \in x.avail \/ w \in x.freed \/ \E d \in Crtc : w \in x.new[d].reserved)
        <=> InCheck(t, w)
  BY <1>3, <1>4, <1>5 DEF InCheck
<1>8. \A d, e \in Crtc : d # e => x.new[d].reserved \cap x.new[e].reserved = {}
  BY <1>3, <1>5 DEF Inv, ChecksConserve
<1>9. /\ x.avail \cap x.freed = {}
      /\ \A d \in Crtc : x.new[d].reserved \cap (x.avail \cup x.freed) = {}
  BY <1>3, <1>4, <1>5 DEF Inv, ChecksConserve
<1>10. \A d \in Crtc \ x.crtcs : x.new[d].reserved = {}
  BY <1>3, <1>5, <1>6 DEF Inv, LocksHeld
<1>11. OwnLocks(t, x)
  BY <1>1, <1>3, <1>6, <1>10 DEF OwnLocks, Inv, LocksHeld
<1>12. OwnWindows(t, x)
  BY <1>1, <1>3, <1>7, <1>8, <1>9 DEF OwnWindows, Inv, ChecksConserve, InLockedState
<1> QED BY <1>2, <1>11, <1>12, OwnStep

(* The second loop: missing windows come out of available_win_mask. *)
LEMMA GrowInv ==
  ASSUME Inv, NEW t \in Thread, NEW c \in Crtc, CheckGrow(t, c), TypeOK' PROVE Inv'
<1> DEFINE curr == txn[t].new[c].reserved
           win == FindSetBits(PrivAvail(t), WinCnt(txn[t].new[c]) - WinCnt(state[c]))
           new == WithReserved(t, c, curr \cup win)
           x == [txn[t] EXCEPT !.todo = txn[t].todo \ {c}, !.avail = PrivAvail(t) \ win, !.new = new]
<1>1. txn' = [txn EXCEPT ![t] = x] /\ privLock' = t /\ UNCHANGED <<state, available>>
  BY DEF CheckGrow
<1>2. txn[t] \in Txn /\ x \in Txn
  BY <1>1 DEF Inv, TypeOK
<1>3. /\ x.crtcs = txn[t].crtcs /\ x.todo \subseteq txn[t].todo /\ x.phase = txn[t].phase
      /\ x.avail = PrivAvail(t) \ win /\ x.freed = txn[t].freed /\ x.new = new
  BY <1>2 DEF Txn
<1>4. win \subseteq PrivAvail(t)
  BY FindSetBitsSubset
<1>5. \A d \in Crtc : new[d].reserved = IF d = c THEN curr \cup win ELSE txn[t].new[d].reserved
  BY WithReservedEffect DEF Inv
<1>6. /\ txn[t].phase = "check" /\ c \in txn[t].crtcs /\ privLock \in {t, NoThread}
  BY DEF CheckGrow, IsNext, CanGetPriv, Inv, LocksHeld
<1> HIDE DEF x, new, win
<1>7. privLock # t => /\ txn[t].avail = {}
                      /\ \A w \in Win : InCheck(t, w) <=> \E d \in txn[t].crtcs : w \in state[d].reserved
  BY DEF Inv, LocksHeld, ChecksConserve, InLockedState
<1>8. /\ PrivAvail(t) \subseteq Win
      /\ PrivAvail(t) \cap txn[t].freed = {}
      /\ \A d \in Crtc : PrivAvail(t) \cap txn[t].new[d].reserved = {}
  <2>1. CASE privLock = t
    BY <2>1, <1>2 DEF PrivAvail, Inv, ChecksConserve, Txn
  <2>2. CASE privLock # t
    <3>1. PrivAvail(t) = available
      BY <2>2 DEF PrivAvail
    <3>2. \A w \in Win : InCheck(t, w) => w \notin available
      BY <2>2, <1>7 DEF Inv, WindowsPartitioned, TypeOK, Txn
    <3> QED BY <3>1, <3>2, <1>2 DEF InCheck, Inv, TypeOK
  <2> QED BY <2>1, <2>2
<1>9. \A w \in Win :
        (w \in x.avail \/ w \in x.freed \/ \E d \in Crtc : w \in x.new[d].reserved)
        <=> w \in available \/ \E d \in x.crtcs : w \in state[d].reserved
  <2>1. CASE privLock = t
    BY <2>1, <1>3, <1>4, <1>5 DEF PrivAvail, Inv, ChecksConserve, InCheck, InLockedState
  <2>2. CASE privLock # t
    BY <2>2, <1>3, <1>4, <1>5, <1>7 DEF PrivAvail, InCheck
  <2> QED BY <2>1, <2>2
<1>10. \A d, e \in Crtc : d # e => x.new[d].reserved \cap x.new[e].reserved = {}
  BY <1>3, <1>4, <1>5, <1>8 DEF Inv, ChecksConserve
<1>11. /\ x.avail \cap x.freed = {}
       /\ \A d \in Crtc : x.new[d].reserved \cap (x.avail \cup x.freed) = {}
  BY <1>3, <1>4, <1>5, <1>8 DEF Inv, ChecksConserve
<1>12. \A d \in Crtc \ x.crtcs : x.new[d].reserved = {}
  BY <1>3, <1>5, <1>6 DEF Inv, LocksHeld
<1>13. OwnLocks(t, x)
  BY <1>1, <1>3, <1>6, <1>12 DEF OwnLocks, Inv, LocksHeld
<1>14. OwnWindows(t, x)
  BY <1>1, <1>9, <1>10, <1>11 DEF OwnWindows
<1> QED BY <1>2, <1>13, <1>14, OwnStep

(* Dropping a check: -ENOENT, TEST_ONLY or an error. *)
LEMMA DropInv ==
  ASSUME Inv, TypeOK', NEW t \in Thread, txn' = [txn EXCEPT ![t] = IdleTxn], privLock' = Unlock(t),
         UNCHANGED <<state, available>>
  PROVE  Inv'
<1>1. privLock' = privLock \/ (privLock \in {t, NoThread} /\ privLock' \in {t, NoThread})
  BY DEF Unlock
<1>2. privLock' # t
  BY WindowsAssumption DEF Unlock
<1>3. OwnLocks(t, IdleTxn)
  BY <1>1, <1>2 DEF OwnLocks, IdleTxn, CrtcOff
<1>4. OwnWindows(t, IdleTxn)
  BY <1>2 DEF OwnWindows, IdleTxn, CrtcOff
<1> QED BY <1>3, <1>4, IdleTxnTyped, OwnStep

(* The end of the check writes visible planes, never a mask. *)
LEMMA WithVisibleEffect ==
  ASSUME TypeOK, NEW t \in Thread, NEW Z, NEW c \in Crtc
  PROVE  WithVisible(t, Z)[c].reserved = txn[t].new[c].reserved
  BY DEF WithVisible, TypeOK, Txn, CrtcState

(* The end of the check: freed windows join the private pool. *)
LEMMA EndInv ==
  ASSUME Inv, NEW t \in Thread, NEW Z \in SUBSET (0 .. Cardinality(Plane) - 1), CheckEnd(t, Z), TypeOK'
  PROVE  Inv'
<1> DEFINE new == WithVisible(t, Z)
<1>1. \A c \in Crtc : new[c].reserved = txn[t].new[c].reserved
  BY WithVisibleEffect DEF Inv
<1>2. UNCHANGED <<state, available>> /\ txn[t].phase = "check" /\ txn[t] \in Txn
  BY DEF CheckEnd, Inv, TypeOK
<1>3. new \in [Crtc -> CrtcState]
  BY WithVisibleTyped DEF Inv
<1> HIDE DEF new
<1>4. CASE txn[t].freed = {}
  <2> DEFINE x == [txn[t] EXCEPT !.phase = "done", !.new = new]
  <2>1. txn' = [txn EXCEPT ![t] = x] /\ privLock' = privLock
    BY <1>4 DEF CheckEnd, new
  <2>2. /\ x \in Txn /\ x.crtcs = txn[t].crtcs /\ x.todo = txn[t].todo /\ x.phase = "done"
        /\ x.avail = txn[t].avail /\ x.freed = {} /\ x.new = new
    BY <1>2, <1>3, <1>4 DEF Txn
  <2> HIDE DEF x
  <2>3. OwnLocks(t, x)
    BY <1>1, <1>2, <2>1, <2>2 DEF OwnLocks, Inv, LocksHeld
  <2>4. OwnWindows(t, x)
    BY <1>1, <1>2, <1>4, <2>1, <2>2 DEF OwnWindows, Inv, ChecksConserve, InCheck, InLockedState
  <2> QED BY <2>2, <2>3, <2>4, OwnStep
<1>5. CASE txn[t].freed # {}
  <2> DEFINE avail == PrivAvail(t) \cup txn[t].freed
             x == [txn[t] EXCEPT !.phase = "done", !.new = new, !.freed = {}, !.avail = avail]
  <2>1. txn' = [txn EXCEPT ![t] = x] /\ privLock' = t /\ privLock \in {t, NoThread}
    BY <1>5 DEF CheckEnd, CanGetPriv, new
  <2>2. x \in Txn
    BY <2>1, <1>2 DEF TypeOK
  <2>3. /\ x.crtcs = txn[t].crtcs /\ x.todo = txn[t].todo /\ x.phase = "done"
        /\ x.avail = avail /\ x.freed = {} /\ x.new = new
    BY <1>2 DEF Txn
  <2> HIDE DEF x
  <2>4. OwnLocks(t, x)
    BY <1>1, <1>2, <2>1, <2>3 DEF OwnLocks, Inv, LocksHeld
  <2>5. CASE privLock = t
    <3>1. avail = txn[t].avail \cup txn[t].freed
      BY <2>5 DEF PrivAvail
    <3>2. OwnWindows(t, x)
      BY <1>1, <1>2, <2>1, <2>3, <2>5, <3>1 DEF OwnWindows, Inv, ChecksConserve, InCheck, InLockedState
    <3> QED BY <2>2, <2>4, <3>2, OwnStep
  <2>6. CASE privLock # t
    <3>1. avail = available \cup txn[t].freed /\ txn[t].avail = {}
      BY <2>6 DEF PrivAvail, Inv, LocksHeld
    <3>2. \A w \in Win : (w \in txn[t].freed \/ \E c \in Crtc : w \in new[c].reserved)
                        <=> \E c \in txn[t].crtcs : w \in state[c].reserved
      BY <2>6, <1>1, <3>1 DEF Inv, ChecksConserve, InCheck, InLockedState
    <3>3. \A c \in Crtc : new[c].reserved \subseteq Win /\ new[c].reserved \cap available = {}
      BY <1>3, <3>2, <1>2 DEF Inv, WindowsPartitioned, CrtcState, Txn
    <3>4. OwnWindows(t, x)
      BY <1>1, <1>2, <2>1, <2>3, <3>1, <3>2, <3>3 DEF OwnWindows, Inv, ChecksConserve
    <3> QED BY <2>2, <2>4, <3>4, OwnStep
  <2> QED BY <2>5, <2>6
<1> QED BY <1>4, <1>5

(* A swap publishes the private masks: by ChecksConserve they are a          *)
(* rearrangement of what its CRTCs and, if it is held, the pool had.         *)
LEMMA SwapInv ==
  ASSUME Inv, NEW t \in Thread, Swap(t), TypeOK' PROVE Inv'
<1> DEFINE S == txn[t].crtcs
           new == txn[t].new
<1>1. /\ txn' = [txn EXCEPT ![t] = IdleTxn] /\ privLock' = Unlock(t)
      /\ \A c \in Crtc : state'[c] = IF c \in S THEN new[c] ELSE state[c]
      /\ available' = IF privLock = t THEN txn[t].avail ELSE available
      /\ txn[t].freed = {}
  BY DEF Swap, Inv, LocksHeld
<1>2. txn[t] \in Txn /\ S \subseteq Crtc /\ \A c \in Crtc : new[c].reserved \subseteq Win
  BY DEF Inv, TypeOK, Txn, CrtcState
<1>3. txn'[t] = IdleTxn /\ \A u \in Thread \ {t} : txn'[u] = txn[u]
  BY <1>1 DEF Inv, TypeOK
<1>4. privLock' # t /\ \A u \in Thread \ {t} : privLock' = u <=> privLock = u
  BY <1>1, WindowsAssumption DEF Unlock
<1>5. LocksHeld'
  BY <1>3, <1>4 DEF Inv, LocksHeld, IdleTxn, CrtcOff
<1>6. \A u \in Thread \ {t} : S \cap txn[u].crtcs = {}
  BY DEF Inv, LocksHeld
<1> DEFINE had(w) == (privLock = t /\ w \in available) \/ \E c \in S : w \in state[c].reserved
           has(w) == (privLock = t /\ w \in available') \/ \E c \in S : w \in state'[c].reserved
<1>7. \A w \in Win : has(w) <=> had(w)
  <2>1. \A c \in Crtc \ S : new[c].reserved = {}
    BY DEF Inv, LocksHeld
  <2>2. \A w \in Win : InCheck(t, w) <=> (privLock = t /\ w \in txn[t].avail) \/ \E c \in S : w \in new[c].reserved
    BY <1>1, <1>2, <2>1 DEF InCheck, Inv, LocksHeld
  <2>3. \A w \in Win : InCheck(t, w) <=> had(w)
    BY DEF Inv, ChecksConserve, InLockedState
  <2> QED BY <1>1, <1>2, <2>2, <2>3
<1>8. ChecksConserve'
  <2>1. ASSUME NEW u \in Thread \ {t}, NEW w \in Win PROVE (InCheck(u, w) <=> InLockedState(u, w))'
    <3>1. \A c \in txn[u].crtcs : c \in Crtc /\ state'[c] = state[c]
      BY <1>1, <1>6 DEF Inv, TypeOK, Txn
    <3>2. privLock = u => available' = available
      BY <1>1
    <3> QED BY <1>3, <1>4, <3>1, <3>2 DEF Inv, ChecksConserve, InCheck, InLockedState
  <2>2. ASSUME NEW w \in Win PROVE (InCheck(t, w) <=> InLockedState(t, w))'
    BY <1>3, <1>4 DEF InCheck, InLockedState, IdleTxn, CrtcOff
  <2>3. \A u \in Thread, w \in Win : (InCheck(u, w) <=> InLockedState(u, w))'
    BY <2>1, <2>2
  <2> QED BY <1>3, <2>3 DEF Inv, ChecksConserve, IdleTxn, CrtcOff
<1>9. WindowsPartitioned'
  <2>1. ASSUME NEW c \in Crtc, NEW d \in Crtc, c # d PROVE state'[c].reserved \cap state'[d].reserved = {}
    <3>1. \A e \in S : \A w \in state'[e].reserved : w \in Win /\ had(w)
      BY <1>1, <1>2, <1>7
    <3>2. \A e \in S, g \in Crtc \ S : state'[e].reserved \cap state'[g].reserved = {}
      BY <1>1, <1>2, <3>1 DEF Inv, WindowsPartitioned
    <3>3. CASE c \in S /\ d \in S
      BY <1>1, <2>1, <3>3 DEF Inv, ChecksConserve
    <3>4. CASE c \notin S /\ d \notin S
      BY <1>1, <2>1, <3>4 DEF Inv, WindowsPartitioned
    <3> QED BY <3>2, <3>3, <3>4
  <2>2. ASSUME NEW c \in Crtc PROVE state'[c].reserved \cap available' = {}
    <3>1. CASE privLock = t
      <4>1. CASE c \in S
        BY <1>1, <3>1, <4>1 DEF Inv, ChecksConserve
      <4>2. CASE c \notin S
        <5>1. \A w \in available' : w \in Win /\ had(w)
          BY <1>1, <1>2, <1>7, <3>1 DEF Txn
        <5> QED BY <1>1, <1>2, <4>2, <5>1 DEF Inv, WindowsPartitioned
      <4> QED BY <4>1, <4>2
    <3>2. CASE privLock # t
      <4>1. \A w \in state'[c].reserved : \E e \in Crtc : w \in state[e].reserved
        BY <1>1, <1>2, <1>7, <3>2
      <4> QED BY <1>1, <3>2, <4>1 DEF Inv, WindowsPartitioned
    <3> QED BY <3>1, <3>2
  <2>3. available' \cup UNION {state'[c].reserved : c \in Crtc} = Win
    <3>1. ASSUME NEW w \in Win PROVE w \in available' \/ \E c \in Crtc : w \in state'[c].reserved
      <4>1. w \in available \/ \E c \in Crtc : w \in state[c].reserved
        BY DEF Inv, WindowsPartitioned
      <4>2. CASE had(w)
        BY <1>2, <1>7, <4>2
      <4>3. CASE ~had(w)
        BY <1>1, <4>1, <4>3
      <4> QED BY <4>2, <4>3
    <3>2. available' \subseteq Win /\ \A c \in Crtc : state'[c].reserved \subseteq Win
      BY DEF TypeOK, CrtcState
    <3> QED BY <3>1, <3>2
  <2> QED BY <2>1, <2>2, <2>3 DEF WindowsPartitioned
<1> QED BY <1>5, <1>8, <1>9 DEF Inv

(* At the start the pool has every window. *)
LEMMA InitInv == Init => Inv
<1> SUFFICES ASSUME Init PROVE Inv
  OBVIOUS
<1>1. TypeOK
  BY CrtcOffTyped, IdleTxnTyped DEF Init, TypeOK
<1>2. \A t \in Thread : txn[t] = IdleTxn /\ privLock # t
  BY WindowsAssumption DEF Init
<1>3. LocksHeld /\ ChecksConserve
  BY <1>2 DEF LocksHeld, ChecksConserve, InCheck, InLockedState, IdleTxn, CrtcOff
<1>4. WindowsPartitioned
  BY DEF Init, WindowsPartitioned, CrtcOff
<1> QED BY <1>1, <1>3, <1>4 DEF Inv

(* Every step of every thread preserves the invariant. *)
LEMMA NextInv == ASSUME Inv, TypeOK', [Next]_vars PROVE Inv'
<1>1. ASSUME NEW t \in Thread, NEW S \in SUBSET Crtc,
             NEW req \in [S -> UNION {Requests(state[c]) : c \in S}],
             NEW moved \in SUBSET S, Begin(t, S, req, moved)
      PROVE  Inv'
  BY <1>1, BeginInv
<1>2. ASSUME NEW t \in Thread, NEW c \in Crtc, CheckUnchanged(t, c) PROVE Inv'
  BY <1>2, UnchangedInv
<1>3. ASSUME NEW t \in Thread, NEW c \in Crtc, CheckShrink(t, c) PROVE Inv'
  BY <1>3, ShrinkInv
<1>4. ASSUME NEW t \in Thread, NEW c \in Crtc, CheckGrow(t, c) PROVE Inv'
  BY <1>4, GrowInv
<1>5. ASSUME NEW t \in Thread, NEW c \in Crtc, CheckNoWindows(t, c) PROVE Inv'
  BY <1>5, DropInv DEF CheckNoWindows
<1>6. ASSUME NEW t \in Thread, NEW Z \in SUBSET (0 .. Cardinality(Plane) - 1), CheckEnd(t, Z)
      PROVE  Inv'
  BY <1>6, EndInv
<1>7. ASSUME NEW t \in Thread, Discard(t) PROVE Inv'
  BY <1>7, DropInv DEF Discard
<1>8. ASSUME NEW t \in Thread, Swap(t) PROVE Inv'
  BY <1>8, SwapInv
<1>9. ASSUME NEW S \in pending, CommitTail(S) PROVE Inv'
  BY <1>9 DEF CommitTail, Inv, LocksHeld, ChecksConserve, InCheck, InLockedState, WindowsPartitioned
<1>10. CASE UNCHANGED vars
  BY <1>10 DEF vars, Inv, LocksHeld, ChecksConserve, InCheck, InLockedState, WindowsPartitioned
<1> QED BY LockableCrtcs, <1>1, <1>2, <1>3, <1>4, <1>5, <1>6, <1>7, <1>8, <1>9, <1>10 DEF Next

(* exynos_atomic_check_windows never gives a window to two CRTCs and never   *)
(* loses one, however checks, dropped states and swaps interleave; the       *)
(* argument is ChecksConserve, what a check in progress holds.               *)
THEOREM PoolPartitioned == Spec => [](PoolSound /\ ChecksConserve)
<1>1. Inv /\ TypeOK' /\ [Next]_vars => Inv'
  BY NextInv
<1>2. Inv => PoolSound /\ ChecksConserve
  BY DEF Inv, PoolSound
<1> QED BY <1>1, <1>2, InitInv, TypeCorrect, PTL DEF Spec

-----------------------------------------------------------------------------
(* Windows rest in the pool between two owners *)

(* A check reserves what its CRTC or the pool had, step by step. *)
LEMMA TakesFromPoolNext ==
  ASSUME Inv, Inv', TakesFromPool, [Next]_vars PROVE TakesFromPool'
<1> DEFINE Pool(u) == IF privLock = u THEN available ELSE {}
           Takes(u) == /\ \A c \in txn[u].crtcs : txn[u].new[c].reserved \subseteq state[c].reserved \cup Pool(u)
                       /\ txn[u].phase = "check" => txn[u].avail \subseteq Pool(u)
<1>0. \A u \in Thread : Takes(u)
  BY DEF TakesFromPool
<1> SUFFICES ASSUME NEW u \in Thread PROVE Takes(u)'
  BY DEF TakesFromPool
<1>a. txn[u] \in Txn /\ txn'[u] \in Txn /\ txn[u].crtcs \subseteq Crtc
  BY DEF Inv, TypeOK, Txn
<1>1. ASSUME NEW t \in Thread, NEW S \in SUBSET Crtc,
             NEW req \in [S -> UNION {Requests(state[c]) : c \in S}],
             NEW moved \in SUBSET S, Begin(t, S, req, moved)
      PROVE  Takes(u)'
  <2>1. CASE u = t
    <3>1. \A c \in S : req[c].reserved = state[c].reserved
      BY <1>1, RequestsKeepReserved DEF Begin, Inv, TypeOK
    <3> QED BY <1>1, <2>1, <3>1 DEF Begin, Inv, TypeOK
  <2>2. CASE u # t
    BY <1>0, <1>1, <2>2 DEF Begin, Inv, TypeOK
  <2> QED BY <2>1, <2>2
<1>2. ASSUME NEW t \in Thread, NEW c \in Crtc, CheckUnchanged(t, c) PROVE Takes(u)'
  BY <1>0, <1>2, <1>a DEF CheckUnchanged, Inv, TypeOK, Txn
<1>3. ASSUME NEW t \in Thread, NEW c \in Crtc, CheckShrink(t, c) PROVE Takes(u)'
  <2>1. CASE u = t
    <3>1. \A d \in Crtc : txn'[t].new[d].reserved \subseteq txn[t].new[d].reserved
      <4>1. txn'[t].new = WithReserved(t, c, txn[t].new[c].reserved \ WindowsToFree(t, c))
        BY <1>3, <1>a, <2>1 DEF CheckShrink, Inv, TypeOK, Txn
      <4> QED BY <4>1, WithReservedEffect DEF Inv
    <3>2. txn'[t].crtcs = txn[t].crtcs /\ txn'[t].avail = txn[t].avail /\ txn'[t].phase = txn[t].phase
      BY <1>3, <1>a, <2>1 DEF CheckShrink, Inv, TypeOK, Txn
    <3> QED BY <1>0, <1>3, <1>a, <2>1, <3>1, <3>2 DEF CheckShrink
  <2>2. CASE u # t
    BY <1>0, <1>3, <2>2 DEF CheckShrink, Inv, TypeOK
  <2> QED BY <2>1, <2>2
<1>4. ASSUME NEW t \in Thread, NEW c \in Crtc, CheckGrow(t, c) PROVE Takes(u)'
  <2> DEFINE win == FindSetBits(PrivAvail(t), WinCnt(txn[t].new[c]) - WinCnt(state[c]))
  <2>1. CASE u = t
    <3>1. win \subseteq PrivAvail(t)
      BY FindSetBitsSubset
    <3>2. txn[t].phase = "check" /\ privLock' = t /\ UNCHANGED <<state, available>>
      BY <1>4 DEF CheckGrow, IsNext
    <3>3. PrivAvail(t) \subseteq available
      BY <1>0, <2>1, <3>2 DEF PrivAvail
    <3> HIDE DEF win
    <3>4. \A d \in Crtc : txn'[t].new[d].reserved \subseteq txn[t].new[d].reserved \cup win
      <4>1. txn' = [txn EXCEPT ![t] = [txn[t] EXCEPT
                     !.todo = txn[t].todo \ {c}, !.avail = PrivAvail(t) \ win,
                     !.new = WithReserved(t, c, txn[t].new[c].reserved \cup win)]]
        BY <1>4 DEF CheckGrow, win
      <4>2. txn'[t].new = WithReserved(t, c, txn[t].new[c].reserved \cup win)
        BY <4>1, <1>a, <2>1 DEF Inv, TypeOK, Txn
      <4> QED BY <4>2, WithReservedEffect DEF Inv
    <3>5. txn'[t].crtcs = txn[t].crtcs /\ txn'[t].avail \subseteq PrivAvail(t)
      BY <1>4, <1>a, <2>1 DEF CheckGrow, Inv, TypeOK, Txn
    <3> QED BY <1>0, <1>a, <2>1, <3>1, <3>2, <3>3, <3>4, <3>5
  <2>2. CASE u # t
    <3>1. txn'[u] = txn[u] /\ UNCHANGED <<state, available>> /\ privLock' # u /\ privLock # u
      BY <1>4, <2>2, WindowsAssumption DEF CheckGrow, CanGetPriv, Inv, TypeOK
    <3> QED BY <1>0, <3>1
  <2> QED BY <2>1, <2>2
<1>5. ASSUME NEW t \in Thread, txn' = [txn EXCEPT ![t] = IdleTxn], privLock' = Unlock(t),
             UNCHANGED <<state, available>>
      PROVE  Takes(u)'
  <2>1. CASE u = t
    BY <1>5, <2>1 DEF IdleTxn, Inv, TypeOK
  <2>2. CASE u # t
    <3>1. txn'[u] = txn[u] /\ (privLock' = u <=> privLock = u)
      BY <1>5, <2>2, WindowsAssumption DEF Unlock, Inv, TypeOK
    <3> QED BY <1>0, <1>5, <3>1
  <2> QED BY <2>1, <2>2
<1>6. ASSUME NEW t \in Thread, NEW Z \in SUBSET (0 .. Cardinality(Plane) - 1), CheckEnd(t, Z)
      PROVE  Takes(u)'
  <2>1. CASE u = t
    <3>0. /\ txn'[t].new = WithVisible(t, Z) /\ txn'[t].crtcs = txn[t].crtcs
          /\ txn'[t].phase = "done" /\ UNCHANGED <<state, available>>
      <4>1. CASE txn[t].freed = {}
        <5>1. txn'[t] = [txn[t] EXCEPT !.phase = "done", !.new = WithVisible(t, Z)]
          BY <1>6, <4>1 DEF CheckEnd, Inv, TypeOK
        <5> QED BY <1>6, <1>a, <2>1, <5>1 DEF CheckEnd, Txn
      <4>2. CASE txn[t].freed # {}
        <5>1. txn'[t] = [txn[t] EXCEPT !.phase = "done", !.new = WithVisible(t, Z), !.freed = {},
                                       !.avail = PrivAvail(t) \cup txn[t].freed]
          BY <1>6, <4>2 DEF CheckEnd, Inv, TypeOK
        <5> QED BY <1>6, <1>a, <2>1, <5>1 DEF CheckEnd, Txn
      <4> QED BY <4>1, <4>2
    <3>1. \A c \in Crtc : txn'[t].new[c].reserved = txn[t].new[c].reserved
      BY <3>0, WithVisibleEffect DEF Inv
    <3>3. privLock = t => privLock' = t
      BY <1>6 DEF CheckEnd
    <3> QED BY <1>0, <1>a, <2>1, <3>0, <3>1, <3>3
  <2>2. CASE u # t
    <3>1. txn'[u] = txn[u] /\ UNCHANGED <<state, available>> /\ (privLock = u => privLock' = u)
      BY <1>6, <2>2, WindowsAssumption DEF CheckEnd, CanGetPriv, Inv, TypeOK
    <3> QED BY <1>0, <3>1
  <2> QED BY <2>1, <2>2
<1>7. ASSUME NEW t \in Thread, Swap(t) PROVE Takes(u)'
  <2>1. CASE u = t
    BY <1>7, <2>1 DEF Swap, IdleTxn, Inv, TypeOK
  <2>2. CASE u # t
    <3>1. txn'[u] = txn[u] /\ (privLock' = u <=> privLock = u)
      BY <1>7, <2>2, WindowsAssumption DEF Swap, Unlock, Inv, TypeOK
    <3>2. privLock = u => available' = available
      BY <1>7, <2>2 DEF Swap
    <3>3. \A c \in txn[u].crtcs : state'[c] = state[c]
      BY <1>7, <1>a, <2>2 DEF Swap, Inv, LocksHeld
    <3> QED BY <1>0, <3>1, <3>2, <3>3
  <2> QED BY <2>1, <2>2
<1>8. ASSUME NEW S \in pending, CommitTail(S) PROVE Takes(u)'
  BY <1>0, <1>8 DEF CommitTail
<1>9. CASE UNCHANGED vars
  BY <1>0, <1>9 DEF vars
<1> HIDE DEF Takes
<1> QED BY LockableCrtcs, <1>1, <1>2, <1>3, <1>4, <1>5, <1>6, <1>7, <1>8, <1>9
        DEF Next, CheckNoWindows, Discard

(* So a swap gives a CRTC no window that another one had before it. *)
LEMMA SwapNeverHandsOver ==
  ASSUME Inv, TakesFromPool, [Next]_vars, NEW c \in Crtc, NEW d \in Crtc, c # d
  PROVE  state[c].reserved \cap state'[d].reserved = {}
<1>1. ASSUME NEW t \in Thread, Swap(t) PROVE state[c].reserved \cap state'[d].reserved = {}
  <2>1. CASE d \in txn[t].crtcs
    <3>1. state'[d].reserved \subseteq state[d].reserved \cup available
      BY <1>1, <2>1 DEF Swap, TakesFromPool
    <3> QED BY <3>1 DEF Inv, WindowsPartitioned
  <2>2. CASE d \notin txn[t].crtcs
    BY <1>1, <2>2 DEF Swap, Inv, WindowsPartitioned
  <2> QED BY <2>1, <2>2
<1>2. CASE state' = state
  BY <1>2 DEF Inv, WindowsPartitioned
<1> QED BY <1>1, <1>2 DEF Next, Begin, CheckUnchanged, CheckShrink, CheckGrow, CheckNoWindows,
                          CheckEnd, Discard, CommitTail, vars

(* The windows a swap frees are free only for later atomic states: none goes *)
(* straight from one CRTC to another (freed_win_mask).                       *)
THEOREM RestsInPool == Spec => NeverHandedOver
<1>1. Init => TakesFromPool
  BY DEF Init, TakesFromPool, IdleTxn
<1>2. Inv /\ Inv' /\ TakesFromPool /\ [Next]_vars => TakesFromPool'
  BY TakesFromPoolNext
<1>3. Inv /\ TakesFromPool /\ [Next]_vars
        => [\A c, d \in Crtc : c # d => state[c].reserved \cap state'[d].reserved = {}]_vars
  BY SwapNeverHandsOver
<1>4. Inv /\ TypeOK' /\ [Next]_vars => Inv'
  BY NextInv
<1> QED BY <1>1, <1>2, <1>3, <1>4, InitInv, TypeCorrect, PTL DEF Spec, NeverHandedOver

-----------------------------------------------------------------------------
(* Counting windows *)

(* A nonempty finite set of integers has a greatest element.  By minimal     *)
(* counterexample: the library's induction needs an operator, its            *)
(* well-founded minimum does not.                                            *)
LEMMA GreatestExists ==
  ASSUME NEW T, IsFiniteSet(T), T \subseteq Int, T # {}
  PROVE  \E m \in T : \A x \in T : x <= m
<1> DEFINE Bad == {U \in SUBSET T : U # {} /\ \A m \in U : \E x \in U : ~(x <= m)}
<1> SUFFICES ASSUME Bad # {} PROVE FALSE
  OBVIOUS
<1>1. Bad \subseteq FiniteSubsetsOf(T)
  BY FS_Subset DEF FiniteSubsetsOf
<1>2. PICK U \in Bad : \A V \in Bad : <<V, U>> \notin StrictSubsetOrdering(T)
  <2> HIDE DEF Bad
  <2> QED BY <1>1, FS_StrictSubsetOrderingWellFounded, WFMin
<1>3. PICK a \in U : TRUE
  OBVIOUS
<1> DEFINE V == U \ {a}
<1>4. V \notin Bad
  BY <1>2, <1>3 DEF StrictSubsetOrdering
<1>5. V # {}
  BY <1>3
<1>6. PICK m \in V : \A x \in V : x <= m
  BY <1>4, <1>5
<1>7. \A x \in U : x \in Int
  OBVIOUS
<1>8. CASE a <= m
  <2>1. \A x \in U : x <= m
    BY <1>6, <1>8
  <2> QED BY <1>6, <2>1
<1>9. CASE ~(a <= m)
  <2>1. \A x \in U : x <= a
    BY <1>3, <1>6, <1>7, <1>9
  <2> QED BY <1>3, <2>1
<1> QED BY <1>8, <1>9

(* find_set_bits_mask finds as many bits as it is asked for, if there are    *)
(* so many: without the greatest bit the mask yields the same ones, until    *)
(* all that are left are asked for.                                          *)
LEMMA FindSetBitsCount ==
  ASSUME NEW mask, IsFiniteSet(mask), mask \subseteq Int, NEW n \in Nat, n <= Cardinality(mask)
  PROVE  Cardinality(FindSetBits(mask, n)) = n
<1> DEFINE Bad == {U \in SUBSET mask :
                     \E k \in Nat : k <= Cardinality(U) /\ Cardinality(FindSetBits(U, k)) # k}
<1> SUFFICES ASSUME Bad # {} PROVE FALSE
  OBVIOUS
<1>1. Bad \subseteq FiniteSubsetsOf(mask)
  BY FS_Subset DEF FiniteSubsetsOf
<1>2. PICK U \in Bad : \A V \in Bad : <<V, U>> \notin StrictSubsetOrdering(mask)
  <2> HIDE DEF Bad
  <2> QED BY <1>1, FS_StrictSubsetOrderingWellFounded, WFMin
<1>3. /\ U \subseteq mask /\ IsFiniteSet(U)
      /\ \A x \in U : x \in Int
  BY FS_Subset
<1>4. PICK k \in Nat : k <= Cardinality(U) /\ Cardinality(FindSetBits(U, k)) # k
  BY <1>2
<1> HIDE DEF Bad
<1>5. Cardinality(U) \in Nat
  BY <1>3, FS_CardinalityType
<1> DEFINE below(W, w) == {v \in W : v < w}
<1>6. FindSetBits(U, k) = {w \in U : Cardinality(below(U, w)) < k}
  BY <1>4, <1>5 DEF FindSetBits
<1>7. CASE k = Cardinality(U)
  <2>1. ASSUME NEW w \in U PROVE Cardinality(below(U, w)) < k
    <3>1. below(U, w) \subseteq U /\ below(U, w) # U
      BY <1>3
    <3>2. Cardinality(below(U, w)) <= Cardinality(U) /\ Cardinality(below(U, w)) # Cardinality(U)
      BY <1>3, <3>1, FS_Subset
    <3>3. Cardinality(below(U, w)) \in Nat
      BY <1>3, <3>1, FS_Subset, FS_CardinalityType
    <3> HIDE DEF below
    <3> QED BY <1>5, <1>7, <3>2, <3>3
  <2>2. FindSetBits(U, k) = U
    BY <1>6, <2>1
  <2> QED BY <1>4, <1>7, <2>2
<1>8. CASE k < Cardinality(U)
  <2>1. U # {}
    BY <1>4, <1>8, FS_EmptySet
  <2>2. PICK m \in U : \A x \in U : x <= m
    BY <1>3, <2>1, GreatestExists
  <2> DEFINE V == U \ {m}
  <2>3. IsFiniteSet(V) /\ Cardinality(V) = Cardinality(U) - 1 /\ V \subseteq mask
    BY <1>3, FS_RemoveElement
  <2>4. k <= Cardinality(V)
    BY <1>4, <1>5, <1>8, <2>3
  <2>5. V \notin Bad
    BY <1>2, <1>3 DEF StrictSubsetOrdering
  <2>6. Cardinality(FindSetBits(V, k)) = k
    BY <2>3, <2>4, <2>5 DEF Bad
  <2>7. FindSetBits(V, k) = {w \in V : Cardinality(below(V, w)) < k}
    BY <1>4, <1>5, <2>3, <2>4 DEF FindSetBits
  <2>8. \A w \in V : below(V, w) = below(U, w)
    BY <1>3, <2>2
  <2>9. below(U, m) = V
    <3>1. \A x \in U : x < m <=> x # m
      BY <1>3, <2>2
    <3> QED BY <3>1
  <2> HIDE DEF below, V
  <2>10. ~(Cardinality(below(U, m)) < k)
    BY <1>4, <1>5, <2>3, <2>4, <2>9
  <2>11. \A w : w \in U <=> w \in V \/ w = m
    BY DEF V
  <2>12. FindSetBits(V, k) = FindSetBits(U, k)
    BY <1>6, <2>7, <2>8, <2>10, <2>11
  <2> QED BY <1>4, <2>6, <2>12
<1> QED BY <1>4, <1>5, <1>7, <1>8

(* Every mask is finite. *)
LEMMA MaskFinite ==
  ASSUME NEW mask \in SUBSET Win
  PROVE  IsFiniteSet(mask) /\ mask \subseteq Int /\ Cardinality(mask) \in Nat
<1>1. IsFiniteSet(Win) /\ Win \subseteq Int
  BY WindowsAssumption, FS_Interval DEF Win
<1> QED BY <1>1, FS_Subset, FS_CardinalityType

(* win_cnt is a natural number. *)
LEMMA WinCntNat == ASSUME NEW s \in CrtcState PROVE WinCnt(s) \in Nat
<1>1. IsFiniteSet(s.planes)
  BY WindowsAssumption, FS_Subset DEF CrtcState
<1>2. Cardinality(s.planes) \in Nat
  BY <1>1, FS_CardinalityType
<1> QED BY <1>2 DEF WinCnt

(* Without DPMS an enabled CRTC is active or in self refresh. *)
Good(s) ==
  /\ s.active => s.enable
  /\ s.sr => s.enable /\ ~s.active
  /\ s.enable => EffectivelyActive(s)

(* What is known of the new state r of a CRTC in state s while a check in    *)
(* "phase" holds it: "todo" until the loop has come to it.                   *)
Checked(s, r, todo, phase) ==
  /\ todo => r.reserved = s.reserved
  /\ r.skip => WinCnt(r) = WinCnt(s) /\ r.reserved = s.reserved
  /\ phase = "done" => ~todo /\ r.visible \subseteq r.reserved
  /\ ~ActiveOnly => /\ Good(r)
                    /\ ~Changed(s, r) => WinCnt(r) = WinCnt(s)
                    /\ todo \/ Cardinality(r.reserved) = WinCnt(r)

CountInv ==
  /\ \A c \in Crtc : state[c].visible \subseteq state[c].reserved
  /\ ~ActiveOnly => \A c \in Crtc : Good(state[c])
  /\ ~ActiveOnly => ReservedMatchesNeed
  /\ \A t \in Thread : \A c \in txn[t].crtcs :
       Checked(state[c], txn[t].new[c], c \in txn[t].todo, txn[t].phase)

(* A step that changes one thread's check only has to establish that check. *)
LEMMA OwnChecked ==
  ASSUME TypeOK, CountInv, NEW t \in Thread, NEW x, txn' = [txn EXCEPT ![t] = x], state' = state,
         \A c \in x.crtcs : Checked(state[c], x.new[c], c \in x.todo, x.phase)
  PROVE  CountInv'
<1>1. \A u \in Thread : txn'[u] = IF u = t THEN x ELSE txn[u]
  BY DEF TypeOK
<1>2. \A u \in Thread : \A c \in txn'[u].crtcs :
        Checked(state[c], txn'[u].new[c], c \in txn'[u].todo, txn'[u].phase)
  BY <1>1 DEF CountInv
<1> QED BY <1>2 DEF CountInv, ReservedMatchesNeed

(* The masks do not matter for what a CRTC needs. *)
LEMMA SameNeed ==
  ASSUME NEW s \in CrtcState, NEW r \in CrtcState, NEW q \in CrtcState,
         q.enable = r.enable, q.active = r.active, q.sr = r.sr, q.skip = r.skip, q.planes = r.planes
  PROVE  WinCnt(q) = WinCnt(r) /\ (Good(q) <=> Good(r)) /\ (Changed(s, q) <=> Changed(s, r))
  BY DEF WinCnt, EffectivelyActive, Good, Changed

(* What may be asked of a CRTC changes its windows only with its active,     *)
(* enable or plane bits, unless DPMS turns it off while it refreshes itself. *)
LEMMA RequestChecked ==
  ASSUME NEW s \in CrtcState, NEW r \in Requests(s), ~ActiveOnly => Good(s)
  PROVE  Checked(s, r, TRUE, "check")
<1> DEFINE dup == [s EXCEPT !.active = EffectivelyActive(s), !.sr = FALSE, !.skip = FALSE]
<1>0. EffectivelyActive(s) \in BOOLEAN
  BY DEF EffectivelyActive, CrtcState
<1>1. /\ dup \in CrtcState /\ dup.enable = s.enable /\ dup.active = EffectivelyActive(s)
      /\ dup.sr = FALSE /\ dup.skip = FALSE /\ dup.planes = s.planes /\ dup.reserved = s.reserved
  BY <1>0 DEF CrtcState
<1>2. \/ \E P \in SUBSET Plane : r = [dup EXCEPT !.enable = TRUE, !.active = TRUE, !.planes = P]
      \/ r = [dup EXCEPT !.enable = FALSE, !.active = FALSE, !.planes = {}]
      \/ ActiveOnly /\ r = [dup EXCEPT !.active = FALSE]
      \/ s.active /\ r = [dup EXCEPT !.active = FALSE, !.sr = TRUE]
      \/ s.sr /\ r = [dup EXCEPT !.skip = TRUE]
  BY DEF Requests
<1> HIDE DEF dup
<1>3. r.reserved = s.reserved
  BY RequestsKeepReserved
<1>4. \/ r.enable /\ r.active /\ ~r.sr /\ ~r.skip
      \/ ~r.enable /\ ~r.active /\ ~r.sr /\ ~r.skip
      \/ ActiveOnly /\ ~r.skip
      \/ s.active /\ r.enable = s.enable /\ ~r.active /\ r.sr /\ ~r.skip /\ r.planes = s.planes
      \/ s.sr /\ r.enable = s.enable /\ r.active /\ ~r.sr /\ r.skip /\ r.planes = s.planes
  BY <1>1, <1>2 DEF CrtcState, EffectivelyActive
<1>5. r \in CrtcState
  BY RequestsTyped
<1>6. r.skip => WinCnt(r) = WinCnt(s)
  BY <1>4, <1>5 DEF WinCnt, EffectivelyActive, CrtcState
<1>7. ~ActiveOnly => Good(r)
  BY <1>4, <1>5 DEF Good, EffectivelyActive, CrtcState
<1>8. ~ActiveOnly /\ ~Changed(s, r) => WinCnt(r) = WinCnt(s)
  BY <1>4, <1>5 DEF WinCnt, Good, Changed, EffectivelyActive, CrtcState
<1> QED BY <1>3, <1>6, <1>7, <1>8 DEF Checked

-----------------------------------------------------------------------------
(* Every step keeps the count *)

(* A new check: its states are what the client asked for. *)
LEMMA BeginCounts ==
  ASSUME TypeOK, CountInv, NEW t \in Thread, NEW S \in SUBSET Crtc,
         NEW req \in [S -> UNION {Requests(state[c]) : c \in S}],
         NEW moved \in SUBSET S, Begin(t, S, req, moved)
  PROVE  CountInv'
<1> DEFINE x == [crtcs |-> S, todo |-> S, moved |-> moved,
                 new |-> [c \in Crtc |-> IF c \in S THEN req[c] ELSE CrtcOff],
                 avail |-> {}, freed |-> {}, phase |-> "check"]
<1>1. ASSUME NEW c \in S PROVE Checked(state[c], req[c], TRUE, "check")
  BY RequestChecked DEF Begin, CountInv, TypeOK
<1>2. \A c \in x.crtcs : Checked(state[c], x.new[c], c \in x.todo, x.phase)
  BY <1>1
<1>3. txn' = [txn EXCEPT ![t] = x] /\ state' = state
  BY DEF Begin
<1> HIDE DEF x
<1> QED BY <1>2, <1>3, OwnChecked

(* The loop passes a CRTC by: it needs as many windows as before. *)
LEMMA UnchangedCounts ==
  ASSUME TypeOK, CountInv, NEW t \in Thread, NEW c \in Crtc, CheckUnchanged(t, c)
  PROVE  CountInv'
<1> DEFINE x == [txn[t] EXCEPT !.todo = txn[t].todo \ {c}]
<1>1. txn' = [txn EXCEPT ![t] = x] /\ state' = state
  BY DEF CheckUnchanged
<1>2. txn[t] \in Txn
  BY DEF TypeOK
<1>3. /\ x.crtcs = txn[t].crtcs /\ x.todo = txn[t].todo \ {c} /\ x.phase = "check"
      /\ x.new = txn[t].new /\ txn[t].phase = "check" /\ c \in txn[t].todo
  BY <1>2 DEF Txn, CheckUnchanged, IsNext
<1> HIDE DEF x
<1>4. ASSUME NEW d \in txn[t].crtcs PROVE Checked(state[d], x.new[d], d \in x.todo, x.phase)
  <2>1. Checked(state[d], x.new[d], d \in txn[t].todo, "check")
    BY <1>3 DEF CountInv
  <2>2. CASE d # c
    BY <1>3, <2>1, <2>2
  <2>3. CASE d = c
    <3>1. ~ActiveOnly => Cardinality(x.new[c].reserved) = WinCnt(x.new[c])
      BY <1>3, <2>1, <2>3 DEF CheckUnchanged, Skipped, CountInv, ReservedMatchesNeed, Checked
    <3> QED BY <1>3, <2>1, <2>3, <3>1 DEF Checked
  <2> QED BY <2>2, <2>3
<1> QED BY <1>1, <1>3, <1>4, OwnChecked

(* The loop gives a CRTC the mask m with as many windows as it needs. *)
LEMMA ReserveCounts ==
  ASSUME TypeOK, CountInv, NEW t \in Thread, NEW c \in Crtc, NEW m \in SUBSET Win, NEW x,
         txn' = [txn EXCEPT ![t] = x], state' = state, x.crtcs = txn[t].crtcs,
         x.todo = txn[t].todo \ {c}, x.phase = "check", txn[t].phase = "check",
         x.new = WithReserved(t, c, m), ~Skipped(t, c),
         ~ActiveOnly => Cardinality(m) = WinCnt(txn[t].new[c])
  PROVE  CountInv'
<1> SUFFICES ASSUME NEW d \in txn[t].crtcs
             PROVE  Checked(state[d], x.new[d], d \in x.todo, x.phase)
  BY OwnChecked
<1>1. d \in Crtc /\ state[d] \in CrtcState /\ txn[t].new \in [Crtc -> CrtcState]
  BY DEF TypeOK, Txn
<1>2. Checked(state[d], txn[t].new[d], d \in txn[t].todo, "check")
  BY DEF CountInv
<1>3. CASE d # c
  <2>1. x.new[d] = txn[t].new[d]
    BY <1>1, <1>3 DEF WithReserved
  <2> QED BY <1>2, <1>3, <2>1
<1>4. CASE d = c
  <2> DEFINE r == txn[t].new[c]
  <2>0. r \in CrtcState
    BY <1>1, <1>4
  <2>1. x.new[c] = [r EXCEPT !.reserved = m]
    BY <1>1, <1>4 DEF WithReserved
  <2>2. /\ x.new[c] \in CrtcState /\ x.new[c].reserved = m /\ x.new[c].enable = r.enable
        /\ x.new[c].active = r.active /\ x.new[c].sr = r.sr /\ x.new[c].skip = r.skip
        /\ x.new[c].planes = r.planes
    BY <2>0, <2>1 DEF CrtcState
  <2> HIDE DEF r
  <2>3. /\ WinCnt(x.new[c]) = WinCnt(r) /\ (Good(x.new[c]) <=> Good(r))
        /\ (Changed(state[c], x.new[c]) <=> Changed(state[c], r))
    BY <1>1, <1>4, <2>0, <2>2, SameNeed
  <2>4. WinCnt(r) # WinCnt(state[c])
    BY DEF Skipped, r
  <2>5. Checked(state[c], r, c \in txn[t].todo, "check")
    BY <1>2, <1>4 DEF r
  <2>6. ~r.skip
    BY <2>4, <2>5 DEF Checked
  <2> QED BY <1>4, <2>2, <2>3, <2>5, <2>6 DEF Checked, r
<1> QED BY <1>3, <1>4

(* Giving up the surplus leaves what is needed. *)
LEMMA ShrinkCounts ==
  ASSUME TypeOK, CountInv, NEW t \in Thread, NEW c \in Crtc, CheckShrink(t, c), LocksHeld
  PROVE  CountInv'
<1> DEFINE r == txn[t].new[c]
           win == WindowsToFree(t, c)
           m == r.reserved \ win
           x == [txn[t] EXCEPT !.todo = txn[t].todo \ {c}, !.freed = txn[t].freed \cup win,
                               !.new = WithReserved(t, c, m)]
<1>1. txn' = [txn EXCEPT ![t] = x] /\ state' = state
  BY DEF CheckShrink
<1>2. /\ txn[t] \in Txn /\ r \in CrtcState /\ state[c] \in CrtcState
      /\ r.reserved \in SUBSET Win /\ c \in txn[t].crtcs
  BY DEF TypeOK, Txn, CrtcState, CheckShrink, IsNext, LocksHeld
<1>3. /\ x.crtcs = txn[t].crtcs /\ x.todo = txn[t].todo \ {c} /\ x.phase = txn[t].phase
      /\ x.new = WithReserved(t, c, m)
  BY <1>2 DEF Txn
<1>4. ASSUME ~ActiveOnly PROVE Cardinality(m) = WinCnt(r)
  <2>1. r.reserved = state[c].reserved /\ Cardinality(r.reserved) = WinCnt(state[c])
    BY <1>2, <1>4 DEF CheckShrink, IsNext, CountInv, Checked, ReservedMatchesNeed
  <2>2. CASE WinCnt(r) = 0
    <3>1. m = {}
      BY <2>2 DEF WindowsToFree
    <3> QED BY <2>2, <3>1, FS_EmptySet
  <2>3. CASE WinCnt(r) # 0
    <3> DEFINE n == WinCnt(state[c]) - WinCnt(r)
    <3>1. WinCnt(r) \in Nat /\ WinCnt(state[c]) \in Nat /\ WinCnt(state[c]) > WinCnt(r)
      BY <1>2, WinCntNat DEF CheckShrink
    <3>2. win = FindSetBits(r.reserved, n)
      BY <2>3 DEF WindowsToFree
    <3>3. n \in Nat /\ n <= Cardinality(r.reserved)
      BY <2>1, <3>1
    <3>4. Cardinality(win) = n /\ win \subseteq r.reserved
      <4> HIDE DEF n, win
      <4> QED BY <1>2, <3>2, <3>3, MaskFinite, FindSetBitsCount, FindSetBitsSubset
    <3>5. Cardinality(m) = Cardinality(r.reserved) - Cardinality(r.reserved \cap win)
      BY <1>2, MaskFinite, FS_Difference
    <3>6. r.reserved \cap win = win
      BY <3>4
    <3>7. Cardinality(m) = Cardinality(r.reserved) - Cardinality(win)
      BY <3>5, <3>6
    <3> HIDE DEF m, win, r
    <3> QED BY <2>1, <3>1, <3>4, <3>7
  <2> QED BY <2>2, <2>3
<1>5. txn[t].phase = "check" /\ ~Skipped(t, c) /\ m \in SUBSET Win
  BY <1>2 DEF CheckShrink, IsNext
<1> HIDE DEF x, m
<1> QED BY <1>1, <1>3, <1>4, <1>5, ReserveCounts

(* The pool a check sees has no window of its CRTCs. *)
LEMMA PoolSeparate ==
  ASSUME Inv, NEW t \in Thread, NEW d \in Crtc, d \in txn[t].crtcs
  PROVE  PrivAvail(t) \in SUBSET Win /\ PrivAvail(t) \cap txn[t].new[d].reserved = {}
<1>1. txn[t] \in Txn /\ available \in SUBSET Win
  BY DEF Inv, TypeOK
<1>2. CASE privLock = t
  BY <1>1, <1>2 DEF PrivAvail, Inv, ChecksConserve, Txn
<1>3. CASE privLock # t
  <2>1. \A w \in Win : InCheck(t, w) => w \notin available
    BY <1>3 DEF Inv, ChecksConserve, InLockedState, WindowsPartitioned, TypeOK, Txn
  <2> QED BY <1>1, <1>3, <2>1 DEF PrivAvail, InCheck
<1> QED BY <1>2, <1>3

(* Windows that are taken are new ones, so they make up what is missing. *)
LEMMA GrowCounts ==
  ASSUME Inv, CountInv, NEW t \in Thread, NEW c \in Crtc, CheckGrow(t, c)
  PROVE  CountInv'
<1> DEFINE r == txn[t].new[c]
           n == WinCnt(r) - WinCnt(state[c])
           win == FindSetBits(PrivAvail(t), n)
           m == r.reserved \cup win
           x == [txn[t] EXCEPT !.todo = txn[t].todo \ {c}, !.avail = PrivAvail(t) \ win,
                               !.new = WithReserved(t, c, m)]
<1>1. txn' = [txn EXCEPT ![t] = x] /\ state' = state
  BY DEF CheckGrow
<1>2. /\ txn[t] \in Txn /\ r \in CrtcState /\ state[c] \in CrtcState
      /\ r.reserved \in SUBSET Win /\ c \in txn[t].crtcs
  BY DEF Inv, TypeOK, Txn, CrtcState, CheckGrow, IsNext, LocksHeld
<1>3. /\ x.crtcs = txn[t].crtcs /\ x.todo = txn[t].todo \ {c} /\ x.phase = txn[t].phase
      /\ x.new = WithReserved(t, c, m)
  BY <1>2 DEF Txn
<1>4. PrivAvail(t) \in SUBSET Win /\ PrivAvail(t) \cap r.reserved = {}
  BY <1>2, PoolSeparate
<1>5. win \subseteq PrivAvail(t)
  BY FindSetBitsSubset
<1>6. ASSUME ~ActiveOnly PROVE Cardinality(m) = WinCnt(r)
  <2>1. r.reserved = state[c].reserved /\ Cardinality(r.reserved) = WinCnt(state[c])
    BY <1>2, <1>6 DEF CheckGrow, IsNext, CountInv, Checked, ReservedMatchesNeed
  <2>2. WinCnt(r) \in Nat /\ WinCnt(state[c]) \in Nat /\ WinCnt(state[c]) < WinCnt(r)
    BY <1>2, WinCntNat DEF CheckGrow
  <2>3. n \in Nat /\ Cardinality(PrivAvail(t)) \in Nat
    BY <1>4, <2>2, MaskFinite
  <2>4. ~(Cardinality(PrivAvail(t)) < n)
    BY DEF CheckGrow, FindSetBits
  <2> HIDE DEF n
  <2>5. Cardinality(win) = n
    BY <1>4, <2>3, <2>4, MaskFinite, FindSetBitsCount
  <2>6. r.reserved \cap win = {} /\ IsFiniteSet(win) /\ IsFiniteSet(r.reserved)
    BY <1>2, <1>4, <1>5, MaskFinite
  <2>7. Cardinality(m) = Cardinality(r.reserved) + Cardinality(win) - 0
    <3> HIDE DEF win, r
    <3> QED BY <2>6, FS_Union, FS_EmptySet
  <2> HIDE DEF m, win, r
  <2> QED BY <2>1, <2>2, <2>5, <2>7 DEF n
<1>7. txn[t].phase = "check" /\ ~Skipped(t, c) /\ m \in SUBSET Win
  BY <1>2, <1>4, <1>5 DEF CheckGrow, IsNext
<1> HIDE DEF x, m
<1> QED BY <1>1, <1>3, <1>6, <1>7, ReserveCounts DEF Inv

(* The end of the check only adds the visible windows, among the reserved. *)
LEMMA EndCounts ==
  ASSUME TypeOK, CountInv, NEW t \in Thread, NEW Z, CheckEnd(t, Z)
  PROVE  CountInv'
<1>1. PICK x \in {[txn[t] EXCEPT !.phase = "done", !.new = WithVisible(t, Z)],
                  [txn[t] EXCEPT !.phase = "done", !.new = WithVisible(t, Z), !.freed = {},
                                 !.avail = PrivAvail(t) \cup txn[t].freed]} :
        txn' = [txn EXCEPT ![t] = x]
  BY DEF CheckEnd
<1>2. txn[t] \in Txn /\ txn[t].phase = "check" /\ txn[t].todo = {} /\ state' = state
  BY DEF TypeOK, CheckEnd
<1>3. /\ x.crtcs = txn[t].crtcs /\ x.todo = {} /\ x.phase = "done" /\ x.new = WithVisible(t, Z)
  BY <1>2 DEF Txn
<1> SUFFICES ASSUME NEW d \in txn[t].crtcs
             PROVE  Checked(state[d], WithVisible(t, Z)[d], FALSE, "done")
  <2>1. \A d \in x.crtcs : (d \in x.todo) = FALSE
    BY <1>3
  <2>2. \A d \in x.crtcs : Checked(state[d], x.new[d], d \in x.todo, x.phase)
    BY <1>3, <2>1
  <2> QED BY <1>1, <1>2, <2>2, OwnChecked
<1> DEFINE r == txn[t].new[d]
           q == WithVisible(t, Z)[d]
<1>4. d \in Crtc /\ state[d] \in CrtcState /\ r \in CrtcState
  BY <1>2 DEF TypeOK, Txn
<1>5. Checked(state[d], r, FALSE, "check")
  <2>1. Checked(state[d], r, d \in txn[t].todo, txn[t].phase)
    BY DEF CountInv
  <2>2. (d \in txn[t].todo) = FALSE
    BY <1>2
  <2> QED BY <1>2, <2>1, <2>2
<1>6. q = [r EXCEPT !.visible = VisibleWindows(r.reserved, Z)] \/ q = [r EXCEPT !.visible = {}]
  BY <1>4 DEF WithVisible
<1> HIDE DEF r, q
<1>7. VisibleWindows(r.reserved, Z) \subseteq r.reserved
  BY DEF VisibleWindows
<1>8. /\ q \in CrtcState /\ q.enable = r.enable /\ q.active = r.active /\ q.sr = r.sr
      /\ q.skip = r.skip /\ q.planes = r.planes /\ q.reserved = r.reserved
      /\ q.visible \subseteq r.reserved
  BY <1>4, <1>6, <1>7 DEF CrtcState
<1>9. WinCnt(q) = WinCnt(r) /\ (Good(q) <=> Good(r)) /\ (Changed(state[d], q) <=> Changed(state[d], r))
  BY <1>4, <1>8, SameNeed
<1> QED BY <1>5, <1>8, <1>9 DEF Checked, q

(* Dropping a check loses nothing that counts. *)
LEMMA DropCounts ==
  ASSUME TypeOK, CountInv, NEW t \in Thread, txn' = [txn EXCEPT ![t] = IdleTxn], state' = state
  PROVE  CountInv'
<1>1. \A c \in IdleTxn.crtcs :
        Checked(state[c], IdleTxn.new[c], c \in IdleTxn.todo, IdleTxn.phase)
  BY DEF IdleTxn
<1> QED BY <1>1, OwnChecked

(* A finished check is through with all its CRTCs: what a swap publishes     *)
(* has the windows it needs.                                                 *)
LEMMA SwapCounts ==
  ASSUME Inv, CountInv, NEW t \in Thread, Swap(t)
  PROVE  CountInv'
<1>1. \A c \in Crtc : state'[c] = IF c \in txn[t].crtcs THEN txn[t].new[c] ELSE state[c]
  BY DEF Swap
<1>2. txn'[t] = IdleTxn /\ \A u \in Thread \ {t} : txn'[u] = txn[u]
  BY DEF Swap, Inv, TypeOK
<1>3. \A c \in txn[t].crtcs : Checked(state[c], txn[t].new[c], FALSE, "done")
  BY DEF Swap, CountInv, Checked
<1>4. ASSUME NEW c \in Crtc
      PROVE  /\ state'[c].visible \subseteq state'[c].reserved
             /\ ~ActiveOnly => Good(state'[c]) /\ Cardinality(state'[c].reserved) = WinCnt(state'[c])
  <2>1. CASE c \in txn[t].crtcs
    <3>1. Checked(state[c], state'[c], FALSE, "done")
      BY <1>1, <1>3, <2>1
    <3> QED BY <3>1 DEF Checked
  <2>2. CASE c \notin txn[t].crtcs
    BY <1>1, <2>2 DEF CountInv, ReservedMatchesNeed
  <2> QED BY <2>1, <2>2
<1>5. ASSUME NEW u \in Thread, NEW c \in txn'[u].crtcs
      PROVE  Checked(state'[c], txn'[u].new[c], c \in txn'[u].todo, txn'[u].phase)
  <2>1. u # t
    BY <1>2, <1>5 DEF IdleTxn
  <2>2. c \in Crtc /\ c \in txn[u].crtcs /\ state'[c] = state[c]
    BY <1>1, <1>2, <1>5, <2>1 DEF Inv, LocksHeld, TypeOK, Txn
  <2> QED BY <1>2, <2>1, <2>2 DEF CountInv
<1> HIDE DEF Checked, Good
<1> QED BY <1>4, <1>5 DEF CountInv, ReservedMatchesNeed

(* At the start nothing is enabled and nothing is reserved. *)
LEMMA InitCounts == Init => CountInv
<1>1. CrtcOff \in CrtcState
  BY CrtcOffTyped
<1>2. Good(CrtcOff) /\ WinCnt(CrtcOff) = 0 /\ CrtcOff.reserved = {} /\ CrtcOff.visible = {}
  BY DEF Good, WinCnt, EffectivelyActive, CrtcOff
<1>3. Cardinality(CrtcOff.reserved) = WinCnt(CrtcOff)
  BY <1>2, FS_EmptySet
<1> SUFFICES ASSUME Init PROVE CountInv
  OBVIOUS
<1>4. \A c \in Crtc : state[c] = CrtcOff
  BY DEF Init
<1>5. \A t \in Thread : txn[t].crtcs = {}
  BY DEF Init, IdleTxn
<1> QED BY <1>2, <1>3, <1>4, <1>5 DEF CountInv, ReservedMatchesNeed

(* Every step of every thread keeps the count. *)
LEMMA NextCounts == ASSUME Inv, CountInv, [Next]_vars PROVE CountInv'
<1>1. ASSUME NEW t \in Thread, NEW S \in SUBSET Crtc,
             NEW req \in [S -> UNION {Requests(state[c]) : c \in S}],
             NEW moved \in SUBSET S, Begin(t, S, req, moved)
      PROVE  CountInv'
  BY <1>1, BeginCounts DEF Inv
<1>2. ASSUME NEW t \in Thread, NEW c \in Crtc, CheckUnchanged(t, c) PROVE CountInv'
  BY <1>2, UnchangedCounts DEF Inv
<1>3. ASSUME NEW t \in Thread, NEW c \in Crtc, CheckShrink(t, c) PROVE CountInv'
  BY <1>3, ShrinkCounts DEF Inv
<1>4. ASSUME NEW t \in Thread, NEW c \in Crtc, CheckGrow(t, c) PROVE CountInv'
  BY <1>4, GrowCounts
<1>5. ASSUME NEW t \in Thread, NEW c \in Crtc, CheckNoWindows(t, c) PROVE CountInv'
  BY <1>5, DropCounts DEF CheckNoWindows, Inv
<1>6. ASSUME NEW t \in Thread, NEW Z \in SUBSET (0 .. Cardinality(Plane) - 1), CheckEnd(t, Z)
      PROVE  CountInv'
  BY <1>6, EndCounts DEF Inv
<1>7. ASSUME NEW t \in Thread, Discard(t) PROVE CountInv'
  BY <1>7, DropCounts DEF Discard, Inv
<1>8. ASSUME NEW t \in Thread, Swap(t) PROVE CountInv'
  BY <1>8, SwapCounts
<1>9. CASE UNCHANGED <<state, txn>>
  BY <1>9 DEF CountInv, ReservedMatchesNeed
<1> QED BY LockableCrtcs, <1>1, <1>2, <1>3, <1>4, <1>5, <1>6, <1>7, <1>8, <1>9 DEF Next, CommitTail, vars

(* Unless DPMS may turn a CRTC off behind the enable bit, a CRTC holds       *)
(* exactly as many windows as its planes need (one for the color map), so    *)
(* the window that decon_get_win_id looks up by zpos exists.  The argument   *)
(* is Checked: what a check knows of each new CRTC state, before and after   *)
(* the loop has come to it.                                                  *)
THEOREM NeedMet == ~ActiveOnly /\ Spec => []ReservedMatchesNeed
<1>1. Inv /\ CountInv /\ [Next]_vars => CountInv'
  BY NextCounts
<1>2. Inv /\ TypeOK' /\ [Next]_vars => Inv'
  BY NextInv
<1>3. ~ActiveOnly /\ CountInv => ReservedMatchesNeed
  BY DEF CountInv
<1>4. CASE ActiveOnly
  BY <1>4
<1>5. CASE ~ActiveOnly
  <2>1. CountInv => ReservedMatchesNeed
    BY <1>3, <1>5
  <2> QED BY <1>1, <1>2, <2>1, InitInv, InitCounts, TypeCorrect, PTL DEF Spec
<1> QED BY <1>4, <1>5

-----------------------------------------------------------------------------
(* The window registers *)

(* A DECON has a window enabled that its CRTC has not reserved only before   *)
(* that CRTC's tail, which then disables it.                                 *)
Follows(c) ==
  \A w \in Win : w \in hw[c] => w \in state[c].reserved \/ AboutToLose(c, w)

(* A tail enables only what its CRTC has reserved, unless the state says     *)
(* that the update is to be skipped.                                         *)
LEMMA ProgrammedReserved ==
  ASSUME CountInv, NEW c \in Crtc
  PROVE  Programmed(c) \subseteq state[c].reserved \/ (state[c].skip /\ Programmed(c) = hw[c])
  BY FindSetBitsSubset DEF Programmed, CountInv

(* A swap waits for the tails of its own CRTCs, so their registers are up to *)
(* date; what the new states give up goes with the tail that it queues.  The *)
(* states and the tails of the other CRTCs stay.                             *)
LEMMA SwapFollows ==
  ASSUME CountInv, CountInv', NEW c \in Crtc, Follows(c), NEW t \in Thread, Swap(t)
  PROVE  Follows(c)'
<1> SUFFICES ASSUME NEW w \in Win, w \in hw'[c], w \notin state'[c].reserved
             PROVE  AboutToLose(c, w)'
  BY DEF Follows
<1>1. hw' = hw /\ pending' = pending \cup {txn[t].crtcs}
  BY DEF Swap
<1>2. CASE c \in txn[t].crtcs
  <2>1. w \in state[c].reserved
    BY <1>1, <1>2 DEF Swap, Follows, AboutToLose
  <2>2. ~state'[c].skip
    BY <1>2, <2>1 DEF Swap, CountInv, Checked
  <2>3. w \notin Programmed(c)'
    BY <2>2, FindSetBitsSubset DEF Programmed, CountInv
  <2> QED BY <1>1, <1>2, <2>3 DEF AboutToLose
<1>3. CASE c \notin txn[t].crtcs
  <2>1. state'[c] = state[c]
    BY <1>3 DEF Swap
  <2>2. Programmed(c)' = Programmed(c)
    BY <1>1, <2>1 DEF Programmed
  <2> QED BY <1>1, <2>1, <2>2 DEF Follows, AboutToLose
<1> QED BY <1>2, <1>3

(* A tail disables what its CRTCs have given up; of the other CRTCs it       *)
(* changes neither the registers nor the tails.                              *)
LEMMA TailFollows ==
  ASSUME CountInv, NEW c \in Crtc, Follows(c), NEW S \in pending, CommitTail(S)
  PROVE  Follows(c)'
<1> SUFFICES ASSUME NEW w \in Win, w \in hw'[c], w \notin state'[c].reserved
             PROVE  AboutToLose(c, w)'
  BY DEF Follows
<1>1. state' = state /\ pending' = pending \ {S}
  BY DEF CommitTail
<1>2. hw'[c] = IF c \in S THEN Programmed(c) ELSE hw[c]
  BY DEF CommitTail
<1>3. CASE c \in S
  <2>1. w \in Programmed(c)
    BY <1>2, <1>3
  <2>2. w \in hw[c]
    BY <1>1, <2>1, ProgrammedReserved
  <2>3. Programmed(c) = hw[c]
    BY <1>1, <2>1, ProgrammedReserved
  <2> QED BY <1>1, <2>1, <2>2, <2>3 DEF Follows, AboutToLose
<1>4. CASE c \notin S
  <2>1. Programmed(c)' = Programmed(c)
    BY <1>1, <1>2, <1>4 DEF Programmed
  <2> QED BY <1>1, <1>2, <1>4, <2>1 DEF Follows, AboutToLose
<1> QED BY <1>3, <1>4

(* What the registers do after the states, for every number of CRTCs and     *)
(* however many tails are queued: a window that a state has given up stays   *)
(* enabled no longer than until its CRTC's next tail, and of two DECONs that *)
(* have the same window enabled one is about to lose it.  The argument is    *)
(* Follows: a swap finds the registers of its own CRTCs up to date, and a    *)
(* tail enables only what is reserved.                                       *)
THEOREM OverlapEnds == Spec => []OverlapPasses
<1> DEFINE All == \A c \in Crtc : Follows(c)
<1>1. Init => All
  BY DEF Init, Follows
<1>2. CountInv /\ CountInv' /\ All /\ [Next]_vars => All'
  <2> SUFFICES ASSUME CountInv, CountInv', All, [Next]_vars, NEW c \in Crtc
               PROVE  Follows(c)'
    OBVIOUS
  <2>1. ASSUME NEW t \in Thread, Swap(t) PROVE Follows(c)'
    BY <2>1, SwapFollows
  <2>2. ASSUME NEW S \in pending, CommitTail(S) PROVE Follows(c)'
    BY <2>2, TailFollows
  <2>3. CASE UNCHANGED <<state, pending, hw>>
    BY <2>3 DEF Follows, AboutToLose, Programmed
  <2> QED BY <2>1, <2>2, <2>3
          DEF Next, Begin, CheckUnchanged, CheckShrink, CheckGrow, CheckNoWindows, CheckEnd, Discard, vars
<1>3. Inv /\ TypeOK' /\ [Next]_vars => Inv'
  BY NextInv
<1>4. Inv /\ CountInv /\ [Next]_vars => CountInv'
  BY NextCounts
<1>5. Inv /\ All => OverlapPasses
  <2> SUFFICES ASSUME Inv, All PROVE OverlapPasses
    OBVIOUS
  <2>1. ASSUME NEW c \in Crtc, NEW d \in Crtc, c # d, NEW w \in hw[c] \cap hw[d]
        PROVE  AboutToLose(c, w) \/ AboutToLose(d, w)
    <3>1. w \in Win
      BY DEF Inv, TypeOK
    <3>2. state[c].reserved \cap state[d].reserved = {}
      BY <2>1 DEF Inv, WindowsPartitioned
    <3> QED BY <3>1, <3>2 DEF Follows
  <2> QED BY <2>1 DEF OverlapPasses, Follows
<1> HIDE DEF All
<1> QED BY <1>1, <1>2, <1>3, <1>4, <1>5, InitInv, InitCounts, TypeCorrect, PTL DEF Spec

-----------------------------------------------------------------------------
(* A check takes windows for a CRTC or gives some up *)

OneWayFor(u, c) ==
  /\ c \in txn[u].todo => txn[u].new[c].reserved = state[c].reserved
  /\ \/ txn[u].new[c].reserved \subseteq state[c].reserved
     \/ state[c].reserved \subseteq txn[u].new[c].reserved

(* What a step may do to the check of a thread without disturbing OneWay: a  *)
(* CRTC's mask stays, or the CRTC is done with and its mask only grew or only*)
(* shrank.                                                                   *)
Advances(u, c) ==
  /\ txn'[u].todo \subseteq txn[u].todo
  /\ \/ txn'[u].new[c].reserved = txn[u].new[c].reserved
     \/ /\ c \in txn[u].todo /\ c \notin txn'[u].todo
        /\ \/ txn'[u].new[c].reserved \subseteq txn[u].new[c].reserved
           \/ txn[u].new[c].reserved \subseteq txn'[u].new[c].reserved

(* Such a step keeps the CRTC's mask on one side of the swapped-in one. *)
LEMMA AdvancesKeeps ==
  ASSUME NEW u \in Thread, NEW c \in Crtc, OneWayFor(u, c), Advances(u, c), state'[c] = state[c]
  PROVE  OneWayFor(u, c)'
  BY DEF OneWayFor, Advances

(* The first loop of exynos_atomic_check_windows touches a CRTC once. *)
LEMMA ShrinkAdvances ==
  ASSUME Inv, NEW t \in Thread, NEW c \in Crtc, CheckShrink(t, c), NEW d \in txn[t].crtcs, d \in Crtc
  PROVE  Advances(t, d)
<1>1. txn'[t] = [txn[t] EXCEPT
           !.todo = txn[t].todo \ {c}, !.freed = txn[t].freed \cup WindowsToFree(t, c),
           !.new = WithReserved(t, c, txn[t].new[c].reserved \ WindowsToFree(t, c))]
  BY DEF CheckShrink, Inv, TypeOK
<1>2. txn[t] \in Txn /\ c \in txn[t].todo
  BY DEF CheckShrink, IsNext, Inv, TypeOK
<1>3. /\ txn'[t].todo = txn[t].todo \ {c}
      /\ txn'[t].new = WithReserved(t, c, txn[t].new[c].reserved \ WindowsToFree(t, c))
  BY <1>1, <1>2 DEF Txn
<1>4. txn'[t].new[d].reserved
        = IF d = c THEN txn[t].new[c].reserved \ WindowsToFree(t, c) ELSE txn[t].new[d].reserved
  BY <1>3, WithReservedEffect DEF Inv
<1> QED BY <1>2, <1>3, <1>4 DEF Advances

(* So does the second loop, which only adds windows. *)
LEMMA GrowAdvances ==
  ASSUME Inv, NEW t \in Thread, NEW c \in Crtc, CheckGrow(t, c), NEW d \in txn[t].crtcs, d \in Crtc
  PROVE  Advances(t, d)
<1> DEFINE win == FindSetBits(PrivAvail(t), WinCnt(txn[t].new[c]) - WinCnt(state[c]))
<1>1. txn'[t] = [txn[t] EXCEPT
           !.todo = txn[t].todo \ {c}, !.avail = PrivAvail(t) \ win,
           !.new = WithReserved(t, c, txn[t].new[c].reserved \cup win)]
  BY DEF CheckGrow, Inv, TypeOK
<1>2. txn[t] \in Txn /\ c \in txn[t].todo
  BY DEF CheckGrow, IsNext, Inv, TypeOK
<1> HIDE DEF win
<1>3. /\ txn'[t].todo = txn[t].todo \ {c}
      /\ txn'[t].new = WithReserved(t, c, txn[t].new[c].reserved \cup win)
  BY <1>1, <1>2 DEF Txn
<1>4. txn'[t].new[d].reserved
        = IF d = c THEN txn[t].new[c].reserved \cup win ELSE txn[t].new[d].reserved
  BY <1>3, WithReservedEffect DEF Inv
<1> QED BY <1>2, <1>3, <1>4 DEF Advances

(* The end of the check leaves every reserved_win_mask alone. *)
LEMMA EndAdvances ==
  ASSUME Inv, NEW t \in Thread, NEW Z, CheckEnd(t, Z), NEW d \in txn[t].crtcs, d \in Crtc
  PROVE  Advances(t, d)
<1>1. txn[t] \in Txn
  BY DEF Inv, TypeOK
<1>2. txn'[t].todo = txn[t].todo /\ txn'[t].new = WithVisible(t, Z)
  <2>1. CASE txn[t].freed = {}
    <3>1. txn'[t] = [txn[t] EXCEPT !.phase = "done", !.new = WithVisible(t, Z)]
      BY <2>1 DEF CheckEnd, Inv, TypeOK
    <3> QED BY <1>1, <3>1 DEF Txn
  <2>2. CASE txn[t].freed # {}
    <3>1. txn'[t] = [txn[t] EXCEPT !.phase = "done", !.new = WithVisible(t, Z), !.freed = {},
                                   !.avail = PrivAvail(t) \cup txn[t].freed]
      BY <2>2 DEF CheckEnd, Inv, TypeOK
    <3> QED BY <1>1, <3>1 DEF Txn
  <2> QED BY <2>1, <2>2
<1>3. txn'[t].new[d].reserved = txn[t].new[d].reserved
  BY <1>2, WithVisibleEffect DEF Inv
<1> QED BY <1>2, <1>3 DEF Advances
(* A thread's step leaves the other checks, and the states they lock, alone. *)
LEMMA OneWayNext ==
  ASSUME Inv, Inv', OneWay, [Next]_vars PROVE OneWay'
<1>0. \A u \in Thread : \A c \in txn[u].crtcs : OneWayFor(u, c)
  BY DEF OneWay, OneWayFor
<1> SUFFICES ASSUME NEW u \in Thread, NEW d \in txn'[u].crtcs PROVE OneWayFor(u, d)'
  BY DEF OneWay, OneWayFor
<1>a. txn[u] \in Txn /\ txn'[u] \in Txn /\ d \in Crtc
  BY DEF Inv, TypeOK, Txn
<1>b. ASSUME txn'[u] = txn[u], state'[d] = state[d] PROVE OneWayFor(u, d)'
  BY <1>0, <1>b DEF OneWayFor
<1>c. ASSUME d \in txn[u].crtcs, Advances(u, d), state'[d] = state[d] PROVE OneWayFor(u, d)'
  BY <1>0, <1>a, <1>c, AdvancesKeeps
<1>d. ASSUME txn'[u] = IdleTxn PROVE OneWayFor(u, d)'
  BY <1>d DEF IdleTxn
<1>1. ASSUME NEW t \in Thread, NEW S \in SUBSET Crtc,
             NEW req \in [S -> UNION {Requests(state[c]) : c \in S}],
             NEW moved \in SUBSET S, Begin(t, S, req, moved)
      PROVE  OneWayFor(u, d)'
  <2>1. CASE u = t
    <3>1. \A c \in S : req[c].reserved = state[c].reserved
      BY <1>1, RequestsKeepReserved DEF Begin, Inv, TypeOK
    <3> QED BY <1>1, <1>a, <2>1, <3>1 DEF Begin, Inv, TypeOK, OneWayFor
  <2>2. CASE u # t
    BY <1>b, <1>1, <2>2 DEF Begin, Inv, TypeOK
  <2> QED BY <2>1, <2>2
<1>2. ASSUME NEW t \in Thread, NEW c \in Crtc, CheckUnchanged(t, c) PROVE OneWayFor(u, d)'
  <2>1. CASE u = t
    <3>1. txn'[t] = [txn[t] EXCEPT !.todo = txn[t].todo \ {c}] /\ UNCHANGED state
      BY <1>2 DEF CheckUnchanged, Inv, TypeOK
    <3>2. txn'[t].crtcs = txn[t].crtcs /\ txn'[t].new = txn[t].new /\ txn'[t].todo \subseteq txn[t].todo
      BY <1>a, <2>1, <3>1 DEF Txn
    <3> QED BY <1>c, <2>1, <3>1, <3>2 DEF Advances
  <2>2. CASE u # t
    BY <1>b, <1>2, <2>2 DEF CheckUnchanged, Inv, TypeOK
  <2> QED BY <2>1, <2>2
<1>3. ASSUME NEW t \in Thread, NEW c \in Crtc, CheckShrink(t, c) PROVE OneWayFor(u, d)'
  <2>1. CASE u = t
    <3>1. txn'[t].crtcs = txn[t].crtcs /\ UNCHANGED state
      BY <1>3, <1>a, <2>1 DEF CheckShrink, Inv, TypeOK, Txn
    <3> QED BY <1>3, <1>a, <1>c, <2>1, <3>1, ShrinkAdvances
  <2>2. CASE u # t
    BY <1>b, <1>3, <2>2 DEF CheckShrink, Inv, TypeOK
  <2> QED BY <2>1, <2>2
<1>4. ASSUME NEW t \in Thread, NEW c \in Crtc, CheckGrow(t, c) PROVE OneWayFor(u, d)'
  <2>1. CASE u = t
    <3>1. txn'[t].crtcs = txn[t].crtcs /\ UNCHANGED state
      BY <1>4, <1>a, <2>1 DEF CheckGrow, Inv, TypeOK, Txn
    <3> QED BY <1>4, <1>a, <1>c, <2>1, <3>1, GrowAdvances
  <2>2. CASE u # t
    BY <1>b, <1>4, <2>2 DEF CheckGrow, Inv, TypeOK
  <2> QED BY <2>1, <2>2
<1>5. ASSUME NEW t \in Thread, txn' = [txn EXCEPT ![t] = IdleTxn], UNCHANGED state
      PROVE  OneWayFor(u, d)'
  <2>1. CASE u = t
    BY <1>d, <1>5, <2>1 DEF Inv, TypeOK
  <2>2. CASE u # t
    BY <1>b, <1>5, <2>2 DEF Inv, TypeOK
  <2> QED BY <2>1, <2>2
<1>6. ASSUME NEW t \in Thread, NEW Z \in SUBSET (0 .. Cardinality(Plane) - 1), CheckEnd(t, Z)
      PROVE  OneWayFor(u, d)'
  <2>1. CASE u = t
    <3>1. txn'[t].crtcs = txn[t].crtcs /\ UNCHANGED state
      <4>1. CASE txn[t].freed = {}
        <5>1. txn'[t] = [txn[t] EXCEPT !.phase = "done", !.new = WithVisible(t, Z)]
          BY <1>6, <4>1 DEF CheckEnd, Inv, TypeOK
        <5> QED BY <1>6, <1>a, <2>1, <5>1 DEF CheckEnd, Txn
      <4>2. CASE txn[t].freed # {}
        <5>1. txn'[t] = [txn[t] EXCEPT !.phase = "done", !.new = WithVisible(t, Z), !.freed = {},
                                       !.avail = PrivAvail(t) \cup txn[t].freed]
          BY <1>6, <4>2 DEF CheckEnd, Inv, TypeOK
        <5> QED BY <1>6, <1>a, <2>1, <5>1 DEF CheckEnd, Txn
      <4> QED BY <4>1, <4>2
    <3> QED BY <1>6, <1>a, <1>c, <2>1, <3>1, EndAdvances
  <2>2. CASE u # t
    BY <1>b, <1>6, <2>2 DEF CheckEnd, Inv, TypeOK
  <2> QED BY <2>1, <2>2
<1>7. ASSUME NEW t \in Thread, Swap(t) PROVE OneWayFor(u, d)'
  <2>1. CASE u = t
    BY <1>d, <1>7, <2>1 DEF Swap, Inv, TypeOK
  <2>2. CASE u # t
    <3>1. txn'[u] = txn[u]
      BY <1>7, <2>2 DEF Swap, Inv, TypeOK
    <3>2. state'[d] = state[d]
      BY <1>7, <1>a, <2>2, <3>1 DEF Swap, Inv, LocksHeld
    <3> QED BY <1>b, <3>1, <3>2
  <2> QED BY <2>1, <2>2
<1>8. ASSUME NEW S \in pending, CommitTail(S) PROVE OneWayFor(u, d)'
  BY <1>b, <1>8 DEF CommitTail
<1>9. CASE UNCHANGED vars
  BY <1>b, <1>9 DEF vars
<1> QED BY LockableCrtcs, <1>1, <1>2, <1>3, <1>4, <1>5, <1>6, <1>7, <1>8, <1>9
        DEF Next, CheckNoWindows, Discard

-----------------------------------------------------------------------------
(* The refinement *)

OwnersKnown ==
  \A w \in Win :
    /\ w \in available => OwnerOf[w] = -1
    /\ \A c \in Crtc : OwnerOf[w] = c <=> w \in state[c].reserved
    /\ OwnerOf[w] \in Crtc \cup {-1}

(* A window that is not free has exactly one owner, the one OwnerOf names. *)
LEMMA OwnerIsUnique == WindowsPartitioned => OwnersKnown
<1> SUFFICES ASSUME WindowsPartitioned, NEW w \in Win
             PROVE  /\ w \in available => OwnerOf[w] = -1
                    /\ \A c \in Crtc : OwnerOf[w] = c <=> w \in state[c].reserved
                    /\ OwnerOf[w] \in Crtc \cup {-1}
  BY DEF OwnersKnown
<1>1. CASE w \in available
  BY <1>1 DEF OwnerOf, WindowsPartitioned, Crtc
<1>2. CASE w \notin available
  <2>1. PICK c \in Crtc : w \in state[c].reserved
    BY <1>2 DEF WindowsPartitioned
  <2>2. \A d \in Crtc : w \in state[d].reserved => d = c
    BY <2>1 DEF WindowsPartitioned
  <2>3. OwnerOf[w] = c
    BY <1>2, <2>1, <2>2 DEF OwnerOf
  <2> QED BY <1>2, <2>1, <2>2, <2>3
<1> QED BY <1>1, <1>2

(* What the pool calls the windows held by a client is its mask. *)
LEMMA HeldIsReserved ==
  WindowsPartitioned /\ TypeOK => \A c \in Crtc : AbstractPool!Held(c) = state[c].reserved
<1> SUFFICES ASSUME WindowsPartitioned, TypeOK, NEW c \in Crtc
             PROVE  AbstractPool!Held(c) = state[c].reserved
  OBVIOUS
<1>1. state[c].reserved \subseteq Win
  BY DEF TypeOK, CrtcState
<1> QED BY <1>1, OwnerIsUnique DEF OwnersKnown, AbstractPool!Held

(* Only a swap moves windows, and it is a step of the pool. *)
LEMMA StepRefines ==
  ASSUME Inv, Inv', TakesFromPool, OneWay, [Next]_vars
  PROVE  [AbstractPool!Resize]_OwnerOf
<1>a. OwnersKnown /\ \A c \in Crtc : AbstractPool!Held(c) = state[c].reserved
  BY OwnerIsUnique, HeldIsReserved DEF Inv
<1>b. (OwnersKnown /\ \A c \in Crtc : AbstractPool!Held(c) = state[c].reserved)'
  <2>1. (WindowsPartitioned /\ TypeOK)'
    BY DEF Inv
  <2> QED BY <2>1, OwnerIsUnique, HeldIsReserved, PTL
<1>1. ASSUME NEW t \in Thread, Swap(t) PROVE AbstractPool!Resize
  <2>1. OwnerOf' \in [Win -> Crtc \cup {-1}]
    <3>1. \A w \in Win : OwnerOf'[w] \in Crtc \cup {-1}
      BY <1>b DEF OwnersKnown
    <3> QED BY <3>1 DEF OwnerOf
  <2>2. ASSUME NEW w \in Win PROVE OwnerOf[w] = -1 \/ OwnerOf'[w] \in {-1, OwnerOf[w]}
    <3>1. CASE OwnerOf[w] = -1 \/ OwnerOf'[w] = -1
      BY <3>1
    <3>2. CASE OwnerOf[w] # -1 /\ OwnerOf'[w] # -1
      <4>1. PICK c \in Crtc, d \in Crtc : OwnerOf[w] = c /\ OwnerOf'[w] = d
        BY <1>a, <1>b, <3>2 DEF OwnersKnown
      <4>2. w \in state[c].reserved /\ w \in state'[d].reserved
        BY <1>a, <1>b, <4>1 DEF OwnersKnown
      <4>3. c = d
        BY <4>2, SwapNeverHandsOver
      <4> QED BY <4>1, <4>3
    <3> QED BY <3>1, <3>2
  <2>3. ASSUME NEW c \in Crtc
        PROVE  AbstractPool!Held(c) \subseteq AbstractPool!Held(c)' \/ AbstractPool!Held(c)' \subseteq AbstractPool!Held(c)
    <3>1. \/ state[c].reserved \subseteq state'[c].reserved
          \/ state'[c].reserved \subseteq state[c].reserved
      BY <1>1 DEF Swap, OneWay
    <3> QED BY <1>a, <1>b, <3>1
  <2> QED BY <2>1, <2>2, <2>3 DEF AbstractPool!Resize
<1>2. CASE UNCHANGED <<state, available>>
  BY <1>2 DEF OwnerOf
<1> QED BY <1>1, <1>2 DEF Next, Begin, CheckUnchanged, CheckShrink, CheckGrow, CheckNoWindows,
                          CheckEnd, Discard, CommitTail, vars

(* exynos_atomic_check_windows, with its copies, locks, drops and swaps, is   *)
(* the pool of WindowPool for every instance.                                *)
THEOREM PoolImplemented == Spec => ImplementsPool
<1>1. Init => AbstractPool!Init
  BY DEF Init, AbstractPool!Init, OwnerOf
<1>2. Init => TakesFromPool /\ OneWay
  BY DEF Init, TakesFromPool, OneWay, IdleTxn
<1>3. Inv /\ TypeOK' /\ [Next]_vars => Inv'
  BY NextInv
<1>4. Inv /\ Inv' /\ TakesFromPool /\ [Next]_vars => TakesFromPool'
  BY TakesFromPoolNext
<1>5. Inv /\ Inv' /\ OneWay /\ [Next]_vars => OneWay'
  BY OneWayNext
<1>6. Inv /\ Inv' /\ TakesFromPool /\ OneWay /\ [Next]_vars => [AbstractPool!Resize]_OwnerOf
  BY StepRefines
<1> QED
  BY <1>1, <1>2, <1>3, <1>4, <1>5, <1>6, InitInv, TypeCorrect, PTL
     DEF Spec, ImplementsPool, AbstractPool!Spec

-----------------------------------------------------------------------------
(* Partial update: regions *)

RegionOK(r)  == r \in Rects /\ r.lo < r.hi
Sliced(r, k) == r.lo % k = 0 /\ r.hi % k = 0

LEMMA RoundDown ==
  ASSUME NEW n \in Nat, NEW k \in Nat \ {0}
  PROVE  (n \div k) * k \in Nat /\ (n \div k) * k <= n /\ ((n \div k) * k) % k = 0
<1>1. n \div k \in Nat /\ (n \div k) * k <= n
  BY Z3
<1>2. \A q \in Nat : q * k \in Nat /\ (q * k) % k = 0
  BY Z3
<1> QED
  BY <1>1, <1>2

(* Rounding up does not leave what the slices divide. *)
LEMMA RoundUp ==
  ASSUME NEW n \in Nat, NEW k \in Nat \ {0}, NEW h \in Nat, h % k = 0, n <= h
  PROVE  LET up == ((n + k - 1) \div k) * k IN up \in Nat /\ n <= up /\ up <= h /\ up % k = 0
<1> DEFINE q == (n + k - 1) \div k
<1>1. n + k - 1 \in Nat
  OBVIOUS
<1>2. \A x \in Nat : x \div k \in Nat /\ (x \div k) * k <= x /\ x < (x \div k) * k + k
  BY Z3
<1>3. q \in Nat /\ q * k <= n + k - 1 /\ n + k - 1 < q * k + k
  BY <1>1, <1>2
<1>4. h \div k \in Nat /\ h = (h \div k) * k
  BY Z3
<1> HIDE DEF q
<1>5. q * k \in Nat /\ (q * k) % k = 0 /\ (h \div k) * k \in Nat
  BY <1>3, <1>4, Z3
<1>6. n <= q * k
  BY <1>3, <1>5
<1>7. q * k < (h \div k) * k + k
  BY <1>3, <1>4, <1>5
<1>8. \A a, b \in Nat : a * k < b * k + k => a <= b /\ a * k <= b * k
  BY Z3
<1>9. q * k <= h
  BY <1>3, <1>4, <1>7, <1>8
<1> QED
  BY <1>5, <1>6, <1>9 DEF q

LEMMA FullRegion ==
  /\ RegionOK(Full) /\ LinesOf(Full) = Lines /\ Full.lo = 0 /\ Full.hi = Height
  /\ \A m \in Modes : Sliced(Full, Slice[m])
<1>1. \A k \in Nat \ {0} : 0 % k = 0
  BY Z3
<1> QED
  BY <1>1, PartialHeightAssumption, PartialSliceAssumption DEF RegionOK, Sliced, Full, Rects, LinesOf, Lines

LEMMA SliceDivides ==
  ASSUME NEW k \in {Slice[m] : m \in Modes} PROVE k \in Nat \ {0} /\ Height % k = 0
  BY PartialSliceAssumption

(* What is asked for is adjusted to whole slices, without leaving the        *)
(* display or losing a line.                                                 *)
LEMMA AskedRegion ==
  ASSUME NEW r \in RegionRequests \cup {NoRequest}, minH \in {Slice[m] : m \in Modes}
  PROVE  RegionOK(Asked(r)) /\ Sliced(Asked(r), minH) /\ Damage(r) \subseteq LinesOf(Asked(r))
<1>1. minH \in Nat \ {0} /\ Height % minH = 0 /\ Height \in Nat \ {0}
  BY SliceDivides, PartialHeightAssumption
<1>2. CASE ~Valid(r)
  <2>1. Asked(r) = Full /\ Damage(r) = Lines
    BY <1>2 DEF Asked, Damage
  <2>2. PICK m \in Modes : minH = Slice[m]
    OBVIOUS
  <2> QED
    BY <2>1, <2>2, FullRegion
<1>3. CASE Valid(r)
  <2>1. r \in [lo : Nat, hi : Nat] /\ r.lo < r.hi /\ r.hi <= Height
    BY <1>3, PartialRectsAssumption DEF Valid
  <2>2. r.lo \in Nat /\ r.hi \in Nat
    BY <2>1
  <2> DEFINE a == (r.lo \div minH) * minH
             b == ((r.hi + minH - 1) \div minH) * minH
  <2>3. a \in Nat /\ a <= r.lo /\ a % minH = 0
    BY <1>1, <2>2, RoundDown
  <2>4. b \in Nat /\ r.hi <= b /\ b <= Height /\ b % minH = 0
    BY <1>1, <2>1, <2>2, RoundUp
  <2>5. Asked(r) = [lo |-> a, hi |-> b] /\ Damage(r) = LinesOf(r)
    BY <1>3 DEF Asked, Adjusted, Damage
  <2> HIDE DEF a, b
  <2> QED
    BY <1>1, <2>1, <2>2, <2>3, <2>4, <2>5 DEF RegionOK, Sliced, Rects, LinesOf, Lines
<1> QED
  BY <1>2, <1>3

-----------------------------------------------------------------------------
(* Partial update: types *)

PlaceType == [on : BOOLEAN, lo : 0 .. Height, hi : 0 .. Height, kind : UNION {Kinds[p] : p \in Planes}]
DstType   == [vis : BOOLEAN, lo : Int, hi : Int, src : Int]

(* Where user space puts plane p: on the display, and as its DPP wants it    *)
(* when all of it is shown.                                                  *)
PlaceFits(p, q) ==
  /\ q \in PlaceType /\ q.kind \in Kinds[p] /\ q.lo < q.hi
  /\ q.on => DppAccepts(Untouched(q), q.kind)
DstFits(d) == d \in DstType /\ (d.vis => 0 <= d.lo /\ d.lo < d.hi /\ d.hi <= Height)

PartialTyped ==
  /\ PartialTypeOK
  /\ place \in [Planes -> PlaceType] /\ \A p \in Planes : PlaceFits(p, place[p])
  /\ dst \in [Planes -> DstType]

LEMMA DstsFit == PartialTyped => \A p \in Planes : DstFits(dst[p])
  BY DEF PartialTyped, PartialTypeOK, DstFits

LEMMA InterOf ==
  ASSUME NEW q \in PlaceType, NEW r \in Rects
  PROVE  /\ Inter(q, r).lo \in 0 .. Height /\ Inter(q, r).hi \in 0 .. Height
         /\ Inter(q, r).lo >= q.lo /\ Inter(q, r).lo >= r.lo
         /\ Inter(q, r).lo = q.lo \/ Inter(q, r).lo = r.lo
         /\ Inter(q, r).hi <= q.hi /\ Inter(q, r).hi <= r.hi
         /\ Inter(q, r).hi = q.hi \/ Inter(q, r).hi = r.hi
<1>1. q.lo \in 0 .. Height /\ q.hi \in 0 .. Height /\ r.lo \in 0 .. Height /\ r.hi \in 0 .. Height
  BY DEF PlaceType, Rects
<1> QED
  BY <1>1, PartialHeightAssumption DEF Inter, Greater, Lesser

LEMMA CoordinatesFit ==
  ASSUME NEW p \in Planes, NEW q, PlaceFits(p, q), NEW r, RegionOK(r)
  PROVE  DstFits(Reconfigured(q, r)) /\ DstFits(Coordinates(q, r))
<1>1. q \in PlaceType /\ q.lo < q.hi /\ q.on \in BOOLEAN /\ r \in Rects
  BY DEF PlaceFits, PlaceType, RegionOK
<1>2. q.lo \in 0 .. Height /\ q.hi \in 0 .. Height /\ r.lo \in 0 .. Height /\ Height \in Nat
  BY <1>1, PartialHeightAssumption DEF PlaceType, Rects
<1>3. DstFits(Untouched(q))
  BY <1>1, <1>2 DEF DstFits, DstType, Untouched
<1>4. DstFits(Reconfigured(q, r))
  <2> DEFINE i == Inter(q, r)
  <2>1. i.lo \in 0 .. Height /\ i.hi \in 0 .. Height /\ i.lo >= r.lo
    BY <1>1, InterOf
  <2>2. (q.on /\ i.lo < i.hi) \in BOOLEAN /\ i.lo - r.lo \in Int /\ i.hi - r.lo \in Int /\ i.lo - q.lo \in Int
    BY <1>1, <1>2, <2>1
  <2> DEFINE d == [vis |-> q.on /\ i.lo < i.hi, lo |-> i.lo - r.lo, hi |-> i.hi - r.lo, src |-> i.lo - q.lo]
  <2>3. Reconfigured(q, r) = d
    BY DEF Reconfigured, Meets
  <2> HIDE DEF i
  <2>4. d \in DstType
    BY <2>2 DEF DstType
  <2>5. (d.vis => i.lo < i.hi) /\ d.lo = i.lo - r.lo /\ d.hi = i.hi - r.lo
    OBVIOUS
  <2> HIDE DEF d
  <2>6. d.vis => 0 <= d.lo /\ d.lo < d.hi /\ d.hi <= Height
    BY <1>2, <2>1, <2>5
  <2> QED
    BY <2>3, <2>4, <2>6 DEF DstFits
<1> QED
  BY <1>3, <1>4 DEF Coordinates

-----------------------------------------------------------------------------
(* Partial update: the parts of a commit *)

(* What UserCommit chooses. *)
UserInput(m, keep, req, planes, new) ==
  /\ m \in Modes /\ keep \in BOOLEAN /\ planes \subseteq Planes
  /\ req \in RegionRequests \cup {NoRequest} /\ (keep => req = request)
  /\ new \in [Planes -> PlaceType]
  /\ \A p \in Planes : PlaceFits(p, new[p]) /\ (p \notin planes => new[p] = place[p])
  /\ decon = "OFF" => planes # {}

NextRegion(m, keep, req, new) == Prepared(m, keep, req, new).region
InCommit(m, keep, req, planes, new) == planes \cup Prepared(m, keep, req, new).fetched
NextDst(m, keep, req, planes, new) ==
  [p \in Planes |-> IF p \in InCommit(m, keep, req, planes, new)
                    THEN Coordinates(new[p], NextRegion(m, keep, req, new)) ELSE dst[p]]
Refuses(m, keep, req, planes, new) ==
  \E p \in InCommit(m, keep, req, planes, new) :
    ~DppAccepts(NextDst(m, keep, req, planes, new)[p], new[p].kind)
HasOdd(m, keep, req, planes, new) ==
  \E p \in InCommit(m, keep, req, planes, new) : OddHeight(NextDst(m, keep, req, planes, new)[p], new[p].kind)
Skips(planes, new, late) == (decon = "HIBERNATION" /\ ~PlanesUpdated(planes, new)) \/ late
WasStale(req, planes) ==
  IF decon = "OFF" THEN Lines ELSE IF planes = {} THEN stale ELSE stale \cup Damage(req)
WindowBefore  == IF decon = "OFF" THEN Full ELSE window
SizeBefore(r) == IF decon = "ON" THEN size ELSE RestoredSize(r)

LEMMA NewPlacesFit ==
  ASSUME PartialTyped, NEW p \in Planes, NEW q \in NewPlaces(p)
  PROVE  PlaceFits(p, q)
<1>1. PlaceFits(p, place[p]) /\ place[p] \in PlaceType
  BY DEF PartialTyped
<1>2. CASE q = place[p]
  BY <1>1, <1>2
<1>3. CASE q = Off(place[p])
  <2>1. q \in PlaceType /\ q.on = FALSE /\ q.lo = place[p].lo /\ q.hi = place[p].hi /\ q.kind = place[p].kind
    BY <1>1, <1>3 DEF Off, PlaceType
  <2> QED
    BY <1>1, <2>1 DEF PlaceFits
<1>4. CASE \E r \in IF p = 1 THEN {Full} ELSE Places : \E k \in Kinds[p] :
             q = PlaceOf(r, k) /\ DppAccepts(Untouched(q), q.kind)
  <2>1. PICK r \in IF p = 1 THEN {Full} ELSE Places :
          \E k \in Kinds[p] : q = PlaceOf(r, k) /\ DppAccepts(Untouched(q), q.kind)
    BY <1>4
  <2>2. PICK k \in Kinds[p] : q = PlaceOf(r, k) /\ DppAccepts(Untouched(q), q.kind)
    BY <2>1
  <2>3. r \in Rects /\ r.lo < r.hi
    BY FullRegion, PartialRectsAssumption DEF RegionOK
  <2>4. r.lo \in 0 .. Height /\ r.hi \in 0 .. Height
    BY <2>3 DEF Rects
  <2>5. q \in PlaceType /\ q.kind = k /\ q.lo = r.lo /\ q.hi = r.hi
    BY <2>2, <2>4 DEF PlaceOf, PlaceType
  <2> QED
    BY <2>2, <2>3, <2>5 DEF PlaceFits
<1> QED
  BY <1>2, <1>3, <1>4 DEF NewPlaces

LEMMA UserCommitInput ==
  ASSUME PartialTyped, UserCommit
  PROVE  \E m, keep, req, planes, new, late :
           /\ UserInput(m, keep, req, planes, new) /\ Commit(m, keep, req, planes, new, late)
           /\ late \in BOOLEAN /\ (late => "skipped_frame" \in Races)
<1>1. PICK m \in Modes, keep \in BOOLEAN, planes \in SUBSET Planes :
        \E req \in IF keep THEN {request} ELSE RegionRequests \cup {NoRequest} :
        \E new \in Choices(planes) :
        \E late \in IF "skipped_frame" \in Races /\ planes # {} THEN BOOLEAN ELSE {FALSE} :
          /\ decon # "OFF" \/ planes # {}
          /\ ~NeedsModeset(m) => \A p \in planes : Moved(p, new) \subseteq Damage(req)
          /\ Commit(m, keep, req, planes, new, late)
  BY DEF UserCommit
<1>2. PICK req \in IF keep THEN {request} ELSE RegionRequests \cup {NoRequest}, new \in Choices(planes),
        late \in IF "skipped_frame" \in Races /\ planes # {} THEN BOOLEAN ELSE {FALSE} :
          (decon # "OFF" \/ planes # {}) /\ Commit(m, keep, req, planes, new, late)
  BY <1>1
<1>3. req \in RegionRequests \cup {NoRequest} /\ (keep => req = request)
  BY DEF PartialTyped, PartialTypeOK
<1>4. \A p \in Planes : new[p] \in NewPlaces(p) /\ (p \notin planes => new[p] = place[p])
  BY DEF Choices, NewPlaces
<1>5. \A p \in Planes : PlaceFits(p, new[p])
  BY <1>4, NewPlacesFit
<1>6. new \in [Planes -> PlaceType]
  <2>1. new = [p \in Planes |-> new[p]]
    BY DEF Choices
  <2>2. \A p \in Planes : new[p] \in PlaceType
    BY <1>5 DEF PlaceFits
  <2> QED
    BY <2>1, <2>2
<1>7. UserInput(m, keep, req, planes, new)
  BY <1>2, <1>3, <1>4, <1>5, <1>6 DEF UserInput
<1>8. late \in BOOLEAN /\ (late => "skipped_frame" \in Races)
  OBVIOUS
<1> QED
  BY <1>2, <1>7, <1>8

(* A commit is refused as a whole or taken as a whole. *)
LEMMA CommitRefused ==
  ASSUME NEW m, NEW keep, NEW req, NEW planes, NEW new, NEW late, Commit(m, keep, req, planes, new, late),
         Refuses(m, keep, req, planes, new)
  PROVE  refused' = TRUE /\ UNCHANGED <<decon, mode, request, region, place, dst, window, size, stale>>
  BY DEF Commit, Refuses, NextDst, NextRegion, InCommit, hwState

LEMMA CommitTaken ==
  ASSUME NEW m, NEW keep, NEW req, NEW planes, NEW new, NEW late, Commit(m, keep, req, planes, new, late),
         ~Refuses(m, keep, req, planes, new)
  PROVE  /\ refused' = refused /\ decon' = "ON" /\ mode' = m /\ request' = req /\ place' = new
         /\ region' = NextRegion(m, keep, req, new) /\ dst' = NextDst(m, keep, req, planes, new)
  BY DEF Commit, Refuses, NextDst, NextRegion, InCommit

LEMMA CommitSlice ==
  ASSUME NEW m, NEW keep, NEW req, NEW planes, NEW new, NEW late, Commit(m, keep, req, planes, new, late)
  PROVE  minH' = IF NeedsModeset(m) THEN Slice[m] ELSE minH
  BY DEF Commit

LEMMA CommitShows ==
  ASSUME NEW m, NEW keep, NEW req, NEW planes, NEW new, NEW late, Commit(m, keep, req, planes, new, late),
         ~Refuses(m, keep, req, planes, new)
  PROVE  LET r == NextRegion(m, keep, req, new) IN
         IF Skips(planes, new, late)
         THEN window' = WindowBefore /\ size' = SizeBefore(r) /\ stale' = WasStale(req, planes)
         ELSE /\ UpdatesRegion(r, WindowBefore, SizeBefore(r))
              /\ stale' = Sent(WasStale(req, planes), window', size', new, NextDst(m, keep, req, planes, new))
  BY DEF Commit, Refuses, NextDst, NextRegion, InCommit, Skips, WasStale, WindowBefore, SizeBefore

LEMMA CommitAllowed ==
  ASSUME NEW m, NEW keep, NEW req, NEW planes, NEW new, NEW late, Commit(m, keep, req, planes, new, late)
  PROVE  /\ Bounded
         /\ Allowed(m, keep, req, planes, new, Prepared(m, keep, req, new), Skips(planes, new, late),
                    HasOdd(m, keep, req, planes, new))
  BY DEF Commit, HasOdd, NextDst, NextRegion, InCommit, Skips

LEMMA PreparedRegion ==
  ASSUME PartialTyped, NEW m, NEW keep, NEW req, NEW planes, NEW new, UserInput(m, keep, req, planes, new)
  PROVE  LET r == NextRegion(m, keep, req, new)
             fetched == Prepared(m, keep, req, new).fetched IN
         /\ RegionOK(r) /\ fetched \subseteq Planes
         /\ NeedsModeset(m) => r = Full /\ fetched = PlaneMask(new)
         /\ ~NeedsModeset(m) =>
              r = Full \/ r = region \/ (r = Asked(req) /\ \A p \in Planes : Supported(new[p], r))
         /\ r # region /\ r # Full => PlaneMask(new) \subseteq fetched
<1> DEFINE a == Asked(req)
           all == \A p \in Planes : Supported(new[p], a)
           asks == ~(PlaneMask(new) = {} \/ keep \/ a = region)
<1>1. RegionOK(a)
  BY AskedRegion DEF UserInput, PartialTyped, PartialTypeOK
<1>2. RegionOK(region) /\ RegionOK(Full)
  BY FullRegion DEF PartialTyped, PartialTypeOK, RegionOK
<1>3. PlaneMask(new) \subseteq Planes /\ Fetched(new, a) \subseteq Planes
  BY DEF PlaneMask, Fetched
<1>4. all => PlaneMask(new) \subseteq Fetched(new, a)
  BY DEF PlaneMask, Fetched
<1>5. CASE NeedsModeset(m)
  <2>1. Prepared(m, keep, req, new) = [region |-> Full, fetched |-> PlaneMask(new)]
    BY <1>5 DEF Prepared
  <2> QED
    BY <1>2, <1>3, <1>5, <2>1 DEF NextRegion
<1>6. CASE ~NeedsModeset(m) /\ ~asks
  <2>1. Prepared(m, keep, req, new) = [region |-> region, fetched |-> {}]
    BY <1>6 DEF Prepared
  <2> QED
    BY <1>2, <1>6, <2>1 DEF NextRegion
<1>7. CASE ~NeedsModeset(m) /\ asks
  <2>1. Prepared(m, keep, req, new) = [region |-> IF all THEN a ELSE Full, fetched |-> Fetched(new, a)]
    BY <1>7 DEF Prepared
  <2> HIDE DEF asks
  <2>2. NextRegion(m, keep, req, new) = (IF all THEN a ELSE Full)
        /\ Prepared(m, keep, req, new).fetched = Fetched(new, a)
    BY <2>1 DEF NextRegion
  <2>3. CASE all
    BY <1>1, <1>3, <1>4, <1>7, <2>2, <2>3
  <2>4. CASE ~all
    BY <1>2, <1>3, <1>7, <2>2, <2>4
  <2> QED
    BY <2>3, <2>4
<1> QED
  BY <1>5, <1>6, <1>7

LEMMA NextDstTyped ==
  ASSUME PartialTyped, NEW m, NEW keep, NEW req, NEW planes, NEW new, UserInput(m, keep, req, planes, new)
  PROVE  /\ NextDst(m, keep, req, planes, new) \in [Planes -> DstType]
         /\ \A p \in Planes : DstFits(NextDst(m, keep, req, planes, new)[p])
         /\ InCommit(m, keep, req, planes, new) \subseteq Planes
<1> DEFINE r == NextRegion(m, keep, req, new)
           nd == NextDst(m, keep, req, planes, new)
<1>1. RegionOK(r) /\ InCommit(m, keep, req, planes, new) \subseteq Planes
  BY PreparedRegion DEF InCommit, UserInput
<1>2. \A p \in Planes : DstFits(Coordinates(new[p], r)) /\ DstFits(dst[p])
  BY <1>1, CoordinatesFit, DstsFit DEF UserInput
<1>3. \A p \in Planes : nd[p] = Coordinates(new[p], r) \/ nd[p] = dst[p]
  BY DEF NextDst
<1>4. \A p \in Planes : DstFits(nd[p])
  BY <1>2, <1>3
<1>5. nd = [p \in Planes |-> nd[p]]
  BY DEF NextDst
<1> HIDE DEF nd
<1>6. nd \in [Planes -> DstType]
  BY <1>4, <1>5 DEF DstFits
<1> QED
  BY <1>1, <1>4, <1>6 DEF nd

(* A whole mode set asks the DPPs for nothing they refuse. *)
LEMMA ModesetTaken ==
  ASSUME PartialTyped, NEW m, NEW keep, NEW req, NEW planes, NEW new, UserInput(m, keep, req, planes, new),
         NextRegion(m, keep, req, new) = Full
  PROVE  ~Refuses(m, keep, req, planes, new)
<1> SUFFICES ASSUME NEW p \in InCommit(m, keep, req, planes, new)
             PROVE  DppAccepts(NextDst(m, keep, req, planes, new)[p], new[p].kind)
  BY DEF Refuses
<1>1. p \in Planes
  BY NextDstTyped
<1>2. NextDst(m, keep, req, planes, new)[p] = Untouched(new[p])
  BY <1>1 DEF NextDst, Coordinates
<1>3. PlaceFits(p, new[p])
  BY <1>1 DEF UserInput
<1>4. CASE new[p].on
  BY <1>2, <1>3, <1>4 DEF PlaceFits
<1>5. CASE ~new[p].on
  BY <1>2, <1>5 DEF DppAccepts, Untouched
<1> QED
  BY <1>4, <1>5

LEMMA ShownTyped ==
  ASSUME PartialTyped, NEW m, NEW keep, NEW req, NEW planes, NEW new, NEW late,
         UserInput(m, keep, req, planes, new), Commit(m, keep, req, planes, new, late),
         ~Refuses(m, keep, req, planes, new)
  PROVE  RegionOK(window') /\ size' \in 1 .. Height /\ stale' \subseteq Lines
<1> DEFINE r == NextRegion(m, keep, req, new)
<1>1. \A q : RegionOK(q) => RestoredSize(q) \in 1 .. Height
  BY PartialHeightAssumption DEF RegionOK, Rects, RestoredSize
<1>2. RegionOK(r) /\ RegionOK(WindowBefore)
  BY PreparedRegion, FullRegion DEF WindowBefore, PartialTyped, PartialTypeOK, RegionOK
<1>3. SizeBefore(r) \in 1 .. Height /\ RestoredSize(r) \in 1 .. Height
  BY <1>1, <1>2 DEF SizeBefore, PartialTyped, PartialTypeOK
<1>4. WasStale(req, planes) \subseteq Lines
  BY DEF WasStale, Damage, LinesOf, PartialTyped, PartialTypeOK
<1> HIDE DEF r
<1>5. \/ window' = WindowBefore /\ size' = SizeBefore(r)
      \/ window' = r /\ size' = RestoredSize(r)
  BY CommitShows DEF UpdatesRegion, RestoredSize, r
<1>6. stale' \subseteq Lines
  BY <1>4, CommitShows DEF Sent, r
<1> QED
  BY <1>2, <1>3, <1>5, <1>6

LEMMA CommitsTyped == PartialTyped /\ Bounded => commits' \in 0 .. MaxCommits
  BY PartialBoundsAssumption DEF PartialTyped, PartialTypeOK, Bounded

LEMMA CommitTyped ==
  ASSUME PartialTyped, NEW m, NEW keep, NEW req, NEW planes, NEW new, NEW late,
         UserInput(m, keep, req, planes, new), Commit(m, keep, req, planes, new, late)
  PROVE  PartialTyped'
<1>1. commits' \in 0 .. MaxCommits
  BY CommitAllowed, CommitsTyped
<1>2. minH' \in {Slice[k] : k \in Modes}
  BY CommitSlice DEF UserInput, PartialTyped, PartialTypeOK
<1>3. CASE Refuses(m, keep, req, planes, new)
  <2>1. refused' = TRUE /\ UNCHANGED <<decon, mode, request, region, place, dst, window, size, stale>>
    BY <1>3, CommitRefused
  <2> QED
    BY <1>1, <1>2, <2>1 DEF PartialTyped, PartialTypeOK
<1>4. CASE ~Refuses(m, keep, req, planes, new)
  <2> DEFINE nd == NextDst(m, keep, req, planes, new)
             r  == NextRegion(m, keep, req, new)
  <2>1. refused' = refused /\ decon' = "ON" /\ mode' = m /\ request' = req /\ place' = new /\ region' = r /\ dst' = nd
    BY <1>4, CommitTaken
  <2>2. RegionOK(r)
    BY PreparedRegion
  <2>3. nd \in [Planes -> DstType] /\ \A p \in Planes : DstFits(nd[p])
    BY NextDstTyped
  <2>4. RegionOK(window') /\ size' \in 1 .. Height /\ stale' \subseteq Lines
    BY <1>4, ShownTyped
  <2> HIDE DEF nd, r
  <2>5. \A p \in Planes : PlaceFits(p, new[p])
    BY DEF UserInput
  <2>6. \A p \in Planes : /\ place'[p].kind \in Kinds[p]
                          /\ dst'[p].vis => (0 <= dst'[p].lo /\ dst'[p].lo < dst'[p].hi /\ dst'[p].hi <= Height)
    BY <2>1, <2>3, <2>5 DEF PlaceFits, DstFits
  <2>7. PartialTypeOK'
    BY <1>1, <1>2, <2>1, <2>2, <2>4, <2>6 DEF PartialTypeOK, RegionOK, UserInput, PartialTyped
  <2> QED
    BY <2>1, <2>3, <2>5, <2>7 DEF PartialTyped, UserInput
<1> QED
  BY <1>3, <1>4

LEMMA OffTyped == ASSUME PartialTyped, SwitchOff PROVE PartialTyped'
<1>1. \A p \in Planes : place'[p] = Off(place[p]) /\ dst'[p] = [dst[p] EXCEPT !.vis = FALSE]
  BY DEF SwitchOff
<1>2. \A p \in Planes : PlaceFits(p, place'[p])
  <2> TAKE p \in Planes
  <2>1. Off(place[p]) \in NewPlaces(p)
    BY DEF NewPlaces
  <2>2. PlaceFits(p, Off(place[p]))
    BY <2>1, NewPlacesFit
  <2> QED
    BY <1>1, <2>2
<1>3. \A p \in Planes : dst'[p] \in DstType /\ ~dst'[p].vis
  <2> TAKE p \in Planes
  <2>1. dst[p] \in DstType
    BY DEF PartialTyped
  <2> QED
    BY <1>1, <2>1 DEF DstType
<1>4. place' = [p \in Planes |-> place'[p]] /\ dst' = [p \in Planes |-> dst'[p]]
  BY DEF SwitchOff
<1>5. place' \in [Planes -> PlaceType] /\ dst' \in [Planes -> DstType]
  BY <1>2, <1>3, <1>4 DEF PlaceFits
<1>6. commits' \in 0 .. MaxCommits
  BY CommitsTyped DEF SwitchOff
<1>7. PartialTypeOK'
  BY <1>2, <1>3, <1>6 DEF PartialTyped, PartialTypeOK, SwitchOff, PlaceFits
<1> QED
  BY <1>2, <1>5, <1>7 DEF PartialTyped

LEMMA PartialTypedInit == PartialInit => PartialTyped
<1> SUFFICES ASSUME PartialInit PROVE PartialTyped
  OBVIOUS
<1>1. \A p \in Planes : /\ place[p] = Off(PlaceOf(Full, CHOOSE k \in Kinds[p] : TRUE))
                        /\ dst[p] = [vis |-> FALSE, lo |-> 0, hi |-> Height, src |-> 0]
  BY DEF PartialInit
<1>2. \A p \in Planes : (CHOOSE k \in Kinds[p] : TRUE) \in Kinds[p]
  BY PartialRectsAssumption
<1>3. \A p \in Planes : PlaceFits(p, place[p])
  <2> TAKE p \in Planes
  <2> DEFINE k == CHOOSE x \in Kinds[p] : TRUE
  <2>1. k \in Kinds[p]
    BY <1>2
  <2>2. place[p] = [on |-> FALSE, lo |-> 0, hi |-> Height, kind |-> k]
    BY <1>1 DEF Off, PlaceOf, Full
  <2> HIDE DEF k
  <2>3. 0 \in 0 .. Height /\ Height \in 0 .. Height /\ 0 < Height
    BY PartialHeightAssumption
  <2>4. place[p] \in PlaceType
    BY <2>1, <2>2, <2>3 DEF PlaceType
  <2> QED
    BY <2>1, <2>2, <2>3, <2>4 DEF PlaceFits
<1>4. \A p \in Planes : dst[p] \in DstType /\ ~dst[p].vis
  <2> TAKE p \in Planes
  <2>1. dst[p] = [vis |-> FALSE, lo |-> 0, hi |-> Height, src |-> 0]
    BY <1>1
  <2>2. Height \in Int /\ FALSE \in BOOLEAN
    BY PartialHeightAssumption
  <2> QED
    BY <2>1, <2>2 DEF DstType
<1>5. place = [p \in Planes |-> place[p]] /\ dst = [p \in Planes |-> dst[p]]
  BY DEF PartialInit
<1>6. place \in [Planes -> PlaceType] /\ dst \in [Planes -> DstType]
  BY <1>3, <1>4, <1>5 DEF PlaceFits
<1>7. PartialTypeOK
  <2>1. decon \in {"ON", "HIBERNATION", "OFF"} /\ mode \in Modes /\ minH \in {Slice[m] : m \in Modes}
        /\ request \in RegionRequests \cup {NoRequest} /\ refused \in BOOLEAN /\ stale \subseteq Lines
    BY DEF PartialInit
  <2>2. region \in Rects /\ region.lo < region.hi /\ window \in Rects /\ window.lo < window.hi
    BY FullRegion DEF PartialInit, RegionOK
  <2>3. size \in 1 .. Height /\ commits \in 0 .. MaxCommits
    BY PartialHeightAssumption, PartialBoundsAssumption DEF PartialInit
  <2> QED
    BY <1>3, <1>4, <2>1, <2>2, <2>3 DEF PartialTypeOK, PlaceFits
<1> QED
  BY <1>3, <1>6, <1>7 DEF PartialTyped

LEMMA PartialTypedStep == PartialTyped /\ [PartialNext]_partialVars => PartialTyped'
<1> SUFFICES ASSUME PartialTyped, [PartialNext]_partialVars PROVE PartialTyped'
  OBVIOUS
<1>1. CASE UserCommit
  <2>1. PICK m, keep, req, planes, new, late :
          UserInput(m, keep, req, planes, new) /\ Commit(m, keep, req, planes, new, late)
    BY <1>1, UserCommitInput
  <2> QED
    BY <2>1, CommitTyped
<1>2. CASE Hibernate
  <2>1. commits' \in 0 .. MaxCommits
    BY <1>2, CommitsTyped DEF Hibernate
  <2> QED
    BY <1>2, <2>1 DEF Hibernate, swState, hwState, PartialTyped, PartialTypeOK
<1>3. CASE Wake
  <2>1. commits' \in 0 .. MaxCommits
    BY <1>3, CommitsTyped DEF Wake
  <2>2. RestoredSize(Full) \in 1 .. Height
    BY PartialHeightAssumption DEF RestoredSize, Full
  <2> QED
    BY <1>3, <2>1, <2>2, FullRegion DEF Wake, RegionOK, PartialTyped, PartialTypeOK
<1>4. CASE SwitchOff
  BY <1>4, OffTyped
<1>5. CASE TestOnly
  <2>1. minH' \in {Slice[m] : m \in Modes}
    BY <1>5 DEF TestOnly, PartialTyped, PartialTypeOK
  <2> QED
    BY <1>5, <2>1 DEF TestOnly, swState, hwState, PartialTyped, PartialTypeOK
<1>6. CASE UNCHANGED partialVars
  BY <1>6 DEF partialVars, swState, hwState, PartialTyped, PartialTypeOK
<1> QED
  BY <1>1, <1>2, <1>3, <1>4, <1>5, <1>6 DEF PartialNext

LEMMA PartialTypeCorrect == PartialSpec => []PartialTyped
  BY PartialTypedInit, PartialTypedStep, PTL DEF PartialSpec

-----------------------------------------------------------------------------
(* Partial update: the region agrees *)

(* The panel and DECON are where the CRTC state is. *)
WindowInv ==
  /\ decon # "OFF" => window = region
  /\ decon = "ON" => size = region.hi - region.lo
RegionInv == PartialTyped /\ RegionAgrees /\ (decon # "OFF" => minH = Slice[mode])

FramesNotSkipped == Races \cap {"skipped_wake", "skipped_frame"} = {}

LEMMA AgreesMeans == RegionAgrees <=> PartialTypeOK /\ WindowInv /\ (decon # "OFF" => Sliced(region, Slice[mode]))
  BY DEF RegionAgrees, WindowInv, Sliced

LEMMA ShownRegion ==
  ASSUME PartialTyped, WindowInv, FramesNotSkipped,
         NEW m, NEW keep, NEW req, NEW planes, NEW new, NEW late, late \in BOOLEAN,
         late => "skipped_frame" \in Races,
         UserInput(m, keep, req, planes, new), Commit(m, keep, req, planes, new, late),
         ~Refuses(m, keep, req, planes, new)
  PROVE  LET r == NextRegion(m, keep, req, new) IN window' = r /\ size' = r.hi - r.lo
<1> DEFINE r == NextRegion(m, keep, req, new)
<1>1. ~late
  BY DEF FramesNotSkipped
<1>2. NeedsModeset(m) => r = Full
  BY PreparedRegion
<1>3. decon # "ON" => NeedsModeset(m)
  BY DEF NeedsModeset
<1>4. CASE Skips(planes, new, late)
  <2>1. decon = "HIBERNATION"
    BY <1>1, <1>4 DEF Skips
  <2>2. r = region
    BY <1>4, <2>1, CommitAllowed DEF Allowed, NextRegion, FramesNotSkipped
  <2>3. window' = window /\ size' = RestoredSize(r)
    BY <1>4, <2>1, CommitShows DEF WindowBefore, SizeBefore
  <2> QED
    BY <2>1, <2>2, <2>3 DEF WindowInv, RestoredSize
<1>5. CASE ~Skips(planes, new, late)
  <2>1. UpdatesRegion(r, WindowBefore, SizeBefore(r))
    BY <1>5, CommitShows
  <2> HIDE DEF r
  <2>2. r = region => WindowBefore = r /\ SizeBefore(r) = r.hi - r.lo
    BY <1>2, <1>3 DEF WindowInv, WindowBefore, SizeBefore, RestoredSize
  <2> QED
    BY <2>1, <2>2 DEF UpdatesRegion, r
<1> QED
  BY <1>4, <1>5

LEMMA RegionStep ==
  ASSUME Races \cap {"skipped_wake", "skipped_frame", "test_only"} = {}
  PROVE  RegionInv /\ [PartialNext]_partialVars => RegionInv'
<1> SUFFICES ASSUME RegionInv, [PartialNext]_partialVars PROVE RegionInv'
  OBVIOUS
<1>1. PartialTyped /\ WindowInv /\ (decon # "OFF" => Sliced(region, Slice[mode]) /\ minH = Slice[mode])
  BY AgreesMeans DEF RegionInv
<1>2. PartialTyped' /\ PartialTypeOK'
  BY <1>1, PartialTypedStep DEF PartialTyped
<1>3. FramesNotSkipped
  BY DEF FramesNotSkipped
<1> DEFINE Goal == WindowInv' /\ (decon' # "OFF" => Sliced(region', Slice[mode']) /\ minH' = Slice[mode'])
<1>4. ASSUME UserCommit PROVE Goal
  <2>1. PICK m, keep, req, planes, new, late :
          /\ UserInput(m, keep, req, planes, new) /\ Commit(m, keep, req, planes, new, late)
          /\ late \in BOOLEAN /\ (late => "skipped_frame" \in Races)
    BY <1>1, <1>4, UserCommitInput
  <2> DEFINE r == NextRegion(m, keep, req, new)
  <2>2. minH' = IF NeedsModeset(m) THEN Slice[m] ELSE minH
    BY <2>1, CommitSlice
  <2>3. CASE Refuses(m, keep, req, planes, new)
    <3>1. UNCHANGED <<decon, mode, region, window, size>>
      BY <2>1, <2>3, CommitRefused
    <3>2. ~NeedsModeset(m)
      BY <1>1, <2>1, <2>3, PreparedRegion, ModesetTaken
    <3> QED
      BY <1>1, <2>2, <3>1, <3>2 DEF WindowInv
  <2>4. CASE ~Refuses(m, keep, req, planes, new)
    <3>1. decon' = "ON" /\ mode' = m /\ region' = r
      BY <2>1, <2>4, CommitTaken
    <3>2. window' = r /\ size' = r.hi - r.lo
      BY <1>1, <1>3, <2>1, <2>4, ShownRegion
    <3>3. minH' = Slice[m]
      BY <1>1, <2>2 DEF NeedsModeset
    <3>4. Sliced(Full, Slice[m])
      BY <2>1, FullRegion DEF UserInput
    <3>5. Sliced(Asked(req), minH)
      BY <1>1, <2>1, AskedRegion DEF UserInput, PartialTyped, PartialTypeOK
    <3>6. Sliced(r, Slice[m])
      <4>1. CASE NeedsModeset(m)
        BY <1>1, <2>1, <3>4, <4>1, PreparedRegion
      <4>2. CASE ~NeedsModeset(m)
        <5>1. decon = "ON" /\ m = mode /\ minH = Slice[m]
          BY <1>1, <4>2 DEF NeedsModeset
        <5>2. r = Full \/ r = region \/ r = Asked(req)
          BY <1>1, <2>1, <4>2, PreparedRegion
        <5> HIDE DEF r
        <5> QED
          BY <1>1, <3>4, <3>5, <5>1, <5>2
      <4> QED
        BY <4>1, <4>2
    <3> HIDE DEF r
    <3> QED
      BY <3>1, <3>2, <3>3, <3>6 DEF WindowInv
  <2> QED
    BY <2>3, <2>4
<1>5. ASSUME Hibernate PROVE Goal
  BY <1>1, <1>5 DEF Hibernate, swState, hwState, WindowInv
<1>6. ASSUME Wake PROVE Goal
  <2>1. region = Full /\ region' = Full /\ size' = Full.hi - Full.lo /\ window' = window
        /\ decon = "HIBERNATION" /\ mode' = mode /\ minH' = Slice[mode]
    BY <1>6 DEF Wake, RestoredSize
  <2> QED
    BY <1>1, <2>1 DEF WindowInv
<1>7. ASSUME SwitchOff PROVE Goal
  BY <1>7 DEF SwitchOff, WindowInv
<1>8. ASSUME TestOnly PROVE Goal
  <2>1. minH' = Slice[mode] /\ UNCHANGED <<decon, mode, region, window, size>>
    BY <1>8 DEF TestOnly, swState, hwState
  <2> QED
    BY <1>1, <2>1 DEF WindowInv
<1>9. ASSUME UNCHANGED partialVars PROVE Goal
  BY <1>1, <1>9 DEF partialVars, swState, hwState, WindowInv
<1>10. Goal
  BY <1>4, <1>5, <1>6, <1>7, <1>8, <1>9 DEF PartialNext
<1> QED
  BY <1>2, <1>10 DEF RegionInv, RegionAgrees, WindowInv, Sliced

(* The region of the CRTC state is where panel, DECON and DSIM are, and made *)
(* of whole slices, if every change of it is sent and no test of another     *)
(* mode is mistaken for a commit: exynos_partial_update, which sends only    *)
(* differences, and exynos_partial_restore leave none behind.                *)
THEOREM RegionCorrect ==
  ASSUME Races \cap {"skipped_wake", "skipped_frame", "test_only"} = {}
  PROVE  PartialSpec => []RegionAgrees
<1>1. PartialInit => RegionInv
  <2> SUFFICES ASSUME PartialInit PROVE RegionInv
    OBVIOUS
  <2>1. PartialTyped
    BY PartialTypedInit
  <2> QED
    BY <2>1 DEF PartialInit, RegionInv, RegionAgrees, PartialTyped
<1>2. RegionInv /\ [PartialNext]_partialVars => RegionInv'
  BY RegionStep
<1>3. RegionInv => RegionAgrees
  BY DEF RegionInv
<1> QED
  BY <1>1, <1>2, <1>3, PTL DEF PartialSpec

-----------------------------------------------------------------------------
(* Partial update: the limits of the DPPs *)

(* Under a partial region every visible plane is cut to it, and its DPP can  *)
(* follow; that a new region is checked against all planes keeps it so.      *)
CutInv ==
  region # Full =>
    \A p \in Planes : /\ Supported(place[p], region)
                      /\ place[p].on => dst[p] = Reconfigured(place[p], region)
OffInv    == \A p \in Planes : ~place[p].on => ~dst[p].vis
LimitsInv == PartialTyped /\ ~refused /\ CutInv /\ OffInv

LEMMA OffCoordinates == ASSUME NEW q, NEW r, ~q.on PROVE ~Coordinates(q, r).vis
  BY DEF Coordinates, Untouched, Reconfigured, Meets

(* A plane whose place is not looked at again keeps it, and its coordinates. *)
LEMMA NextDstOf ==
  ASSUME NEW m, NEW keep, NEW req, NEW planes, NEW new, UserInput(m, keep, req, planes, new), NEW p \in Planes
  PROVE  LET nd == NextDst(m, keep, req, planes, new) IN
         \/ /\ p \in InCommit(m, keep, req, planes, new)
            /\ nd[p] = Coordinates(new[p], NextRegion(m, keep, req, new))
         \/ /\ p \notin InCommit(m, keep, req, planes, new)
            /\ nd[p] = dst[p] /\ new[p] = place[p]
  BY DEF NextDst, InCommit, UserInput

LEMMA NextOff ==
  ASSUME OffInv, NEW m, NEW keep, NEW req, NEW planes, NEW new, UserInput(m, keep, req, planes, new)
  PROVE  \A p \in Planes : ~new[p].on => ~NextDst(m, keep, req, planes, new)[p].vis
<1> TAKE p \in Planes
<1> QED
  BY NextDstOf, OffCoordinates DEF OffInv

(* What a new region asks of the planes. *)
LEMMA NextSupported ==
  ASSUME PartialTyped, "unchanged_region" \notin Races,
         NEW m, NEW keep, NEW req, NEW planes, NEW new, NEW late,
         UserInput(m, keep, req, planes, new), Commit(m, keep, req, planes, new, late),
         NextRegion(m, keep, req, new) # Full
  PROVE  \A p \in Planes : Supported(new[p], NextRegion(m, keep, req, new))
<1> DEFINE r == NextRegion(m, keep, req, new)
<1>1. ~NeedsModeset(m)
  BY PreparedRegion
<1>2. r = region \/ \A p \in Planes : Supported(new[p], r)
  BY <1>1, PreparedRegion
<1>3. r = region => \A p \in Planes : Supported(new[p], region)
  BY <1>1, CommitAllowed DEF Allowed, NextRegion
<1> QED
  BY <1>2, <1>3

LEMMA SupportedAccepts ==
  ASSUME NEW p \in Planes, NEW q, PlaceFits(p, q), NEW r, RegionOK(r), Supported(q, r),
         ~OddHeight(Reconfigured(q, r), q.kind)
  PROVE  DppAccepts(Reconfigured(q, r), q.kind)
<1> DEFINE d == Reconfigured(q, r)
<1> SUFFICES ASSUME d.vis, q.kind = "yuv" PROVE d.src % 2 = 0 /\ (d.hi - d.lo) % 2 = 0
  BY DEF DppAccepts
<1>1. q.lo \in Int /\ q.hi \in Int /\ r.lo \in Int /\ r.hi \in Int
  BY DEF PlaceFits, PlaceType, RegionOK, Rects
<1>2. Greater(r.lo - q.lo, 0) % 2 = 0
  BY DEF Supported, Reconfigured
<1>3. d.src = Greater(q.lo, r.lo) - q.lo
  BY DEF Reconfigured, Inter
<1>4. d.src = Greater(r.lo - q.lo, 0)
  BY <1>1, <1>3 DEF Greater
<1>5. d.hi - d.lo \in Int
  <2>1. DstFits(d)
    BY CoordinatesFit
  <2> QED
    BY <2>1 DEF DstFits, DstType
<1> HIDE DEF d
<1>6. (d.hi - d.lo) % 2 # 1
  BY <1>2, <1>4 DEF OddHeight, d
<1>7. \A x \in Int : x % 2 # 1 => x % 2 = 0
  BY Z3
<1> QED
  BY <1>2, <1>4, <1>5, <1>6, <1>7

LEMMA CommitAccepted ==
  ASSUME PartialTyped, Races \cap {"odd_height", "unchanged_region"} = {},
         NEW m, NEW keep, NEW req, NEW planes, NEW new, NEW late,
         UserInput(m, keep, req, planes, new), Commit(m, keep, req, planes, new, late)
  PROVE  ~Refuses(m, keep, req, planes, new)
<1> DEFINE r == NextRegion(m, keep, req, new)
<1>1. CASE r = Full
  BY <1>1, ModesetTaken
<1>2. CASE r # Full
  <2> SUFFICES ASSUME NEW p \in InCommit(m, keep, req, planes, new)
               PROVE  DppAccepts(NextDst(m, keep, req, planes, new)[p], new[p].kind)
    BY DEF Refuses
  <2>1. p \in Planes
    BY NextDstTyped
  <2>2. NextDst(m, keep, req, planes, new)[p] = Reconfigured(new[p], r)
    BY <1>2, <2>1 DEF NextDst, Coordinates
  <2>3. ~OddHeight(Reconfigured(new[p], r), new[p].kind)
    <3>1. ~HasOdd(m, keep, req, planes, new)
      BY CommitAllowed DEF Allowed
    <3> QED
      BY <2>2, <3>1 DEF HasOdd
  <2>4. Supported(new[p], r)
    BY <1>2, <2>1, NextSupported
  <2>5. RegionOK(r) /\ PlaceFits(p, new[p])
    BY <2>1, PreparedRegion DEF UserInput
  <2> HIDE DEF r
  <2> QED
    BY <2>1, <2>2, <2>3, <2>4, <2>5, SupportedAccepts
<1> QED
  BY <1>1, <1>2

LEMMA LimitsStep ==
  ASSUME Races \cap {"odd_height", "unchanged_region"} = {}
  PROVE  LimitsInv /\ [PartialNext]_partialVars => LimitsInv'
<1> SUFFICES ASSUME LimitsInv, [PartialNext]_partialVars PROVE LimitsInv'
  OBVIOUS
<1>1. PartialTyped /\ ~refused /\ CutInv /\ OffInv
  BY DEF LimitsInv
<1>2. PartialTyped'
  BY <1>1, PartialTypedStep
<1> DEFINE Goal == ~refused' /\ CutInv' /\ OffInv'
<1>3. ASSUME UserCommit PROVE Goal
  <2>1. PICK m, keep, req, planes, new, late :
          UserInput(m, keep, req, planes, new) /\ Commit(m, keep, req, planes, new, late)
    BY <1>1, <1>3, UserCommitInput
  <2> DEFINE r  == NextRegion(m, keep, req, new)
             nd == NextDst(m, keep, req, planes, new)
  <2>2. ~Refuses(m, keep, req, planes, new)
    BY <1>1, <2>1, CommitAccepted
  <2>3. refused' = refused /\ place' = new /\ region' = r /\ dst' = nd
    BY <2>1, <2>2, CommitTaken
  <2>4. OffInv'
    <3>1. \A p \in Planes : ~new[p].on => ~nd[p].vis
      BY <1>1, <2>1, NextOff
    <3> HIDE DEF nd, r
    <3> QED
      BY <2>3, <3>1 DEF OffInv
  <2>5. ASSUME r # Full, NEW p \in Planes, new[p].on PROVE nd[p] = Reconfigured(new[p], r)
    <3>1. CASE p \in InCommit(m, keep, req, planes, new)
      BY <2>5, <3>1 DEF NextDst, Coordinates
    <3>2. CASE p \notin InCommit(m, keep, req, planes, new)
      <4>1. nd[p] = dst[p] /\ new[p] = place[p]
        BY <2>1, <3>2, NextDstOf
      <4>2. p \in PlaneMask(new) /\ p \notin Prepared(m, keep, req, new).fetched
        BY <2>5, <3>2 DEF PlaneMask, InCommit
      <4>3. r = region
        BY <1>1, <2>1, <2>5, <4>2, PreparedRegion
      <4> QED
        BY <1>1, <2>5, <4>1, <4>3 DEF CutInv
    <3> QED
      BY <3>1, <3>2
  <2>6. r # Full => \A p \in Planes : Supported(new[p], r)
    BY <1>1, <2>1, NextSupported
  <2> HIDE DEF nd, r
  <2>7. CutInv'
    BY <2>3, <2>5, <2>6 DEF CutInv
  <2> QED
    BY <1>1, <2>3, <2>4, <2>7
<1>4. ASSUME Hibernate PROVE Goal
  BY <1>1, <1>4 DEF Hibernate, swState, CutInv, OffInv
<1>5. ASSUME Wake PROVE Goal
  BY <1>1, <1>5 DEF Wake, CutInv, OffInv
<1>6. ASSUME SwitchOff PROVE Goal
  <2>1. \A p \in Planes : place'[p] = Off(place[p]) /\ dst'[p] = [dst[p] EXCEPT !.vis = FALSE]
    BY <1>6 DEF SwitchOff
  <2>2. \A p \in Planes : ~place'[p].on /\ ~dst'[p].vis
    <3> TAKE p \in Planes
    <3>1. dst[p] \in DstType /\ place[p] \in PlaceType
      BY <1>1 DEF PartialTyped
    <3> QED
      BY <2>1, <3>1 DEF Off, DstType, PlaceType
  <2>3. \A p \in Planes : Supported(place'[p], region')
    BY <2>2 DEF Supported, Meets
  <2> QED
    BY <1>1, <1>6, <2>2, <2>3 DEF SwitchOff, CutInv, OffInv
<1>7. ASSUME TestOnly PROVE Goal
  BY <1>1, <1>7 DEF TestOnly, swState, CutInv, OffInv
<1>8. ASSUME UNCHANGED partialVars PROVE Goal
  BY <1>1, <1>8 DEF partialVars, swState, CutInv, OffInv
<1>9. Goal
  BY <1>3, <1>4, <1>5, <1>6, <1>7, <1>8 DEF PartialNext
<1> QED
  BY <1>2, <1>9 DEF LimitsInv

(* No commit is refused for the sake of its region and no plane is scaled    *)
(* under a partial one (exynos_drm_partial.c:434), if a plane that changes   *)
(* under a region that stays is one that fits it, and no cut leaves an odd   *)
(* number of lines of a YUV buffer.                                          *)
THEOREM LimitsKept ==
  ASSUME Races \cap {"odd_height", "unchanged_region"} = {}
  PROVE  PartialSpec => []DppLimitsKept
<1>1. PartialInit => LimitsInv
  <2> SUFFICES ASSUME PartialInit PROVE LimitsInv
    OBVIOUS
  <2>1. PartialTyped
    BY PartialTypedInit
  <2>2. CutInv
    BY DEF PartialInit, CutInv
  <2>3. OffInv
    BY DEF PartialInit, OffInv
  <2> QED
    BY <2>1, <2>2, <2>3 DEF PartialInit, LimitsInv
<1>2. LimitsInv /\ [PartialNext]_partialVars => LimitsInv'
  BY LimitsStep
<1>3. LimitsInv => DppLimitsKept
  <2> SUFFICES ASSUME LimitsInv, region # Full, NEW p \in Planes, dst[p].vis
               PROVE  place[p].kind # "scaled"
    BY DEF LimitsInv, DppLimitsKept
  <2>1. place[p].on /\ dst[p] = Reconfigured(place[p], region) /\ Supported(place[p], region)
    BY DEF LimitsInv, CutInv, OffInv
  <2> QED
    BY <2>1 DEF Reconfigured, Supported
<1> QED
  BY <1>1, <1>2, <1>3, PTL DEF PartialSpec

-----------------------------------------------------------------------------
(* Partial update: the picture *)

(* The DPPs are set to the places of the planes in the region, and the       *)
(* region holds every line user space spoke of.                              *)
DstInv     == \A p \in Planes : place[p].on => dst[p] = Coordinates(place[p], region)
CoverInv   == Damage(request) \subseteq LinesOf(region)
PictureInv == PartialTyped /\ WindowInv /\ DstInv /\ OffInv /\ CoverInv /\ PictureWhole

DamageHyp == Races \cap {"skipped_wake", "skipped_off", "skipped_frame", "later_planes", "no_planes"} = {}

(* Cutting a plane to a region and placing it there moves no line of it.     *)
LEMMA LineKept ==
  ASSUME NEW p \in Planes, NEW q, PlaceFits(p, q), q.on, NEW r, RegionOK(r), NEW l \in LinesOf(r)
  PROVE  LET d == Coordinates(q, r)
             i == l - r.lo IN
         /\ d.vis /\ d.lo <= i /\ i < d.hi <=> l \in LinesOf(q)
         /\ l \in LinesOf(q) => d.src + i - d.lo = l - q.lo
<1>1. q.lo \in Int /\ q.hi \in Int /\ r.lo \in Int /\ r.hi \in Int /\ q \in PlaceType /\ r \in Rects
  BY DEF PlaceFits, PlaceType, RegionOK, Rects
<1>2. l \in Lines /\ l \in Int /\ r.lo <= l /\ l < r.hi
  BY DEF LinesOf, Lines
<1>3. l \in LinesOf(q) <=> q.lo <= l /\ l < q.hi
  BY <1>2 DEF LinesOf
<1>4. CASE r = Full
  <2>1. Coordinates(q, r) = [vis |-> TRUE, lo |-> q.lo, hi |-> q.hi, src |-> 0] /\ r.lo = 0
    BY <1>4, FullRegion DEF Coordinates, Untouched, PlaceFits, PlaceType
  <2> QED
    BY <1>1, <1>2, <1>3, <2>1
<1>5. CASE r # Full
  <2> DEFINE a == Inter(q, r).lo
             b == Inter(q, r).hi
             d == Coordinates(q, r)
  <2>1. a \in Int /\ b \in Int /\ a >= q.lo /\ a >= r.lo /\ (a = q.lo \/ a = r.lo)
        /\ b <= q.hi /\ b <= r.hi /\ (b = q.hi \/ b = r.hi)
    BY <1>1, InterOf
  <2>2. (d.vis <=> a < b) /\ d.lo = a - r.lo /\ d.hi = b - r.lo /\ d.src = a - q.lo
    BY <1>5 DEF Coordinates, Reconfigured, Meets
  <2> HIDE DEF a, b, d
  <2>3. l \in LinesOf(q) <=> a <= l /\ l < b
    BY <1>1, <1>2, <1>3, <2>1
  <2>4. d.lo <= l - r.lo /\ l - r.lo < d.hi <=> a <= l /\ l < b
    BY <1>1, <1>2, <2>1, <2>2
  <2>5. a <= l /\ l < b => a < b
    BY <1>2, <2>1
  <2>6. d.vis /\ d.lo <= l - r.lo /\ l - r.lo < d.hi <=> l \in LinesOf(q)
    BY <2>2, <2>3, <2>4, <2>5
  <2>7. d.src + (l - r.lo) - d.lo = l - q.lo
    BY <1>1, <1>2, <2>1, <2>2
  <2> QED
    BY <2>6, <2>7 DEF d
<1> QED
  BY <1>4, <1>5

(* A frame cut to its region makes the region right, so nothing is stale if  *)
(* nothing was outside it.                                                   *)
LEMMA FrameClean ==
  ASSUME NEW new, \A p \in Planes : PlaceFits(p, new[p]), NEW r, RegionOK(r), NEW nd,
         \A p \in Planes : IF new[p].on THEN nd[p] = Coordinates(new[p], r) ELSE ~nd[p].vis,
         NEW old, old \subseteq LinesOf(r)
  PROVE  Sent(old, r, r.hi - r.lo, new, nd) = {}
<1>1. ASSUME NEW l \in LinesOf(r), NEW p \in Planes
      PROVE  LET over == nd[p].vis /\ nd[p].lo <= l - r.lo /\ l - r.lo < nd[p].hi IN
             (over <=> l \in Covered(new[p])) /\ (over => nd[p].src + (l - r.lo) - nd[p].lo = l - new[p].lo)
  <2>1. CASE new[p].on
    <3>1. nd[p] = Coordinates(new[p], r) /\ Covered(new[p]) = LinesOf(new[p])
      BY <2>1 DEF Covered
    <3> QED
      BY <2>1, <3>1, LineKept
  <2>2. CASE ~new[p].on
    BY <2>2 DEF Covered
  <2> QED
    BY <2>1, <2>2
<1>2. \A l \in LinesOf(r) : Right(l, r, r.hi - r.lo, new, nd)
  BY <1>1 DEF Right
<1> QED
  BY <1>2 DEF Sent

LEMMA PreparedCovers ==
  ASSUME PartialTyped, CoverInv, NEW m, NEW keep, NEW req, NEW planes, NEW new,
         UserInput(m, keep, req, planes, new), PlaneMask(new) # {}
  PROVE  Damage(req) \subseteq LinesOf(NextRegion(m, keep, req, new))
<1>1. Damage(req) \subseteq Lines /\ LinesOf(Full) = Lines
  BY FullRegion DEF Damage, LinesOf
<1>2. Damage(req) \subseteq LinesOf(Asked(req))
  BY AskedRegion DEF UserInput, PartialTyped, PartialTypeOK
<1>3. keep => Damage(req) \subseteq LinesOf(region)
  BY DEF UserInput, CoverInv
<1>4. \/ NextRegion(m, keep, req, new) \in {Full, Asked(req)}
      \/ keep /\ NextRegion(m, keep, req, new) = region
  BY DEF NextRegion, Prepared
<1> QED
  BY <1>1, <1>2, <1>3, <1>4

(* When the region changes, all planes are in the commit. *)
LEMMA PlanesFollow ==
  ASSUME PartialTyped, "later_planes" \notin Races,
         NEW m, NEW keep, NEW req, NEW planes, NEW new, NEW late,
         UserInput(m, keep, req, planes, new), Commit(m, keep, req, planes, new, late),
         NextRegion(m, keep, req, new) # region
  PROVE  PlaneMask(new) \subseteq InCommit(m, keep, req, planes, new)
<1>1. CASE NeedsModeset(m)
  BY <1>1, PreparedRegion DEF InCommit
<1>2. CASE ~NeedsModeset(m) /\ region = Full
  BY <1>2, PreparedRegion DEF InCommit
<1>3. CASE ~NeedsModeset(m) /\ region # Full
  <2>1. PlaneMask(new) \subseteq Prepared(m, keep, req, new).fetched \cup planes
    BY <1>3, CommitAllowed DEF Allowed, NextRegion
  <2> QED
    BY <2>1 DEF InCommit
<1> QED
  BY <1>1, <1>2, <1>3

LEMMA NextCoordinates ==
  ASSUME PartialTyped, DstInv, "later_planes" \notin Races,
         NEW m, NEW keep, NEW req, NEW planes, NEW new, NEW late,
         UserInput(m, keep, req, planes, new), Commit(m, keep, req, planes, new, late)
  PROVE  \A p \in Planes : new[p].on =>
           NextDst(m, keep, req, planes, new)[p] = Coordinates(new[p], NextRegion(m, keep, req, new))
<1> SUFFICES ASSUME NEW p \in Planes, new[p].on, p \notin InCommit(m, keep, req, planes, new)
             PROVE  NextDst(m, keep, req, planes, new)[p] = Coordinates(new[p], NextRegion(m, keep, req, new))
  BY NextDstOf
<1>1. NextDst(m, keep, req, planes, new)[p] = dst[p] /\ new[p] = place[p]
  BY NextDstOf
<1>2. p \in PlaneMask(new)
  BY DEF PlaneMask
<1>3. NextRegion(m, keep, req, new) = region
  BY <1>2, PlanesFollow
<1> QED
  BY <1>1, <1>3 DEF DstInv

(* What a commit leaves in the panel's memory. *)
LEMMA CommitClean ==
  ASSUME PictureInv, DamageHyp,
         NEW m, NEW keep, NEW req, NEW planes, NEW new, NEW late, late \in BOOLEAN,
         late => "skipped_frame" \in Races,
         UserInput(m, keep, req, planes, new), Commit(m, keep, req, planes, new, late),
         ~Refuses(m, keep, req, planes, new)
  PROVE  stale' = {}
<1> DEFINE r  == NextRegion(m, keep, req, new)
           nd == NextDst(m, keep, req, planes, new)
<1>1. PartialTyped /\ WindowInv /\ DstInv /\ OffInv /\ CoverInv /\ (decon # "OFF" => stale = {})
  BY DEF PictureInv, PictureWhole
<1>2. /\ FramesNotSkipped /\ ~late
      /\ "later_planes" \notin Races /\ "skipped_off" \notin Races /\ "no_planes" \notin Races
  BY DEF DamageHyp, FramesNotSkipped
<1>3. PlaneMask(new) # {}
  BY <1>2, CommitAllowed DEF Allowed
<1>4. Damage(req) \subseteq LinesOf(r)
  BY <1>1, <1>3, PreparedCovers
<1>5. CASE Skips(planes, new, late)
  <2>1. decon = "HIBERNATION" /\ ~PlanesUpdated(planes, new)
    BY <1>2, <1>5 DEF Skips
  <2>2. planes = {}
    BY <1>2, <2>1, CommitAllowed DEF Allowed
  <2>3. stale' = WasStale(req, planes)
    BY <1>5, CommitShows
  <2> QED
    BY <1>1, <2>1, <2>2, <2>3 DEF WasStale
<1>6. CASE ~Skips(planes, new, late)
  <2>1. stale' = Sent(WasStale(req, planes), window', size', new, nd)
    BY <1>6, CommitShows
  <2>2. window' = r /\ size' = r.hi - r.lo
    BY <1>1, <1>2, ShownRegion
  <2>3. WasStale(req, planes) \subseteq LinesOf(r)
    <3>1. CASE decon = "OFF"
      <4>1. r = Full
        BY <1>1, <3>1, PreparedRegion DEF NeedsModeset
      <4> QED
        BY <3>1, <4>1, FullRegion DEF WasStale
    <3>2. CASE decon # "OFF"
      BY <1>1, <1>4, <3>2 DEF WasStale
    <3> QED
      BY <3>1, <3>2
  <2>4. \A p \in Planes : IF new[p].on THEN nd[p] = Coordinates(new[p], r) ELSE ~nd[p].vis
    BY <1>1, <1>2, NextCoordinates, NextOff
  <2>5. RegionOK(r) /\ \A p \in Planes : PlaceFits(p, new[p])
    BY <1>1, PreparedRegion DEF UserInput
  <2> HIDE DEF r, nd
  <2>6. Sent(WasStale(req, planes), r, r.hi - r.lo, new, nd) = {}
    BY <2>3, <2>4, <2>5, FrameClean
  <2> QED
    BY <2>1, <2>2, <2>6
<1> QED
  BY <1>5, <1>6

LEMMA PictureStep ==
  ASSUME DamageHyp
  PROVE  PictureInv /\ [PartialNext]_partialVars => PictureInv'
<1> SUFFICES ASSUME PictureInv, [PartialNext]_partialVars PROVE PictureInv'
  OBVIOUS
<1>1. PartialTyped /\ WindowInv /\ DstInv /\ OffInv /\ CoverInv /\ (decon # "OFF" => stale = {})
  BY DEF PictureInv, PictureWhole
<1>2. PartialTyped'
  BY <1>1, PartialTypedStep
<1>3. FramesNotSkipped /\ "later_planes" \notin Races /\ "skipped_wake" \notin Races /\ "no_planes" \notin Races
  BY DEF DamageHyp, FramesNotSkipped
<1> DEFINE Goal == WindowInv' /\ DstInv' /\ OffInv' /\ CoverInv' /\ (decon' # "OFF" => stale' = {})
<1>4. ASSUME UserCommit PROVE Goal
  <2>1. PICK m, keep, req, planes, new, late :
          /\ UserInput(m, keep, req, planes, new) /\ Commit(m, keep, req, planes, new, late)
          /\ late \in BOOLEAN /\ (late => "skipped_frame" \in Races)
    BY <1>1, <1>4, UserCommitInput
  <2>2. CASE Refuses(m, keep, req, planes, new)
    <3>1. UNCHANGED <<decon, request, region, place, dst, window, size, stale>>
      BY <2>1, <2>2, CommitRefused
    <3> QED
      BY <1>1, <3>1 DEF WindowInv, DstInv, OffInv, CoverInv, Damage
  <2>3. CASE ~Refuses(m, keep, req, planes, new)
    <3> DEFINE r  == NextRegion(m, keep, req, new)
               nd == NextDst(m, keep, req, planes, new)
    <3>1. decon' = "ON" /\ request' = req /\ place' = new /\ region' = r /\ dst' = nd
      BY <2>1, <2>3, CommitTaken
    <3>2. window' = r /\ size' = r.hi - r.lo
      BY <1>1, <1>3, <2>1, <2>3, ShownRegion
    <3>3. \A p \in Planes : new[p].on => nd[p] = Coordinates(new[p], r)
      BY <1>1, <1>3, <2>1, NextCoordinates
    <3>4. \A p \in Planes : ~new[p].on => ~nd[p].vis
      BY <1>1, <2>1, NextOff
    <3>5. PlaneMask(new) # {}
      BY <1>3, <2>1, CommitAllowed DEF Allowed
    <3>6. Damage(req) \subseteq LinesOf(r)
      BY <1>1, <2>1, <3>5, PreparedCovers
    <3>7. stale' = {}
      BY <2>1, <2>3, CommitClean
    <3> HIDE DEF r, nd
    <3> QED
      BY <3>1, <3>2, <3>3, <3>4, <3>6, <3>7 DEF WindowInv, DstInv, OffInv, CoverInv
  <2> QED
    BY <2>2, <2>3
<1>5. ASSUME Hibernate PROVE Goal
  BY <1>1, <1>5 DEF Hibernate, swState, hwState, WindowInv, DstInv, OffInv, CoverInv
<1>6. ASSUME Wake PROVE Goal
  <2>1. region = Full /\ region' = Full /\ size' = Full.hi - Full.lo /\ decon = "HIBERNATION"
        /\ UNCHANGED <<request, place, dst, window, stale>>
    BY <1>3, <1>6 DEF Wake, RestoredSize
  <2> QED
    BY <1>1, <2>1 DEF WindowInv, DstInv, OffInv, CoverInv
<1>7. ASSUME SwitchOff PROVE Goal
  <2>1. \A p \in Planes : place'[p] = Off(place[p]) /\ dst'[p] = [dst[p] EXCEPT !.vis = FALSE]
    BY <1>7 DEF SwitchOff
  <2>2. \A p \in Planes : ~place'[p].on /\ ~dst'[p].vis
    <3> TAKE p \in Planes
    <3>1. dst[p] \in DstType /\ place[p] \in PlaceType
      BY <1>1 DEF PartialTyped
    <3> QED
      BY <2>1, <3>1 DEF Off, DstType, PlaceType
  <2>3. decon' = "OFF" /\ UNCHANGED <<request, region>>
    BY <1>7 DEF SwitchOff
  <2> QED
    BY <1>1, <2>2, <2>3 DEF WindowInv, DstInv, OffInv, CoverInv
<1>8. ASSUME TestOnly PROVE Goal
  BY <1>1, <1>8 DEF TestOnly, swState, hwState, WindowInv, DstInv, OffInv, CoverInv
<1>9. ASSUME UNCHANGED partialVars PROVE Goal
  BY <1>1, <1>9 DEF partialVars, swState, hwState, WindowInv, DstInv, OffInv, CoverInv
<1>10. Goal
  BY <1>4, <1>5, <1>6, <1>7, <1>8, <1>9 DEF PartialNext
<1> QED
  BY <1>2, <1>10 DEF PictureInv, PictureWhole

(* The panel's memory holds what user space asked for, line by line, after   *)
(* every commit, mode set, hibernation and wakeup, if no region that changes *)
(* is left unsent, every commit keeps a plane and updates one when it wakes  *)
(* the display, and all planes are in a commit that changes the region.      *)
THEOREM PictureCorrect ==
  ASSUME Races \cap {"skipped_wake", "skipped_off", "skipped_frame", "later_planes", "no_planes"} = {}
  PROVE  PartialSpec => []PictureWhole
<1>1. PartialInit => PictureInv
  <2> SUFFICES ASSUME PartialInit PROVE PictureInv
    OBVIOUS
  <2>1. PartialTyped
    BY PartialTypedInit
  <2>2. WindowInv /\ PictureWhole
    BY DEF PartialInit, WindowInv, PictureWhole
  <2>3. \A p \in Planes : ~place[p].on /\ ~dst[p].vis
    BY DEF PartialInit, Off, PlaceOf
  <2>4. CoverInv
    BY FullRegion DEF PartialInit, CoverInv, Damage, LinesOf
  <2> QED
    BY <2>1, <2>2, <2>3, <2>4 DEF PictureInv, DstInv, OffInv
<1>2. PictureInv /\ [PartialNext]_partialVars => PictureInv'
  BY PictureStep DEF DamageHyp
<1>3. PictureInv => PictureWhole
  BY DEF PictureInv
<1> QED
  BY <1>1, <1>2, <1>3, PTL DEF PartialSpec

=============================================================================
