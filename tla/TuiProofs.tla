----------------------------- MODULE TuiProofs -----------------------------
(***************************************************************************)
(* Handing the display to the trusted UI, for every number of CRTCs,       *)
(* callers, commits and calls.  The theorems name the races they exclude;  *)
(* the others may happen.                                                  *)
(***************************************************************************)
EXTENDS Tui, FiniteSetTheorems, TLAPS

-----------------------------------------------------------------------------
(* The inductive invariant *)

(* A caller that owns the trusted UI's half of the system: between taking   *)
(* dp_tui_lock and leaving it behind, or on its way out.                    *)
Holds(t) == pc[t] \notin {"idle", "unblock"}

(* One such caller at a time: dp_tui_lock admits one, and it is held as long *)
(* as the trusted UI is up or someone holds it; what is remembered stays     *)
(* what the leaving caller read.                                             *)
LocksInv ==
  /\ \A t, u \in Threads : Holds(t) /\ Holds(u) => t = u
  /\ \A t \in Threads : Holds(t) => dpTui = "tui"
  /\ tui => dpTui = "tui" /\ saved # <<>>
  /\ \A t \in Threads : Holds(t) => (tui <=> pc[t] = "exit")
  /\ dpTui = "tui" => tui \/ \E t \in Threads : Holds(t)
  /\ \A t \in Threads : locked = t <=> pc[t] \in {"build", "commit", "exitCommit"}
  /\ \A t \in Threads : pc[t] \in {"exit", "exitCommit"} => mine[t] = saved /\ saved # <<>>

(* The trusted UI has the display, or is about to give it back. *)
Taken == tui \/ \E t \in Threads : pc[t] = "exitCommit"

(* What the commit of Bypassed leaves of a state that was remembered. *)
TakenFrom(c, s) ==
  /\ s.active => s.enable
  /\ ~s.sr
  /\ IF s.active
     THEN crtc[c] = [enable |-> s.enable, active |-> FALSE, sr |-> c \in Aware, bypass |-> c \in Aware]
     ELSE crtc[c] = s

(* A state that commits can leave, and the DECON that does what it says. *)
Sane(c, s) ==
  /\ s.active => s.enable
  /\ s.sr => s.enable /\ ~s.active /\ c \in Aware
  /\ s.bypass => s.sr

DeconOf(s) == IF s.active THEN "ON" ELSE IF s.sr THEN "HIBERNATION" ELSE "OFF"

CrtcInv ==
  /\ \A c \in Crtcs : Sane(c, crtc[c]) /\ decon[c] = DeconOf(crtc[c])
  /\ Taken => \A c \in Crtcs : TakenFrom(c, saved[1][c])

(* What a caller that enters has prepared. *)
EnterInv ==
  \A t \in Threads :
    /\ pc[t] \in {"block", "lock", "build", "commit"} => ~failed[t]
    /\ pc[t] = "commit" => taken[t] = ActiveCrtcs /\ saved = <<[c \in Crtcs |-> Duplicated(c)]>>

(* Hibernation is kept out of c by the caller. *)
Blocks(t, c) ==
  \/ pc[t] = "block" /\ c \notin todo[t]
  \/ pc[t] \in {"lock", "build", "commit"}
  \/ pc[t] = "unblock" /\ c \in todo[t]

BlockInv == \A c \in Crtcs : block[c] = Cardinality({t \in Threads : Blocks(t, c)})

(* A caller that enters has woken the CRTCs that it blocked; one in bypass   *)
(* cannot be woken.                                                          *)
WokenInv ==
  \A t \in Threads, c \in Crtcs :
    Blocks(t, c) /\ pc[t] # "unblock" /\ crtc[c].sr => crtc[c].bypass

(* The caller has a power reference of its own to c's DECON. *)
Refers(t, c) ==
  \/ pc[t] = "commit" /\ c \in taken[t]
  \/ pc[t] = "unblock" /\ failed[t] /\ c \in taken[t] /\ c \in todo[t]

PowerInv ==
  \A c \in Crtcs :
    pm[c] = One(decon[c] = "ON") + One(crtc[c].bypass) + One(Taken /\ saved[1][c].active)
            + Cardinality({t \in Threads : Refers(t, c)})

Inv == TypeOK /\ LocksInv /\ CrtcInv /\ EnterInv /\ BlockInv /\ WokenInv /\ PowerInv

-----------------------------------------------------------------------------
(* Counting callers *)

(* When only t may have joined or left a set of callers, its size changes by *)
(* that.                                                                     *)
LEMMA Counted ==
  ASSUME NEW P \in SUBSET Threads, NEW Q \in SUBSET Threads, NEW t \in Threads, P \ {t} = Q \ {t}
  PROVE  /\ Cardinality(P) \in Nat /\ Cardinality(Q) \in Nat
         /\ Cardinality(Q) = Cardinality(P) + One(t \in Q) - One(t \in P)
<1>1. IsFiniteSet(P) /\ IsFiniteSet(Q) /\ IsFiniteSet(P \ {t})
  BY TuiThreadsAssumption, FS_Subset
<1>2. \A S \in {P, Q} : Cardinality(S \ {t}) = IF t \in S THEN Cardinality(S) - 1 ELSE Cardinality(S)
  BY <1>1, FS_RemoveElement
<1>3. Cardinality(P) \in Nat /\ Cardinality(Q) \in Nat
  BY <1>1, FS_CardinalityType
<1> QED BY <1>2, <1>3 DEF One

(* A set of callers is no larger than the set of all of them. *)
LEMMA CountType ==
  ASSUME NEW P \in SUBSET Threads
  PROVE  Cardinality(P) \in 0 .. Cardinality(Threads)
  BY TuiThreadsAssumption, FS_Subset, FS_CardinalityType

(* Every caller but t stays where it is. *)
OnlyMoves(t) ==
  \A u \in Threads \ {t} :
    pc'[u] = pc[u] /\ todo'[u] = todo[u] /\ taken'[u] = taken[u] /\ failed'[u] = failed[u]

(* block_cnt moves with the one caller that moves. *)
LEMMA BlockCounts ==
  ASSUME BlockInv, NEW t \in Threads, OnlyMoves(t), NEW c \in Crtcs,
         block'[c] = block[c] + One(Blocks(t, c)') - One(Blocks(t, c))
  PROVE  block'[c] = Cardinality({u \in Threads : Blocks(u, c)})'
<1> DEFINE P == {u \in Threads : Blocks(u, c)}
           Q == {u \in Threads : Blocks(u, c)'}
<1>1. P \ {t} = Q \ {t}
  BY DEF OnlyMoves, Blocks
<1>2. (t \in P <=> Blocks(t, c)) /\ (t \in Q <=> Blocks(t, c)')
  OBVIOUS
<1>3. block[c] = Cardinality(P)
  BY DEF BlockInv
<1>4. Cardinality(Q) = Cardinality(P) + One(t \in Q) - One(t \in P)
  BY <1>1, Counted
<1> QED BY <1>2, <1>3, <1>4 DEF One

(* So do the references that callers have. *)
LEMMA PowerCounts ==
  ASSUME PowerInv, NEW t \in Threads, OnlyMoves(t), NEW c \in Crtcs, pm[c] \in Nat,
         NEW b \in Int,
         b = One(decon'[c] = "ON") + One(crtc'[c].bypass) - One(decon[c] = "ON") - One(crtc[c].bypass),
         pm'[c] = pm[c] + b + One((Taken /\ saved[1][c].active)') - One(Taken /\ saved[1][c].active)
                  + One(Refers(t, c)') - One(Refers(t, c))
  PROVE  pm'[c] = (One(decon[c] = "ON") + One(crtc[c].bypass) + One(Taken /\ saved[1][c].active)
                   + Cardinality({u \in Threads : Refers(u, c)}))'
<1> DEFINE P == {u \in Threads : Refers(u, c)}
           Q == {u \in Threads : Refers(u, c)'}
<1>1. P \ {t} = Q \ {t}
  BY DEF OnlyMoves, Refers
<1>2. One(t \in P) = One(Refers(t, c)) /\ One(t \in Q) = One(Refers(t, c)')
  BY DEF One
<1>3. pm[c] = One(decon[c] = "ON") + One(crtc[c].bypass) + One(Taken /\ saved[1][c].active) + Cardinality(P)
  BY DEF PowerInv
<1>4. /\ Cardinality(P) \in Nat /\ Cardinality(Q) \in Nat
      /\ Cardinality(Q) = Cardinality(P) + One(t \in Q) - One(t \in P)
  BY <1>1, Counted
<1>5. \A p : One(p) \in Int
  BY DEF One
<1> HIDE DEF P, Q
<1>6. pm'[c] = One(decon'[c] = "ON") + One(crtc'[c].bypass) + One((Taken /\ saved[1][c].active)') + Cardinality(Q)
  BY <1>2, <1>3, <1>4, <1>5
<1> QED BY <1>6 DEF Q

-----------------------------------------------------------------------------
(* What a commit does *)

(* What holds of the states that commits bring: self refresh begins from an  *)
(* active or refreshing CRTC and ends in one that is active or off, bypass   *)
(* begins in an active CRTC and ends in one.                                 *)
Good(c, n) ==
  /\ n \in CrtcState /\ Sane(c, n)
  /\ crtc[c].sr => n.active \/ n.sr \/ ~n.enable
  /\ n.sr => crtc[c].active \/ crtc[c].sr
  /\ crtc[c].bypass /\ ~n.active => n.bypass
  /\ crtc[c].sr /\ n.sr /\ n.bypass => crtc[c].bypass

(* decon_disable and decon_enable leave the DECON as the new state says, and *)
(* the references they take and put are those of a running DECON and of      *)
(* bypass.                                                                   *)
LEMMA CommitPower ==
  ASSUME NEW c \in Crtcs, crtc[c] \in CrtcState, Sane(c, crtc[c]), decon[c] = DeconOf(crtc[c]),
         NEW n, Good(c, n)
  PROVE  /\ DeconAfter(c, n) = DeconOf(n)
         /\ PowerAfter(c, n) = One(n.active) + One(n.bypass) - One(crtc[c].active) - One(crtc[c].bypass)
<1>1. /\ crtc[c].active \in BOOLEAN /\ crtc[c].sr \in BOOLEAN /\ crtc[c].bypass \in BOOLEAN
      /\ crtc[c].enable \in BOOLEAN
      /\ n.active \in BOOLEAN /\ n.sr \in BOOLEAN /\ n.bypass \in BOOLEAN /\ n.enable \in BOOLEAN
  BY DEF Good, CrtcState
<1>2. DeconAfter(c, n) = DeconOf(n)
  BY <1>1 DEF Good, Sane, DeconAfter, Disables, DeconOf
<1>3. Disables(c, n) <=> (crtc[c].active /\ ~n.active) \/ (crtc[c].sr /\ ~n.enable)
  <2>1. CASE n.sr
    BY <1>1, <2>1 DEF Good, Sane, Disables, DeconOf
  <2>2. CASE ~n.sr
    BY <1>1, <2>2 DEF Good, Sane, Disables, DeconOf
  <2> QED BY <2>1, <2>2
<1>4. \A s : DeconOf(s) = "ON" <=> s.active
  BY DEF DeconOf
<1>5. decon[c] = "ON" <=> crtc[c].active
  BY <1>4
<1>6. DeconAfter(c, n) = "ON" <=> n.active
  BY <1>2, <1>4
<1>7. PowerAfter(c, n) =
        One(((crtc[c].active /\ ~n.active) \/ (crtc[c].sr /\ ~n.enable)) /\ n.bypass)
        - One(crtc[c].active /\ ~n.active) + One(~crtc[c].active /\ n.active)
        - One(~crtc[c].active /\ n.active /\ crtc[c].bypass)
  BY <1>3, <1>5, <1>6 DEF PowerAfter, One
<1> QED BY <1>1, <1>2, <1>7 DEF Good, Sane, One

(* A commit of good states, for every CRTC. *)
LEMMA CommitEffect ==
  ASSUME TypeOK, \A c \in Crtcs : Sane(c, crtc[c]) /\ decon[c] = DeconOf(crtc[c]),
         NEW new \in [Crtcs -> CrtcState], NEW puts, Commit(new, puts),
         \A c \in Crtcs : Good(c, new[c])
  PROVE  /\ crtc' \in [Crtcs -> CrtcState] /\ decon' \in [Crtcs -> {"ON", "HIBERNATION", "OFF"}]
         /\ pm' = [c \in Crtcs |-> pm'[c]]
         /\ \A c \in Crtcs : (Sane(c, crtc[c]) /\ decon[c] = DeconOf(crtc[c]))'
         /\ \A c \in Crtcs : \E b \in Int :
              /\ b = One(decon'[c] = "ON") + One(crtc'[c].bypass) - One(decon[c] = "ON") - One(crtc[c].bypass)
              /\ pm'[c] = pm[c] + b - puts[c]
<1>1. crtc' = new /\ \A c \in Crtcs : decon'[c] = DeconOf(new[c])
  BY CommitPower DEF Commit, TypeOK
<1>2. crtc' \in [Crtcs -> CrtcState] /\ decon' \in [Crtcs -> {"ON", "HIBERNATION", "OFF"}]
  <2>1. \A s : DeconOf(s) \in {"ON", "HIBERNATION", "OFF"}
    BY DEF DeconOf
  <2> QED BY <1>1, <2>1 DEF Commit
<1>3. \A s : One(DeconOf(s) = "ON") = One(s.active) /\ One(s.active) \in Int /\ One(s.bypass) \in Int
  BY DEF DeconOf, One
<1>4. ASSUME NEW c \in Crtcs
      PROVE  \E b \in Int :
               /\ b = One(decon'[c] = "ON") + One(crtc'[c].bypass) - One(decon[c] = "ON") - One(crtc[c].bypass)
               /\ pm'[c] = pm[c] + b - puts[c]
  <2> DEFINE b == One(new[c].active) + One(new[c].bypass) - One(crtc[c].active) - One(crtc[c].bypass)
  <2>1. PowerAfter(c, new[c]) = b
    BY CommitPower DEF TypeOK
  <2>2. pm'[c] = pm[c] + b - puts[c]
    BY <2>1 DEF Commit
  <2>3. b \in Int
    BY <1>3
  <2>4. b = One(decon'[c] = "ON") + One(crtc'[c].bypass) - One(decon[c] = "ON") - One(crtc[c].bypass)
    BY <1>1, <1>3
  <2> HIDE DEF b
  <2> QED BY <2>2, <2>3, <2>4
<1>5. pm' = [c \in Crtcs |-> pm'[c]]
  BY DEF Commit
<1> QED BY <1>1, <1>2, <1>4, <1>5 DEF Good

(* A duplicated state is awake, and else what it was. *)
LEMMA DuplicatedState ==
  ASSUME NEW c \in Crtcs, crtc[c] \in CrtcState
  PROVE  /\ Duplicated(c) \in CrtcState
         /\ Duplicated(c).enable = crtc[c].enable /\ Duplicated(c).bypass = crtc[c].bypass
         /\ Duplicated(c).active = (crtc[c].active \/ crtc[c].sr) /\ ~Duplicated(c).sr
<1> DEFINE a == crtc[c].active \/ crtc[c].sr
<1>1. a \in BOOLEAN
  OBVIOUS
<1> HIDE DEF a
<1>2. \A s \in CrtcState : LET d == [s EXCEPT !.active = a, !.sr = FALSE] IN
        /\ d \in CrtcState /\ d.enable = s.enable /\ d.bypass = s.bypass /\ d.active = a /\ d.sr = FALSE
  BY <1>1 DEF CrtcState
<1>3. Duplicated(c) = [crtc[c] EXCEPT !.active = a, !.sr = FALSE]
  BY DEF Duplicated, a
<1> QED BY <1>2, <1>3 DEF a

-----------------------------------------------------------------------------
(* The steps *)

(* The types of the variables that are no counters. *)
BaseType ==
  /\ crtc \in [Crtcs -> CrtcState]
  /\ decon \in [Crtcs -> {"ON", "HIBERNATION", "OFF"}]
  /\ tui \in BOOLEAN /\ dpTui \in {"free", "dp", "tui"} /\ locked \in Threads \cup {None}
  /\ saved \in Remembered /\ mine \in [Threads -> Remembered]
  /\ pc \in [Threads -> {"idle", "block", "lock", "build", "commit", "unblock",
                         "exit", "exitCommit", "exitEnd"}]
  /\ todo \in [Threads -> SUBSET Crtcs] /\ taken \in [Threads -> SUBSET Crtcs]
  /\ failed \in [Threads -> BOOLEAN]
  /\ used \in [commits : 0 .. MaxCommits, calls : 0 .. MaxCalls]

(* Counters that count have their types. *)
LEMMA TypeFromCounts ==
  ASSUME BaseType', BlockInv', PowerInv',
         pm' = [c \in Crtcs |-> pm'[c]], block' = [c \in Crtcs |-> block'[c]]
  PROVE  TypeOK'
<1>1. \A c \in Crtcs : block'[c] \in 0 .. Cardinality(Threads)
  BY CountType DEF BlockInv
<1>2. ASSUME NEW c \in Crtcs PROVE pm'[c] \in Nat
  <2>1. Cardinality({t \in Threads : Refers(t, c)'}) \in Nat
    BY CountType
  <2>2. \A b : One(b) \in Nat
    BY DEF One
  <2> QED BY <2>1, <2>2 DEF PowerInv
<1> QED BY <1>1, <1>2 DEF TypeOK, BaseType

(* A remembered state is a tuple of one state of the device. *)
LEMMA RememberedState ==
  ASSUME NEW m \in Remembered, m # <<>>
  PROVE  m[1] \in [Crtcs -> CrtcState]
  BY DEF Remembered

(* Which races a theorem excludes: two callers that leave at once, and a     *)
(* wake-up whose commit fails.                                               *)
Orderly == Races \cap {"exit_twice", "wake_fails"} = {}

(* Each call counts. *)
LEMMA UsedType ==
  ASSUME used \in [commits : 0 .. MaxCommits, calls : 0 .. MaxCalls]
  PROVE  /\ used.commits < MaxCommits => [used EXCEPT !.commits = @ + 1] \in [commits : 0 .. MaxCommits, calls : 0 .. MaxCalls]
         /\ used.calls < MaxCalls => [used EXCEPT !.calls = @ + 1] \in [commits : 0 .. MaxCommits, calls : 0 .. MaxCalls]
  BY TuiBoundsAssumption

(* While nobody has the locks and the trusted UI is away, no caller is past  *)
(* taking the locks.                                                         *)
LEMMA NobodyCommits ==
  ASSUME TypeOK, LocksInv, Nobody, ~tui
  PROVE  ~Taken /\ \A t \in Threads : pc[t] \notin {"build", "commit", "exit", "exitCommit"}
  BY TuiThreadsAssumption DEF LocksInv, Nobody, Taken, Holds

(* A commit of another state for one CRTC, by someone who only reads the     *)
(* callers' state.                                                           *)
LEMMA OneCommit ==
  ASSUME Inv, NEW c \in Crtcs, NEW n, Good(c, n), Nobody, ~tui,
         Commit(OneChanged(c, n), NoPuts)
  PROVE  /\ crtc' = OneChanged(c, n) /\ crtc' \in [Crtcs -> CrtcState]
         /\ decon' \in [Crtcs -> {"ON", "HIBERNATION", "OFF"}]
         /\ pm' = [d \in Crtcs |-> pm'[d]]
         /\ \A d \in Crtcs : (Sane(d, crtc[d]) /\ decon[d] = DeconOf(crtc[d]))'
         /\ \A d \in Crtcs : \E b \in Int :
              /\ b = One(decon'[d] = "ON") + One(crtc'[d].bypass) - One(decon[d] = "ON") - One(crtc[d].bypass)
              /\ pm'[d] = pm[d] + b
<1> DEFINE new == OneChanged(c, n)
<1>1. new \in [Crtcs -> CrtcState] /\ \A d \in Crtcs : new[d] = IF d = c THEN n ELSE crtc[d]
  BY DEF OneChanged, Good, Inv, TypeOK
<1>2. \A d \in Crtcs : Good(d, crtc[d])
  BY DEF Good, Sane, Inv, TypeOK, CrtcInv, CrtcState
<1>3. \A d \in Crtcs : Good(d, new[d])
  BY <1>1, <1>2
<1> HIDE DEF new
<1>4. Commit(new, NoPuts)
  BY DEF new
<1>5. \A d \in Crtcs : NoPuts[d] = 0
  BY DEF NoPuts
<1>6. crtc' = OneChanged(c, n)
  BY DEF Commit
<1>7. /\ crtc' \in [Crtcs -> CrtcState]
      /\ decon' \in [Crtcs -> {"ON", "HIBERNATION", "OFF"}]
      /\ pm' = [d \in Crtcs |-> pm'[d]]
      /\ \A d \in Crtcs : (Sane(d, crtc[d]) /\ decon[d] = DeconOf(crtc[d]))'
      /\ \A d \in Crtcs : \E b \in Int :
           /\ b = One(decon'[d] = "ON") + One(crtc'[d].bypass) - One(decon[d] = "ON") - One(crtc[d].bypass)
           /\ pm'[d] = pm[d] + b - NoPuts[d]
  BY <1>1, <1>3, <1>4, CommitEffect DEF Inv, CrtcInv
<1>8. \A d \in Crtcs : \E b \in Int :
        /\ b = One(decon'[d] = "ON") + One(crtc'[d].bypass) - One(decon[d] = "ON") - One(crtc[d].bypass)
        /\ pm'[d] = pm[d] + b
  <2> TAKE d \in Crtcs
  <2>1. PICK b \in Int :
           /\ b = One(decon'[d] = "ON") + One(crtc'[d].bypass) - One(decon[d] = "ON") - One(crtc[d].bypass)
           /\ pm'[d] = pm[d] + b - NoPuts[d]
    BY <1>7
  <2>2. pm[d] + b - NoPuts[d] = pm[d] + b
    BY <1>5 DEF Inv, TypeOK
  <2> QED BY <2>1, <2>2
<1> QED BY <1>6, <1>7, <1>8

(* Ordinary commits, wake-ups and hibernations. *)
LEMMA BesideInv ==
  ASSUME Inv, NEW c \in Crtcs, NEW n, Good(c, n), Beside, ~tui, Commit(OneChanged(c, n), NoPuts),
         n.sr => block[c] = 0
  PROVE  Inv'
<1>1. Nobody /\ UNCHANGED <<block, tui, dpTui, locked, saved, pc, todo, taken, failed, mine>>
  BY DEF Beside, callers
<1>2. ~Taken /\ ~Taken' /\ \A t \in Threads : pc[t] \notin {"build", "commit", "exit", "exitCommit"}
  BY <1>1, NobodyCommits DEF Inv, Taken
<1>3. /\ crtc' = OneChanged(c, n) /\ crtc' \in [Crtcs -> CrtcState]
      /\ decon' \in [Crtcs -> {"ON", "HIBERNATION", "OFF"}]
      /\ pm' = [d \in Crtcs |-> pm'[d]]
      /\ \A d \in Crtcs : (Sane(d, crtc[d]) /\ decon[d] = DeconOf(crtc[d]))'
      /\ \A d \in Crtcs : \E b \in Int :
           /\ b = One(decon'[d] = "ON") + One(crtc'[d].bypass) - One(decon[d] = "ON") - One(crtc[d].bypass)
           /\ pm'[d] = pm[d] + b
  BY <1>1, OneCommit
<1>4. LocksInv'
  BY <1>1 DEF Inv, LocksInv, Holds
<1>5. CrtcInv' /\ EnterInv'
  BY <1>1, <1>2, <1>3 DEF Inv, CrtcInv, EnterInv
<1>6. BlockInv'
  BY <1>1 DEF Inv, BlockInv, Blocks
<1>7. WokenInv'
  <2>1. ASSUME NEW t \in Threads, Blocks(t, c) PROVE block[c] # 0
    <3> DEFINE P == {u \in Threads : Blocks(u, c)}
               Q == P \ {t}
    <3>1. Cardinality(P) \in Nat /\ Cardinality(Q) \in Nat /\ Cardinality(Q) = Cardinality(P) + One(t \in Q) - One(t \in P)
      BY Counted
    <3>2. t \in P /\ t \notin Q
      BY <2>1
    <3>3. block[c] = Cardinality(P)
      BY DEF Inv, BlockInv
    <3> HIDE DEF P, Q
    <3> QED BY <3>1, <3>2, <3>3 DEF One
  <2>2. \A t \in Threads, d \in Crtcs : Blocks(t, d)' = Blocks(t, d)
    BY <1>1 DEF Blocks
  <2>3. \A d \in Crtcs \ {c} : crtc'[d] = crtc[d]
    BY <1>3 DEF OneChanged, Inv, TypeOK
  <2>4. crtc'[c] = n
    BY <1>3 DEF OneChanged, Inv, TypeOK
  <2> QED BY <1>1, <2>1, <2>2, <2>3, <2>4 DEF Inv, WokenInv
<1>8. PowerInv'
  <2> SUFFICES ASSUME NEW d \in Crtcs
               PROVE  pm'[d] = (One(decon[d] = "ON") + One(crtc[d].bypass) + One(Taken /\ saved[1][d].active)
                                + Cardinality({u \in Threads : Refers(u, d)}))'
    BY DEF PowerInv
  <2>1. PICK b \in Int :
           /\ b = One(decon'[d] = "ON") + One(crtc'[d].bypass) - One(decon[d] = "ON") - One(crtc[d].bypass)
           /\ pm'[d] = pm[d] + b
    BY <1>3
  <2>2. Cardinality({u \in Threads : Refers(u, d)})' = Cardinality({u \in Threads : Refers(u, d)})
    BY <1>1 DEF Refers
  <2>3. One((Taken /\ saved[1][d].active)') = 0 /\ One(Taken /\ saved[1][d].active) = 0
    BY <1>2 DEF One
  <2>4. Cardinality({u \in Threads : Refers(u, d)}) \in Nat
    BY CountType
  <2>5. \A p : One(p) \in Nat
    BY DEF One
  <2>6. pm[d] = One(decon[d] = "ON") + One(crtc[d].bypass) + 0 + Cardinality({u \in Threads : Refers(u, d)})
    BY <2>3 DEF Inv, PowerInv
  <2>7. pm'[d] = One(decon'[d] = "ON") + One(crtc'[d].bypass) + 0 + Cardinality({u \in Threads : Refers(u, d)})
    BY <2>1, <2>4, <2>5, <2>6
  <2> QED BY <2>2, <2>3, <2>7
<1>9. BaseType'
  BY <1>1, <1>3, UsedType DEF Beside, BaseType, Inv, TypeOK
<1>10. block' = [d \in Crtcs |-> block'[d]]
  BY <1>1 DEF Inv, TypeOK
<1>11. TypeOK'
  BY <1>3, <1>6, <1>8, <1>9, <1>10, TypeFromCounts
<1> QED BY <1>4, <1>5, <1>6, <1>7, <1>8, <1>11 DEF Inv

(* A step of the caller t: what it must establish. *)
LEMMA CallerInv ==
  ASSUME Inv, NEW t \in Threads, OnlyMoves(t), BaseType', LocksInv', CrtcInv', EnterInv',
         pm' = [c \in Crtcs |-> pm'[c]], block' = [c \in Crtcs |-> block'[c]],
         \A c \in Crtcs : block'[c] = block[c] + One(Blocks(t, c)') - One(Blocks(t, c)),
         \A c \in Crtcs : \E b \in Int :
           /\ b = One(decon'[c] = "ON") + One(crtc'[c].bypass) - One(decon[c] = "ON") - One(crtc[c].bypass)
           /\ pm'[c] = pm[c] + b + One((Taken /\ saved[1][c].active)') - One(Taken /\ saved[1][c].active)
                       + One(Refers(t, c)') - One(Refers(t, c)),
         \A c \in Crtcs : (Blocks(t, c) /\ pc[t] # "unblock" /\ crtc[c].sr)' => crtc'[c].bypass,
         \A u \in Threads \ {t}, c \in Crtcs :
           Blocks(u, c) /\ pc[u] # "unblock" /\ crtc'[c].sr => crtc'[c].bypass
  PROVE  Inv'
<1>1. BlockInv'
  BY BlockCounts DEF Inv, BlockInv
<1>2. PowerInv'
  <2> SUFFICES ASSUME NEW c \in Crtcs
               PROVE  pm'[c] = (One(decon[c] = "ON") + One(crtc[c].bypass) + One(Taken /\ saved[1][c].active)
                                + Cardinality({u \in Threads : Refers(u, c)}))'
    BY DEF PowerInv
  <2>1. pm[c] \in Nat
    BY DEF Inv, TypeOK
  <2> QED BY <2>1, PowerCounts DEF Inv
<1>3. WokenInv'
  <2>1. ASSUME NEW u \in Threads \ {t}, NEW c \in Crtcs,
               (Blocks(u, c) /\ pc[u] # "unblock" /\ crtc[c].sr)'
        PROVE  crtc'[c].bypass
    BY <2>1 DEF OnlyMoves, Blocks
  <2> QED BY <2>1 DEF WokenInv
<1> QED BY <1>1, <1>2, <1>3, TypeFromCounts DEF Inv

(* A step of the caller t that leaves every CRTC alone. *)
LEMMA QuietInv ==
  ASSUME Inv, NEW t \in Threads, OnlyMoves(t), UNCHANGED <<crtc, decon>>,
         BaseType', LocksInv', CrtcInv', EnterInv',
         pm' = [c \in Crtcs |-> pm'[c]], block' = [c \in Crtcs |-> block'[c]],
         \A c \in Crtcs : block'[c] = block[c] + One(Blocks(t, c)') - One(Blocks(t, c)),
         \A c \in Crtcs :
           pm'[c] = pm[c] + One((Taken /\ saved[1][c].active)') - One(Taken /\ saved[1][c].active)
                    + One(Refers(t, c)') - One(Refers(t, c)),
         \A c \in Crtcs : (Blocks(t, c) /\ pc[t] # "unblock")' /\ crtc[c].sr => crtc[c].bypass
  PROVE  Inv'
<1>1. ASSUME NEW c \in Crtcs
      PROVE  \E b \in Int :
               /\ b = One(decon'[c] = "ON") + One(crtc'[c].bypass) - One(decon[c] = "ON") - One(crtc[c].bypass)
               /\ pm'[c] = pm[c] + b + One((Taken /\ saved[1][c].active)') - One(Taken /\ saved[1][c].active)
                           + One(Refers(t, c)') - One(Refers(t, c))
  <2>1. \A p : One(p) \in Nat
    BY DEF One
  <2>2. One(decon'[c] = "ON") + One(crtc'[c].bypass) - One(decon[c] = "ON") - One(crtc[c].bypass) = 0
    BY <2>1
  <2>3. pm[c] \in Nat
    BY DEF Inv, TypeOK
  <2> WITNESS 0 \in Int
  <2> QED BY <2>1, <2>2, <2>3
<1> QED BY <1>1, CallerInv DEF Inv, WokenInv

(* Taking dp_tui_lock. *)
LEMMA EnterInvariant == ASSUME Inv, NEW t \in Threads, Enter(t) PROVE Inv'
<1>1. /\ pc[t] = "idle" /\ pc' = [pc EXCEPT ![t] = "block"] /\ ~tui /\ dpTui = "free" /\ dpTui' = "tui"
      /\ todo' = [todo EXCEPT ![t] = Crtcs] /\ taken' = [taken EXCEPT ![t] = {}]
      /\ failed' = [failed EXCEPT ![t] = FALSE]
      /\ UNCHANGED <<crtc, decon, pm, block, tui, locked, saved, mine>>
  BY DEF Enter, Step, display
<1>2. /\ pc'[t] = "block" /\ todo'[t] = Crtcs /\ failed'[t] = FALSE
      /\ \A u \in Threads \ {t} : pc'[u] = pc[u] /\ todo'[u] = todo[u] /\ taken'[u] = taken[u] /\ failed'[u] = failed[u]
  BY <1>1 DEF Inv, TypeOK
<1>3. \A u \in Threads : ~Holds(u)
  BY <1>1 DEF Inv, LocksInv
<1>4. BaseType'
  BY <1>1, UsedType DEF Enter, BaseType, Inv, TypeOK
<1>5. LocksInv'
  BY <1>1, <1>2, <1>3 DEF Inv, LocksInv, Holds
<1>6. ~Taken /\ ~Taken'
  BY <1>1, <1>2, <1>3 DEF Taken, Holds
<1>7. CrtcInv'
  BY <1>1, <1>6 DEF Inv, CrtcInv
<1>8. EnterInv'
  BY <1>1, <1>2, <1>3 DEF Inv, EnterInv, Holds
<1>9. \A c \in Crtcs : ~Blocks(t, c) /\ ~Blocks(t, c)' /\ ~Refers(t, c) /\ ~Refers(t, c)'
  BY <1>1, <1>2 DEF Blocks, Refers
<1>10. \A c \in Crtcs : block'[c] = block[c] + One(Blocks(t, c)') - One(Blocks(t, c))
  BY <1>1, <1>9 DEF One, Inv, TypeOK
<1>11. \A c \in Crtcs :
         pm'[c] = pm[c] + One((Taken /\ saved[1][c].active)') - One(Taken /\ saved[1][c].active)
                  + One(Refers(t, c)') - One(Refers(t, c))
  BY <1>1, <1>6, <1>9 DEF One, Inv, TypeOK
<1>12. pm' = [c \in Crtcs |-> pm'[c]] /\ block' = [c \in Crtcs |-> block'[c]]
  BY <1>1 DEF Inv, TypeOK
<1> QED BY <1>1, <1>2, <1>4, <1>5, <1>7, <1>8, <1>9, <1>10, <1>11, <1>12, QuietInv DEF OnlyMoves

(* A caller that enters has the trusted UI's half of the system, and nobody  *)
(* has the display taken.                                                    *)
LEMMA EntererAlone ==
  ASSUME Inv, NEW t \in Threads, pc[t] \in {"block", "lock", "build", "commit"}
  PROVE  ~tui /\ ~Taken /\ dpTui = "tui" /\ \A u \in Threads \ {t} : ~Holds(u)
  BY DEF Inv, LocksInv, Holds, Taken

(* hibernation_block_exit for one CRTC of the loop. *)
LEMMA BlockExitInvariant == ASSUME Inv, Orderly, NEW t \in Threads, NEW c \in Crtcs, BlockExit(t, c) PROVE Inv'
<1>1. /\ pc[t] = "block" /\ c \in todo[t]
      /\ block' = [block EXCEPT ![c] = block[c] + 1]
      /\ todo' = [todo EXCEPT ![t] = todo[t] \ {c}]
      /\ pc' = IF todo'[t] = {} THEN [pc EXCEPT ![t] = "lock"] ELSE pc
      /\ UNCHANGED <<tui, dpTui, locked, saved, taken, failed, mine, used>>
  BY DEF BlockExit
<1>2. /\ pc'[t] \in {"block", "lock"} /\ todo'[t] = todo[t] \ {c} /\ (pc'[t] = "lock" <=> todo'[t] = {})
      /\ \A u \in Threads \ {t} : pc'[u] = pc[u] /\ todo'[u] = todo[u] /\ taken'[u] = taken[u] /\ failed'[u] = failed[u]
  BY <1>1 DEF Inv, TypeOK
<1>3. ~tui /\ ~Taken /\ dpTui = "tui" /\ \A u \in Threads \ {t} : ~Holds(u)
  BY <1>1, EntererAlone
<1>4. LocksInv'
  BY <1>1, <1>2, <1>3 DEF Inv, LocksInv, Holds
<1>5. ~Taken'
  BY <1>1, <1>2, <1>3 DEF Taken, Holds
<1>6. \A d \in Crtcs : ~Refers(t, d) /\ ~Refers(t, d)'
  BY <1>1, <1>2 DEF Refers
<1>7. \A d \in Crtcs : block'[d] = block[d] + One(Blocks(t, d)') - One(Blocks(t, d))
  <2>1. ~Blocks(t, c) /\ Blocks(t, c)'
    BY <1>1, <1>2 DEF Blocks
  <2>2. \A d \in Crtcs \ {c} : Blocks(t, d)' <=> Blocks(t, d)
    BY <1>1, <1>2 DEF Blocks
  <2>3. \A d \in Crtcs : block[d] \in Nat /\ block'[d] = IF d = c THEN block[c] + 1 ELSE block[d]
    BY <1>1 DEF Inv, TypeOK
  <2> QED BY <2>1, <2>2, <2>3 DEF One
<1>8. block' = [d \in Crtcs |-> block'[d]]
  BY <1>1 DEF Inv, TypeOK
<1>9. EnterInv'
  BY <1>1, <1>2, <1>3 DEF Inv, EnterInv, Holds
<1>10. OnlyMoves(t)
  BY <1>2 DEF OnlyMoves
<1>11. \A d \in Crtcs \ {c} : (Blocks(t, d) /\ pc[t] # "unblock")' => Blocks(t, d) /\ pc[t] # "unblock"
  BY <1>1, <1>2 DEF Blocks
<1>12. /\ tui' \in BOOLEAN /\ dpTui' \in {"free", "dp", "tui"} /\ locked' \in Threads \cup {None}
       /\ saved' \in Remembered /\ mine' \in [Threads -> Remembered]
       /\ pc' \in [Threads -> {"idle", "block", "lock", "build", "commit", "unblock",
                               "exit", "exitCommit", "exitEnd"}]
       /\ todo' \in [Threads -> SUBSET Crtcs] /\ taken' \in [Threads -> SUBSET Crtcs]
       /\ failed' \in [Threads -> BOOLEAN]
       /\ used' \in [commits : 0 .. MaxCommits, calls : 0 .. MaxCalls]
  BY <1>1 DEF Inv, TypeOK
<1>13. crtc[c] \in CrtcState /\ Sane(c, crtc[c]) /\ decon[c] = DeconOf(crtc[c])
  BY DEF Inv, TypeOK, CrtcInv
<1>14. CASE Wakes(c) /\ Nobody /\ Commit(Woken(c), NoPuts)
  <2> DEFINE n == [Duplicated(c) EXCEPT !.active = TRUE, !.sr = FALSE]
  <2>1. \A d \in Crtcs : Woken(c)[d] = IF d = c THEN n ELSE crtc[d]
    BY DEF Woken, OneChanged, Inv, TypeOK
  <2>2. n \in CrtcState /\ n.active /\ ~n.sr /\ n.enable = crtc[c].enable /\ n.bypass = crtc[c].bypass
    BY <1>13, DuplicatedState DEF CrtcState
  <2>3. Good(c, n)
    BY <1>13, <1>14, <2>1, <2>2 DEF Good, Sane, Wakes, Accepted
  <2>4. Woken(c) = OneChanged(c, n)
    BY DEF Woken
  <2> HIDE DEF n
  <2>5. /\ crtc' = OneChanged(c, n) /\ crtc' \in [Crtcs -> CrtcState]
        /\ decon' \in [Crtcs -> {"ON", "HIBERNATION", "OFF"}]
        /\ pm' = [d \in Crtcs |-> pm'[d]]
        /\ \A d \in Crtcs : (Sane(d, crtc[d]) /\ decon[d] = DeconOf(crtc[d]))'
        /\ \A d \in Crtcs : \E b \in Int :
             /\ b = One(decon'[d] = "ON") + One(crtc'[d].bypass) - One(decon[d] = "ON") - One(crtc[d].bypass)
             /\ pm'[d] = pm[d] + b
    BY <1>3, <1>14, <2>3, <2>4, OneCommit
  <2>6. \A d \in Crtcs \ {c} : crtc'[d] = crtc[d]
    BY <2>5 DEF OneChanged, Inv, TypeOK
  <2>7. ~crtc'[c].sr
    BY <2>2, <2>5 DEF OneChanged, Inv, TypeOK
  <2>8. CrtcInv'
    BY <1>5, <2>5 DEF CrtcInv
  <2>9. BaseType'
    BY <1>12, <2>5 DEF BaseType
  <2>10. ASSUME NEW d \in Crtcs
         PROVE  \E b \in Int :
                  /\ b = One(decon'[d] = "ON") + One(crtc'[d].bypass) - One(decon[d] = "ON") - One(crtc[d].bypass)
                  /\ pm'[d] = pm[d] + b + One((Taken /\ saved[1][d].active)') - One(Taken /\ saved[1][d].active)
                              + One(Refers(t, d)') - One(Refers(t, d))
    <3>1. PICK b \in Int :
             /\ b = One(decon'[d] = "ON") + One(crtc'[d].bypass) - One(decon[d] = "ON") - One(crtc[d].bypass)
             /\ pm'[d] = pm[d] + b
      BY <2>5
    <3>2. /\ One((Taken /\ saved[1][d].active)') = 0 /\ One(Taken /\ saved[1][d].active) = 0
          /\ One(Refers(t, d)') = 0 /\ One(Refers(t, d)) = 0
      BY <1>3, <1>5, <1>6 DEF One
    <3>3. pm[d] + b = pm[d] + b + 0 - 0 + 0 - 0
      BY DEF Inv, TypeOK
    <3> QED BY <3>1, <3>2, <3>3
  <2>11. \A d \in Crtcs : (Blocks(t, d) /\ pc[t] # "unblock" /\ crtc[d].sr)' => crtc'[d].bypass
    BY <1>11, <2>6, <2>7 DEF Inv, WokenInv
  <2>12. \A u \in Threads \ {t}, d \in Crtcs :
           Blocks(u, d) /\ pc[u] # "unblock" /\ crtc'[d].sr => crtc'[d].bypass
    BY <2>6, <2>7 DEF Inv, WokenInv
  <2> QED BY <1>4, <1>7, <1>8, <1>9, <1>10, <2>5, <2>8, <2>9, <2>10, <2>11, <2>12, CallerInv
<1>15. CASE ~Wakes(c) /\ UNCHANGED display
  <2>1. UNCHANGED <<crtc, decon, pm>>
    BY <1>15 DEF display
  <2>2. BaseType' /\ CrtcInv' /\ pm' = [d \in Crtcs |-> pm'[d]]
    BY <1>5, <1>12, <2>1 DEF BaseType, Inv, TypeOK, CrtcInv
  <2>3. crtc[c].sr => crtc[c].bypass
    <3>1. SUFFICES ASSUME crtc[c].sr PROVE crtc[c].bypass
      OBVIOUS
    <3>2. decon[c] = "HIBERNATION" /\ crtc[c].enable
      BY <1>13, <3>1 DEF Sane, DeconOf
    <3>3. PICK d \in Crtcs : Woken(c)[d].bypass /\ ~Woken(c)[d].sr
      BY <1>3, <1>15, <3>2 DEF Wakes, Accepted
    <3>4. CASE d = c
      BY <1>13, <3>3, <3>4, DuplicatedState DEF Woken, OneChanged, Inv, TypeOK, CrtcState
    <3>5. CASE d # c
      BY <3>3, <3>5 DEF Woken, OneChanged, Inv, TypeOK, CrtcInv, Sane
    <3> QED BY <3>4, <3>5
  <2>4. \A d \in Crtcs : (Blocks(t, d) /\ pc[t] # "unblock")' /\ crtc[d].sr => crtc[d].bypass
    BY <1>11, <2>3 DEF Inv, WokenInv
  <2>5. \A d \in Crtcs :
           pm'[d] = pm[d] + One((Taken /\ saved[1][d].active)') - One(Taken /\ saved[1][d].active)
                    + One(Refers(t, d)') - One(Refers(t, d))
    BY <1>3, <1>5, <1>6, <2>1 DEF One, Inv, TypeOK
  <2> QED BY <1>4, <1>7, <1>8, <1>9, <1>10, <2>1, <2>2, <2>4, <2>5, QuietInv
<1> QED BY <1>14, <1>15 DEF BlockExit, Orderly

(* DRM_MODESET_LOCK_ALL_BEGIN of the caller that enters. *)
LEMMA LockAllInvariant == ASSUME Inv, NEW t \in Threads, LockAll(t) PROVE Inv'
<1>1. /\ pc[t] = "lock" /\ pc' = [pc EXCEPT ![t] = "build"] /\ Nobody /\ locked' = t
      /\ UNCHANGED <<crtc, decon, pm, block, tui, dpTui, saved, todo, taken, failed, mine, used>>
  BY DEF LockAll, Step, display
<1>2. pc'[t] = "build" /\ \A u \in Threads \ {t} : pc'[u] = pc[u]
  BY <1>1 DEF Inv, TypeOK
<1>3. ~tui /\ ~Taken /\ dpTui = "tui" /\ \A u \in Threads \ {t} : ~Holds(u)
  BY <1>1, EntererAlone
<1>4. BaseType'
  BY <1>1 DEF BaseType, Inv, TypeOK
<1>5. LocksInv'
  BY <1>1, <1>2, <1>3 DEF Inv, LocksInv, Holds
<1>6. ~Taken'
  BY <1>1, <1>2, <1>3 DEF Taken, Holds
<1>7. CrtcInv' /\ EnterInv'
  BY <1>1, <1>2, <1>3, <1>6 DEF Inv, CrtcInv, EnterInv, Holds
<1>8. \A c \in Crtcs : Blocks(t, c) /\ Blocks(t, c)' /\ ~Refers(t, c) /\ ~Refers(t, c)'
  BY <1>1, <1>2 DEF Blocks, Refers
<1>9. \A c \in Crtcs : block'[c] = block[c] + One(Blocks(t, c)') - One(Blocks(t, c))
  BY <1>1, <1>8 DEF One, Inv, TypeOK
<1>10. \A c \in Crtcs :
         pm'[c] = pm[c] + One((Taken /\ saved[1][c].active)') - One(Taken /\ saved[1][c].active)
                  + One(Refers(t, c)') - One(Refers(t, c))
  BY <1>1, <1>3, <1>6, <1>8 DEF One, Inv, TypeOK
<1>11. pm' = [c \in Crtcs |-> pm'[c]] /\ block' = [c \in Crtcs |-> block'[c]]
  BY <1>1 DEF Inv, TypeOK
<1>12. OnlyMoves(t)
  BY <1>1, <1>2 DEF OnlyMoves
<1>13. \A c \in Crtcs : crtc[c].sr => crtc[c].bypass
  BY <1>1, <1>8 DEF Inv, WokenInv
<1> QED BY <1>1, <1>4, <1>5, <1>7, <1>9, <1>10, <1>11, <1>12, <1>13, QuietInv

(* Remembering every CRTC and taking a reference for each active one. *)
LEMMA BuildInvariant == ASSUME Inv, NEW t \in Threads, Build(t) PROVE Inv'
<1> DEFINE s == [c \in Crtcs |-> Duplicated(c)]
<1>1. /\ pc[t] = "build" /\ pc' = [pc EXCEPT ![t] = "commit"] /\ saved' = <<s>>
      /\ taken' = [taken EXCEPT ![t] = ActiveCrtcs]
      /\ pm' = [c \in Crtcs |-> pm[c] + One(c \in ActiveCrtcs)]
      /\ UNCHANGED <<crtc, decon, block, tui, dpTui, locked, todo, failed, mine, used>>
  BY DEF Build, Step, Referenced
<1>2. /\ pc'[t] = "commit" /\ taken'[t] = ActiveCrtcs
      /\ \A u \in Threads \ {t} : pc'[u] = pc[u] /\ taken'[u] = taken[u]
  BY <1>1 DEF Inv, TypeOK
<1>3. ~tui /\ ~Taken /\ dpTui = "tui" /\ \A u \in Threads \ {t} : ~Holds(u)
  BY <1>1, EntererAlone
<1>4. s \in [Crtcs -> CrtcState]
  BY DuplicatedState DEF Inv, TypeOK
<1>5. saved' \in Remembered /\ saved' # <<>>
  BY <1>1, <1>4 DEF Remembered
<1>6. ActiveCrtcs \in SUBSET Crtcs
  BY DEF ActiveCrtcs
<1>7. BaseType'
  BY <1>1, <1>5, <1>6 DEF BaseType, Inv, TypeOK
<1>8. LocksInv'
  BY <1>1, <1>2, <1>3, <1>5 DEF Inv, LocksInv, Holds
<1>9. ~Taken'
  BY <1>1, <1>2, <1>3 DEF Taken, Holds
<1>10. CrtcInv'
  BY <1>1, <1>9 DEF Inv, CrtcInv
<1>11. EnterInv'
  <2>1. ActiveCrtcs' = ActiveCrtcs /\ \A c \in Crtcs : Duplicated(c)' = Duplicated(c)
    BY <1>1 DEF ActiveCrtcs, Duplicated
  <2>2. saved' = <<[c \in Crtcs |-> Duplicated(c)]>>'
    BY <1>1, <2>1
  <2>3. ~failed'[t]
    BY <1>1 DEF Inv, EnterInv
  <2> QED BY <1>1, <1>2, <1>3, <2>1, <2>2, <2>3 DEF Inv, EnterInv, Holds
<1>12. \A c \in Crtcs : Blocks(t, c) /\ Blocks(t, c)' /\ ~Refers(t, c) /\ (Refers(t, c)' <=> c \in ActiveCrtcs)
  BY <1>1, <1>2 DEF Blocks, Refers
<1>13. \A c \in Crtcs : block'[c] = block[c] + One(Blocks(t, c)') - One(Blocks(t, c))
  BY <1>1, <1>12 DEF One, Inv, TypeOK
<1>14. \A c \in Crtcs :
         pm'[c] = pm[c] + One((Taken /\ saved[1][c].active)') - One(Taken /\ saved[1][c].active)
                  + One(Refers(t, c)') - One(Refers(t, c))
  BY <1>1, <1>3, <1>9, <1>12 DEF One, Inv, TypeOK
<1>15. pm' = [c \in Crtcs |-> pm'[c]] /\ block' = [c \in Crtcs |-> block'[c]]
  BY <1>1 DEF Inv, TypeOK
<1>16. OnlyMoves(t)
  BY <1>1, <1>2 DEF OnlyMoves
<1>17. \A c \in Crtcs : crtc[c].sr => crtc[c].bypass
  BY <1>1, <1>12 DEF Inv, WokenInv
<1> QED BY <1>1, <1>7, <1>8, <1>10, <1>11, <1>13, <1>14, <1>15, <1>16, <1>17, QuietInv

(* The error path of entering: with the references taken so far in mask.     *)
LEMMA GiveUpInvariant ==
  ASSUME Inv, NEW t \in Threads, pc[t] \in {"build", "commit"}, GiveUp(t), UNCHANGED <<crtc, decon>>,
         NEW mask \in SUBSET Crtcs, taken' = [taken EXCEPT ![t] = mask],
         pm' = [c \in Crtcs |-> pm'[c]],
         \A c \in Crtcs : pm'[c] = pm[c] + One(c \in mask) - One(Refers(t, c))
  PROVE  Inv'
<1>1. /\ failed' = [failed EXCEPT ![t] = TRUE] /\ saved' = <<>> /\ dpTui' = "free" /\ locked' = None
      /\ pc' = [pc EXCEPT ![t] = "unblock"] /\ todo' = [todo EXCEPT ![t] = Crtcs]
      /\ UNCHANGED <<block, tui, mine, used>>
  BY DEF GiveUp
<1>2. /\ pc'[t] = "unblock" /\ taken'[t] = mask /\ failed'[t] = TRUE /\ todo'[t] = Crtcs
      /\ \A u \in Threads \ {t} : pc'[u] = pc[u] /\ todo'[u] = todo[u] /\ taken'[u] = taken[u] /\ failed'[u] = failed[u]
  BY <1>1 DEF Inv, TypeOK
<1>3. ~tui /\ ~Taken /\ dpTui = "tui" /\ \A u \in Threads \ {t} : ~Holds(u)
  BY EntererAlone
<1>4. BaseType'
  BY <1>1 DEF BaseType, Inv, TypeOK, Remembered
<1>5. LocksInv'
  BY <1>1, <1>2, <1>3, TuiThreadsAssumption DEF Inv, LocksInv, Holds
<1>6. ~Taken'
  BY <1>1, <1>2, <1>3 DEF Taken, Holds
<1>7. CrtcInv' /\ EnterInv'
  BY <1>1, <1>2, <1>3, <1>6 DEF Inv, CrtcInv, EnterInv, Holds
<1>8. \A c \in Crtcs : Blocks(t, c) /\ Blocks(t, c)' /\ (Refers(t, c)' <=> c \in mask)
  BY <1>1, <1>2 DEF Blocks, Refers
<1>9. \A c \in Crtcs : block'[c] = block[c] + One(Blocks(t, c)') - One(Blocks(t, c))
  BY <1>1, <1>8 DEF One, Inv, TypeOK
<1>10. \A c \in Crtcs :
         pm'[c] = pm[c] + One((Taken /\ saved[1][c].active)') - One(Taken /\ saved[1][c].active)
                  + One(Refers(t, c)') - One(Refers(t, c))
  BY <1>3, <1>6, <1>8 DEF One, Inv, TypeOK
<1>11. block' = [c \in Crtcs |-> block'[c]]
  BY <1>1 DEF Inv, TypeOK
<1>12. OnlyMoves(t)
  BY <1>1, <1>2 DEF OnlyMoves
<1> QED BY <1>2, <1>4, <1>5, <1>7, <1>9, <1>10, <1>11, <1>12, QuietInv

(* Memory runs out, or nothing is active. *)
LEMMA BuildFailsInvariant == ASSUME Inv, NEW t \in Threads, BuildFails(t) PROVE Inv'
<1>1. PICK mask \in SUBSET ActiveCrtcs : Referenced(t, mask)
  BY DEF BuildFails
<1>2. pc[t] = "build" /\ GiveUp(t) /\ mask \in SUBSET Crtcs
  BY DEF BuildFails, ActiveCrtcs
<1>3. \A c \in Crtcs : pm'[c] = pm[c] + One(c \in mask) - One(Refers(t, c))
  BY <1>1, <1>2 DEF Referenced, Refers, One, Inv, TypeOK
<1> QED BY <1>1, <1>2, <1>3, GiveUpInvariant DEF Referenced

(* The commit of the bypass states fails. *)
LEMMA CommitOffFailsInvariant == ASSUME Inv, NEW t \in Threads, CommitOffFails(t) PROVE Inv'
<1>1. pc[t] = "commit" /\ GiveUp(t) /\ UNCHANGED <<crtc, decon, pm, taken>>
  BY DEF CommitOffFails, display
<1>2. taken[t] \in SUBSET Crtcs /\ taken' = [taken EXCEPT ![t] = taken[t]] /\ pm' = [c \in Crtcs |-> pm'[c]]
  BY <1>1 DEF Inv, TypeOK
<1>3. \A c \in Crtcs : pm'[c] = pm[c] + One(c \in taken[t]) - One(Refers(t, c))
  BY <1>1 DEF Refers, One, Inv, TypeOK
<1> QED BY <1>1, <1>2, <1>3, GiveUpInvariant

(* Committing every active CRTC off or into bypass. *)
LEMMA CommitOffInvariant == ASSUME Inv, NEW t \in Threads, CommitOff(t) PROVE Inv'
<1> DEFINE new == Bypassed(t)
<1>1. /\ pc[t] = "commit" /\ pc' = [pc EXCEPT ![t] = "unblock"] /\ Commit(new, NoPuts)
      /\ tui' = TRUE /\ locked' = None /\ todo' = [todo EXCEPT ![t] = Crtcs]
      /\ UNCHANGED <<block, dpTui, saved, taken, failed, mine, used>>
  BY DEF CommitOff, Step
<1>2. /\ pc'[t] = "unblock" /\ todo'[t] = Crtcs /\ ~failed[t]
      /\ \A u \in Threads \ {t} : pc'[u] = pc[u] /\ todo'[u] = todo[u]
  BY <1>1 DEF Inv, TypeOK, EnterInv
<1>3. ~tui /\ ~Taken /\ dpTui = "tui" /\ \A u \in Threads \ {t} : ~Holds(u)
  BY <1>1, EntererAlone
<1>4. taken[t] = ActiveCrtcs /\ \A c \in Crtcs : saved[1][c] = Duplicated(c)
  BY <1>1 DEF Inv, EnterInv
<1>5. saved # <<>>
  BY <1>1 DEF Inv, EnterInv
<1>6. ASSUME NEW c \in Crtcs
      PROVE  /\ new[c] \in CrtcState /\ Good(c, new[c])
             /\ Duplicated(c).active => Duplicated(c).enable
             /\ ~Duplicated(c).sr
             /\ IF Duplicated(c).active
                THEN new[c] = [enable |-> Duplicated(c).enable, active |-> FALSE, sr |-> c \in Aware, bypass |-> c \in Aware]
                ELSE new[c] = Duplicated(c)
             /\ c \in ActiveCrtcs <=> Duplicated(c).active
  <2> DEFINE d == Duplicated(c)
             a == c \in Aware
             n == [enable |-> d.enable, active |-> FALSE, sr |-> a, bypass |-> a]
  <2>1. crtc[c] \in CrtcState /\ Sane(c, crtc[c])
    BY DEF Inv, TypeOK, CrtcInv
  <2>2. /\ d \in CrtcState /\ d.enable = crtc[c].enable /\ d.bypass = crtc[c].bypass
        /\ d.active = (crtc[c].active \/ crtc[c].sr) /\ ~d.sr
    BY <2>1, DuplicatedState
  <2>3. d.active => d.enable
    BY <2>1, <2>2 DEF Sane
  <2>4. c \in ActiveCrtcs <=> d.active
    BY <2>3 DEF ActiveCrtcs
  <2>5. crtc[c].sr => crtc[c].bypass
    BY <1>1 DEF Inv, WokenInv, Blocks
  <2>6. CASE d.active
    <3>1. new[c] = [d EXCEPT !.active = FALSE, !.sr = a, !.bypass = a]
      BY <1>4, <2>4, <2>6 DEF Bypassed
    <3> HIDE DEF d
    <3>2. new[c] = n
      BY <2>2, <3>1 DEF CrtcState
    <3>3. n \in CrtcState
      BY <2>2 DEF CrtcState
    <3>4. Good(c, n)
      BY <2>1, <2>2, <2>3, <2>5, <2>6, <3>3 DEF Good, Sane
    <3> QED BY <2>2, <2>3, <2>4, <2>6, <3>2, <3>3, <3>4 DEF d
  <2>7. CASE ~d.active
    <3>1. new[c] = d
      BY <1>4, <2>4, <2>7 DEF Bypassed
    <3> HIDE DEF d
    <3>2. crtc[c].active = FALSE /\ crtc[c].sr = FALSE
      BY <2>1, <2>2, <2>7 DEF CrtcState
    <3>3. Good(c, d)
      BY <2>1, <2>2, <2>7, <3>2 DEF Good, Sane
    <3> QED BY <2>2, <2>3, <2>4, <2>7, <3>1, <3>3 DEF d
  <2> QED BY <2>6, <2>7
<1>7. new \in [Crtcs -> CrtcState]
  BY <1>6 DEF Bypassed
<1> HIDE DEF new
<1>8. /\ crtc' \in [Crtcs -> CrtcState] /\ decon' \in [Crtcs -> {"ON", "HIBERNATION", "OFF"}]
      /\ pm' = [c \in Crtcs |-> pm'[c]]
      /\ \A c \in Crtcs : (Sane(c, crtc[c]) /\ decon[c] = DeconOf(crtc[c]))'
      /\ \A c \in Crtcs : \E b \in Int :
           /\ b = One(decon'[c] = "ON") + One(crtc'[c].bypass) - One(decon[c] = "ON") - One(crtc[c].bypass)
           /\ pm'[c] = pm[c] + b - NoPuts[c]
  BY <1>1, <1>6, <1>7, CommitEffect DEF Inv, CrtcInv
<1>9. crtc' = new
  BY <1>1 DEF Commit
<1>10. Taken'
  BY <1>1 DEF Taken
<1>11. CrtcInv'
  <2>1. \A c \in Crtcs : TakenFrom(c, saved[1][c])'
    BY <1>1, <1>4, <1>6, <1>9 DEF TakenFrom
  <2> QED BY <1>8, <2>1 DEF CrtcInv
<1>12. LocksInv'
  BY <1>1, <1>2, <1>3, <1>5, TuiThreadsAssumption DEF Inv, LocksInv, Holds
<1>13. EnterInv'
  BY <1>1, <1>2, <1>3 DEF Inv, EnterInv, Holds
<1>14. BaseType'
  BY <1>1, <1>8 DEF BaseType, Inv, TypeOK
<1>15. \A c \in Crtcs : Blocks(t, c) /\ Blocks(t, c)' /\ (Refers(t, c) <=> Duplicated(c).active) /\ ~Refers(t, c)'
  BY <1>1, <1>2, <1>4, <1>6 DEF Blocks, Refers
<1>16. \A c \in Crtcs : block'[c] = block[c] + One(Blocks(t, c)') - One(Blocks(t, c))
  BY <1>1, <1>15 DEF One, Inv, TypeOK
<1>17. block' = [c \in Crtcs |-> block'[c]]
  BY <1>1 DEF Inv, TypeOK
<1>18. OnlyMoves(t)
  BY <1>1, <1>2 DEF OnlyMoves
<1>19. ASSUME NEW c \in Crtcs
       PROVE  \E b \in Int :
                /\ b = One(decon'[c] = "ON") + One(crtc'[c].bypass) - One(decon[c] = "ON") - One(crtc[c].bypass)
                /\ pm'[c] = pm[c] + b + One((Taken /\ saved[1][c].active)') - One(Taken /\ saved[1][c].active)
                            + One(Refers(t, c)') - One(Refers(t, c))
  <2>1. PICK b \in Int :
           /\ b = One(decon'[c] = "ON") + One(crtc'[c].bypass) - One(decon[c] = "ON") - One(crtc[c].bypass)
           /\ pm'[c] = pm[c] + b - NoPuts[c]
    BY <1>8
  <2>2. /\ One((Taken /\ saved[1][c].active)') = One(Refers(t, c))
        /\ One(Taken /\ saved[1][c].active) = 0 /\ One(Refers(t, c)') = 0 /\ NoPuts[c] = 0
    BY <1>1, <1>3, <1>4, <1>10, <1>15 DEF One, NoPuts
  <2>3. One(Refers(t, c)) \in Int
    BY DEF One
  <2>4. pm[c] + b - 0 = pm[c] + b + One(Refers(t, c)) - 0 + 0 - One(Refers(t, c))
    BY <2>3 DEF Inv, TypeOK
  <2> QED BY <2>1, <2>2, <2>4
<1>20. \A u \in Threads \ {t}, c \in Crtcs : ~Blocks(u, c) \/ pc[u] = "unblock"
  BY <1>3 DEF Blocks, Holds, Inv, TypeOK
<1> QED BY <1>2, <1>8, <1>11, <1>12, <1>13, <1>14, <1>16, <1>17, <1>18, <1>19, <1>20, CallerInv

(* The last loop: let hibernation in again, and put what was taken when the  *)
(* call failed.                                                              *)
LEMMA UnblockInvariant == ASSUME Inv, NEW t \in Threads, NEW c \in Crtcs, Unblock(t, c) PROVE Inv'
<1>1. /\ pc[t] = "unblock" /\ c \in todo[t]
      /\ block' = [block EXCEPT ![c] = block[c] - 1]
      /\ pm' = [pm EXCEPT ![c] = pm[c] - One(failed[t] /\ c \in taken[t])]
      /\ todo' = [todo EXCEPT ![t] = todo[t] \ {c}]
      /\ pc' = IF todo'[t] = {} THEN [pc EXCEPT ![t] = "idle"] ELSE pc
      /\ UNCHANGED <<crtc, decon, tui, dpTui, locked, saved, taken, failed, mine, used>>
  BY DEF Unblock
<1>2. /\ pc'[t] \in {"unblock", "idle"} /\ todo'[t] = todo[t] \ {c} /\ (pc'[t] = "idle" <=> todo'[t] = {})
      /\ \A u \in Threads \ {t} : pc'[u] = pc[u] /\ todo'[u] = todo[u]
  BY <1>1 DEF Inv, TypeOK
<1>3. BaseType'
  BY <1>1 DEF BaseType, Inv, TypeOK
<1>4. \A u \in Threads : (Holds(u)' <=> Holds(u)) /\ (Holds(u) => pc'[u] = pc[u])
  BY <1>1, <1>2 DEF Holds
<1>5. LocksInv'
  <2>1. \A u \in Threads : pc'[u] = pc[u] \/ (pc[u] = "unblock" /\ pc'[u] \in {"unblock", "idle"})
    BY <1>1, <1>2
  <2>2. \A u \in Threads : pc'[u] \in {"build", "commit", "exitCommit"} <=> pc[u] \in {"build", "commit", "exitCommit"}
    BY <2>1
  <2>3. \A u \in Threads : pc'[u] \in {"exit", "exitCommit"} <=> pc[u] \in {"exit", "exitCommit"}
    BY <2>1
  <2> QED BY <1>1, <1>4, <2>2, <2>3 DEF Inv, LocksInv
<1>6. Taken' <=> Taken
  BY <1>1, <1>2 DEF Taken
<1>7. CrtcInv'
  BY <1>1, <1>6 DEF Inv, CrtcInv, TakenFrom
<1>8. EnterInv'
  <2>1. ActiveCrtcs' = ActiveCrtcs /\ \A d \in Crtcs : Duplicated(d)' = Duplicated(d)
    BY <1>1 DEF ActiveCrtcs, Duplicated
  <2>2. [d \in Crtcs |-> Duplicated(d)]' = [d \in Crtcs |-> Duplicated(d)]
    BY <2>1
  <2> QED BY <1>1, <1>2, <2>1, <2>2 DEF Inv, EnterInv
<1>9. \A d \in Crtcs \ {c} : (Blocks(t, d)' <=> Blocks(t, d)) /\ (Refers(t, d)' <=> Refers(t, d))
  BY <1>1, <1>2 DEF Blocks, Refers
<1>10. Blocks(t, c) /\ ~Blocks(t, c)' /\ ~Refers(t, c)' /\ (Refers(t, c) <=> failed[t] /\ c \in taken[t])
  BY <1>1, <1>2 DEF Blocks, Refers
<1>11. ASSUME NEW d \in Crtcs
       PROVE  /\ block'[d] = block[d] + One(Blocks(t, d)') - One(Blocks(t, d))
              /\ pm'[d] = pm[d] + One((Taken /\ saved[1][d].active)') - One(Taken /\ saved[1][d].active)
                          + One(Refers(t, d)') - One(Refers(t, d))
  <2>1. block[d] \in Nat /\ pm[d] \in Nat /\ \A p : One(p) \in Nat
    BY DEF Inv, TypeOK, One
  <2>2. One((Taken /\ saved[1][d].active)') = One(Taken /\ saved[1][d].active)
    BY <1>1, <1>6 DEF One
  <2>3. CASE d = c
    <3>1. block'[d] = block[d] - 1 /\ pm'[d] = pm[d] - One(failed[t] /\ c \in taken[t])
      BY <1>1, <2>3 DEF Inv, TypeOK
    <3>2. /\ One(Blocks(t, d)') = 0 /\ One(Blocks(t, d)) = 1 /\ One(Refers(t, d)') = 0
          /\ One(Refers(t, d)) = One(failed[t] /\ c \in taken[t])
      BY <1>10, <2>3 DEF One
    <3> QED BY <2>1, <2>2, <3>1, <3>2
  <2>4. CASE d # c
    <3>1. block'[d] = block[d] /\ pm'[d] = pm[d]
      BY <1>1, <2>4 DEF Inv, TypeOK
    <3>2. One(Blocks(t, d)') = One(Blocks(t, d)) /\ One(Refers(t, d)') = One(Refers(t, d))
      BY <1>9, <2>4 DEF One
    <3> QED BY <2>1, <2>2, <3>1, <3>2
  <2> QED BY <2>3, <2>4
<1>12. pm' = [d \in Crtcs |-> pm'[d]] /\ block' = [d \in Crtcs |-> block'[d]]
  BY <1>1 DEF Inv, TypeOK
<1>13. OnlyMoves(t)
  BY <1>1, <1>2 DEF OnlyMoves
<1>14. \A d \in Crtcs : ~(Blocks(t, d) /\ pc[t] # "unblock")'
  BY <1>1, <1>2 DEF Blocks
<1> QED BY <1>1, <1>3, <1>5, <1>7, <1>8, <1>11, <1>12, <1>13, <1>14, QuietInv

(* A caller that leaves is the only one, when callers leave one by one.      *)
LEMMA ExitInvariant == ASSUME Inv, Orderly, NEW t \in Threads, Exit(t) PROVE Inv'
<1>1. /\ pc[t] = "idle" /\ pc' = [pc EXCEPT ![t] = "exit"] /\ tui /\ saved # <<>>
      /\ mine' = [mine EXCEPT ![t] = saved] /\ Leaving = {}
      /\ UNCHANGED <<crtc, decon, pm, block, tui, dpTui, locked, saved, todo, taken, failed>>
  BY DEF Exit, Step, display, Orderly
<1>2. /\ pc'[t] = "exit" /\ mine'[t] = saved
      /\ \A u \in Threads \ {t} : pc'[u] = pc[u] /\ mine'[u] = mine[u]
  BY <1>1 DEF Inv, TypeOK
<1>3. \A u \in Threads : ~Holds(u)
  BY <1>1 DEF Inv, LocksInv, Leaving
<1>4. BaseType'
  BY <1>1, UsedType DEF Exit, BaseType, Inv, TypeOK
<1>5. LocksInv'
  BY <1>1, <1>2, <1>3 DEF Inv, LocksInv, Holds
<1>6. Taken /\ Taken'
  BY <1>1 DEF Taken
<1>7. CrtcInv'
  BY <1>1, <1>6 DEF Inv, CrtcInv, TakenFrom
<1>8. EnterInv'
  BY <1>1, <1>2, <1>3 DEF Inv, EnterInv, Holds
<1>9. \A c \in Crtcs : ~Blocks(t, c) /\ ~Blocks(t, c)' /\ ~Refers(t, c) /\ ~Refers(t, c)'
  BY <1>1, <1>2 DEF Blocks, Refers
<1>10. \A c \in Crtcs : block'[c] = block[c] + One(Blocks(t, c)') - One(Blocks(t, c))
  BY <1>1, <1>9 DEF One, Inv, TypeOK
<1>11. \A c \in Crtcs :
         pm'[c] = pm[c] + One((Taken /\ saved[1][c].active)') - One(Taken /\ saved[1][c].active)
                  + One(Refers(t, c)') - One(Refers(t, c))
  BY <1>1, <1>6, <1>9 DEF One, Inv, TypeOK
<1>12. pm' = [c \in Crtcs |-> pm'[c]] /\ block' = [c \in Crtcs |-> block'[c]]
  BY <1>1 DEF Inv, TypeOK
<1>13. OnlyMoves(t)
  BY <1>1, <1>2 DEF OnlyMoves
<1> QED BY <1>1, <1>4, <1>5, <1>7, <1>8, <1>9, <1>10, <1>11, <1>12, <1>13, QuietInv

(* tui_enabled is cleared under the modeset locks; the display stays taken.  *)
LEMMA ExitLocksInvariant == ASSUME Inv, NEW t \in Threads, ExitLocks(t) PROVE Inv'
<1>1. /\ pc[t] = "exit" /\ pc' = [pc EXCEPT ![t] = "exitCommit"] /\ Nobody /\ locked' = t /\ tui' = FALSE
      /\ UNCHANGED <<crtc, decon, pm, block, dpTui, saved, todo, taken, failed, mine, used>>
  BY DEF ExitLocks, Step, display
<1>2. pc'[t] = "exitCommit" /\ \A u \in Threads \ {t} : pc'[u] = pc[u]
  BY <1>1 DEF Inv, TypeOK
<1>3. tui /\ dpTui = "tui" /\ \A u \in Threads \ {t} : ~Holds(u)
  BY <1>1 DEF Inv, LocksInv, Holds
<1>4. BaseType'
  BY <1>1 DEF BaseType, Inv, TypeOK
<1>5. LocksInv'
  BY <1>1, <1>2, <1>3 DEF Inv, LocksInv, Holds
<1>6. Taken /\ Taken'
  BY <1>2, <1>3 DEF Taken
<1>7. CrtcInv'
  BY <1>1, <1>6 DEF Inv, CrtcInv, TakenFrom
<1>8. EnterInv'
  BY <1>1, <1>2, <1>3 DEF Inv, EnterInv, Holds
<1>9. \A c \in Crtcs : ~Blocks(t, c) /\ ~Blocks(t, c)' /\ ~Refers(t, c) /\ ~Refers(t, c)'
  BY <1>1, <1>2 DEF Blocks, Refers
<1>10. \A c \in Crtcs : block'[c] = block[c] + One(Blocks(t, c)') - One(Blocks(t, c))
  BY <1>1, <1>9 DEF One, Inv, TypeOK
<1>11. \A c \in Crtcs :
         pm'[c] = pm[c] + One((Taken /\ saved[1][c].active)') - One(Taken /\ saved[1][c].active)
                  + One(Refers(t, c)') - One(Refers(t, c))
  BY <1>1, <1>6, <1>9 DEF One, Inv, TypeOK
<1>12. pm' = [c \in Crtcs |-> pm'[c]] /\ block' = [c \in Crtcs |-> block'[c]]
  BY <1>1 DEF Inv, TypeOK
<1>13. OnlyMoves(t)
  BY <1>1, <1>2 DEF OnlyMoves
<1> QED BY <1>1, <1>4, <1>5, <1>7, <1>8, <1>9, <1>10, <1>11, <1>12, <1>13, QuietInv

(* What the commit of the remembered state is, when it is accepted.          *)
LEMMA RestoreGood ==
  ASSUME Inv, NEW t \in Threads, pc[t] = "exitCommit", Accepted(mine[t][1])
  PROVE  mine[t][1] \in [Crtcs -> CrtcState] /\ \A c \in Crtcs : Good(c, mine[t][1][c])
<1>1. Taken /\ mine[t] = saved /\ saved # <<>>
  BY DEF Taken, Inv, LocksInv
<1>2. mine[t][1] = saved[1] /\ saved[1] \in [Crtcs -> CrtcState]
  BY <1>1, RememberedState DEF Inv, TypeOK
<1>3. ASSUME NEW c \in Crtcs PROVE Good(c, saved[1][c])
  <2>1. TakenFrom(c, saved[1][c]) /\ Sane(c, crtc[c]) /\ (saved[1][c].bypass => saved[1][c].sr)
    BY <1>1, <1>2 DEF Inv, CrtcInv, Accepted
  <2>2. saved[1][c] \in CrtcState
    BY <1>2
  <2> QED BY <2>1, <2>2 DEF Good, TakenFrom, Sane
<1> QED BY <1>2, <1>3

(* Putting the remembered state back, or failing to.                         *)
LEMMA ExitCommitsInvariant == ASSUME Inv, NEW t \in Threads, ExitCommits(t) PROVE Inv'
<1>1. /\ pc[t] = "exitCommit" /\ pc' = [pc EXCEPT ![t] = "exitEnd"] /\ Restore(t) /\ locked' = None
      /\ UNCHANGED <<block, tui, dpTui, todo, taken, failed, mine, used>>
  BY DEF ExitCommits, Step
<1>2. pc'[t] = "exitEnd" /\ \A u \in Threads \ {t} : pc'[u] = pc[u]
  BY <1>1 DEF Inv, TypeOK
<1>3. ~tui /\ dpTui = "tui" /\ (\A u \in Threads \ {t} : ~Holds(u)) /\ mine[t] = saved /\ saved # <<>>
  BY <1>1 DEF Inv, LocksInv, Holds
<1>4. saved' = <<>> \/ saved' = saved
  BY <1>1 DEF Restore, CommitAndPut, PutOnly
<1>5. LocksInv'
  BY <1>1, <1>2, <1>3, TuiThreadsAssumption DEF Inv, LocksInv, Holds
<1>6. Taken /\ ~Taken'
  BY <1>1, <1>2, <1>3 DEF Taken, Holds
<1>7. EnterInv'
  BY <1>1, <1>2, <1>3 DEF Inv, EnterInv, Holds
<1>8. \A c \in Crtcs : ~Blocks(t, c) /\ ~Blocks(t, c)' /\ ~Refers(t, c) /\ ~Refers(t, c)'
  BY <1>1, <1>2 DEF Blocks, Refers
<1>9. \A c \in Crtcs : block'[c] = block[c] + One(Blocks(t, c)') - One(Blocks(t, c))
  BY <1>1, <1>8 DEF One, Inv, TypeOK
<1>10. block' = [c \in Crtcs |-> block'[c]]
  BY <1>1 DEF Inv, TypeOK
<1>11. OnlyMoves(t)
  BY <1>1, <1>2 DEF OnlyMoves
<1>12. \A c \in Crtcs : /\ Puts(t)[c] = One(Taken /\ saved[1][c].active) /\ Puts(t)[c] \in Int
                        /\ One((Taken /\ saved[1][c].active)') = 0 /\ One(Refers(t, c)') = 0 /\ One(Refers(t, c)) = 0
  BY <1>3, <1>6, <1>8 DEF Puts, One
<1>13. /\ tui' \in BOOLEAN /\ dpTui' \in {"free", "dp", "tui"} /\ locked' \in Threads \cup {None}
       /\ saved' \in Remembered /\ mine' \in [Threads -> Remembered]
       /\ pc' \in [Threads -> {"idle", "block", "lock", "build", "commit", "unblock",
                               "exit", "exitCommit", "exitEnd"}]
       /\ todo' \in [Threads -> SUBSET Crtcs] /\ taken' \in [Threads -> SUBSET Crtcs]
       /\ failed' \in [Threads -> BOOLEAN]
       /\ used' \in [commits : 0 .. MaxCommits, calls : 0 .. MaxCalls]
  BY <1>1, <1>4 DEF Inv, TypeOK, Remembered
<1>14. CASE Accepted(mine[t][1]) /\ CommitAndPut(t, mine[t][1])
  <2> DEFINE new == mine[t][1]
  <2>1. new \in [Crtcs -> CrtcState] /\ \A c \in Crtcs : Good(c, new[c])
    BY <1>1, <1>14, RestoreGood
  <2>2. Commit(new, Puts(t))
    BY <1>14 DEF CommitAndPut
  <2> HIDE DEF new
  <2>3. /\ crtc' \in [Crtcs -> CrtcState] /\ decon' \in [Crtcs -> {"ON", "HIBERNATION", "OFF"}]
        /\ pm' = [c \in Crtcs |-> pm'[c]]
        /\ \A c \in Crtcs : (Sane(c, crtc[c]) /\ decon[c] = DeconOf(crtc[c]))'
        /\ \A c \in Crtcs : \E b \in Int :
             /\ b = One(decon'[c] = "ON") + One(crtc'[c].bypass) - One(decon[c] = "ON") - One(crtc[c].bypass)
             /\ pm'[c] = pm[c] + b - Puts(t)[c]
    BY <2>1, <2>2, CommitEffect DEF Inv, CrtcInv
  <2>4. ASSUME NEW c \in Crtcs
        PROVE  \E b \in Int :
                 /\ b = One(decon'[c] = "ON") + One(crtc'[c].bypass) - One(decon[c] = "ON") - One(crtc[c].bypass)
                 /\ pm'[c] = pm[c] + b + One((Taken /\ saved[1][c].active)') - One(Taken /\ saved[1][c].active)
                             + One(Refers(t, c)') - One(Refers(t, c))
    <3>1. PICK b \in Int :
             /\ b = One(decon'[c] = "ON") + One(crtc'[c].bypass) - One(decon[c] = "ON") - One(crtc[c].bypass)
             /\ pm'[c] = pm[c] + b - Puts(t)[c]
      BY <2>3
    <3>2. \A p \in Int : pm[c] + b - p = pm[c] + b + 0 - p + 0 - 0
      BY DEF Inv, TypeOK
    <3>3. pm'[c] = pm[c] + b + One((Taken /\ saved[1][c].active)') - One(Taken /\ saved[1][c].active)
                   + One(Refers(t, c)') - One(Refers(t, c))
      <4>1. /\ Puts(t)[c] \in Int /\ Puts(t)[c] = One(Taken /\ saved[1][c].active)
            /\ One((Taken /\ saved[1][c].active)') = 0 /\ One(Refers(t, c)') = 0 /\ One(Refers(t, c)) = 0
        BY <1>12
      <4>2. pm'[c] = pm[c] + b + 0 - Puts(t)[c] + 0 - 0
        BY <3>1, <3>2, <4>1
      <4> QED BY <4>1, <4>2
    <3> QED BY <3>1, <3>3
  <2>5. CrtcInv' /\ BaseType'
    BY <1>6, <1>13, <2>3 DEF CrtcInv, BaseType
  <2>6. \A c \in Crtcs : ~Blocks(t, c)' /\ \A u \in Threads \ {t} : ~Blocks(u, c) \/ pc[u] = "unblock"
    BY <1>3, <1>8 DEF Blocks, Holds, Inv, TypeOK
  <2> QED BY <1>5, <1>7, <1>9, <1>10, <1>11, <2>3, <2>4, <2>5, <2>6, CallerInv
<1>15. CASE PutOnly(t)
  <2>1. pm' = [c \in Crtcs |-> pm[c] - Puts(t)[c]] /\ UNCHANGED <<crtc, decon>>
    BY <1>15 DEF PutOnly
  <2>2. CrtcInv' /\ BaseType'
    BY <1>6, <1>13, <2>1 DEF CrtcInv, BaseType, Inv, TypeOK
  <2>3. ASSUME NEW c \in Crtcs
        PROVE  pm'[c] = pm[c] + One((Taken /\ saved[1][c].active)') - One(Taken /\ saved[1][c].active)
                        + One(Refers(t, c)') - One(Refers(t, c))
    <3>1. \A p \in Int : pm[c] - p = pm[c] + 0 - p + 0 - 0
      BY DEF Inv, TypeOK
    <3> QED BY <1>12, <2>1, <3>1
  <2>4. pm' = [c \in Crtcs |-> pm'[c]]
    BY <2>1
  <2> QED BY <1>5, <1>7, <1>8, <1>9, <1>10, <1>11, <2>1, <2>2, <2>3, <2>4, QuietInv
<1> QED BY <1>1, <1>14, <1>15 DEF Restore

(* Letting go of dp_tui_lock. *)
LEMMA ExitEndsInvariant == ASSUME Inv, NEW t \in Threads, ExitEnds(t) PROVE Inv'
<1>1. /\ pc[t] = "exitEnd" /\ pc' = [pc EXCEPT ![t] = "idle"] /\ dpTui' = "free"
      /\ mine' = [mine EXCEPT ![t] = <<>>]
      /\ UNCHANGED <<crtc, decon, pm, block, tui, locked, saved, todo, taken, failed, used>>
  BY DEF ExitEnds, Step, display
<1>2. /\ pc'[t] = "idle" /\ \A u \in Threads \ {t} : pc'[u] = pc[u] /\ mine'[u] = mine[u]
  BY <1>1 DEF Inv, TypeOK
<1>3. ~tui /\ \A u \in Threads \ {t} : ~Holds(u)
  BY <1>1 DEF Inv, LocksInv, Holds
<1>4. BaseType'
  BY <1>1 DEF BaseType, Inv, TypeOK, Remembered
<1>5. LocksInv'
  BY <1>1, <1>2, <1>3 DEF Inv, LocksInv, Holds
<1>6. ~Taken /\ ~Taken'
  BY <1>1, <1>2, <1>3 DEF Taken, Holds
<1>7. CrtcInv'
  BY <1>1, <1>6 DEF Inv, CrtcInv
<1>8. EnterInv'
  BY <1>1, <1>2, <1>3 DEF Inv, EnterInv, Holds
<1>9. \A c \in Crtcs : ~Blocks(t, c) /\ ~Blocks(t, c)' /\ ~Refers(t, c) /\ ~Refers(t, c)'
  BY <1>1, <1>2 DEF Blocks, Refers
<1>10. \A c \in Crtcs : block'[c] = block[c] + One(Blocks(t, c)') - One(Blocks(t, c))
  BY <1>1, <1>9 DEF One, Inv, TypeOK
<1>11. \A c \in Crtcs :
         pm'[c] = pm[c] + One((Taken /\ saved[1][c].active)') - One(Taken /\ saved[1][c].active)
                  + One(Refers(t, c)') - One(Refers(t, c))
  BY <1>1, <1>6, <1>9 DEF One, Inv, TypeOK
<1>12. pm' = [c \in Crtcs |-> pm'[c]] /\ block' = [c \in Crtcs |-> block'[c]]
  BY <1>1 DEF Inv, TypeOK
<1>13. OnlyMoves(t)
  BY <1>1, <1>2 DEF OnlyMoves
<1> QED BY <1>1, <1>4, <1>5, <1>7, <1>8, <1>9, <1>10, <1>11, <1>12, <1>13, QuietInv

(* User space switches a CRTC on or off.                                     *)
LEMMA UserCommitInvariant ==
  ASSUME Inv, NEW c \in Crtcs, NEW on \in BOOLEAN, UserCommit(c, on) PROVE Inv'
<1> DEFINE n == [Duplicated(c) EXCEPT !.enable = on, !.active = on]
<1>1. /\ Beside /\ Accepted(OneChanged(c, n)) /\ Commit(OneChanged(c, n), NoPuts)
  BY DEF UserCommit
<1>2. crtc[c] \in CrtcState /\ Sane(c, crtc[c])
  BY DEF Inv, TypeOK, CrtcInv
<1>3. n \in CrtcState /\ n.active = on /\ n.enable = on /\ ~n.sr /\ n.bypass = crtc[c].bypass
  BY <1>2, DuplicatedState DEF CrtcState
<1> HIDE DEF n
<1>4. ~tui /\ ~n.bypass
  <2>1. OneChanged(c, n)[c] = n
    BY DEF OneChanged, Inv, TypeOK
  <2> QED BY <1>1, <1>3, <2>1 DEF Accepted
<1>5. Good(c, n)
  BY <1>2, <1>3, <1>4 DEF Good, Sane
<1> QED BY <1>1, <1>3, <1>4, <1>5, BesideInv

(* An idle CRTC enters self refresh: nobody has blocked it.                 *)
LEMMA HibernateInvariant == ASSUME Inv, NEW c \in Crtcs, Hibernate(c) PROVE Inv'
<1> DEFINE n == [Duplicated(c) EXCEPT !.active = FALSE, !.sr = TRUE]
<1>1. /\ Beside /\ Accepted(OneChanged(c, n)) /\ Commit(OneChanged(c, n), NoPuts)
      /\ c \in Aware /\ block[c] = 0 /\ crtc[c].active
  BY DEF Hibernate
<1>2. crtc[c] \in CrtcState /\ Sane(c, crtc[c])
  BY DEF Inv, TypeOK, CrtcInv
<1>3. n \in CrtcState /\ ~n.active /\ n.enable = crtc[c].enable /\ n.sr /\ n.bypass = crtc[c].bypass
  BY <1>2, DuplicatedState DEF CrtcState
<1> HIDE DEF n
<1>4. Good(c, n)
  BY <1>1, <1>2, <1>3 DEF Good, Sane
<1> QED BY <1>1, <1>4, BesideInv DEF Accepted

(* An early wake-up ends self refresh; one of a bypassed CRTC is refused.   *)
LEMMA WakeInvariant == ASSUME Inv, NEW c \in Crtcs, Wake(c) PROVE Inv'
<1> DEFINE n == [Duplicated(c) EXCEPT !.active = TRUE, !.sr = FALSE]
<1>1. Woken(c) = OneChanged(c, n)
  BY DEF Woken
<1>2. crtc[c] \in CrtcState /\ Sane(c, crtc[c])
  BY DEF Inv, TypeOK, CrtcInv
<1>3. n \in CrtcState /\ n.active /\ n.enable = crtc[c].enable /\ ~n.sr /\ n.bypass = crtc[c].bypass
  BY <1>2, DuplicatedState DEF CrtcState
<1> HIDE DEF n
<1>4. /\ Beside /\ Accepted(OneChanged(c, n)) /\ Commit(OneChanged(c, n), NoPuts) /\ crtc[c].enable
  BY <1>1 DEF Wake, Wakes
<1>5. ~tui /\ ~n.bypass
  <2>1. OneChanged(c, n)[c] = n
    BY DEF OneChanged, Inv, TypeOK
  <2> QED BY <1>3, <1>4, <2>1 DEF Accepted
<1>6. Good(c, n)
  BY <1>2, <1>3, <1>4, <1>5 DEF Good, Sane
<1> QED BY <1>3, <1>4, <1>5, <1>6, BesideInv

(* What does not depend on the locks. *)
LEMMA Unaffected ==
  ASSUME Inv, UNCHANGED <<crtc, decon, pm, block, tui, saved, pc, todo, taken, failed>>
  PROVE  CrtcInv' /\ EnterInv' /\ BlockInv' /\ WokenInv' /\ PowerInv'
<1>1. Taken' <=> Taken
  BY DEF Taken
<1>2. CrtcInv'
  BY <1>1 DEF Inv, CrtcInv, TakenFrom
<1>3. EnterInv'
  <2>1. ActiveCrtcs' = ActiveCrtcs /\ \A d \in Crtcs : Duplicated(d)' = Duplicated(d)
    BY DEF ActiveCrtcs, Duplicated
  <2>2. [d \in Crtcs |-> Duplicated(d)]' = [d \in Crtcs |-> Duplicated(d)]
    BY <2>1
  <2> QED BY <2>1, <2>2 DEF Inv, EnterInv
<1>4. BlockInv' /\ WokenInv'
  BY DEF Inv, BlockInv, WokenInv, Blocks
<1>5. PowerInv'
  <2>1. \A c \in Crtcs : {t \in Threads : Refers(t, c)}' = {t \in Threads : Refers(t, c)}
    BY DEF Refers
  <2>2. \A c \in Crtcs : One((Taken /\ saved[1][c].active)') = One(Taken /\ saved[1][c].active)
    BY <1>1 DEF One
  <2> QED BY <2>1, <2>2 DEF Inv, PowerInv
<1> QED BY <1>2, <1>3, <1>4, <1>5

(* Plugging DisplayPort in and out never touches the trusted UI's hold.      *)
LEMMA DpInvariant ==
  ASSUME Inv, DpPlug \/ DpUnplug PROVE Inv'
<1>1. /\ dpTui # "tui" /\ dpTui' \in {"free", "dp"}
      /\ UNCHANGED <<crtc, decon, pm, block, tui, locked, saved, pc, todo, taken, failed, mine, used>>
  BY DEF DpPlug, DpUnplug, Dp, display, callers
<1>2. TypeOK' /\ LocksInv'
  BY <1>1 DEF Inv, TypeOK, LocksInv, Holds
<1>3. CrtcInv' /\ EnterInv' /\ BlockInv' /\ WokenInv' /\ PowerInv'
  BY <1>1, Unaffected
<1> QED BY <1>2, <1>3 DEF Inv

(* At the start every CRTC is on, and nobody calls. *)
LEMMA InitInvariant == Init => Inv
<1> SUFFICES ASSUME Init PROVE Inv
  OBVIOUS
<1> DEFINE on == [enable |-> TRUE, active |-> TRUE, sr |-> FALSE, bypass |-> FALSE]
<1>1. /\ \A c \in Crtcs : crtc[c] = on /\ decon[c] = "ON" /\ pm[c] = 1 /\ block[c] = 0
      /\ \A t \in Threads : pc[t] = "idle" /\ todo[t] = {} /\ taken[t] = {} /\ ~failed[t]
      /\ ~tui /\ dpTui = "free" /\ locked = None /\ saved = <<>>
  BY DEF Init
<1>2. on \in CrtcState /\ on.enable /\ on.active /\ ~on.sr /\ ~on.bypass
  BY DEF CrtcState
<1> HIDE DEF on
<1>3. Cardinality(Threads) \in Nat
  BY TuiThreadsAssumption, FS_CardinalityType
<1>4. TypeOK
  <2>1. used \in [commits : 0 .. MaxCommits, calls : 0 .. MaxCalls]
    BY TuiBoundsAssumption DEF Init
  <2>2. crtc \in [Crtcs -> CrtcState]
    BY <1>2 DEF Init, on
  <2>3. pm \in [Crtcs -> Nat] /\ block \in [Crtcs -> 0 .. Cardinality(Threads)]
    BY <1>3 DEF Init
  <2>4. saved \in Remembered /\ mine \in [Threads -> Remembered]
    BY DEF Init, Remembered
  <2>5. /\ decon \in [Crtcs -> {"ON", "HIBERNATION", "OFF"}]
        /\ tui \in BOOLEAN /\ dpTui \in {"free", "dp", "tui"} /\ locked \in Threads \cup {None}
        /\ pc \in [Threads -> {"idle", "block", "lock", "build", "commit", "unblock",
                              "exit", "exitCommit", "exitEnd"}]
        /\ todo \in [Threads -> SUBSET Crtcs] /\ taken \in [Threads -> SUBSET Crtcs]
        /\ failed \in [Threads -> BOOLEAN]
    BY DEF Init
  <2> QED BY <2>1, <2>2, <2>3, <2>4, <2>5 DEF TypeOK
<1>5. LocksInv /\ ~Taken
  BY <1>1, TuiThreadsAssumption DEF LocksInv, Holds, Taken
<1>6. CrtcInv /\ EnterInv /\ WokenInv
  BY <1>1, <1>2, <1>5 DEF CrtcInv, EnterInv, WokenInv, Sane, DeconOf
<1>7. \A c \in Crtcs : {t \in Threads : Blocks(t, c)} = {} /\ {t \in Threads : Refers(t, c)} = {}
  BY <1>1 DEF Blocks, Refers
<1>8. BlockInv
  BY <1>1, <1>7, FS_EmptySet DEF BlockInv
<1>9. PowerInv
  <2>1. ASSUME NEW c \in Crtcs
        PROVE  pm[c] = One(decon[c] = "ON") + One(crtc[c].bypass) + One(Taken /\ saved[1][c].active)
                       + Cardinality({t \in Threads : Refers(t, c)})
    <3>1. One(decon[c] = "ON") = 1 /\ One(crtc[c].bypass) = 0 /\ One(Taken /\ saved[1][c].active) = 0 /\ pm[c] = 1
      BY <1>1, <1>2, <1>5 DEF One
    <3>2. Cardinality({t \in Threads : Refers(t, c)}) = 0
      BY <1>7, FS_EmptySet
    <3> QED BY <3>1, <3>2
  <2> QED BY <2>1 DEF PowerInv
<1> QED BY <1>4, <1>5, <1>6, <1>8, <1>9 DEF Inv

(* Every step preserves the invariant. *)
LEMMA NextInvariant == ASSUME Inv, Orderly, [Next]_vars PROVE Inv'
<1>1. ASSUME NEW c \in Crtcs, Hibernate(c) \/ Wake(c) \/ \E on \in BOOLEAN : UserCommit(c, on) PROVE Inv'
  BY <1>1, HibernateInvariant, WakeInvariant, UserCommitInvariant
<1>2. CASE DpPlug \/ DpUnplug
  BY <1>2, DpInvariant
<1>3. ASSUME NEW t \in Threads, Entering(t) PROVE Inv'
  BY <1>3, EnterInvariant, LockAllInvariant, BuildInvariant, BuildFailsInvariant, CommitOffInvariant,
     CommitOffFailsInvariant, BlockExitInvariant, UnblockInvariant DEF Entering
<1>4. ASSUME NEW t \in Threads, Exiting(t) PROVE Inv'
  BY <1>4, ExitInvariant, ExitLocksInvariant, ExitCommitsInvariant, ExitEndsInvariant DEF Exiting
<1>5. CASE UNCHANGED vars
  <2>1. UNCHANGED <<crtc, decon, pm, block, tui, dpTui, locked, saved, pc, todo, taken, failed, mine, used>>
    BY <1>5 DEF vars, display, callers
  <2>2. CrtcInv' /\ EnterInv' /\ BlockInv' /\ WokenInv' /\ PowerInv'
    BY <2>1, Unaffected
  <2>3. TypeOK' /\ LocksInv'
    BY <2>1 DEF Inv, TypeOK, LocksInv, Holds
  <2> QED BY <2>2, <2>3 DEF Inv
<1> QED BY <1>1, <1>2, <1>3, <1>4, <1>5 DEF Next, Others

-----------------------------------------------------------------------------
(* The theorems *)

(* Every variable keeps its type; in particular block_cnt and the power      *)
(* count never go below zero.                                                *)
THEOREM TypeCorrect == ASSUME Orderly PROVE Spec => []TypeOK
<1>1. Inv /\ [Next]_vars => Inv'
  BY NextInvariant
<1>2. Inv => TypeOK
  BY DEF Inv
<1> QED BY <1>1, <1>2, InitInvariant, PTL DEF Spec

(* Power references of the trusted UI balance, also after every failure of   *)
(* entering and when the remembered state cannot be restored; the argument   *)
(* is PowerInv, which says for every moment who holds what.                  *)
THEOREM PowerBalanced == ASSUME Orderly PROVE Spec => []PowerSound
<1>1. Inv /\ [Next]_vars => Inv'
  BY NextInvariant
<1>2. Inv => PowerSound
  <2> SUFFICES ASSUME Inv PROVE PowerSound
    OBVIOUS
  <2> SUFFICES ASSUME NEW c \in Crtcs
               PROVE  LET owned == tui /\ saved[1][c].active IN
                      /\ pm[c] >= One(decon[c] = "ON") + One(owned)
                      /\ Idle => pm[c] = One(decon[c] = "ON") + One(owned) + One(crtc[c].bypass)
    BY DEF PowerSound, Inv
  <2> DEFINE owned == tui /\ saved[1][c].active
             others == Cardinality({t \in Threads : Refers(t, c)})
  <2>1. pm[c] = One(decon[c] = "ON") + One(crtc[c].bypass) + One(Taken /\ saved[1][c].active) + others
    BY DEF Inv, PowerInv
  <2>2. others \in Nat /\ \A p : One(p) \in Nat
    BY CountType DEF One
  <2>3. One(owned) <= One(Taken /\ saved[1][c].active)
    BY DEF One, Taken
  <2>4. Idle => others = 0
    <3>1. Idle => {t \in Threads : Refers(t, c)} = {}
      BY DEF Idle, Refers
    <3> QED BY <3>1, FS_EmptySet
  <2>5. Idle => One(Taken /\ saved[1][c].active) = One(owned)
    BY DEF One, Taken, Idle
  <2> HIDE DEF others, owned
  <2>6. pm[c] >= One(decon[c] = "ON") + One(owned)
    BY <2>1, <2>2, <2>3
  <2>7. Idle => pm[c] = One(decon[c] = "ON") + One(owned) + One(crtc[c].bypass)
    BY <2>1, <2>2, <2>4, <2>5
  <2> QED BY <2>6, <2>7 DEF owned
<1> QED BY <1>1, <1>2, InitInvariant, PTL DEF Spec

(* While the trusted UI is up no DECON runs, DisplayPort is kept out and the *)
(* way back is known.                                                        *)
THEOREM OwnsDisplay == ASSUME Orderly PROVE Spec => []TuiOwnsDisplay
<1>1. Inv /\ [Next]_vars => Inv'
  BY NextInvariant
<1>2. Inv => TuiOwnsDisplay
  <2> SUFFICES ASSUME Inv, tui PROVE (\A c \in Crtcs : decon[c] # "ON") /\ dpTui = "tui" /\ saved # <<>>
    BY DEF TuiOwnsDisplay
  <2>1. dpTui = "tui" /\ saved # <<>> /\ Taken
    BY DEF Inv, LocksInv, Taken
  <2>2. ASSUME NEW c \in Crtcs PROVE decon[c] # "ON"
    <3>1. ~crtc[c].active
      <4>1. TakenFrom(c, saved[1][c])
        BY <2>1 DEF Inv, CrtcInv
      <4>2. CASE saved[1][c].active
        BY <4>1, <4>2 DEF TakenFrom
      <4>3. CASE ~saved[1][c].active
        BY <4>1, <4>3 DEF TakenFrom
      <4> QED BY <4>2, <4>3
    <3> QED BY <3>1 DEF Inv, CrtcInv, DeconOf
  <2> QED BY <2>1, <2>2
<1> QED BY <1>1, <1>2, InitInvariant, PTL DEF Spec

-----------------------------------------------------------------------------
(* Nothing stays behind *)

(* When the remembered state is always restored, it and bypass do not        *)
(* outlive the trusted UI.                                                   *)
Returned ==
  /\ saved # <<>> => Taken \/ \E t \in Threads : pc[t] = "commit"
  /\ Taken => \A c \in Crtcs : ~saved[1][c].bypass
  /\ ~Taken => \A c \in Crtcs : ~crtc[c].bypass

(* The remembered state is never refused and its commit never fails. *)
Restores == Orderly /\ "exit_fails" \notin Races

(* Steps that neither take the display nor give it back. *)
LEMMA ReturnedKept ==
  ASSUME Returned, Taken' <=> Taken, UNCHANGED saved,
         \A t \in Threads : pc[t] = "commit" => pc'[t] = "commit",
         \A c \in Crtcs : crtc'[c].bypass => crtc[c].bypass
  PROVE  Returned'
  BY DEF Returned

(* The steps beside, and the wake-up of a caller that enters, begin no bypass. *)
LEMMA OneReturned ==
  ASSUME Inv, NEW c \in Crtcs, NEW n, n.bypass = Duplicated(c).bypass, crtc' = OneChanged(c, n)
  PROVE  \A d \in Crtcs : crtc'[d].bypass => crtc[d].bypass
<1>1. \A d \in Crtcs : crtc'[d] = IF d = c THEN n ELSE crtc[d]
  BY DEF OneChanged, Inv, TypeOK
<1>2. Duplicated(c).bypass = crtc[c].bypass
  BY DuplicatedState DEF Inv, TypeOK
<1> QED BY <1>1, <1>2

(* Whatever commits beside leaves bypass and the remembered state alone.    *)
LEMMA BesideReturned ==
  ASSUME Inv, Returned, NEW c \in Crtcs,
         Hibernate(c) \/ Wake(c) \/ \E on \in BOOLEAN : UserCommit(c, on)
  PROVE  Returned'
<1>1. Duplicated(c) \in CrtcState
  BY DuplicatedState DEF Inv, TypeOK
<1>2. \E n : n.bypass = Duplicated(c).bypass /\ crtc' = OneChanged(c, n)
  <2>1. CASE Hibernate(c)
    <3>1. crtc' = OneChanged(c, [Duplicated(c) EXCEPT !.active = FALSE, !.sr = TRUE])
      BY <2>1 DEF Hibernate, Commit
    <3>2. [Duplicated(c) EXCEPT !.active = FALSE, !.sr = TRUE].bypass = Duplicated(c).bypass
      BY <1>1 DEF CrtcState
    <3> QED BY <3>1, <3>2
  <2>2. CASE Wake(c)
    <3>1. crtc' = OneChanged(c, [Duplicated(c) EXCEPT !.active = TRUE, !.sr = FALSE])
      BY <2>2 DEF Wake, Commit, Woken
    <3>2. [Duplicated(c) EXCEPT !.active = TRUE, !.sr = FALSE].bypass = Duplicated(c).bypass
      BY <1>1 DEF CrtcState
    <3> QED BY <3>1, <3>2
  <2>3. ASSUME NEW on \in BOOLEAN, UserCommit(c, on)
        PROVE  \E n : n.bypass = Duplicated(c).bypass /\ crtc' = OneChanged(c, n)
    <3>1. crtc' = OneChanged(c, [Duplicated(c) EXCEPT !.enable = on, !.active = on])
      BY <2>3 DEF UserCommit, Commit
    <3>2. [Duplicated(c) EXCEPT !.enable = on, !.active = on].bypass = Duplicated(c).bypass
      BY <1>1 DEF CrtcState
    <3> QED BY <3>1, <3>2
  <2> QED BY <2>1, <2>2, <2>3
<1>3. UNCHANGED <<tui, saved, pc>>
  BY DEF Hibernate, Wake, UserCommit, Beside, callers
<1> QED BY <1>2, <1>3, OneReturned, ReturnedKept DEF Taken

(* A call that enters remembers a state without bypass, or forgets it.      *)
LEMMA EnteringReturned ==
  ASSUME Inv, Returned, NEW t \in Threads, Entering(t)
  PROVE  Returned'
<1>1. CASE Enter(t) \/ LockAll(t) \/ \E c \in Crtcs : Unblock(t, c)
  <2>1. UNCHANGED <<crtc, saved, tui>>
    BY <1>1 DEF Enter, LockAll, Unblock, display
  <2>2. /\ pc[t] \in {"idle", "lock", "unblock"} /\ pc'[t] \in {"block", "build", "unblock", "idle"}
        /\ \A u \in Threads \ {t} : pc'[u] = pc[u]
    BY <1>1 DEF Enter, LockAll, Unblock, Step, Inv, TypeOK
  <2> QED BY <2>1, <2>2, ReturnedKept DEF Taken
<1>2. CASE \E c \in Crtcs : BlockExit(t, c)
  <2>1. PICK c \in Crtcs : BlockExit(t, c)
    BY <1>2
  <2>2. /\ UNCHANGED <<saved, tui>> /\ pc[t] = "block" /\ pc'[t] \in {"block", "lock"}
        /\ \A u \in Threads \ {t} : pc'[u] = pc[u]
    BY <2>1 DEF BlockExit, Inv, TypeOK
  <2>3. \A d \in Crtcs : crtc'[d].bypass => crtc[d].bypass
    <3>1. CASE crtc' = Woken(c)
      <4>1. [Duplicated(c) EXCEPT !.active = TRUE, !.sr = FALSE].bypass = Duplicated(c).bypass
        BY DuplicatedState DEF Inv, TypeOK, CrtcState
      <4> QED BY <3>1, <4>1, OneReturned DEF Woken
    <3> QED BY <2>1, <3>1 DEF BlockExit, Commit, display
  <2> QED BY <2>2, <2>3, ReturnedKept DEF Taken
<1>3. CASE Build(t)
  <2>1. ~Taken
    BY <1>3, EntererAlone DEF Build, Step
  <2>2. UNCHANGED <<crtc, tui>> /\ pc'[t] = "commit" /\ \A u \in Threads \ {t} : pc'[u] = pc[u]
    BY <1>3 DEF Build, Step, Referenced, Inv, TypeOK
  <2>3. ~Taken'
    BY <2>1, <2>2 DEF Taken
  <2> QED BY <2>1, <2>2, <2>3 DEF Returned
<1>4. CASE BuildFails(t) \/ CommitOffFails(t)
  <2>1. ~Taken
    BY <1>4, EntererAlone DEF BuildFails, CommitOffFails
  <2>2. /\ UNCHANGED <<crtc, tui>> /\ saved' = <<>> /\ pc'[t] = "unblock"
        /\ \A u \in Threads \ {t} : pc'[u] = pc[u]
    BY <1>4 DEF BuildFails, CommitOffFails, GiveUp, Referenced, display, Inv, TypeOK
  <2>3. ~Taken'
    BY <2>1, <2>2 DEF Taken
  <2> QED BY <2>1, <2>2, <2>3 DEF Returned
<1>5. CASE CommitOff(t)
  <2>1. ~Taken /\ pc[t] = "commit" /\ tui' = TRUE /\ saved' = saved
    BY <1>5, EntererAlone DEF CommitOff, Step
  <2>2. \A c \in Crtcs : saved[1][c] = Duplicated(c) /\ Duplicated(c).bypass = crtc[c].bypass
    BY <2>1, DuplicatedState DEF Inv, TypeOK, EnterInv
  <2> QED BY <2>1, <2>2 DEF Returned, Taken
<1> QED BY <1>1, <1>2, <1>3, <1>4, <1>5 DEF Entering

(* A call that leaves restores the state it remembers, and forgets it.      *)
LEMMA ExitingReturned ==
  ASSUME Inv, Restores, Returned, NEW t \in Threads, Exiting(t)
  PROVE  Returned'
<1>1. CASE Exit(t) \/ ExitEnds(t)
  <2>1. UNCHANGED <<crtc, saved, tui>>
    BY <1>1 DEF Exit, ExitEnds, display
  <2>2. /\ pc[t] \in {"idle", "exitEnd"} /\ pc'[t] \in {"exit", "idle"}
        /\ \A u \in Threads \ {t} : pc'[u] = pc[u]
    BY <1>1 DEF Exit, ExitEnds, Step, Inv, TypeOK
  <2> QED BY <2>1, <2>2, ReturnedKept DEF Taken
<1>2. CASE ExitLocks(t)
  <2>1. UNCHANGED <<crtc, saved>> /\ pc[t] = "exit" /\ pc'[t] = "exitCommit"
        /\ \A u \in Threads \ {t} : pc'[u] = pc[u]
    BY <1>2 DEF ExitLocks, Step, display, Inv, TypeOK
  <2>2. Taken /\ Taken'
    BY <2>1 DEF Taken, Inv, LocksInv, Holds
  <2> QED BY <2>1, <2>2, ReturnedKept
<1>3. CASE ExitCommits(t)
  <2>1. /\ pc[t] = "exitCommit" /\ pc'[t] = "exitEnd" /\ UNCHANGED tui
        /\ \A u \in Threads \ {t} : pc'[u] = pc[u]
    BY <1>3 DEF ExitCommits, Step, Inv, TypeOK
  <2>2. ~tui /\ Taken /\ mine[t] = saved /\ \A u \in Threads \ {t} : ~Holds(u)
    BY <2>1 DEF Inv, LocksInv, Holds, Taken
  <2>3. ~Taken'
    BY <2>1, <2>2 DEF Taken, Holds
  <2>4. \A c \in Crtcs : ~mine[t][1][c].bypass
    BY <2>2 DEF Returned
  <2>5. Accepted(mine[t][1])
    BY <2>2, <2>4 DEF Accepted
  <2>6. crtc' = mine[t][1] /\ saved' = <<>>
    BY <1>3, <2>5 DEF ExitCommits, Restore, CommitAndPut, Commit, Restores
  <2> QED BY <2>3, <2>4, <2>6 DEF Returned
<1> QED BY <1>1, <1>2, <1>3 DEF Exiting

(* When no call is under way and the trusted UI is away, nothing of it is    *)
(* left that refuses commits, keeps hibernation or DisplayPort out or lights *)
(* up an old state, provided the remembered state could be restored.         *)
THEOREM NothingStays == ASSUME Restores PROVE Spec => []DisplayReturned
<1>1. Inv /\ [Next]_vars => Inv'
  BY NextInvariant DEF Restores
<1>2. Init => Returned
  BY DEF Init, Returned, Taken
<1>3. Inv /\ Returned /\ [Next]_vars => Returned'
  <2> SUFFICES ASSUME Inv, Returned, [Next]_vars PROVE Returned'
    OBVIOUS
  <2>1. CASE DpPlug \/ DpUnplug
    BY <2>1, ReturnedKept DEF DpPlug, DpUnplug, Dp, display, callers, Taken
  <2>2. CASE UNCHANGED vars
    BY <2>2, ReturnedKept DEF vars, display, callers, Taken
  <2> QED BY <2>1, <2>2, BesideReturned, EnteringReturned, ExitingReturned DEF Next, Others
<1>4. Inv /\ Returned => DisplayReturned
  <2> SUFFICES ASSUME Inv, Returned, ~tui, Idle
               PROVE  /\ saved = <<>> /\ dpTui # "tui"
                      /\ \A c \in Crtcs :
                           /\ ~crtc[c].bypass /\ block[c] = 0
                           /\ decon[c] = IF crtc[c].active THEN "ON" ELSE IF crtc[c].sr THEN "HIBERNATION" ELSE "OFF"
    BY DEF DisplayReturned
  <2>1. ~Taken /\ saved = <<>>
    BY DEF Taken, Idle, Returned
  <2>2. dpTui # "tui"
    BY DEF Inv, LocksInv, Holds, Idle
  <2>3. ASSUME NEW c \in Crtcs PROVE block[c] = 0
    <3>1. {t \in Threads : Blocks(t, c)} = {}
      BY DEF Idle, Blocks
    <3> QED BY <3>1, FS_EmptySet DEF Inv, BlockInv
  <2> QED BY <2>1, <2>2, <2>3 DEF Returned, Inv, CrtcInv, DeconOf
<1> QED BY <1>1, <1>2, <1>3, <1>4, InitInvariant, PTL DEF Spec
=============================================================================
