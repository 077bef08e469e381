----------------------------- MODULE FrameProofs -----------------------------
(* Frames, for any number of commits and debugfs triggers and any faults: an *)
(* event is sent exactly once and with its vblank reference, completion and  *)
(* recovery read the hardware as it is, and a recovery that succeeds leaves  *)
(* the display on.                                                           *)
EXTENDS Frame, FiniteSetTheorems, TLAPS

-----------------------------------------------------------------------------
(* The inductive invariant *)

One(b) == IF b THEN 1 ELSE 0

(* Where the event of a commit is not yet with anybody else. *)
Before == {"begin", "stop", "stopLate", "flush", "starting"}

(* Where decon->event may be armed. *)
Awaiting == {"wait", "late", "giveUp", "force", "forceOnly"}

TailInv ==
  /\ tail.pc = "idle" => tail.id = 0
  /\ tail.pc # "idle" => tail.id \in Ids
  /\ tail.pc \in {"stop", "stopLate"} => Disables
  /\ tail.pc \notin {"idle", "begin", "stop", "stopLate"} => ~Disables
  /\ tail.pc = "starting" => tail.kind = "frame"

(* The events that are still to be sent. *)
Open(i) == i = armed \/ i \in drmArmed \/ (i = tail.id /\ tail.pc \in Before)

EventInv ==
  /\ armed # 0 => armed = tail.id /\ tail.kind = "frame" /\ tail.pc \in Awaiting
  /\ tail.id \in drmArmed => tail.kind = "skip" /\ tail.pc \notin Before
  /\ \A i \in Ids : sent[i] = IF Open(i) THEN 0 ELSE 1
  /\ VblankBalanced

(* A frame start that is pending, or has been served, took over the update.  *)
ShownInv ==
  tail.kind = "frame" /\ tail.pc = "wait" /\ (fsPending \/ armed = 0) => ~update

Fair(F) == faulted \cap F = {}

(* Without dimming the trigger is only open for the frame under way. *)
TriggerInv ==
  Fair({"dimming"}) =>
    ~keepUnmask /\ (unmasked => tail.kind = "frame" /\ tail.pc \in Awaiting \cup {"mask"})

(* A frame that has not started still has its update to be taken over. *)
StuckInv ==
  Fair({"late_irq", "late_start", "dimming"}) /\ tail.kind = "frame" =>
    /\ tail.pc = "late" => armed # 0
    /\ tail.pc \in {"wait", "late"} /\ armed # 0 /\ ~fsPending => update
    /\ tail.pc \in {"starting", "giveUp"} => update

(* frames_pending counts at least the frame in transfer, the one whose done  *)
(* interrupt is pending and the one whose update is to be taken over.        *)
CountInv ==
  Fair({"dimming", "late_mask"}) /\ ~gaveUp =>
    /\ frames >= One(busy) + One(fdPending) + One(update /\ tail.pc # "starting")
    /\ tail.pc = "stop" => ~busy

(* The recovery holds the modeset lock over both of its commits. *)
RecoveryInv ==
  Fair({"lock_contention"}) =>
    /\ rpc \in {"suspend", "suspending", "resuming", "succeeded"} => locked
    /\ rpc # "backoff"
    /\ rpc \in {"suspend", "suspending"} => saved
    /\ rpc = "suspend" => display # "off"
    /\ rpc \in {"resuming", "succeeded"} => display = "on" /\ (tail.pc \notin {"idle", "begin"} => state = "ON")
    /\ rpc = "resuming" /\ tail.pc # "idle" => ~Disables
    /\ rpc = "resuming" /\ tail.pc = "idle" => state = "ON"
    /\ rpc = "succeeded" => tail.pc = "idle" /\ state = "ON"

IInv == TypeOK /\ TailInv /\ EventInv /\ ShownInv /\ TriggerInv /\ StuckInv /\ CountInv /\ RecoveryInv

-----------------------------------------------------------------------------
(* Constants, faults and names *)

LEMMA IdsAre == MaxIds \in Nat /\ 0 \notin Ids /\ IsFiniteSet(Ids) /\ Ids \subseteq 0 .. MaxIds /\ Ids \subseteq Nat
<1>1. MaxIds \in Nat /\ 0 \notin Ids /\ Ids \subseteq 0 .. MaxIds /\ Ids \subseteq Nat
  BY MaxCommitsAssumption DEF MaxIds, Ids
<1>2. IsFiniteSet(Ids)
  BY <1>1, FS_Interval DEF Ids
<1> QED BY <1>1, <1>2

LEMMA FaultsGrow ==
  ASSUME faulted \subseteq Faults, NEW f, NEW cond, Fault(f, cond)
  PROVE  faulted \subseteq faulted' /\ (cond => f \in faulted') /\ faulted' \subseteq Faults
BY DEF Fault

(* The names of commits in the DRM core's list are counted. *)
LEMMA Listed ==
  ASSUME TypeOK
  PROVE  /\ IsFiniteSet(drmArmed) /\ Cardinality(drmArmed) \in Nat
         /\ Cardinality({}) = 0
         /\ \A i \in Ids : i \notin drmArmed => Cardinality(drmArmed \cup {i}) = Cardinality(drmArmed) + 1
<1>1. IsFiniteSet(drmArmed)
  BY IdsAre, FS_Subset DEF TypeOK
<1> QED BY <1>1, FS_CardinalityType, FS_EmptySet, FS_AddElement

-----------------------------------------------------------------------------
(* What a step does to the events *)

(* A new commit takes a name whose event nobody holds. *)
LEMMA CommitDoes ==
  ASSUME TypeOK, TailInv, EventInv, NEW kind \in Kinds, Commit(kind)
  PROVE  /\ tail.pc = "idle" /\ tail' \in [id : 0 .. MaxIds, kind : Kinds, pc : TailPcs]
         /\ tail'.id \in Ids /\ tail'.kind = kind /\ tail'.pc = "begin"
         /\ tail'.id \notin drmArmed /\ armed = 0
         /\ UNCHANGED <<armed, drmArmed, refs>>
         /\ sent' \in [Ids -> Nat] /\ EventInv'
         /\ display' = CASE kind = "sleep" -> "sleep" [] kind = "off" -> "off" [] OTHER -> "on"
<1>1. PICK i \in Free : tail' = [id |-> i, kind |-> kind, pc |-> "begin"] /\ sent' = [sent EXCEPT ![i] = 0]
  BY DEF Commit
<1>2. tail.pc = "idle" /\ UNCHANGED <<armed, drmArmed, refs>>
      /\ display' = CASE kind = "sleep" -> "sleep" [] kind = "off" -> "off" [] OTHER -> "on"
  BY DEF Commit, Idle
<1>3. i \in Ids /\ i # armed /\ i \notin drmArmed
  BY <1>1 DEF Free
<1>4. tail'.id = i /\ tail'.kind = kind /\ tail'.pc = "begin" /\ tail' \in [id : 0 .. MaxIds, kind : Kinds, pc : TailPcs]
  BY <1>1, <1>3, IdsAre DEF TailPcs
<1>5. armed = 0
  BY <1>2 DEF EventInv, Awaiting
<1>6. sent' \in [Ids -> Nat] /\ \A j \in Ids : sent'[j] = IF j = i THEN 0 ELSE sent[j]
  BY <1>1, <1>3 DEF TypeOK
<1>7. \A j \in Ids : sent'[j] = IF Open(j)' THEN 0 ELSE 1
  BY <1>2, <1>3, <1>4, <1>6 DEF EventInv, Open, Before
<1>8. VblankBalanced'
  BY <1>2 DEF EventInv, VblankBalanced
<1>9. EventInv'
  BY <1>2, <1>3, <1>4, <1>5, <1>7, <1>8 DEF EventInv
<1> QED BY <1>2, <1>3, <1>4, <1>5, <1>6, <1>9

(* The armed event goes out, and the tail is where it no longer needs it.    *)
LEMMA SendDoes ==
  ASSUME TypeOK, TailInv, EventInv, SendArmed, tail'.id = tail.id, tail'.kind = tail.kind,
         tail.pc \in Before <=> tail'.pc \in Before
  PROVE  armed' = 0 /\ drmArmed' = drmArmed /\ refs' \in Int /\ sent' \in [Ids -> Nat] /\ EventInv'
<1>1. armed' = 0 /\ drmArmed' = drmArmed
  BY DEF SendArmed
<1>2. CASE armed = 0
  <2>1. UNCHANGED <<refs, sent>>
    BY <1>2 DEF SendArmed
  <2>2. VblankBalanced'
    BY <1>1, <1>2, <2>1 DEF EventInv, VblankBalanced
  <2>3. \A i \in Ids : Open(i)' <=> Open(i)
    BY <1>1, <1>2 DEF Open
  <2> QED BY <1>1, <2>1, <2>2, <2>3 DEF EventInv, TypeOK
<1>3. CASE armed # 0
  <2>1. armed = tail.id /\ tail.pc \notin Before /\ tail.id \notin drmArmed /\ armed \in Ids
    BY <1>3, IdsAre DEF EventInv, TypeOK, Awaiting, Before, Ids
  <2>2. sent' = [i \in Ids |-> IF i \in {armed} THEN sent[i] + 1 ELSE sent[i]] /\ refs' = refs - 1
    BY <1>3 DEF SendArmed, Deliver
  <2>3. sent' \in [Ids -> Nat] /\ refs' \in Int
    BY <2>2 DEF TypeOK
  <2>4. \A i \in Ids : sent'[i] = IF Open(i)' THEN 0 ELSE 1
    BY <1>1, <2>1, <2>2, IdsAre DEF EventInv, Open
  <2>5. VblankBalanced'
    BY <1>1, <1>3, <2>2, Listed DEF EventInv, VblankBalanced, TypeOK
  <2> QED BY <1>1, <2>1, <2>3, <2>4, <2>5 DEF EventInv
<1> QED BY <1>2, <1>3

LEMMA GotoDoes ==
  ASSUME TypeOK, NEW p \in TailPcs, Goto(p)
  PROVE  tail'.id = tail.id /\ tail'.kind = tail.kind /\ tail'.pc = p
         /\ tail' \in [id : 0 .. MaxIds, kind : Kinds, pc : TailPcs]
BY DEF Goto, TypeOK

LEMMA NoTailIs == NoTail.id = 0 /\ NoTail.kind = "off" /\ NoTail.pc = "idle"
                  /\ NoTail \in [id : 0 .. MaxIds, kind : Kinds, pc : TailPcs]
BY IdsAre DEF NoTail, Kinds, TailPcs

(* The events stay with whom they are. *)
LEMMA EventsStay ==
  ASSUME EventInv, UNCHANGED events, tail'.id = tail.id, tail'.kind = tail.kind,
         tail.pc \in Before <=> tail'.pc \in Before, armed # 0 => tail'.pc \in Awaiting
  PROVE  EventInv'
<1>1. UNCHANGED <<armed, drmArmed, refs, sent>>
  BY DEF events
<1>2. \A i \in Ids : Open(i)' <=> Open(i)
  BY <1>1 DEF Open
<1>3. VblankBalanced'
  BY <1>1 DEF EventInv, VblankBalanced
<1> QED BY <1>1, <1>2, <1>3 DEF EventInv

(* A tail that stops DECON sends its own event, and when the display goes    *)
(* off those that waited for a vblank.                                       *)
LEMMA DownDoes ==
  ASSUME TypeOK, EventInv, tail.pc \in {"begin", "stop", "stopLate"}, tail.id \in Ids, CrtcDown
  PROVE  tail' = NoTail /\ armed' = 0 /\ armed = 0 /\ drmArmed' \subseteq Ids /\ refs' \in Int /\ sent' \in [Ids -> Nat] /\ EventInv'
<1>1. tail' = NoTail /\ armed' = armed /\ armed = 0 /\ tail.id \notin drmArmed /\ tail.pc \in Before
  BY DEF CrtcDown, EventInv, Awaiting, Before
<1> DEFINE S == IF tail.kind = "off" THEN {tail.id} \cup drmArmed ELSE {tail.id}
<1>2. sent' = [i \in Ids |-> IF i \in S THEN sent[i] + 1 ELSE sent[i]]
  BY DEF CrtcDown, Deliver
<1>3. /\ drmArmed' = IF tail.kind = "off" THEN {} ELSE drmArmed
      /\ refs' = IF tail.kind = "off" THEN refs - Cardinality(drmArmed) ELSE refs
  BY DEF CrtcDown
<1>4. sent' \in [Ids -> Nat]
  BY <1>2 DEF TypeOK
<1>5. \A i \in Ids : sent'[i] = IF i \in S THEN sent[i] + 1 ELSE sent[i]
  BY <1>2
<1>6. \A i \in Ids : Open(i)' <=> i \in drmArmed'
  BY <1>1, NoTailIs, IdsAre DEF Open, Before
<1>7. \A i \in Ids : Open(i) <=> i \in drmArmed \/ i = tail.id
  BY <1>1, IdsAre DEF Open
<1>8. \A i \in Ids : sent'[i] = IF Open(i)' THEN 0 ELSE 1
  BY <1>1, <1>3, <1>5, <1>6, <1>7 DEF EventInv
<1>9. VblankBalanced' /\ refs' \in Int /\ drmArmed' \subseteq Ids
  BY <1>1, <1>3, Listed DEF EventInv, VblankBalanced, TypeOK
<1>10. 0 \notin drmArmed'
  BY <1>9, IdsAre
<1> QED BY <1>1, <1>4, <1>8, <1>9, <1>10, NoTailIs DEF EventInv

LEMMA SkipDoes ==
  ASSUME TypeOK, TailInv, EventInv, TailSkips
  PROVE  armed' = armed /\ drmArmed' \subseteq Ids /\ refs' \in Int /\ sent' = sent /\ EventInv'
<1>1. tail'.id = tail.id /\ tail'.kind = "skip" /\ tail'.pc = "wait" /\ tail.id \in Ids /\ tail.pc = "flush"
  BY GotoDoes DEF TailSkips, TailInv, TailPcs
<1>2. armed' = armed /\ armed = 0 /\ tail.id \notin drmArmed /\ sent' = sent
      /\ drmArmed' = drmArmed \cup {tail.id} /\ refs' = refs + 1
  BY <1>1 DEF TailSkips, EventInv, Awaiting, Before
<1>3. drmArmed' \subseteq Ids /\ refs' \in Int
  BY <1>1, <1>2 DEF TypeOK
<1>4. \A i \in Ids : Open(i)' <=> Open(i)
  BY <1>1, <1>2 DEF Open, Before
<1>5. VblankBalanced'
  BY <1>1, <1>2, Listed DEF EventInv, VblankBalanced
<1> QED BY <1>1, <1>2, <1>3, <1>4, <1>5 DEF EventInv, Before

LEMMA ArmDoes ==
  ASSUME TypeOK, TailInv, EventInv, TailStarts
  PROVE  armed' = tail.id /\ armed' # 0 /\ drmArmed' = drmArmed /\ refs' \in Int /\ sent' = sent /\ EventInv'
<1>1. tail'.id = tail.id /\ tail'.kind = tail.kind /\ tail.kind = "frame" /\ tail'.pc = "wait" /\ tail.id \in Ids /\ tail.pc = "starting"
  BY GotoDoes DEF TailStarts, TailInv, TailPcs
<1>2. armed' = tail.id /\ armed = 0 /\ tail.id \notin drmArmed /\ sent' = sent /\ drmArmed' = drmArmed /\ refs' = refs + 1 /\ tail.id # 0
  BY <1>1, IdsAre DEF TailStarts, ArmEvent, EventInv, Awaiting
<1>3. refs' \in Int
  BY <1>2 DEF TypeOK
<1>4. \A i \in Ids : Open(i)' <=> Open(i)
  BY <1>1, <1>2, IdsAre DEF Open, Before
<1>5. VblankBalanced'
  BY <1>2, Listed DEF EventInv, VblankBalanced
<1> QED BY <1>1, <1>2, <1>3, <1>4, <1>5 DEF EventInv, Awaiting

LEMMA TeDoes ==
  ASSUME TypeOK, TailInv, EventInv, TeIrq
  PROVE  armed' = armed /\ drmArmed' = {} /\ refs' \in Int /\ sent' \in [Ids -> Nat] /\ EventInv'
<1>1. armed' = armed /\ drmArmed' = {} /\ refs' = refs - Cardinality(drmArmed) /\ tail' = tail
      /\ sent' = [i \in Ids |-> IF i \in drmArmed THEN sent[i] + 1 ELSE sent[i]]
  BY DEF TeIrq, Deliver
<1>2. sent' \in [Ids -> Nat] /\ refs' \in Int
  BY <1>1, Listed DEF TypeOK
<1>3. \A i \in drmArmed : i # armed /\ ~(i = tail.id /\ tail.pc \in Before)
  <2>1. armed = 0 \/ (armed = tail.id /\ tail.id \notin drmArmed)
    BY DEF EventInv
  <2> QED BY <2>1, IdsAre DEF EventInv, TypeOK
<1>4. \A i \in Ids : sent'[i] = IF Open(i)' THEN 0 ELSE 1
  BY <1>1, <1>3 DEF EventInv, Open
<1>5. VblankBalanced'
  BY <1>1, Listed DEF EventInv, VblankBalanced, TypeOK
<1> QED BY <1>1, <1>2, <1>4, <1>5 DEF EventInv

-----------------------------------------------------------------------------
(* Types, tails and events *)

Basic == TypeOK /\ TailInv /\ EventInv

LEMMA TailMoves ==
  ASSUME Basic, TailWaitsFrameDone \/ TailFrameDoneTimeout \/ TailEnables \/ TailFlushes \/ TailFlipDone \/ TailFlipTimeout \/ TailMasks
  PROVE  Basic'
<1> USE DEF Basic
<1>1. CASE TailWaitsFrameDone
  <2>1. tail'.id = tail.id /\ tail'.kind = tail.kind /\ tail'.pc = "stop" /\ tail' \in [id : 0 .. MaxIds, kind : Kinds, pc : TailPcs]
    BY <1>1, GotoDoes DEF TailWaitsFrameDone, TailPcs
  <2>2. UNCHANGED events
    BY <1>1 DEF TailWaitsFrameDone
  <2>3. TypeOK'
    BY <1>1, <2>1, <2>2 DEF TailWaitsFrameDone, TypeOK, user, drv, dqe, events, hw, rec
  <2>4. TailInv'
    BY <1>1, <2>1 DEF TailWaitsFrameDone, TailInv, Disables, Kinds, TypeOK
  <2>5. EventInv'
    BY <1>1, <2>1, <2>2, EventsStay DEF TailWaitsFrameDone, Before, Awaiting, EventInv
  <2> HIDE DEF Basic
  <2> QED BY <2>3, <2>4, <2>5 DEF Basic
<1>2. CASE TailFrameDoneTimeout
  <2>1. tail'.id = tail.id /\ tail'.kind = tail.kind /\ tail'.pc = "stopLate" /\ tail' \in [id : 0 .. MaxIds, kind : Kinds, pc : TailPcs]
    BY <1>2, GotoDoes DEF TailFrameDoneTimeout, TailPcs
  <2>2. UNCHANGED events
    BY <1>2 DEF TailFrameDoneTimeout
  <2>3. TypeOK'
    BY <1>2, <2>1, <2>2 DEF TailFrameDoneTimeout, TypeOK, user, drv, dqe, events, hw, rec
  <2>4. TailInv'
    BY <1>2, <2>1 DEF TailFrameDoneTimeout, TailInv, Disables, Kinds, TypeOK
  <2>5. EventInv'
    BY <1>2, <2>1, <2>2, EventsStay DEF TailFrameDoneTimeout, Before, Awaiting, EventInv
  <2> HIDE DEF Basic
  <2> QED BY <2>3, <2>4, <2>5 DEF Basic
<1>3. CASE TailEnables
  <2>1. tail'.id = tail.id /\ tail'.kind = tail.kind /\ tail'.pc = "flush" /\ tail' \in [id : 0 .. MaxIds, kind : Kinds, pc : TailPcs]
    BY <1>3, GotoDoes DEF TailEnables, TailPcs
  <2>2. UNCHANGED events
    BY <1>3 DEF TailEnables
  <2>3. TypeOK'
    BY <1>3, <2>1, <2>2 DEF TailEnables, TypeOK, user, drv, dqe, events, hw, rec
  <2>4. TailInv'
    BY <1>3, <2>1 DEF TailEnables, TailInv, Disables, Kinds, TypeOK
  <2>5. EventInv'
    BY <1>3, <2>1, <2>2, EventsStay DEF TailEnables, Before, Awaiting, EventInv
  <2> HIDE DEF Basic
  <2> QED BY <2>3, <2>4, <2>5 DEF Basic
<1>4. CASE TailFlushes
  <2>1. tail'.id = tail.id /\ tail'.kind = tail.kind /\ tail'.pc = "starting" /\ tail' \in [id : 0 .. MaxIds, kind : Kinds, pc : TailPcs]
    BY <1>4, GotoDoes DEF TailFlushes, TailPcs
  <2>2. UNCHANGED events
    BY <1>4 DEF TailFlushes
  <2>3. TypeOK'
    BY <1>4, <2>1, <2>2 DEF TailFlushes, TypeOK, user, drv, dqe, events, hw, rec
  <2>4. TailInv'
    BY <1>4, <2>1 DEF TailFlushes, TailInv, Disables, Kinds, TypeOK
  <2>5. EventInv'
    BY <1>4, <2>1, <2>2, EventsStay DEF TailFlushes, Before, Awaiting, EventInv
  <2> HIDE DEF Basic
  <2> QED BY <2>3, <2>4, <2>5 DEF Basic
<1>5. CASE TailFlipDone
  <2>1. tail'.id = tail.id /\ tail'.kind = tail.kind /\ tail'.pc = "mask" /\ tail' \in [id : 0 .. MaxIds, kind : Kinds, pc : TailPcs]
    BY <1>5, GotoDoes DEF TailFlipDone, TailPcs
  <2>2. UNCHANGED events
    BY <1>5 DEF TailFlipDone
  <2>3. TypeOK'
    BY <1>5, <2>1, <2>2 DEF TailFlipDone, TypeOK, user, drv, dqe, events, hw, rec
  <2>4. TailInv'
    BY <1>5, <2>1 DEF TailFlipDone, TailInv, Disables, Kinds, TypeOK
  <2>5. EventInv'
    <3>1. armed = 0 /\ tail.pc = "wait"
      BY <1>5 DEF TailFlipDone, EventInv, Open, TypeOK, TailInv
    <3> QED BY <2>1, <2>2, <3>1, EventsStay DEF Before
  <2> HIDE DEF Basic
  <2> QED BY <2>3, <2>4, <2>5 DEF Basic
<1>6. CASE TailFlipTimeout
  <2>1. tail'.id = tail.id /\ tail'.kind = tail.kind /\ tail'.pc = "late" /\ tail' \in [id : 0 .. MaxIds, kind : Kinds, pc : TailPcs]
    BY <1>6, GotoDoes DEF TailFlipTimeout, TailPcs
  <2>2. UNCHANGED events
    BY <1>6 DEF TailFlipTimeout
  <2>3. TypeOK'
    BY <1>6, <2>1, <2>2 DEF TailFlipTimeout, TypeOK, user, drv, dqe, events, hw, rec
  <2>4. TailInv'
    BY <1>6, <2>1 DEF TailFlipTimeout, TailInv, Disables, Kinds, TypeOK
  <2>5. EventInv'
    BY <1>6, <2>1, <2>2, EventsStay DEF TailFlipTimeout, Before, Awaiting, EventInv
  <2> HIDE DEF Basic
  <2> QED BY <2>3, <2>4, <2>5 DEF Basic
<1>7. CASE TailMasks
  <2>1. tail'.id = tail.id /\ tail'.kind = tail.kind /\ tail'.pc = "drmWait" /\ tail' \in [id : 0 .. MaxIds, kind : Kinds, pc : TailPcs]
    BY <1>7, GotoDoes DEF TailMasks, TailPcs
  <2>2. UNCHANGED events
    BY <1>7 DEF TailMasks
  <2>3. TypeOK'
    BY <1>7, <2>1, <2>2 DEF TailMasks, TypeOK, user, drv, dqe, events, hw, rec
  <2>4. TailInv'
    BY <1>7, <2>1 DEF TailMasks, TailInv, Disables, Kinds, TypeOK
  <2>5. EventInv'
    BY <1>7, <2>1, <2>2, EventsStay DEF TailMasks, Before, Awaiting, EventInv
  <2> HIDE DEF Basic
  <2> QED BY <2>3, <2>4, <2>5 DEF Basic
<1> QED BY <1>1, <1>2, <1>3, <1>4, <1>5, <1>6, <1>7

LEMMA TailSends ==
  ASSUME Basic, TailAlreadyStopped \/ TailStops \/ TailSkips \/ TailStarts \/ TailChecks \/ TailGivesUp \/ TailForces \/ TailEnds
  PROVE  Basic'
<1>1. CASE TailAlreadyStopped \/ TailStops
  <2>1. tail.pc \in {"begin", "stop", "stopLate"} /\ CrtcDown /\ UNCHANGED <<user, dqe, rec>>
    BY <1>1 DEF TailAlreadyStopped, TailStops
  <2>2. /\ tail' = NoTail /\ armed' = 0 /\ drmArmed' \subseteq Ids /\ refs' \in Int /\ sent' \in [Ids -> Nat] /\ EventInv'
    BY <2>1, DownDoes DEF Basic, TailInv
  <2>3. /\ UNCHANGED <<display, users, keepUnmask, faulted, locked, debugs, recovering, queued, rpc, saved>>
        /\ state' \in {"ON", "HIBERNATION", "OFF"} /\ frames' \in Nat /\ gaveUp' \in BOOLEAN
        /\ update' \in BOOLEAN /\ unmasked' \in BOOLEAN /\ busy' \in BOOLEAN /\ fsPending' \in BOOLEAN /\ fdPending' \in BOOLEAN
    <3>1. UNCHANGED <<display, users, keepUnmask, faulted, locked, debugs, recovering, queued, rpc, saved>>
      BY <2>1 DEF user, dqe, rec
    <3>2. CASE TailAlreadyStopped
      BY <3>1, <3>2 DEF TailAlreadyStopped, hw, Basic, TypeOK
    <3>3. CASE TailStops
      BY <3>1, <3>3 DEF TailStops
    <3> QED BY <1>1, <3>2, <3>3
  <2>4. TypeOK'
    BY <2>2, <2>3, NoTailIs DEF Basic, TypeOK
  <2>5. TailInv'
    BY <2>2, NoTailIs DEF TailInv
  <2> QED BY <2>2, <2>4, <2>5 DEF Basic
<1>2. CASE TailSkips
  <2>1. armed' = armed /\ drmArmed' \subseteq Ids /\ refs' \in Int /\ sent' = sent /\ EventInv'
    BY <1>2, SkipDoes DEF Basic
  <2>2. tail'.id = tail.id /\ tail'.kind = "skip" /\ tail'.pc = "wait" /\ tail' \in [id : 0 .. MaxIds, kind : Kinds, pc : TailPcs]
    BY <1>2, GotoDoes DEF TailSkips, TailPcs, Basic
  <2>3. TypeOK'
    <3>1. UNCHANGED <<user, drv, dqe, hw, rec>>
      BY <1>2 DEF TailSkips
    <3> QED BY <2>1, <2>2, <3>1 DEF Basic, TypeOK, user, drv, dqe, hw, rec
  <2>4. TailInv'
    BY <1>2, <2>2 DEF TailSkips, Basic, TailInv, Disables
  <2> QED BY <2>1, <2>3, <2>4 DEF Basic
<1>3. CASE TailStarts
  <2>1. armed' = tail.id /\ drmArmed' = drmArmed /\ refs' \in Int /\ sent' = sent /\ EventInv'
    BY <1>3, ArmDoes DEF Basic
  <2>2. tail'.id = tail.id /\ tail'.kind = tail.kind /\ tail'.pc = "wait" /\ tail' \in [id : 0 .. MaxIds, kind : Kinds, pc : TailPcs]
    BY <1>3, GotoDoes DEF TailStarts, TailPcs, Basic
  <2>3. TypeOK'
    <3>1. UNCHANGED <<user, state, gaveUp, dqe, update, busy, fdPending, rec>> /\ frames' = frames + 1
          /\ fsPending' = FALSE /\ unmasked' = TRUE
      BY <1>3 DEF TailStarts
    <3>2. frames' \in Nat
      BY <3>1 DEF Basic, TypeOK
    <3>3. armed' \in 0 .. MaxIds /\ drmArmed' \subseteq Ids /\ refs' \in Int /\ sent' \in [Ids -> Nat]
      BY <2>1 DEF Basic, TypeOK
    <3>4. TypeOK
      BY DEF Basic
    <3>5. /\ UNCHANGED <<display, users, state, gaveUp, keepUnmask, faulted, update, busy, fdPending>>
          /\ UNCHANGED <<locked, debugs, recovering, queued, rpc, saved>>
      BY <3>1 DEF user, dqe, rec
    <3>6. tail' \in [id : 0 .. MaxIds, kind : Kinds, pc : TailPcs]
          /\ fsPending' \in BOOLEAN /\ unmasked' \in BOOLEAN
      BY <2>2, <3>1
    <3> HIDE DEF Basic
    <3> QED BY <3>2, <3>3, <3>4, <3>5, <3>6 DEF TypeOK
  <2>4. TailInv'
    BY <1>3, <2>2 DEF TailStarts, Basic, TailInv, Disables
  <2> QED BY <2>1, <2>3, <2>4 DEF Basic
<1>4. CASE TailChecks \/ TailForces
  <2>1. /\ tail'.id = tail.id /\ tail'.kind = tail.kind /\ tail'.pc \in {"mask", "giveUp"}
        /\ tail' \in [id : 0 .. MaxIds, kind : Kinds, pc : TailPcs]
        /\ tail.pc \in Awaiting /\ tail'.pc \notin Before /\ tail.pc \notin Before
        /\ SendArmed \/ (UNCHANGED events /\ tail'.pc = "giveUp")
    BY <1>4, GotoDoes DEF TailChecks, TailForces, TailPcs, Basic, Awaiting, Before
  <2>2. EventInv' /\ armed' \in {0, armed} /\ drmArmed' = drmArmed /\ refs' \in Int /\ sent' \in [Ids -> Nat]
    <3>1. CASE SendArmed
      BY <2>1, <3>1, SendDoes DEF Basic
    <3>2. CASE UNCHANGED events /\ tail'.pc = "giveUp"
      BY <2>1, <3>2, EventsStay DEF Basic, events, TypeOK, Awaiting
    <3> QED BY <2>1, <3>1, <3>2
  <2>3. /\ UNCHANGED <<display, users, state, frames, gaveUp, keepUnmask, faulted, update, unmasked, busy, fdPending, locked, debugs, rpc, saved>>
        /\ fsPending' \in BOOLEAN /\ recovering' \in Nat /\ queued' \in BOOLEAN
    <3>1. CASE TailChecks
      BY <3>1 DEF TailChecks, user, drv, dqe, rec, Basic, TypeOK
    <3>2. CASE TailForces
      <4>1. UNCHANGED <<user, drv, dqe, hw, locked, debugs, rpc, saved>>
        BY <3>2 DEF TailForces
      <4>2. recovering' \in Nat /\ queued' \in BOOLEAN
        <5>1. recovering \in Nat /\ queued \in BOOLEAN
          BY DEF Basic, TypeOK
        <5>2. (recovering' = recovering + 1 /\ queued' = TRUE) \/ (recovering' = recovering /\ queued' = queued)
          BY <3>2 DEF TailForces, Trigger
        <5>3. recovering' \in Nat
          BY <5>1, <5>2
        <5>4. queued' \in BOOLEAN
          BY <5>1, <5>2, Zenon
        <5> QED BY <5>3, <5>4
      <4> QED BY <4>1, <4>2 DEF user, drv, dqe, hw, Basic, TypeOK
    <3> QED BY <1>4, <3>1, <3>2
  <2>4. TypeOK'
    <3>1. armed' \in 0 .. MaxIds
      BY <2>2, IdsAre DEF Basic, TypeOK
    <3> QED BY <2>1, <2>2, <2>3, <3>1 DEF Basic, TypeOK
  <2>5. TailInv'
    BY <2>1 DEF Basic, TailInv, Disables, Awaiting
  <2> QED BY <2>2, <2>4, <2>5 DEF Basic
<1>5. CASE TailGivesUp
  <2>1. /\ tail'.id = tail.id /\ tail'.kind = tail.kind /\ tail'.pc \in {"force", "forceOnly"} /\ tail.pc = "giveUp"
        /\ tail' \in [id : 0 .. MaxIds, kind : Kinds, pc : TailPcs] /\ UNCHANGED events
    BY <1>5, GotoDoes DEF TailGivesUp, TailPcs, Basic
  <2>2. EventInv'
    BY <2>1, EventsStay DEF Basic, Awaiting, Before
  <2>3. TypeOK'
    <3>1. UNCHANGED <<user, state, dqe, events, hw, rec>> /\ frames' = 0 /\ gaveUp' = TRUE
      BY <1>5 DEF TailGivesUp
    <3> QED BY <2>1, <3>1 DEF Basic, TypeOK, user, dqe, events, hw, rec
  <2>4. TailInv'
    BY <2>1 DEF Basic, TailInv, Disables
  <2> QED BY <2>2, <2>3, <2>4 DEF Basic
<1>6. CASE TailEnds
  <2>1. tail' = NoTail /\ tail.pc = "drmWait" /\ UNCHANGED <<armed, drmArmed, refs, sent>>
    BY <1>6 DEF TailEnds, events
  <2>2. armed = 0 /\ 0 \notin drmArmed
    BY <2>1, IdsAre DEF Basic, EventInv, Awaiting, TypeOK
  <2>3. \A i \in Ids : Open(i)' <=> Open(i)
    BY <2>1, NoTailIs DEF Open, Before
  <2>4. VblankBalanced'
    BY <2>1 DEF Basic, EventInv, VblankBalanced
  <2>5. EventInv'
    BY <2>1, <2>2, <2>3, <2>4, NoTailIs DEF Basic, EventInv
  <2>6. TypeOK'
    BY <1>6, <2>1, NoTailIs DEF TailEnds, Basic, TypeOK, user, drv, dqe, hw, rec
  <2>7. TailInv'
    BY <2>1, NoTailIs DEF TailInv
  <2> QED BY <2>5, <2>6, <2>7 DEF Basic
<1> QED BY <1>1, <1>2, <1>3, <1>4, <1>5, <1>6

LEMMA CommitBasic ==
  ASSUME Basic, NEW kind \in Kinds, Commit(kind),
         users' \in 0 .. MaxCommits, UNCHANGED <<drv, dqe, hw>>,
         UNCHANGED <<locked, debugs, recovering, queued, saved>>, rpc' \in RecoveryPcs
  PROVE  Basic'
<1>1. /\ tail' \in [id : 0 .. MaxIds, kind : Kinds, pc : TailPcs]
      /\ tail'.id \in Ids /\ tail'.pc = "begin" /\ UNCHANGED <<armed, drmArmed, refs>> /\ sent' \in [Ids -> Nat] /\ EventInv'
      /\ display' \in {"on", "sleep", "off"}
  BY CommitDoes DEF Basic
<1>2. TypeOK'
  BY <1>1 DEF Basic, TypeOK, drv, dqe, hw
<1>3. TailInv'
  BY <1>1 DEF TailInv
<1> QED BY <1>1, <1>2, <1>3 DEF Basic

(* Steps that leave the tail where it is. *)
LEMMA OtherBasic ==
  ASSUME Basic, tail' = tail,
         FrameStarts \/ FrameEnds \/ Irqs \/ DebugTriggers \/ Recovery \/ UNCHANGED vars
  PROVE  Basic'
<1>1. CASE FsIrq
  <2>1. EventInv' /\ armed' = 0 /\ drmArmed' = drmArmed /\ refs' \in Int /\ sent' \in [Ids -> Nat]
    BY <1>1, SendDoes DEF Basic, FsIrq
  <2>2. faulted' \subseteq Faults
    BY <1>1, FaultsGrow DEF FsIrq, Basic, TypeOK
  <2>3. TypeOK'
    <3>1. UNCHANGED <<user, tail, drv, keepUnmask, update, unmasked, busy, fdPending, rec>> /\ fsPending' = FALSE
      BY <1>1 DEF FsIrq
    <3>2. armed' \in 0 .. MaxIds /\ drmArmed' \subseteq Ids
      BY <2>1, IdsAre DEF Basic, TypeOK
    <3>4. fsPending' \in BOOLEAN
      BY <3>1
    <3>3. UNCHANGED <<display, users, tail, state, frames, gaveUp, keepUnmask, update, unmasked, busy, fdPending,
                      locked, debugs, recovering, queued, rpc, saved>>
      BY <3>1 DEF user, drv, rec
    <3> QED BY <2>1, <2>2, <3>2, <3>3, <3>4 DEF Basic, TypeOK
  <2> QED BY <2>1, <2>3 DEF Basic, TailInv, Disables
<1>2. CASE TeIrq
  <2>1. EventInv' /\ armed' = armed /\ drmArmed' = {} /\ refs' \in Int /\ sent' \in [Ids -> Nat]
    BY <1>2, TeDoes DEF Basic
  <2>2. TypeOK'
    BY <1>2, <2>1 DEF TeIrq, Basic, TypeOK, user, drv, dqe, hw, rec
  <2> QED BY <2>1, <2>2 DEF Basic, TailInv, Disables
<1>3. CASE FrameStarts \/ FrameEnds \/ DoneIrq \/ DimmingStartIrq \/ DimmingEndIrq
  <2>1. faulted' \subseteq Faults
    BY <1>3, FaultsGrow DEF FrameStarts, FrameEnds, DoneIrq, DimmingStartIrq, DimmingEndIrq, Basic, TypeOK, dqe
  <2>2. UNCHANGED events
    BY <1>3 DEF FrameStarts, FrameEnds, DoneIrq, DimmingStartIrq, DimmingEndIrq
  <2>3. /\ UNCHANGED <<user, state, gaveUp, rec>> /\ frames' \in Nat /\ keepUnmask' \in BOOLEAN
        /\ update' \in BOOLEAN /\ unmasked' \in BOOLEAN /\ busy' \in BOOLEAN /\ fsPending' \in BOOLEAN /\ fdPending' \in BOOLEAN
    <3>1. CASE FrameStarts
      BY <3>1 DEF FrameStarts, Basic, TypeOK, drv
    <3>5. CASE FrameEnds
      BY <3>5 DEF FrameEnds, Basic, TypeOK, drv, dqe
    <3>2. CASE DoneIrq
      <4>1. frames' \in Nat
        BY <3>2 DEF DoneIrq, Basic, TypeOK
      <4> QED BY <3>2, <4>1 DEF DoneIrq, Basic, TypeOK, dqe
    <3>3. CASE DimmingStartIrq
      BY <3>3 DEF DimmingStartIrq, Basic, TypeOK, drv
    <3>4. CASE DimmingEndIrq
      <4> DEFINE u == unmasked /\ armed # 0
      <4>1. u \in BOOLEAN
        OBVIOUS
      <4>2. unmasked' = u
        BY <3>4 DEF DimmingEndIrq
      <4> HIDE DEF u
      <4> QED BY <3>4, <4>1, <4>2 DEF DimmingEndIrq, Basic, TypeOK, drv
    <3> QED BY <1>3, <3>1, <3>2, <3>3, <3>4, <3>5
  <2>4. TypeOK'
    BY <2>1, <2>2, <2>3 DEF Basic, TypeOK, user, events, rec
  <2>5. EventInv'
    BY <2>2, EventsStay DEF Basic, EventInv
  <2> QED BY <2>4, <2>5 DEF Basic, TailInv, Disables
<1>4. CASE DebugTriggers \/ Recovery \/ UNCHANGED vars
  <2>1. faulted' \subseteq Faults
    BY <1>4, FaultsGrow DEF DebugTriggers, Recovery, RecoveryStarts, RecoverySuspends, RecoveryBacksOff, RecoveryRetries,
       RecoveryResumes, RecoveryResumed, RecoveryEnds, dqe, vars, Basic, TypeOK
  <2>2. UNCHANGED <<user, events, drv, keepUnmask, hw>>
    BY <1>4, CommitDoes DEF DebugTriggers, Recovery, RecoveryStarts, RecoverySuspends, RecoveryBacksOff, RecoveryRetries,
       RecoveryResumes, RecoveryResumed, RecoveryEnds, recRest, dqe, vars, Basic, TypeOK, Kinds
  <2>3. /\ locked' \in BOOLEAN /\ debugs' \in 0 .. MaxDebug /\ recovering' \in Nat /\ queued' \in BOOLEAN
        /\ rpc' \in RecoveryPcs /\ saved' \in BOOLEAN
    <3>1. CASE DebugTriggers
      BY <3>1, MaxDebugAssumption DEF DebugTriggers, Trigger, Basic, TypeOK
    <3>2. CASE RecoveryStarts \/ RecoveryBacksOff \/ RecoveryRetries
      BY <3>2 DEF RecoveryStarts, RecoveryBacksOff, RecoveryRetries, recRest, Basic, TypeOK, RecoveryPcs
    <3>3. CASE RecoverySuspends \/ RecoveryResumes
      BY <3>3 DEF RecoverySuspends, RecoveryResumes, Basic, TypeOK, RecoveryPcs
    <3>4. CASE RecoveryResumed
      BY <3>4 DEF RecoveryResumed, recRest, Basic, TypeOK, RecoveryPcs
    <3>6. CASE RecoveryEnds
      BY <3>6 DEF RecoveryEnds, recRest, Basic, TypeOK, RecoveryPcs
    <3>5. CASE UNCHANGED vars
      BY <3>5 DEF vars, rec, Basic, TypeOK
    <3> QED BY <1>4, <3>1, <3>2, <3>3, <3>4, <3>5, <3>6 DEF Recovery
  <2>4. TypeOK'
    BY <2>1, <2>2, <2>3 DEF Basic, TypeOK, user, events, drv, hw
  <2>5. EventInv'
    BY <2>2, EventsStay DEF Basic, EventInv
  <2> QED BY <2>4, <2>5 DEF Basic, TailInv, Disables
<1> QED BY <1>1, <1>2, <1>3, <1>4 DEF Irqs

(* A step is one of the tail, a new commit, or leaves the tail alone. *)
Commits == UserCommits \/ (RecoverySuspends /\ display # "off") \/ (RecoveryResumes /\ saved)
Others  == FrameStarts \/ FrameEnds \/ Irqs \/ DebugTriggers \/ Recovery \/ UNCHANGED vars

LEMMA StepIs == ASSUME Basic, [Next]_vars PROVE Tail \/ Commits \/ (tail' = tail /\ Others)
<1>1. CASE FrameStarts \/ FrameEnds \/ Irqs \/ DebugTriggers \/ UNCHANGED vars
  <2>1. tail' = tail
    BY <1>1 DEF FrameStarts, FrameEnds, Irqs, FsIrq, DoneIrq, DimmingStartIrq, DimmingEndIrq, TeIrq, DebugTriggers, vars
  <2> QED BY <1>1, <2>1 DEF Others
<1>2. CASE Recovery /\ ~(RecoverySuspends /\ display # "off") /\ ~(RecoveryResumes /\ saved)
  <2>1. tail' = tail
    BY <1>2 DEF Recovery, RecoveryStarts, RecoverySuspends, RecoveryBacksOff, RecoveryRetries, RecoveryResumes,
       RecoveryResumed, RecoveryEnds, recRest
  <2> QED BY <1>2, <2>1 DEF Others
<1> QED BY <1>1, <1>2 DEF Next, Commits

(* What a new commit of the user or the recovery finds and leaves. *)
LEMMA CommitIs ==
  ASSUME Basic, Commits
  PROVE  \E kind \in Kinds :
           /\ Commit(kind) /\ tail.pc = "idle" /\ tail'.kind = kind /\ tail'.pc = "begin" /\ armed = 0 /\ armed' = 0
           /\ UNCHANGED <<drv, dqe, hw, locked, debugs, recovering, queued, saved>>
           /\ display' = CASE kind = "sleep" -> "sleep" [] kind = "off" -> "off" [] OTHER -> "on"
           /\ \/ UserCommits /\ ~locked /\ users' \in 0 .. MaxCommits /\ rpc' = rpc
              \/ RecoverySuspends /\ kind = "off" /\ users' = users /\ rpc = "suspend" /\ rpc' = "suspending"
              \/ RecoveryResumes /\ saved /\ kind = "frame" /\ users' = users /\ rpc = "suspending" /\ rpc' = "resuming"
<1>1. CASE UserCommits
  <2>1. PICK kind \in Kinds : Commit(kind) /\ ~locked /\ users < MaxCommits /\ users' = users + 1 /\ UNCHANGED <<drv, dqe, hw, rec>>
    BY <1>1 DEF UserCommits
  <2>2. users' \in 0 .. MaxCommits
    BY <2>1, MaxCommitsAssumption DEF Basic, TypeOK
  <2> QED BY <1>1, <2>1, <2>2, CommitDoes DEF rec, Basic
<1>2. CASE RecoverySuspends /\ display # "off"
  <2>1. Commit("off") /\ UNCHANGED <<users, drv, dqe, hw, locked, debugs, recovering, queued, saved>>
        /\ rpc = "suspend" /\ rpc' = "suspending" /\ "off" \in Kinds
    BY <1>2 DEF RecoverySuspends, Kinds
  <2> QED BY <1>2, <2>1, CommitDoes DEF Basic
<1>3. CASE RecoveryResumes /\ saved
  <2>1. Commit("frame") /\ UNCHANGED <<users, drv, dqe, hw, locked, debugs, recovering, queued, saved>>
        /\ rpc = "suspending" /\ rpc' = "resuming" /\ "frame" \in Kinds
    BY <1>3 DEF RecoveryResumes, Kinds
  <2> QED BY <1>3, <2>1, CommitDoes DEF Basic
<1> QED BY <1>1, <1>2, <1>3 DEF Commits

LEMMA NextBasic == Basic /\ [Next]_vars => Basic'
<1> SUFFICES ASSUME Basic, [Next]_vars PROVE Basic'
  OBVIOUS
<1>1. CASE Commits
  BY <1>1, CommitIs, CommitBasic DEF Basic, TypeOK, RecoveryPcs
<1>2. CASE Tail
  BY <1>2, TailMoves, TailSends DEF Tail
<1>3. CASE tail' = tail /\ Others
  BY <1>3, OtherBasic DEF Others
<1> QED BY <1>1, <1>2, <1>3, StepIs

LEMMA InitBasic == Init => Basic
<1> SUFFICES ASSUME Init PROVE Basic
  OBVIOUS
<1>1. sent \in [Ids -> Nat] /\ \A i \in Ids : sent[i] = 1
  BY DEF Init
<1>2. tail = NoTail /\ armed = 0 /\ drmArmed = {} /\ refs = 0
  BY DEF Init
<1>3. TypeOK
  <2>1. /\ display \in {"on", "sleep", "off"} /\ locked \in BOOLEAN /\ state \in {"ON", "HIBERNATION", "OFF"}
        /\ gaveUp \in BOOLEAN /\ keepUnmask \in BOOLEAN /\ update \in BOOLEAN /\ unmasked \in BOOLEAN
        /\ busy \in BOOLEAN /\ fsPending \in BOOLEAN /\ fdPending \in BOOLEAN /\ queued \in BOOLEAN
        /\ rpc \in RecoveryPcs /\ saved \in BOOLEAN
    BY DEF Init, RecoveryPcs
  <2>2. users \in 0 .. MaxCommits /\ debugs \in 0 .. MaxDebug /\ frames \in Nat /\ recovering \in Nat
    BY MaxCommitsAssumption, MaxDebugAssumption DEF Init
  <2>3. armed \in 0 .. MaxIds /\ drmArmed \subseteq Ids /\ refs \in Int /\ faulted \subseteq Faults
    BY IdsAre DEF Init
  <2>4. tail \in [id : 0 .. MaxIds, kind : Kinds, pc : TailPcs]
    BY <1>2, NoTailIs
  <2> QED BY <1>1, <2>1, <2>2, <2>3, <2>4 DEF TypeOK
<1>4. TailInv
  BY <1>2, NoTailIs DEF TailInv
<1>5. \A i \in Ids : ~Open(i)
  BY <1>2, NoTailIs, IdsAre DEF Open
<1>6. EventInv
  BY <1>1, <1>2, <1>5, FS_EmptySet DEF EventInv, VblankBalanced
<1> QED BY <1>3, <1>4, <1>6 DEF Basic

-----------------------------------------------------------------------------
(* Completion means that the frame has started *)

(* How the tail gets where the invariants look at it. *)
LEMMA TailGoes ==
  ASSUME Basic, Tail
  PROVE  /\ tail'.pc # "begin"
         /\ tail'.pc = "starting" => TailFlushes
         /\ tail'.pc = "wait" => (TailSkips /\ tail'.kind = "skip") \/ TailStarts
         /\ tail'.pc = "late" => TailFlipTimeout
         /\ tail'.pc = "giveUp" => TailChecks /\ ~fsPending
         /\ tail'.pc = "stop" => TailWaitsFrameDone
         /\ tail'.pc # "idle" => tail'.kind = tail.kind /\ tail'.id = tail.id
<1>1. CASE TailAlreadyStopped \/ TailStops \/ TailEnds
  BY <1>1, NoTailIs DEF TailAlreadyStopped, TailStops, TailEnds, CrtcDown
<1>2. CASE TailWaitsFrameDone \/ TailFrameDoneTimeout \/ TailEnables \/ TailFlushes
  BY <1>2, GotoDoes DEF TailWaitsFrameDone, TailFrameDoneTimeout, TailEnables, TailFlushes, TailPcs, Basic
<1>3. CASE TailSkips \/ TailStarts \/ TailFlipDone \/ TailFlipTimeout
  BY <1>3, GotoDoes DEF TailSkips, TailStarts, TailFlipDone, TailFlipTimeout, TailPcs, Basic
<1>4. CASE TailChecks
  BY <1>4, GotoDoes DEF TailChecks, TailPcs, Basic
<1>5. CASE TailGivesUp \/ TailForces \/ TailMasks
  BY <1>5, GotoDoes DEF TailGivesUp, TailForces, TailMasks, TailPcs, Basic
<1> QED BY <1>1, <1>2, <1>3, <1>4, <1>5 DEF Tail

(* What the steps beside the tail do to the frame. *)
LEMMA OthersDo ==
  ASSUME Basic, tail' = tail, Others
  PROVE  \/ FrameStarts /\ UNCHANGED <<drv, keepUnmask, armed, unmasked, fdPending>>
         \/ FsIrq /\ UNCHANGED <<drv, keepUnmask, update, unmasked, busy, fdPending>> /\ armed' = 0 /\ fsPending /\ ~fsPending'
         \/ DimmingStartIrq /\ UNCHANGED <<drv, armed, update, busy, fsPending, fdPending>>
         \/ /\ FrameEnds \/ DoneIrq \/ DimmingEndIrq \/ UNCHANGED <<drv, keepUnmask, unmasked, busy, fdPending>>
            /\ UNCHANGED <<state, gaveUp, update, fsPending, armed>>
            /\ (keepUnmask' => keepUnmask) /\ (unmasked' => unmasked)
<1>1. CASE FrameStarts
  BY <1>1 DEF FrameStarts, events
<1>2. CASE FsIrq
  BY <1>2 DEF FsIrq, SendArmed
<1>3. CASE DimmingStartIrq
  BY <1>3 DEF DimmingStartIrq, events
<1>4. CASE FrameEnds \/ DoneIrq \/ DimmingEndIrq \/ TeIrq
  BY <1>4 DEF FrameEnds, DoneIrq, DimmingEndIrq, TeIrq, drv, dqe, events, hw
<1>5. CASE DebugTriggers \/ UNCHANGED vars
  BY <1>5 DEF DebugTriggers, vars, drv, dqe, events, hw
<1>6. CASE Recovery
  <2>1. UNCHANGED <<drv, keepUnmask, events, hw>>
    BY <1>6, CommitDoes DEF Recovery, RecoveryStarts, RecoverySuspends, RecoveryBacksOff, RecoveryRetries, RecoveryResumes,
       RecoveryResumed, RecoveryEnds, recRest, dqe, Basic, Kinds
  <2> QED BY <2>1 DEF drv, events, hw
<1> QED BY <1>1, <1>2, <1>3, <1>4, <1>5, <1>6 DEF Others, Irqs

LEMMA NextShown == Basic /\ ShownInv /\ [Next]_vars => ShownInv'
<1> SUFFICES ASSUME Basic, ShownInv, [Next]_vars, tail'.kind = "frame", tail'.pc = "wait", fsPending' \/ armed' = 0
             PROVE  ~update'
  BY DEF ShownInv
<1>1. CASE Tail
  <2>1. TailStarts
    BY <1>1, TailGoes
  <2> QED BY <2>1, ArmDoes DEF TailStarts, Basic
<1>2. CASE Commits
  BY <1>2, CommitIs
<1>3. CASE tail' = tail /\ Others
  BY <1>3, OthersDo DEF ShownInv, FrameStarts
<1> QED BY <1>1, <1>2, <1>3, StepIs

(* Faults are never forgotten. *)
LEMMA FaultsStay == ASSUME Basic, [Next]_vars, NEW F PROVE Fair(F)' => Fair(F)
<1>1. CASE Commits
  BY <1>1, CommitIs DEF dqe, Fair
<1>2. CASE Tail
  BY <1>2 DEF Fair, dqe, Tail, TailAlreadyStopped, TailWaitsFrameDone, TailFrameDoneTimeout, TailStops,
     TailEnables, TailSkips, TailFlushes, TailStarts, TailFlipDone, TailFlipTimeout, TailChecks, TailGivesUp, TailForces,
     TailMasks, TailEnds
<1>3. CASE Others
  <2>1. faulted \subseteq faulted'
    BY <1>3, FaultsGrow DEF Others, FrameStarts, FrameEnds, Irqs, FsIrq, DoneIrq, DimmingStartIrq, DimmingEndIrq, TeIrq, DebugTriggers,
       Recovery, RecoveryStarts, RecoverySuspends, RecoveryBacksOff, RecoveryRetries, RecoveryResumes, RecoveryResumed,
       RecoveryEnds, dqe, vars, Basic, TypeOK
  <2> QED BY <2>1 DEF Fair
<1> QED BY <1>1, <1>2, <1>3, StepIs

-----------------------------------------------------------------------------
(* The trigger *)

LEMMA NextTrigger == Basic /\ TriggerInv /\ [Next]_vars => TriggerInv'
<1> SUFFICES ASSUME Basic, TriggerInv, [Next]_vars, Fair({"dimming"})'
             PROVE  ~keepUnmask' /\ (unmasked' => tail'.kind = "frame" /\ tail'.pc \in Awaiting \cup {"mask"})
  BY DEF TriggerInv
<1>1. ~keepUnmask /\ (unmasked => tail.kind = "frame" /\ tail.pc \in Awaiting \cup {"mask"})
  BY FaultsStay DEF TriggerInv
<1>2. CASE Commits
  <2>1. ~unmasked
    BY <1>1, <1>2, CommitIs DEF Awaiting
  <2> QED BY <1>1, <1>2, <2>1, CommitIs DEF dqe, hw
<1>3. CASE Tail
  <2>1. CASE TailAlreadyStopped \/ TailWaitsFrameDone \/ TailFrameDoneTimeout \/ TailEnables \/ TailSkips \/ TailFlushes \/ TailEnds
    <3>1. ~unmasked
      BY <1>1, <2>1 DEF Awaiting, TailAlreadyStopped, TailWaitsFrameDone, TailFrameDoneTimeout, TailEnables, TailSkips,
         TailFlushes, TailEnds
    <3> QED BY <1>1, <2>1, <3>1 DEF TailAlreadyStopped, TailWaitsFrameDone, TailFrameDoneTimeout, TailEnables, TailSkips,
         TailFlushes, TailEnds, dqe, hw
  <2>2. CASE TailStops
    BY <1>1, <2>2 DEF TailStops, dqe
  <2>3. CASE TailStarts
    <3>1. tail'.kind = "frame" /\ tail'.pc = "wait"
      BY <2>3, GotoDoes DEF TailStarts, Basic, TailInv, TailPcs
    <3> QED BY <1>1, <2>3, <3>1 DEF TailStarts, dqe, Awaiting
  <2>4. CASE TailFlipDone \/ TailFlipTimeout \/ TailChecks \/ TailGivesUp \/ TailForces
    <3>1. tail'.kind = tail.kind /\ tail'.pc \in Awaiting \cup {"mask"}
      BY <2>4, GotoDoes DEF TailFlipDone, TailFlipTimeout, TailChecks, TailGivesUp, TailForces, Basic, TailPcs, Awaiting
    <3>2. unmasked' = unmasked /\ keepUnmask' = keepUnmask
      BY <2>4 DEF TailFlipDone, TailFlipTimeout, TailChecks, TailGivesUp, TailForces, dqe, hw
    <3> QED BY <1>1, <3>1, <3>2
  <2>5. CASE TailMasks
    BY <1>1, <2>5 DEF TailMasks, dqe
  <2> QED BY <1>3, <2>1, <2>2, <2>3, <2>4, <2>5 DEF Tail
<1>4. CASE tail' = tail /\ Others
  <2>1. ~DimmingStartIrq
    BY FaultsGrow DEF DimmingStartIrq, Basic, TypeOK, Fair
  <2>2. UNCHANGED <<keepUnmask, unmasked>> \/ ((keepUnmask' => keepUnmask) /\ (unmasked' => unmasked))
    BY <1>4, <2>1, OthersDo
  <2> QED BY <1>1, <1>4, <2>2
<1> QED BY <1>2, <1>3, <1>4, StepIs

(* Without dimming the trigger is closed before a frame is requested and     *)
(* before DECON is stopped.                                                  *)
LEMMA Closed ==
  ASSUME TriggerInv, Fair({"dimming"}), tail.pc \notin Awaiting \cup {"mask"} \/ tail.kind # "frame"
  PROVE  ~unmasked /\ ~keepUnmask
BY DEF TriggerInv

-----------------------------------------------------------------------------
(* Only a frame that did not start is given up *)

LEMMA NextStuck == Basic /\ TriggerInv /\ StuckInv /\ [Next]_vars => StuckInv'
<1> DEFINE F == {"late_irq", "late_start", "dimming"}
           P == /\ tail.pc = "late" => armed # 0
                /\ tail.pc \in {"wait", "late"} /\ armed # 0 /\ ~fsPending => update
                /\ tail.pc \in {"starting", "giveUp"} => update
<1> SUFFICES ASSUME Basic, TriggerInv, StuckInv, [Next]_vars, Fair(F)', tail'.kind = "frame"
             PROVE  P'
  BY DEF StuckInv
<1>1. Fair(F) /\ (tail.kind = "frame" => P)
  BY FaultsStay DEF StuckInv
<1>2. CASE Commits
  BY <1>2, CommitIs
<1>3. CASE Tail
  <2>1. CASE TailFlushes
    BY <2>1, GotoDoes DEF TailFlushes, TailPcs, Basic
  <2>2. CASE TailStarts
    <3>1. tail.kind = "frame" /\ tail.pc = "starting" /\ update' = update /\ tail'.pc = "wait"
      BY <2>2, GotoDoes DEF TailStarts, TailPcs, Basic, TailInv
    <3> QED BY <1>1, <3>1
  <2>3. CASE TailFlipTimeout
    <3>1. tail.kind = "frame" /\ tail.pc = "wait" /\ tail'.pc = "late" /\ UNCHANGED <<armed, update, fsPending>> /\ sent[tail.id] = 0
      BY <2>3, GotoDoes DEF TailFlipTimeout, TailPcs, Basic, events, hw
    <3>2. tail.id \in Ids /\ tail.id \notin drmArmed /\ ~(tail.pc \in Before)
      BY <3>1 DEF Basic, TailInv, EventInv, Before
    <3>3. Open(tail.id)
      BY <3>1, <3>2 DEF Basic, EventInv
    <3>4. armed # 0
      BY <3>2, <3>3, IdsAre DEF Open
    <3> QED BY <1>1, <3>1, <3>4
  <2>4. CASE TailChecks /\ ~fsPending
    <3>1. tail.kind = "frame" /\ tail.pc = "late" /\ tail'.pc = "giveUp" /\ update' = update
      BY <2>4, GotoDoes DEF TailChecks, TailPcs, Basic
    <3> QED BY <1>1, <2>4, <3>1
  <2>5. CASE tail'.pc \notin {"starting", "wait", "late", "giveUp"}
    BY <2>5
  <2> QED BY <1>3, <2>1, <2>2, <2>3, <2>4, <2>5, TailGoes
<1>4. CASE tail' = tail /\ Others
  <2>1. P
    BY <1>1, <1>4
  <2>2. CASE FrameStarts
    <3>1. unmasked /\ armed' = armed /\ fsPending' = TRUE
      BY <2>2, OthersDo, <1>4 DEF FrameStarts, events
    <3>2. tail.pc # "starting"
      BY <1>1, <3>1, Closed DEF Fair, Awaiting
    <3>3. tail.pc # "giveUp"
      <4>1. SUFFICES ASSUME tail.pc = "giveUp" PROVE FALSE
        OBVIOUS
      <4>2. update /\ GivenUp
        BY <2>1, <4>1 DEF GivenUp
      <4>3. Fault("late_start", GivenUp)
        BY <2>2, <4>2 DEF FrameStarts
      <4>4. "late_start" \in faulted'
        BY <4>2, <4>3, FaultsGrow DEF Basic, TypeOK
      <4> QED BY <4>4 DEF Fair
    <3> QED BY <1>4, <2>1, <3>1, <3>2, <3>3
  <2>3. CASE FsIrq
    <3>1. tail.pc # "late" /\ tail.pc # "starting"
      <4>1. tail.pc # "starting" /\ Fault("late_irq", tail.pc = "late")
        BY <2>3 DEF FsIrq, Unlocked
      <4>2. tail.pc = "late" => "late_irq" \in faulted'
        BY <4>1, FaultsGrow DEF Basic, TypeOK
      <4> QED BY <4>1, <4>2 DEF Fair
    <3>2. armed' = 0 /\ update' = update
      BY <2>3 DEF FsIrq, SendArmed
    <3> QED BY <1>4, <2>1, <3>1, <3>2
  <2>4. CASE UNCHANGED <<update, fsPending, armed>>
    BY <1>4, <2>1, <2>4
  <2> QED BY <1>4, <2>2, <2>3, <2>4, OthersDo
<1> QED BY <1>2, <1>3, <1>4, StepIs

-----------------------------------------------------------------------------
(* Frames in flight are counted *)

LEMMA OneIs == ASSUME NEW b PROVE One(b) \in {0, 1} /\ (b => One(b) = 1) /\ (~b => One(b) = 0)
BY DEF One

(* The count only needs to grow when one of the frames it stands for is new. *)
LEMMA CountKept ==
  ASSUME TypeOK, CountInv, Fair({"dimming", "late_mask"}), ~gaveUp, frames' = frames,
         busy' => busy, fdPending' => fdPending, update' /\ tail'.pc # "starting" => update /\ tail.pc # "starting"
  PROVE  frames' >= One(busy') + One(fdPending') + One(update' /\ tail'.pc # "starting")
<1> DEFINE u == update /\ tail.pc # "starting"
           v == update' /\ tail'.pc # "starting"
<1>1. frames >= One(busy) + One(fdPending) + One(u) /\ frames \in Nat
  BY DEF CountInv, TypeOK
<1>2. One(busy') <= One(busy)
  BY OneIs
<1>3. One(fdPending') <= One(fdPending)
  BY OneIs
<1>4. One(v) <= One(u)
  BY DEF One
<1>5. One(busy) \in {0, 1} /\ One(fdPending) \in {0, 1} /\ One(u) \in {0, 1} /\ One(busy') \in {0, 1} /\ One(fdPending') \in {0, 1} /\ One(v) \in {0, 1}
  BY OneIs
<1> HIDE DEF u
<1>6. frames' >= One(busy') + One(fdPending') + One(v)
  <2> HIDE DEF v
  <2> QED BY <1>1, <1>2, <1>3, <1>4, <1>5
<1> QED BY <1>6

LEMMA NextCount == Basic /\ TriggerInv /\ CountInv /\ [Next]_vars => CountInv'
<1> DEFINE F == {"dimming", "late_mask"}
           P == /\ frames >= One(busy) + One(fdPending) + One(update /\ tail.pc # "starting")
                /\ tail.pc = "stop" => ~busy
<1> SUFFICES ASSUME Basic, TriggerInv, CountInv, [Next]_vars, Fair(F)', ~gaveUp' PROVE P'
  BY DEF CountInv
<1>1. Fair(F) /\ Fair({"dimming"}) /\ (~gaveUp => P) /\ TypeOK
  <2>1. Fair(F) /\ TypeOK
    BY FaultsStay DEF Basic
  <2> QED BY <2>1 DEF CountInv, Fair
<1>2. CASE Commits
  <2>1. UNCHANGED <<frames, gaveUp, busy, fdPending, update>> /\ tail'.pc = "begin" /\ tail.pc = "idle"
    BY <1>2, CommitIs DEF drv, hw
  <2> QED BY <1>1, <2>1, CountKept
<1>3. CASE Tail
  <2>1. CASE TailStops
    <3>1. frames' = 0 /\ ~busy' /\ ~fdPending' /\ ~update'
      BY <2>1 DEF TailStops
    <3> DEFINE v == update' /\ tail'.pc # "starting"
    <3>2. One(busy') = 0 /\ One(fdPending') = 0
      BY <3>1 DEF One
    <3>3. One(v) = 0
      BY <3>1 DEF One
    <3>4. frames' >= One(busy') + One(fdPending') + One(v)
      <4> HIDE DEF v
      <4> QED BY <3>1, <3>2, <3>3
    <3> QED BY <3>1, <3>4
  <2>2. CASE TailStarts
    <3>1. frames' = frames + 1 /\ UNCHANGED <<gaveUp, busy, fdPending, update>> /\ tail.pc = "starting" /\ tail'.pc = "wait"
      BY <2>2, GotoDoes, <1>1 DEF TailStarts, TailPcs
    <3> DEFINE u == update /\ tail.pc # "starting"
               v == update' /\ tail'.pc # "starting"
    <3>2. One(u) = 0 /\ One(v) \in {0, 1}
      BY <3>1, OneIs
    <3>3. frames >= One(busy) + One(fdPending) + One(u) /\ frames \in Nat
      BY <1>1, <3>1 DEF TypeOK
    <3>4. One(busy) \in {0, 1} /\ One(fdPending) \in {0, 1} /\ One(busy') = One(busy) /\ One(fdPending') = One(fdPending)
      BY <3>1, OneIs
    <3> HIDE DEF u, v
    <3>5. frames' >= One(busy') + One(fdPending') + One(v)
      <4> HIDE DEF v
      <4> QED BY <3>1, <3>2, <3>3, <3>4
    <3> QED BY <3>1, <3>5 DEF v
  <2>3. CASE TailWaitsFrameDone
    <3>1. UNCHANGED <<frames, gaveUp, busy, fdPending, update>> /\ tail'.pc = "stop" /\ tail.pc = "begin" /\ (frames = 0 \/ ~busy)
      BY <2>3, <1>1, GotoDoes DEF TailWaitsFrameDone, TailPcs, drv, hw
    <3>2. ~busy
      <4> DEFINE u == update /\ tail.pc # "starting"
      <4>1. frames >= One(busy) + One(fdPending) + One(u)
        BY <1>1, <3>1
      <4>2. One(busy) \in {0, 1} /\ One(fdPending) \in {0, 1} /\ One(u) \in {0, 1} /\ (busy => One(busy) = 1)
        BY OneIs
      <4> HIDE DEF u
      <4> QED BY <3>1, <4>1, <4>2
    <3> QED BY <1>1, <3>1, <3>2, CountKept
  <2>4. CASE ~TailStops /\ ~TailStarts /\ ~TailWaitsFrameDone
    <3>1. ~TailGivesUp
      BY DEF TailGivesUp
    <3>2. UNCHANGED <<frames, gaveUp, busy, fdPending>> /\ (update' = update \/ TailFlushes) /\ tail.pc # "starting"
      <4>1. CASE TailAlreadyStopped \/ TailFrameDoneTimeout \/ TailEnables \/ TailSkips \/ TailFlushes
        BY <4>1 DEF TailAlreadyStopped, TailFrameDoneTimeout, TailEnables, TailSkips, TailFlushes, drv, hw
      <4>2. CASE TailFlipDone \/ TailFlipTimeout \/ TailChecks \/ TailForces \/ TailMasks \/ TailEnds
        BY <4>2 DEF TailFlipDone, TailFlipTimeout, TailChecks, TailForces, TailMasks, TailEnds, drv, hw
      <4> QED BY <1>3, <2>4, <3>1, <4>1, <4>2 DEF Tail
    <3>4. tail'.pc # "stop"
      BY <1>3, <2>4, TailGoes
    <3>3. TailFlushes => tail'.pc = "starting"
      BY <1>1, GotoDoes DEF TailFlushes, TailPcs
    <3> QED BY <1>1, <3>2, <3>3, <3>4, CountKept
  <2> QED BY <2>1, <2>2, <2>3, <2>4
<1>4. CASE tail' = tail /\ Others
  <2>1. ~gaveUp /\ P
    BY <1>1, <1>4, OthersDo DEF drv
  <2> DEFINE u == update /\ tail.pc # "starting"
             v == update' /\ tail'.pc # "starting"
  <2>2. One(busy) \in {0, 1} /\ One(fdPending) \in {0, 1} /\ One(u) \in {0, 1} /\ One(busy') \in {0, 1} /\ One(fdPending') \in {0, 1} /\ One(v) \in {0, 1}
    BY OneIs
  <2>3. frames >= One(busy) + One(fdPending) + One(u) /\ frames \in Nat
    BY <1>1, <2>1 DEF TypeOK
  <2>4. CASE FrameStarts
    <3>1. frames' = frames /\ fdPending' = fdPending /\ unmasked /\ ~busy /\ busy' /\ ~update'
      BY <2>4 DEF FrameStarts, drv
    <3>2. ~keepUnmask /\ tail.pc # "starting" /\ tail.pc # "stop"
      BY <1>1, <3>1, Closed DEF TriggerInv, Awaiting
    <3>3. update
      <4>1. SUFFICES ASSUME ~update PROVE FALSE
        OBVIOUS
      <4>2. Fault("late_mask", ~keepUnmask)
        BY <2>4, <4>1 DEF FrameStarts
      <4>3. "late_mask" \in faulted'
        BY <1>1, <3>2, <4>2, FaultsGrow DEF TypeOK
      <4> QED BY <4>3 DEF Fair
    <3>4. One(u) = 1 /\ One(busy) = 0 /\ One(busy') = 1 /\ One(v) = 0 /\ One(fdPending') = One(fdPending)
      <4>1. One(u) = 1
        BY <3>2, <3>3 DEF One
      <4>2. One(v) = 0
        BY <3>1 DEF One
      <4> QED BY <3>1, <4>1, <4>2 DEF One
    <3> HIDE DEF u, v
    <3>5. frames' >= One(busy') + One(fdPending') + One(v)
      <4>1. frames' = frames
        BY <3>1
      <4> QED BY <2>2, <2>3, <3>4, <4>1
    <3> QED BY <1>4, <3>2, <3>5 DEF v
  <2>5. CASE FrameEnds
    <3>1. frames' = frames /\ update' = update /\ busy /\ ~busy' /\ fdPending'
      BY <2>5 DEF FrameEnds, drv
    <3>2. One(busy) = 1 /\ One(busy') = 0 /\ One(v) = One(u)
      <4>1. One(v) = One(u)
        BY <1>4, <3>1
      <4> QED BY <3>1, <4>1 DEF One
    <3> HIDE DEF u, v
    <3>3. frames' >= One(busy') + One(fdPending') + One(v)
      <4>1. frames' = frames
        BY <3>1
      <4> QED BY <2>2, <2>3, <3>2, <4>1
    <3> QED BY <3>1, <3>3 DEF v
  <2>6. CASE DoneIrq
    <3>1. frames' = (IF frames > 0 THEN frames - 1 ELSE 0) /\ update' = update /\ busy' = busy /\ fdPending /\ ~fdPending'
      BY <2>6 DEF DoneIrq
    <3>2. One(fdPending) = 1 /\ One(fdPending') = 0 /\ One(busy') = One(busy) /\ One(v) = One(u)
      <4>1. One(v) = One(u)
        BY <1>4, <3>1
      <4> QED BY <3>1, <4>1 DEF One
    <3> HIDE DEF u, v
    <3>3. frames' >= One(busy') + One(fdPending') + One(v)
      <4>1. frames' = IF frames > 0 THEN frames - 1 ELSE 0
        BY <3>1
      <4> QED BY <2>2, <2>3, <3>2, <4>1
    <3> QED BY <1>4, <2>1, <3>1, <3>3 DEF v
  <2>7. CASE UNCHANGED <<frames, gaveUp, busy, fdPending, update>>
    BY <1>1, <1>4, <2>1, <2>7, CountKept
  <2>8. CASE DimmingEndIrq
    <3>1. UNCHANGED <<frames, gaveUp, busy, fdPending, update>>
      BY <2>8 DEF DimmingEndIrq, drv
    <3> QED BY <2>7, <3>1
  <2> QED BY <1>4, <2>4, <2>5, <2>6, <2>7, <2>8, OthersDo DEF drv
<1> QED BY <1>2, <1>3, <1>4, StepIs

-----------------------------------------------------------------------------
(* A recovery gives the display back *)

LEMMA NextRecovery == Basic /\ RecoveryInv /\ [Next]_vars => RecoveryInv'
<1> DEFINE P == /\ rpc \in {"suspend", "suspending", "resuming", "succeeded"} => locked
                /\ rpc # "backoff"
                /\ rpc \in {"suspend", "suspending"} => saved
                /\ rpc = "suspend" => display # "off"
                /\ rpc \in {"resuming", "succeeded"} => display = "on" /\ (tail.pc \notin {"idle", "begin"} => state = "ON")
                /\ rpc = "resuming" /\ tail.pc # "idle" => ~Disables
                /\ rpc = "resuming" /\ tail.pc = "idle" => state = "ON"
                /\ rpc = "succeeded" => tail.pc = "idle" /\ state = "ON"
<1> SUFFICES ASSUME Basic, RecoveryInv, [Next]_vars, Fair({"lock_contention"})' PROVE P'
  BY DEF RecoveryInv
<1>1. P
  BY FaultsStay DEF RecoveryInv
<1>2. CASE Commits
  <2>1. PICK kind \in Kinds :
          /\ tail'.kind = kind /\ tail'.pc = "begin" /\ UNCHANGED <<drv, locked, saved>>
          /\ display' = CASE kind = "sleep" -> "sleep" [] kind = "off" -> "off" [] OTHER -> "on"
          /\ \/ ~locked /\ rpc' = rpc
             \/ kind = "off" /\ rpc = "suspend" /\ rpc' = "suspending"
             \/ saved /\ kind = "frame" /\ rpc = "suspending" /\ rpc' = "resuming"
    BY <1>2, CommitIs
  <2>2. CASE ~locked /\ rpc' = rpc
    BY <1>1, <2>1, <2>2
  <2>3. CASE rpc = "suspend" /\ rpc' = "suspending"
    BY <1>1, <2>1, <2>3
  <2>4. CASE kind = "frame" /\ rpc = "suspending" /\ rpc' = "resuming"
    BY <1>1, <2>1, <2>4 DEF Disables
  <2> QED BY <2>1, <2>2, <2>3, <2>4
<1>3. CASE Tail
  <2>1. UNCHANGED <<display, locked, rpc, saved>> /\ tail.pc # "idle"
    <3>1. CASE TailAlreadyStopped \/ TailWaitsFrameDone \/ TailFrameDoneTimeout \/ TailStops \/ TailEnables \/ TailSkips \/ TailFlushes \/ TailStarts
      BY <3>1 DEF TailAlreadyStopped, TailWaitsFrameDone, TailFrameDoneTimeout, TailStops, TailEnables, TailSkips,
         TailFlushes, TailStarts, user, rec
    <3>2. CASE TailFlipDone \/ TailFlipTimeout \/ TailChecks \/ TailGivesUp \/ TailForces \/ TailMasks \/ TailEnds
      BY <3>2 DEF TailFlipDone, TailFlipTimeout, TailChecks, TailGivesUp, TailForces, TailMasks, TailEnds, user, rec
    <3> QED BY <1>3, <3>1, <3>2 DEF Tail
  <2>2. CASE rpc # "resuming"
    BY <1>1, <2>1, <2>2
  <2>3. CASE rpc = "resuming"
    <3>1. ~Disables
      BY <1>1, <2>1, <2>3
    <3>2. ~TailAlreadyStopped /\ ~TailWaitsFrameDone /\ ~TailFrameDoneTimeout /\ ~TailStops
      BY <3>1 DEF TailAlreadyStopped, TailWaitsFrameDone, TailFrameDoneTimeout, TailStops, Basic, TailInv
    <3>3. state' = "ON"
      <4>1. CASE TailEnables
        BY <4>1 DEF TailEnables
      <4>2. CASE TailSkips \/ TailFlushes \/ TailStarts \/ TailFlipDone \/ TailFlipTimeout \/ TailChecks \/ TailGivesUp \/ TailForces \/ TailMasks \/ TailEnds
        <5>1. state' = state /\ tail.pc \notin {"idle", "begin"}
          BY <4>2 DEF TailSkips, TailFlushes, TailStarts, TailFlipDone, TailFlipTimeout, TailChecks, TailGivesUp, TailForces,
             TailMasks, TailEnds, drv
        <5> QED BY <1>1, <2>3, <5>1
      <4> QED BY <1>3, <3>2, <4>1, <4>2 DEF Tail
    <3>4. tail'.pc # "idle" => ~Disables'
      BY <1>3, <3>1, TailGoes DEF Disables
    <3> QED BY <1>1, <2>1, <2>3, <3>3, <3>4
  <2> QED BY <2>2, <2>3
<1>4. CASE tail' = tail /\ Others
  <2>1. state' = state /\ (Disables' <=> Disables)
    BY <1>4, OthersDo DEF drv, FrameEnds, DoneIrq, DimmingEndIrq, DimmingStartIrq, Disables
  <2>2. CASE UNCHANGED <<display, locked, rpc, saved>>
    BY <1>1, <1>4, <2>1, <2>2
  <2>3. CASE RecoveryStarts
    BY <2>3 DEF RecoveryStarts, recRest, user
  <2>4. CASE RecoverySuspends
    BY <1>1, <1>4, <2>4 DEF RecoverySuspends, Commit, Idle, NoTail
  <2>5. CASE RecoveryBacksOff
    BY <2>5, FaultsGrow DEF RecoveryBacksOff, Basic, TypeOK, Fair
  <2>6. CASE RecoveryRetries
    BY <1>1, <2>6 DEF RecoveryRetries
  <2>7. CASE RecoveryResumes
    <3>1. saved /\ rpc = "suspending" /\ tail.pc = "idle"
      BY <1>1, <2>7 DEF RecoveryResumes, Idle
    <3>2. tail'.pc = "begin"
      BY <2>7, <3>1, CommitDoes DEF RecoveryResumes, Kinds, Basic
    <3> QED BY <1>4, <3>1, <3>2
  <2>8. CASE RecoveryResumed
    BY <1>1, <1>4, <2>1, <2>8 DEF RecoveryResumed, recRest, user, Idle
  <2>9. CASE RecoveryEnds
    BY <2>9 DEF RecoveryEnds
  <2>10. CASE FrameStarts \/ FrameEnds \/ Irqs \/ DebugTriggers \/ UNCHANGED vars
    BY <2>2, <2>10 DEF FrameStarts, FrameEnds, Irqs, FsIrq, DoneIrq, DimmingStartIrq, DimmingEndIrq, TeIrq, DebugTriggers,
       vars, user, rec
  <2> QED BY <1>4, <2>3, <2>4, <2>5, <2>6, <2>7, <2>8, <2>9, <2>10 DEF Others, Recovery
<1> QED BY <1>2, <1>3, <1>4, StepIs

-----------------------------------------------------------------------------
(* The theorems *)

LEMMA InitInv == Init => IInv
<1> SUFFICES ASSUME Init PROVE IInv
  OBVIOUS
<1>1. TypeOK /\ TailInv /\ EventInv
  BY InitBasic DEF Basic
<1>2. tail.pc = "idle" /\ ~update /\ ~unmasked /\ ~keepUnmask /\ ~busy /\ ~fdPending /\ frames = 0 /\ rpc = "idle"
  BY NoTailIs DEF Init
<1>3. One(busy) = 0 /\ One(fdPending) = 0
  BY <1>2 DEF One
<1>4. One(update /\ tail.pc # "starting") = 0
  BY <1>2 DEF One
<1>5. CountInv
  BY <1>2, <1>3, <1>4 DEF CountInv
<1>6. ShownInv /\ TriggerInv /\ StuckInv /\ RecoveryInv
  BY <1>2 DEF ShownInv, TriggerInv, StuckInv, RecoveryInv
<1> QED BY <1>1, <1>5, <1>6 DEF IInv

LEMMA NextInv == IInv /\ [Next]_vars => IInv'
<1> SUFFICES ASSUME IInv, [Next]_vars PROVE IInv'
  OBVIOUS
<1>1. Basic /\ ShownInv /\ TriggerInv /\ StuckInv /\ CountInv /\ RecoveryInv
  BY DEF IInv, Basic
<1>2. TypeOK' /\ TailInv' /\ EventInv'
  BY <1>1, NextBasic DEF Basic
<1>3. ShownInv' /\ TriggerInv' /\ StuckInv' /\ CountInv' /\ RecoveryInv'
  BY <1>1, NextShown, NextTrigger, NextStuck, NextCount, NextRecovery
<1> QED BY <1>2, <1>3 DEF IInv

LEMMA Invariant == Spec => []IInv
BY InitInv, NextInv, PTL DEF Spec

(* The state is well typed whatever fails. *)
THEOREM TypeCorrect == Spec => []TypeOK
<1>1. IInv => TypeOK
  BY DEF IInv
<1> QED BY <1>1, Invariant, PTL

(* decon->event, the vblank list and the tail hand an event on: each is sent *)
(* once, with the one vblank reference it holds, and not before the frame it *)
(* stands for.                                                               *)
THEOREM EventsSentOnce == Spec => []EventsSound
<1>1. IInv => EventsSound
  <2> SUFFICES ASSUME TypeOK, TailInv, EventInv, ShownInv PROVE EventsSound
    BY DEF IInv
  <2>1. EventExactlyOnce
    <3> SUFFICES ASSUME NEW i \in Ids PROVE sent[i] <= 1 /\ (i # tail.id /\ i \notin drmArmed => sent[i] = 1)
      BY DEF EventExactlyOnce
    <3>1. sent[i] = IF Open(i) THEN 0 ELSE 1
      BY DEF EventInv
    <3>2. i # tail.id /\ i \notin drmArmed => ~Open(i)
      BY IdsAre DEF Open, EventInv
    <3> QED BY <3>1, <3>2
  <2>2. EventMeansShown
    <3> SUFFICES ASSUME tail.kind = "frame", tail.pc = "wait", sent[tail.id] > 0 PROVE ~update
      BY DEF EventMeansShown
    <3>1. tail.id \in Ids
      BY DEF TailInv
    <3>2. ~Open(tail.id)
      BY <3>1 DEF EventInv
    <3>3. armed = 0
      BY <3>2 DEF Open, EventInv
    <3> QED BY <3>3 DEF ShownInv
  <2> QED BY <2>1, <2>2 DEF EventsSound, EventInv
<1> QED BY <1>1, Invariant, PTL

(* DECON is not stopped in the middle of a frame it counts, and a frame is   *)
(* only given up, and the panel recovered, when it did not start.            *)
THEOREM HardwareAgrees == Spec => []FramesSound
<1>1. IInv => FramesSound
  <2> SUFFICES ASSUME CountInv, StuckInv PROVE FramesSound
    BY DEF IInv
  <2>1. StopsIdle
    BY DEF CountInv, StopsIdle, Fair
  <2>2. RecoversStuckOnly
    BY DEF StuckInv, RecoversStuckOnly, Fair
  <2> QED BY <2>1, <2>2 DEF FramesSound
<1> QED BY <1>1, Invariant, PTL

(* A recovery that counts as successful leaves the display on unless a       *)
(* modeset lock was contended, whatever else failed and whoever commits.     *)
THEOREM RecoveryLightsUp == Spec => []RecoveryRestores
<1>1. IInv => RecoveryRestores
  <2> SUFFICES ASSUME RecoveryInv, "lock_contention" \notin faulted, rpc = "succeeded" PROVE display = "on" /\ state = "ON"
    BY DEF IInv, RecoveryRestores
  <2>1. Fair({"lock_contention"})
    BY DEF Fair
  <2> QED BY <2>1 DEF RecoveryInv
<1> QED BY <1>1, Invariant, PTL
=============================================================================
