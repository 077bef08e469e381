-------------------------- MODULE HibernationProofs --------------------------
(***************************************************************************)
(* Hibernation, for every number of user threads and requests: the block   *)
(* count is exact, DECON and its runtime-PM references follow the CRTC's   *)
(* state through every commit, a system suspend that succeeds leaves DECON *)
(* off, and the handler and a commit never wait for each other.  The       *)
(* theorems name what they exclude.                                        *)
(***************************************************************************)
EXTENDS Hibernation, SequenceTheorems, FiniteSetTheorems, TLAPS

-----------------------------------------------------------------------------
(* The inductive invariant *)

One(b) == IF b THEN 1 ELSE 0

(* The worker's queue holds each work at most once, and the hibernation work *)
(* is not on it while its timer runs.                                        *)
Item       == {"dwork", "commit"}
Has(q, w)  == \E i \in 1 .. Len(q) : q[i] = w
Once(q)    == q \in Seq(Item) /\ \A i, j \in 1 .. Len(q) : q[i] = q[j] => i = j
Pending    == Has(queue, "commit")
QueueInv   == Once(queue) /\ (dwork = "timer" => ~Has(queue, "dwork"))

(* Where a commit is that has been swapped and has not signalled hw_done.    *)
Early   == {"tBlock", "tDisable"}
Down    == {"tDown", "tState", "tDownEnd"}
Late    == {"tFlush", "tFlip", "tEnd"}
LivePcs == Early \cup Down \cup {"tEnable"} \cup Late

Live(t) == pc[t] \in LivePcs

AtEarly   == \E t \in Thread : pc[t] \in Early
AtDown    == \E t \in Thread : pc[t] \in Down
AtState   == \E t \in Thread : pc[t] = "tState"
AtDownEnd == \E t \in Thread : pc[t] = "tDownEnd"
AtEnable  == \E t \in Thread : pc[t] = "tEnable"

(* One commit at a time is between swap and hw_done, in the queue or with    *)
(* one thread.                                                               *)
SerialInv ==
  /\ \A t \in Thread : pc[t] = "swap" => lock = t
  /\ \A t \in Thread : Live(t) => tail.live /\ ~Pending
  /\ \A t, u \in Thread : Live(t) /\ Live(u) => t = u
  /\ tail.live <=> Pending \/ \E t \in Thread : Live(t)

(* What a thread holds, and the commit it is about to make.                  *)
OwnInv(t) ==
  /\ held[t] => pc[t] \in TailPcs
  /\ vote[t] => pc[t] \in Down \cup {"tEnable"} \cup Late
  /\ pc[t] \in {"lock", "swap"} => kind[t] \in UserKinds \cup {"enter", "exit"}
  /\ pc[t] = "swap" => new[t] = Wanted(kind[t]) /\ ~Refused(kind[t])

ThreadInv == \A t \in Thread : OwnInv(t)

(* The CRTC state that DECON shows, outside the steps that change it.        *)
Waiting == Pending \/ AtEarly
Shown   == IF Waiting THEN tail.old ELSE tail.new

ActiveInv ==
  /\ crtc = tail.new
  /\ tail.new.sr => ~tail.new.active /\ (tail.live => tail.old.active)
  /\ ~AtDown /\ ~AtEnable /\ Shown.active => active = "ACTIVE"
  /\ AtDown => NeedsModeset /\ NeedsDisable
  /\ AtEnable /\ tail.new.active /\ ~NeedsModeset => active = "ACTIVE"
  /\ active = "INACTIVE" => ~vblank.on /\ ~vblank.enabled

(* Runtime PM: one reference of DECON, one vote of the commit that disables. *)
Voting == \E t \in Thread : vote[t]

Reference == decon \in {"ON", "HANDOVER"} /\ ~AtState

PowerInv ==
  /\ decon = "HANDOVER" =>
       active = "INACTIVE" /\ ~AtDown /\ LET s == IF AtEnable THEN tail.old ELSE Shown IN ~s.active /\ ~s.sr
  /\ AtState => decon = "ON"
  /\ pm = One(Reference) + One(Voting)
  /\ decon = "ON" => powered

Cancelers    == {t \in Thread : pc[t] \in {"xWait", "sWait"}}
VblankUsers  == {t \in Thread : pc[t] \in {"holdsVblank"}}

CountInv ==
  /\ BlockCountExact
  /\ canceling = Cardinality(Cancelers)
  /\ vblank.ref >= One(event) + Cardinality(VblankUsers)

Base == TypeOK /\ QueueInv /\ SerialInv /\ ThreadInv /\ ActiveInv /\ PowerInv /\ CountInv

(* A step that neither swaps a commit nor changes what DECON shows of one.   *)
Aside ==
  /\ UNCHANGED <<decon, active>>
  /\ tail'.old = tail.old /\ tail'.new = tail.new /\ tail'.mode = tail.mode /\ (tail'.live => tail.live)
  /\ (AtDown' <=> AtDown) /\ (AtState' <=> AtState) /\ (AtDownEnd' <=> AtDownEnd) /\ (AtEnable' <=> AtEnable)
  /\ Shown' = Shown

-----------------------------------------------------------------------------
(* The worker's queue *)

LEMMA AppendItem ==
  ASSUME NEW q, Once(q), NEW w \in Item, ~Has(q, w)
  PROVE  Once(Append(q, w)) /\ \A x : Has(Append(q, w), x) <=> Has(q, x) \/ x = w
<1> DEFINE r == Append(q, w)
<1>1. r \in Seq(Item) /\ Len(r) = Len(q) + 1 /\ Len(q) \in Nat
      /\ r[Len(q) + 1] = w /\ \A i \in 1 .. Len(q) : r[i] = q[i]
  BY DEF Once
<1> HIDE DEF r
<1> QED BY <1>1 DEF Once, Has

LEMMA HeadItem ==
  ASSUME NEW q, Once(q), q # <<>>
  PROVE  /\ Has(q, Head(q)) /\ Once(Tail(q))
         /\ \A x : Has(Tail(q), x) <=> Has(q, x) /\ x # Head(q)
<1> DEFINE r == Tail(q)
<1>1. r \in Seq(Item) /\ Len(r) = Len(q) - 1 /\ Len(q) \in Nat /\ Len(q) > 0
      /\ Head(q) = q[1] /\ \A i \in 1 .. Len(r) : r[i] = q[i + 1]
  BY DEF Once
<1>2. \A i \in 2 .. Len(q) : i - 1 \in 1 .. Len(r) /\ q[i] = r[i - 1]
  BY <1>1
<1>3. \A i \in 1 .. Len(r) : i + 1 \in 1 .. Len(q)
  BY <1>1
<1>4. Once(r) /\ Has(q, Head(q))
  BY <1>1, <1>3 DEF Once, Has
<1>5. ASSUME NEW x PROVE Has(r, x) <=> Has(q, x) /\ x # Head(q)
  <2>1. ASSUME Has(r, x) PROVE Has(q, x) /\ x # Head(q)
    BY <2>1, <1>1, <1>3 DEF Once, Has
  <2>2. ASSUME Has(q, x), x # Head(q) PROVE Has(r, x)
    BY <2>2, <1>1, <1>2 DEF Has
  <2> QED BY <2>1, <2>2
<1> QED BY <1>4, <1>5

(* Taking the hibernation work off the queue leaves the commit on it.        *)
LEMMA RemoveItem ==
  ASSUME NEW q, Once(q)
  PROVE  /\ Once(RemoveFirst(q, "dwork"))
         /\ \A x : Has(RemoveFirst(q, "dwork"), x) <=> Has(q, x) /\ x # "dwork"
<1> DEFINE r == RemoveFirst(q, "dwork")
<1>1. CASE ~Has(q, "dwork")
  <2>1. r = q
    BY <1>1 DEF Has, RemoveFirst
  <2> QED BY <2>1, <1>1
<1>2. ASSUME NEW k \in 1 .. Len(q), q[k] = "dwork"
      PROVE  Once(r) /\ \A x : Has(r, x) <=> Has(q, x) /\ x # "dwork"
  <2>1. Len(q) \in Nat /\ q \in Seq(Item)
    BY DEF Once
  <2> DEFINE I == {i \in 1 .. Len(q) : q[i] = "dwork"}
             a == SubSeq(q, 1, k - 1)
             b == SubSeq(q, k + 1, Len(q))
  <2>2. I = {k}
    BY <1>2 DEF Once
  <2>3. SelectInSeq(q, LAMBDA v : v = "dwork") = k
    <3>1. Min(I) = k
      BY <2>1, <2>2 DEF Min
    <3> QED BY <2>2, <3>1 DEF SelectInSeq
  <2>4. r = a \o b
    BY <1>2, <2>3 DEF RemoveFirst, RemoveAt
  <2>5. a \in Seq(Item) /\ Len(a) = k - 1 /\ \A i \in 1 .. k - 1 : a[i] = q[i]
    BY <2>1, SubSeqProperties
  <2>6. b \in Seq(Item) /\ Len(b) = Len(q) - k /\ \A i \in 1 .. Len(q) - k : b[i] = q[i + k]
    BY <2>1, SubSeqProperties
  <2> HIDE DEF a, b, r
  <2>7. /\ r \in Seq(Item) /\ Len(r) = Len(a) + Len(b)
        /\ \A i \in 1 .. Len(a) + Len(b) : r[i] = IF i <= Len(a) THEN a[i] ELSE b[i - Len(a)]
    BY <2>4, <2>5, <2>6, ConcatProperties
  <2>8. r \in Seq(Item) /\ Len(r) = Len(q) - 1 /\ \A i \in 1 .. Len(r) : r[i] = IF i < k THEN q[i] ELSE q[i + 1]
    <3>1. Len(r) = Len(q) - 1
      BY <2>1, <2>5, <2>6, <2>7
    <3>2. ASSUME NEW i \in 1 .. Len(r), i < k PROVE r[i] = q[i]
      BY <2>1, <2>5, <2>6, <2>7, <3>1, <3>2
    <3>3. ASSUME NEW i \in 1 .. Len(r), ~(i < k) PROVE r[i] = q[i + 1]
      <4> DEFINE j == i - Len(a)
      <4>1. j \in 1 .. Len(q) - k /\ r[i] = b[j] /\ j + k = i + 1
        BY <2>1, <2>5, <2>6, <2>7, <3>1, <3>3
      <4> HIDE DEF j
      <4> QED BY <2>6, <4>1
    <3> QED BY <2>7, <3>1, <3>2, <3>3
  <2>9. Once(r)
    BY <2>1, <2>8 DEF Once
  <2>10. \A i \in 1 .. Len(q) : i # k => q[i] # "dwork"
    BY <1>2 DEF Once
  <2>11. ASSUME NEW x PROVE Has(r, x) <=> Has(q, x) /\ x # "dwork"
    <3>1. ASSUME Has(r, x) PROVE Has(q, x) /\ x # "dwork"
      BY <3>1, <2>1, <2>8, <2>10 DEF Has
    <3>2. ASSUME NEW i \in 1 .. Len(q), q[i] = x, x # "dwork" PROVE Has(r, x)
      <4>1. i # k
        BY <3>2, <1>2
      <4>2. CASE i < k
        BY <4>2, <3>2, <2>1, <2>8 DEF Has
      <4>3. CASE i > k
        <5>1. i - 1 \in 1 .. Len(r) /\ r[i - 1] = x
          BY <4>3, <3>2, <2>1, <2>8
        <5> QED BY <5>1 DEF Has
      <4> QED BY <4>1, <4>2, <4>3, <2>1
    <3> QED BY <3>1, <3>2 DEF Has
  <2> QED BY <2>9, <2>11
<1> QED BY <1>1, <1>2 DEF Has

(* The timer is restarted, or left alone. *)
Delayed == UNCHANGED <<dwork, queue>> \/ (dwork' = "timer" /\ queue' = Unqueued)

LEMMA DelayedQueue ==
  ASSUME QueueInv, dwork \in {"idle", "timer"}, Delayed
  PROVE  QueueInv' /\ (Pending' <=> Pending) /\ dwork' \in {"idle", "timer"} /\ queue' \in Seq(Item)
<1>1. CASE UNCHANGED <<dwork, queue>>
  BY <1>1 DEF QueueInv, Pending, Once
<1>2. CASE dwork' = "timer" /\ queue' = Unqueued
  <2>1. Once(queue)
    BY DEF QueueInv
  <2>2. Once(queue') /\ \A x : Has(queue', x) <=> Has(queue, x) /\ x # "dwork"
    BY <1>2, <2>1, RemoveItem DEF Unqueued
  <2> QED BY <1>2, <2>2 DEF QueueInv, Pending, Once
<1> QED BY <1>1, <1>2 DEF Delayed

LEMMA IsDelayed == (ModDelayed => Delayed) /\ (\A n : Rearm(n) => Delayed) /\ (\A a : Toggle(a) => Delayed)
BY DEF ModDelayed, Rearm, Toggle, Delayed

LEMMA CancelledQueue ==
  ASSUME QueueInv, CancelWork
  PROVE  QueueInv' /\ (Pending' <=> Pending) /\ dwork' = "idle" /\ queue' \in Seq(Item)
<1>1. Once(queue') /\ \A x : Has(queue', x) <=> Has(queue, x) /\ x # "dwork"
  BY RemoveItem DEF QueueInv, CancelWork, Unqueued
<1> QED BY <1>1 DEF QueueInv, Pending, Once, CancelWork

-----------------------------------------------------------------------------
(* Holders of the block count *)

LEMMA PairFinite == ASSUME NEW a, NEW b PROVE IsFiniteSet({a, b})
<1>1. IsFiniteSet({a} \cup {b})
  BY FS_Singleton, FS_AddElement
<1>2. {a, b} = {a} \cup {b}
  OBVIOUS
<1> QED BY <1>1, <1>2

LEMMA ThreadFinite == IsFiniteSet(Thread)
BY HibernationAssumption, PairFinite, FS_Union DEF Thread

LEMMA HoldersFinite == IsFiniteSet(Holders) /\ Cardinality(Holders) \in Nat
<1>1. IsFiniteSet(Reasons)
  <2>1. IsFiniteSet({"exit", "cancel"} \cup {"entry", "tail"})
    BY PairFinite, FS_Union
  <2>2. Reasons = {"exit", "cancel"} \cup {"entry", "tail"}
    BY DEF Reasons
  <2> QED BY <2>1, <2>2
<1>2. IsFiniteSet(Thread \X Reasons)
  BY <1>1, ThreadFinite, FS_Product
<1> QED BY <1>2, FS_Subset, FS_CardinalityType DEF Holders

(* The holders after a step of t that leaves the other threads alone.        *)
LEMMA HoldersMove ==
  ASSUME NEW t \in Thread,
         \A u \in Thread : u # t => pc'[u] = pc[u] /\ back'[u] = back[u] /\ held'[u] = held[u]
  PROVE  /\ (\A r \in Reasons : Holds(t, r)' <=> Holds(t, r)) => Cardinality(Holders') = Cardinality(Holders)
         /\ \A r \in Reasons :
              /\ \A s \in Reasons : s # r => (Holds(t, s)' <=> Holds(t, s))
              /\ Holds(t, r)' /\ ~Holds(t, r)
              => Cardinality(Holders') = Cardinality(Holders) + 1
         /\ \A r \in Reasons :
              /\ \A s \in Reasons : s # r => (Holds(t, s)' <=> Holds(t, s))
              /\ ~Holds(t, r)' /\ Holds(t, r)
              => Cardinality(Holders') = Cardinality(Holders) - 1
<1>1. \A u \in Thread, r \in Reasons : u # t => (Holds(u, r)' <=> Holds(u, r))
  BY DEF Holds, InCommit, Reasons
<1>2. ASSUME \A r \in Reasons : Holds(t, r)' <=> Holds(t, r) PROVE Cardinality(Holders') = Cardinality(Holders)
  <2>1. Holders' = Holders
    BY <1>1, <1>2 DEF Holders
  <2> QED BY <2>1
<1>3. ASSUME NEW r \in Reasons, \A s \in Reasons : s # r => (Holds(t, s)' <=> Holds(t, s)),
             Holds(t, r)', ~Holds(t, r)
      PROVE  Cardinality(Holders') = Cardinality(Holders) + 1
  <2>1. Holders' = Holders \cup {<<t, r>>}
    BY <1>1, <1>3 DEF Holders
  <2>2. <<t, r>> \notin Holders
    BY <1>3 DEF Holders
  <2> QED BY <2>1, <2>2, HoldersFinite, FS_AddElement
<1>4. ASSUME NEW r \in Reasons, \A s \in Reasons : s # r => (Holds(t, s)' <=> Holds(t, s)),
             ~Holds(t, r)', Holds(t, r)
      PROVE  Cardinality(Holders') = Cardinality(Holders) - 1
  <2>1. Holders' = Holders \ {<<t, r>>}
    BY <1>1, <1>4 DEF Holders
  <2>2. <<t, r>> \in Holders
    BY <1>4 DEF Holders
  <2> QED BY <2>1, <2>2, HoldersFinite, FS_RemoveElement
<1> QED BY <1>2, <1>3, <1>4

(* How many threads are at X, after a step of t.                             *)
LEMMA CountMove ==
  ASSUME NEW t \in Thread, \A u \in Thread : u # t => pc'[u] = pc[u], NEW X
  PROVE  LET n == Cardinality({u \in Thread : pc[u] \in X})
         IN  n \in Nat /\ Cardinality({u \in Thread : pc'[u] \in X}) = n - One(pc[t] \in X) + One(pc'[t] \in X)
<1> DEFINE A == {u \in Thread : pc[u] \in X}
           B == {u \in Thread : pc'[u] \in X}
<1>1. IsFiniteSet(A) /\ IsFiniteSet(B) /\ Cardinality(A) \in Nat
  BY ThreadFinite, FS_Subset, FS_CardinalityType
<1>2. ASSUME pc[t] \in X, pc'[t] \notin X PROVE Cardinality(B) = Cardinality(A) - 1
  <2>1. B = A \ {t} /\ t \in A
    BY <1>2
  <2> HIDE DEF A, B
  <2> QED BY <1>1, <2>1, FS_RemoveElement
<1>3. ASSUME pc[t] \notin X, pc'[t] \in X PROVE Cardinality(B) = Cardinality(A) + 1
  <2>1. B = A \cup {t} /\ t \notin A
    BY <1>3
  <2> HIDE DEF A, B
  <2> QED BY <1>1, <2>1, FS_AddElement
<1>4. ASSUME pc[t] \in X <=> pc'[t] \in X PROVE Cardinality(B) = Cardinality(A)
  <2>1. B = A
    BY <1>4
  <2> QED BY <2>1
<1>5. Cardinality(A) \in Nat /\ Cardinality(B) = Cardinality(A) - One(pc[t] \in X) + One(pc'[t] \in X)
  <2> HIDE DEF A, B
  <2> QED BY <1>1, <1>2, <1>3, <1>4 DEF One
<1> QED BY <1>5

-----------------------------------------------------------------------------
(* Steps beside the commit that is between swap and hw_done *)

LEMMA Beside ==
  ASSUME TypeOK, SerialInv, ActiveInv, PowerInv, NEW t \in Thread, NEW to \in Pcs \ LivePcs, ~Live(t),
         pc' = [pc EXCEPT ![t] = to], Pending' <=> Pending,
         UNCHANGED <<crtc, tail, active, decon, pm, powered, vote>>,
         active = "INACTIVE" => ~vblank'.on /\ ~vblank'.enabled,
         to = "swap" => lock' = t, \A u \in Thread : u # t /\ pc[u] = "swap" => lock' = u
  PROVE  SerialInv' /\ ActiveInv' /\ PowerInv' /\ Aside
<1>1. pc'[t] = to /\ \A u \in Thread : u # t => pc'[u] = pc[u]
  BY DEF TypeOK
<1>2. \A u \in Thread : Live(u)' <=> Live(u)
  BY <1>1 DEF Live
<1>3. SerialInv'
  BY <1>1, <1>2 DEF SerialInv
<1>4. (AtEarly' <=> AtEarly) /\ (AtDown' <=> AtDown) /\ (AtState' <=> AtState) /\ (AtDownEnd' <=> AtDownEnd)
      /\ (AtEnable' <=> AtEnable)
  BY <1>1 DEF Live, LivePcs, Early, Down, AtEarly, AtDown, AtState, AtDownEnd, AtEnable
<1>5. Shown' = Shown
  BY <1>4 DEF Shown, Waiting
<1>6. ActiveInv'
  BY <1>4, <1>5 DEF ActiveInv, NeedsModeset, NeedsDisable
<1>7. PowerInv'
  BY <1>4, <1>5 DEF PowerInv, Reference, Voting
<1>8. Aside
  BY <1>4, <1>5 DEF Aside
<1> QED BY <1>3, <1>6, <1>7, <1>8

LEMMA WantedKept ==
  ASSUME NEW t \in Thread, crtc' = crtc, kind'[t] = kind[t]
  PROVE  Wanted(kind[t])' = Wanted(kind[t]) /\ (Refused(kind[t])' <=> Refused(kind[t]))
<1>1. Duplicated' = Duplicated
  BY DEF Duplicated, EffectivelyActive
<1> QED BY <1>1 DEF Wanted, Refused

LEMMA OthersKeep ==
  ASSUME ThreadInv, NEW t \in Thread, crtc' = crtc, OwnInv(t)',
         \A u \in Thread : u # t => /\ pc'[u] = pc[u] /\ held'[u] = held[u] /\ vote'[u] = vote[u]
                                    /\ kind'[u] = kind[u] /\ new'[u] = new[u]
  PROVE  ThreadInv'
<1> SUFFICES ASSUME NEW u \in Thread, u # t PROVE OwnInv(u)'
  BY DEF ThreadInv
<1> QED BY DEF ThreadInv, OwnInv, Wanted, Duplicated, Refused

LEMMA CountKept ==
  ASSUME CountInv, NEW t \in Thread,
         \A u \in Thread : u # t => pc'[u] = pc[u] /\ back'[u] = back[u] /\ held'[u] = held[u],
         \A r \in Reasons : Holds(t, r)' <=> Holds(t, r),
         UNCHANGED <<blockCnt, vblank, event, canceling>>,
         pc[t] \notin {"xWait", "sWait", "holdsVblank"}, pc'[t] \notin {"xWait", "sWait", "holdsVblank"}
  PROVE  CountInv'
<1>1. Cardinality(Holders') = Cardinality(Holders)
  BY HoldersMove
<1>2. Cancelers' = Cancelers /\ VblankUsers' = VblankUsers
  BY DEF Cancelers, VblankUsers
<1> QED BY <1>1, <1>2 DEF CountInv, BlockCountExact

LEMMA WantedType == ASSUME TypeOK, NEW k \in Kinds, k # "none" PROVE Wanted(k) \in CrtcState
BY DEF TypeOK, Kinds, Wanted, Duplicated, CrtcState, CrtcOff, EffectivelyActive

LEMMA DelayedType == ASSUME TypeOK, QueueInv, Delayed PROVE dwork' \in {"idle", "timer"} /\ queue' \in Seq({"dwork", "commit"})
BY DelayedQueue DEF TypeOK, Item

(* A commit is checked, or is not made.                                      *)
LEMMA CommitChecks ==
  ASSUME Base, NEW t \in Thread, CommitRefused(t) \/ CommitBusy(t) \/ CommitCheck(t) PROVE Base' /\ Aside
<1> USE DEF Base
<1>1. /\ pc[t] = "lock" /\ lock = NoThread /\ Delayed
      /\ UNCHANGED <<crtc, tail, blockCnt, enabled, mutex, canceling, camera, deconVars,
                     back, kind, nonblock, held, vote, op, result, requests>>
  BY IsDelayed DEF CommitRefused, CommitBusy, CommitCheck, Goto, Leave, swVars, hibVars, Delayed
<1>2. /\ pc' = [pc EXCEPT ![t] = pc'[t]] /\ pc'[t] \in {"swap", back[t]}
      /\ pc'[t] = "swap" => lock' = t /\ new' = [new EXCEPT ![t] = Wanted(kind[t])] /\ ~Refused(kind[t])
      /\ pc'[t] # "swap" => UNCHANGED <<lock, new>>
  BY DEF CommitRefused, CommitBusy, CommitCheck, Goto, Leave, swVars, TypeOK
<1>3. back[t] \in {"idle", "hDone", "xUnblock"} /\ kind[t] \in Kinds \ {"none"}
  BY <1>1 DEF TypeOK, ThreadInv, OwnInv, UserKinds, Kinds
<1>4. TypeOK'
  <2>1. pc' \in [Thread -> Pcs]
    BY <1>2, <1>3 DEF TypeOK, Pcs
  <2>2. new' \in [Thread -> CrtcState] /\ lock' \in Thread \cup {NoThread}
    BY <1>2, <1>3, WantedType DEF TypeOK
  <2>3. dwork' \in {"idle", "timer"} /\ queue' \in Seq({"dwork", "commit"})
    BY <1>1, DelayedType
  <2> QED BY <1>1, <2>1, <2>2, <2>3 DEF TypeOK, deconVars
<1>5. QueueInv' /\ (Pending' <=> Pending)
  BY <1>1, DelayedQueue DEF TypeOK
<1>6. /\ \A u \in Thread : u # t => pc'[u] = pc[u] /\ new'[u] = new[u]
      /\ UNCHANGED <<held, back, kind, vote>> /\ pc'[t] \in Pcs \ LivePcs /\ ~Live(t)
  BY <1>1, <1>2, <1>3 DEF TypeOK, Pcs, Live, LivePcs, Early, Down, Late
<1>7. SerialInv' /\ ActiveInv' /\ PowerInv' /\ Aside
  <2>1. \A u \in Thread : u # t /\ pc[u] = "swap" => lock' = u
    BY <1>1, HibernationAssumption DEF SerialInv
  <2> QED BY <1>1, <1>2, <1>5, <1>6, <2>1, Beside DEF deconVars, ActiveInv
<1>8. ThreadInv'
  <2>1. ~held'[t] /\ ~vote'[t] /\ kind'[t] \in UserKinds \cup {"enter", "exit"}
    BY <1>1, <1>6 DEF ThreadInv, OwnInv, TailPcs, Down, Late
  <2>2. pc'[t] = "swap" => new'[t] = Wanted(kind[t])' /\ ~Refused(kind[t])'
    BY <1>1, <1>2, <1>6, WantedKept DEF TypeOK
  <2>3. OwnInv(t)'
    BY <2>1, <2>2 DEF OwnInv
  <2> QED BY <1>1, <1>6, <2>3, OthersKeep
<1>9. CountInv'
  <2>1. \A r \in Reasons : Holds(t, r)' <=> Holds(t, r)
    BY <1>1, <1>2, <1>3, <1>6 DEF Holds, Reasons, InCommit, TailPcs, ThreadInv, OwnInv
  <2> QED BY <1>1, <1>2, <1>3, <1>6, <2>1, CountKept DEF deconVars
<1> QED BY <1>4, <1>5, <1>7, <1>8, <1>9

-----------------------------------------------------------------------------
(* What is left to show of a step beside the commit *)

LEMMA CountStep ==
  ASSUME TypeOK, CountInv, NEW t \in Thread, \A u \in Thread : u # t => pc'[u] = pc[u], NEW d \in Int,
         Cardinality(Holders') = Cardinality(Holders) + d,
         blockCnt' = blockCnt + d - One(vblank.enabled) + One(vblank'.enabled),
         canceling' = canceling - One(pc[t] \in {"xWait", "sWait"}) + One(pc'[t] \in {"xWait", "sWait"}),
         vblank'.ref \in Int,
         vblank'.ref - One(event') - One(pc'[t] = "holdsVblank") >= vblank.ref - One(event) - One(pc[t] = "holdsVblank")
  PROVE  CountInv' /\ blockCnt' \in Nat /\ canceling' \in Nat /\ vblank'.ref \in Nat
<1> DEFINE n == Cardinality(Holders)
           n1 == Cardinality(Holders')
           c == Cardinality(Cancelers)
           c1 == Cardinality(Cancelers')
           v == Cardinality(VblankUsers)
           v1 == Cardinality(VblankUsers')
<1>1. n \in Nat /\ n1 \in Nat
  <2>1. Holders' \subseteq Thread \X Reasons
    BY DEF Holders
  <2>2. IsFiniteSet(Thread \X Reasons)
    <3>1. IsFiniteSet({"exit", "cancel"} \cup {"entry", "tail"})
      BY PairFinite, FS_Union
    <3>2. Reasons = {"exit", "cancel"} \cup {"entry", "tail"}
      BY DEF Reasons
    <3> QED BY <3>1, <3>2, ThreadFinite, FS_Product
  <2> QED BY <2>1, <2>2, HoldersFinite, FS_Subset, FS_CardinalityType
<1>2. c \in Nat /\ c1 = c - One(pc[t] \in {"xWait", "sWait"}) + One(pc'[t] \in {"xWait", "sWait"})
  BY CountMove DEF Cancelers
<1>3. v \in Nat /\ v1 = v - One(pc[t] = "holdsVblank") + One(pc'[t] = "holdsVblank")
  <2>1. v \in Nat /\ v1 = v - One(pc[t] \in {"holdsVblank"}) + One(pc'[t] \in {"holdsVblank"})
    BY CountMove DEF VblankUsers
  <2> QED BY <2>1 DEF One
<1>4. c1 \in Nat /\ v1 \in Nat
  BY ThreadFinite, FS_Subset, FS_CardinalityType DEF Cancelers, VblankUsers
<1>5. blockCnt = n + One(vblank.enabled) /\ canceling = c /\ vblank.ref >= One(event) + v /\ vblank.ref \in Nat
  BY DEF CountInv, BlockCountExact, One, TypeOK
<1>6. n1 = n + d
  OBVIOUS
<1> HIDE DEF n, n1, c, c1, v, v1
<1>7. blockCnt' = n1 + One(vblank'.enabled) /\ canceling' = c1
  <2>1. One(vblank'.enabled) \in Nat /\ One(vblank.enabled) \in Nat
    BY DEF One
  <2> QED BY <1>1, <1>2, <1>5, <1>6, <2>1
<1>8. vblank'.ref >= One(event') + v1
  <2>1. One(event') \in Nat /\ One(event) \in Nat /\ One(pc[t] = "holdsVblank") \in Nat /\ One(pc'[t] = "holdsVblank") \in Nat
    BY DEF One
  <2> QED BY <1>3, <1>5, <2>1
<1>9. blockCnt' \in Nat /\ canceling' \in Nat /\ vblank'.ref \in Nat
  <2>1. One(vblank'.enabled) \in Nat /\ One(event') \in Nat
    BY DEF One
  <2> QED BY <1>1, <1>4, <1>7, <1>8, <2>1
<1> QED BY <1>7, <1>8, <1>9 DEF CountInv, BlockCountExact, One, n1, c1, v1

(* The count follows the holders, if only they change.                       *)
LEMMA CountHeld ==
  ASSUME TypeOK, CountInv, NEW t \in Thread, \A u \in Thread : u # t => pc'[u] = pc[u], NEW d \in {-1, 0, 1},
         Cardinality(Holders') = Cardinality(Holders) + d, blockCnt' = blockCnt + d,
         UNCHANGED <<vblank, event, canceling>>,
         pc[t] \notin {"xWait", "sWait", "holdsVblank"}, pc'[t] \notin {"xWait", "sWait", "holdsVblank"}
  PROVE  CountInv' /\ blockCnt' \in Nat
<1>1. d \in Int /\ blockCnt' = blockCnt + d - One(vblank.enabled) + One(vblank'.enabled)
      /\ canceling' = canceling - One(pc[t] \in {"xWait", "sWait"}) + One(pc'[t] \in {"xWait", "sWait"})
      /\ vblank' = vblank /\ event' = event /\ vblank.ref \in Int
  BY DEF One, TypeOK
<1>2. One(event) \in Int /\ One(pc[t] = "holdsVblank") = 0 /\ One(pc'[t] = "holdsVblank") = 0
  BY DEF One
<1>3. vblank'.ref - One(event') - One(pc'[t] = "holdsVblank") >= vblank.ref - One(event) - One(pc[t] = "holdsVblank")
  BY <1>1, <1>2
<1> QED BY <1>1, <1>3, CountStep

LEMMA BesideBase ==
  ASSUME Base, NEW t \in Thread, NEW to \in Pcs \ LivePcs, ~Live(t), to # "swap", pc' = [pc EXCEPT ![t] = to],
         UNCHANGED <<crtc, tail, active, decon, pm, powered, vote, new>>,
         \A u \in Thread : u # t => held'[u] = held[u] /\ kind'[u] = kind[u],
         \A u \in Thread : u # t /\ pc[u] = "swap" => lock' = u,
         held'[t] => to \in TailPcs, to = "lock" => kind'[t] \in UserKinds \cup {"enter", "exit"},
         active = "INACTIVE" => ~vblank'.on /\ ~vblank'.enabled,
         TypeOK', QueueInv', Pending' <=> Pending, CountInv'
  PROVE  Base' /\ Aside
<1>1. pc'[t] = to /\ \A u \in Thread : u # t => pc'[u] = pc[u]
  BY DEF Base, TypeOK
<1>2. SerialInv' /\ ActiveInv' /\ PowerInv' /\ Aside
  BY Beside DEF Base
<1>3. ~vote[t]
  BY DEF Base, ThreadInv, OwnInv, Live, LivePcs
<1>4. OwnInv(t)'
  BY <1>1, <1>3 DEF OwnInv
<1>5. ThreadInv'
  BY <1>1, <1>4, OthersKeep DEF Base
<1> QED BY <1>2, <1>5 DEF Base

-----------------------------------------------------------------------------
(* The handler and the suspend callback *)

LEMMA RunLockInv == ASSUME Base, NEW t \in Thread, RunLock(t) PROVE Base' /\ Aside
<1> USE DEF Base
<1>1. /\ pc[t] = "hLock" /\ pc' = [pc EXCEPT ![t] = "hCheck"] /\ mutex' = t
      /\ UNCHANGED <<crtc, lock, tail, blockCnt, enabled, dwork, canceling, queue, camera, decon, pm, powered, active,
                     vblank, event, back, kind, nonblock, new, held, vote, op, result, requests>>
  BY DEF RunLock, Goto, swVars, deconVars
<1>2. pc'[t] = "hCheck" /\ \A u \in Thread : u # t => pc'[u] = pc[u]
  BY <1>1 DEF TypeOK
<1>3. TypeOK'
  <2>1. pc' \in [Thread -> Pcs]
    BY <1>1 DEF TypeOK, Pcs
  <2> QED BY <1>1, <2>1 DEF TypeOK
<1>4. QueueInv' /\ (Pending' <=> Pending)
  BY <1>1 DEF QueueInv, Pending
<1>5. CountInv'
  <2>1. \A r \in Reasons : Holds(t, r)' <=> Holds(t, r)
    BY <1>1, <1>2 DEF Holds, Reasons, InCommit, TailPcs
  <2> QED BY <1>1, <1>2, <2>1, CountKept
<1> QED
  BY <1>1, <1>3, <1>4, <1>5, BesideBase DEF Pcs, Live, LivePcs, Early, Down, Late, TailPcs, SerialInv, ActiveInv, ThreadInv, OwnInv

LEMMA RunEndsInv == ASSUME Base, NEW t \in Thread, RunBlocked(t) \/ RunAgain(t) \/ RunDone(t) PROVE Base' /\ Aside
<1> USE DEF Base
<1> DEFINE to == IF t = Worker THEN "idle" ELSE "sDone"
           d == IF pc[t] = "hDone" THEN -1 ELSE 0
<1>1. /\ pc[t] \in {"hCheck", "hDone"} /\ pc' = [pc EXCEPT ![t] = to] /\ mutex' = NoThread
      /\ Delayed /\ result' \in {result, "busy", "ok", "again"} /\ blockCnt' = blockCnt + d
      /\ UNCHANGED <<crtc, lock, tail, enabled, canceling, camera, decon, pm, powered, active,
                     vblank, event, back, kind, nonblock, new, held, vote, op, requests>>
  <2>1. CASE RunBlocked(t) \/ RunAgain(t)
    <3>1. pc[t] = "hCheck" /\ blockCnt' = blockCnt /\ Delayed
      BY <2>1, IsDelayed DEF RunBlocked, RunAgain, RunEnds, Goto, Delayed
    <3>2. d = 0 /\ blockCnt + 0 = blockCnt
      BY <3>1 DEF TypeOK
    <3> QED BY <2>1, <3>1, <3>2 DEF RunBlocked, RunAgain, RunEnds, Goto, swVars, deconVars
  <2>2. CASE RunDone(t)
    <3>1. pc[t] = "hDone" /\ blockCnt' = blockCnt - 1 /\ d = -1
      BY <2>2 DEF RunDone, RunEnds, Goto
    <3>2. blockCnt + d = blockCnt - 1
      BY <3>1 DEF TypeOK
    <3> QED BY <2>2, <3>1, <3>2 DEF RunDone, RunEnds, Goto, Delayed, swVars, deconVars
  <2> QED BY <2>1, <2>2
<1>2. pc'[t] = to /\ \A u \in Thread : u # t => pc'[u] = pc[u]
  BY <1>1 DEF TypeOK
<1>3. QueueInv' /\ (Pending' <=> Pending)
  BY <1>1, DelayedQueue DEF TypeOK
<1>4. CountInv' /\ blockCnt' \in Nat
  <2>1. Cardinality(Holders') = Cardinality(Holders) + d
    <3>1. CASE pc[t] = "hCheck"
      <4>1. \A r \in Reasons : Holds(t, r)' <=> Holds(t, r)
        BY <1>1, <1>2, <3>1 DEF Holds, Reasons, InCommit, TailPcs
      <4> QED BY <1>1, <1>2, <3>1, <4>1, HoldersMove, HoldersFinite
    <3>2. CASE pc[t] = "hDone"
      <4>1. /\ \A s \in Reasons : s # "entry" => (Holds(t, s)' <=> Holds(t, s))
            /\ ~Holds(t, "entry")' /\ Holds(t, "entry") /\ "entry" \in Reasons
        BY <1>1, <1>2, <3>2 DEF Holds, Reasons, InCommit, TailPcs
      <4>2. Cardinality(Holders') = Cardinality(Holders) - 1
        BY <1>1, <1>2, <4>1, HoldersMove
      <4> QED BY <3>2, <4>2, HoldersFinite
    <3> QED BY <1>1, <3>1, <3>2
  <2>2. d \in {-1, 0, 1}
    OBVIOUS
  <2> HIDE DEF d
  <2>3. UNCHANGED <<vblank, event, canceling>> /\ blockCnt' = blockCnt + d
        /\ pc[t] \notin {"xWait", "sWait", "holdsVblank"} /\ pc'[t] \notin {"xWait", "sWait", "holdsVblank"}
    BY <1>1, <1>2
  <2> QED BY <1>2, <2>1, <2>2, <2>3, CountHeld
<1>5. TypeOK'
  <2>1. pc' \in [Thread -> Pcs] /\ result' \in {"none", "ok", "busy", "again"}
    BY <1>1 DEF TypeOK, Pcs
  <2>2. dwork' \in {"idle", "timer"} /\ queue' \in Seq({"dwork", "commit"})
    BY <1>1, DelayedType
  <2> QED BY <1>1, <1>4, <2>1, <2>2 DEF TypeOK
<1>6. to \in Pcs \ LivePcs /\ to \notin {"swap", "lock"} /\ ~Live(t) /\ ~held[t]
  BY <1>1 DEF Pcs, Live, LivePcs, Early, Down, Late, TailPcs, ThreadInv, OwnInv
<1> HIDE DEF to
<1> QED BY <1>1, <1>3, <1>4, <1>5, <1>6, BesideBase DEF SerialInv, ActiveInv

LEMMA RunEnterInv == ASSUME Base, NEW t \in Thread, RunEnter(t) PROVE Base' /\ Aside
<1> USE DEF Base
<1>1. /\ pc[t] = "hCheck" /\ pc' = [pc EXCEPT ![t] = "lock"] /\ back' = [back EXCEPT ![t] = "hDone"]
      /\ kind' = [kind EXCEPT ![t] = "enter"] /\ nonblock' = [nonblock EXCEPT ![t] = (t = Worker)]
      /\ Delayed /\ blockCnt' = blockCnt + 1
      /\ UNCHANGED <<crtc, lock, tail, enabled, mutex, canceling, camera, decon, pm, powered, active,
                     vblank, event, new, held, vote, op, result, requests>>
  BY IsDelayed DEF RunEnter, Submit, Goto, Block, swVars, deconVars
<1>2. pc'[t] = "lock" /\ back'[t] = "hDone" /\ kind'[t] = "enter"
      /\ \A u \in Thread : u # t => pc'[u] = pc[u] /\ back'[u] = back[u] /\ kind'[u] = kind[u]
  BY <1>1 DEF TypeOK
<1>3. QueueInv' /\ (Pending' <=> Pending)
  BY <1>1, DelayedQueue DEF TypeOK
<1>4. ~held[t] /\ ~Live(t)
  BY <1>1 DEF ThreadInv, OwnInv, TailPcs, Live, LivePcs, Early, Down, Late
<1>5. CountInv' /\ blockCnt' \in Nat
  <2>1. /\ \A s \in Reasons : s # "entry" => (Holds(t, s)' <=> Holds(t, s))
        /\ Holds(t, "entry")' /\ ~Holds(t, "entry") /\ "entry" \in Reasons
    BY <1>1, <1>2, <1>4 DEF Holds, Reasons, InCommit, TailPcs
  <2>2. Cardinality(Holders') = Cardinality(Holders) + 1
    BY <1>1, <1>2, <2>1, HoldersMove
  <2> QED BY <1>1, <1>2, <2>2, CountHeld
<1>6. TypeOK'
  <2>1. pc' \in [Thread -> Pcs] /\ back' \in [Thread -> {"idle", "hDone", "xUnblock"}]
        /\ kind' \in [Thread -> Kinds] /\ nonblock' \in [Thread -> BOOLEAN]
    BY <1>1 DEF TypeOK, Pcs, Kinds
  <2>2. dwork' \in {"idle", "timer"} /\ queue' \in Seq({"dwork", "commit"})
    BY <1>1, DelayedType
  <2>3. TypeOK /\ blockCnt' \in Nat
    BY <1>5
  <2>4. UNCHANGED <<crtc, lock, tail, enabled, mutex, canceling, camera, decon, pm, powered, active,
                    vblank, event, new, held, vote, op, result, requests>>
    BY <1>1
  <2> HIDE DEF Base
  <2> QED BY <2>1, <2>2, <2>3, <2>4 DEF TypeOK
<1>7. "lock" \in Pcs \ LivePcs
  BY DEF Pcs, LivePcs, Early, Down, Late
<1> QED BY <1>1, <1>2, <1>3, <1>4, <1>5, <1>6, <1>7, BesideBase DEF SerialInv, ActiveInv

-----------------------------------------------------------------------------
(* Requests of user threads *)

LEMMA UserCommitInv ==
  ASSUME Base, NEW t \in User, NEW k \in UserKinds, NEW nb \in BOOLEAN, UserCommit(t, k, nb) PROVE Base' /\ Aside
<1> USE DEF Base
<1>1. /\ pc[t] = "idle" /\ pc' = [pc EXCEPT ![t] = "lock"] /\ back' = [back EXCEPT ![t] = "idle"]
      /\ kind' = [kind EXCEPT ![t] = k] /\ nonblock' = [nonblock EXCEPT ![t] = nb]
      /\ requests' = requests + 1 /\ requests < MaxRequests /\ t \in Thread
      /\ UNCHANGED <<crtc, lock, tail, blockCnt, enabled, mutex, dwork, canceling, queue, camera, decon, pm, powered,
                     active, vblank, event, new, held, vote, op, result>>
  BY DEF UserCommit, Requesting, Submit, Goto, swVars, hibVars, deconVars, Thread
<1>2. pc'[t] = "lock" /\ back'[t] = "idle" /\ kind'[t] = k
      /\ \A u \in Thread : u # t => pc'[u] = pc[u] /\ back'[u] = back[u] /\ kind'[u] = kind[u]
  BY <1>1 DEF TypeOK
<1>3. QueueInv' /\ (Pending' <=> Pending)
  BY <1>1 DEF QueueInv, Pending
<1>4. ~held[t] /\ ~Live(t)
  BY <1>1 DEF ThreadInv, OwnInv, TailPcs, Live, LivePcs, Early, Down, Late
<1>5. CountInv'
  <2>1. \A r \in Reasons : Holds(t, r)' <=> Holds(t, r)
    BY <1>1, <1>2, <1>4 DEF Holds, Reasons, InCommit, TailPcs
  <2> QED BY <1>1, <1>2, <2>1, CountKept
<1>6. TypeOK'
  <2>1. pc' \in [Thread -> Pcs] /\ back' \in [Thread -> {"idle", "hDone", "xUnblock"}]
        /\ kind' \in [Thread -> Kinds] /\ nonblock' \in [Thread -> BOOLEAN]
    BY <1>1 DEF TypeOK, Pcs, Kinds, UserKinds
  <2>2. requests' \in 0 .. MaxRequests
    BY <1>1, HibernationAssumption DEF TypeOK
  <2> QED BY <1>1, <2>1, <2>2 DEF TypeOK
<1>7. "lock" \in Pcs \ LivePcs
  BY DEF Pcs, LivePcs, Early, Down, Late
<1>8. kind'[t] \in UserKinds \cup {"enter", "exit"} /\ ~held'[t]
  BY <1>1, <1>2, <1>4
<1> QED BY <1>1, <1>2, <1>3, <1>4, <1>5, <1>6, <1>7, <1>8, BesideBase DEF SerialInv, ActiveInv

LEMMA UserExitsInv == ASSUME Base, NEW t \in User, NEW o, UserExits(t, o) PROVE Base' /\ Aside
<1> USE DEF Base
<1>1. /\ pc[t] = "idle" /\ pc' = [pc EXCEPT ![t] = "xBlock"] /\ op' = [op EXCEPT ![t] = o] /\ o \in {"wakeup", "disable"}
      /\ requests' = requests + 1 /\ requests < MaxRequests /\ t \in Thread
      /\ UNCHANGED <<crtc, lock, tail, blockCnt, enabled, mutex, dwork, canceling, queue, camera, decon, pm, powered,
                     active, vblank, event, back, kind, nonblock, new, held, vote, result>>
  BY DEF UserExits, Requesting, Goto, swVars, hibVars, deconVars, Thread
<1>2. pc'[t] = "xBlock" /\ \A u \in Thread : u # t => pc'[u] = pc[u]
  BY <1>1 DEF TypeOK
<1>3. QueueInv' /\ (Pending' <=> Pending)
  BY <1>1 DEF QueueInv, Pending
<1>4. ~held[t] /\ ~Live(t)
  BY <1>1 DEF ThreadInv, OwnInv, TailPcs, Live, LivePcs, Early, Down, Late
<1>5. CountInv'
  <2>1. \A r \in Reasons : Holds(t, r)' <=> Holds(t, r)
    BY <1>1, <1>2, <1>4 DEF Holds, Reasons, InCommit, TailPcs
  <2> QED BY <1>1, <1>2, <2>1, CountKept
<1>6. TypeOK'
  <2>1. pc' \in [Thread -> Pcs] /\ op' \in [Thread -> {"none", "wakeup", "disable", "enable"}]
    BY <1>1 DEF TypeOK, Pcs
  <2>2. requests' \in 0 .. MaxRequests
    BY <1>1, HibernationAssumption DEF TypeOK
  <2> QED BY <1>1, <2>1, <2>2 DEF TypeOK
<1>7. "xBlock" \in Pcs \ LivePcs
  BY DEF Pcs, LivePcs, Early, Down, Late
<1> QED BY <1>1, <1>3, <1>4, <1>5, <1>6, <1>7, BesideBase DEF SerialInv, ActiveInv

LEMMA UserEnablesInv == ASSUME Base, NEW t \in User, UserEnables(t) PROVE Base' /\ Aside
<1> USE DEF Base
<1>1. /\ pc[t] = "idle" /\ pc' = [pc EXCEPT ![t] = "xUnblock"] /\ op' = [op EXCEPT ![t] = "enable"] /\ enabled' = TRUE
      /\ requests' = requests + 1 /\ requests < MaxRequests /\ t \in Thread
      /\ Delayed /\ blockCnt' = blockCnt + 1
      /\ UNCHANGED <<crtc, lock, tail, mutex, canceling, camera, decon, pm, powered,
                     active, vblank, event, back, kind, nonblock, new, held, vote, result>>
  BY IsDelayed DEF UserEnables, Requesting, Goto, Block, swVars, deconVars, Thread
<1>2. pc'[t] = "xUnblock" /\ \A u \in Thread : u # t => pc'[u] = pc[u]
  BY <1>1 DEF TypeOK
<1>3. QueueInv' /\ (Pending' <=> Pending)
  BY <1>1, DelayedQueue DEF TypeOK
<1>4. ~held[t] /\ ~Live(t)
  BY <1>1 DEF ThreadInv, OwnInv, TailPcs, Live, LivePcs, Early, Down, Late
<1>5. CountInv' /\ blockCnt' \in Nat
  <2>1. /\ \A s \in Reasons : s # "exit" => (Holds(t, s)' <=> Holds(t, s))
        /\ Holds(t, "exit")' /\ ~Holds(t, "exit") /\ "exit" \in Reasons
    BY <1>1, <1>2, <1>4 DEF Holds, Reasons, InCommit, TailPcs
  <2>2. Cardinality(Holders') = Cardinality(Holders) + 1
    BY <1>1, <1>2, <2>1, HoldersMove
  <2> QED BY <1>1, <1>2, <2>2, CountHeld
<1>6. TypeOK'
  <2>1. pc' \in [Thread -> Pcs] /\ op' \in [Thread -> {"none", "wakeup", "disable", "enable"}]
    BY <1>1 DEF TypeOK, Pcs
  <2>2. requests' \in 0 .. MaxRequests
    BY <1>1, HibernationAssumption DEF TypeOK
  <2>3. dwork' \in {"idle", "timer"} /\ queue' \in Seq({"dwork", "commit"})
    BY <1>1, DelayedType
  <2> QED BY <1>1, <1>5, <2>1, <2>2, <2>3 DEF TypeOK
<1>7. "xUnblock" \in Pcs \ LivePcs
  BY DEF Pcs, LivePcs, Early, Down, Late
<1> QED BY <1>1, <1>3, <1>4, <1>5, <1>6, <1>7, BesideBase DEF SerialInv, ActiveInv

(* Taking a vblank reference.                                                *)
LEMMA VblankGetCount ==
  ASSUME TypeOK, VblankGet
  PROVE  /\ Delayed /\ vblank' = [on |-> vblank.on, ref |-> vblank.ref + 1, enabled |-> TRUE]
         /\ blockCnt' = blockCnt - One(vblank.enabled) + One(TRUE)
<1>1. vblank' = [on |-> vblank.on, ref |-> vblank.ref + 1, enabled |-> TRUE]
  BY DEF TypeOK, VblankGet
<1>2. Delayed
  BY IsDelayed DEF VblankGet, Delayed, Block
<1>3. blockCnt' = IF vblank.enabled THEN blockCnt ELSE blockCnt + 1
  BY DEF VblankGet, Block
<1>4. blockCnt \in Nat
  BY DEF TypeOK
<1>5. blockCnt' = blockCnt - One(vblank.enabled) + One(TRUE)
  BY <1>3, <1>4 DEF One
<1> QED BY <1>1, <1>2, <1>5

LEMMA UserGetsVblankInv == ASSUME Base, NEW t \in User, UserGetsVblank(t) PROVE Base' /\ Aside
<1> USE DEF Base
<1>1. /\ pc[t] = "idle" /\ pc' = [pc EXCEPT ![t] = "holdsVblank"] /\ vblank.on
      /\ requests' = requests + 1 /\ requests < MaxRequests /\ t \in Thread
      /\ Delayed /\ vblank' = [on |-> vblank.on, ref |-> vblank.ref + 1, enabled |-> TRUE]
      /\ blockCnt' = blockCnt - One(vblank.enabled) + One(TRUE)
      /\ UNCHANGED <<crtc, lock, tail, enabled, mutex, canceling, camera, decon, pm, powered,
                     active, event, back, kind, nonblock, new, held, vote, op, result>>
  BY VblankGetCount DEF UserGetsVblank, Requesting, Goto, swVars, Thread
<1>2. pc'[t] = "holdsVblank" /\ \A u \in Thread : u # t => pc'[u] = pc[u]
  BY <1>1 DEF TypeOK
<1>3. QueueInv' /\ (Pending' <=> Pending)
  BY <1>1, DelayedQueue DEF TypeOK
<1>4. ~held[t] /\ ~Live(t)
  BY <1>1 DEF ThreadInv, OwnInv, TailPcs, Live, LivePcs, Early, Down, Late
<1>5. CountInv' /\ blockCnt' \in Nat /\ vblank'.ref \in Nat
  <2> DEFINE d == 0
  <2>1. \A r \in Reasons : Holds(t, r)' <=> Holds(t, r)
    BY <1>1, <1>2, <1>4 DEF Holds, Reasons, InCommit, TailPcs
  <2>2. Cardinality(Holders') = Cardinality(Holders) + d
    BY <1>1, <1>2, <2>1, HoldersMove, HoldersFinite
  <2>3. blockCnt' = blockCnt + d - One(vblank.enabled) + One(vblank'.enabled)
    BY <1>1 DEF TypeOK, One
  <2>4. canceling' = canceling - One(pc[t] \in {"xWait", "sWait"}) + One(pc'[t] \in {"xWait", "sWait"})
    BY <1>1, <1>2 DEF TypeOK, One
  <2>5. vblank'.ref \in Int
        /\ vblank'.ref - One(event') - One(pc'[t] = "holdsVblank") >= vblank.ref - One(event) - One(pc[t] = "holdsVblank")
    BY <1>1, <1>2 DEF TypeOK, One
  <2>6. d \in Int /\ t \in Thread
    BY <1>1
  <2> HIDE DEF d
  <2> QED BY <1>2, <2>6, <2>2, <2>3, <2>4, <2>5, CountStep
<1>6. TypeOK'
  <2>1. pc' \in [Thread -> Pcs]
    BY <1>1 DEF TypeOK, Pcs
  <2>2. requests' \in 0 .. MaxRequests
    BY <1>1, HibernationAssumption DEF TypeOK
  <2>3. dwork' \in {"idle", "timer"} /\ queue' \in Seq({"dwork", "commit"})
    BY <1>1, DelayedType
  <2>4. vblank' \in [on : BOOLEAN, ref : Nat, enabled : BOOLEAN]
    BY <1>1, <1>5 DEF TypeOK
  <2> QED BY <1>1, <1>5, <2>1, <2>2, <2>3, <2>4 DEF TypeOK
<1>7. "holdsVblank" \in Pcs \ LivePcs /\ active # "INACTIVE"
  BY <1>1 DEF Pcs, LivePcs, Early, Down, Late, ActiveInv
<1> QED BY <1>1, <1>3, <1>4, <1>5, <1>6, <1>7, BesideBase DEF SerialInv

LEMMA UserPutsVblankInv == ASSUME Base, NEW t \in User, UserPutsVblank(t) PROVE Base' /\ Aside
<1> USE DEF Base
<1>1. /\ pc[t] = "holdsVblank" /\ pc' = [pc EXCEPT ![t] = "idle"] /\ t \in Thread
      /\ vblank' = [vblank EXCEPT !.ref = vblank.ref - 1]
      /\ UNCHANGED <<crtc, lock, tail, blockCnt, enabled, mutex, dwork, canceling, queue, camera, decon, pm, powered,
                     active, event, back, kind, nonblock, new, held, vote, op, result, requests>>
  BY DEF UserPutsVblank, VblankPut, Goto, swVars, hibVars, Thread
<1>2. pc'[t] = "idle" /\ (\A u \in Thread : u # t => pc'[u] = pc[u])
      /\ vblank'.ref = vblank.ref - 1 /\ vblank'.on = vblank.on /\ vblank'.enabled = vblank.enabled
  BY <1>1 DEF TypeOK
<1>3. QueueInv' /\ (Pending' <=> Pending)
  BY <1>1 DEF QueueInv, Pending
<1>4. ~held[t] /\ ~Live(t)
  BY <1>1 DEF ThreadInv, OwnInv, TailPcs, Live, LivePcs, Early, Down, Late
<1>5. CountInv' /\ vblank'.ref \in Nat
  <2> DEFINE d == 0
  <2>1. \A r \in Reasons : Holds(t, r)' <=> Holds(t, r)
    BY <1>1, <1>2, <1>4 DEF Holds, Reasons, InCommit, TailPcs
  <2>2. Cardinality(Holders') = Cardinality(Holders) + d
    BY <1>1, <1>2, <2>1, HoldersMove, HoldersFinite
  <2>3. blockCnt' = blockCnt + d - One(vblank.enabled) + One(vblank'.enabled)
    BY <1>1, <1>2 DEF TypeOK, One
  <2>4. canceling' = canceling - One(pc[t] \in {"xWait", "sWait"}) + One(pc'[t] \in {"xWait", "sWait"})
    BY <1>1, <1>2 DEF TypeOK, One
  <2>5. vblank'.ref \in Int
        /\ vblank'.ref - One(event') - One(pc'[t] = "holdsVblank") >= vblank.ref - One(event) - One(pc[t] = "holdsVblank")
    BY <1>1, <1>2 DEF TypeOK, One
  <2>6. d \in Int /\ t \in Thread
    BY <1>1
  <2> HIDE DEF d
  <2> QED BY <1>2, <2>6, <2>2, <2>3, <2>4, <2>5, CountStep
<1>6. TypeOK'
  <2>1. pc' \in [Thread -> Pcs]
    BY <1>1 DEF TypeOK, Pcs
  <2>2. vblank' \in [on : BOOLEAN, ref : Nat, enabled : BOOLEAN]
    BY <1>1, <1>2, <1>5 DEF TypeOK
  <2> QED BY <1>1, <2>1, <2>2 DEF TypeOK
<1>7. "idle" \in Pcs \ LivePcs
  BY DEF Pcs, LivePcs, Early, Down, Late
<1> QED BY <1>1, <1>2, <1>3, <1>4, <1>5, <1>6, <1>7, BesideBase DEF SerialInv, ActiveInv

-----------------------------------------------------------------------------
(* block_exit *)

LEMMA ExitBlocksInv == ASSUME Base, NEW t \in Thread, ExitBlocks(t) PROVE Base' /\ Aside
<1> USE DEF Base
<1> DEFINE to == IF enabled THEN "xCancel" ELSE "xUnblock"
<1>1. /\ pc[t] = "xBlock" /\ pc' = [pc EXCEPT ![t] = to] /\ Delayed /\ blockCnt' = blockCnt + 1
      /\ UNCHANGED <<crtc, lock, tail, enabled, mutex, canceling, camera, decon, pm, powered,
                     active, vblank, event, back, kind, nonblock, new, held, vote, op, result, requests>>
  BY IsDelayed DEF ExitBlocks, ExitUnchanged, Goto, Block, swVars, deconVars
<1>2. pc'[t] = to /\ to \in {"xCancel", "xUnblock"} /\ \A u \in Thread : u # t => pc'[u] = pc[u]
  BY <1>1 DEF TypeOK
<1> HIDE DEF to
<1>3. QueueInv' /\ (Pending' <=> Pending)
  BY <1>1, DelayedQueue DEF TypeOK
<1>4. ~held[t] /\ ~Live(t)
  BY <1>1 DEF ThreadInv, OwnInv, TailPcs, Live, LivePcs, Early, Down, Late
<1>5. CountInv' /\ blockCnt' \in Nat
  <2>1. /\ \A s \in Reasons : s # "exit" => (Holds(t, s)' <=> Holds(t, s))
        /\ Holds(t, "exit")' /\ ~Holds(t, "exit") /\ "exit" \in Reasons
    BY <1>1, <1>2, <1>4 DEF Holds, Reasons, InCommit, TailPcs
  <2>2. Cardinality(Holders') = Cardinality(Holders) + 1
    BY <1>1, <1>2, <2>1, HoldersMove
  <2> QED BY <1>1, <1>2, <2>2, CountHeld
<1>6. TypeOK'
  <2>1. pc' \in [Thread -> Pcs]
    BY <1>1, <1>2 DEF TypeOK, Pcs
  <2>2. dwork' \in {"idle", "timer"} /\ queue' \in Seq({"dwork", "commit"})
    BY <1>1, DelayedType
  <2> QED BY <1>1, <1>5, <2>1, <2>2 DEF TypeOK
<1>7. to \in Pcs \ LivePcs /\ to \notin {"swap", "lock"}
  BY <1>2 DEF Pcs, LivePcs, Early, Down, Late
<1> QED BY <1>1, <1>3, <1>4, <1>5, <1>6, <1>7, BesideBase DEF SerialInv, ActiveInv

LEMMA ExitCancelsInv == ASSUME Base, NEW t \in Thread, ExitCancels(t) PROVE Base' /\ Aside
<1> USE DEF Base
<1>1. /\ pc[t] = "xCancel" /\ pc' = [pc EXCEPT ![t] = "xWait"] /\ blockCnt' = blockCnt + 1
      /\ CancelWork /\ canceling' = canceling + 1
      /\ UNCHANGED <<crtc, lock, tail, enabled, mutex, camera, decon, pm, powered,
                     active, vblank, event, back, kind, nonblock, new, held, vote, op, result, requests>>
  BY DEF ExitCancels, ExitUnchanged, Goto, CancelWork, swVars, deconVars
<1>2. pc'[t] = "xWait" /\ \A u \in Thread : u # t => pc'[u] = pc[u]
  BY <1>1 DEF TypeOK
<1>3. QueueInv' /\ (Pending' <=> Pending) /\ dwork' = "idle" /\ queue' \in Seq(Item)
  BY <1>1, CancelledQueue
<1>4. ~held[t] /\ ~Live(t)
  BY <1>1 DEF ThreadInv, OwnInv, TailPcs, Live, LivePcs, Early, Down, Late
<1>5. CountInv' /\ blockCnt' \in Nat /\ canceling' \in Nat
  <2>1. /\ \A s \in Reasons : s # "cancel" => (Holds(t, s)' <=> Holds(t, s))
        /\ Holds(t, "cancel")' /\ ~Holds(t, "cancel") /\ "cancel" \in Reasons
    BY <1>1, <1>2, <1>4 DEF Holds, Reasons, InCommit, TailPcs
  <2>2. Cardinality(Holders') = Cardinality(Holders) + 1
    BY <1>1, <1>2, <2>1, HoldersMove
  <2>3. blockCnt' = blockCnt + 1 - One(vblank.enabled) + One(vblank'.enabled)
    BY <1>1 DEF TypeOK, One
  <2>4. canceling' = canceling - One(pc[t] \in {"xWait", "sWait"}) + One(pc'[t] \in {"xWait", "sWait"})
    BY <1>1, <1>2 DEF TypeOK, One
  <2>5. vblank'.ref \in Int
        /\ vblank'.ref - One(event') - One(pc'[t] = "holdsVblank") >= vblank.ref - One(event) - One(pc[t] = "holdsVblank")
    BY <1>1, <1>2 DEF TypeOK, One
  <2> QED BY <1>2, <2>2, <2>3, <2>4, <2>5, CountStep
<1>6. TypeOK'
  <2>1. pc' \in [Thread -> Pcs]
    BY <1>1 DEF TypeOK, Pcs
  <2> QED BY <1>1, <1>3, <1>5, <2>1 DEF TypeOK, Item
<1>7. "xWait" \in Pcs \ LivePcs
  BY DEF Pcs, LivePcs, Early, Down, Late
<1> QED BY <1>1, <1>3, <1>4, <1>5, <1>6, <1>7, BesideBase DEF SerialInv, ActiveInv

LEMMA ExitCancelledInv == ASSUME Base, NEW t \in Thread, ExitCancelled(t) PROVE Base' /\ Aside
<1> USE DEF Base
<1> DEFINE to == pc'[t]
<1>1. /\ pc[t] = "xWait" /\ pc' = [pc EXCEPT ![t] = to]
      /\ \/ to = "lock" /\ back' = [back EXCEPT ![t] = "xUnblock"] /\ kind' = [kind EXCEPT ![t] = "exit"]
            /\ nonblock' = [nonblock EXCEPT ![t] = (op[t] = "wakeup")]
         \/ to = "xUnblock" /\ UNCHANGED <<back, kind, nonblock>>
      /\ canceling' = canceling - 1 /\ blockCnt' = blockCnt - 1
      /\ UNCHANGED <<crtc, lock, tail, enabled, mutex, dwork, queue, camera, decon, pm, powered,
                     active, vblank, event, new, held, vote, op, result, requests>>
  BY DEF ExitCancelled, ExitUnchanged, Submit, Goto, swVars, deconVars, TypeOK
<1>2. /\ to \in {"lock", "xUnblock"} /\ \A u \in Thread : u # t => pc'[u] = pc[u] /\ back'[u] = back[u] /\ kind'[u] = kind[u]
      /\ to = "lock" => back'[t] = "xUnblock" /\ kind'[t] = "exit"
  BY <1>1 DEF TypeOK
<1>3. QueueInv' /\ (Pending' <=> Pending)
  BY <1>1 DEF QueueInv, Pending
<1>4. ~held[t] /\ ~Live(t)
  BY <1>1 DEF ThreadInv, OwnInv, TailPcs, Live, LivePcs, Early, Down, Late
<1>5. CountInv' /\ blockCnt' \in Nat /\ canceling' \in Nat
  <2> DEFINE d == -1
  <2>1. /\ \A s \in Reasons : s # "cancel" => (Holds(t, s)' <=> Holds(t, s))
        /\ ~Holds(t, "cancel")' /\ Holds(t, "cancel") /\ "cancel" \in Reasons
    BY <1>1, <1>2, <1>4 DEF Holds, Reasons, InCommit, TailPcs
  <2>2. Cardinality(Holders') = Cardinality(Holders) + d
    <3>1. Cardinality(Holders') = Cardinality(Holders) - 1
      BY <1>1, <1>2, <2>1, HoldersMove
    <3> QED BY <3>1, HoldersFinite
  <2>3. blockCnt' = blockCnt + d - One(vblank.enabled) + One(vblank'.enabled)
    BY <1>1 DEF TypeOK, One
  <2>4. canceling' = canceling - One(pc[t] \in {"xWait", "sWait"}) + One(pc'[t] \in {"xWait", "sWait"})
    BY <1>1, <1>2 DEF TypeOK, One
  <2>5. vblank'.ref \in Int
        /\ vblank'.ref - One(event') - One(pc'[t] = "holdsVblank") >= vblank.ref - One(event) - One(pc[t] = "holdsVblank")
    BY <1>1, <1>2 DEF TypeOK, One
  <2>6. d \in Int
    OBVIOUS
  <2> HIDE DEF d
  <2> QED BY <1>2, <2>2, <2>3, <2>4, <2>5, <2>6, CountStep
<1>6. TypeOK'
  <2>1. back' \in [Thread -> {"idle", "hDone", "xUnblock"}] /\ kind' \in [Thread -> Kinds]
    BY <1>1 DEF TypeOK, Kinds
  <2>3. pc' \in [Thread -> Pcs]
    <3>1. to \in Pcs /\ pc \in [Thread -> Pcs]
      BY <1>2 DEF TypeOK, Pcs
    <3> HIDE DEF to
    <3> QED BY <1>1, <3>1
  <2>2. nonblock' \in [Thread -> BOOLEAN]
    <3>1. (op[t] = "wakeup") \in BOOLEAN /\ nonblock \in [Thread -> BOOLEAN]
      BY DEF TypeOK
    <3> QED BY <1>1, <3>1
  <2> QED BY <1>1, <1>5, <2>1, <2>2, <2>3 DEF TypeOK
<1>7. to \in Pcs \ LivePcs /\ to # "swap"
  BY <1>2 DEF Pcs, LivePcs, Early, Down, Late
<1> HIDE DEF to
<1> QED BY <1>1, <1>2, <1>3, <1>4, <1>5, <1>6, <1>7, BesideBase DEF SerialInv, ActiveInv

LEMMA ExitUnblocksInv == ASSUME Base, NEW t \in Thread, ExitUnblocks(t) PROVE Base' /\ Aside
<1> USE DEF Base
<1>1. /\ pc[t] = "xUnblock" /\ pc' = [pc EXCEPT ![t] = "xRearm"] /\ blockCnt' = blockCnt - 1
      /\ enabled' \in {FALSE, enabled}
      /\ UNCHANGED <<crtc, lock, tail, mutex, dwork, canceling, queue, camera, decon, pm, powered,
                     active, vblank, event, back, kind, nonblock, new, held, vote, op, result, requests>>
  BY DEF ExitUnblocks, ExitUnchanged, Goto, swVars, deconVars
<1>2. pc'[t] = "xRearm" /\ \A u \in Thread : u # t => pc'[u] = pc[u]
  BY <1>1 DEF TypeOK
<1>3. QueueInv' /\ (Pending' <=> Pending)
  BY <1>1 DEF QueueInv, Pending
<1>4. ~held[t] /\ ~Live(t)
  BY <1>1 DEF ThreadInv, OwnInv, TailPcs, Live, LivePcs, Early, Down, Late
<1>5. CountInv' /\ blockCnt' \in Nat
  <2> DEFINE d == -1
  <2>1. /\ \A s \in Reasons : s # "exit" => (Holds(t, s)' <=> Holds(t, s))
        /\ ~Holds(t, "exit")' /\ Holds(t, "exit") /\ "exit" \in Reasons
    BY <1>1, <1>2, <1>4 DEF Holds, Reasons, InCommit, TailPcs
  <2>2. Cardinality(Holders') = Cardinality(Holders) - 1
    BY <1>1, <1>2, <2>1, HoldersMove
  <2>3. d \in {-1, 0, 1} /\ Cardinality(Holders') = Cardinality(Holders) + d /\ blockCnt' = blockCnt + d
    BY <1>1, <2>2, HoldersFinite DEF TypeOK
  <2> HIDE DEF d
  <2> QED BY <1>1, <1>2, <2>3, CountHeld
<1>6. TypeOK'
  <2>1. pc' \in [Thread -> Pcs] /\ enabled' \in BOOLEAN
    BY <1>1, <1>2 DEF TypeOK, Pcs
  <2> QED BY <1>1, <1>5, <2>1 DEF TypeOK
<1>7. "xRearm" \in Pcs \ LivePcs
  BY DEF Pcs, LivePcs, Early, Down, Late
<1> QED BY <1>1, <1>3, <1>4, <1>5, <1>6, <1>7, BesideBase DEF SerialInv, ActiveInv

LEMMA ExitRearmsInv == ASSUME Base, NEW t \in Thread, ExitRearms(t) PROVE Base' /\ Aside
<1> USE DEF Base
<1>1. /\ pc[t] = "xRearm" /\ pc' = [pc EXCEPT ![t] = "idle"] /\ Delayed /\ op' = [op EXCEPT ![t] = "none"]
      /\ UNCHANGED <<crtc, lock, tail, blockCnt, enabled, mutex, canceling, camera, decon, pm, powered,
                     active, vblank, event, back, kind, nonblock, new, held, vote, result, requests>>
  BY IsDelayed DEF ExitRearms, Goto, swVars, deconVars
<1>2. pc'[t] = "idle" /\ \A u \in Thread : u # t => pc'[u] = pc[u]
  BY <1>1 DEF TypeOK
<1>3. QueueInv' /\ (Pending' <=> Pending)
  BY <1>1, DelayedQueue DEF TypeOK
<1>4. ~held[t] /\ ~Live(t)
  BY <1>1 DEF ThreadInv, OwnInv, TailPcs, Live, LivePcs, Early, Down, Late
<1>5. CountInv'
  <2>1. \A r \in Reasons : Holds(t, r)' <=> Holds(t, r)
    BY <1>1, <1>2, <1>4 DEF Holds, Reasons, InCommit, TailPcs
  <2> QED BY <1>1, <1>2, <2>1, CountKept
<1>6. TypeOK'
  <2>1. pc' \in [Thread -> Pcs] /\ op' \in [Thread -> {"none", "wakeup", "disable", "enable"}]
    BY <1>1 DEF TypeOK, Pcs
  <2>2. dwork' \in {"idle", "timer"} /\ queue' \in Seq({"dwork", "commit"})
    BY <1>1, DelayedType
  <2> QED BY <1>1, <2>1, <2>2 DEF TypeOK
<1>7. "idle" \in Pcs \ LivePcs
  BY DEF Pcs, LivePcs, Early, Down, Late
<1> QED BY <1>1, <1>3, <1>4, <1>5, <1>6, <1>7, BesideBase DEF SerialInv, ActiveInv

-----------------------------------------------------------------------------
(* System suspend *)

LEMMA SuspendCancelInv ==
  ASSUME Base, SuspendCancels \/ SuspendCancelled PROVE Base' /\ Aside
<1> USE DEF Base
<1> DEFINE t == Suspender
           to == pc'[t]
<1>1. /\ pc' = [pc EXCEPT ![t] = to] /\ t \in Thread
      /\ \/ pc[t] = "sCancel" /\ to = "sWait" /\ CancelWork
         \/ pc[t] = "sWait" /\ to = "sFlush" /\ UNCHANGED <<dwork, queue>> /\ canceling' = canceling - 1
      /\ UNCHANGED <<crtc, lock, tail, blockCnt, enabled, mutex, camera, decon, pm, powered,
                     active, vblank, event, back, kind, nonblock, new, held, vote, op, result, requests>>
  BY DEF SuspendCancels, SuspendCancelled, SuspendUnchanged, Goto, swVars, deconVars, Thread, TypeOK
<1>2. to \in {"sWait", "sFlush"} /\ \A u \in Thread : u # t => pc'[u] = pc[u]
  BY <1>1 DEF TypeOK
<1>3. QueueInv' /\ (Pending' <=> Pending) /\ dwork' \in {"idle", "timer"} /\ queue' \in Seq({"dwork", "commit"})
  <2>1. CASE CancelWork
    BY <2>1, CancelledQueue DEF Item
  <2>2. CASE UNCHANGED <<dwork, queue>>
    BY <2>2 DEF QueueInv, Pending, TypeOK
  <2> QED BY <1>1, <2>1, <2>2
<1>4. ~held[t] /\ ~Live(t) /\ pc[t] # "swap"
  BY <1>1 DEF ThreadInv, OwnInv, TailPcs, Live, LivePcs, Early, Down, Late
<1>5. CountInv' /\ blockCnt' \in Nat /\ canceling' \in Nat
  <2> DEFINE d == 0
  <2>1. \A r \in Reasons : Holds(t, r)' <=> Holds(t, r)
    BY <1>1, <1>2, <1>4 DEF Holds, Reasons, InCommit, TailPcs
  <2>2. Cardinality(Holders') = Cardinality(Holders) + d
    BY <1>1, <1>2, <2>1, HoldersMove, HoldersFinite
  <2>3. blockCnt' = blockCnt + d - One(vblank.enabled) + One(vblank'.enabled)
    BY <1>1 DEF TypeOK, One
  <2>4. canceling' = canceling - One(pc[t] \in {"xWait", "sWait"}) + One(pc'[t] \in {"xWait", "sWait"})
    BY <1>1, <1>2 DEF TypeOK, One, CancelWork
  <2>5. vblank'.ref \in Int
        /\ vblank'.ref - One(event') - One(pc'[t] = "holdsVblank") >= vblank.ref - One(event) - One(pc[t] = "holdsVblank")
    BY <1>1, <1>2 DEF TypeOK, One
  <2>6. d \in Int /\ t \in Thread /\ \A u \in Thread : u # t => pc'[u] = pc[u]
    BY <1>1, <1>2
  <2> HIDE DEF d, t
  <2> QED BY <2>2, <2>3, <2>4, <2>5, <2>6, CountStep
<1>6. TypeOK'
  <2>1. pc' \in [Thread -> Pcs]
    BY <1>1, <1>2 DEF TypeOK, Pcs
  <2> QED BY <1>1, <1>3, <1>5, <2>1 DEF TypeOK
<1>7. to \in Pcs \ LivePcs /\ to \notin {"swap", "lock"}
  BY <1>2 DEF Pcs, LivePcs, Early, Down, Late
<1> HIDE DEF t, to
<1> QED BY <1>1, <1>3, <1>4, <1>5, <1>6, <1>7, BesideBase DEF SerialInv, ActiveInv

(* The steps of a suspend that only read. *)
LEMMA SuspendMovesInv ==
  ASSUME Base, SuspendStarts \/ SuspendFlushed \/ SuspendChecks \/ SuspendEnds PROVE Base' /\ Aside
<1> USE DEF Base
<1> DEFINE t == Suspender
           to == pc'[t]
<1>1. /\ pc[t] \in {"idle", "sFlush", "sCheck", "sDone"} /\ pc' = [pc EXCEPT ![t] = to] /\ t \in Thread
      /\ to \in {"idle", "sCancel", "sCheck", "sDone", "hLock"}
      /\ result' \in {result, "none", "busy"} /\ (requests' = requests \/ (requests < MaxRequests /\ requests' = requests + 1))
      /\ UNCHANGED <<crtc, lock, tail, blockCnt, enabled, mutex, dwork, queue, canceling, camera, decon, pm, powered,
                     active, vblank, event, back, kind, nonblock, new, held, vote, op>>
  BY DEF SuspendStarts, SuspendFlushed, SuspendChecks, SuspendEnds, Requesting,
         SuspendUnchanged, Goto, swVars, deconVars, Thread, TypeOK
<1>2. \A u \in Thread : u # t => pc'[u] = pc[u]
  BY <1>1 DEF TypeOK
<1>3. QueueInv' /\ (Pending' <=> Pending)
  BY <1>1 DEF QueueInv, Pending
<1>4. ~held[t] /\ ~Live(t) /\ pc[t] # "swap"
  BY <1>1 DEF ThreadInv, OwnInv, TailPcs, Live, LivePcs, Early, Down, Late
<1>5. CountInv'
  <2>1. \A r \in Reasons : Holds(t, r)' <=> Holds(t, r)
    BY <1>1, <1>2, <1>4 DEF Holds, Reasons, InCommit, TailPcs
  <2> QED BY <1>1, <1>2, <2>1, CountKept
<1>6. TypeOK'
  <2>1. pc' \in [Thread -> Pcs] /\ result' \in {"none", "ok", "busy", "again"}
    BY <1>1 DEF TypeOK, Pcs
  <2>2. requests' \in 0 .. MaxRequests
    BY <1>1, HibernationAssumption DEF TypeOK
  <2> QED BY <1>1, <2>1, <2>2 DEF TypeOK
<1>7. to \in Pcs \ LivePcs /\ to \notin {"swap", "lock"}
  BY <1>1 DEF Pcs, LivePcs, Early, Down, Late
<1> HIDE DEF t, to
<1> QED BY <1>1, <1>3, <1>4, <1>5, <1>6, <1>7, BesideBase DEF SerialInv, ActiveInv

-----------------------------------------------------------------------------
(* The end of a commit tail, and the worker *)

LEMMA TailUnblockInv == ASSUME Base, NEW t \in Thread, TailUnblock(t) PROVE Base' /\ Aside
<1> USE DEF Base
<1>1. /\ pc[t] = "tUnblock" /\ pc' = [pc EXCEPT ![t] = "tRearm"] /\ blockCnt' = IF held[t] THEN blockCnt - 1 ELSE blockCnt
      /\ UNCHANGED <<crtc, lock, tail, enabled, mutex, dwork, canceling, queue, camera, decon, pm, powered,
                     active, vblank, event, back, kind, nonblock, new, held, vote, op, result, requests>>
  BY DEF TailUnblock, TailUnchanged, Goto, deconVars
<1>2. pc'[t] = "tRearm" /\ \A u \in Thread : u # t => pc'[u] = pc[u]
  BY <1>1 DEF TypeOK
<1>3. QueueInv' /\ (Pending' <=> Pending)
  BY <1>1 DEF QueueInv, Pending
<1>4. ~Live(t) /\ blockCnt \in Nat
  BY <1>1 DEF Live, LivePcs, Early, Down, Late, TypeOK
<1>5. CountInv' /\ blockCnt' \in Nat
  <2> DEFINE d == IF held[t] THEN -1 ELSE 0
  <2>1. /\ \A s \in Reasons : s # "tail" => (Holds(t, s)' <=> Holds(t, s))
        /\ ~Holds(t, "tail")' /\ (Holds(t, "tail") <=> held[t]) /\ "tail" \in Reasons
    BY <1>1, <1>2 DEF Holds, Reasons, InCommit, TailPcs
  <2>2. Cardinality(Holders') = Cardinality(Holders) + d
    <3>1. CASE held[t]
      <4>1. Cardinality(Holders') = Cardinality(Holders) - 1
        BY <1>1, <1>2, <2>1, <3>1, HoldersMove
      <4> QED BY <3>1, <4>1, HoldersFinite
    <3>2. CASE ~held[t]
      <4>1. Cardinality(Holders') = Cardinality(Holders)
        BY <1>1, <1>2, <2>1, <3>2, HoldersMove
      <4> QED BY <3>2, <4>1, HoldersFinite
    <3> QED BY <3>1, <3>2
  <2>3. d \in {-1, 0, 1} /\ blockCnt' = blockCnt + d
    BY <1>1, <1>4
  <2> HIDE DEF d
  <2> QED BY <1>1, <1>2, <2>2, <2>3, CountHeld
<1>6. TypeOK'
  <2>1. pc' \in [Thread -> Pcs]
    BY <1>1 DEF TypeOK, Pcs, TailPcs
  <2> QED BY <1>1, <1>5, <2>1 DEF TypeOK
<1>7. "tRearm" \in Pcs \ LivePcs /\ "tRearm" \in TailPcs
  BY DEF Pcs, LivePcs, Early, Down, Late, TailPcs
<1> QED BY <1>1, <1>3, <1>4, <1>5, <1>6, <1>7, BesideBase DEF SerialInv, ActiveInv

LEMMA TailRearmInv == ASSUME Base, NEW t \in Thread, TailRearm(t) PROVE Base' /\ Aside
<1> USE DEF Base
<1> DEFINE to == back[t]
<1>1. /\ pc[t] = "tRearm" /\ pc' = [pc EXCEPT ![t] = to] /\ Delayed
      /\ held' = [held EXCEPT ![t] = FALSE] /\ lock' = IF lock = t THEN NoThread ELSE lock
      /\ UNCHANGED <<crtc, tail, blockCnt, enabled, mutex, canceling, camera, decon, pm, powered,
                     active, vblank, event, back, kind, nonblock, new, vote, op, result, requests>>
  BY IsDelayed DEF TailRearm, TailUnchanged, Leave, deconVars, Delayed
<1>2. pc'[t] = to /\ to \in {"idle", "hDone", "xUnblock"} /\ ~held'[t]
      /\ \A u \in Thread : u # t => pc'[u] = pc[u] /\ held'[u] = held[u]
  BY <1>1 DEF TypeOK
<1>3. QueueInv' /\ (Pending' <=> Pending)
  BY <1>1, DelayedQueue DEF TypeOK
<1>4. ~Live(t) /\ \A u \in Thread : u # t /\ pc[u] = "swap" => lock' = u
  BY <1>1 DEF Live, LivePcs, Early, Down, Late, SerialInv
<1>5. CountInv'
  <2>1. \A r \in Reasons : Holds(t, r)' <=> Holds(t, r)
    BY <1>1, <1>2 DEF Holds, Reasons, InCommit, TailPcs
  <2> QED BY <1>1, <1>2, <2>1, CountKept
<1>6. TypeOK'
  <2>1. pc' \in [Thread -> Pcs] /\ held' \in [Thread -> BOOLEAN] /\ lock' \in Thread \cup {NoThread}
    BY <1>1, <1>2 DEF TypeOK, Pcs
  <2>2. dwork' \in {"idle", "timer"} /\ queue' \in Seq({"dwork", "commit"})
    BY <1>1, DelayedType
  <2> QED BY <1>1, <2>1, <2>2 DEF TypeOK
<1>7. to \in Pcs \ LivePcs /\ to \notin {"swap", "lock"}
  BY <1>2 DEF Pcs, LivePcs, Early, Down, Late
<1> HIDE DEF to
<1> QED BY <1>1, <1>2, <1>3, <1>4, <1>5, <1>6, <1>7, BesideBase DEF ActiveInv

LEMMA WorkerTakesHibernationInv == ASSUME Base, WorkerTakesHibernation PROVE Base' /\ Aside
<1> USE DEF Base
<1> DEFINE t == Worker
<1>1. /\ pc[t] = "idle" /\ pc' = [pc EXCEPT ![t] = "hLock"] /\ t \in Thread
      /\ queue # <<>> /\ Head(queue) = "dwork" /\ queue' = Tail(queue) /\ back' = [back EXCEPT ![t] = "idle"]
      /\ UNCHANGED <<crtc, lock, tail, blockCnt, enabled, mutex, dwork, canceling, camera, decon, pm, powered,
                     active, vblank, event, kind, nonblock, new, held, vote, op, result, requests>>
  BY DEF WorkerTakesHibernation, WorkerTakes, Goto, swVars, deconVars, Thread
<1>2. pc'[t] = "hLock" /\ \A u \in Thread : u # t => pc'[u] = pc[u] /\ back'[u] = back[u]
  BY <1>1 DEF TypeOK
<1>3. QueueInv' /\ (Pending' <=> Pending)
  <2>1. Once(queue') /\ \A x : Has(queue', x) <=> Has(queue, x) /\ x # "dwork"
    BY <1>1, HeadItem DEF QueueInv
  <2> QED BY <1>1, <2>1 DEF QueueInv, Pending
<1>4. ~held[t] /\ ~Live(t)
  BY <1>1 DEF ThreadInv, OwnInv, TailPcs, Live, LivePcs, Early, Down, Late
<1>5. CountInv'
  <2>1. \A r \in Reasons : Holds(t, r)' <=> Holds(t, r)
    BY <1>1, <1>2, <1>4 DEF Holds, Reasons, InCommit, TailPcs
  <2> QED BY <1>1, <1>2, <2>1, CountKept
<1>6. TypeOK'
  <2>1. pc' \in [Thread -> Pcs] /\ back' \in [Thread -> {"idle", "hDone", "xUnblock"}]
    BY <1>1 DEF TypeOK, Pcs
  <2> QED BY <1>1, <1>3, <2>1 DEF TypeOK, QueueInv, Once, Item
<1>7. "hLock" \in Pcs \ LivePcs
  BY DEF Pcs, LivePcs, Early, Down, Late
<1> HIDE DEF t
<1> QED BY <1>1, <1>3, <1>4, <1>5, <1>6, <1>7, BesideBase DEF SerialInv, ActiveInv

-----------------------------------------------------------------------------
(* Interrupts, the timer, the camera and runtime PM *)

(* Nobody moves. *)
LEMMA NobodyMoves ==
  ASSUME Base, UNCHANGED <<crtc, lock, decon, pm, pc, kind, new, held, vote>>,
         tail' = [tail EXCEPT !.flip = tail'.flip], active' = active, decon = "ON" => powered',
         active = "INACTIVE" => ~vblank'.on /\ ~vblank'.enabled,
         TypeOK', QueueInv', Pending' <=> Pending, CountInv'
  PROVE  Base' /\ Aside
<1> USE DEF Base
<1>1. /\ tail'.live = tail.live /\ tail'.mode = tail.mode /\ tail'.old = tail.old /\ tail'.new = tail.new
  BY DEF TypeOK, Commit
<1>2. SerialInv'
  BY <1>1 DEF SerialInv, Live
<1>3. ThreadInv'
  BY DEF ThreadInv, OwnInv, Wanted, Refused, Duplicated, EffectivelyActive
<1>4. (AtEarly' <=> AtEarly) /\ (AtDown' <=> AtDown) /\ (AtState' <=> AtState) /\ (AtDownEnd' <=> AtDownEnd)
      /\ (AtEnable' <=> AtEnable)
  BY DEF AtEarly, AtDown, AtState, AtDownEnd, AtEnable
<1>5. Shown' = Shown
  BY <1>1, <1>4 DEF Shown, Waiting
<1>6. ActiveInv'
  BY <1>1, <1>4, <1>5 DEF ActiveInv, NeedsModeset, NeedsDisable
<1>7. PowerInv'
  BY <1>1, <1>4, <1>5 DEF PowerInv, Reference, Voting
<1>8. Aside
  BY <1>1, <1>4, <1>5 DEF Aside
<1> QED BY <1>2, <1>3, <1>6, <1>7, <1>8

(* The threads hold what they held. *)
LEMMA CountAlone ==
  ASSUME TypeOK, CountInv, UNCHANGED <<pc, back, held, canceling>>,
         blockCnt' = blockCnt - One(vblank.enabled) + One(vblank'.enabled),
         vblank'.ref \in Int, vblank'.ref - One(event') >= vblank.ref - One(event)
  PROVE  CountInv' /\ blockCnt' \in Nat /\ vblank'.ref \in Nat
<1> DEFINE n == Cardinality(Holders)
           c == Cardinality(Cancelers)
           v == Cardinality(VblankUsers)
<1>1. Holders' = Holders /\ Cancelers' = Cancelers /\ VblankUsers' = VblankUsers
  BY DEF Holders, Holds, InCommit, Cancelers, VblankUsers
<1>2. n \in Nat /\ v \in Nat
  BY HoldersFinite, ThreadFinite, FS_Subset, FS_CardinalityType DEF VblankUsers
<1>3. blockCnt = n + One(vblank.enabled) /\ vblank.ref >= One(event) + v /\ vblank.ref \in Nat /\ canceling = c
  BY DEF CountInv, BlockCountExact, One, TypeOK
<1>4. One(vblank.enabled) \in Nat /\ One(vblank'.enabled) \in Nat /\ One(event) \in Nat /\ One(event') \in Nat
  BY DEF One
<1>5. n = Cardinality(Holders') /\ c = Cardinality(Cancelers') /\ v = Cardinality(VblankUsers')
  BY <1>1
<1> HIDE DEF n, c, v
<1>6. blockCnt' = n + One(vblank'.enabled) /\ vblank'.ref >= One(event') + v
  BY <1>2, <1>3, <1>4
<1>7. blockCnt' \in Nat /\ vblank'.ref \in Nat
  BY <1>2, <1>4, <1>6
<1> QED BY <1>3, <1>5, <1>6, <1>7 DEF CountInv, BlockCountExact, One

LEMMA SendEventInv == ASSUME Base, SendEvent PROVE Base' /\ Aside
<1> USE DEF Base
<1>1. /\ event /\ event' = FALSE /\ tail' = [tail EXCEPT !.flip = TRUE] /\ vblank' = [vblank EXCEPT !.ref = vblank.ref - 1]
      /\ UNCHANGED <<crtc, lock, blockCnt, enabled, mutex, dwork, canceling, queue, camera, decon, pm, powered, active,
                     pc, back, kind, nonblock, new, held, vote, op, result, requests>>
  BY DEF SendEvent, VblankPut, hibVars, thVars
<1>2. vblank'.ref = vblank.ref - 1 /\ vblank'.on = vblank.on /\ vblank'.enabled = vblank.enabled
      /\ vblank.ref \in Nat /\ blockCnt \in Nat
  BY <1>1 DEF TypeOK
<1>3. CountInv' /\ vblank'.ref \in Nat
  <2>1. blockCnt' = blockCnt - One(vblank.enabled) + One(vblank'.enabled)
    BY <1>1, <1>2 DEF One
  <2>2. vblank'.ref \in Int /\ vblank'.ref - One(event') >= vblank.ref - One(event)
    BY <1>1, <1>2 DEF One
  <2> QED BY <1>1, <2>1, <2>2, CountAlone
<1>4. TypeOK'
  <2>1. vblank' \in [on : BOOLEAN, ref : Nat, enabled : BOOLEAN]
    BY <1>1, <1>3, <1>2 DEF TypeOK
  <2>2. tail' \in Commit
    BY <1>1 DEF TypeOK, Commit
  <2> QED BY <1>1, <2>1, <2>2 DEF TypeOK
<1>5. QueueInv' /\ (Pending' <=> Pending)
  BY <1>1 DEF QueueInv, Pending
<1>6. tail' = [tail EXCEPT !.flip = tail'.flip]
  BY <1>1 DEF TypeOK, Commit
<1> QED BY <1>1, <1>2, <1>3, <1>4, <1>5, <1>6, NobodyMoves DEF ActiveInv, PowerInv

LEMMA VblankOffInv == ASSUME Base, VblankOff PROVE Base' /\ Aside
<1> USE DEF Base
<1>1. /\ vblank.enabled /\ vblank' = [vblank EXCEPT !.enabled = FALSE] /\ blockCnt' = blockCnt - 1 /\ Delayed
      /\ UNCHANGED <<crtc, lock, tail, enabled, mutex, canceling, camera, decon, pm, powered, active, event,
                     pc, back, kind, nonblock, new, held, vote, op, result, requests>>
  BY IsDelayed DEF VblankOff, swVars, thVars
<1>2. vblank'.ref = vblank.ref /\ vblank'.on = vblank.on /\ vblank'.enabled = FALSE
      /\ vblank.ref \in Nat /\ blockCnt \in Nat
  BY <1>1 DEF TypeOK
<1>3. CountInv' /\ blockCnt' \in Nat
  <2>1. blockCnt' = blockCnt - One(vblank.enabled) + One(vblank'.enabled)
    BY <1>1, <1>2 DEF One
  <2>2. vblank'.ref \in Int /\ vblank'.ref - One(event') >= vblank.ref - One(event)
    BY <1>1, <1>2 DEF One
  <2> QED BY <1>1, <2>1, <2>2, CountAlone
<1>4. TypeOK'
  <2>1. vblank' \in [on : BOOLEAN, ref : Nat, enabled : BOOLEAN]
    BY <1>1 DEF TypeOK
  <2>2. dwork' \in {"idle", "timer"} /\ queue' \in Seq({"dwork", "commit"})
    BY <1>1, DelayedType
  <2> QED BY <1>1, <1>3, <2>1, <2>2 DEF TypeOK
<1>5. QueueInv' /\ (Pending' <=> Pending)
  BY <1>1, DelayedQueue DEF TypeOK
<1>6. tail' = [tail EXCEPT !.flip = tail'.flip]
  BY <1>1 DEF TypeOK, Commit
<1> QED BY <1>1, <1>2, <1>3, <1>4, <1>5, <1>6, NobodyMoves DEF ActiveInv, PowerInv

LEMMA AloneInv ==
  ASSUME Base, TimerFires \/ CameraStops \/ RuntimeSuspend \/ UNCHANGED vars PROVE Base' /\ Aside
<1> USE DEF Base
<1>1. /\ UNCHANGED <<crtc, lock, tail, blockCnt, enabled, mutex, canceling, decon, pm, active, vblank, event,
                     pc, back, kind, nonblock, new, held, vote, op, result, requests>>
      /\ camera' \in {camera, FALSE} /\ powered' \in {powered, FALSE} /\ (decon = "ON" => powered' = powered)
      /\ \/ UNCHANGED <<dwork, queue>>
         \/ dwork = "timer" /\ dwork' = "idle" /\ queue' = Append(queue, "dwork")
  BY DEF TimerFires, CameraStops, RuntimeSuspend, vars, swVars, hibVars, deconVars, thVars
<1>2. QueueInv' /\ (Pending' <=> Pending) /\ dwork' \in {"idle", "timer"} /\ queue' \in Seq({"dwork", "commit"})
  <2>1. CASE UNCHANGED <<dwork, queue>>
    BY <2>1 DEF QueueInv, Pending, TypeOK
  <2>2. CASE dwork = "timer" /\ dwork' = "idle" /\ queue' = Append(queue, "dwork")
    <3>1. Once(queue') /\ \A x : Has(queue', x) <=> Has(queue, x) \/ x = "dwork"
      BY <2>2, AppendItem DEF QueueInv, Item
    <3> QED BY <2>2, <3>1 DEF QueueInv, Pending, Once, Item
  <2> QED BY <1>1, <2>1, <2>2
<1>3. TypeOK'
  <2>1. TypeOK
    OBVIOUS
  <2> HIDE DEF Base
  <2>2. camera' \in BOOLEAN /\ powered' \in BOOLEAN
    BY <1>1, <2>1 DEF TypeOK
  <2>3. UNCHANGED <<crtc, lock, tail, blockCnt, enabled, mutex, canceling, decon, pm, active, vblank, event,
                    pc, back, kind, nonblock, new, held, vote, op, result, requests>>
    BY <1>1
  <2>4. dwork' \in {"idle", "timer"} /\ queue' \in Seq({"dwork", "commit"})
    BY <1>2
  <2> QED BY <2>1, <2>2, <2>3, <2>4 DEF TypeOK
<1>4. CountInv'
  <2>1. blockCnt' = blockCnt - One(vblank.enabled) + One(vblank'.enabled) /\ vblank'.ref \in Int
        /\ vblank'.ref - One(event') >= vblank.ref - One(event)
    BY <1>1 DEF One, TypeOK
  <2> QED BY <1>1, <2>1, CountAlone
<1>5. tail' = [tail EXCEPT !.flip = tail'.flip]
  BY <1>1 DEF TypeOK, Commit
<1> QED BY <1>1, <1>2, <1>3, <1>4, <1>5, NobodyMoves DEF ActiveInv, PowerInv

-----------------------------------------------------------------------------
(* Steps of the commit that is between swap and hw_done *)

LEMMA OnlyCommit ==
  ASSUME Base, NEW t \in Thread, Live(t)
  PROVE  tail.live /\ ~Pending /\ \A u \in Thread : u # t => ~Live(u)
BY DEF Base, SerialInv

(* Where the commit is, before and after a step of t.                        *)
LEMMA Stages ==
  ASSUME TypeOK, ThreadInv, NEW t \in Thread, NEW to \in Pcs, \A u \in Thread : u # t => ~Live(u),
         pc' = [pc EXCEPT ![t] = to], \A u \in Thread : u # t => vote'[u] = vote[u]
  PROVE  /\ pc'[t] = to /\ \A u \in Thread : u # t => pc'[u] = pc[u] /\ ~Live(u)' /\ ~vote'[u]
         /\ (AtEarly <=> pc[t] \in Early) /\ (AtEarly' <=> to \in Early)
         /\ (AtDown <=> pc[t] \in Down) /\ (AtDown' <=> to \in Down)
         /\ (AtState <=> pc[t] = "tState") /\ (AtState' <=> to = "tState")
         /\ (AtDownEnd <=> pc[t] = "tDownEnd") /\ (AtDownEnd' <=> to = "tDownEnd")
         /\ (AtEnable <=> pc[t] = "tEnable") /\ (AtEnable' <=> to = "tEnable")
         /\ (Voting <=> vote[t]) /\ (Voting' <=> vote'[t])
<1>1. pc'[t] = to /\ \A u \in Thread : u # t => pc'[u] = pc[u]
  BY DEF TypeOK
<1>2. \A u \in Thread : u # t => ~Live(u)' /\ pc[u] \notin LivePcs /\ pc'[u] \notin LivePcs
  BY <1>1 DEF Live
<1>3. Early \subseteq LivePcs /\ Down \subseteq LivePcs /\ "tState" \in LivePcs /\ "tDownEnd" \in LivePcs /\ "tEnable" \in LivePcs
  BY DEF LivePcs, Down
<1>4. (AtEarly <=> pc[t] \in Early) /\ (AtEarly' <=> to \in Early)
  BY <1>1, <1>2, <1>3 DEF AtEarly
<1>5. (AtDown <=> pc[t] \in Down) /\ (AtDown' <=> to \in Down)
  BY <1>1, <1>2, <1>3 DEF AtDown
<1>6. (AtState <=> pc[t] = "tState") /\ (AtState' <=> to = "tState")
  BY <1>1, <1>2, <1>3 DEF AtState
<1>7. (AtDownEnd <=> pc[t] = "tDownEnd") /\ (AtDownEnd' <=> to = "tDownEnd")
  BY <1>1, <1>2, <1>3 DEF AtDownEnd
<1>8. (AtEnable <=> pc[t] = "tEnable") /\ (AtEnable' <=> to = "tEnable")
  BY <1>1, <1>2, <1>3 DEF AtEnable
<1>9. \A u \in Thread : u # t => ~vote[u] /\ ~vote'[u]
  BY <1>2 DEF ThreadInv, OwnInv, LivePcs
<1>10. (Voting <=> vote[t]) /\ (Voting' <=> vote'[t])
  BY <1>9 DEF Voting
<1> QED BY <1>1, <1>2, <1>4, <1>5, <1>6, <1>7, <1>8, <1>9, <1>10

LEMMA DownEnds == (AtDownEnd => AtDown) /\ (AtDownEnd' => AtDown')
BY DEF AtDownEnd, AtDown, Down

(* What is left to show of a step to another place of the commit.            *)
LEMMA StageBase ==
  ASSUME Base, NEW t \in Thread, Live(t), NEW to \in LivePcs \ {"tBlock"}, pc' = [pc EXCEPT ![t] = to],
         UNCHANGED <<crtc, lock, kind, new>>, tail'.live = tail.live, Pending' <=> Pending,
         \A u \in Thread : u # t => held'[u] = held[u] /\ vote'[u] = vote[u],
         vote'[t] => to \in Down \cup {"tEnable"} \cup Late,
         TypeOK', QueueInv', ActiveInv', PowerInv', CountInv'
  PROVE  Base'
<1> USE DEF Base
<1>1. pc'[t] = to /\ \A u \in Thread : u # t => pc'[u] = pc[u]
  BY DEF TypeOK
<1>2. \A u \in Thread : Live(u)' <=> Live(u)
  BY <1>1 DEF Live
<1>3. SerialInv'
  BY <1>1, <1>2 DEF SerialInv, LivePcs, Early, Down, Late
<1>4. OwnInv(t)'
  BY <1>1 DEF OwnInv, LivePcs, Early, Down, Late, TailPcs
<1>5. ThreadInv'
  BY <1>1, <1>4, OthersKeep
<1> QED BY <1>3, <1>5

(* A step of the commit that changes nothing the count depends on, but what  *)
(* is held for its tail.                                                     *)
LEMMA StageHolds ==
  ASSUME NEW t \in Thread, NEW p \in LivePcs, NEW to \in LivePcs, pc[t] = p, pc'[t] = to, back'[t] = back[t],
         held'[t] <=> held[t]
  PROVE  \A r \in Reasons : Holds(t, r)' <=> Holds(t, r)
BY DEF Holds, Reasons, InCommit, LivePcs, Early, Down, Late, TailPcs

LEMMA TailBlockInv == ASSUME Base, NEW t \in Thread, TailBlock(t) PROVE Base' /\ Aside
<1> USE DEF Base
<1> DEFINE busy == tail.old.active \/ tail.new.active
<1>1. /\ pc[t] = "tBlock" /\ pc' = [pc EXCEPT ![t] = "tDisable"] /\ Delayed
      /\ held' = IF busy THEN [held EXCEPT ![t] = TRUE] ELSE held
      /\ blockCnt' = IF busy THEN blockCnt + 1 ELSE blockCnt
      /\ UNCHANGED <<crtc, lock, tail, enabled, mutex, canceling, camera, decon, pm, powered, active, vblank, event,
                     back, kind, nonblock, new, vote, op, result, requests>>
  BY IsDelayed DEF TailBlock, TailUnchanged, Goto, Block, deconVars, Delayed
<1>2. Live(t) /\ ~held[t] /\ ~vote[t] /\ blockCnt \in Nat
  BY <1>1 DEF Live, LivePcs, Early, Down, Late, ThreadInv, OwnInv, TailPcs, TypeOK
<1>3. tail.live /\ ~Pending /\ \A u \in Thread : u # t => ~Live(u)
  BY <1>2, OnlyCommit
<1> DEFINE to == "tDisable"
<1>4. to \in Pcs /\ to \in LivePcs /\ to # "tBlock"
  BY DEF Pcs, TailPcs, LivePcs, Early
<1>5. held' \in [Thread -> BOOLEAN] /\ (held'[t] <=> busy) /\ \A u \in Thread : u # t => held'[u] = held[u]
  <2>1. CASE busy
    BY <1>1, <2>1 DEF TypeOK
  <2>2. CASE ~busy
    BY <1>1, <1>2, <2>2 DEF TypeOK
  <2> QED BY <2>1, <2>2
<1>6. pc'[t] = to /\ \A u \in Thread : u # t => pc'[u] = pc[u]
  BY <1>1 DEF TypeOK
<1>7. QueueInv' /\ (Pending' <=> Pending)
  BY <1>1, DelayedQueue DEF TypeOK
<1>8. CountInv' /\ blockCnt' \in Nat
  <2> DEFINE d == IF busy THEN 1 ELSE 0
  <2>1. /\ \A s \in Reasons : s # "tail" => (Holds(t, s)' <=> Holds(t, s))
        /\ ~Holds(t, "tail") /\ (Holds(t, "tail")' <=> busy) /\ "tail" \in Reasons
    BY <1>1, <1>2, <1>5, <1>6 DEF Holds, Reasons, InCommit, TailPcs
  <2>2. \A u \in Thread : u # t => pc'[u] = pc[u] /\ back'[u] = back[u] /\ held'[u] = held[u]
    BY <1>1, <1>5, <1>6
  <2>3. Cardinality(Holders') = Cardinality(Holders) + d
    <3>1. CASE busy
      <4>1. Cardinality(Holders') = Cardinality(Holders) + 1
        BY <2>1, <2>2, <3>1, HoldersMove
      <4> QED BY <3>1, <4>1
    <3>2. CASE ~busy
      <4>1. Cardinality(Holders') = Cardinality(Holders)
        BY <2>1, <2>2, <3>2, HoldersMove
      <4> QED BY <3>2, <4>1, HoldersFinite
    <3> QED BY <3>1, <3>2
  <2>4. d \in {-1, 0, 1} /\ blockCnt' = blockCnt + d
    BY <1>1, <1>2
  <2> HIDE DEF d
  <2> QED BY <1>1, <1>6, <2>3, <2>4, CountHeld
<1>9. TypeOK'
  <2>1. pc' \in [Thread -> Pcs]
    BY <1>1, <1>4 DEF TypeOK
  <2>2. dwork' \in {"idle", "timer"} /\ queue' \in Seq({"dwork", "commit"})
    BY <1>1, DelayedType
  <2> QED BY <1>1, <1>5, <1>8, <2>1, <2>2 DEF TypeOK
<1>10. ActiveInv' /\ PowerInv' /\ Aside
  <2>1. /\ AtEarly /\ AtEarly' /\ ~AtDown /\ ~AtDown' /\ ~AtState /\ ~AtState' /\ ~AtEnable /\ ~AtEnable'
        /\ ~Voting /\ ~Voting'
    BY <1>1, <1>2, <1>3, <1>4, Stages DEF Early, Down
  <2>2. Shown' = Shown
    BY <1>1, <2>1 DEF Shown, Waiting
  <2>3. ActiveInv'
    BY <1>1, <2>1, <2>2 DEF ActiveInv
  <2>4. PowerInv'
    <3>1. One(Reference)' = One(Reference) /\ One(Voting)' = One(Voting)
      BY <1>1, <2>1 DEF Reference, One
    <3> QED BY <1>1, <2>1, <2>2, <3>1 DEF PowerInv
  <2>5. Aside
    BY <1>1, <2>1, <2>2, DownEnds DEF Aside
  <2> QED BY <2>3, <2>4, <2>5
<1> HIDE DEF to, busy
<1> QED BY <1>1, <1>2, <1>4, <1>5, <1>7, <1>8, <1>9, <1>10, StageBase DEF to

LEMMA StageQuiet ==
  ASSUME Base, NEW t \in Thread, NEW p \in LivePcs, NEW to \in LivePcs \ {"tBlock"}, pc[t] = p, pc' = [pc EXCEPT ![t] = to],
         UNCHANGED <<crtc, lock, tail, blockCnt, enabled, mutex, dwork, canceling, queue, camera, active, vblank, event,
                     back, kind, nonblock, new, held, op, result, requests>>,
         vote' \in [Thread -> BOOLEAN], \A u \in Thread : u # t => vote'[u] = vote[u],
         vote'[t] => to \in Down \cup {"tEnable"} \cup Late,
         decon' \in DeconState, powered' \in BOOLEAN, ActiveInv', PowerInv'
  PROVE  Base'
<1> USE DEF Base
<1>1. pc'[t] = to /\ (\A u \in Thread : u # t => pc'[u] = pc[u]) /\ to \in Pcs /\ Live(t)
  BY DEF TypeOK, Live, LivePcs, Early, Down, Late, Pcs, TailPcs
<1>2. QueueInv' /\ (Pending' <=> Pending)
  BY DEF QueueInv, Pending
<1>3. CountInv'
  <2>1. \A r \in Reasons : Holds(t, r)' <=> Holds(t, r)
    BY <1>1, StageHolds
  <2>2. pc[t] \notin {"xWait", "sWait", "holdsVblank"} /\ pc'[t] \notin {"xWait", "sWait", "holdsVblank"}
    BY <1>1 DEF LivePcs, Early, Down, Late
  <2> QED BY <1>1, <2>1, <2>2, CountKept
<1>4. TypeOK'
  <2>1. pc' \in [Thread -> Pcs]
    BY <1>1 DEF TypeOK
  <2>2. pm' \in Nat
    BY DEF PowerInv, One
  <2> QED BY <2>1, <2>2 DEF TypeOK
<1> QED BY <1>1, <1>2, <1>3, <1>4, StageBase

LEMMA TailNoDisableInv == ASSUME Base, NEW t \in Thread, TailNoDisable(t) PROVE Base'
<1> USE DEF Base
<1>1. /\ pc[t] = "tDisable" /\ pc' = [pc EXCEPT ![t] = "tEnable"] /\ ~(NeedsModeset /\ NeedsDisable)
      /\ UNCHANGED <<crtc, lock, tail, blockCnt, enabled, mutex, dwork, canceling, queue, camera, decon, pm, powered,
                     active, vblank, event, back, kind, nonblock, new, held, vote, op, result, requests>>
  BY DEF TailNoDisable, TailUnchanged, Goto, deconVars
<1>2. "tDisable" \in LivePcs /\ "tEnable" \in LivePcs \ {"tBlock"} /\ "tEnable" \in Pcs /\ Live(t) /\ ~vote[t]
  BY <1>1 DEF Live, LivePcs, Early, Pcs, TailPcs, ThreadInv, OwnInv, Down, Late
<1>3. tail.live /\ ~Pending /\ \A u \in Thread : u # t => ~Live(u)
  BY <1>2, OnlyCommit
<1>4. /\ AtEarly /\ ~AtEarly' /\ ~AtDown /\ ~AtDown' /\ ~AtState /\ ~AtState' /\ ~AtEnable /\ AtEnable' /\ ~Voting /\ ~Voting'
  BY <1>1, <1>2, <1>3, Stages DEF Early, Down
<1>5. Shown = tail.old
  BY <1>4 DEF Shown, Waiting
<1>6. ActiveInv'
  <2>1. tail.old.active \in BOOLEAN /\ tail.new.active \in BOOLEAN /\ (NeedsModeset' <=> NeedsModeset)
    BY <1>1 DEF TypeOK, Commit, CrtcState, NeedsModeset
  <2>2. tail.new.active /\ ~NeedsModeset => active = "ACTIVE"
    BY <1>4, <1>5, <2>1 DEF ActiveInv, NeedsModeset
  <2> QED BY <1>1, <1>4, <2>1, <2>2 DEF ActiveInv
<1>7. PowerInv'
  <2>1. One(Reference)' = One(Reference) /\ One(Voting)' = One(Voting)
    BY <1>1, <1>4 DEF Reference, One
  <2> QED BY <1>1, <1>4, <1>5, <2>1 DEF PowerInv
<1> QED BY <1>1, <1>2, <1>6, <1>7, StageQuiet DEF TypeOK

LEMMA TailDisableInv == ASSUME Base, NEW t \in Thread, TailDisable(t) PROVE Base'
<1> USE DEF Base
<1> DEFINE votes == EffectivelyActive(tail.old) /\ ~tail.new.active
<1>1. /\ pc[t] = "tDisable" /\ pc' = [pc EXCEPT ![t] = "tDown"] /\ NeedsModeset /\ NeedsDisable
      /\ pm' = IF votes THEN pm + 1 ELSE pm
      /\ powered' = IF votes THEN TRUE ELSE powered
      /\ vote' = IF votes THEN [vote EXCEPT ![t] = TRUE] ELSE vote
      /\ UNCHANGED <<crtc, lock, tail, blockCnt, enabled, mutex, dwork, canceling, queue, camera, decon,
                     active, vblank, event, back, kind, nonblock, new, held, op, result, requests>>
  BY DEF TailDisable, TailUnchanged, Goto
<1>2. /\ "tDisable" \in LivePcs /\ "tDown" \in LivePcs \ {"tBlock"} /\ "tDown" \in Pcs /\ "tDown" \in Down
      /\ Live(t) /\ ~vote[t] /\ pm \in Nat
  BY <1>1 DEF Live, LivePcs, Early, Pcs, TailPcs, ThreadInv, OwnInv, Down, Late, TypeOK
<1>3. tail.live /\ ~Pending /\ \A u \in Thread : u # t => ~Live(u)
  BY <1>2, OnlyCommit
<1>4. vote' \in [Thread -> BOOLEAN] /\ (vote'[t] <=> votes) /\ (\A u \in Thread : u # t => vote'[u] = vote[u])
      /\ powered' \in BOOLEAN
  <2>1. CASE votes
    BY <1>1, <2>1 DEF TypeOK
  <2>2. CASE ~votes
    BY <1>1, <1>2, <2>2 DEF TypeOK
  <2> QED BY <2>1, <2>2
<1>5. /\ AtEarly /\ ~AtEarly' /\ ~AtDown /\ AtDown' /\ ~AtState /\ ~AtState' /\ ~AtEnable /\ ~AtEnable' /\ ~Voting
      /\ (Voting' <=> votes)
  BY <1>1, <1>2, <1>3, <1>4, Stages DEF Early, Down
<1>6. Shown = tail.old
  BY <1>5 DEF Shown, Waiting
<1>7. ActiveInv'
  <2>1. NeedsModeset' /\ NeedsDisable'
    BY <1>1 DEF NeedsModeset, NeedsDisable
  <2> QED BY <1>1, <1>5, <2>1 DEF ActiveInv
<1>8. PowerInv'
  <2>1. One(Reference)' = One(Reference) /\ One(Voting) = 0 /\ One(Voting)' = IF votes THEN 1 ELSE 0
    BY <1>1, <1>5 DEF Reference, One
  <2>2. decon # "HANDOVER"
    BY <1>1, <1>3, <1>5, <1>6 DEF PowerInv, NeedsDisable, ActiveInv
  <2>3. decon = "ON" => powered'
    BY <1>1 DEF PowerInv
  <2>4. pm' = One(Reference)' + One(Voting)'
    <3>1. One(Reference) \in Nat /\ pm = One(Reference) + One(Voting)
      BY DEF One, PowerInv
    <3>2. pm' = IF votes THEN pm + 1 ELSE pm
      BY <1>1
    <3>3. pm = One(Reference)
      BY <2>1, <3>1
    <3> HIDE DEF votes, Base
    <3>4. CASE votes
      <4>1. One(Reference)' = One(Reference) /\ One(Voting)' = 1
        BY <2>1, <3>4
      <4>2. pm' = pm + 1
        BY <3>2, <3>4
      <4> QED BY <3>1, <3>3, <4>1, <4>2
    <3>5. CASE ~votes
      <4>1. One(Reference)' = One(Reference) /\ One(Voting)' = 0
        BY <2>1, <3>5
      <4>2. pm' = pm
        BY <3>2, <3>5
      <4> QED BY <3>1, <3>3, <4>1, <4>2
    <3> QED BY <3>4, <3>5
  <2> QED BY <1>1, <1>5, <2>2, <2>3, <2>4 DEF PowerInv
<1> HIDE DEF votes
<1> QED BY <1>1, <1>2, <1>4, <1>7, <1>8, StageQuiet DEF TypeOK

LEMMA DeconStopInv == ASSUME Base, NEW t \in Thread, DeconStop(t) PROVE Base'
<1> USE DEF Base
<1>1. /\ pc[t] = "tDown" /\ pc' = [pc EXCEPT ![t] = "tState"] /\ decon = "ON" /\ pm' = pm - 1
      /\ UNCHANGED <<crtc, lock, tail, blockCnt, enabled, mutex, dwork, canceling, queue, camera, decon, powered,
                     active, vblank, event, back, kind, nonblock, new, held, vote, op, result, requests>>
  BY DEF DeconStop, TailUnchanged, Goto
<1>2. /\ "tDown" \in LivePcs /\ "tState" \in LivePcs \ {"tBlock"} /\ "tState" \in Pcs /\ {"tDown", "tState"} \subseteq Down
      /\ Live(t) /\ pm \in Nat
  BY <1>1 DEF Live, LivePcs, Pcs, TailPcs, Down, TypeOK
<1>3. tail.live /\ ~Pending /\ \A u \in Thread : u # t => ~Live(u)
  BY <1>2, OnlyCommit
<1>4. /\ AtDown /\ AtDown' /\ ~AtState /\ AtState' /\ ~AtEnable /\ ~AtEnable' /\ (Voting' <=> Voting)
  BY <1>1, <1>2, <1>3, Stages DEF Early, Down
<1>5. ActiveInv'
  <2>1. NeedsModeset' /\ NeedsDisable'
    BY <1>1, <1>4 DEF NeedsModeset, NeedsDisable, ActiveInv
  <2> QED BY <1>1, <1>4, <2>1 DEF ActiveInv
<1>6. PowerInv'
  <2>1. One(Reference) = 1 /\ One(Reference)' = 0 /\ One(Voting)' = One(Voting) /\ One(Voting) \in Nat
    BY <1>1, <1>4 DEF Reference, One
  <2> QED BY <1>1, <1>2, <1>4, <2>1 DEF PowerInv
<1>7. vote'[t] => "tState" \in Down \cup {"tEnable"} \cup Late
  BY <1>2
<1> QED BY <1>1, <1>2, <1>5, <1>6, <1>7, StageQuiet DEF TypeOK

(* DECON's state changes. *)
LEMMA DeconDownInv == ASSUME Base, NEW t \in Thread, DeconStopped(t) \/ DeconAlreadyStopped(t) PROVE Base'
<1> USE DEF Base
<1>1. /\ pc[t] \in {"tDown", "tState"} /\ pc' = [pc EXCEPT ![t] = "tDownEnd"]
      /\ pc[t] = "tDown" => decon # "ON"
      /\ decon' \in {decon, "HIBERNATION", "OFF"} /\ (pc[t] = "tState" => decon' # decon \/ decon # "ON")
      /\ UNCHANGED <<crtc, lock, tail, blockCnt, enabled, mutex, dwork, canceling, queue, camera, pm, powered,
                     active, vblank, event, back, kind, nonblock, new, held, vote, op, result, requests>>
  BY DEF DeconStopped, DeconAlreadyStopped, TailUnchanged, Goto
<1>2. /\ pc[t] \in LivePcs /\ "tDownEnd" \in LivePcs \ {"tBlock"} /\ "tDownEnd" \in Pcs
      /\ {"tDown", "tState", "tDownEnd"} \subseteq Down
      /\ Live(t) /\ pm \in Nat
  BY <1>1 DEF Live, LivePcs, Pcs, TailPcs, Down, TypeOK
<1>3. tail.live /\ ~Pending /\ \A u \in Thread : u # t => ~Live(u)
  BY <1>2, OnlyCommit
<1>4. /\ AtDown /\ AtDown' /\ (AtState <=> pc[t] = "tState") /\ ~AtState' /\ ~AtEnable /\ ~AtEnable' /\ (Voting' <=> Voting)
  BY <1>1, <1>2, <1>3, Stages DEF Early, Down
<1>5. ActiveInv'
  <2>1. NeedsModeset' /\ NeedsDisable'
    BY <1>1, <1>4 DEF NeedsModeset, NeedsDisable, ActiveInv
  <2> QED BY <1>1, <1>4, <2>1 DEF ActiveInv
<1>6. PowerInv' /\ decon' \in DeconState
  <2>1. decon # "HANDOVER" /\ (pc[t] = "tState" => decon = "ON")
    BY <1>1, <1>4 DEF PowerInv
  <2>2. decon' \notin {"HANDOVER", "ON"} /\ decon' \in DeconState
    BY <1>1, <2>1 DEF TypeOK, DeconState
  <2>3. One(Reference) = 0 /\ One(Reference)' = 0 /\ One(Voting)' = One(Voting) /\ One(Voting) \in Nat
    BY <1>1, <1>4, <2>1, <2>2 DEF Reference, One
  <2> QED BY <1>1, <1>2, <1>4, <2>1, <2>2, <2>3 DEF PowerInv
<1>7. vote'[t] => "tDownEnd" \in Down \cup {"tEnable"} \cup Late
  BY <1>2
<1> QED BY <1>1, <1>2, <1>5, <1>6, <1>7, StageQuiet DEF TypeOK

LEMMA TailNoEnableInv == ASSUME Base, NEW t \in Thread, TailNoEnable(t) PROVE Base'
<1> USE DEF Base
<1>1. /\ pc[t] = "tEnable" /\ pc' = [pc EXCEPT ![t] = "tFlush"] /\ ~WillEnable
      /\ UNCHANGED <<crtc, lock, tail, blockCnt, enabled, mutex, dwork, canceling, queue, camera, decon, pm, powered,
                     active, vblank, event, back, kind, nonblock, new, held, vote, op, result, requests>>
  BY DEF TailNoEnable, TailUnchanged, Goto, deconVars
<1>2. /\ "tEnable" \in LivePcs /\ "tFlush" \in LivePcs \ {"tBlock"} /\ "tFlush" \in Pcs /\ "tFlush" \in Late /\ Live(t)
      /\ tail.old.active \in BOOLEAN /\ tail.new.active \in BOOLEAN
  BY <1>1 DEF Live, LivePcs, Early, Pcs, TailPcs, Down, Late, TypeOK, Commit, CrtcState
<1>3. tail.live /\ ~Pending /\ \A u \in Thread : u # t => ~Live(u)
  BY <1>2, OnlyCommit
<1>4. /\ ~AtEarly' /\ ~AtDown /\ ~AtDown' /\ ~AtState /\ ~AtState' /\ AtEnable /\ ~AtEnable' /\ (Voting' <=> Voting)
  <2>1. "tEnable" \notin Early \cup Down /\ "tFlush" \notin Early \cup Down
    BY DEF Early, Down
  <2> DEFINE to == "tFlush"
  <2>2. to \in Pcs /\ to \notin Early \cup Down /\ to \notin {"tState", "tEnable"} /\ pc' = [pc EXCEPT ![t] = to]
    BY <1>1, <1>2, <2>1
  <2>3. TypeOK /\ ThreadInv /\ \A u \in Thread : u # t => ~Live(u) /\ vote'[u] = vote[u]
    BY <1>1, <1>3
  <2> HIDE DEF to, Base
  <2>4. /\ (AtEarly' <=> to \in Early) /\ (AtDown <=> pc[t] \in Down) /\ (AtDown' <=> to \in Down)
        /\ (AtState <=> pc[t] = "tState") /\ (AtState' <=> to = "tState")
        /\ (AtEnable <=> pc[t] = "tEnable") /\ (AtEnable' <=> to = "tEnable")
        /\ (Voting <=> vote[t]) /\ (Voting' <=> vote'[t])
    BY <2>2, <2>3, Stages
  <2>5. pc[t] = "tEnable" /\ pc[t] \notin Down /\ vote' = vote
    BY <1>1, <2>1
  <2> QED BY <2>2, <2>4, <2>5
<1>5. Shown' = tail.new
  BY <1>1, <1>3, <1>4 DEF Shown, Waiting, Pending
<1>6. tail.new.active => active = "ACTIVE"
  BY <1>1, <1>4 DEF ActiveInv, WillEnable
<1>7. ActiveInv'
  BY <1>1, <1>4, <1>5, <1>6 DEF ActiveInv
<1>8. PowerInv'
  <2>1. One(Reference)' = One(Reference) /\ One(Voting)' = One(Voting)
    BY <1>1, <1>4 DEF Reference, One
  <2>2. decon = "HANDOVER" => ~tail.new.active /\ ~tail.new.sr
    BY <1>3, <1>4, <1>6 DEF PowerInv, ActiveInv
  <2> QED BY <1>1, <1>4, <1>5, <2>1, <2>2 DEF PowerInv
<1>9. vote'[t] => "tFlush" \in Down \cup {"tEnable"} \cup Late
  BY <1>2
<1> QED BY <1>1, <1>2, <1>7, <1>8, <1>9, StageQuiet DEF TypeOK

LEMMA TailFlipDoneInv == ASSUME Base, NEW t \in Thread, TailFlipDone(t) PROVE Base' /\ Aside
<1> USE DEF Base
<1>1. /\ pc[t] = "tFlip" /\ pc' = [pc EXCEPT ![t] = "tEnd"]
      /\ UNCHANGED <<crtc, lock, tail, blockCnt, enabled, mutex, dwork, canceling, queue, camera, decon, pm, powered,
                     active, vblank, event, back, kind, nonblock, new, held, vote, op, result, requests>>
  BY DEF TailFlipDone, TailUnchanged, Goto, deconVars
<1>2. /\ "tFlip" \in LivePcs /\ "tEnd" \in LivePcs \ {"tBlock"} /\ "tEnd" \in Pcs /\ "tEnd" \in Late /\ Live(t)
  BY <1>1 DEF Live, LivePcs, Early, Pcs, TailPcs, Down, Late
<1>3. tail.live /\ ~Pending /\ \A u \in Thread : u # t => ~Live(u)
  BY <1>2, OnlyCommit
<1>4. /\ ~AtEarly /\ ~AtEarly' /\ ~AtDown /\ ~AtDown' /\ ~AtState /\ ~AtState' /\ ~AtEnable /\ ~AtEnable'
      /\ (Voting' <=> Voting)
  BY <1>1, <1>2, <1>3, Stages DEF Early, Down
<1>5. Shown' = Shown
  BY <1>1, <1>4 DEF Shown, Waiting, Pending
<1>6. ActiveInv'
  BY <1>1, <1>4, <1>5 DEF ActiveInv
<1>7. PowerInv'
  <2>1. One(Reference)' = One(Reference) /\ One(Voting)' = One(Voting)
    BY <1>1, <1>4 DEF Reference, One
  <2> QED BY <1>1, <1>4, <1>5, <2>1 DEF PowerInv
<1>8. vote'[t] => "tEnd" \in Down \cup {"tEnable"} \cup Late
  BY <1>2
<1>9. Aside
  BY <1>1, <1>4, <1>5, DownEnds DEF Aside
<1>10. Base'
  BY <1>1, <1>2, <1>6, <1>7, <1>8, StageQuiet DEF TypeOK
<1> HIDE DEF Base
<1> QED BY <1>9, <1>10

(* A step of the commit that counts for the vblank interrupt alone.          *)
LEMMA StageCount ==
  ASSUME Base, NEW t \in Thread, NEW p \in LivePcs, NEW to \in LivePcs \ {"tBlock"}, pc[t] = p, pc' = [pc EXCEPT ![t] = to],
         UNCHANGED <<crtc, lock, enabled, mutex, canceling, camera, back, kind, nonblock, new, held, vote, op, result, requests>>,
         tail' \in Commit, tail'.live = tail.live, Delayed,
         blockCnt' = blockCnt - One(vblank.enabled) + One(vblank'.enabled),
         vblank'.ref \in Int, vblank'.ref - One(event') >= vblank.ref - One(event),
         vblank' \in [on : BOOLEAN, ref : {vblank'.ref}, enabled : BOOLEAN], event' \in BOOLEAN,
         vote'[t] => to \in Down \cup {"tEnable"} \cup Late,
         decon' \in DeconState, powered' \in BOOLEAN, active' \in ActiveState, ActiveInv', PowerInv'
  PROVE  Base'
<1> USE DEF Base
<1>1. pc'[t] = to /\ (\A u \in Thread : u # t => pc'[u] = pc[u]) /\ to \in Pcs /\ Live(t)
  BY DEF TypeOK, Live, LivePcs, Early, Down, Late, Pcs, TailPcs
<1>2. QueueInv' /\ (Pending' <=> Pending) /\ dwork' \in {"idle", "timer"} /\ queue' \in Seq({"dwork", "commit"})
  BY DelayedQueue, DelayedType DEF TypeOK
<1>3. CountInv' /\ blockCnt' \in Nat /\ vblank'.ref \in Nat
  <2> DEFINE d == 0
  <2>1. \A r \in Reasons : Holds(t, r)' <=> Holds(t, r)
    BY <1>1, StageHolds
  <2>2. pc[t] \notin {"xWait", "sWait", "holdsVblank"} /\ pc'[t] \notin {"xWait", "sWait", "holdsVblank"}
    BY <1>1 DEF LivePcs, Early, Down, Late
  <2>3. Cardinality(Holders') = Cardinality(Holders) + d
    BY <1>1, <2>1, HoldersMove, HoldersFinite
  <2>4. blockCnt' = blockCnt + d - One(vblank.enabled) + One(vblank'.enabled)
        /\ canceling' = canceling - One(pc[t] \in {"xWait", "sWait"}) + One(pc'[t] \in {"xWait", "sWait"})
    BY <2>2 DEF TypeOK, One
  <2>5. One(pc[t] = "holdsVblank") = 0 /\ One(pc'[t] = "holdsVblank") = 0 /\ One(event) \in Int /\ One(event') \in Int
        /\ vblank.ref \in Int
    BY <2>2 DEF One, TypeOK
  <2>6. vblank'.ref - One(event') - One(pc'[t] = "holdsVblank") >= vblank.ref - One(event) - One(pc[t] = "holdsVblank")
    BY <2>5
  <2>7. d \in Int
    OBVIOUS
  <2> HIDE DEF d
  <2> QED BY <1>1, <2>3, <2>4, <2>6, <2>7, CountStep
<1>4. TypeOK'
  <2>1. pc' \in [Thread -> Pcs]
    BY <1>1 DEF TypeOK
  <2>2. pm' \in Nat
    BY DEF PowerInv, One
  <2>3. vblank' \in [on : BOOLEAN, ref : Nat, enabled : BOOLEAN]
    BY <1>3
  <2> QED BY <1>2, <1>3, <2>1, <2>2, <2>3 DEF TypeOK
<1> QED BY <1>1, <1>2, <1>3, <1>4, StageBase

LEMMA CrtcDownInv == ASSUME Base, NEW t \in Thread, CrtcDown(t) PROVE Base'
<1> USE DEF Base
<1>1. /\ pc[t] = "tDownEnd" /\ pc' = [pc EXCEPT ![t] = "tEnable"] /\ active' = ActiveTarget
      /\ UNCHANGED <<crtc, lock, tail, enabled, mutex, canceling, camera, decon, pm, powered, event,
                     back, kind, nonblock, new, held, vote, op, result, requests>>
  BY DEF CrtcDown, TailUnchanged, Goto
<1>2. /\ "tDownEnd" \in LivePcs /\ "tEnable" \in LivePcs \ {"tBlock"} /\ "tEnable" \in Pcs /\ "tDownEnd" \in Down /\ Live(t)
      /\ blockCnt \in Nat /\ vblank.ref \in Nat
      /\ vblank \in [on : BOOLEAN, ref : {vblank.ref}, enabled : BOOLEAN]
  BY <1>1 DEF Live, LivePcs, Pcs, TailPcs, Down, TypeOK
<1>3. tail.live /\ ~Pending /\ \A u \in Thread : u # t => ~Live(u)
  BY <1>2, OnlyCommit
<1>4. /\ AtDown /\ ~AtDown' /\ ~AtState /\ ~AtState' /\ ~AtEnable /\ AtEnable' /\ (Voting' <=> Voting)
  BY <1>1, <1>2, <1>3, Stages DEF Early, Down
<1>5. /\ Delayed /\ blockCnt' = blockCnt - One(vblank.enabled) + One(vblank'.enabled)
      /\ vblank'.ref = vblank.ref /\ vblank' \in [on : BOOLEAN, ref : {vblank'.ref}, enabled : BOOLEAN]
      /\ active' = "INACTIVE" => ~vblank'.on /\ ~vblank'.enabled
  <2>1. CASE ActiveTarget = "INACTIVE"
    <3>1. vblank' = [vblank EXCEPT !.on = FALSE, !.enabled = FALSE]
      BY <2>1 DEF CrtcDown
    <3>2. ~vblank'.on /\ ~vblank'.enabled /\ vblank'.ref = vblank.ref /\ vblank' \in [on : BOOLEAN, ref : {vblank'.ref}, enabled : BOOLEAN]
      BY <1>2, <3>1
    <3>3. Delayed /\ blockCnt' = blockCnt - One(vblank.enabled)
      <4>1. CASE vblank.enabled
        BY <2>1, <4>1, IsDelayed DEF CrtcDown, One
      <4>2. CASE ~vblank.enabled
        BY <1>2, <2>1, <4>2 DEF CrtcDown, Delayed, One
      <4> QED BY <4>1, <4>2
    <3> QED BY <1>2, <3>2, <3>3 DEF One
  <2>2. CASE ActiveTarget # "INACTIVE"
    BY <1>1, <1>2, <2>2 DEF CrtcDown, Delayed, One
  <2> QED BY <2>1, <2>2
<1>6. ActiveInv'
  <2>1. NeedsModeset' /\ NeedsModeset
    BY <1>1, <1>4 DEF NeedsModeset, ActiveInv
  <2> QED BY <1>1, <1>4, <1>5, <2>1 DEF ActiveInv
<1>7. PowerInv'
  <2>1. One(Reference)' = One(Reference) /\ One(Voting)' = One(Voting)
    BY <1>1, <1>4 DEF Reference, One
  <2> QED BY <1>1, <1>4, <2>1 DEF PowerInv
<1>8. vblank'.ref - One(event') >= vblank.ref - One(event) /\ vblank'.ref \in Int
  BY <1>1, <1>2, <1>5 DEF One
<1>9. active' \in ActiveState /\ decon' \in DeconState /\ powered' \in BOOLEAN /\ event' \in BOOLEAN
      /\ tail' \in Commit /\ tail'.live = tail.live /\ "tEnable" \in Down \cup {"tEnable"} \cup Late
  BY <1>1 DEF TypeOK, ActiveTarget, ActiveState
<1> QED BY <1>1, <1>2, <1>5, <1>6, <1>7, <1>8, <1>9, StageCount

LEMMA TailEnableInv == ASSUME Base, NEW t \in Thread, TailEnable(t) PROVE Base'
<1> USE DEF Base
<1>1. /\ pc[t] = "tEnable" /\ pc' = [pc EXCEPT ![t] = "tFlush"] /\ active' = "ACTIVE"
      /\ decon' = "ON"
      /\ IF decon = "ON" THEN UNCHANGED <<pm, powered>>
         ELSE powered' = TRUE /\ pm' = IF decon = "HANDOVER" THEN pm ELSE pm + 1
      /\ UNCHANGED <<crtc, lock, tail, enabled, mutex, canceling, camera, event,
                     back, kind, nonblock, new, held, vote, op, result, requests>>
  BY DEF TailEnable, TailUnchanged, Goto
<1>2. /\ "tEnable" \in LivePcs /\ "tFlush" \in LivePcs \ {"tBlock"} /\ "tFlush" \in Pcs /\ "tFlush" \in Late /\ Live(t)
      /\ blockCnt \in Nat /\ vblank.ref \in Nat /\ pm \in Nat
      /\ vblank \in [on : BOOLEAN, ref : {vblank.ref}, enabled : BOOLEAN]
  BY <1>1 DEF Live, LivePcs, Pcs, TailPcs, Down, Late, TypeOK
<1>3. tail.live /\ ~Pending /\ \A u \in Thread : u # t => ~Live(u)
  BY <1>2, OnlyCommit
<1>4. /\ ~AtEarly' /\ ~AtDown /\ ~AtDown' /\ ~AtState /\ ~AtState' /\ AtEnable /\ ~AtEnable' /\ (Voting' <=> Voting)
  <2>1. "tEnable" \notin Early \cup Down /\ "tFlush" \notin Early \cup Down
    BY DEF Early, Down
  <2> DEFINE to == "tFlush"
  <2>2. to \in Pcs /\ to \notin Early \cup Down /\ to \notin {"tState", "tEnable"} /\ pc' = [pc EXCEPT ![t] = to]
    BY <1>1, <1>2, <2>1
  <2> HIDE DEF to
  <2> QED BY <1>1, <1>3, <2>1, <2>2, Stages
<1>5. /\ Delayed /\ blockCnt' = blockCnt - One(vblank.enabled) + One(vblank'.enabled)
      /\ vblank'.ref = vblank.ref /\ vblank' \in [on : BOOLEAN, ref : {vblank'.ref}, enabled : BOOLEAN]
  <2>1. CASE active = "INACTIVE"
    <3>1. vblank' = [vblank EXCEPT !.on = TRUE, !.enabled = (vblank.ref > 0)] /\ ~vblank.enabled
      BY <2>1 DEF TailEnable, ActiveInv
    <3>2. (vblank'.enabled <=> vblank.ref > 0) /\ vblank'.ref = vblank.ref /\ vblank' \in [on : BOOLEAN, ref : {vblank'.ref}, enabled : BOOLEAN]
      <4> DEFINE used == vblank.ref > 0
      <4>1. vblank' = [vblank EXCEPT !.on = TRUE, !.enabled = used] /\ used \in BOOLEAN
        BY <3>1
      <4>2. (vblank'.enabled <=> used) /\ vblank'.ref = vblank.ref /\ vblank' \in [on : BOOLEAN, ref : {vblank'.ref}, enabled : BOOLEAN]
        <5> HIDE DEF used
        <5> QED BY <1>2, <4>1
      <4> QED BY <4>2
    <3>3. Delayed /\ blockCnt' = IF vblank.ref > 0 THEN blockCnt + 1 ELSE blockCnt
      BY <2>1, IsDelayed DEF TailEnable, Block, Delayed
    <3>4. One(vblank.enabled) = 0 /\ One(vblank'.enabled) = IF vblank.ref > 0 THEN 1 ELSE 0
      BY <3>1, <3>2 DEF One
    <3> QED BY <1>2, <3>2, <3>3, <3>4
  <2>2. CASE active # "INACTIVE"
    BY <1>1, <1>2, <2>2 DEF TailEnable, Delayed, One
  <2> QED BY <2>1, <2>2
<1>6. ActiveInv'
  BY <1>1, <1>4 DEF ActiveInv
<1>7. PowerInv' /\ powered' \in BOOLEAN
  <2>1. One(Reference)' = 1 /\ One(Voting)' = One(Voting) /\ One(Reference) = (IF decon \in {"ON", "HANDOVER"} THEN 1 ELSE 0)
        /\ One(Voting) \in Nat
    BY <1>1, <1>4 DEF Reference, One
  <2>2. pm' = One(Reference)' + One(Voting)'
    BY <1>1, <1>2, <2>1 DEF PowerInv
  <2> QED BY <1>1, <1>4, <2>2 DEF PowerInv, TypeOK
<1>8. vblank'.ref - One(event') >= vblank.ref - One(event) /\ vblank'.ref \in Int
  BY <1>1, <1>2, <1>5 DEF One
<1>9. active' \in ActiveState /\ decon' \in DeconState /\ event' \in BOOLEAN
      /\ tail' \in Commit /\ tail'.live = tail.live /\ "tFlush" \in Down \cup {"tEnable"} \cup Late
  BY <1>1, <1>2 DEF TypeOK, DeconState, ActiveState
<1> QED BY <1>1, <1>2, <1>5, <1>6, <1>7, <1>8, <1>9, StageCount

LEMMA TailFlushInv == ASSUME Base, NEW t \in Thread, TailFlush(t) PROVE Base' /\ Aside
<1> USE DEF Base
<1>1. /\ pc[t] = "tFlush" /\ pc' = [pc EXCEPT ![t] = "tFlip"]
      /\ UNCHANGED <<crtc, lock, enabled, mutex, canceling, camera, decon, pm, powered, active,
                     back, kind, nonblock, new, held, vote, op, result, requests>>
  BY DEF TailFlush, TailUnchanged, Goto
<1>2. /\ "tFlush" \in LivePcs /\ "tFlip" \in LivePcs \ {"tBlock"} /\ "tFlip" \in Pcs /\ "tFlip" \in Late /\ Live(t)
      /\ blockCnt \in Nat /\ vblank.ref \in Nat
      /\ vblank \in [on : BOOLEAN, ref : {vblank.ref}, enabled : BOOLEAN] /\ tail \in Commit
  BY <1>1 DEF Live, LivePcs, Pcs, TailPcs, Down, Late, TypeOK
<1>3. tail.live /\ ~Pending /\ \A u \in Thread : u # t => ~Live(u)
  BY <1>2, OnlyCommit
<1>4. /\ ~AtEarly /\ ~AtEarly' /\ ~AtDown /\ ~AtDown' /\ ~AtState /\ ~AtState' /\ ~AtEnable /\ ~AtEnable' /\ (Voting' <=> Voting)
  BY <1>1, <1>2, <1>3, Stages DEF Early, Down, Late
<1>5. /\ Delayed /\ blockCnt' = blockCnt - One(vblank.enabled) + One(vblank'.enabled)
      /\ vblank' \in [on : BOOLEAN, ref : {vblank'.ref}, enabled : BOOLEAN] /\ event' \in BOOLEAN
      /\ vblank'.ref \in Int /\ vblank'.ref - One(event') >= vblank.ref - One(event)
      /\ active = "INACTIVE" => ~vblank'.on /\ ~vblank'.enabled
      /\ tail' \in Commit /\ tail'.live = tail.live /\ tail'.old = tail.old /\ tail'.new = tail.new /\ tail'.mode = tail.mode
  <2>1. CASE tail.new.active /\ ~tail.new.hexit
    <3>1. event' = TRUE /\ VblankGet /\ tail' = tail
      BY <2>1 DEF TailFlush
    <3>2. /\ Delayed /\ vblank' = [on |-> vblank.on, ref |-> vblank.ref + 1, enabled |-> TRUE]
          /\ blockCnt' = blockCnt - One(vblank.enabled) + One(TRUE)
      BY <3>1, VblankGetCount
    <3>3. active = "ACTIVE"
      BY <1>3, <1>4, <2>1 DEF ActiveInv, Shown, Waiting
    <3>4. One(event') = 1 /\ One(event) \in {0, 1} /\ vblank'.ref = vblank.ref + 1 /\ vblank'.enabled = TRUE
      BY <3>1, <3>2 DEF One
    <3>5. vblank'.ref \in Int /\ vblank'.ref - One(event') >= vblank.ref - One(event)
      BY <1>2, <3>4
    <3>6. vblank' \in [on : BOOLEAN, ref : {vblank'.ref}, enabled : BOOLEAN]
      BY <1>2, <3>2
    <3> QED BY <1>2, <3>1, <3>2, <3>3, <3>4, <3>5, <3>6
  <2>2. CASE ~(tail.new.active /\ ~tail.new.hexit)
    <3>1. tail' = [tail EXCEPT !.flip = TRUE] /\ UNCHANGED <<event, vblank, blockCnt, dwork, queue>>
      BY <2>2 DEF TailFlush
    <3>2. tail' \in Commit /\ tail'.live = tail.live /\ tail'.old = tail.old /\ tail'.new = tail.new /\ tail'.mode = tail.mode
      BY <1>2, <3>1 DEF Commit
    <3> QED BY <1>2, <3>1, <3>2 DEF Delayed, One, TypeOK, ActiveInv
  <2> QED BY <2>1, <2>2
<1>6. Shown' = Shown
  <2>1. Shown = tail.new
    BY <1>3, <1>4 DEF Shown, Waiting
  <2>2. ~Pending'
    BY <1>3, <1>5, DelayedQueue DEF TypeOK
  <2> QED BY <1>4, <1>5, <2>1, <2>2 DEF Shown, Waiting
<1>7. ActiveInv'
  BY <1>1, <1>4, <1>5, <1>6 DEF ActiveInv
<1>8. PowerInv'
  <2>1. One(Reference)' = One(Reference) /\ One(Voting)' = One(Voting)
    BY <1>1, <1>4 DEF Reference, One
  <2> QED BY <1>1, <1>4, <1>6, <2>1 DEF PowerInv
<1>9. active' \in ActiveState /\ decon' \in DeconState /\ powered' \in BOOLEAN /\ "tFlip" \in Down \cup {"tEnable"} \cup Late
  BY <1>1, <1>2 DEF TypeOK
<1>10. Aside
  BY <1>1, <1>4, <1>5, <1>6, DownEnds DEF Aside
<1> QED BY <1>1, <1>2, <1>5, <1>7, <1>8, <1>9, <1>10, StageCount

LEMMA TailHwDoneInv == ASSUME Base, NEW t \in Thread, TailHwDone(t) PROVE Base' /\ Aside
<1> USE DEF Base
<1> DEFINE to == "tUnblock"
<1>1. /\ pc[t] = "tEnd" /\ pc' = [pc EXCEPT ![t] = to] /\ pm' = IF vote[t] THEN pm - 1 ELSE pm
      /\ vote' = [vote EXCEPT ![t] = FALSE] /\ tail' = [tail EXCEPT !.live = FALSE]
      /\ UNCHANGED <<crtc, lock, blockCnt, enabled, mutex, dwork, canceling, queue, camera, decon, powered,
                     active, vblank, event, back, kind, nonblock, new, held, op, result, requests>>
  BY DEF TailHwDone, TailUnchanged, Goto
<1>2. /\ to \in Pcs /\ to \in TailPcs /\ to \notin LivePcs /\ to \notin Early \cup Down \cup {"tState", "tDownEnd", "tEnable", "lock", "swap"}
      /\ pc[t] \notin Early \cup Down \cup {"tState", "tDownEnd", "tEnable"} /\ Live(t) /\ pm \in Nat /\ tail \in Commit
  BY <1>1 DEF Live, LivePcs, Early, Pcs, TailPcs, Down, Late, TypeOK
<1> HIDE DEF to
<1>3. tail.live /\ ~Pending /\ \A u \in Thread : u # t => ~Live(u)
  BY <1>2, OnlyCommit
<1>4. /\ vote' \in [Thread -> BOOLEAN] /\ ~vote'[t] /\ (\A u \in Thread : u # t => vote'[u] = vote[u])
      /\ tail' \in Commit /\ ~tail'.live /\ tail'.old = tail.old /\ tail'.new = tail.new /\ tail'.mode = tail.mode
  <2>1. vote' \in [Thread -> BOOLEAN] /\ ~vote'[t] /\ \A u \in Thread : u # t => vote'[u] = vote[u]
    BY <1>1 DEF TypeOK
  <2>2. tail' \in Commit /\ ~tail'.live /\ tail'.old = tail.old /\ tail'.new = tail.new /\ tail'.mode = tail.mode
    BY <1>1, <1>2 DEF Commit
  <2> QED BY <2>1, <2>2
<1>5. /\ pc'[t] = to /\ \A u \in Thread : u # t => pc'[u] = pc[u] /\ ~Live(u)'
      /\ ~AtEarly /\ ~AtEarly' /\ ~AtDown /\ ~AtDown' /\ ~AtState /\ ~AtState' /\ ~AtEnable /\ ~AtEnable'
      /\ (Voting <=> vote[t]) /\ ~Voting'
  <2>1. \A u \in Thread : u # t => ~Live(u) /\ vote'[u] = vote[u]
    BY <1>3, <1>4
  <2>2. to \in Pcs /\ pc' = [pc EXCEPT ![t] = to]
    BY <1>1, <1>2
  <2>3. /\ pc'[t] = to /\ \A u \in Thread : u # t => pc'[u] = pc[u] /\ ~Live(u)'
        /\ (AtEarly <=> pc[t] \in Early) /\ (AtEarly' <=> to \in Early)
        /\ (AtDown <=> pc[t] \in Down) /\ (AtDown' <=> to \in Down)
        /\ (AtState <=> pc[t] = "tState") /\ (AtState' <=> to = "tState")
        /\ (AtEnable <=> pc[t] = "tEnable") /\ (AtEnable' <=> to = "tEnable")
        /\ (Voting <=> vote[t]) /\ (Voting' <=> vote'[t])
    BY <2>1, <2>2, Stages
  <2> QED BY <1>2, <1>4, <2>3
<1>6. QueueInv' /\ (Pending' <=> Pending)
  BY <1>1 DEF QueueInv, Pending
<1>7. CountInv'
  <2>1. \A r \in Reasons : Holds(t, r)' <=> Holds(t, r)
    BY <1>1, <1>2, <1>5 DEF Holds, Reasons, InCommit, TailPcs, to
  <2>2. pc'[t] \notin {"xWait", "sWait", "holdsVblank"}
    BY <1>5 DEF to
  <2> QED BY <1>1, <1>5, <2>1, <2>2, CountKept
<1>8. SerialInv'
  <2>1. \A u \in Thread : ~Live(u)'
    BY <1>2, <1>5 DEF Live
  <2>2. \A u \in Thread : pc'[u] = "swap" => lock' = u
    BY <1>1, <1>2, <1>5 DEF SerialInv
  <2> QED BY <1>3, <1>4, <1>6, <2>1, <2>2 DEF SerialInv
<1>9. ThreadInv'
  <2>1. OwnInv(t)'
    BY <1>2, <1>4, <1>5 DEF OwnInv
  <2> QED BY <1>1, <1>4, <1>5, <2>1, OthersKeep
<1>10. Shown' = Shown
  BY <1>3, <1>4, <1>5, <1>6 DEF Shown, Waiting
<1>11. ActiveInv'
  BY <1>1, <1>4, <1>5, <1>10 DEF ActiveInv
<1>12. PowerInv'
  <2>1. One(Reference)' = One(Reference) /\ One(Voting)' = 0 /\ One(Voting) = (IF vote[t] THEN 1 ELSE 0) /\ One(Reference) \in Nat
    BY <1>1, <1>5 DEF Reference, One
  <2>2. pm' = One(Reference)' + One(Voting)'
    BY <1>1, <2>1 DEF PowerInv
  <2> QED BY <1>1, <1>4, <1>5, <1>10, <2>2 DEF PowerInv
<1>13. TypeOK'
  <2>1. pc' \in [Thread -> Pcs]
    BY <1>1, <1>2 DEF TypeOK
  <2>2. pm' \in Nat
    BY <1>12 DEF PowerInv, One
  <2> QED BY <1>1, <1>4, <2>1, <2>2 DEF TypeOK
<1>14. Aside
  BY <1>1, <1>4, <1>5, <1>10, DownEnds DEF Aside
<1> QED BY <1>6, <1>7, <1>8, <1>9, <1>11, <1>12, <1>13, <1>14

(* A commit is swapped: none is on its way, and DECON shows its old state.   *)
LEMMA Swapped ==
  ASSUME Base, NEW t \in Thread, pc[t] = "swap", SwapState(t)
  PROVE  /\ tail' \in Commit /\ crtc' \in CrtcState /\ tail'.live /\ tail'.old = tail.new /\ tail'.new = crtc'
         /\ tail'.new.sr => ~tail'.new.active /\ tail'.old.active
         /\ ~Pending /\ \A u \in Thread : ~Live(u) /\ (u # t => pc[u] # "swap")
         /\ ~held[t] /\ ~vote[t] /\ crtc = tail.new /\ Shown = tail.new
         /\ ~AtEarly /\ ~AtDown /\ ~AtState /\ ~AtEnable
<1> USE DEF Base
<1>1. ~tail.live /\ ~Pending /\ \A u \in Thread : ~Live(u) /\ (u # t => pc[u] # "swap")
  BY DEF SwapState, SerialInv
<1>2. ~held[t] /\ ~vote[t] /\ new[t] = Wanted(kind[t]) /\ ~Refused(kind[t]) /\ kind[t] \in UserKinds \cup {"enter", "exit"}
  BY DEF ThreadInv, OwnInv, TailPcs, Down, Late
<1>3. crtc \in CrtcState /\ new[t] \in CrtcState /\ crtc = tail.new
  BY DEF TypeOK, ActiveInv
<1>4. new[t].sr => ~new[t].active /\ crtc.active
  BY <1>2, <1>3 DEF Wanted, Refused, Duplicated, UserKinds, CrtcState, CrtcOff
<1>5. /\ tail'.live /\ tail'.old = crtc /\ tail'.new = new[t] /\ crtc' = new[t]
      /\ tail' \in Commit
  <2> DEFINE m == crtc.enable # new[t].enable \/ kind[t] = "on"
             f == ~crtc.active /\ ~new[t].active
  <2>1. tail' = [live |-> TRUE, flip |-> f, mode |-> m, old |-> crtc, new |-> new[t]] /\ crtc' = new[t] /\ f \in BOOLEAN /\ m \in BOOLEAN
    BY DEF SwapState
  <2> HIDE DEF m, f
  <2> QED BY <1>3, <2>1 DEF Commit
<1>6. ~AtEarly /\ ~AtDown /\ ~AtState /\ ~AtEnable
  BY <1>1 DEF AtEarly, AtDown, AtState, AtEnable, Live, LivePcs, Down
<1>7. Shown = tail.new
  BY <1>1, <1>6 DEF Shown, Waiting
<1> QED BY <1>1, <1>2, <1>3, <1>4, <1>5, <1>6, <1>7

SwapsAside == Waiting' /\ ~AtDown' /\ ~AtEnable' /\ UNCHANGED <<decon, active>>

(* The state of the hardware when a commit starts to wait for its tail.      *)
LEMMA SwappedKeeps ==
  ASSUME Base, NEW t \in Thread, pc[t] = "swap", SwapState(t), Waiting',
         ~AtDown', ~AtState', ~AtEnable', UNCHANGED <<decon, pm, powered, active, vblank, vote>>
  PROVE  ActiveInv' /\ PowerInv' /\ SwapsAside
<1>1. /\ tail'.live /\ tail'.old = tail.new /\ tail'.new = crtc'
      /\ tail'.new.sr => ~tail'.new.active /\ tail'.old.active
      /\ Shown = tail.new /\ ~AtDown /\ ~AtState /\ ~AtEnable
  BY Swapped
<1>2. Shown' = Shown
  BY <1>1 DEF Shown
<1>3. ActiveInv'
  BY <1>1, <1>2 DEF Base, ActiveInv
<1>4. One(Reference)' = One(Reference) /\ One(Voting)' = One(Voting)
  BY <1>1 DEF Reference, Voting, One
<1> QED BY <1>1, <1>2, <1>3, <1>4 DEF Base, PowerInv, SwapsAside

LEMMA CommitInlineInv == ASSUME Base, NEW t \in Thread, CommitInline(t) PROVE Base' /\ SwapsAside
<1> USE DEF Base
<1> DEFINE to == "tBlock"
<1>1. /\ pc[t] = "swap" /\ pc' = [pc EXCEPT ![t] = to] /\ SwapState(t)
      /\ UNCHANGED <<lock, blockCnt, enabled, mutex, dwork, canceling, queue, camera, decon, pm, powered,
                     active, vblank, event, back, kind, nonblock, new, held, vote, op, result, requests>>
  BY DEF CommitInline, Goto, hibVars, deconVars
<1>2. to \in Pcs /\ to \in LivePcs /\ to \in Early /\ to \notin Down \cup {"tState", "tEnable"}
  BY DEF LivePcs, Early, Pcs, Down
<1>3. /\ tail' \in Commit /\ crtc' \in CrtcState /\ tail'.live /\ ~Pending
      /\ \A u \in Thread : ~Live(u) /\ (u # t => pc[u] # "swap")
      /\ ~held[t] /\ ~vote[t]
  BY <1>1, Swapped
<1>4. /\ pc'[t] = to /\ (\A u \in Thread : u # t => pc'[u] = pc[u] /\ ~Live(u)')
      /\ AtEarly' /\ ~AtDown' /\ ~AtState' /\ ~AtEnable'
  <2> HIDE DEF to
  <2> QED BY <1>1, <1>2, <1>3, Stages
<1>5. QueueInv' /\ (Pending' <=> Pending)
  BY <1>1 DEF QueueInv, Pending
<1>6. CountInv'
  <2>1. \A r \in Reasons : Holds(t, r)' <=> Holds(t, r)
    BY <1>1, <1>3, <1>4 DEF Holds, Reasons, InCommit, TailPcs
  <2> QED BY <1>1, <1>4, <2>1, CountKept
<1>7. SerialInv'
  <2>1. Live(t)'
    BY <1>2, <1>4 DEF Live
  <2>2. \A u \in Thread : pc'[u] # "swap"
    BY <1>3, <1>4
  <2> QED BY <1>3, <1>4, <1>5, <2>1, <2>2 DEF SerialInv
<1>8. ThreadInv'
  BY <1>1, <1>3, <1>4 DEF ThreadInv, OwnInv
<1>9. ActiveInv' /\ PowerInv' /\ SwapsAside
  <2>1. Waiting'
    BY <1>4 DEF Waiting
  <2> QED BY <1>1, <1>4, <2>1, SwappedKeeps
<1>10. TypeOK'
  <2>1. pc' \in [Thread -> Pcs]
    BY <1>1, <1>2 DEF TypeOK
  <2> QED BY <1>1, <1>3, <2>1 DEF TypeOK
<1> QED BY <1>5, <1>6, <1>7, <1>8, <1>9, <1>10

LEMMA CommitQueueInv == ASSUME Base, NEW t \in Thread, CommitQueue(t) PROVE Base' /\ SwapsAside
<1> USE DEF Base
<1> DEFINE to == back[t]
<1>1. /\ pc[t] = "swap" /\ pc' = [pc EXCEPT ![t] = to] /\ SwapState(t) /\ lock' = NoThread
      /\ \/ dwork' = "timer" /\ queue' = Append(Unqueued, "commit")
         \/ dwork' = dwork /\ queue' = Append(queue, "commit")
      /\ UNCHANGED <<blockCnt, enabled, mutex, canceling, camera, decon, pm, powered,
                     active, vblank, event, back, kind, nonblock, new, held, vote, op, result, requests>>
  BY DEF CommitQueue, Goto, deconVars
<1>2. to \in {"idle", "hDone", "xUnblock"}
  BY DEF TypeOK
<1>3. /\ tail' \in Commit /\ crtc' \in CrtcState /\ tail'.live /\ ~Pending
      /\ \A u \in Thread : ~Live(u) /\ (u # t => pc[u] # "swap")
      /\ ~held[t] /\ ~vote[t]
  BY <1>1, Swapped
<1>4. pc'[t] = to /\ \A u \in Thread : u # t => pc'[u] = pc[u]
  BY <1>1 DEF TypeOK
<1>5. \A u \in Thread : ~Live(u)' /\ pc'[u] # "swap"
  BY <1>2, <1>3, <1>4 DEF Live, LivePcs, Early, Down, Late
<1>6. QueueInv' /\ Pending' /\ dwork' \in {"idle", "timer"} /\ queue' \in Seq({"dwork", "commit"})
  <2>1. Once(queue) /\ ~Has(queue, "commit") /\ "commit" \in Item
    BY <1>3 DEF QueueInv, Pending, Item
  <2>2. Once(Unqueued) /\ \A x : Has(Unqueued, x) <=> Has(queue, x) /\ x # "dwork"
    BY <2>1, RemoveItem DEF Unqueued
  <2>3. CASE dwork' = "timer" /\ queue' = Append(Unqueued, "commit")
    <3>1. Once(queue') /\ \A x : Has(queue', x) <=> Has(Unqueued, x) \/ x = "commit"
      BY <2>1, <2>2, <2>3, AppendItem
    <3> QED BY <2>2, <2>3, <3>1 DEF QueueInv, Pending, Once, Item
  <2>4. CASE dwork' = dwork /\ queue' = Append(queue, "commit")
    <3>1. Once(queue') /\ \A x : Has(queue', x) <=> Has(queue, x) \/ x = "commit"
      BY <2>1, <2>4, AppendItem
    <3> QED BY <2>4, <3>1 DEF QueueInv, Pending, Once, Item, TypeOK
  <2> QED BY <1>1, <2>3, <2>4
<1>7. CountInv'
  <2>1. \A r \in Reasons : Holds(t, r)' <=> Holds(t, r)
    BY <1>1, <1>2, <1>3, <1>4 DEF Holds, Reasons, InCommit, TailPcs
  <2> QED BY <1>1, <1>2, <1>4, <2>1, CountKept
<1>8. SerialInv'
  BY <1>3, <1>5, <1>6 DEF SerialInv
<1>9. ThreadInv'
  BY <1>1, <1>2, <1>3, <1>4 DEF ThreadInv, OwnInv
<1>10. ActiveInv' /\ PowerInv' /\ SwapsAside
  <2>1. ~AtDown' /\ ~AtState' /\ ~AtEnable'
    BY <1>5 DEF AtDown, AtState, AtEnable, Live, LivePcs, Down
  <2> QED BY <1>1, <1>6, <2>1, SwappedKeeps DEF Waiting
<1>11. TypeOK'
  <2>1. pc' \in [Thread -> Pcs] /\ lock' \in Thread \cup {NoThread}
    BY <1>1, <1>2 DEF TypeOK, Pcs
  <2> QED BY <1>1, <1>3, <1>6, <2>1 DEF TypeOK
<1> QED BY <1>6, <1>7, <1>8, <1>9, <1>10, <1>11

LEMMA WorkerTakesCommitInv == ASSUME Base, WorkerTakesCommit PROVE Base' /\ Aside
<1> USE DEF Base
<1> DEFINE t == Worker
           to == "tBlock"
<1>1. /\ pc[t] = "idle" /\ pc' = [pc EXCEPT ![t] = to] /\ t \in Thread
      /\ queue # <<>> /\ Head(queue) = "commit" /\ queue' = Tail(queue) /\ back' = [back EXCEPT ![t] = "idle"]
      /\ UNCHANGED <<crtc, lock, tail, blockCnt, enabled, mutex, dwork, canceling, camera, decon, pm, powered,
                     active, vblank, event, kind, nonblock, new, held, vote, op, result, requests>>
  BY DEF WorkerTakesCommit, WorkerTakes, Goto, swVars, deconVars, Thread
<1> HIDE DEF t
<1>2. to \in Pcs /\ to \in LivePcs /\ to \in Early /\ to \notin Down \cup {"tState", "tEnable"}
  BY DEF LivePcs, Early, Pcs, Down
<1>3. QueueInv' /\ Pending /\ ~Pending'
  <2>1. Has(queue, "commit") /\ Once(queue') /\ \A x : Has(queue', x) <=> Has(queue, x) /\ x # "commit"
    BY <1>1, HeadItem DEF QueueInv
  <2> QED BY <1>1, <2>1 DEF QueueInv, Pending
<1>4. tail.live /\ (\A u \in Thread : ~Live(u)) /\ ~held[t] /\ ~vote[t]
  BY <1>1, <1>3 DEF SerialInv, ThreadInv, OwnInv, TailPcs, Down, Late
<1>5. /\ pc'[t] = to /\ (\A u \in Thread : u # t => pc'[u] = pc[u] /\ ~Live(u)')
      /\ AtEarly' /\ ~AtDown' /\ ~AtState' /\ ~AtEnable' /\ (Voting' <=> Voting)
  <2> HIDE DEF to
  <2> QED BY <1>1, <1>2, <1>4, Stages
<1>6. ~AtDown /\ ~AtState /\ ~AtEnable /\ ~AtEarly
  BY <1>4 DEF AtEarly, AtDown, AtState, AtEnable, Live, LivePcs, Down
<1>7. Shown' = Shown
  BY <1>1, <1>3, <1>5 DEF Shown, Waiting
<1>8. CountInv' /\ back'[t] = "idle" /\ \A u \in Thread : u # t => back'[u] = back[u]
  <2>1. back'[t] = "idle" /\ \A u \in Thread : u # t => back'[u] = back[u]
    BY <1>1 DEF TypeOK
  <2>2. \A r \in Reasons : Holds(t, r)' <=> Holds(t, r)
    BY <1>1, <1>4, <1>5, <2>1 DEF Holds, Reasons, InCommit, TailPcs
  <2> QED BY <1>1, <1>5, <2>1, <2>2, CountKept
<1>9. SerialInv'
  <2>1. Live(t)'
    BY <1>2, <1>5 DEF Live
  <2>2. \A u \in Thread : pc'[u] = "swap" => lock' = u
    BY <1>1, <1>5 DEF SerialInv
  <2> QED BY <1>1, <1>3, <1>4, <1>5, <2>1, <2>2 DEF SerialInv
<1>10. ThreadInv'
  <2>1. OwnInv(t)'
    BY <1>1, <1>4, <1>5 DEF OwnInv
  <2> QED BY <1>1, <1>5, <2>1, OthersKeep
<1>11. ActiveInv'
  BY <1>1, <1>5, <1>6, <1>7 DEF ActiveInv
<1>12. PowerInv'
  <2>1. One(Reference)' = One(Reference) /\ One(Voting)' = One(Voting)
    BY <1>1, <1>5, <1>6 DEF Reference, One
  <2> QED BY <1>1, <1>5, <1>6, <1>7, <2>1 DEF PowerInv
<1>13. TypeOK'
  <2>1. pc' \in [Thread -> Pcs] /\ back' \in [Thread -> {"idle", "hDone", "xUnblock"}]
    BY <1>1, <1>2 DEF TypeOK
  <2> QED BY <1>1, <1>3, <2>1 DEF TypeOK, QueueInv, Once, Item
<1>14. Aside
  BY <1>1, <1>5, <1>6, <1>7, DownEnds DEF Aside
<1> QED BY <1>3, <1>8, <1>9, <1>10, <1>11, <1>12, <1>13, <1>14

-----------------------------------------------------------------------------
(* The block count *)

LEMMA InitBase == Init => Base
<1> SUFFICES ASSUME Init PROVE Base
  OBVIOUS
<1>1. TypeOK
  <2>1. CrtcOff \in CrtcState /\ tail \in Commit /\ vblank \in [on : BOOLEAN, ref : Nat, enabled : BOOLEAN]
    BY DEF Init, CrtcOff, CrtcState, Commit
  <2>2. 0 \in 0 .. MaxRequests
    BY HibernationAssumption
  <2>3. /\ pc \in [Thread -> Pcs] /\ back \in [Thread -> {"idle", "hDone", "xUnblock"}] /\ kind \in [Thread -> Kinds]
        /\ nonblock \in [Thread -> BOOLEAN] /\ held \in [Thread -> BOOLEAN] /\ vote \in [Thread -> BOOLEAN]
        /\ op \in [Thread -> {"none", "wakeup", "disable", "enable"}]
    BY DEF Init, Pcs, Kinds
  <2>4. new \in [Thread -> CrtcState]
    BY <2>1 DEF Init
  <2>5. decon \in DeconState /\ pm \in Nat /\ powered \in BOOLEAN /\ active \in ActiveState
    <3>1. active = "INACTIVE" /\ \/ decon = "INIT" /\ pm = 0 /\ powered = FALSE
                                 \/ decon = "HANDOVER" /\ pm = 1 /\ powered = TRUE
      BY DEF Init
    <3>2. decon \in DeconState /\ pm \in Nat
      BY <3>1 DEF DeconState
    <3>3. powered \in BOOLEAN
      BY <3>1, Zenon
    <3> QED BY <3>1, <3>2, <3>3 DEF ActiveState
  <2>6. queue \in Seq({"dwork", "commit"})
    BY DEF Init
  <2> QED BY <2>1, <2>2, <2>3, <2>4, <2>5, <2>6 DEF Init, TypeOK
<1>2. queue = <<>> /\ Once(queue) /\ ~Has(queue, "dwork") /\ ~Pending
  BY DEF Init, Once, Has, Pending
<1>3. \A t \in Thread : pc[t] = "idle" /\ ~Live(t) /\ ~held[t] /\ ~vote[t]
  BY DEF Init, Live, LivePcs, Early, Down, Late
<1>4. QueueInv /\ SerialInv /\ ThreadInv
  BY <1>2, <1>3 DEF Init, QueueInv, SerialInv, ThreadInv, OwnInv
<1>5. ~AtEarly /\ ~AtDown /\ ~AtState /\ ~AtEnable /\ ~Voting
  BY <1>3 DEF AtEarly, AtDown, AtState, AtEnable, Voting, Early, Down
<1>6. ActiveInv
  BY <1>2, <1>5 DEF Init, ActiveInv, Shown, Waiting, CrtcOff
<1>7. PowerInv
  BY <1>2, <1>5 DEF Init, PowerInv, Shown, Waiting, CrtcOff, Reference, One
<1>8. CountInv
  <2>1. Holders = {}
    BY <1>3 DEF Holders, Holds, Reasons, InCommit, TailPcs
  <2>2. Cancelers = {} /\ VblankUsers = {}
    BY <1>3 DEF Cancelers, VblankUsers
  <2>3. Cardinality(Holders) = 0 /\ Cardinality(Cancelers) = 0 /\ Cardinality(VblankUsers) = 0
    BY <2>1, <2>2, FS_EmptySet
  <2> QED BY <2>3 DEF Init, CountInv, BlockCountExact, One
<1> QED BY <1>1, <1>4, <1>6, <1>7, <1>8 DEF Base

LEMMA NextBase == Base /\ [Next]_vars => Base'
<1> SUFFICES ASSUME Base, [Next]_vars PROVE Base'
  OBVIOUS
<1>1. ASSUME NEW t \in Thread, CommitSteps(t) PROVE Base'
  BY <1>1, CommitChecks, CommitInlineInv, CommitQueueInv DEF CommitSteps
<1>2. ASSUME NEW t \in Thread, Tail1(t) PROVE Base'
  BY <1>2, TailBlockInv, TailNoDisableInv, TailDisableInv, DeconStopInv, DeconDownInv, CrtcDownInv, TailNoEnableInv,
     TailEnableInv, TailFlushInv, TailFlipDoneInv, TailHwDoneInv, TailUnblockInv, TailRearmInv DEF Tail1
<1>3. ASSUME NEW t \in Thread, RunSteps(t) PROVE Base'
  BY <1>3, RunLockInv, RunEndsInv, RunEnterInv DEF RunSteps
<1>4. ASSUME NEW t \in Thread, ExitSteps(t) PROVE Base'
  BY <1>4, ExitBlocksInv, ExitCancelsInv, ExitCancelledInv, ExitUnblocksInv, ExitRearmsInv DEF ExitSteps
<1>5. ASSUME NEW t \in Thread, Progress(t) PROVE Base'
  BY <1>5, <1>1, <1>2, <1>3, <1>4, WorkerTakesHibernationInv, WorkerTakesCommitInv, SuspendCancelInv, SuspendMovesInv,
     UserPutsVblankInv DEF Progress, SuspendSteps
<1>6. ASSUME Request PROVE Base'
  BY <1>6, UserCommitInv, UserGetsVblankInv, UserEnablesInv, UserExitsInv, SuspendMovesInv DEF Request
<1>7. ASSUME SendEvent \/ VblankOff \/ TimerFires \/ CameraStops \/ RuntimeSuspend \/ UNCHANGED vars PROVE Base'
  BY <1>7, SendEventInv, VblankOffInv, AloneInv
<1> QED BY <1>5, <1>6, <1>7 DEF Next

(* Every variable keeps its type: no count of hibernation.block_cnt, of the  *)
(* cancelled work or of runtime PM ever drops below zero.                    *)
THEOREM TypeCorrect == Spec => []TypeOK
<1>1. Base => TypeOK
  BY DEF Base
<1> QED BY <1>1, InitBase, NextBase, PTL DEF Spec

(* block_cnt is the number of those who hold hibernation off, whatever the   *)
(* threads do: a tail that is queued or inline, an exit that cancels the     *)
(* work, an entry that is refused half way, a vblank that comes and goes.    *)
THEOREM BlockCounted == Spec => []BlockCountExact
<1>1. Base => BlockCountExact
  BY DEF Base, CountInv
<1> QED BY <1>1, InitBase, NextBase, PTL DEF Spec

-----------------------------------------------------------------------------
(* DECON follows the CRTC, if ACTIVE is only cleared to disable the display  *)

(* The states a CRTC can be in then: running, in self refresh, or disabled.  *)
Proper(s) == IF s.active THEN s.enable /\ ~s.sr ELSE s.enable = s.sr /\ ~s.hexit

Agrees(s) ==
  /\ s.active <=> decon = "ON"
  /\ s.sr <=> decon = "HIBERNATION"
  /\ active = IF s.active THEN "ACTIVE" ELSE IF s.sr THEN "SELF_REFRESH" ELSE "INACTIVE"

(* What the commit finds after it has disabled what had to be disabled.      *)
ToEnable ==
  IF ~tail.new.active THEN Agrees(tail.new)
  ELSE \/ active = "INACTIVE" /\ decon \in {"INIT", "HANDOVER", "OFF"} /\ NeedsModeset
       \/ active = "SELF_REFRESH" /\ decon = "HIBERNATION" /\ NeedsModeset /\ tail.old.sr /\ ~tail.mode
       \/ active = "ACTIVE" /\ decon = "ON" /\ ~NeedsModeset

DeconInv ==
  /\ Proper(tail.new) /\ Proper(tail.old)
  /\ tail.live => (tail.new.sr => ~tail.mode) /\ (~tail.mode => tail.old.enable = tail.new.enable)
  /\ ~AtDown /\ ~AtEnable => Agrees(Shown)
  /\ AtDown /\ ~AtDownEnd => Agrees(tail.old)
  /\ AtDownEnd => decon = IF tail.new.sr THEN "HIBERNATION" ELSE "OFF"
  /\ AtEnable => ToEnable

LEMMA AsideDecon == ASSUME DeconInv, Aside PROVE DeconInv'
<1>1. /\ UNCHANGED <<decon, active>>
      /\ tail'.old = tail.old /\ tail'.new = tail.new /\ tail'.mode = tail.mode /\ (tail'.live => tail.live)
      /\ (AtDown' <=> AtDown) /\ (AtDownEnd' <=> AtDownEnd) /\ (AtEnable' <=> AtEnable)
      /\ Shown' = Shown
  BY DEF Aside
<1>2. Proper(tail.new)' /\ Proper(tail.old)' /\ (tail'.live => (tail'.new.sr => ~tail'.mode) /\ (~tail'.mode => tail'.old.enable = tail'.new.enable))
  BY <1>1 DEF DeconInv, Proper
<1>3. (Agrees(Shown)' <=> Agrees(Shown)) /\ (Agrees(tail.old)' <=> Agrees(tail.old)) /\ (ToEnable' <=> ToEnable)
  BY <1>1 DEF Agrees, ToEnable, NeedsModeset
<1> QED BY <1>1, <1>2, <1>3 DEF DeconInv

(* A commit that keeps to the states and is not refused.                     *)
LEMMA WantedProper ==
  ASSUME ~ActiveOnly, crtc \in CrtcState, NEW k \in UserKinds \cup {"enter", "exit"}, ~Refused(k)
  PROVE  LET w == Wanted(k)
             mode == crtc.enable # w.enable \/ k = "on"
         IN  Proper(w) /\ (w.sr => ~mode) /\ (~mode => crtc.enable = w.enable)
<1> DEFINE d == Duplicated
           w == Wanted(k)
           mode == crtc.enable # w.enable \/ k = "on"
<1>1. k \in {"flip", "on", "off", "enter", "exit"}
  BY DEF UserKinds
<1>2. crtc.active \in BOOLEAN /\ crtc.enable \in BOOLEAN /\ crtc.sr \in BOOLEAN /\ crtc.hexit \in BOOLEAN
  BY DEF CrtcState
<1>3. d \in CrtcState /\ d.enable = crtc.enable /\ d.sr = FALSE /\ d.hexit = FALSE
  <2> DEFINE e == EffectivelyActive(crtc)
  <2>1. d = [crtc EXCEPT !.active = e, !.sr = FALSE, !.hexit = FALSE] /\ e \in BOOLEAN
    BY <1>2 DEF Duplicated, EffectivelyActive
  <2> HIDE DEF d, e
  <2> QED BY <2>1 DEF CrtcState
<1>4. Proper(w) /\ (w.sr => ~mode) /\ (~mode => crtc.enable = w.enable)
  <2>1. CASE k = "enter"
    <3>1. w = [d EXCEPT !.active = FALSE, !.sr = TRUE]
      BY <2>1 DEF Wanted
    <3> HIDE DEF d, w
    <3>2. w.active = FALSE /\ w.sr = TRUE /\ w.hexit = FALSE /\ w.enable = crtc.enable
      BY <1>3, <3>1 DEF CrtcState
    <3>3. crtc.enable = TRUE
      BY <1>2, <2>1 DEF Refused
    <3> QED BY <2>1, <3>2, <3>3 DEF Proper
  <2>2. CASE k = "exit"
    <3>1. w = [d EXCEPT !.active = TRUE, !.hexit = TRUE]
      BY <2>2 DEF Wanted
    <3> HIDE DEF d, w
    <3>2. w.active = TRUE /\ w.sr = FALSE /\ w.hexit = TRUE /\ w.enable = crtc.enable
      BY <1>3, <3>1 DEF CrtcState
    <3>3. crtc.enable = TRUE
      BY <1>2, <2>2 DEF Refused
    <3> QED BY <2>2, <3>2, <3>3 DEF Proper
  <2>3. CASE k \in {"flip", "on"}
    <3>1. w = [d EXCEPT !.enable = TRUE, !.active = TRUE]
      BY <2>3 DEF Wanted
    <3> HIDE DEF d, w
    <3>2. w.active = TRUE /\ w.sr = FALSE /\ w.enable = TRUE
      BY <1>3, <3>1 DEF CrtcState
    <3> QED BY <3>2 DEF Proper
  <2>4. CASE k = "off"
    <3>1. w.enable = FALSE /\ w.active = FALSE /\ w.sr = FALSE /\ w.hexit = FALSE
      BY <2>4 DEF Wanted, CrtcOff
    <3> HIDE DEF w
    <3> QED BY <3>1 DEF Proper
  <2> QED BY <1>1, <2>1, <2>2, <2>3, <2>4
<1> QED BY <1>4

(* A commit that is swapped keeps to the states.                             *)
LEMMA SwapDecon ==
  ASSUME ~ActiveOnly, Base, DeconInv, NEW t \in Thread, pc[t] = "swap", SwapState(t), SwapsAside
  PROVE  DeconInv'
<1> DEFINE k == kind[t]
           w == Wanted(k)
           mode == crtc.enable # w.enable \/ k = "on"
<1>1. /\ tail'.old = tail.new /\ tail'.new = crtc' /\ crtc = tail.new /\ Shown = tail.new /\ ~AtDown /\ ~AtEnable
      /\ UNCHANGED <<decon, active>> /\ Waiting' /\ ~AtDown' /\ ~AtEnable' /\ Shown' = tail.new
  BY Swapped DEF SwapsAside, Shown
<1>2. k \in UserKinds \cup {"enter", "exit"} /\ ~Refused(k) /\ new[t] = w /\ crtc \in CrtcState
  BY DEF Base, ThreadInv, OwnInv, TypeOK
<1>3. Proper(w) /\ (w.sr => ~mode) /\ (~mode => crtc.enable = w.enable)
  BY <1>2, WantedProper
<1>4. tail'.new = w /\ (tail'.mode <=> mode) /\ tail'.old = crtc
  BY <1>2 DEF SwapState
<1> HIDE DEF w, mode
<1>5. Proper(tail.new)' /\ Proper(tail.old)'
  BY <1>1, <1>3, <1>4 DEF DeconInv, Proper
<1>6. (tail'.new.sr => ~tail'.mode) /\ (~tail'.mode => tail'.old.enable = tail'.new.enable)
  BY <1>3, <1>4
<1>7. Agrees(Shown)'
  BY <1>1 DEF DeconInv, Agrees
<1>8. ~AtDownEnd'
  BY <1>1, DownEnds
<1> QED BY <1>1, <1>5, <1>6, <1>7, <1>8 DEF DeconInv

(* Where the only commit is. *)
Place(t) ==
  /\ (AtDown <=> pc[t] \in Down) /\ (AtDownEnd <=> pc[t] = "tDownEnd") /\ (AtEnable <=> pc[t] = "tEnable")
  /\ (AtState <=> pc[t] = "tState") /\ Shown = (IF pc[t] \in Early THEN tail.old ELSE tail.new) /\ tail.live

LEMMA Places ==
  ASSUME Base, Base', NEW t \in Thread, Live(t), Live(t)' PROVE Place(t) /\ Place(t)'
<1>1. tail.live /\ ~Pending /\ \A u \in Thread : Live(u) => u = t
  BY DEF Base, SerialInv
<1>2. tail'.live /\ ~Pending' /\ \A u \in Thread : Live(u)' => u = t
  BY DEF Base, SerialInv
<1>3. (AtDown <=> pc[t] \in Down) /\ (AtDownEnd <=> pc[t] = "tDownEnd") /\ (AtEnable <=> pc[t] = "tEnable")
      /\ (AtState <=> pc[t] = "tState") /\ (AtEarly <=> pc[t] \in Early)
  BY <1>1 DEF AtDown, AtDownEnd, AtEnable, AtState, AtEarly, Live, LivePcs, Down
<1>4. (AtDown' <=> pc'[t] \in Down) /\ (AtDownEnd' <=> pc'[t] = "tDownEnd") /\ (AtEnable' <=> pc'[t] = "tEnable")
      /\ (AtState' <=> pc'[t] = "tState") /\ (AtEarly' <=> pc'[t] \in Early)
  BY <1>2 DEF AtDown, AtDownEnd, AtEnable, AtState, AtEarly, Live, LivePcs, Down
<1>5. Shown = (IF pc[t] \in Early THEN tail.old ELSE tail.new) /\ Shown' = (IF pc'[t] \in Early THEN tail'.old ELSE tail'.new)
  BY <1>1, <1>2, <1>3, <1>4 DEF Shown, Waiting
<1> QED BY <1>1, <1>2, <1>3, <1>4, <1>5 DEF Place

(* What is left to show of a step of the commit that leaves it as it is.     *)
LEMMA PlaceDecon ==
  ASSUME Base, Base', DeconInv, NEW t \in Thread, NEW p \in LivePcs, NEW to \in LivePcs, pc[t] = p, pc' = [pc EXCEPT ![t] = to],
         tail' = tail,
         to \notin Down \cup {"tEnable"} => Agrees(IF to \in Early THEN tail.old ELSE tail.new)',
         to \in {"tDown", "tState"} => Agrees(tail.old)',
         to = "tDownEnd" => decon' = IF tail.new.sr THEN "HIBERNATION" ELSE "OFF",
         to = "tEnable" => ToEnable'
  PROVE  DeconInv'
<1>1. pc'[t] = to /\ Live(t) /\ Live(t)'
  BY DEF Base, TypeOK, Live
<1>2. Place(t)'
  BY <1>1, Places
<1>3. (AtDown' <=> to \in Down) /\ (AtDownEnd' <=> to = "tDownEnd") /\ (AtEnable' <=> to = "tEnable")
      /\ Shown' = (IF to \in Early THEN tail'.old ELSE tail'.new)
  BY <1>1, <1>2 DEF Place
<1>4. Proper(tail.new)' /\ Proper(tail.old)' /\ (tail'.live => (tail'.new.sr => ~tail'.mode) /\ (~tail'.mode => tail'.old.enable = tail'.new.enable))
  BY DEF DeconInv, Proper
<1>5. ~AtDown' /\ ~AtEnable' => Agrees(Shown)'
  BY <1>3 DEF Agrees
<1>6. AtDown' /\ ~AtDownEnd' => Agrees(tail.old)'
  BY <1>3 DEF Down
<1> QED BY <1>3, <1>4, <1>5, <1>6 DEF DeconInv

LEMMA BeforeDecon ==
  ASSUME Base, Base', DeconInv, NEW t \in Thread, NEW p \in LivePcs, NEW to \in LivePcs, pc[t] = p, pc' = [pc EXCEPT ![t] = to]
  PROVE  /\ pc[t] \in Early \cup {"tDown", "tState"} => Agrees(tail.old)
         /\ pc[t] = "tDownEnd" => decon = IF tail.new.sr THEN "HIBERNATION" ELSE "OFF"
         /\ pc[t] = "tEnable" => ToEnable
         /\ pc[t] \in Down => NeedsModeset
         /\ tail.live /\ (tail.new.sr => tail.old.active)
<1>1. Live(t) /\ Live(t)'
  BY DEF Base, TypeOK, Live
<1>2. Place(t)
  BY <1>1, Places
<1>3. pc[t] \in Early => ~AtDown /\ ~AtEnable /\ Shown = tail.old
  BY <1>2 DEF Place, Early, Down
<1>4. pc[t] \in {"tDown", "tState"} => AtDown /\ ~AtDownEnd
  BY <1>2 DEF Place, Down
<1> QED BY <1>2, <1>3, <1>4 DEF Place, DeconInv, Base, ActiveInv

LEMMA TailNoDisableDecon == ASSUME Base, Base', DeconInv, NEW t \in Thread, TailNoDisable(t) PROVE DeconInv'
<1>1. /\ pc[t] = "tDisable" /\ pc' = [pc EXCEPT ![t] = "tEnable"] /\ ~(NeedsModeset /\ NeedsDisable)
      /\ UNCHANGED <<tail, decon, active>>
  BY DEF TailNoDisable, TailUnchanged, Goto, deconVars
<1>2. "tDisable" \in LivePcs /\ "tDisable" \in Early /\ "tEnable" \in LivePcs
  BY DEF LivePcs, Early
<1>3. Agrees(tail.old) /\ tail.live
  BY <1>1, <1>2, BeforeDecon
<1>4. /\ tail.old.active \in BOOLEAN /\ tail.new.active \in BOOLEAN /\ tail.old.sr \in BOOLEAN /\ tail.new.sr \in BOOLEAN
      /\ tail.old.enable \in BOOLEAN /\ tail.new.enable \in BOOLEAN /\ decon \in DeconState
  BY DEF Base, TypeOK, Commit, CrtcState
<1>5. /\ Proper(tail.old) /\ Proper(tail.new) /\ (tail.new.sr => ~tail.mode) /\ (~tail.mode => tail.old.enable = tail.new.enable)
  BY <1>3 DEF DeconInv
<1>6. ToEnable
  <2>1. CASE tail.new.active
    <3>1. ASSUME tail.old.active PROVE ToEnable
      BY <1>1, <1>3, <1>4, <2>1, <3>1 DEF ToEnable, Agrees, NeedsModeset, NeedsDisable
    <3>2. ASSUME ~tail.old.active, tail.old.sr PROVE ToEnable
      BY <1>1, <1>3, <1>4, <2>1, <3>2 DEF ToEnable, Agrees, NeedsModeset, NeedsDisable
    <3>3. ASSUME ~tail.old.active, ~tail.old.sr PROVE ToEnable
      BY <1>1, <1>3, <1>4, <2>1, <3>3 DEF ToEnable, Agrees, NeedsModeset, NeedsDisable, DeconState
    <3> QED BY <3>1, <3>2, <3>3
  <2>2. CASE ~tail.new.active
    <3>1. ~tail.old.active
      BY <1>1, <1>4, <2>2 DEF NeedsModeset, NeedsDisable
    <3>2. tail.old.sr = tail.new.sr
      <4>1. tail.old.enable = tail.old.sr /\ tail.new.enable = tail.new.sr
        BY <1>5, <2>2, <3>1 DEF Proper
      <4> QED BY <1>1, <1>4, <1>5, <2>2, <3>1, <4>1 DEF NeedsModeset, NeedsDisable
    <3>3. Agrees(tail.new)
      BY <1>3, <2>2, <3>1, <3>2 DEF Agrees
    <3> QED BY <2>2, <3>3 DEF ToEnable
  <2> QED BY <2>1, <2>2
<1>7. ToEnable'
  BY <1>1, <1>6 DEF ToEnable, Agrees, NeedsModeset
<1> QED BY <1>1, <1>2, <1>7, PlaceDecon

LEMMA DownDecon == ASSUME Base, Base', DeconInv, NEW t \in Thread, TailDisable(t) \/ DeconStop(t) PROVE DeconInv'
<1>1. /\ pc[t] \in {"tDisable", "tDown"} /\ pc' = [pc EXCEPT ![t] = pc'[t]] /\ pc'[t] \in {"tDown", "tState"}
      /\ UNCHANGED <<tail, decon, active>>
  BY DEF TailDisable, DeconStop, TailUnchanged, Goto, Base, TypeOK
<1>2. {"tDisable", "tDown", "tState"} \subseteq LivePcs /\ "tDisable" \in Early /\ {"tDown", "tState"} \subseteq Down
  BY DEF LivePcs, Early, Down
<1>3. Agrees(tail.old)
  BY <1>1, <1>2, BeforeDecon
<1>4. Agrees(tail.old)'
  BY <1>1, <1>3 DEF Agrees
<1> DEFINE p == pc[t]
           to == pc'[t]
<1>5. p \in LivePcs /\ to \in LivePcs /\ to \in Down /\ to \notin {"tDownEnd", "tEnable"} /\ pc[t] = p /\ pc' = [pc EXCEPT ![t] = to]
  BY <1>1, <1>2
<1> HIDE DEF p, to
<1> QED BY <1>1, <1>4, <1>5, PlaceDecon

LEMMA DeconDownDecon == ASSUME Base, Base', DeconInv, NEW t \in Thread, DeconStopped(t) \/ DeconAlreadyStopped(t) PROVE DeconInv'
<1>1. /\ pc[t] \in {"tDown", "tState"} /\ pc' = [pc EXCEPT ![t] = "tDownEnd"] /\ tail' = tail
      /\ pc[t] = "tState" => decon' = IF tail.new.sr THEN "HIBERNATION" ELSE "OFF"
      /\ pc[t] = "tDown" => decon # "ON" /\ decon' = IF tail.new.sr THEN decon ELSE "OFF"
  BY DEF DeconStopped, DeconAlreadyStopped, TailUnchanged, Goto
<1>2. {"tDownEnd", "tDown", "tState"} \subseteq LivePcs
  BY DEF LivePcs, Down
<1> DEFINE p == pc[t]
<1>3. p \in LivePcs /\ "tDownEnd" \in LivePcs /\ pc[t] = p
  BY <1>1, <1>2
<1>4. Agrees(tail.old) /\ (tail.new.sr => tail.old.active)
  <2> HIDE DEF p
  <2>1. pc[t] \in Early \cup {"tDown", "tState"}
    BY <1>1
  <2> QED BY <1>1, <1>3, <2>1, BeforeDecon
<1>5. decon' = IF tail.new.sr THEN "HIBERNATION" ELSE "OFF"
  BY <1>1, <1>4 DEF Agrees
<1>6. "tDownEnd" \in Down
  BY DEF Down
<1> HIDE DEF p
<1> QED BY <1>1, <1>3, <1>5, <1>6, PlaceDecon

LEMMA CrtcDownDecon == ASSUME Base, Base', DeconInv, NEW t \in Thread, CrtcDown(t) PROVE DeconInv'
<1>1. /\ pc[t] = "tDownEnd" /\ pc' = [pc EXCEPT ![t] = "tEnable"] /\ active' = ActiveTarget /\ UNCHANGED <<tail, decon>>
  BY DEF CrtcDown, TailUnchanged, Goto
<1>2. "tDownEnd" \in LivePcs /\ "tDownEnd" \in Down /\ "tEnable" \in LivePcs
  BY DEF LivePcs, Down
<1>3. decon = (IF tail.new.sr THEN "HIBERNATION" ELSE "OFF") /\ NeedsModeset
  BY <1>1, <1>2, BeforeDecon
<1>4. Proper(tail.new)
  BY DEF DeconInv
<1>5. ToEnable'
  BY <1>1, <1>3, <1>4 DEF ToEnable, Agrees, NeedsModeset, ActiveTarget, Proper
<1> QED BY <1>1, <1>2, <1>5, PlaceDecon

LEMMA EnableDecon == ASSUME Base, Base', DeconInv, NEW t \in Thread, TailEnable(t) \/ TailNoEnable(t) PROVE DeconInv'
<1>1. /\ pc[t] = "tEnable" /\ pc' = [pc EXCEPT ![t] = "tFlush"] /\ tail' = tail
      /\ \/ WillEnable /\ active' = "ACTIVE" /\ decon' = "ON"
         \/ ~WillEnable /\ UNCHANGED <<active, decon>>
  BY DEF TailEnable, TailNoEnable, TailUnchanged, Goto, deconVars
<1>2. "tEnable" \in LivePcs /\ "tFlush" \in LivePcs /\ "tFlush" \notin Early \cup Down \cup {"tDown", "tState", "tDownEnd", "tEnable"}
  BY DEF LivePcs, Late, Early, Down
<1>3. ToEnable
  BY <1>1, <1>2, BeforeDecon
<1>4. Proper(tail.new)
  BY DEF DeconInv
<1>5. Agrees(tail.new)'
  BY <1>1, <1>3, <1>4 DEF ToEnable, Agrees, WillEnable, Proper
<1> DEFINE p == pc[t]
           to == "tFlush"
<1>6. p \in LivePcs /\ to \in LivePcs /\ pc[t] = p /\ pc' = [pc EXCEPT ![t] = to]
  BY <1>1, <1>2
<1>7. to \notin Early /\ to \notin {"tDown", "tState"} /\ to # "tDownEnd" /\ to # "tEnable"
  BY <1>2
<1> HIDE DEF p, to
<1>8. Agrees(IF to \in Early THEN tail.old ELSE tail.new)'
  BY <1>5, <1>7 DEF Agrees
<1> QED BY <1>1, <1>6, <1>7, <1>8, PlaceDecon

LEMMA InitDecon == Init => DeconInv
<1> SUFFICES ASSUME Init PROVE DeconInv
  OBVIOUS
<1>1. ~AtDown /\ ~AtEnable /\ ~AtDownEnd
  BY DEF Init, AtDown, AtEnable, AtDownEnd, Down
<1>2. tail.old = CrtcOff /\ tail.new = CrtcOff /\ tail.live = FALSE /\ active = "INACTIVE" /\ decon \in {"INIT", "HANDOVER"}
  BY DEF Init
<1>3. Proper(CrtcOff) /\ Agrees(CrtcOff)
  BY <1>2 DEF CrtcOff, Proper, Agrees
<1> QED BY <1>1, <1>2, <1>3 DEF DeconInv, Shown

LEMMA NextDecon == ASSUME ~ActiveOnly PROVE Base /\ DeconInv /\ [Next]_vars => DeconInv'
<1> SUFFICES ASSUME Base, DeconInv, [Next]_vars PROVE DeconInv'
  OBVIOUS
<1>0. Base'
  BY NextBase
<1>1. ASSUME NEW t \in Thread, CommitSteps(t) PROVE DeconInv'
  <2>1. CASE CommitInline(t) \/ CommitQueue(t)
    BY <2>1, CommitInlineInv, CommitQueueInv, SwapDecon DEF CommitInline, CommitQueue, Goto
  <2> QED BY <1>1, <2>1, CommitChecks, AsideDecon DEF CommitSteps
<1>2. ASSUME NEW t \in Thread, Tail1(t) PROVE DeconInv'
  BY <1>0, <1>2, TailBlockInv, TailFlushInv, TailFlipDoneInv, TailHwDoneInv, TailUnblockInv, TailRearmInv, AsideDecon,
     TailNoDisableDecon, DownDecon, DeconDownDecon, CrtcDownDecon, EnableDecon DEF Tail1
<1>3. ASSUME NEW t \in Thread, RunSteps(t) PROVE DeconInv'
  BY <1>3, RunLockInv, RunEndsInv, RunEnterInv, AsideDecon DEF RunSteps
<1>4. ASSUME NEW t \in Thread, ExitSteps(t) PROVE DeconInv'
  BY <1>4, ExitBlocksInv, ExitCancelsInv, ExitCancelledInv, ExitUnblocksInv, ExitRearmsInv, AsideDecon DEF ExitSteps
<1>5. ASSUME NEW t \in Thread, Progress(t) PROVE DeconInv'
  BY <1>5, <1>1, <1>2, <1>3, <1>4, WorkerTakesHibernationInv, WorkerTakesCommitInv, SuspendCancelInv, SuspendMovesInv,
     UserPutsVblankInv, AsideDecon DEF Progress, SuspendSteps
<1>6. ASSUME Request PROVE DeconInv'
  BY <1>6, UserCommitInv, UserGetsVblankInv, UserEnablesInv, UserExitsInv, SuspendMovesInv, AsideDecon DEF Request
<1>7. ASSUME SendEvent \/ VblankOff \/ TimerFires \/ CameraStops \/ RuntimeSuspend \/ UNCHANGED vars PROVE DeconInv'
  BY <1>7, SendEventInv, VblankOffInv, AloneInv, AsideDecon
<1> QED BY <1>5, <1>6, <1>7 DEF Next

LEMMA DeconIsSound == Base /\ DeconInv => DeconSound
<1> SUFFICES ASSUME Base, DeconInv PROVE DeconSound
  OBVIOUS
<1> USE DEF Base
<1>1. One(Reference) \in Nat /\ One(Voting) \in Nat /\ pm = One(Reference) + One(Voting)
  BY DEF One, PowerInv
<1>2. FrameHitsRunningDecon
  <2> SUFFICES ASSUME NEW t \in Thread, pc[t] \in {"tFlush", "tFlip"}, tail.new.active
               PROVE  decon = "ON" /\ powered /\ pm > 0
    BY DEF FrameHitsRunningDecon
  <2>1. \A u \in Thread : Live(u) => u = t
    BY DEF SerialInv, Live, LivePcs, Late
  <2>2. ~AtEarly /\ ~AtDown /\ ~AtState /\ ~AtEnable /\ ~Pending
    BY <2>1 DEF AtEarly, AtDown, AtState, AtEnable, Live, LivePcs, Early, Down, Late, SerialInv
  <2>3. decon = "ON" /\ Reference
    BY <2>2 DEF DeconInv, Shown, Waiting, Agrees, Reference
  <2>4. One(Reference) = 1 /\ powered
    BY <2>3 DEF One, PowerInv
  <2>5. pm > 0
    BY <1>1, <2>4
  <2> HIDE DEF Base
  <2> QED BY <2>3, <2>4, <2>5
<1>3. StateAgrees
  <2> SUFFICES ASSUME ~tail.live
               PROVE  /\ crtc.active <=> decon = "ON"
                      /\ crtc.sr <=> decon = "HIBERNATION"
                      /\ pm = IF decon \in {"ON", "HANDOVER"} THEN 1 ELSE 0
    BY DEF StateAgrees
  <2>1. ~Pending /\ \A u \in Thread : ~Live(u) /\ ~vote[u]
    BY DEF SerialInv, ThreadInv, OwnInv, Live, LivePcs
  <2>2. ~AtEarly /\ ~AtDown /\ ~AtState /\ ~AtEnable /\ ~Voting
    BY <2>1 DEF AtEarly, AtDown, AtState, AtEnable, Voting, Live, LivePcs, Down
  <2>3. Agrees(crtc)
    BY <2>1, <2>2 DEF DeconInv, Shown, Waiting, ActiveInv
  <2>4. One(Voting) = 0 /\ One(Reference) = IF decon \in {"ON", "HANDOVER"} THEN 1 ELSE 0
    BY <2>2 DEF One, Reference
  <2> QED BY <1>1, <2>3, <2>4 DEF Agrees
<1>4. ResumeFromSelfRefreshOnly
  <2> SUFFICES ASSUME NEW t \in Thread, pc[t] = "tEnable", WillEnable, decon = "HIBERNATION"
               PROVE  tail.old.sr /\ ~tail.mode
    BY DEF ResumeFromSelfRefreshOnly
  <2>1. AtEnable
    BY DEF AtEnable
  <2> QED BY <2>1 DEF DeconInv, ToEnable, WillEnable
<1> QED BY <1>2, <1>3, <1>4 DEF DeconSound

(* Where ACTIVE is only cleared to disable the display, DECON runs, has      *)
(* power and holds its runtime-PM reference exactly when the CRTC says so,   *)
(* a frame never reaches a DECON in another state, and DECON leaves          *)
(* hibernation only after a self refresh.                                    *)
THEOREM DeconFollows == ASSUME ~ActiveOnly PROVE Spec => []DeconSound
<1> DEFINE IInv == Base /\ DeconInv
<1>1. Init => IInv
  BY InitBase, InitDecon
<1>2. IInv /\ [Next]_vars => IInv'
  BY NextBase, NextDecon
<1>3. IInv => DeconSound
  BY DeconIsSound
<1> HIDE DEF IInv
<1> QED BY <1>1, <1>2, <1>3, PTL DEF Spec

-----------------------------------------------------------------------------
(* The hibernation lock is held by whoever runs the entry *)

Runs(t) == pc[t] \in {"hCheck", "hDone"} \/ (InCommit(t) /\ back[t] = "hDone")

MutexInv == \A t \in Thread : Runs(t) => mutex = t

(* A step of t that neither takes nor leaves the entry. *)
Alone(t) == \A u \in Thread : u # t => pc'[u] = pc[u] /\ back'[u] = back[u]
Keeps(t) == Alone(t) /\ mutex' = mutex /\ (Runs(t)' => Runs(t))

LEMMA KeepsMutex == ASSUME MutexInv, NEW t \in Thread, Keeps(t) PROVE MutexInv'
BY DEF MutexInv, Keeps, Alone, Runs, InCommit

LEMMA CommitKeeps == ASSUME TypeOK, NEW t \in Thread, CommitSteps(t) PROVE Keeps(t)
<1>1. CASE CommitRefused(t) \/ CommitBusy(t)
  BY <1>1 DEF TypeOK, CommitRefused, CommitBusy, Leave, hibVars, Keeps, Alone, Runs, InCommit, TailPcs
<1>2. CASE CommitCheck(t)
  BY <1>2 DEF TypeOK, CommitCheck, Goto, Keeps, Alone, Runs, InCommit, TailPcs
<1>3. CASE CommitInline(t)
  BY <1>3 DEF TypeOK, CommitInline, Goto, hibVars, Keeps, Alone, Runs, InCommit, TailPcs
<1>4. CASE CommitQueue(t)
  BY <1>4 DEF TypeOK, CommitQueue, Goto, Keeps, Alone, Runs, InCommit, TailPcs
<1> QED BY <1>1, <1>2, <1>3, <1>4 DEF CommitSteps

LEMMA TailKeeps == ASSUME TypeOK, NEW t \in Thread, Tail1(t) PROVE Keeps(t)
<1> DEFINE to == pc'[t]
<1>1. UNCHANGED <<mutex, back>>
  BY DEF Tail1, TailBlock, TailNoDisable, TailDisable, DeconStop, DeconStopped, DeconAlreadyStopped, CrtcDown, TailNoEnable,
         TailEnable, TailFlush, TailFlipDone, TailHwDone, TailUnblock, TailRearm, TailUnchanged
<1>2. /\ pc' = [pc EXCEPT ![t] = to] /\ pc[t] \in {"tBlock"} \cup TailPcs
      /\ to \in TailPcs \/ to = back[t]
  BY DEF TypeOK, TailPcs, Tail1, TailBlock, TailNoDisable, TailDisable, DeconStop, DeconStopped, DeconAlreadyStopped, CrtcDown,
         TailNoEnable, TailEnable, TailFlush, TailFlipDone, TailHwDone, TailUnblock, TailRearm, Goto, Leave
<1>3. Alone(t)
  BY <1>1, <1>2 DEF TypeOK, Alone
<1>4. Runs(t)' => Runs(t)
  BY <1>1, <1>2 DEF TypeOK, Runs, InCommit, TailPcs
<1> QED BY <1>1, <1>3, <1>4 DEF Keeps

LEMMA ExitKeeps ==
  ASSUME TypeOK, NEW t \in Thread, ExitSteps(t) \/ UserPutsVblank(t) PROVE Keeps(t)
<1>1. CASE ExitBlocks(t)
  BY <1>1 DEF TypeOK, ExitBlocks, ExitUnchanged, Goto, Keeps, Alone, Runs, InCommit, TailPcs
<1>2. CASE ExitCancels(t) \/ ExitUnblocks(t)
  BY <1>2 DEF TypeOK, ExitCancels, ExitUnblocks, ExitUnchanged, Goto, Keeps, Alone, Runs, InCommit, TailPcs
<1>3. CASE ExitCancelled(t)
  BY <1>3 DEF TypeOK, ExitCancelled, Submit, ExitUnchanged, Goto, Keeps, Alone, Runs, InCommit, TailPcs
<1>4. CASE ExitRearms(t)
  BY <1>4 DEF TypeOK, ExitRearms, Goto, Keeps, Alone, Runs, InCommit, TailPcs
<1>5. CASE UserPutsVblank(t)
  BY <1>5 DEF TypeOK, UserPutsVblank, hibVars, Goto, Keeps, Alone, Runs, InCommit, TailPcs
<1> QED BY <1>1, <1>2, <1>3, <1>4, <1>5 DEF ExitSteps

LEMMA RequestKeeps ==
  ASSUME TypeOK, Request PROVE \E t \in Thread : Keeps(t)
<1>1. ASSUME NEW t \in User, NEW k \in UserKinds, NEW nb \in BOOLEAN, UserCommit(t, k, nb) PROVE Keeps(t) /\ t \in Thread
  BY <1>1 DEF TypeOK, UserCommit, Requesting, Submit, Goto, hibVars, Keeps, Alone, Runs, InCommit, TailPcs, Thread
<1>2. ASSUME NEW t \in User, UserGetsVblank(t) \/ UserEnables(t) PROVE Keeps(t) /\ t \in Thread
  BY <1>2 DEF TypeOK, UserGetsVblank, UserEnables, Requesting, Goto, Keeps, Alone, Runs, InCommit, TailPcs, Thread
<1>3. ASSUME NEW t \in User, NEW o \in {"wakeup", "disable"}, UserExits(t, o) PROVE Keeps(t) /\ t \in Thread
  BY <1>3 DEF TypeOK, UserExits, Requesting, Goto, hibVars, Keeps, Alone, Runs, InCommit, TailPcs, Thread
<1>4. ASSUME SuspendStarts PROVE Keeps(Suspender) /\ Suspender \in Thread
  BY <1>4 DEF TypeOK, SuspendStarts, SuspendUnchanged, Requesting, Goto, Keeps, Alone, Runs, InCommit, TailPcs, Thread
<1> QED BY <1>1, <1>2, <1>3, <1>4 DEF Request

LEMMA SuspendKeeps == ASSUME TypeOK, SuspendSteps PROVE Keeps(Suspender)
<1>1. /\ UNCHANGED <<mutex, back>> /\ pc' = [pc EXCEPT ![Suspender] = pc'[Suspender]] /\ Suspender \in Thread
      /\ pc'[Suspender] \in {"sWait", "sFlush", "sCheck", "hLock", "sDone", "idle"}
  BY DEF TypeOK, SuspendSteps, SuspendCancels, SuspendCancelled, SuspendFlushed, SuspendChecks, SuspendEnds,
         SuspendUnchanged, Goto, Thread
<1> QED BY <1>1 DEF TypeOK, Keeps, Alone, Runs, InCommit, TailPcs

LEMMA WorkerKeeps == ASSUME TypeOK, WorkerTakesHibernation \/ WorkerTakesCommit PROVE Keeps(Worker)
<1>1. /\ mutex' = mutex /\ back' = [back EXCEPT ![Worker] = "idle"] /\ Worker \in Thread
      /\ pc' = [pc EXCEPT ![Worker] = pc'[Worker]] /\ pc'[Worker] \in {"hLock", "tBlock"}
  BY DEF TypeOK, WorkerTakesHibernation, WorkerTakesCommit, WorkerTakes, Goto, Thread
<1> QED BY <1>1 DEF TypeOK, Keeps, Alone, Runs, InCommit, TailPcs

LEMMA RunMutex == ASSUME TypeOK, MutexInv, NEW t \in Thread, RunSteps(t) PROVE MutexInv' /\ Alone(t)
<1>1. CASE RunLock(t)
  <2>1. Alone(t) /\ mutex = NoThread /\ mutex' = t /\ pc[t] = "hLock"
    BY <1>1 DEF TypeOK, RunLock, Goto, Alone
  <2>2. \A u \in Thread : u # t => ~Runs(u) /\ ~Runs(u)'
    BY <2>1, HibernationAssumption DEF MutexInv, Alone, Runs, InCommit
  <2> QED BY <2>1, <2>2 DEF MutexInv
<1>2. CASE RunBlocked(t) \/ RunAgain(t) \/ RunDone(t)
  <2>1. Alone(t) /\ Runs(t) /\ pc'[t] \in {"idle", "sDone"}
    BY <1>2 DEF TypeOK, RunBlocked, RunAgain, RunDone, RunEnds, Goto, Alone, Runs
  <2>2. \A u \in Thread : u # t => ~Runs(u) /\ ~Runs(u)'
    BY <2>1 DEF MutexInv, Alone, Runs, InCommit
  <2>3. ~Runs(t)'
    BY <2>1 DEF Runs, InCommit, TailPcs
  <2> QED BY <2>1, <2>2, <2>3 DEF MutexInv
<1>3. CASE RunEnter(t)
  <2>1. Keeps(t)
    BY <1>3 DEF TypeOK, RunEnter, Submit, Goto, Keeps, Alone, Runs
  <2> QED BY <2>1, KeepsMutex DEF Keeps
<1> QED BY <1>1, <1>2, <1>3 DEF RunSteps

LEMMA NextMutex == TypeOK /\ MutexInv /\ [Next]_vars => MutexInv'
<1> SUFFICES ASSUME TypeOK, MutexInv, [Next]_vars PROVE MutexInv'
  OBVIOUS
<1>1. ASSUME NEW t \in Thread, Progress(t) PROVE MutexInv'
  BY <1>1, CommitKeeps, TailKeeps, ExitKeeps, SuspendKeeps, WorkerKeeps, RunMutex, KeepsMutex DEF Progress
<1>2. ASSUME Request PROVE MutexInv'
  BY <1>2, RequestKeeps, KeepsMutex
<1>3. ASSUME SendEvent \/ VblankOff \/ TimerFires \/ CameraStops \/ RuntimeSuspend \/ UNCHANGED vars PROVE MutexInv'
  <2>1. UNCHANGED <<mutex, pc, back>>
    BY <1>3 DEF SendEvent, VblankOff, TimerFires, CameraStops, RuntimeSuspend, vars, hibVars, thVars
  <2> QED BY <2>1 DEF MutexInv, Runs, InCommit
<1> QED BY <1>1, <1>2, <1>3 DEF Next

-----------------------------------------------------------------------------
(* A system suspend, if the timer does not expire inside it *)

(* Suspend has flushed the worker and has not swapped its commit.            *)
Flushed == {"sCheck", "hLock", "hCheck", "lock", "swap"}
(* Suspend's commit to self refresh is on its way.                           *)
Entered == {"tBlock", "hDone"} \cup TailPcs

SuspendInv ==
  LET s == Suspender IN
  /\ pc[s] # "idle" => \A t \in User : pc[t] \in {"idle", "holdsVblank"}
  /\ pc[s] \in Flushed => pc[Worker] = "idle" /\ queue = <<>> /\ ~tail.live
  /\ pc[s] \in {"lock", "swap"} => kind[s] = "enter" /\ ~nonblock[s] /\ back[s] = "hDone" /\ tail.new.active
  /\ pc[s] \in Entered => pc[Worker] \in {"idle", "hLock"} /\ tail.new.sr /\ (pc[s] # "hDone" => back[s] = "hDone")
  /\ pc[s] \in {"tUnblock", "tRearm", "hDone"} => ~tail.live
  /\ pc[s] = "sDone" /\ result = "ok" => pc[Worker] \in {"idle", "hLock", "hCheck"} /\ ~tail.live /\ ~tail.new.active

LEMMA Threads == Suspender \in Thread /\ Worker \in Thread /\ User \subseteq Thread
                 /\ Suspender # Worker /\ Suspender \notin User /\ Worker \notin User
BY HibernationAssumption DEF Thread

LEMMA NotSuspending == ASSUME pc'[Suspender] = "idle" PROVE SuspendInv'
BY DEF SuspendInv, Flushed, Entered, TailPcs

(* What is left to show of a step of somebody else. *)
LEMMA OthersSuspend ==
  ASSUME SuspendInv, pc'[Suspender] = pc[Suspender], back'[Suspender] = back[Suspender],
         kind'[Suspender] = kind[Suspender], nonblock'[Suspender] = nonblock[Suspender], result' = result,
         tail'.new = tail.new, tail'.live => tail.live,
         pc[Suspender] # "idle" => \A t \in User : pc'[t] \in {"idle", "holdsVblank"},
         pc[Suspender] \in Flushed => pc'[Worker] = "idle" /\ queue' = <<>>,
         pc[Suspender] \in Entered => pc'[Worker] \in {"idle", "hLock"},
         pc[Suspender] = "sDone" /\ result = "ok" => pc'[Worker] \in {"idle", "hLock", "hCheck"}
  PROVE  SuspendInv'
BY DEF SuspendInv

LEMMA EmptyQueue == ASSUME queue = <<>> PROVE Unqueued = <<>> /\ (Delayed => queue' = <<>>)
<1>1. ~\E i \in 1 .. Len(queue) : queue[i] = "dwork"
  OBVIOUS
<1>2. Unqueued = queue
  BY <1>1 DEF Unqueued, RemoveFirst
<1> QED BY <1>2 DEF Delayed

LEMMA NobodySuspends ==
  ASSUME ~TimerRaces, Base, SuspendInv,
         SendEvent \/ VblankOff \/ TimerFires \/ CameraStops \/ RuntimeSuspend \/ UNCHANGED vars
  PROVE  SuspendInv'
<1>1. UNCHANGED <<pc, back, kind, nonblock, result>>
  BY DEF SendEvent, VblankOff, TimerFires, CameraStops, RuntimeSuspend, vars, thVars
<1>2. tail'.new = tail.new /\ (tail'.live => tail.live)
  BY SendEventInv, VblankOffInv, AloneInv DEF Aside
<1>3. ASSUME pc[Suspender] \in Flushed PROVE queue' = <<>>
  <2>1. queue = <<>>
    BY <1>3 DEF SuspendInv
  <2>2. UNCHANGED queue \/ Delayed
    BY <1>3, IsDelayed DEF SendEvent, VblankOff, TimerFires, CameraStops, RuntimeSuspend, vars, hibVars, Flushed
  <2> QED BY <2>1, <2>2, EmptyQueue
<1> QED BY <1>1, <1>2, <1>3, OthersSuspend DEF SuspendInv

(* Where a step starts. *)
LEMMA StepFrom ==
  ASSUME NEW t \in Thread
  PROVE  /\ CommitSteps(t) => pc[t] \in {"lock", "swap"}
         /\ Tail1(t) => pc[t] \in {"tBlock"} \cup TailPcs
         /\ RunSteps(t) => pc[t] \in {"hLock", "hCheck", "hDone"}
         /\ ExitSteps(t) => pc[t] \in {"xBlock", "xCancel", "xWait", "xUnblock", "xRearm"}
         /\ SuspendSteps => pc[Suspender] \in {"sCancel", "sWait", "sFlush", "sCheck", "sDone"}
         /\ WorkerTakesHibernation \/ WorkerTakesCommit => pc[Worker] = "idle" /\ queue # <<>>
         /\ Request => pc[Suspender] = "idle"
<1>1. CommitSteps(t) => pc[t] \in {"lock", "swap"}
  BY DEF CommitSteps, CommitRefused, CommitBusy, CommitCheck, CommitInline, CommitQueue, Goto
<1>2. Tail1(t) => pc[t] \in {"tBlock"} \cup TailPcs
  BY DEF TailPcs, Tail1, TailBlock, TailNoDisable, TailDisable, DeconStop, DeconStopped, DeconAlreadyStopped, CrtcDown,
         TailNoEnable, TailEnable, TailFlush, TailFlipDone, TailHwDone, TailUnblock, TailRearm, Goto
<1>3. RunSteps(t) => pc[t] \in {"hLock", "hCheck", "hDone"}
  BY DEF RunSteps, RunLock, RunBlocked, RunAgain, RunEnter, RunDone, RunEnds, Submit, Goto
<1>4. ExitSteps(t) => pc[t] \in {"xBlock", "xCancel", "xWait", "xUnblock", "xRearm"}
  BY DEF ExitSteps, ExitBlocks, ExitCancels, ExitCancelled, ExitUnblocks, ExitRearms, Goto
<1>5. SuspendSteps => pc[Suspender] \in {"sCancel", "sWait", "sFlush", "sCheck", "sDone"}
  BY DEF SuspendSteps, SuspendCancels, SuspendCancelled, SuspendFlushed, SuspendChecks, SuspendEnds, Goto
<1>6. WorkerTakesHibernation \/ WorkerTakesCommit => pc[Worker] = "idle" /\ queue # <<>>
  BY DEF WorkerTakesHibernation, WorkerTakesCommit, WorkerTakes, Goto
<1>7. Request => pc[Suspender] = "idle"
  BY DEF Request, UserCommit, UserGetsVblank, UserEnables, UserExits, SuspendStarts, Requesting
<1> QED BY <1>1, <1>2, <1>3, <1>4, <1>5, <1>6, <1>7

(* User threads are frozen. *)
LEMMA UserSuspends ==
  ASSUME Base, SuspendInv, NEW t \in User, CommitSteps(t) \/ Tail1(t) \/ ExitSteps(t) \/ UserPutsVblank(t)
  PROVE  SuspendInv'
<1>1. Alone(t) /\ pc'[Suspender] = pc[Suspender]
  BY CommitKeeps, TailKeeps, ExitKeeps, Threads DEF Base, Keeps, Alone
<1>2. CASE pc[Suspender] = "idle"
  BY <1>1, <1>2, NotSuspending
<1>3. CASE pc[Suspender] # "idle"
  <2>1. UserPutsVblank(t)
    BY <1>3, StepFrom, Threads DEF SuspendInv, TailPcs
  <2>2. UNCHANGED <<back, kind, nonblock, result, tail, queue>> /\ pc'[t] = "idle"
    BY <2>1, Threads DEF UserPutsVblank, Goto, swVars, hibVars, Base, TypeOK
  <2> QED BY <1>1, <1>3, <2>2, Threads, OthersSuspend DEF SuspendInv, Alone
<1> QED BY <1>2, <1>3

LEMMA RequestSuspends == ASSUME Base, SuspendInv, Request PROVE SuspendInv'
<1>1. pc[Suspender] = "idle"
  BY StepFrom, Threads
<1>2. CASE SuspendStarts
  <2>1. pc' = [pc EXCEPT ![Suspender] = "sCancel"] /\ \A t \in User : pc[t] \in {"idle", "holdsVblank"}
    BY <1>2 DEF SuspendStarts, Goto
  <2>2. pc'[Suspender] = "sCancel" /\ \A t \in User : pc'[t] \in {"idle", "holdsVblank"}
    BY <2>1, Threads DEF Base, TypeOK
  <2> QED BY <2>2 DEF SuspendInv, Flushed, Entered, TailPcs
<1>3. CASE ~SuspendStarts
  <2>1. PICK t \in User : pc' = [pc EXCEPT ![t] = pc'[t]]
    BY <1>3 DEF Request, UserCommit, UserGetsVblank, UserEnables, UserExits, Submit, Goto, Base, TypeOK, Thread
  <2>2. pc'[Suspender] = "idle"
    BY <1>1, <2>1, Threads DEF Base, TypeOK
  <2> QED BY <2>2, NotSuspending
<1> QED BY <1>2, <1>3

(* Between two commits DECON runs exactly for an active CRTC.                *)
LEMMA DarkDecon == ASSUME Base, DeconInv, ~tail.live PROVE decon = "ON" <=> tail.new.active
BY DeconIsSound DEF DeconSound, StateAgrees, Base, ActiveInv

LEMMA NoCommitToTake ==
  ASSUME Base, WorkerTakesCommit PROVE tail.live /\ \A t \in Thread : ~Live(t)
<1>1. queue # <<>> /\ Head(queue) = "commit"
  BY DEF WorkerTakesCommit, WorkerTakes
<1>2. Pending
  BY <1>1, HeadItem DEF Base, QueueInv, Pending
<1> QED BY <1>2 DEF Base, SerialInv

(* The worker has nothing to do from the flush until suspend has swapped its *)
(* commit; after that it stops at the hibernation lock, then finds DECON     *)
(* dark.                                                                     *)
LEMMA WorkerSuspends ==
  ASSUME Base, DeconInv, MutexInv, SuspendInv, Progress(Worker) PROVE SuspendInv'
<1> DEFINE w == Worker
           s == Suspender
<1>1. CommitSteps(w) \/ Tail1(w) \/ RunSteps(w) \/ WorkerTakesHibernation \/ WorkerTakesCommit
  BY Threads DEF Progress
<1>2. Alone(w)
  BY <1>1, CommitKeeps, TailKeeps, WorkerKeeps, RunMutex, Threads DEF Base, Keeps
<1>3. pc'[s] = pc[s] /\ back'[s] = back[s] /\ \A t \in User : pc'[t] = pc[t]
  BY <1>2, Threads DEF Alone
<1>4. CASE pc[s] = "idle"
  BY <1>3, <1>4, NotSuspending
<1>5. CASE pc[s] \in Flushed
  BY <1>1, <1>5, StepFrom, Threads DEF SuspendInv, TailPcs
<1>6. CASE pc[s] \in Entered
  <2>1. pc[w] \in {"idle", "hLock"} /\ Runs(s) /\ mutex = s
    BY <1>6, Threads DEF SuspendInv, Entered, Runs, InCommit, MutexInv
  <2>2. ~WorkerTakesCommit
    <3>1. Live(s) \/ pc[s] \in {"tUnblock", "tRearm", "hDone"}
      BY <1>6 DEF Entered, TailPcs, Live, LivePcs, Early, Down, Late
    <3> QED BY <3>1, NoCommitToTake, Threads DEF SuspendInv
  <2>3. ~RunSteps(w)
    BY <2>1, StepFrom, Threads, HibernationAssumption DEF RunSteps, RunLock, RunBlocked, RunAgain, RunEnter, RunDone, RunEnds, Submit, Goto
  <2>4. WorkerTakesHibernation
    BY <1>1, <2>1, <2>2, <2>3, StepFrom, Threads DEF TailPcs
  <2>5. pc'[w] = "hLock" /\ UNCHANGED <<kind, nonblock, result, tail>>
    BY <2>4, Threads DEF WorkerTakesHibernation, WorkerTakes, Goto, Base, TypeOK, swVars
  <2> QED BY <1>3, <1>6, <2>5, OthersSuspend DEF SuspendInv, Entered, Flushed, TailPcs
<1>7. CASE pc[s] = "sDone" /\ result = "ok"
  <2>1. pc[w] \in {"idle", "hLock", "hCheck"} /\ ~tail.live /\ ~tail.new.active
    BY <1>7 DEF SuspendInv
  <2>2. decon # "ON" /\ ~WorkerTakesCommit
    BY <2>1, DarkDecon, NoCommitToTake
  <2>3. WorkerTakesHibernation \/ RunLock(w) \/ RunBlocked(w)
    BY <1>1, <2>1, <2>2, StepFrom, Threads DEF TailPcs, RunSteps, RunAgain, RunEnter, IsBlocked, RunDone, RunEnds, Goto
  <2>4. pc'[w] \in {"idle", "hLock", "hCheck"} /\ UNCHANGED <<kind, nonblock, result, tail>>
    BY <2>3, Threads DEF WorkerTakesHibernation, WorkerTakes, RunLock, RunBlocked, RunEnds, Goto, Base, TypeOK, swVars
  <2> QED BY <1>3, <1>7, <2>1, <2>4, OthersSuspend DEF SuspendInv, Flushed, Entered, TailPcs
<1>8. CASE pc[s] # "idle" /\ pc[s] \notin Flushed \cup Entered /\ ~(pc[s] = "sDone" /\ result = "ok")
  <2>1. result' = result
    BY <1>1, <1>8 DEF CommitSteps, CommitRefused, CommitBusy, CommitCheck, CommitInline, CommitQueue,
         Tail1, TailBlock, TailNoDisable, TailDisable, DeconStop, DeconStopped, DeconAlreadyStopped, CrtcDown,
         TailNoEnable, TailEnable, TailFlush, TailFlipDone, TailHwDone, TailUnblock, TailRearm, TailUnchanged,
         RunSteps, RunLock, RunBlocked, RunAgain, RunEnter, RunDone, RunEnds,
         WorkerTakesHibernation, WorkerTakesCommit, WorkerTakes
  <2> QED BY <1>3, <1>8, <2>1 DEF SuspendInv, Flushed, Entered, TailPcs
<1> QED BY <1>4, <1>5, <1>6, <1>7, <1>8

(* A step of suspend leaves the other threads where they are.                *)
LEMMA SelfMoves ==
  ASSUME TypeOK, SuspendInv, pc[Suspender] # "idle", Alone(Suspender)
  PROVE  pc'[Worker] = pc[Worker] /\ \A t \in User : pc'[t] \in {"idle", "holdsVblank"}
BY Threads DEF Alone, SuspendInv

(* Cancelling, flushing and checking.                                        *)
LEMMA SelfFlushes ==
  ASSUME Base, SuspendInv, SuspendSteps PROVE SuspendInv'
<1> DEFINE s == Suspender
<1>0. Alone(s) /\ pc[s] # "idle"
  BY SuspendKeeps, StepFrom, Threads DEF Keeps, Base
<1>1. pc'[Worker] = pc[Worker] /\ \A t \in User : pc'[t] \in {"idle", "holdsVblank"}
  BY <1>0, SelfMoves DEF Base
<1>2. CASE SuspendCancels \/ SuspendCancelled
  <2>1. pc'[s] \in {"sWait", "sFlush"}
    BY <1>2, Threads DEF SuspendCancels, SuspendCancelled, Goto, Base, TypeOK
  <2> QED BY <1>1, <2>1 DEF SuspendInv, Flushed, Entered, TailPcs
<1>3. CASE SuspendFlushed
  <2>1. pc'[s] = "sCheck" /\ pc[s] = "sFlush" /\ queue = <<>> /\ queue' = <<>> /\ pc[Worker] = "idle" /\ tail' = tail
    BY <1>3, Threads DEF SuspendFlushed, SuspendUnchanged, swVars, Goto, Base, TypeOK
  <2>2. \A t \in Thread : ~Live(t)
    BY <2>1, Threads DEF Thread, SuspendInv, Live, LivePcs, Early, Down, Late
  <2>3. ~Pending
    BY <2>1 DEF Pending, Has
  <2>4. ~tail.live
    BY <2>2, <2>3 DEF Base, SerialInv
  <2> QED BY <1>1, <2>1, <2>4 DEF SuspendInv, Flushed, Entered, TailPcs
<1>4. CASE SuspendChecks
  <2>1. /\ pc'[s] = "hLock" \/ (pc'[s] = "sDone" /\ result' = "busy")
        /\ pc[s] = "sCheck" /\ UNCHANGED <<queue, tail>>
    BY <1>4, Threads DEF SuspendChecks, SuspendUnchanged, swVars, Goto, Base, TypeOK
  <2>2. pc[Worker] = "idle" /\ queue = <<>> /\ ~tail.live
    BY <2>1 DEF SuspendInv, Flushed
  <2> QED BY <1>1, <2>1, <2>2 DEF SuspendInv, Flushed, Entered, TailPcs
<1>5. CASE SuspendEnds
  BY <1>5, NotSuspending, Threads DEF SuspendEnds, Goto, Base, TypeOK
<1> QED BY <1>2, <1>3, <1>4, <1>5 DEF SuspendSteps

(* _exynos_hibernation_run: success without an entry means DECON is dark.    *)
LEMMA SelfRuns ==
  ASSUME Base, DeconInv, MutexInv, SuspendInv, RunSteps(Suspender) PROVE SuspendInv'
<1> DEFINE s == Suspender
<1>0. Alone(s) /\ pc[s] \in {"hLock", "hCheck", "hDone"} /\ s # Worker /\ s \in Thread
  BY RunMutex, StepFrom, Threads DEF Base
<1>1. pc'[Worker] = pc[Worker] /\ \A t \in User : pc'[t] \in {"idle", "holdsVblank"}
  BY <1>0, SelfMoves DEF Base
<1>2. tail' = tail
  BY DEF RunSteps, RunLock, RunBlocked, RunAgain, RunEnter, RunDone, RunEnds, swVars
<1>3. CASE pc[s] \in {"hLock", "hCheck"}
  <2>1. pc[Worker] = "idle" /\ queue = <<>> /\ ~tail.live
    BY <1>3 DEF SuspendInv, Flushed
  <2>2. decon = "ON" <=> tail.new.active
    BY <2>1, DarkDecon
  <2>3. CASE RunLock(s)
    <3>1. pc'[s] = "hCheck" /\ queue' = queue
      BY <1>0, <2>3 DEF RunLock, Goto, Base, TypeOK
    <3> QED BY <1>1, <1>2, <2>1, <3>1 DEF SuspendInv, Flushed, Entered, TailPcs
  <2>4. CASE RunBlocked(s)
    <3>1. pc'[s] = "sDone" /\ (result' = "ok" => decon # "ON")
      BY <1>0, <2>4 DEF RunBlocked, RunEnds, Goto, Base, TypeOK
    <3> QED BY <1>1, <1>2, <2>1, <2>2, <3>1 DEF SuspendInv, Flushed, Entered, TailPcs
  <2>5. CASE RunAgain(s)
    <3>1. pc'[s] = "sDone" /\ result' = "again"
      BY <1>0, <2>5 DEF RunAgain, RunEnds, Goto, Base, TypeOK
    <3> QED BY <1>1, <3>1 DEF SuspendInv, Flushed, Entered, TailPcs
  <2>6. CASE RunEnter(s)
    <3>1. /\ pc'[s] = "lock" /\ kind'[s] = "enter" /\ nonblock'[s] = FALSE /\ back'[s] = "hDone"
      BY <1>0, <2>6 DEF RunEnter, Submit, Goto, Base, TypeOK
    <3>2. Delayed /\ decon = "ON"
      BY <2>6, IsDelayed DEF RunEnter, Block, IsBlocked
    <3>3. queue' = <<>>
      BY <2>1, <3>2, EmptyQueue
    <3> QED BY <1>1, <1>2, <2>1, <2>2, <3>1, <3>2, <3>3 DEF SuspendInv, Flushed, Entered, TailPcs
  <2> QED BY <1>3, <2>3, <2>4, <2>5, <2>6 DEF RunSteps, RunDone, RunEnds, Goto
<1>4. CASE pc[s] = "hDone"
  <2>1. pc[Worker] \in {"idle", "hLock"} /\ ~tail.live /\ tail.new.sr
    BY <1>4 DEF SuspendInv, Entered
  <2>2. ~tail.new.active
    BY <2>1 DEF Base, ActiveInv
  <2>3. RunDone(s)
    BY <1>4 DEF RunSteps, RunLock, RunBlocked, RunAgain, RunEnter, RunEnds, Submit, Goto
  <2>4. pc'[s] = "sDone"
    BY <1>0, <2>3 DEF RunDone, RunEnds, Goto, Base, TypeOK
  <2> QED BY <1>1, <1>2, <2>1, <2>2, <2>4 DEF SuspendInv, Flushed, Entered, TailPcs
<1> QED BY <1>0, <1>3, <1>4

(* Suspend's commit to self refresh: not refused, not busy, run inline.      *)
LEMMA SelfCommits ==
  ASSUME Base, DeconInv, SuspendInv, CommitSteps(Suspender) PROVE SuspendInv'
<1> DEFINE s == Suspender
<1>0. Alone(s) /\ pc[s] \in {"lock", "swap"} /\ s \in Thread
  BY CommitKeeps, StepFrom, Threads DEF Base, Keeps
<1>1. pc'[Worker] = pc[Worker] /\ \A t \in User : pc'[t] \in {"idle", "holdsVblank"}
  BY <1>0, SelfMoves DEF Base
<1>2. /\ pc[Worker] = "idle" /\ queue = <<>> /\ ~tail.live
      /\ kind[s] = "enter" /\ ~nonblock[s] /\ back[s] = "hDone" /\ tail.new.active
  BY <1>0 DEF SuspendInv, Flushed
<1>3. crtc = tail.new /\ crtc.active /\ crtc.enable
  BY <1>2 DEF Base, ActiveInv, DeconInv, Proper
<1>4. ~CommitRefused(s)
  BY <1>2, <1>3 DEF CommitRefused, Refused
<1>5. ~CommitBusy(s) /\ ~CommitQueue(s)
  BY <1>2 DEF CommitBusy, Busy, CommitQueue
<1>6. CASE CommitCheck(s)
  <2>1. pc'[s] = "swap" /\ UNCHANGED <<kind, nonblock, back, tail>>
    BY <1>0, <1>6 DEF CommitCheck, Goto, Base, TypeOK
  <2>2. queue' = <<>>
    BY <1>2, <1>6, IsDelayed, EmptyQueue DEF CommitCheck
  <2> QED BY <1>1, <1>2, <2>1, <2>2 DEF SuspendInv, Flushed, Entered, TailPcs
<1>7. CASE CommitInline(s)
  <2>1. pc'[s] = "tBlock" /\ back' = back /\ tail'.new = new[s] /\ pc[s] = "swap"
    BY <1>0, <1>7 DEF CommitInline, SwapState, Goto, Base, TypeOK
  <2>2. new[s] = Wanted("enter")
    BY <1>0, <1>2, <2>1 DEF Base, ThreadInv, OwnInv
  <2>3. Wanted("enter").sr
    BY DEF Wanted, Duplicated, Base, TypeOK, CrtcState
  <2> QED BY <1>1, <1>2, <2>1, <2>2, <2>3 DEF SuspendInv, Flushed, Entered, TailPcs
<1> QED BY <1>4, <1>5, <1>6, <1>7 DEF CommitSteps

LEMMA SelfTails ==
  ASSUME Base, SuspendInv, Tail1(Suspender) PROVE SuspendInv'
<1> DEFINE s == Suspender
<1>0. Alone(s) /\ pc[s] \in {"tBlock"} \cup TailPcs /\ s \in Thread
  BY TailKeeps, StepFrom, Threads DEF Base, Keeps
<1>1. pc'[Worker] = pc[Worker] /\ \A t \in User : pc'[t] \in {"idle", "holdsVblank"}
  BY <1>0, SelfMoves DEF Base, TailPcs
<1>2. pc[Worker] \in {"idle", "hLock"} /\ tail.new.sr /\ back[s] = "hDone"
  BY <1>0 DEF SuspendInv, Entered, TailPcs
<1>3. tail'.new = tail.new /\ (tail'.live => tail.live) /\ back' = back
  BY DEF Tail1, TailBlock, TailNoDisable, TailDisable, DeconStop, DeconStopped, DeconAlreadyStopped, CrtcDown,
         TailNoEnable, TailEnable, TailFlush, TailFlipDone, TailHwDone, TailUnblock, TailRearm, TailUnchanged, Base, TypeOK, Commit
<1>4. CASE TailHwDone(s)
  <2>1. pc'[s] = "tUnblock" /\ tail'.live = FALSE
    BY <1>0, <1>4 DEF TailHwDone, Goto, Base, TypeOK, Commit
  <2> QED BY <1>1, <1>2, <1>3, <2>1 DEF SuspendInv, Flushed, Entered, TailPcs
<1>5. CASE TailUnblock(s) \/ TailRearm(s)
  <2>1. pc'[s] \in {"tRearm", "hDone"} /\ pc[s] \in {"tUnblock", "tRearm"}
    BY <1>0, <1>2, <1>5 DEF TailUnblock, TailRearm, Leave, Goto, Base, TypeOK
  <2>2. ~tail'.live
    BY <1>3, <2>1 DEF SuspendInv
  <2> QED BY <1>1, <1>2, <1>3, <2>1, <2>2 DEF SuspendInv, Flushed, Entered, TailPcs
<1>6. CASE ~TailHwDone(s) /\ ~TailUnblock(s) /\ ~TailRearm(s)
  <2>1. pc'[s] \in TailPcs \ {"tUnblock", "tRearm"}
    BY <1>0, <1>6 DEF Tail1, TailBlock, TailNoDisable, TailDisable, DeconStop, DeconStopped, DeconAlreadyStopped, CrtcDown,
         TailNoEnable, TailEnable, TailFlush, TailFlipDone, Goto, Base, TypeOK, TailPcs
  <2> QED BY <1>1, <1>2, <1>3, <2>1 DEF SuspendInv, Flushed, Entered, TailPcs
<1> QED BY <1>4, <1>5, <1>6

LEMMA NextSuspend ==
  ASSUME ~TimerRaces PROVE Base /\ DeconInv /\ MutexInv /\ SuspendInv /\ [Next]_vars => SuspendInv'
<1> SUFFICES ASSUME Base, DeconInv, MutexInv, SuspendInv, [Next]_vars PROVE SuspendInv'
  OBVIOUS
<1>1. ASSUME NEW t \in User, Progress(t) PROVE SuspendInv'
  BY <1>1, UserSuspends, Threads DEF Progress
<1>2. ASSUME Progress(Worker) PROVE SuspendInv'
  BY <1>2, WorkerSuspends
<1>3. ASSUME Progress(Suspender) PROVE SuspendInv'
  BY <1>3, SelfFlushes, SelfRuns, SelfCommits, SelfTails, Threads DEF Progress
<1>4. ASSUME NEW t \in Thread, Progress(t) PROVE SuspendInv'
  BY <1>1, <1>2, <1>3, <1>4 DEF Thread
<1>5. ASSUME Request PROVE SuspendInv'
  BY <1>5, RequestSuspends
<1>6. ASSUME SendEvent \/ VblankOff \/ TimerFires \/ CameraStops \/ RuntimeSuspend \/ UNCHANGED vars PROVE SuspendInv'
  BY <1>6, NobodySuspends
<1> QED BY <1>4, <1>5, <1>6 DEF Next

LEMMA InitSuspend == Init => MutexInv /\ SuspendInv
<1> SUFFICES ASSUME Init PROVE MutexInv /\ SuspendInv
  OBVIOUS
<1>1. \A t \in Thread : pc[t] = "idle"
  BY DEF Init
<1>2. MutexInv
  BY <1>1 DEF MutexInv, Runs, InCommit, TailPcs
<1>3. SuspendInv
  BY <1>1, Threads DEF SuspendInv, Flushed, Entered, TailPcs
<1> QED BY <1>2, <1>3

(* Where ACTIVE is only cleared to disable the display and the hibernation   *)
(* timer does not expire in the moment between the flush of the worker and   *)
(* the entry, a system suspend that returns success has left DECON off or    *)
(* in hibernation, whatever commits, wakeups and vblanks went before it.     *)
THEOREM SuspendEndsDark == ASSUME ~ActiveOnly, ~TimerRaces PROVE Spec => []SuspendPowersDown
<1> DEFINE IInv == Base /\ DeconInv /\ MutexInv /\ SuspendInv
<1>1. Init => IInv
  BY InitBase, InitDecon, InitSuspend
<1>2. IInv /\ [Next]_vars => IInv'
  <2>1. Base => TypeOK
    BY DEF Base
  <2> QED BY <2>1, NextBase, NextDecon, NextMutex, NextSuspend
<1>3. IInv => SuspendPowersDown
  BY DarkDecon DEF SuspendInv, SuspendPowersDown
<1> HIDE DEF IInv
<1> QED BY <1>1, <1>2, <1>3, PTL DEF Spec

-----------------------------------------------------------------------------
(* No deadlock between the handler and a commit, if no blocking commit       *)
(* starts over a pending one                                                 *)

Committing(t) == pc[t] \in {"lock", "swap"}

(* Who makes which commit. *)
KindInv == \A t \in Thread : Committing(t) =>
  IF t \in User
  THEN /\ kind[t] \in UserKinds \cup {"exit"}
       /\ nonblock[t] => kind[t] \in {"flip", "exit"}
       /\ kind[t] = "exit" <=> back[t] = "xUnblock"
  ELSE kind[t] = "enter" /\ back[t] = "hDone" /\ (nonblock[t] <=> t = Worker)

(* Whoever cancels the hibernation work keeps it away. *)
CancelInv == canceling > 0 => dwork = "idle" /\ ~Has(queue, "dwork")

(* A commit that has not been flushed has no event, and its flip is not done *)
(* unless it leaves an inactive CRTC inactive; none such is ever queued.     *)
PreFlush    == Early \cup Down \cup {"tEnable", "tFlush"}
AtFlip      == \E t \in Thread : pc[t] = "tFlip"
AtUnflushed == \E t \in Thread : pc[t] \in PreFlush
FlipInv ==
  /\ event => AtFlip /\ ~tail.flip
  /\ (Pending \/ AtUnflushed) /\ (tail.old.active \/ tail.new.active) => ~tail.flip
  /\ Pending => tail.old.active \/ tail.new.active
  /\ tail.new.hexit => ~tail.old.active

(* DECON is not ON for a CRTC that is not active. *)
DarkInv ==
  /\ ~AtDown /\ ~AtEnable /\ ~Shown.active => decon # "ON"
  /\ AtDownEnd => decon # "ON"
  /\ AtEnable /\ ~tail.new.active => decon # "ON"

(* Once an entry is queued the handler does not run before it. *)
EntryInv == Pending /\ crtc.sr => pc[Worker] \in {"idle", "hDone"} /\ Head(queue) = "commit"

(* While somebody leaves hibernation the handler does not enter it. *)
ApartInv == \A t \in User : Committing(t) /\ back[t] = "xUnblock" => ~Committing(Worker)
ExitInv  == Pending /\ Committing(Worker) => ~crtc.hexit

(* What a user swaps over a queued commit is one that leaves or enters       *)
(* hibernation.                                                              *)
OverInv == \A t \in User : pc[t] = "swap" /\ Pending => crtc.sr \/ crtc.hexit

StallInv == KindInv /\ CancelInv /\ FlipInv /\ DarkInv /\ EntryInv /\ ApartInv /\ ExitInv /\ OverInv

-----------------------------------------------------------------------------
(* Which steps begin a commit procedure *)

(* A step of t that does not begin one. *)
Steady(t) ==
  /\ \A u \in Thread : u # t => pc'[u] = pc[u] /\ back'[u] = back[u] /\ kind'[u] = kind[u] /\ nonblock'[u] = nonblock[u]
  /\ Committing(t)' => Committing(t) /\ back'[t] = back[t] /\ kind'[t] = kind[t] /\ nonblock'[t] = nonblock[t]
  /\ pc'[t] = "swap" => pc[t] = "swap" \/ CommitCheck(t)

LEMMA SteadyMove ==
  ASSUME TypeOK, NEW t \in Thread, pc' = [pc EXCEPT ![t] = pc'[t]], ~Committing(t)', UNCHANGED <<back, kind, nonblock>>
  PROVE  Steady(t)
BY DEF TypeOK, Steady, Committing

LEMMA CommitSteady == ASSUME TypeOK, NEW t \in Thread, CommitSteps(t) PROVE Steady(t)
<1>1. CASE CommitRefused(t) \/ CommitBusy(t)
  BY <1>1 DEF TypeOK, CommitRefused, CommitBusy, Leave, Steady, Committing
<1>2. CASE CommitCheck(t)
  BY <1>2 DEF TypeOK, CommitCheck, Goto, Steady, Committing
<1>3. CASE CommitInline(t)
  BY <1>3 DEF TypeOK, CommitInline, Goto, Steady, Committing
<1>4. CASE CommitQueue(t)
  BY <1>4 DEF TypeOK, CommitQueue, Goto, Steady, Committing
<1> QED BY <1>1, <1>2, <1>3, <1>4 DEF CommitSteps

LEMMA TailSteady == ASSUME TypeOK, NEW t \in Thread, Tail1(t) PROVE Steady(t)
<1>1. /\ UNCHANGED <<back, kind, nonblock>> /\ pc' = [pc EXCEPT ![t] = pc'[t]]
      /\ pc'[t] \in TailPcs \cup {back[t]}
  BY DEF TypeOK, Tail1, TailBlock, TailNoDisable, TailDisable, DeconStop, DeconStopped, DeconAlreadyStopped, CrtcDown,
         TailNoEnable, TailEnable, TailFlush, TailFlipDone, TailHwDone, TailUnblock, TailRearm, TailUnchanged, Leave, Goto, TailPcs
<1>2. back[t] \in {"idle", "hDone", "xUnblock"}
  BY DEF TypeOK
<1> QED BY <1>1, <1>2, SteadyMove DEF Committing, TailPcs

LEMMA RunSteady == ASSUME TypeOK, NEW t \in Thread, RunSteps(t), ~RunEnter(t) PROVE Steady(t)
<1>1. /\ UNCHANGED <<back, kind, nonblock>> /\ pc' = [pc EXCEPT ![t] = pc'[t]]
      /\ pc'[t] \in {"hCheck", "idle", "sDone"}
  BY DEF TypeOK, RunSteps, RunLock, RunBlocked, RunAgain, RunDone, RunEnds, Goto
<1> QED BY <1>1, SteadyMove DEF Committing

LEMMA ExitSteady ==
  ASSUME TypeOK, NEW t \in Thread, ExitSteps(t) \/ UserPutsVblank(t), ~(ExitCancelled(t) /\ decon = "HIBERNATION")
  PROVE  Steady(t)
<1>1. /\ UNCHANGED <<back, kind, nonblock>> /\ pc' = [pc EXCEPT ![t] = pc'[t]]
      /\ pc'[t] \in {"xCancel", "xUnblock", "xWait", "xRearm", "idle"}
  BY DEF TypeOK, ExitSteps, ExitBlocks, ExitCancels, ExitCancelled, ExitUnblocks, ExitRearms, ExitUnchanged, UserPutsVblank, Goto
<1> QED BY <1>1, SteadyMove DEF Committing

LEMMA SuspendSteady == ASSUME TypeOK, SuspendSteps \/ SuspendStarts PROVE Steady(Suspender)
<1>1. /\ UNCHANGED <<back, kind, nonblock>> /\ pc' = [pc EXCEPT ![Suspender] = pc'[Suspender]] /\ Suspender \in Thread
      /\ pc'[Suspender] \in {"sCancel", "sWait", "sFlush", "sCheck", "hLock", "sDone", "idle"}
  BY DEF TypeOK, SuspendSteps, SuspendStarts, SuspendCancels, SuspendCancelled, SuspendFlushed, SuspendChecks, SuspendEnds,
         SuspendUnchanged, Goto, Thread
<1> QED BY <1>1, SteadyMove DEF Committing

LEMMA WorkerSteady == ASSUME TypeOK, WorkerTakesHibernation \/ WorkerTakesCommit PROVE Steady(Worker)
<1>1. /\ UNCHANGED <<kind, nonblock>> /\ back' = [back EXCEPT ![Worker] = "idle"] /\ Worker \in Thread
      /\ pc' = [pc EXCEPT ![Worker] = pc'[Worker]] /\ pc'[Worker] \in {"hLock", "tBlock"}
  BY DEF TypeOK, WorkerTakesHibernation, WorkerTakesCommit, WorkerTakes, Goto, Thread
<1> QED BY <1>1 DEF TypeOK, Steady, Committing

LEMMA UserSteady ==
  ASSUME TypeOK, NEW t \in User, UserGetsVblank(t) \/ UserEnables(t) \/ \E o \in {"wakeup", "disable"} : UserExits(t, o)
  PROVE  Steady(t)
<1>1. /\ UNCHANGED <<back, kind, nonblock>> /\ pc' = [pc EXCEPT ![t] = pc'[t]] /\ t \in Thread
      /\ pc'[t] \in {"holdsVblank", "xUnblock", "xBlock"}
  BY DEF TypeOK, UserGetsVblank, UserEnables, UserExits, Requesting, Goto, Thread
<1> QED BY <1>1, SteadyMove DEF Committing

(* A step that begins one: a commit of a user, an entry, or the exit of a    *)
(* DECON in hibernation.                                                     *)
Begins(t, k, nb, bk) ==
  /\ pc' = [pc EXCEPT ![t] = "lock"] /\ kind' = [kind EXCEPT ![t] = k]
  /\ nonblock' = [nonblock EXCEPT ![t] = nb] /\ back' = [back EXCEPT ![t] = bk]

(* All threads' steps: by which the commits are those of KindInv.            *)
Begun(t) ==
  \/ t \in User /\ \E k \in UserKinds, nb \in BOOLEAN : (nb => k = "flip") /\ Begins(t, k, nb, "idle")
  \/ t \in User /\ ~InHandler /\ \E nb \in BOOLEAN : Begins(t, "exit", nb, "xUnblock")
  \/ t \in {Worker, Suspender} /\ RunEnter(t) /\ Begins(t, "enter", t = Worker, "hDone")

Idles == UNCHANGED <<pc, back, kind, nonblock>>

LEMMA Moves ==
  ASSUME TypeOK, [Next]_vars
  PROVE  Idles \/ \E t \in Thread : (Steady(t) \/ Begun(t)) /\ (t = Worker => Progress(Worker))
<1>1. ASSUME NEW t \in Thread, Progress(t) PROVE Steady(t) \/ Begun(t)
  <2>1. CASE t \in {Worker, Suspender} /\ RunEnter(t)
    BY <2>1 DEF RunEnter, Submit, Goto, Begun, Begins
  <2>2. CASE t \in User /\ ExitCancelled(t) /\ decon = "HIBERNATION"
    <3>1. ~InHandler /\ Begins(t, "exit", op[t] = "wakeup", "xUnblock")
      BY <2>2 DEF ExitCancelled, Submit, Goto, Begins
    <3> QED BY <2>2, <3>1 DEF Begun
  <2> QED BY <1>1, <2>1, <2>2, CommitSteady, TailSteady, RunSteady, ExitSteady, SuspendSteady, WorkerSteady DEF Progress
<1>2. ASSUME Request PROVE \E t \in Thread : (Steady(t) \/ Begun(t)) /\ t # Worker
  <2>1. ASSUME NEW t \in User, NEW k \in UserKinds, NEW nb \in BOOLEAN, UserCommit(t, k, nb) PROVE Begun(t)
    <3>1. (nb => k = "flip") /\ Begins(t, k, nb, "idle")
      BY <2>1 DEF UserCommit, Submit, Goto, Begins
    <3> QED BY <3>1 DEF Begun
  <2> QED BY <1>2, <2>1, UserSteady, SuspendSteady, Threads DEF Request
<1>3. ASSUME SendEvent \/ VblankOff \/ TimerFires \/ CameraStops \/ RuntimeSuspend \/ UNCHANGED vars PROVE Idles
  BY <1>3 DEF SendEvent, VblankOff, TimerFires, CameraStops, RuntimeSuspend, vars, thVars, Idles
<1> QED BY <1>1, <1>2, <1>3 DEF Next

LEMMA BegunMeans ==
  ASSUME TypeOK, NEW t \in Thread, Begun(t)
  PROVE  /\ \A u \in Thread : u # t => pc'[u] = pc[u] /\ back'[u] = back[u] /\ kind'[u] = kind[u] /\ nonblock'[u] = nonblock[u]
         /\ pc'[t] = "lock"
         /\ t \in User => kind'[t] \in UserKinds \cup {"exit"} /\ (nonblock'[t] => kind'[t] \in {"flip", "exit"})
                          /\ (kind'[t] = "exit" <=> back'[t] = "xUnblock") /\ (back'[t] = "xUnblock" => ~InHandler)
         /\ t \notin User => kind'[t] = "enter" /\ back'[t] = "hDone" /\ (nonblock'[t] <=> t = Worker) /\ RunEnter(t)
<1>1. ASSUME NEW k, NEW nb, NEW bk, Begins(t, k, nb, bk)
      PROVE  /\ \A u \in Thread : u # t => pc'[u] = pc[u] /\ back'[u] = back[u] /\ kind'[u] = kind[u] /\ nonblock'[u] = nonblock[u]
             /\ pc'[t] = "lock" /\ kind'[t] = k /\ nonblock'[t] = nb /\ back'[t] = bk
  BY <1>1 DEF Begins, TypeOK
<1>2. CASE t \in User /\ \E k \in UserKinds, nb \in BOOLEAN : (nb => k = "flip") /\ Begins(t, k, nb, "idle")
  <2>1. PICK k \in UserKinds, nb \in BOOLEAN : (nb => k = "flip") /\ Begins(t, k, nb, "idle")
    BY <1>2
  <2>2. k # "exit"
    BY DEF UserKinds
  <2> QED BY <1>1, <1>2, <2>1, <2>2
<1>3. CASE t \in User /\ ~InHandler /\ \E nb \in BOOLEAN : Begins(t, "exit", nb, "xUnblock")
  BY <1>1, <1>3
<1>4. CASE t \in {Worker, Suspender} /\ RunEnter(t) /\ Begins(t, "enter", t = Worker, "hDone")
  BY <1>1, <1>4, Threads
<1> QED BY <1>2, <1>3, <1>4 DEF Begun

LEMMA NextKind == ASSUME TypeOK, KindInv, [Next]_vars PROVE KindInv'
<1>1. CASE Idles
  BY <1>1 DEF Idles, KindInv, Committing
<1>2. ASSUME NEW t \in Thread, Steady(t) PROVE KindInv'
  BY <1>2 DEF Steady, KindInv, Committing
<1>3. ASSUME NEW t \in Thread, Begun(t) PROVE KindInv'
  BY <1>3, BegunMeans DEF KindInv, Committing
<1> QED BY <1>1, <1>2, <1>3, Moves

(* The exit counts, so no entry starts meanwhile.                            *)
LEMMA LeavingCounts ==
  ASSUME Base, NEW t \in Thread, Committing(t), back[t] = "xUnblock" PROVE blockCnt > 0
<1>1. <<t, "exit">> \in Holders
  BY DEF Holders, Holds, Reasons, InCommit, Committing
<1>2. IsFiniteSet(Holders) /\ Cardinality(Holders) \in Nat /\ Cardinality(Holders) # 0
  BY <1>1, HoldersFinite, FS_EmptySet
<1>3. blockCnt = Cardinality(Holders) + (IF vblank.enabled THEN 1 ELSE 0)
  BY DEF Base, CountInv, BlockCountExact
<1> QED BY <1>2, <1>3

LEMMA NextApart == ASSUME Base, ApartInv, [Next]_vars PROVE ApartInv'
<1>0. TypeOK
  BY DEF Base
<1>1. CASE Idles
  BY <1>1 DEF Idles, ApartInv, Committing
<1>2. ASSUME NEW t \in Thread, Steady(t) PROVE ApartInv'
  <2>1. \A u \in Thread : Committing(u)' => Committing(u) /\ back'[u] = back[u]
    BY <1>2 DEF Steady, Committing
  <2> QED BY <2>1, Threads DEF ApartInv
<1>3. ASSUME NEW t \in Thread, Begun(t) PROVE ApartInv'
  <2>1. CASE t = Worker
    <3>1. blockCnt = 0
      BY <1>0, <1>3, <2>1, BegunMeans, Threads DEF RunEnter, IsBlocked, TypeOK
    <3>2. \A u \in User : ~(Committing(u) /\ back[u] = "xUnblock")
      BY <3>1, LeavingCounts, Threads
    <3> QED BY <1>0, <1>3, <2>1, <3>2, BegunMeans, Threads DEF ApartInv, Committing
  <2>2. CASE t # Worker
    <3>1. Committing(Worker)' <=> Committing(Worker)
      BY <1>0, <1>3, <2>2, BegunMeans, Threads DEF Committing
    <3>2. \A u \in User : u # t => (Committing(u)' <=> Committing(u)) /\ back'[u] = back[u]
      BY <1>0, <1>3, BegunMeans, Threads DEF Committing
    <3>3. t \in User /\ back'[t] = "xUnblock" => ~Committing(Worker)
      BY <1>0, <1>3, BegunMeans DEF InHandler, Committing
    <3> QED BY <3>1, <3>2, <3>3 DEF ApartInv
  <2> QED BY <2>1, <2>2
<1> QED BY <1>0, <1>1, <1>2, <1>3, Moves

-----------------------------------------------------------------------------
(* The queue *)

LEMMA ItemsAfter ==
  ASSUME NEW q \in Seq(Item), NEW w \in Item
  PROVE  /\ \A x : Has(Append(q, w), x) => Has(q, x) \/ x = w
         /\ \A x : q # <<>> /\ Has(Tail(q), x) => Has(q, x)
         /\ q # <<>> => Head(Append(q, w)) = Head(q)
<1>1. ASSUME NEW x, Has(Append(q, w), x) PROVE Has(q, x) \/ x = w
  <2> DEFINE r == Append(q, w)
  <2>1. Len(r) = Len(q) + 1 /\ Len(q) \in Nat /\ r[Len(q) + 1] = w /\ \A i \in 1 .. Len(q) : r[i] = q[i]
    OBVIOUS
  <2>2. Has(r, x)
    BY <1>1
  <2> HIDE DEF r
  <2> QED BY <2>1, <2>2 DEF Has
<1>2. ASSUME NEW x, q # <<>>, Has(Tail(q), x) PROVE Has(q, x)
  <2> DEFINE r == Tail(q)
  <2>1. Len(r) = Len(q) - 1 /\ Len(q) \in Nat /\ \A i \in 1 .. Len(r) : r[i] = q[i + 1]
    BY <1>2
  <2>2. Has(r, x)
    BY <1>2
  <2> HIDE DEF r
  <2> QED BY <2>1, <2>2 DEF Has
<1>3. q # <<>> => Head(Append(q, w)) = Head(q)
  OBVIOUS
<1> QED BY <1>1, <1>2, <1>3

(* What a step can do to the queue, unless it queues a commit. *)
QueueMoves ==
  \/ queue' = queue \/ queue' = Unqueued
  \/ queue' = Append(queue, "dwork") /\ dwork = "timer"
  \/ queue # <<>> /\ queue' = Tail(queue) /\ pc[Worker] = "idle"

LEMMA DelayedMoves == Delayed => QueueMoves
BY DEF Delayed, QueueMoves

LEMMA NextQueue == ASSUME [Next]_vars, \A t \in Thread : ~CommitQueue(t) PROVE QueueMoves
<1>1. ASSUME NEW t \in Thread, CommitSteps(t) PROVE QueueMoves
  BY <1>1, IsDelayed, DelayedMoves DEF QueueMoves, CommitSteps, CommitRefused, CommitBusy, CommitCheck, CommitInline, hibVars
<1>2. ASSUME NEW t \in Thread, Tail1(t) PROVE QueueMoves
  BY <1>2, IsDelayed, DelayedMoves DEF QueueMoves, Block, VblankGet, Tail1, TailBlock, TailNoDisable, TailDisable, DeconStop, DeconStopped,
         DeconAlreadyStopped, CrtcDown, TailNoEnable, TailEnable, TailFlush, TailFlipDone, TailHwDone, TailUnblock, TailRearm
<1>3. ASSUME NEW t \in Thread, RunSteps(t) PROVE QueueMoves
  BY <1>3, IsDelayed, DelayedMoves DEF QueueMoves, Block, RunSteps, RunLock, RunBlocked, RunAgain, RunEnter, RunDone
<1>4. ASSUME NEW t \in Thread, ExitSteps(t) \/ UserPutsVblank(t) PROVE QueueMoves
  BY <1>4, IsDelayed, DelayedMoves DEF QueueMoves, Block, CancelWork, ExitSteps, ExitBlocks, ExitCancels, ExitCancelled, ExitUnblocks, ExitRearms,
         UserPutsVblank, hibVars
<1>5. ASSUME SuspendSteps \/ SuspendStarts PROVE QueueMoves
  BY <1>5 DEF QueueMoves, CancelWork, SuspendSteps, SuspendStarts, SuspendCancels, SuspendCancelled, SuspendFlushed,
         SuspendChecks, SuspendEnds
<1>6. ASSUME WorkerTakesHibernation \/ WorkerTakesCommit PROVE QueueMoves
  BY <1>6 DEF QueueMoves, WorkerTakesHibernation, WorkerTakesCommit, WorkerTakes, Goto
<1>7. ASSUME Request PROVE QueueMoves
  BY <1>5, <1>7, IsDelayed, DelayedMoves DEF QueueMoves, Request, UserCommit, UserGetsVblank, UserEnables, UserExits, VblankGet, Block, hibVars
<1>8. ASSUME SendEvent \/ VblankOff \/ TimerFires \/ CameraStops \/ RuntimeSuspend \/ UNCHANGED vars PROVE QueueMoves
  BY <1>8, IsDelayed, DelayedMoves DEF QueueMoves, SendEvent, VblankOff, TimerFires, CameraStops, RuntimeSuspend, vars, hibVars
<1> QED BY <1>1, <1>2, <1>3, <1>4, <1>5, <1>6, <1>7, <1>8 DEF Next, Progress

(* What a step can do to the cancelling of the work, and under it. *)
TimerMoves ==
  \/ CancelWork
  \/ canceling' \in {canceling, canceling - 1} /\ (canceling > 0 => dwork' = dwork \/ dwork = "timer")

LEMMA HeldMoves == (ModDelayed \/ (\E n : Rearm(n)) \/ (\E a : Toggle(a))) /\ canceling > 0 => UNCHANGED dwork
BY DEF ModDelayed, Rearm, Toggle

LEMMA NextTimer == ASSUME [Next]_vars PROVE TimerMoves
<1>1. ASSUME NEW t \in Thread, CommitSteps(t) PROVE TimerMoves
  BY <1>1, HeldMoves DEF TimerMoves, CommitSteps, CommitRefused, CommitBusy, CommitCheck, CommitInline, CommitQueue, hibVars
<1>2. ASSUME NEW t \in Thread, Tail1(t) PROVE TimerMoves
  BY <1>2, HeldMoves DEF TimerMoves, Block, VblankGet, Tail1, TailBlock, TailNoDisable, TailDisable, DeconStop, DeconStopped,
         DeconAlreadyStopped, CrtcDown, TailNoEnable, TailEnable, TailFlush, TailFlipDone, TailHwDone, TailUnblock, TailRearm,
         TailUnchanged
<1>3. ASSUME NEW t \in Thread, RunSteps(t) PROVE TimerMoves
  BY <1>3, HeldMoves DEF TimerMoves, Block, RunSteps, RunLock, RunBlocked, RunAgain, RunEnter, RunDone, RunEnds
<1>4. ASSUME NEW t \in Thread, ExitSteps(t) \/ UserPutsVblank(t) PROVE TimerMoves
  BY <1>4, HeldMoves DEF TimerMoves, Block, ExitSteps, ExitBlocks, ExitCancels, ExitCancelled, ExitUnblocks, ExitRearms,
         UserPutsVblank, hibVars
<1>5. ASSUME SuspendSteps \/ SuspendStarts PROVE TimerMoves
  BY <1>5 DEF TimerMoves, SuspendSteps, SuspendStarts, SuspendCancels, SuspendCancelled, SuspendFlushed,
         SuspendChecks, SuspendEnds
<1>6. ASSUME WorkerTakesHibernation \/ WorkerTakesCommit PROVE TimerMoves
  BY <1>6 DEF TimerMoves, WorkerTakesHibernation, WorkerTakesCommit, WorkerTakes
<1>7. ASSUME Request PROVE TimerMoves
  BY <1>5, <1>7, HeldMoves DEF TimerMoves, Request, UserCommit, UserGetsVblank, UserEnables, UserExits, VblankGet, Block, hibVars
<1>8. ASSUME SendEvent \/ VblankOff \/ TimerFires \/ CameraStops \/ RuntimeSuspend \/ UNCHANGED vars PROVE TimerMoves
  BY <1>8, HeldMoves DEF TimerMoves, SendEvent, VblankOff, TimerFires, CameraStops, RuntimeSuspend, vars, hibVars
<1> QED BY <1>1, <1>2, <1>3, <1>4, <1>5, <1>6, <1>7, <1>8 DEF Next, Progress

LEMMA NextCancel == ASSUME Base, CancelInv, [Next]_vars PROVE CancelInv'
<1>0. Once(queue) /\ queue \in Seq(Item) /\ canceling \in Nat
  BY DEF Base, QueueInv, Once, TypeOK
<1>1. ~Has(Unqueued, "dwork")
  BY <1>0, RemoveItem DEF Unqueued
<1>2. CASE CancelWork
  BY <1>1, <1>2 DEF CancelWork, CancelInv
<1>3. CASE canceling' \in {canceling, canceling - 1} /\ (canceling > 0 => dwork' = dwork \/ dwork = "timer")
  <2> SUFFICES ASSUME canceling' > 0 PROVE dwork' = "idle" /\ ~Has(queue', "dwork")
    BY DEF CancelInv
  <2>1. canceling > 0
    BY <1>0, <1>3
  <2>2. dwork = "idle" /\ ~Has(queue, "dwork")
    BY <2>1 DEF CancelInv
  <2>3. CASE \E t \in Thread : CommitQueue(t)
    <3>1. queue' = Append(queue, "commit")
      BY <2>1, <2>3 DEF CommitQueue
    <3> QED BY <1>0, <1>3, <2>1, <2>2, <3>1, ItemsAfter DEF Item
  <2>4. CASE \A t \in Thread : ~CommitQueue(t)
    <3>1. QueueMoves
      BY <2>4, NextQueue
    <3>2. ~Has(queue', "dwork")
      BY <1>0, <1>1, <2>2, <3>1, ItemsAfter DEF QueueMoves, Item
    <3> QED BY <1>3, <2>1, <2>2, <3>2
  <2> QED BY <2>3, <2>4
<1> QED BY <1>2, <1>3, NextTimer DEF TimerMoves

(* A commit at the head of the queue stays there until it is taken.          *)
LEMMA NextHead ==
  ASSUME Base, QueueMoves, Pending', Head(queue) = "commit", queue # <<>> PROVE Head(queue') = "commit"
<1>0. Once(queue) /\ queue \in Seq(Item)
  BY DEF Base, QueueInv, Once
<1>1. CASE queue' = queue
  BY <1>1
<1>2. CASE queue' = Unqueued
  <2>1. Once(queue') /\ \A x : Has(queue', x) <=> Has(queue, x) /\ x # "dwork"
    BY <1>0, <1>2, RemoveItem DEF Unqueued
  <2>2. queue' # <<>>
    BY DEF Pending, Has
  <2>3. Has(queue', Head(queue'))
    BY <2>1, <2>2, HeadItem
  <2>4. Head(queue') # "dwork" /\ Head(queue') \in Item
    BY <2>1, <2>2, <2>3 DEF Once
  <2> QED BY <2>4 DEF Item
<1>3. CASE queue' = Append(queue, "dwork")
  BY <1>0, <1>3, ItemsAfter DEF Item
<1>4. CASE queue' = Tail(queue)
  BY <1>0, <1>4, HeadItem DEF Pending
<1> QED BY <1>1, <1>2, <1>3, <1>4 DEF QueueMoves

(* An entry is queued in front of the hibernation work. *)
LEMMA EntryHead ==
  ASSUME Base, CancelInv, NEW t \in Thread, CommitQueue(t), crtc.active PROVE Head(queue') = "commit"
<1>0. Once(queue) /\ queue \in Seq(Item) /\ canceling \in Nat
  BY DEF Base, QueueInv, Once, TypeOK
<1>1. ~Pending
  BY DEF CommitQueue, SwapState, Base, SerialInv
<1>2. ASSUME NEW q \in Seq(Item), ~Has(q, "commit"), ~Has(q, "dwork") PROVE q = <<>>
  <2>1. ASSUME q # <<>> PROVE FALSE
    <3>1. q[1] \in Item /\ 1 \in 1 .. Len(q)
      BY <2>1
    <3> QED BY <1>2, <3>1 DEF Has, Item
  <2> QED BY <2>1
<1>3. CASE canceling = 0
  <2>1. Once(Unqueued) /\ ~Has(Unqueued, "dwork") /\ ~Has(Unqueued, "commit")
    BY <1>0, <1>1, RemoveItem DEF Unqueued, Pending
  <2>2. Unqueued = <<>>
    BY <1>2, <2>1 DEF Once
  <2> QED BY <1>3, <2>2 DEF CommitQueue
<1>4. CASE canceling > 0
  <2>1. queue = <<>>
    BY <1>0, <1>1, <1>2, <1>4 DEF CancelInv, Pending
  <2> QED BY <1>4, <2>1 DEF CommitQueue
<1> QED BY <1>0, <1>3, <1>4

LEMMA NothingQueued == ASSUME Base, QueueMoves, Pending' PROVE Pending
<1>0. Once(queue) /\ queue \in Seq(Item)
  BY DEF Base, QueueInv, Once
<1>1. CASE queue' = queue
  BY <1>1 DEF Pending
<1>2. CASE queue' = Unqueued
  BY <1>0, <1>2, RemoveItem DEF Pending, Unqueued
<1>3. CASE queue' = Append(queue, "dwork")
  BY <1>0, <1>3, ItemsAfter DEF Pending, Item
<1>4. CASE queue # <<>> /\ queue' = Tail(queue)
  BY <1>0, <1>4, HeadItem DEF Pending
<1> QED BY <1>1, <1>2, <1>3, <1>4 DEF QueueMoves

-----------------------------------------------------------------------------
(* The event of a commit and its flip *)

LEMMA FlipKept ==
  ASSUME FlipInv, UNCHANGED <<event, tail>>, Pending' => Pending, AtFlip' <=> AtFlip, AtUnflushed' <=> AtUnflushed
  PROVE  FlipInv'
BY DEF FlipInv

(* A step of a thread that is not in a live commit, before or after.         *)
LEMMA AwayFromFlip ==
  ASSUME TypeOK, NEW t \in Thread, NEW p \in Pcs, pc' = [pc EXCEPT ![t] = p], pc[t] \notin LivePcs, p \notin LivePcs
  PROVE  (AtFlip' <=> AtFlip) /\ (AtUnflushed' <=> AtUnflushed)
<1>1. pc'[t] = p /\ \A u \in Thread : u # t => pc'[u] = pc[u]
  BY DEF TypeOK
<1>2. PreFlush \subseteq LivePcs /\ "tFlip" \in LivePcs
  BY DEF PreFlush, LivePcs, Late
<1>3. AtFlip' <=> AtFlip
  BY <1>1, <1>2 DEF AtFlip
<1>4. AtUnflushed' <=> AtUnflushed
  BY <1>1, <1>2 DEF AtUnflushed
<1> QED BY <1>3, <1>4

(* What such a step leaves alone. *)
Away(t) ==
  /\ pc' = [pc EXCEPT ![t] = pc'[t]] /\ pc[t] \notin LivePcs /\ pc'[t] \in Pcs \ LivePcs
  /\ UNCHANGED <<event, tail>> /\ QueueMoves

LEMMA AwayFlip == ASSUME Base, FlipInv, NEW t \in Thread, Away(t) PROVE FlipInv'
<1> DEFINE p == pc'[t]
<1>1. p \in Pcs /\ p \notin LivePcs /\ pc' = [pc EXCEPT ![t] = p] /\ pc[t] \notin LivePcs
  BY DEF Away
<1> HIDE DEF p
<1>2. (AtFlip' <=> AtFlip) /\ (AtUnflushed' <=> AtUnflushed)
  BY <1>1, AwayFromFlip DEF Base
<1> QED BY <1>2, FlipKept, NothingQueued DEF Away

LEMMA CommitAway ==
  ASSUME TypeOK, QueueMoves, NEW t \in Thread, CommitRefused(t) \/ CommitBusy(t) \/ CommitCheck(t) PROVE Away(t)
<1>1. /\ pc[t] = "lock" /\ pc' = [pc EXCEPT ![t] = pc'[t]] /\ pc'[t] \in {"swap", back[t]} /\ UNCHANGED <<event, tail>>
  BY DEF TypeOK, CommitRefused, CommitBusy, CommitCheck, Goto, Leave, swVars, deconVars
<1>2. pc'[t] \in {"swap", "idle", "hDone", "xUnblock"}
  BY <1>1 DEF TypeOK
<1> QED BY <1>1, <1>2 DEF Away, Pcs, LivePcs, Early, Down, Late

LEMMA RunAway == ASSUME TypeOK, QueueMoves, NEW t \in Thread, RunSteps(t) PROVE Away(t)
<1>1. /\ pc[t] \in {"hLock", "hCheck", "hDone"} /\ pc' = [pc EXCEPT ![t] = pc'[t]]
      /\ pc'[t] \in {"hCheck", "idle", "sDone", "lock"} /\ UNCHANGED <<event, tail>>
  BY DEF TypeOK, RunSteps, RunLock, RunBlocked, RunAgain, RunEnter, RunDone, RunEnds, Submit, Goto, swVars, deconVars
<1> QED BY <1>1 DEF Away, Pcs, LivePcs, Early, Down, Late

LEMMA ExitAway == ASSUME TypeOK, QueueMoves, NEW t \in Thread, ExitSteps(t) \/ UserPutsVblank(t) PROVE Away(t)
<1>1. /\ pc[t] \in {"xBlock", "xCancel", "xWait", "xUnblock", "xRearm", "holdsVblank"} /\ pc' = [pc EXCEPT ![t] = pc'[t]]
      /\ pc'[t] \in {"xCancel", "xUnblock", "xWait", "xRearm", "idle", "lock"} /\ UNCHANGED <<event, tail>>
  BY DEF TypeOK, ExitSteps, ExitBlocks, ExitCancels, ExitCancelled, ExitUnblocks, ExitRearms, ExitUnchanged, UserPutsVblank,
         Submit, Goto, swVars, deconVars
<1> QED BY <1>1 DEF Away, Pcs, LivePcs, Early, Down, Late, TailPcs

LEMMA SuspendAway == ASSUME TypeOK, QueueMoves, SuspendSteps \/ SuspendStarts PROVE Away(Suspender)
<1>1. /\ pc[Suspender] \in {"idle", "sCancel", "sWait", "sFlush", "sCheck", "sDone"}
      /\ pc' = [pc EXCEPT ![Suspender] = pc'[Suspender]]
      /\ pc'[Suspender] \in {"sCancel", "sWait", "sFlush", "sCheck", "hLock", "sDone", "idle"} /\ UNCHANGED <<event, tail>>
  BY Threads DEF TypeOK, SuspendSteps, SuspendStarts, SuspendCancels, SuspendCancelled, SuspendFlushed, SuspendChecks, SuspendEnds,
         SuspendUnchanged, Requesting, Goto, swVars, deconVars
<1> QED BY <1>1 DEF Away, Pcs, LivePcs, Early, Down, Late, TailPcs

LEMMA RequestAway ==
  ASSUME TypeOK, QueueMoves, Request PROVE \E t \in Thread : Away(t)
<1>1. CASE SuspendStarts
  BY <1>1, SuspendAway, Threads
<1>2. CASE ~SuspendStarts
  <2>1. PICK t \in User : /\ pc[t] = "idle" /\ pc' = [pc EXCEPT ![t] = pc'[t]]
                          /\ pc'[t] \in {"lock", "holdsVblank", "xUnblock", "xBlock"} /\ UNCHANGED <<event, tail>>
    BY <1>2, Threads DEF Request, UserCommit, UserGetsVblank, UserEnables, UserExits, Requesting, Submit, Goto, swVars, deconVars, TypeOK
  <2> QED BY <2>1, Threads DEF Away, Pcs, LivePcs, Early, Down, Late, TailPcs
<1> QED BY <1>1, <1>2

LEMMA EndAway == ASSUME TypeOK, QueueMoves, NEW t \in Thread, TailUnblock(t) \/ TailRearm(t) PROVE Away(t)
<1>1. /\ pc[t] \in {"tUnblock", "tRearm"} /\ pc' = [pc EXCEPT ![t] = pc'[t]] /\ pc'[t] \in {"tRearm", back[t]}
      /\ UNCHANGED <<event, tail>>
  BY DEF TypeOK, TailUnblock, TailRearm, TailUnchanged, Leave, Goto, deconVars
<1>2. pc'[t] \in {"tRearm", "idle", "hDone", "xUnblock"}
  BY <1>1 DEF TypeOK
<1> QED BY <1>1, <1>2 DEF Away, Pcs, LivePcs, Early, Down, Late, TailPcs

LEMMA TakesAway == ASSUME TypeOK, QueueMoves, WorkerTakesHibernation PROVE Away(Worker)
<1>1. /\ pc[Worker] = "idle" /\ pc' = [pc EXCEPT ![Worker] = "hLock"] /\ pc'[Worker] = "hLock" /\ UNCHANGED <<event, tail>>
  BY Threads DEF TypeOK, WorkerTakesHibernation, WorkerTakes, Goto, swVars, deconVars
<1> QED BY <1>1 DEF Away, Pcs, LivePcs, Early, Down, Late, TailPcs

(* Where the only live commit is, of a step of t from one place to another.  *)
LEMMA FlipPlaces ==
  ASSUME Base, NEW t \in Thread, Live(t), NEW p \in Pcs, pc' = [pc EXCEPT ![t] = p]
  PROVE  /\ ~Pending
         /\ (AtFlip <=> pc[t] = "tFlip") /\ (AtFlip' <=> p = "tFlip")
         /\ (AtUnflushed <=> pc[t] \in PreFlush) /\ (AtUnflushed' <=> p \in PreFlush)
<1>1. ~Pending /\ \A u \in Thread : u # t => ~Live(u)
  BY OnlyCommit
<1>2. pc'[t] = p /\ \A u \in Thread : u # t => pc'[u] = pc[u] /\ pc[u] \notin LivePcs
  BY <1>1 DEF Base, TypeOK, Live
<1>3. PreFlush \subseteq LivePcs /\ "tFlip" \in LivePcs
  BY DEF PreFlush, LivePcs, Late
<1>4. (AtFlip <=> pc[t] = "tFlip") /\ (AtFlip' <=> p = "tFlip")
  BY <1>2, <1>3 DEF AtFlip
<1>5. (AtUnflushed <=> pc[t] \in PreFlush) /\ (AtUnflushed' <=> p \in PreFlush)
  BY <1>2, <1>3 DEF AtUnflushed
<1> QED BY <1>1, <1>4, <1>5

LEMMA TailFlipStep == ASSUME Base, QueueMoves, FlipInv, NEW t \in Thread, Tail1(t), Live(t) PROVE FlipInv'
<1>0. Pending' => Pending
  BY NothingQueued
<1>1. CASE TailBlock(t) \/ TailNoDisable(t) \/ TailDisable(t) \/ DeconStop(t) \/ DeconStopped(t) \/ DeconAlreadyStopped(t)
           \/ CrtcDown(t) \/ TailNoEnable(t) \/ TailEnable(t)
  <2> DEFINE p == pc'[t]
  <2>1. pc' = [pc EXCEPT ![t] = p] /\ p \in PreFlush /\ p \in Pcs /\ pc[t] \in PreFlush /\ UNCHANGED <<event, tail>>
    BY <1>1 DEF Base, TypeOK, TailBlock, TailNoDisable, TailDisable, DeconStop, DeconStopped, DeconAlreadyStopped, CrtcDown,
           TailNoEnable, TailEnable, Goto, deconVars, PreFlush, Early, Down, Pcs, TailPcs
  <2> HIDE DEF p
  <2>2. "tFlip" \notin PreFlush
    BY DEF PreFlush, Early, Down
  <2>3. (AtFlip' <=> AtFlip) /\ (AtUnflushed' <=> AtUnflushed)
    BY <2>1, <2>2, FlipPlaces
  <2> QED BY <1>0, <2>1, <2>3, FlipKept
<1>2. CASE TailFlush(t)
  <2>1. pc[t] = "tFlush" /\ pc' = [pc EXCEPT ![t] = "tFlip"]
    BY <1>2 DEF TailFlush, Goto
  <2>2. "tFlush" \in PreFlush /\ "tFlip" \notin PreFlush /\ "tFlip" \in Pcs
    BY DEF PreFlush, Early, Down, Pcs, TailPcs
  <2>3. ~Pending /\ ~AtFlip /\ AtFlip' /\ AtUnflushed /\ ~AtUnflushed'
    BY <2>1, <2>2, FlipPlaces
  <2>4. ~event /\ ((tail.old.active \/ tail.new.active) => ~tail.flip)
    BY <2>3 DEF FlipInv
  <2>5. CASE tail.new.active /\ ~tail.new.hexit
    BY <1>0, <1>2, <2>3, <2>4, <2>5 DEF TailFlush, FlipInv
  <2>6. CASE ~(tail.new.active /\ ~tail.new.hexit)
    <3>1. tail' = [tail EXCEPT !.flip = TRUE] /\ event' = event
      BY <1>2, <2>6 DEF TailFlush
    <3>2. tail'.old = tail.old /\ tail'.new = tail.new
      BY <3>1 DEF Base, TypeOK, Commit
    <3> QED BY <1>0, <2>3, <2>4, <3>1, <3>2 DEF FlipInv
  <2> QED BY <2>5, <2>6
<1>3. CASE TailFlipDone(t)
  <2>1. pc[t] = "tFlip" /\ pc' = [pc EXCEPT ![t] = "tEnd"] /\ tail.flip /\ UNCHANGED <<event, tail>>
    BY <1>3 DEF TailFlipDone, Goto, deconVars
  <2>2. "tFlip" \notin PreFlush /\ "tEnd" \notin PreFlush /\ "tEnd" \in Pcs
    BY DEF PreFlush, Early, Down, Pcs, TailPcs
  <2>3. ~AtUnflushed /\ ~AtUnflushed'
    BY <2>1, <2>2, FlipPlaces
  <2>4. ~event
    BY <2>1 DEF FlipInv
  <2> QED BY <1>0, <2>1, <2>3, <2>4 DEF FlipInv
<1>4. CASE TailHwDone(t)
  <2>1. pc[t] = "tEnd" /\ pc' = [pc EXCEPT ![t] = "tUnblock"] /\ event' = event /\ tail' = [tail EXCEPT !.live = FALSE]
    BY <1>4 DEF TailHwDone, Goto
  <2>2. "tUnblock" \notin PreFlush /\ "tEnd" \notin PreFlush /\ "tUnblock" \in Pcs
    BY DEF PreFlush, Early, Down, Pcs, TailPcs
  <2>3. (AtFlip' <=> AtFlip) /\ (AtUnflushed' <=> AtUnflushed)
    BY <2>1, <2>2, FlipPlaces
  <2>4. tail'.flip = tail.flip /\ tail'.old = tail.old /\ tail'.new = tail.new
    BY <2>1 DEF Base, TypeOK, Commit
  <2> QED BY <1>0, <2>1, <2>3, <2>4 DEF FlipInv
<1>5. ~TailUnblock(t) /\ ~TailRearm(t)
  BY DEF TailUnblock, TailRearm, Goto, Live, LivePcs, Early, Down, Late
<1> QED BY <1>1, <1>2, <1>3, <1>4, <1>5 DEF Tail1

(* What a commit that is swapped in leaves and asks for. *)
LEMMA SwapKinds ==
  ASSUME Base, KindInv, NEW t \in Thread, pc[t] = "swap", SwapState(t)
  PROVE  /\ tail'.old = crtc /\ tail'.new = new[t] /\ crtc' = new[t]
         /\ tail'.old.active \/ tail'.new.active => ~tail'.flip
         /\ nonblock[t] => tail'.old.active \/ tail'.new.active
         /\ tail'.new.hexit => ~tail'.old.active /\ kind[t] = "exit"
         /\ tail'.new.sr => kind[t] = "enter"
         /\ kind[t] = "enter" => crtc.active
         /\ ~AtFlip /\ ~AtUnflushed /\ ~Pending
<1>1. tail' = [live |-> TRUE, flip |-> ~crtc.active /\ ~new[t].active, mode |-> crtc.enable # new[t].enable \/ kind[t] = "on",
               old |-> crtc, new |-> new[t]] /\ crtc' = new[t]
  BY DEF SwapState
<1>2. new[t] = Wanted(kind[t]) /\ ~Refused(kind[t]) /\ kind[t] \in UserKinds \cup {"enter", "exit"} /\ crtc \in CrtcState
  BY DEF Base, ThreadInv, OwnInv, TypeOK
<1> DEFINE w == Wanted(kind[t])
<1>3. /\ w.hexit => kind[t] = "exit"
      /\ w.sr => kind[t] = "enter"
      /\ kind[t] \in {"flip", "exit"} => w.active
  BY <1>2 DEF Wanted, Duplicated, UserKinds, CrtcState, CrtcOff
<1>4. /\ kind[t] = "exit" => ~crtc.active
      /\ kind[t] = "enter" => crtc.active
  BY <1>2 DEF Refused
<1>5. nonblock[t] => kind[t] \in {"flip", "exit", "enter"}
  BY DEF KindInv, Committing
<1> HIDE DEF w
<1>6. tail'.old = crtc /\ tail'.new = w /\ crtc' = w /\ new[t] = w /\ (tail'.flip <=> ~crtc.active /\ ~w.active)
  BY <1>1, <1>2 DEF w
<1>7. ~Pending /\ \A u \in Thread : ~Live(u)
  BY Swapped
<1>8. ~AtFlip /\ ~AtUnflushed
  BY <1>7 DEF AtFlip, AtUnflushed, Live, PreFlush, LivePcs, Late
<1> QED BY <1>3, <1>4, <1>5, <1>6, <1>7, <1>8

LEMMA SwapFlip ==
  ASSUME Base, KindInv, FlipInv, NEW t \in Thread, CommitInline(t) \/ CommitQueue(t) PROVE FlipInv'
<1>1. pc[t] = "swap" /\ SwapState(t) /\ pc' = [pc EXCEPT ![t] = pc'[t]] /\ event' = event
      /\ pc'[t] \in {"tBlock", back[t]}
  BY DEF CommitInline, CommitQueue, Goto, deconVars, Base, TypeOK
<1>2. /\ tail'.old.active \/ tail'.new.active => ~tail'.flip
      /\ tail'.new.hexit => ~tail'.old.active
      /\ ~AtFlip /\ ~Pending
      /\ nonblock[t] => tail'.old.active \/ tail'.new.active
  BY <1>1, SwapKinds
<1>3. ~event
  BY <1>2 DEF FlipInv
<1>4. Pending' => nonblock[t]
  BY <1>2 DEF CommitInline, CommitQueue, hibVars, Pending
<1> QED BY <1>1, <1>2, <1>3, <1>4 DEF FlipInv

LEMMA TakesFlip == ASSUME Base, FlipInv, WorkerTakesCommit PROVE FlipInv'
<1>1. Pending /\ ~Pending'
  <2>1. queue # <<>> /\ Head(queue) = "commit" /\ queue' = Tail(queue) /\ Once(queue)
    BY DEF WorkerTakesCommit, WorkerTakes, Base, QueueInv
  <2> QED BY <2>1, HeadItem DEF Pending
<1>2. pc' = [pc EXCEPT ![Worker] = "tBlock"] /\ UNCHANGED <<event, tail>>
  BY DEF WorkerTakesCommit, WorkerTakes, Goto, swVars, deconVars
<1>3. ~AtFlip
  BY <1>1 DEF AtFlip, Base, SerialInv, Live, LivePcs, Late
<1> QED BY <1>1, <1>2, <1>3 DEF FlipInv

LEMMA NobodyFlips ==
  ASSUME Base, QueueMoves, FlipInv, SendEvent \/ VblankOff \/ TimerFires \/ CameraStops \/ RuntimeSuspend \/ UNCHANGED vars
  PROVE  FlipInv'
<1>1. UNCHANGED pc
  BY DEF SendEvent, VblankOff, TimerFires, CameraStops, RuntimeSuspend, vars, thVars
<1>2. (AtFlip' <=> AtFlip) /\ (AtUnflushed' <=> AtUnflushed)
  BY <1>1 DEF AtFlip, AtUnflushed
<1>3. CASE SendEvent
  <2>1. event /\ ~event' /\ tail' = [tail EXCEPT !.flip = TRUE]
    BY <1>3 DEF SendEvent
  <2>2. tail'.old = tail.old /\ tail'.new = tail.new
    BY <2>1 DEF Base, TypeOK, Commit
  <2>3. PICK t \in Thread : pc[t] = "tFlip"
    BY <2>1 DEF FlipInv, AtFlip
  <2>4. Live(t)
    BY <2>3 DEF Live, LivePcs, Late
  <2>5. ~Pending /\ \A u \in Thread : u # t => pc[u] \notin LivePcs
    BY <2>4, OnlyCommit DEF Live
  <2>6. ~AtUnflushed
    <3>1. PreFlush \subseteq LivePcs \ {"tFlip"}
      BY DEF PreFlush, LivePcs, Early, Down, Late
    <3> QED BY <2>3, <2>5, <3>1 DEF AtUnflushed
  <2> QED BY <1>2, <2>1, <2>2, <2>5, <2>6, NothingQueued DEF FlipInv
<1>4. CASE ~SendEvent
  <2>1. UNCHANGED <<event, tail>>
    BY <1>4 DEF VblankOff, TimerFires, CameraStops, RuntimeSuspend, vars, swVars, deconVars
  <2> QED BY <1>2, <2>1, FlipKept, NothingQueued
<1> QED BY <1>3, <1>4

LEMMA NextFlip == ASSUME Base, KindInv, FlipInv, [Next]_vars PROVE FlipInv'
<1>0. TypeOK
  BY DEF Base
<1>1. CASE \E t \in Thread : CommitInline(t) \/ CommitQueue(t)
  BY <1>1, SwapFlip
<1>2. CASE \A t \in Thread : ~CommitInline(t) /\ ~CommitQueue(t)
  <2>0. QueueMoves
    BY <1>2, NextQueue
  <2>1. ASSUME NEW t \in Thread, Tail1(t) PROVE FlipInv'
    <3>1. CASE Live(t)
      BY <2>0, <2>1, <3>1, TailFlipStep
    <3>2. CASE ~Live(t)
      <4>1. TailUnblock(t) \/ TailRearm(t)
        BY <2>1, <3>2 DEF Tail1, TailBlock, TailNoDisable, TailDisable, DeconStop, DeconStopped, DeconAlreadyStopped, CrtcDown,
           TailNoEnable, TailEnable, TailFlush, TailFlipDone, TailHwDone, Goto, Live, LivePcs, Early, Down, Late
      <4> QED BY <1>0, <2>0, <4>1, EndAway, AwayFlip
    <3> QED BY <3>1, <3>2
  <2>2. ASSUME NEW t \in Thread, Progress(t) PROVE FlipInv'
    BY <1>0, <1>2, <2>0, <2>1, <2>2, CommitAway, RunAway, ExitAway, SuspendAway, TakesAway, AwayFlip, TakesFlip, Threads
    DEF Progress, CommitSteps
  <2>3. ASSUME Request PROVE FlipInv'
    BY <1>0, <2>0, <2>3, RequestAway, AwayFlip
  <2>4. ASSUME SendEvent \/ VblankOff \/ TimerFires \/ CameraStops \/ RuntimeSuspend \/ UNCHANGED vars PROVE FlipInv'
    BY <2>0, <2>4, NobodyFlips
  <2> QED BY <2>2, <2>3, <2>4 DEF Next
<1> QED BY <1>1, <1>2

-----------------------------------------------------------------------------
(* DECON is dark for a CRTC that is not active *)

LEMMA AsideDark == ASSUME DarkInv, Aside PROVE DarkInv'
BY DEF Aside, DarkInv

LEMMA SwapDark ==
  ASSUME Base, DarkInv, NEW t \in Thread, pc[t] = "swap", SwapState(t), SwapsAside PROVE DarkInv'
<1>1. /\ tail'.old = tail.new /\ Shown = tail.new /\ ~AtDown /\ ~AtEnable
      /\ decon' = decon /\ Waiting' /\ ~AtDown' /\ ~AtEnable' /\ ~AtDownEnd'
  BY Swapped, DownEnds DEF SwapsAside
<1> QED BY <1>1 DEF DarkInv, Shown

LEMMA StageDark ==
  ASSUME Base, Base', DarkInv, NEW t \in Thread, NEW p \in LivePcs, NEW to \in LivePcs, pc[t] = p, pc' = [pc EXCEPT ![t] = to],
         tail' = tail,
         to \in Late => tail.new.active \/ decon' # "ON",
         to = "tDownEnd" => decon' # "ON",
         to = "tEnable" => tail.new.active \/ decon' # "ON",
         to \notin Early
  PROVE  DarkInv'
<1>1. pc'[t] = to /\ Live(t) /\ Live(t)'
  BY DEF Base, TypeOK, Live
<1>2. Place(t)'
  BY <1>1, Places
<1>3. (AtDown' <=> to \in Down) /\ (AtDownEnd' <=> to = "tDownEnd") /\ (AtEnable' <=> to = "tEnable") /\ Shown' = tail'.new
  BY <1>1, <1>2 DEF Place
<1>4. to \in Late \/ to \in Down \/ to = "tEnable"
  BY DEF LivePcs
<1> QED BY <1>3, <1>4 DEF DarkInv

LEMMA TailDark ==
  ASSUME Base, Base', DarkInv, NEW t \in Thread,
         TailNoDisable(t) \/ TailDisable(t) \/ DeconStop(t) \/ DeconStopped(t) \/ DeconAlreadyStopped(t) \/ CrtcDown(t)
         \/ TailNoEnable(t) \/ TailEnable(t)
  PROVE  DarkInv'
<1> DEFINE p == pc[t]
           to == pc'[t]
<1>1. p \in LivePcs /\ to \in LivePcs /\ pc[t] = p /\ pc' = [pc EXCEPT ![t] = to] /\ tail' = tail /\ to \notin Early
  BY DEF Base, TypeOK, TailNoDisable, TailDisable, DeconStop, DeconStopped, DeconAlreadyStopped, CrtcDown, TailNoEnable, TailEnable,
         Goto, TailUnchanged, LivePcs, Early, Down, Late
<1>2. Place(t)
  <2>1. Live(t) /\ Live(t)'
    BY <1>1 DEF Live
  <2> QED BY <2>1, Places
<1>3. /\ pc[t] \in Early => ~AtDown /\ ~AtEnable /\ Shown = tail.old
      /\ pc[t] = "tDownEnd" => AtDownEnd
      /\ pc[t] = "tEnable" => AtEnable
  BY <1>2 DEF Place, Early, Down
<1>4. CASE TailNoDisable(t)
  <2>1. pc[t] = "tDisable" /\ pc'[t] = "tEnable" /\ ~(NeedsModeset /\ NeedsDisable) /\ decon' = decon
    BY <1>4 DEF Base, TypeOK, TailNoDisable, Goto, deconVars
  <2>2. ~tail.old.active => decon # "ON"
    BY <1>3, <2>1 DEF DarkInv, Early
  <2>3. tail.old.active \in BOOLEAN /\ tail.new.active \in BOOLEAN
    BY DEF Base, TypeOK, Commit, CrtcState
  <2>4. tail.new.active \/ decon' # "ON"
    BY <2>1, <2>2, <2>3 DEF NeedsModeset, NeedsDisable
  <2>5. to = "tEnable" /\ to \notin Late
    BY <2>1 DEF Late
  <2> HIDE DEF p, to
  <2> QED BY <1>1, <2>4, <2>5, StageDark
<1>5. CASE TailDisable(t) \/ DeconStop(t)
  <2>1. to \notin Late /\ to # "tDownEnd" /\ to # "tEnable"
    BY <1>5 DEF Base, TypeOK, TailDisable, DeconStop, Goto, Late
  <2> HIDE DEF p, to
  <2> QED BY <1>1, <2>1, StageDark
<1>6. CASE DeconStopped(t) \/ DeconAlreadyStopped(t)
  <2>1. decon' # "ON" /\ to = "tDownEnd" /\ to \notin Late
    BY <1>6 DEF Base, TypeOK, DeconStopped, DeconAlreadyStopped, Goto, Late
  <2> HIDE DEF p, to
  <2> QED BY <1>1, <2>1, StageDark
<1>7. CASE CrtcDown(t)
  <2>1. pc[t] = "tDownEnd" /\ to = "tEnable" /\ decon' = decon /\ to \notin Late
    BY <1>7 DEF Base, TypeOK, CrtcDown, Goto, Late
  <2>2. decon' # "ON"
    BY <1>3, <2>1 DEF DarkInv
  <2> HIDE DEF p, to
  <2> QED BY <1>1, <2>1, <2>2, StageDark
<1>8. CASE TailNoEnable(t) \/ TailEnable(t)
  <2>1. /\ pc[t] = "tEnable" /\ to = "tFlush" /\ to # "tDownEnd" /\ to # "tEnable"
        /\ decon' = decon \/ tail.new.active
    BY <1>8 DEF Base, TypeOK, TailNoEnable, TailEnable, WillEnable, Goto, deconVars
  <2>2. tail.new.active \/ decon' # "ON"
    BY <1>3, <2>1 DEF DarkInv
  <2> HIDE DEF p, to
  <2> QED BY <1>1, <2>1, <2>2, StageDark
<1> QED BY <1>4, <1>5, <1>6, <1>7, <1>8

LEMMA NextDark == ASSUME Base, DarkInv, [Next]_vars PROVE DarkInv'
<1>0. Base'
  BY NextBase
<1>1. ASSUME NEW t \in Thread, CommitSteps(t) PROVE DarkInv'
  <2>1. CASE CommitInline(t) \/ CommitQueue(t)
    BY <2>1, CommitInlineInv, CommitQueueInv, SwapDark DEF CommitInline, CommitQueue, Goto
  <2> QED BY <1>1, <2>1, CommitChecks, AsideDark DEF CommitSteps
<1>2. ASSUME NEW t \in Thread, Tail1(t) PROVE DarkInv'
  BY <1>0, <1>2, TailBlockInv, TailFlushInv, TailFlipDoneInv, TailHwDoneInv, TailUnblockInv, TailRearmInv, AsideDark, TailDark
  DEF Tail1
<1>3. ASSUME NEW t \in Thread, RunSteps(t) PROVE DarkInv'
  BY <1>3, RunLockInv, RunEndsInv, RunEnterInv, AsideDark DEF RunSteps
<1>4. ASSUME NEW t \in Thread, ExitSteps(t) PROVE DarkInv'
  BY <1>4, ExitBlocksInv, ExitCancelsInv, ExitCancelledInv, ExitUnblocksInv, ExitRearmsInv, AsideDark DEF ExitSteps
<1>5. ASSUME NEW t \in Thread, Progress(t) PROVE DarkInv'
  BY <1>5, <1>1, <1>2, <1>3, <1>4, WorkerTakesHibernationInv, WorkerTakesCommitInv, SuspendCancelInv, SuspendMovesInv,
     UserPutsVblankInv, AsideDark DEF Progress, SuspendSteps
<1>6. ASSUME Request PROVE DarkInv'
  BY <1>6, UserCommitInv, UserGetsVblankInv, UserEnablesInv, UserExitsInv, SuspendMovesInv, AsideDark DEF Request
<1>7. ASSUME SendEvent \/ VblankOff \/ TimerFires \/ CameraStops \/ RuntimeSuspend \/ UNCHANGED vars PROVE DarkInv'
  BY <1>7, SendEventInv, VblankOffInv, AloneInv, AsideDark
<1> QED BY <1>5, <1>6, <1>7 DEF Next

-----------------------------------------------------------------------------
(* Nobody waits for a commit queued behind the handler *)

TailMoves == UNCHANGED tail \/ tail' = [tail EXCEPT !.flip = TRUE] \/ tail' = [tail EXCEPT !.live = FALSE]

LEMMA NextTail == ASSUME [Next]_vars, \A t \in Thread : ~CommitInline(t) /\ ~CommitQueue(t) PROVE TailMoves
<1>1. ASSUME NEW t \in Thread, CommitSteps(t) PROVE TailMoves
  BY <1>1 DEF TailMoves, CommitSteps, CommitRefused, CommitBusy, CommitCheck, swVars
<1>2. ASSUME NEW t \in Thread, Tail1(t) PROVE TailMoves
  BY <1>2 DEF TailMoves, Tail1, TailBlock, TailNoDisable, TailDisable, DeconStop, DeconStopped, DeconAlreadyStopped, CrtcDown,
         TailNoEnable, TailEnable, TailFlush, TailFlipDone, TailHwDone, TailUnblock, TailRearm
<1>3. ASSUME NEW t \in Thread, RunSteps(t) PROVE TailMoves
  BY <1>3 DEF TailMoves, RunSteps, RunLock, RunBlocked, RunAgain, RunEnter, RunDone, RunEnds, swVars
<1>4. ASSUME NEW t \in Thread, ExitSteps(t) \/ UserPutsVblank(t) PROVE TailMoves
  BY <1>4 DEF TailMoves, ExitSteps, ExitBlocks, ExitCancels, ExitCancelled, ExitUnblocks, ExitRearms, ExitUnchanged,
         UserPutsVblank, swVars
<1>5. ASSUME SuspendSteps \/ SuspendStarts PROVE TailMoves
  BY <1>5 DEF TailMoves, SuspendSteps, SuspendStarts, SuspendCancels, SuspendCancelled, SuspendFlushed, SuspendChecks, SuspendEnds,
         SuspendUnchanged, swVars
<1>6. ASSUME WorkerTakesHibernation \/ WorkerTakesCommit PROVE TailMoves
  BY <1>6 DEF TailMoves, WorkerTakesHibernation, WorkerTakesCommit, WorkerTakes, swVars
<1>7. ASSUME Request PROVE TailMoves
  BY <1>5, <1>7 DEF TailMoves, Request, UserCommit, UserGetsVblank, UserEnables, UserExits, swVars
<1>8. ASSUME SendEvent \/ VblankOff \/ TimerFires \/ CameraStops \/ RuntimeSuspend \/ UNCHANGED vars PROVE TailMoves
  BY <1>8 DEF TailMoves, SendEvent, VblankOff, TimerFires, CameraStops, RuntimeSuspend, vars, swVars
<1> QED BY <1>1, <1>2, <1>3, <1>4, <1>5, <1>6, <1>7, <1>8 DEF Next, Progress

(* While a commit is queued none is swapped and the CRTC's state stays.      *)
LEMMA StillPending ==
  ASSUME Base, Pending, [Next]_vars
  PROVE  QueueMoves /\ crtc' = crtc /\ \A t \in Thread : ~CommitInline(t) /\ ~CommitQueue(t)
<1>1. \A t \in Thread : ~CommitInline(t) /\ ~CommitQueue(t)
  BY Swapped DEF CommitInline, CommitQueue, Goto
<1>2. tail'.new = tail.new
  BY <1>1, NextTail DEF TailMoves, Base, TypeOK, Commit
<1>3. crtc = tail.new /\ crtc' = tail'.new
  BY NextBase DEF Base, ActiveInv
<1> QED BY <1>1, <1>2, <1>3, NextQueue

LEMMA CommitTaken == ASSUME Base, WorkerTakesCommit PROVE ~Pending'
<1>1. queue # <<>> /\ Head(queue) = "commit" /\ queue' = Tail(queue) /\ Once(queue)
  BY DEF WorkerTakesCommit, WorkerTakes, Base, QueueInv
<1> QED BY <1>1, HeadItem DEF Pending

(* A commit that was not queued has been queued by some thread.              *)
LEMMA QueuedBy ==
  ASSUME Base, ~Pending, Pending', [Next]_vars PROVE \E t \in Thread : CommitQueue(t)
BY NothingQueued, NextQueue

LEMMA QueuedMeans ==
  ASSUME Base, KindInv, NEW t \in Thread, CommitQueue(t)
  PROVE  /\ nonblock[t] /\ pc[t] = "swap" /\ pc'[t] = back[t]
         /\ \A u \in Thread : u # t => pc'[u] = pc[u] /\ pc[u] # "swap"
         /\ crtc'.sr => t = Worker /\ back[t] = "hDone" /\ crtc.active
         /\ crtc'.hexit => t \in User /\ back[t] = "xUnblock"
<1>1. pc[t] = "swap" /\ pc' = [pc EXCEPT ![t] = back[t]] /\ SwapState(t) /\ nonblock[t]
  BY DEF CommitQueue, Goto
<1>2. \A u \in Thread : u # t => pc[u] # "swap"
  BY <1>1, Swapped
<1>3. /\ crtc' = tail'.new
      /\ crtc'.sr => kind[t] = "enter"
      /\ crtc'.hexit => kind[t] = "exit"
      /\ kind[t] = "enter" => crtc.active
  BY <1>1, SwapKinds
<1>4. /\ kind[t] = "enter" => t = Worker /\ back[t] = "hDone"
      /\ kind[t] = "exit" => t \in User /\ back[t] = "xUnblock"
  BY <1>1 DEF KindInv, Committing, UserKinds
<1>5. pc'[t] = back[t] /\ \A u \in Thread : u # t => pc'[u] = pc[u]
  BY <1>1 DEF Base, TypeOK
<1> QED BY <1>1, <1>2, <1>3, <1>4, <1>5

(* The worker goes on with the handler or with a commit, not with another.   *)
LEMMA WorkerFinishes ==
  ASSUME TypeOK, pc[Worker] \in {"idle", "hDone"}, Progress(Worker)
  PROVE  WorkerTakesHibernation \/ WorkerTakesCommit \/ pc'[Worker] = "idle"
<1>0. Worker \notin User /\ Worker # Suspender /\ Worker \in Thread
  BY Threads, HibernationAssumption
<1>1. ~CommitSteps(Worker)
  BY DEF CommitSteps, CommitRefused, CommitBusy, CommitCheck, CommitInline, CommitQueue, Goto
<1>2. ~Tail1(Worker)
  BY DEF Tail1, TailBlock, TailNoDisable, TailDisable, DeconStop, DeconStopped, DeconAlreadyStopped, CrtcDown,
         TailNoEnable, TailEnable, TailFlush, TailFlipDone, TailHwDone, TailUnblock, TailRearm, Goto
<1>3. RunSteps(Worker) => pc'[Worker] = "idle"
  BY <1>0 DEF TypeOK, RunSteps, RunLock, RunBlocked, RunAgain, RunEnter, RunDone, RunEnds, Submit, Goto
<1> QED BY <1>0, <1>1, <1>2, <1>3 DEF Progress

LEMMA NextEntry ==
  ASSUME Base, KindInv, CancelInv, EntryInv, [Next]_vars PROVE EntryInv'
<1> SUFFICES ASSUME Pending', crtc'.sr PROVE pc'[Worker] \in {"idle", "hDone"} /\ Head(queue') = "commit"
  BY DEF EntryInv
<1>0. TypeOK /\ Worker \in Thread
  BY Threads DEF Base
<1>1. CASE Pending
  <2>1. QueueMoves /\ crtc' = crtc
    BY <1>1, StillPending
  <2>2. pc[Worker] \in {"idle", "hDone"} /\ Head(queue) = "commit"
    BY <1>1, <2>1 DEF EntryInv
  <2>3. queue # <<>>
    BY <1>1 DEF Pending, Has
  <2>4. Head(queue') = "commit"
    BY <2>1, <2>2, <2>3, NextHead
  <2>5. ~WorkerTakesHibernation /\ ~WorkerTakesCommit
    BY <2>2, CommitTaken DEF WorkerTakesHibernation, WorkerTakes
  <2>6. Progress(Worker) => pc'[Worker] = "idle"
    BY <1>0, <2>2, <2>5, WorkerFinishes
  <2>7. ASSUME NEW t \in Thread, Steady(t) \/ Begun(t), t # Worker PROVE pc'[Worker] = pc[Worker]
    BY <1>0, <2>7, BegunMeans DEF Steady
  <2>8. pc'[Worker] = pc[Worker] \/ pc'[Worker] = "idle"
    BY <1>0, <2>6, <2>7, Moves DEF Idles
  <2> QED BY <2>2, <2>4, <2>8
<1>2. CASE ~Pending
  <2>1. PICK t \in Thread : CommitQueue(t)
    BY <1>2, QueuedBy
  <2>2. t = Worker /\ back[t] = "hDone" /\ crtc.active /\ pc'[t] = back[t]
    BY <2>1, QueuedMeans
  <2> QED BY <2>1, <2>2, EntryHead
<1> QED BY <1>1, <1>2

LEMMA NextExit ==
  ASSUME Base, KindInv, FlipInv, DarkInv, ApartInv, ExitInv, [Next]_vars PROVE ExitInv'
<1> SUFFICES ASSUME Pending', Committing(Worker)' PROVE ~crtc'.hexit
  BY DEF ExitInv
<1>0. TypeOK /\ Worker \in Thread /\ Worker \notin User
  BY Threads, HibernationAssumption DEF Base
<1>1. CASE Pending
  <2>1. crtc' = crtc
    BY <1>1, StillPending
  <2>2. CASE Committing(Worker)
    BY <1>1, <2>1, <2>2 DEF ExitInv
  <2>3. CASE ~Committing(Worker)
    <3>1. ASSUME NEW t \in Thread, Steady(t) PROVE FALSE
      BY <1>0, <2>3, <3>1 DEF Steady, Committing
    <3>2. ASSUME NEW t \in Thread, Begun(t), t # Worker PROVE FALSE
      BY <1>0, <2>3, <3>2, BegunMeans DEF Committing
    <3>3. Begun(Worker)
      BY <1>0, <2>3, <3>1, <3>2, Moves DEF Idles, Committing
    <3>4. decon = "ON"
      BY <1>0, <3>3, BegunMeans DEF RunEnter, IsBlocked
    <3>5. ~AtDown /\ ~AtEnable
      BY <1>1 DEF AtDown, AtEnable, Base, SerialInv, Live, LivePcs
    <3>6. tail.old.active
      BY <1>1, <3>4, <3>5 DEF DarkInv, Shown, Waiting
    <3> QED BY <2>1, <3>6 DEF FlipInv, Base, ActiveInv
  <2> QED BY <2>2, <2>3
<1>2. CASE ~Pending
  <2>1. PICK t \in Thread : CommitQueue(t)
    BY <1>2, QueuedBy
  <2>2. SUFFICES ASSUME crtc'.hexit PROVE FALSE
    OBVIOUS
  <2>3. t \in User /\ back[t] = "xUnblock" /\ pc[t] = "swap" /\ pc'[Worker] = pc[Worker]
    BY <1>0, <2>1, <2>2, QueuedMeans
  <2> QED BY <2>3 DEF ApartInv, Committing
<1> QED BY <1>1, <1>2

LEMMA NextOver ==
  ASSUME ~BlockOverPending, Base, KindInv, FlipInv, OverInv, [Next]_vars PROVE OverInv'
<1> SUFFICES ASSUME NEW u \in User, pc'[u] = "swap", Pending' PROVE crtc'.sr \/ crtc'.hexit
  BY DEF OverInv
<1>0. TypeOK /\ u \in Thread
  BY Threads DEF Base
<1>1. CASE Pending
  <2>1. crtc' = crtc
    BY <1>1, StillPending
  <2>2. CASE pc[u] = "swap"
    BY <1>1, <2>1, <2>2 DEF OverInv
  <2>3. CASE CommitCheck(u)
    <3>1. tail.live
      BY <1>1 DEF Base, SerialInv
    <3>2. nonblock[u] /\ ~Busy(u)
      BY <2>3, <3>1 DEF CommitCheck
    <3>3. ~tail.flip
      BY <1>1 DEF FlipInv
    <3> QED BY <2>1, <3>1, <3>2, <3>3 DEF Busy, Stall
  <2>4. CASE pc[u] # "swap" /\ ~CommitCheck(u)
    <3>1. ASSUME NEW t \in Thread, Steady(t) PROVE FALSE
      BY <1>0, <2>4, <3>1 DEF Steady
    <3>2. ASSUME NEW t \in Thread, Begun(t) PROVE FALSE
      <4>1. pc'[u] \in {"lock", pc[u]}
        BY <1>0, <3>2, BegunMeans
      <4> QED BY <2>4, <4>1
    <3> QED BY <1>0, <2>4, <3>1, <3>2, Moves DEF Idles
  <2> QED BY <2>2, <2>3, <2>4
<1>2. CASE ~Pending
  <2>1. PICK t \in Thread : CommitQueue(t)
    BY <1>2, QueuedBy
  <2>2. pc'[u] \in {back[t], pc[u]} /\ (pc'[u] = pc[u] => pc[u] # "swap" \/ u = t)
    BY <1>0, <2>1, QueuedMeans
  <2>3. u = t /\ pc'[t] = back[t]
    <3>1. back[t] # "swap"
      BY <1>0 DEF TypeOK
    <3> QED BY <1>0, <2>1, <2>2, <3>1, QueuedMeans
  <2> QED BY <1>0, <2>3 DEF TypeOK
<1> QED BY <1>1, <1>2

LEMMA InitStall == Init => StallInv
<1> SUFFICES ASSUME Init PROVE StallInv
  OBVIOUS
<1>1. \A t \in Thread : pc[t] = "idle"
  BY DEF Init
<1>2. ~Pending
  BY DEF Init, Pending, Has
<1>3. ~AtFlip /\ ~AtUnflushed /\ ~AtDownEnd /\ ~AtEnable
  BY <1>1 DEF AtFlip, AtUnflushed, AtDownEnd, AtEnable, PreFlush, Early, Down
<1>4. KindInv /\ ApartInv /\ ExitInv /\ OverInv
  BY <1>1, <1>2, Threads DEF KindInv, ApartInv, ExitInv, OverInv, Committing
<1>5. CancelInv /\ EntryInv
  BY <1>2 DEF Init, CancelInv, EntryInv
<1>6. FlipInv
  BY <1>2, <1>3 DEF Init, CrtcOff, FlipInv
<1>7. DarkInv
  BY <1>3 DEF Init, DarkInv
<1> QED BY <1>4, <1>5, <1>6, <1>7 DEF StallInv

LEMMA NextStall == ASSUME ~BlockOverPending PROVE Base /\ StallInv /\ [Next]_vars => StallInv'
<1> SUFFICES ASSUME Base, StallInv, [Next]_vars PROVE StallInv'
  OBVIOUS
<1>1. TypeOK
  BY DEF Base
<1> QED BY <1>1, NextKind, NextCancel, NextFlip, NextDark, NextEntry, NextApart, NextExit, NextOver DEF StallInv

(* Where blocking commits wait for the last frame before they take the       *)
(* modeset lock, the worker's handler and a committing thread never wait for *)
(* each other: only a nonblocking commit is made over a queued one, it only  *)
(* gets past -EBUSY over an entry or an exit, the entry is taken off the     *)
(* queue before the handler can run again, and an exit keeps it out.         *)
THEOREM NeverStalls == ASSUME ~BlockOverPending PROVE Spec => []NoCircularWait
<1> DEFINE IInv == Base /\ MutexInv /\ StallInv
<1>1. Init => IInv
  BY InitBase, InitSuspend, InitStall
<1>2. IInv /\ [Next]_vars => IInv'
  <2>1. Base => TypeOK
    BY DEF Base
  <2> QED BY <2>1, NextBase, NextMutex, NextStall
<1>3. IInv => NoCircularWait
  <2> SUFFICES ASSUME IInv, pc[Worker] = "lock", lock # NoThread, pc[lock] = "swap", tail.live, "commit" \in ToSet(queue)
               PROVE  FALSE
    BY DEF NoCircularWait
  <2> USE DEF IInv
  <2>1. Pending
    BY DEF ToSet, Pending, Has, Base, TypeOK
  <2>2. lock \in Thread /\ lock # Worker /\ Worker \in Thread
    BY Threads DEF Base, TypeOK
  <2>3. back[Worker] = "hDone"
    BY <2>2, Threads, HibernationAssumption DEF StallInv, KindInv, Committing
  <2>4. lock # Suspender
    <3>1. ASSUME lock = Suspender PROVE FALSE
      <4>1. back[Suspender] = "hDone"
        BY <2>2, <3>1, HibernationAssumption DEF StallInv, KindInv, Committing
      <4>2. Runs(Worker) /\ Runs(Suspender)
        BY <2>3, <3>1, <4>1 DEF Runs, InCommit
      <4> QED BY <2>2, <3>1, <4>2 DEF MutexInv
    <3> QED BY <3>1
  <2>5. lock \in User
    BY <2>2, <2>4 DEF Thread
  <2>6. crtc.sr \/ crtc.hexit
    BY <2>1, <2>5 DEF StallInv, OverInv
  <2>7. ~crtc.sr
    BY <2>1 DEF StallInv, EntryInv
  <2>8. ~crtc.hexit
    BY <2>1 DEF StallInv, ExitInv, Committing
  <2> QED BY <2>6, <2>7, <2>8
<1> HIDE DEF IInv
<1> QED BY <1>1, <1>2, <1>3, PTL DEF Spec
=============================================================================
