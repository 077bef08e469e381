--------------------------- MODULE PlanesProofs ---------------------------
(***************************************************************************)
(* Three results for any number of CRTCs, planes and windows.  The         *)
(* protection of secure buffers is sound, as long as two commit tails do   *)
(* not change secured_dpp_mask at once (invariant PInv).  After every      *)
(* commit windows and DPPs are wired as the states say, as long as no      *)
(* DECON is reset under a color map of another one and no invisible plane  *)
(* follows a commit without planes (invariant WInv).  And at every point   *)
(* of every tail the votes for bandwidth cover what the display fetches,   *)
(* as long as none of BtsRaceNames happens either (invariant BInv).        *)
(***************************************************************************)
EXTENDS Bandwidth, FiniteSetTheorems, TLAPS

-----------------------------------------------------------------------------
(* Types, as far as the argument needs them *)

JobRecord == [phase : Phases, todo : SUBSET Plane, removed : SUBSET Plane,
              zpos : BOOLEAN, skip : BOOLEAN]
StateRecord == [power : {"on", "sleep", "off"}, order : Seq(Plane)]

(* Which windows a DPP may know is left open: W. *)
DppRecord(W) == [on : BOOLEAN, decon : Crtc \cup {NoCrtc}, win : W, connected : BOOLEAN]

Typed ==
  /\ crtc \in [Crtc -> StateRecord]
  /\ job \in [Crtc -> JobRecord]
  /\ \E W : dpp \in [Plane -> DppRecord(W)]
  /\ protected \subseteq Plane
  /\ forwarded \in BOOLEAN

(* A family of subsets of a finite set has a member without smaller ones.    *)
LEMMA SmallestBad ==
  ASSUME NEW S, IsFiniteSet(S), NEW Bad \in SUBSET SUBSET S, Bad # {}
  PROVE  \E U \in Bad : \A x \in U : U \ {x} \notin Bad
<1>1. Bad \subseteq FiniteSubsetsOf(S)
  BY FS_Subset DEF FiniteSubsetsOf
<1>2. PICK U \in Bad : \A V \in Bad : <<V, U>> \notin StrictSubsetOrdering(S)
  BY <1>1, FS_StrictSubsetOrderingWellFounded, WFMin
<1>3. ASSUME NEW x \in U PROVE U \ {x} \notin Bad
  BY <1>2 DEF StrictSubsetOrdering
<1> QED BY <1>3

(* The lowest plane that a tail has still to do is one of them. *)
LEMMA LowestPlane == ASSUME NEW S \in SUBSET Plane, S # {} PROVE Min(S) \in S
<1>1. IsFiniteSet(Plane) /\ Plane \subseteq Int
  BY PlanesAssumption, FS_Interval DEF Plane
<1>2. IsFiniteSet(S) /\ S \subseteq Int
  BY <1>1, FS_Subset
<1> DEFINE Bad == {U \in SUBSET S : U # {} /\ \A m \in U : \E x \in U : ~(m <= x)}
<1>3. Bad = {}
  <2> SUFFICES ASSUME Bad # {} PROVE FALSE
    OBVIOUS
  <2>1. PICK U \in Bad : \A x \in U : U \ {x} \notin Bad
    <3>1. Bad \in SUBSET SUBSET S
      OBVIOUS
    <3> HIDE DEF Bad
    <3> QED BY <1>2, <3>1, SmallestBad
  <2>2. U # {} /\ (\A m \in U : \E x \in U : ~(m <= x)) /\ \A x \in U : x \in Int
    BY <1>2
  <2>3. PICK a \in U : TRUE
    BY <2>2
  <2>4. U \ {a} # {}
    BY <2>2, <2>3
  <2>5. PICK m \in U \ {a} : \A x \in U \ {a} : m <= x
    BY <2>1, <2>3, <2>4
  <2>6. CASE m <= a
    <3>1. \A x \in U : m <= x
      BY <2>5, <2>6
    <3> QED BY <2>2, <3>1
  <2>7. CASE ~(m <= a)
    <3>1. \A x \in U : a <= x
      BY <2>2, <2>5, <2>7
    <3> QED BY <2>2, <2>3, <3>1
  <2> QED BY <2>6, <2>7
<1>4. \E x \in S : \A y \in S : x <= y
  BY <1>3
<1> QED BY <1>4 DEF Min

(* The planes of a requested order are among those asked for. *)
LEMMA OrderOf ==
  ASSUME NEW P \in SUBSET Plane, NEW order \in SetToSeqs(P)
  PROVE  order \in Seq(Plane) /\ ToSet(order) \subseteq P
<1>1. IsFiniteSet(P)
  <2>1. IsFiniteSet(Plane)
    BY PlanesAssumption, FS_Interval DEF Plane
  <2> QED BY <2>1, FS_Subset
<1>2. Cardinality(P) \in Nat
  BY <1>1, FS_CardinalityType
<1>3. order \in [1 .. Cardinality(P) -> P]
  BY DEF SetToSeqs
<1> QED BY <1>2, <1>3 DEF ToSet

(* The order of a state has planes in it. *)
LEMMA OrderPlanes == ASSUME NEW order \in Seq(Plane) PROVE ToSet(order) \subseteq Plane
  BY DEF ToSet

(* Switching off a DPP keeps its record. *)
LEMMA DisabledTyped ==
  ASSUME NEW W, NEW d \in DppRecord(W)
  PROVE  DppDisabled(d) \in DppRecord(W) /\ DppDisabled(d).on = FALSE
  BY DEF DppDisabled, DppRecord

-----------------------------------------------------------------------------
(* The invariant *)

(* The planes that a CRTC may still touch. *)
Used(c) == ToSet(crtc[c].order) \cup job[c].removed \cup job[c].todo

Securing(c) == job[c].phase = "secure"

JobInv == \A c \in Crtc : job[c].phase = "idle" \/ crtc[c].power # "on" => job[c].todo = {}

Apart == \A c, d \in Crtc : c # d => Used(c) \cap Used(d) = {}

(* The masks and the EL3 forwarding, at most one SMC being on its way. *)
ForwardInv ==
  /\ mask = protected
  /\ (\E c \in Crtc : Securing(c)) => forwarded
  /\ (\A c \in Crtc : ~Securing(c)) => (forwarded <=> protected # {})
  /\ \A c, d \in Crtc : Securing(c) /\ Securing(d) => c = d

(* A DPP that is about to be protected runs for the CRTC that protects it. *)
SecureInv ==
  \A c \in Crtc : Securing(c) =>
    LET p == Min(job[c].todo)
    IN  job[c].todo # {} /\ dpp[p].on /\ dpp[p].decon = c /\ content[p] = "secure"

(* The planes that the tail of c is done with, or has not to touch. *)
Done(c) == ToSet(crtc[c].order) \ job[c].todo

DppInv ==
  /\ \A p \in protected \ refused : dpp[p].on
  /\ \A c \in Crtc : \A p \in Done(c) :
       dpp[p].on => p \in refused \/ (p \in protected <=> content[p] = "secure")

PInv == Typed /\ JobInv /\ Apart /\ ForwardInv /\ SecureInv /\ DppInv

(* At rest the invariant says what the property asks for. *)
LEMMA InvSound == PInv => ProtectionSound
<1> SUFFICES ASSUME PInv PROVE ProtectionSound
  OBVIOUS
<1>1. ASSUME NEW c \in Crtc, Settled(c), NEW p \in ToSet(crtc[c].order)
      PROVE  (p \in protected) = (dpp[p].on /\ content[p] = "secure") \/ p \in refused
  <2>1. p \in Done(c)
    BY <1>1 DEF PInv, JobInv, Settled, Done
  <2>2. p \in Plane
    BY OrderPlanes DEF PInv, Typed, StateRecord
  <2>3. dpp[p].on \in BOOLEAN
    BY <2>2 DEF PInv, Typed, DppRecord
  <2>4. CASE dpp[p].on
    BY <2>1, <2>4 DEF PInv, DppInv
  <2>5. CASE ~dpp[p].on
    BY <2>5 DEF PInv, DppInv
  <2> QED BY <2>4, <2>5
<1>2. protected # {} => forwarded
  BY DEF PInv, ForwardInv
<1>3. (\A c \in Crtc : job[c].phase # "secure") => (forwarded <=> protected # {})
  BY DEF PInv, ForwardInv, Securing
<1> QED BY <1>1, <1>2, <1>3 DEF ProtectionSound, PInv, ForwardInv

-----------------------------------------------------------------------------
(* Leaving protection mode *)

(* set_protection(dpp, 0) of the DPPs of T, while no SMC of another tail is  *)
(* on its way if one of them leaves: the masks stay equal, the forwarding    *)
(* ends with the last, and a DPP of T that stays protected was refused.      *)
LEMMA UnprotectEffect ==
  ASSUME PInv, NEW T, Unprotect(T), "mask_race" \notin Races
  PROVE  /\ protected' \subseteq protected /\ mask' = protected' /\ forwarded' \in BOOLEAN
         /\ (\E c \in Crtc : Securing(c)) => forwarded'
         /\ (\A c \in Crtc : ~Securing(c)) => (forwarded' <=> protected' # {})
         /\ T \cap protected' \subseteq refused'
         /\ \A q : q \notin T => /\ q \in protected' <=> q \in protected
                                 /\ q \in refused' <=> q \in refused
         /\ \A q \in protected' : q \in refused => q \in refused'
<1>1. PICK failed \in SUBSET (T \cap protected) :
        LET freed == (T \cap protected) \ failed
        IN  /\ freed # {} => \A c \in Crtc : job[c].phase # "secure"
            /\ protected' = protected \ freed
            /\ mask' = mask \ freed
            /\ forwarded' = Forwarding(mask \ freed)
            /\ refused' = (refused \ freed) \cup failed
  BY DEF Unprotect
<1> DEFINE freed == (T \cap protected) \ failed
<1>2. /\ freed # {} => \A c \in Crtc : ~Securing(c)
      /\ protected' = protected \ freed /\ mask' = mask \ freed
      /\ forwarded' = Forwarding(mask \ freed) /\ refused' = (refused \ freed) \cup failed
  BY <1>1 DEF Securing
<1>3. mask = protected /\ forwarded \in BOOLEAN
  BY DEF PInv, ForwardInv, Typed
<1>4. freed \subseteq protected /\ failed \subseteq protected /\ freed \subseteq T /\ failed \subseteq T
  OBVIOUS
<1>5. T \cap protected' \subseteq refused'
  BY <1>2
<1> HIDE DEF freed
<1>6. /\ protected' \subseteq protected /\ mask' = protected' /\ forwarded' \in BOOLEAN
  BY <1>2, <1>3 DEF Forwarding
<1>7. CASE freed = {}
  <2>1. protected' = protected /\ forwarded' = forwarded
    BY <1>2, <1>3, <1>7 DEF Forwarding
  <2>2. /\ (\E c \in Crtc : Securing(c)) => forwarded'
        /\ (\A c \in Crtc : ~Securing(c)) => (forwarded' <=> protected' # {})
    BY <2>1 DEF PInv, ForwardInv
  <2> QED BY <1>2, <1>4, <1>5, <1>6, <1>7, <2>2
<1>8. CASE freed # {}
  <2>1. \A c \in Crtc : ~Securing(c)
    BY <1>2, <1>8
  <2>2. mask # {} /\ forwarded
    BY <1>3, <1>4, <1>8, <2>1 DEF PInv, ForwardInv
  <2>3. forwarded' <=> protected' # {}
    BY <1>2, <1>3, <2>2 DEF Forwarding
  <2> QED BY <1>2, <1>4, <1>5, <1>6, <2>1, <2>3
<1> QED BY <1>7, <1>8

-----------------------------------------------------------------------------
(* Commits *)

(* A commit changes what its own CRTC shows; a plane whose content changes   *)
(* is one that the tail will touch, or is given up.                          *)
LEMMA CommitInv ==
  ASSUME PInv, NEW c \in Crtc, NEW power \in {"on", "sleep", "off"}, NEW order \in Seq(Plane),
         NEW touched \in SUBSET Plane, NEW shows, NEW modeset \in BOOLEAN,
         job[c].phase = "idle", Commit(c, power, order, touched, shows, modeset),
         ToSet(order) \cap Taken(c) = {}, touched \cap Taken(c) = {},
         ToSet(order) \subseteq ToSet(crtc[c].order) \cup touched,
         power # "on" => touched = {},
         \A p \in ToSet(order) : p \notin touched => shows[p] = content[p],
         \A p \in Taken(c) : shows[p] = content[p]
  PROVE  PInv'
<1> DEFINE old == crtc[c]
           planes == ToSet(order)
           removed == ToSet(old.order) \ planes
           zpos == order # old.order
           all == zpos \/ power # old.power \/ modeset
           todo == IF power # "on" THEN {} ELSE removed \cup (IF all THEN planes ELSE touched)
           phase == FirstPhase(c, power, modeset)
           left == IF phase = "idle" THEN {} ELSE removed
           skip == power = "on" /\ old.power = "sleep" /\ touched = {}
           j == Job(phase, todo, left, power = "on" /\ zpos, skip)
<1>1. /\ crtc' = [crtc EXCEPT ![c] = [power |-> power, order |-> order]]
      /\ job' = [job EXCEPT ![c] = j] /\ content' = shows
      /\ UNCHANGED <<dpp, protected, mask, forwarded, refused>>
  BY DEF Commit, prot
<1>2. planes \subseteq Plane /\ ToSet(old.order) \subseteq Plane /\ touched \subseteq Plane
  BY OrderPlanes DEF PInv, Typed, StateRecord
<1>3. todo \subseteq Plane /\ left \subseteq Plane
  BY <1>2
<1>4. phase \in {"idle", "stop", "start", "planes"}
  BY DEF FirstPhase
<1>5. phase = "idle" => power # "on"
  BY DEF FirstPhase
<1>6. skip \in BOOLEAN /\ (power = "on" /\ zpos) \in BOOLEAN
  OBVIOUS
<1>7. /\ j \in JobRecord /\ j.phase = phase /\ j.todo = todo /\ j.removed = left
  <2> HIDE DEF phase, todo, left, zpos, skip
  <2> QED BY <1>3, <1>4, <1>6 DEF Job, JobRecord, Phases
<1>8. todo \cup left \cup planes \subseteq ToSet(old.order) \cup planes \cup touched
  OBVIOUS
<1>9. power # "on" => todo = {}
  OBVIOUS
<1>10. \A p \in planes : p \notin todo => p \in ToSet(old.order) /\ shows[p] = content[p]
  OBVIOUS
<1> HIDE DEF j, phase, todo, left, skip, all
<1>11. /\ crtc'[c].order = order /\ crtc'[c].power = power /\ job'[c] = j
       /\ \A d \in Crtc : d # c => crtc'[d] = crtc[d] /\ job'[d] = job[d]
  BY <1>1 DEF PInv, Typed
<1>12. Typed'
  BY <1>1, <1>7 DEF PInv, Typed, StateRecord
<1>13. JobInv'
  BY <1>5, <1>7, <1>9, <1>11 DEF PInv, JobInv
<1>14. Used(c)' \subseteq Used(c) \cup planes \cup touched
  BY <1>7, <1>8, <1>11 DEF Used
<1>15. \A d \in Crtc : d # c => Used(d)' = Used(d) /\ Used(d) \subseteq Taken(c)
  BY <1>11 DEF Used, Taken
<1>16. Apart'
  <2> SUFFICES ASSUME NEW d \in Crtc, d # c PROVE Used(c)' \cap Used(d)' = {}
    BY <1>15 DEF PInv, Apart
  <2> QED BY <1>14, <1>15 DEF PInv, Apart
<1>17. \A d \in Crtc : Securing(d)' <=> Securing(d)
  BY <1>4, <1>7, <1>11 DEF Securing
<1>18. ForwardInv'
  BY <1>1, <1>17 DEF PInv, ForwardInv
<1>19. SecureInv'
  <2> SUFFICES ASSUME NEW d \in Crtc, Securing(d)
               PROVE  LET p == Min(job'[d].todo)
                      IN  job'[d].todo # {} /\ dpp'[p].on /\ dpp'[p].decon = d /\ content'[p] = "secure"
    BY <1>17 DEF SecureInv
  <2>1. d # c
    BY DEF Securing
  <2> DEFINE p == Min(job[d].todo)
  <2>2. job[d].todo # {} /\ dpp[p].on /\ dpp[p].decon = d /\ content[p] = "secure"
    BY DEF PInv, SecureInv
  <2>3. p \in job[d].todo
    BY <2>2, LowestPlane DEF PInv, Typed, JobRecord
  <2>4. shows[p] = content[p]
    BY <1>15, <2>1, <2>3 DEF Used
  <2> QED BY <1>1, <1>11, <2>1, <2>2, <2>4
<1>20. DppInv'
  <2>1. \A p \in Done(c)' : p \in Done(c) /\ content'[p] = content[p]
    <3>1. \A p \in Done(c)' : p \in planes /\ p \notin todo
      BY <1>7, <1>11 DEF Done
    <3>2. job[c].todo = {}
      BY DEF PInv, JobInv
    <3> QED BY <1>1, <1>10, <3>1, <3>2 DEF Done
  <2>2. \A d \in Crtc : d # c => \A p \in Done(d)' : p \in Done(d) /\ content'[p] = content[p]
    BY <1>1, <1>11, <1>15 DEF Done, Used
  <2> QED BY <1>1, <2>1, <2>2 DEF PInv, DppInv
<1> QED BY <1>12, <1>13, <1>16, <1>18, <1>19, <1>20 DEF PInv

(* What user space may ask for is such a commit. *)
LEMMA UserCommitInv == ASSUME PInv, NEW c \in Crtc, UserCommit(c) PROVE PInv'
<1> DEFINE Asked(P, power, modeset, order, touched) ==
             /\ power = "off" => crtc[c].power # "off" /\ touched = {} /\ order \in {<<>>, crtc[c].order}
             /\ P \ ToSet(crtc[c].order) \subseteq touched
             /\ \E shows \in [touched -> Contents \ {"none"}] :
                  Commit(c, power, order, touched, Committed(c, P, shows), modeset)
<1>1. \E P \in SUBSET (Plane \ Taken(c)), power \in {"on", "off"}, modeset \in BOOLEAN :
        \E order \in SetToSeqs(P), touched \in SUBSET P : Asked(P, power, modeset, order, touched)
  BY DEF UserCommit
<1> HIDE DEF Asked
<1>2. PICK P \in SUBSET (Plane \ Taken(c)), power \in {"on", "off"}, modeset \in BOOLEAN :
        \E order \in SetToSeqs(P), touched \in SUBSET P : Asked(P, power, modeset, order, touched)
  BY <1>1
<1>3. PICK order \in SetToSeqs(P), touched \in SUBSET P : Asked(P, power, modeset, order, touched)
  BY <1>2
<1>4. PICK asked \in [touched -> Contents \ {"none"}] :
        Commit(c, power, order, touched, Committed(c, P, asked), modeset)
  BY <1>3 DEF Asked
<1>5. /\ power = "off" => touched = {} /\ order \in {<<>>, crtc[c].order}
      /\ P \ ToSet(crtc[c].order) \subseteq touched
  BY <1>3 DEF Asked
<1> DEFINE shows == Committed(c, P, asked)
<1>6. \A p \in Plane : p \notin touched =>
        shows[p] = IF p \in ToSet(crtc[c].order) \ P THEN "none" ELSE content[p]
  BY DEF Committed
<1>7. order \in Seq(Plane) /\ ToSet(order) \subseteq P /\ P \subseteq Plane
  BY OrderOf
<1>8. ToSet(order) \subseteq ToSet(crtc[c].order) \cup touched
  BY <1>7, <1>5
<1>9. \A p \in ToSet(order) : p \notin touched => shows[p] = content[p]
  BY <1>6, <1>7
<1>10. ASSUME NEW p \in Taken(c) PROVE shows[p] = content[p]
  <2>1. PICK d \in Crtc \ {c} : p \in Used(d)
    BY <1>10 DEF Taken, Used
  <2>2. p \in Plane /\ p \notin ToSet(crtc[c].order)
    BY <2>1, OrderPlanes DEF PInv, Typed, Apart, Used, StateRecord, JobRecord
  <2> QED BY <1>6, <1>10, <2>2
<1>11. ToSet(order) \cap Taken(c) = {} /\ touched \cap Taken(c) = {} /\ touched \in SUBSET Plane
  BY <1>7
<1>12. job[c].phase = "idle" /\ power \in {"on", "sleep", "off"}
  BY DEF UserCommit, Ready
<1>13. power # "on" => touched = {}
  BY <1>5
<1>14. Commit(c, power, order, touched, shows, modeset)
  BY <1>4
<1>15. order \in Seq(Plane) /\ \A p \in Taken(c) : shows[p] = content[p]
  BY <1>7, <1>10
<1> HIDE DEF shows
<1> QED BY <1>8, <1>9, <1>11, <1>12, <1>13, <1>14, <1>15, CommitInv

(* Self refresh leaves the planes as they are. *)
LEMMA HibernateInv == ASSUME PInv, NEW c \in Crtc, Hibernate(c) PROVE PInv'
<1>1. Commit(c, "sleep", crtc[c].order, {}, content, FALSE) /\ job[c].phase = "idle"
  BY DEF Hibernate, Ready
<1>2. crtc[c].order \in Seq(Plane)
  BY DEF PInv, Typed, StateRecord
<1>3. ToSet(crtc[c].order) \cap Taken(c) = {}
  BY DEF PInv, Apart, Used, Taken
<1> QED BY <1>1, <1>2, <1>3, CommitInv

-----------------------------------------------------------------------------
(* The commit tail *)

(* A tail goes on with fewer planes to do, protecting none. *)
LEMMA TailStep ==
  ASSUME PInv, NEW c \in Crtc, NEW j \in JobRecord, crtc' = crtc, job' = [job EXCEPT ![c] = j],
         j.todo \subseteq job[c].todo, j.removed \subseteq job[c].removed, j.phase # "secure",
         j.phase = "idle" => j.todo = {}
  PROVE  /\ JobInv' /\ Apart'
         /\ \A d \in Crtc \ {c} : job'[d] = job[d]
         /\ job'[c] = j /\ job' \in [Crtc -> JobRecord]
<1>1. job'[c] = j /\ job' \in [Crtc -> JobRecord] /\ \A d \in Crtc \ {c} : job'[d] = job[d]
  BY DEF PInv, Typed
<1>2. \A d \in Crtc : Used(d)' \subseteq Used(d)
  BY <1>1 DEF Used
<1>3. Apart'
  BY <1>2 DEF PInv, Apart
<1>4. JobInv'
  BY <1>1 DEF PInv, JobInv
<1> QED BY <1>1, <1>3, <1>4

(* A step of c that may touch the DPPs of the set T: it leaves those of T    *)
(* protected as what they show needs, or refused, and all others alone.      *)
LEMMA TouchInv ==
  ASSUME PInv, NEW c \in Crtc, ~Securing(c), NEW j \in JobRecord, NEW T, NEW W,
         crtc' = crtc, content' = content, job' = [job EXCEPT ![c] = j],
         j.todo \subseteq job[c].todo, j.removed \subseteq job[c].removed, j.phase # "secure",
         j.phase = "idle" => j.todo = {},
         job[c].todo \ j.todo \subseteq T,
         dpp' \in [Plane -> DppRecord(W)],
         \A p \in Plane : p \notin T => dpp'[p] = dpp[p],
         protected' \subseteq protected, mask' = protected', forwarded' \in BOOLEAN,
         (\E d \in Crtc : Securing(d)) => forwarded',
         (\A d \in Crtc : ~Securing(d)) => (forwarded' <=> protected' # {}),
         \A p : p \notin T => (p \in protected' <=> p \in protected) /\ (p \in refused' <=> p \in refused),
         \A p \in T : p \in protected' => p \in refused' \/ (dpp'[p].on /\ content[p] = "secure"),
         \A p \in T : dpp'[p].on => p \in protected' \/ content[p] # "secure",
         \A d \in Crtc : Securing(d) => Min(job[d].todo) \notin T
  PROVE  PInv'
<1>1. /\ JobInv' /\ Apart'
      /\ \A d \in Crtc \ {c} : job'[d] = job[d]
      /\ job'[c] = j /\ job' \in [Crtc -> JobRecord]
  BY TailStep
<1>2. Typed'
  BY <1>1 DEF PInv, Typed
<1>3. \A d \in Crtc : Securing(d)' <=> Securing(d)
  BY <1>1 DEF Securing
<1>4. ForwardInv'
  BY <1>3 DEF PInv, ForwardInv
<1>5. SecureInv'
  <2> SUFFICES ASSUME NEW d \in Crtc, Securing(d)
               PROVE  LET p == Min(job'[d].todo)
                      IN  job'[d].todo # {} /\ dpp'[p].on /\ dpp'[p].decon = d /\ content'[p] = "secure"
    BY <1>3 DEF SecureInv
  <2> DEFINE p == Min(job[d].todo)
  <2>1. job'[d] = job[d]
    BY <1>1
  <2>2. job[d].todo # {} /\ dpp[p].on /\ dpp[p].decon = d /\ content[p] = "secure"
    BY DEF PInv, SecureInv
  <2>3. p \in Plane
    BY <2>2, LowestPlane DEF PInv, Typed, JobRecord
  <2>4. dpp'[p] = dpp[p]
    BY <2>3
  <2> HIDE DEF p
  <2> QED BY <2>1, <2>2, <2>4 DEF p
<1>6. \A p \in protected' \ refused' : dpp'[p].on
  BY DEF PInv, DppInv, Typed
<1>7. ASSUME NEW d \in Crtc, NEW p \in Done(d)', dpp'[p].on
      PROVE  p \in refused' \/ (p \in protected' <=> content'[p] = "secure")
  <2>1. CASE p \in T
    BY <1>7, <2>1
  <2>2. CASE p \notin T
    <3>1. p \in Done(d) /\ p \in Plane
      BY <1>1, <2>2, OrderPlanes DEF Done, PInv, Typed, StateRecord
    <3> QED BY <1>7, <2>2, <3>1 DEF PInv, DppInv
  <2> QED BY <2>1, <2>2
<1> QED BY <1>1, <1>2, <1>4, <1>5, <1>6, <1>7 DEF PInv, DppInv

(* A step of c that touches no DPP. *)
LEMMA IdleDpps ==
  ASSUME PInv, NEW c \in Crtc, ~Securing(c), NEW j \in JobRecord,
         crtc' = crtc, content' = content, job' = [job EXCEPT ![c] = j], UNCHANGED <<dpp, prot>>,
         j.todo = job[c].todo, j.removed \subseteq job[c].removed, j.phase # "secure",
         j.phase = "idle" => j.todo = {}
  PROVE  PInv'
<1>1. PICK W : dpp \in [Plane -> DppRecord(W)]
  BY DEF PInv, Typed
<1>2. UNCHANGED <<dpp, protected, mask, forwarded, refused>>
  BY DEF prot
<1>3. /\ protected' \subseteq protected /\ mask' = protected' /\ forwarded' \in BOOLEAN
      /\ (\E d \in Crtc : Securing(d)) => forwarded'
      /\ (\A d \in Crtc : ~Securing(d)) => (forwarded' <=> protected' # {})
  BY <1>2 DEF PInv, ForwardInv, Typed
<1> DEFINE T == {}
<1>4. /\ job[c].todo \ j.todo \subseteq T /\ j.todo \subseteq job[c].todo
      /\ \A p \in T : p \in protected' => p \in refused' \/ (dpp'[p].on /\ content[p] = "secure")
      /\ \A p \in T : dpp'[p].on => p \in protected' \/ content[p] # "secure"
      /\ \A d \in Crtc : Securing(d) => Min(job[d].todo) \notin T
  OBVIOUS
<1>5. /\ \A p : p \notin T => (p \in protected' <=> p \in protected) /\ (p \in refused' <=> p \in refused)
      /\ \A p \in Plane : p \notin T => dpp'[p] = dpp[p]
      /\ dpp' \in [Plane -> DppRecord(W)]
  BY <1>1, <1>2
<1> HIDE DEF T
<1> QED BY <1>3, <1>4, <1>5, TouchInv

(* No CRTC is about to protect a DPP that another one may touch, or owns. *)
LEMMA SecuringElsewhere ==
  ASSUME PInv, NEW c \in Crtc, ~Securing(c), NEW d \in Crtc, Securing(d)
  PROVE  LET p == Min(job[d].todo)
         IN  p \in Plane /\ p \notin Used(c) /\ dpp[p].decon \notin {c, NoCrtc}
<1> DEFINE p == Min(job[d].todo)
<1>1. job[d].todo # {} /\ dpp[p].decon = d
  BY DEF PInv, SecureInv
<1>2. p \in job[d].todo /\ p \in Plane
  BY <1>1, LowestPlane DEF PInv, Typed, JobRecord
<1>3. p \in Used(d)
  BY <1>2 DEF Used
<1> HIDE DEF p
<1>4. p \notin Used(c) /\ d # c
  BY <1>3 DEF PInv, Apart
<1>5. dpp[p].decon \notin {c, NoCrtc}
  BY <1>1, <1>4, PlanesAssumption DEF p
<1> QED BY <1>2, <1>4, <1>5 DEF p

(* Resetting a DECON switches off its DPPs and those of no DECON. *)
LEMMA ReinitInv ==
  ASSUME PInv, "mask_race" \notin Races, NEW c \in Crtc, ~Securing(c), NEW j \in JobRecord,
         crtc' = crtc, content' = content, job' = [job EXCEPT ![c] = j], Reinit(c),
         j.todo = job[c].todo, j.removed \subseteq job[c].removed, j.phase # "secure",
         j.phase = "idle" => j.todo = {}
  PROVE  PInv'
<1> DEFINE own == {p \in Plane : dpp[p].decon \in {c, NoCrtc}}
           U == {p \in own : dpp[p].on}
<1>1. PICK W : dpp \in [Plane -> DppRecord(W)]
  BY DEF PInv, Typed
<1>2. Unprotect(U) /\ dpp' = [p \in Plane |-> IF p \in own THEN [DppDisabled(dpp[p]) EXCEPT !.win = NoWin]
                                              ELSE dpp[p]]
  BY DEF Reinit
<1> DEFINE X == W \cup {NoWin}
<1>3. ASSUME NEW p \in own
      PROVE  [DppDisabled(dpp[p]) EXCEPT !.win = NoWin] \in DppRecord(X)
             /\ [DppDisabled(dpp[p]) EXCEPT !.win = NoWin].on = FALSE
  <2>1. DppDisabled(dpp[p]) \in DppRecord(W) /\ DppDisabled(dpp[p]).on = FALSE
    BY <1>1, DisabledTyped
  <2> QED BY <2>1 DEF DppRecord
<1>4. \A p \in Plane : dpp[p] \in DppRecord(X)
  BY <1>1 DEF DppRecord
<1> HIDE DEF X
<1>5. dpp' \in [Plane -> DppRecord(X)] /\ \A p \in own : dpp'[p].on = FALSE
  BY <1>2, <1>3, <1>4
<1>6. \A p \in Plane : p \notin own => dpp'[p] = dpp[p]
  BY <1>2
<1>7. \A d \in Crtc : Securing(d) => Min(job[d].todo) \notin own
  BY SecuringElsewhere
<1>8. /\ protected' \subseteq protected /\ mask' = protected' /\ forwarded' \in BOOLEAN
      /\ (\E d \in Crtc : Securing(d)) => forwarded'
      /\ (\A d \in Crtc : ~Securing(d)) => (forwarded' <=> protected' # {})
      /\ U \cap protected' \subseteq refused'
      /\ \A q : q \notin U => (q \in protected' <=> q \in protected) /\ (q \in refused' <=> q \in refused)
      /\ \A q \in protected' : q \in refused => q \in refused'
  BY <1>2, UnprotectEffect
<1>9. \A p \in own : p \in protected' => p \in refused'
  BY <1>8 DEF PInv, DppInv
<1> HIDE DEF own
<1>10. \A p : p \notin own => (p \in protected' <=> p \in protected) /\ (p \in refused' <=> p \in refused)
  BY <1>8
<1>11. /\ job[c].todo \ j.todo \subseteq own /\ j.todo \subseteq job[c].todo
       /\ \A p \in own : p \in protected' => p \in refused' \/ (dpp'[p].on /\ content[p] = "secure")
       /\ \A p \in own : dpp'[p].on => p \in protected' \/ content[p] # "secure"
  BY <1>5, <1>9
<1> HIDE DEF U
<1> QED BY <1>5, <1>6, <1>7, <1>8, <1>10, <1>11, TouchInv

(* decon_disable and decon_enter_hibernation. *)
LEMMA StopInv == ASSUME PInv, "mask_race" \notin Races, NEW c \in Crtc, Stop(c) PROVE PInv'
<1> DEFINE j == IF crtc[c].power = "on" THEN [job[c] EXCEPT !.phase = "start"]
                ELSE Job("idle", {}, {}, FALSE, FALSE)
<1>1. /\ job' = [job EXCEPT ![c] = j] /\ crtc' = crtc /\ content' = content /\ ~Securing(c)
      /\ IF decon[c] = "ON" THEN Reinit(c) ELSE UNCHANGED <<window, dpp, prot>>
  BY DEF Stop, drm, Securing
<1>2. job[c] \in JobRecord
  BY DEF PInv, Typed
<1>3. crtc[c].power # "on" => job[c].todo = {}
  BY DEF PInv, JobInv
<1>4. /\ j \in JobRecord /\ j.todo = job[c].todo /\ j.removed \subseteq job[c].removed
      /\ j.phase # "secure" /\ (j.phase = "idle" => j.todo = {})
  BY <1>2, <1>3 DEF JobRecord, Job, Phases
<1> HIDE DEF j
<1>5. CASE decon[c] = "ON"
  BY <1>1, <1>4, <1>5, ReinitInv
<1>6. CASE decon[c] # "ON"
  BY <1>1, <1>4, <1>6, IdleDpps
<1> QED BY <1>5, <1>6

(* decon_enable and decon_exit_hibernation. *)
LEMMA StartInv == ASSUME PInv, "mask_race" \notin Races, NEW c \in Crtc, Start(c) PROVE PInv'
<1> DEFINE j == [job[c] EXCEPT !.phase = "planes"]
<1>1. /\ job' = [job EXCEPT ![c] = j] /\ crtc' = crtc /\ content' = content /\ ~Securing(c)
      /\ IF decon[c] = "INIT" THEN Reinit(c) ELSE UNCHANGED <<window, dpp, prot>>
  BY DEF Start, drm, Securing
<1>2. job[c] \in JobRecord
  BY DEF PInv, Typed
<1>3. /\ j \in JobRecord /\ j.todo = job[c].todo /\ j.removed = job[c].removed /\ j.phase = "planes"
  BY <1>2 DEF JobRecord, Phases
<1> HIDE DEF j
<1>4. CASE decon[c] = "INIT"
  BY <1>1, <1>3, <1>4, ReinitInv
<1>5. CASE decon[c] # "INIT"
  BY <1>1, <1>3, <1>5, IdleDpps
<1> QED BY <1>4, <1>5

(* decon_atomic_flush. *)
LEMMA FlushInv == ASSUME PInv, NEW c \in Crtc, Flush(c) PROVE PInv'
<1> DEFINE j == Job("idle", {}, {}, FALSE, job[c].skip)
<1>1. /\ job' = [job EXCEPT ![c] = j] /\ crtc' = crtc /\ content' = content /\ ~Securing(c)
      /\ UNCHANGED <<dpp, prot>> /\ job[c].todo = {}
  BY DEF Flush, drm, Securing
<1>2. job[c] \in JobRecord
  BY DEF PInv, Typed
<1>3. j \in JobRecord /\ j.todo = {} /\ j.removed = {} /\ j.phase = "idle"
  BY <1>2 DEF JobRecord, Job, Phases
<1> HIDE DEF j
<1> QED BY <1>1, <1>3, IdleDpps

(* One plane p of the tail of c is done: its DPP is d now, and was taken out *)
(* of protection mode if it is in U.                                         *)
LEMMA PlaneDone ==
  ASSUME PInv, "mask_race" \notin Races, NEW c \in Crtc, job[c].phase = "planes", NEW p,
         p = Min(job[c].todo), job[c].todo # {}, crtc' = crtc, content' = content,
         job' = [job EXCEPT ![c].todo = job[c].todo \ {p}], NEW W, NEW d \in DppRecord(W),
         dpp' = [dpp EXCEPT ![p] = d], NEW U \in SUBSET {p}, Unprotect(U),
         dpp[p].on /\ ~d.on => p \in U,
         d.on => p \in protected' \/ content[p] # "secure",
         d.on /\ content[p] # "secure" => p \in U
  PROVE  PInv'
<1> DEFINE T == {p}
           j == [job[c] EXCEPT !.todo = job[c].todo \ {p}]
<1>1. job[c] \in JobRecord /\ job' = [job EXCEPT ![c] = j]
  BY DEF PInv, Typed
<1>2. p \in job[c].todo /\ p \in Plane
  BY <1>1, LowestPlane DEF JobRecord
<1>3. /\ j \in JobRecord /\ j.todo = job[c].todo \ {p} /\ j.removed = job[c].removed
      /\ j.phase = "planes"
  BY <1>1, <1>2 DEF JobRecord
<1>4. PICK V : dpp \in [Plane -> DppRecord(V)]
  BY DEF PInv, Typed
<1> DEFINE X == V \cup W
<1>5. dpp \in [Plane -> DppRecord(X)] /\ d \in DppRecord(X)
  <2>1. DppRecord(V) \subseteq DppRecord(X) /\ DppRecord(W) \subseteq DppRecord(X)
    BY DEF DppRecord
  <2> HIDE DEF X
  <2> QED BY <1>4, <2>1
<1> HIDE DEF X, j
<1>6. /\ dpp' \in [Plane -> DppRecord(X)] /\ dpp'[p] = d
      /\ \A q \in Plane : q \notin T => dpp'[q] = dpp[q]
  BY <1>2, <1>5
<1>7. ~Securing(c)
  BY DEF Securing
<1>8. \A e \in Crtc : Securing(e) => Min(job[e].todo) \notin T
  BY <1>2, <1>7, SecuringElsewhere DEF Used
<1>9. /\ protected' \subseteq protected /\ mask' = protected' /\ forwarded' \in BOOLEAN
      /\ (\E e \in Crtc : Securing(e)) => forwarded'
      /\ (\A e \in Crtc : ~Securing(e)) => (forwarded' <=> protected' # {})
      /\ U \cap protected' \subseteq refused'
      /\ \A q : q \notin U => (q \in protected' <=> q \in protected) /\ (q \in refused' <=> q \in refused)
      /\ \A q \in protected' : q \in refused => q \in refused'
  BY UnprotectEffect
<1>10. p \in protected' => p \in refused' \/ (d.on /\ content[p] = "secure")
  <2>1. CASE p \in U
    BY <1>9, <2>1
  <2>2. CASE p \notin U
    BY <1>2, <1>9, <2>2 DEF PInv, DppInv
  <2> QED BY <2>1, <2>2
<1>11. /\ job[c].todo \ j.todo \subseteq T /\ j.todo \subseteq job[c].todo
       /\ \A q \in T : q \in protected' => q \in refused' \/ (dpp'[q].on /\ content[q] = "secure")
       /\ \A q \in T : dpp'[q].on => q \in protected' \/ content[q] # "secure"
       /\ \A q : q \notin T => (q \in protected' <=> q \in protected) /\ (q \in refused' <=> q \in refused)
  BY <1>3, <1>6, <1>9, <1>10
<1> HIDE DEF T
<1> QED BY <1>1, <1>3, <1>6, <1>7, <1>8, <1>9, <1>11, TouchInv

(* exynos_plane_atomic_disable, and planes that are not visible. *)
LEMMA DisablePlaneInv ==
  ASSUME PInv, "mask_race" \notin Races, NEW c \in Crtc, DisablePlane(c) PROVE PInv'
<1> DEFINE p == Min(job[c].todo)
           U == {q \in {p} : dpp[q].on}
           d == DppDisabled(dpp[p])
<1>1. /\ job[c].phase = "planes" /\ job[c].todo # {} /\ crtc' = crtc /\ content' = content
      /\ job' = [job EXCEPT ![c].todo = job[c].todo \ {p}] /\ dpp' = [dpp EXCEPT ![p] = d]
      /\ Unprotect(U)
  BY DEF DisablePlane, drm
<1>2. p \in Plane
  BY <1>1, LowestPlane DEF PInv, Typed, JobRecord
<1>3. PICK W : dpp \in [Plane -> DppRecord(W)]
  BY DEF PInv, Typed
<1>4. d \in DppRecord(W) /\ d.on = FALSE
  BY <1>2, <1>3, DisabledTyped
<1>5. U \in SUBSET {p} /\ (dpp[p].on => p \in U)
  OBVIOUS
<1> HIDE DEF d, U, p
<1> QED BY <1>1, <1>4, <1>5, PlaneDone DEF p

(* decon_update_plane of a color map. *)
LEMMA ColorPlaneInv ==
  ASSUME PInv, "mask_race" \notin Races, NEW c \in Crtc, ColorPlane(c) PROVE PInv'
<1> DEFINE p == Min(job[c].todo)
           U == {q \in {p} : dpp[q].on}
           e == [dpp[p] EXCEPT !.decon = c]
           d == [DppDisabled(e) EXCEPT !.win = WinOf(c, p)]
<1>1. /\ job[c].phase = "planes" /\ job[c].todo # {} /\ crtc' = crtc /\ content' = content
      /\ job' = [job EXCEPT ![c].todo = job[c].todo \ {p}] /\ dpp' = [dpp EXCEPT ![p] = d]
      /\ Unprotect(U)
  BY DEF ColorPlane, drm
<1>2. p \in Plane
  BY <1>1, LowestPlane DEF PInv, Typed, JobRecord
<1>3. PICK W : dpp \in [Plane -> DppRecord(W)]
  BY DEF PInv, Typed
<1> DEFINE X == W \cup {WinOf(c, p)}
<1>4. d \in DppRecord(X) /\ d.on = FALSE
  <2>1. e \in DppRecord(W)
    BY <1>2, <1>3 DEF DppRecord
  <2> HIDE DEF e
  <2>2. DppDisabled(e) \in DppRecord(W) /\ DppDisabled(e).on = FALSE
    BY <2>1, DisabledTyped
  <2> HIDE DEF p
  <2> QED BY <2>2 DEF DppRecord
<1>5. U \in SUBSET {p} /\ (dpp[p].on => p \in U)
  OBVIOUS
<1> HIDE DEF d, U, p, X
<1> QED BY <1>1, <1>4, <1>5, PlaneDone DEF p

(* decon_update_plane of a buffer that needs no SMC_PROTECTION_SET, or only  *)
(* one that ends protection.                                                 *)
LEMMA FetchInv ==
  ASSUME PInv, "mask_race" \notin Races, NEW c \in Crtc, UpdatePlane(c),
         content[Min(job[c].todo)] = "secure" => Min(job[c].todo) \in protected
  PROVE  PInv'
<1> DEFINE p == Min(job[c].todo)
           U == IF content[p] = "buffer" THEN {p} ELSE {}
           d == [on |-> TRUE, decon |-> c, win |-> WinOf(c, p), connected |-> TRUE]
<1>1. /\ job[c].phase = "planes" /\ job[c].todo # {} /\ crtc' = crtc /\ content' = content
      /\ job' = [job EXCEPT ![c].todo = job[c].todo \ {p}] /\ dpp' = [dpp EXCEPT ![p] = d]
      /\ Unprotect(U) /\ content[p] \in {"buffer", "secure"}
  BY DEF UpdatePlane, drm, Fetched
<1> DEFINE W == {WinOf(c, p)}
<1>2. d \in DppRecord(W) /\ d.on = TRUE
  BY DEF DppRecord
<1>3. /\ protected' \subseteq protected
      /\ \A q : q \notin U => (q \in protected' <=> q \in protected)
  BY <1>1, UnprotectEffect
<1>4. /\ U \in SUBSET {p}
      /\ content[p] # "secure" => p \in U
      /\ p \in protected' \/ content[p] # "secure"
  BY <1>1, <1>3
<1>5. (dpp[p].on /\ ~d.on => p \in U) /\ (d.on /\ content[p] # "secure" => p \in U)
  BY <1>4
<1> HIDE DEF d, U, p, W
<1> QED BY <1>1, <1>2, <1>4, <1>5, PlaneDone DEF p

(* decon_update_plane of a secure buffer whose DPP has to go into protection *)
(* mode: registers are forwarded to EL3 before the SMC.                      *)
LEMMA ProtectInv ==
  ASSUME PInv, "mask_race" \notin Races, NEW c \in Crtc, UpdatePlane(c),
         content[Min(job[c].todo)] = "secure", Min(job[c].todo) \notin protected
  PROVE  PInv'
<1> DEFINE p == Min(job[c].todo)
           d == [on |-> TRUE, decon |-> c, win |-> WinOf(c, p), connected |-> TRUE]
           j == [job[c] EXCEPT !.phase = "secure"]
<1>1. /\ job[c].phase = "planes" /\ job[c].todo # {} /\ crtc' = crtc /\ content' = content
      /\ job' = [job EXCEPT ![c].phase = "secure"] /\ dpp' = [dpp EXCEPT ![p] = d]
      /\ \A e \in Crtc : ~Securing(e)
      /\ forwarded' = Forwarding(mask \cup {p}) /\ UNCHANGED <<protected, mask, refused>>
  BY DEF UpdatePlane, drm, Securing
<1>2. job[c] \in JobRecord /\ p \in Plane /\ p \in job[c].todo
  BY <1>1, LowestPlane DEF PInv, Typed, JobRecord
<1>3. job' = [job EXCEPT ![c] = j]
  BY <1>1 DEF PInv, Typed
<1>4. j \in JobRecord /\ j.todo = job[c].todo /\ j.removed = job[c].removed /\ j.phase = "secure"
  BY <1>2 DEF JobRecord, Phases
<1>5. PICK W : dpp \in [Plane -> DppRecord(W)]
  BY DEF PInv, Typed
<1> DEFINE X == W \cup {WinOf(c, p)}
<1>6. dpp \in [Plane -> DppRecord(X)] /\ d \in DppRecord(X)
  <2>1. DppRecord(W) \subseteq DppRecord(X) /\ d \in DppRecord(X)
    BY DEF DppRecord
  <2> HIDE DEF X, d
  <2> QED BY <1>5, <2>1
<1> HIDE DEF X, j
<1>7. /\ dpp' \in [Plane -> DppRecord(X)] /\ dpp'[p].on = TRUE /\ dpp'[p].decon = c
      /\ \A q \in Plane : q # p => dpp'[q] = dpp[q]
  BY <1>1, <1>2, <1>6
<1>8. /\ job'[c] = j /\ job' \in [Crtc -> JobRecord]
      /\ \A e \in Crtc \ {c} : job'[e] = job[e]
  BY <1>3, <1>4 DEF PInv, Typed
<1>9. \A e \in Crtc : Used(e)' = Used(e) /\ Done(e)' = Done(e)
  BY <1>1, <1>4, <1>8 DEF Used, Done
<1>10. forwarded' = TRUE
  BY <1>1 DEF Forwarding, PInv, ForwardInv, Typed
<1>11. Typed' /\ Apart' /\ JobInv'
  <2>1. Typed'
    BY <1>1, <1>7, <1>8, <1>10 DEF PInv, Typed
  <2>2. Apart'
    BY <1>9 DEF PInv, Apart
  <2>3. JobInv'
    BY <1>1, <1>4, <1>8 DEF PInv, JobInv
  <2> QED BY <2>1, <2>2, <2>3
<1>12. \A e \in Crtc : Securing(e)' <=> e = c
  BY <1>1, <1>4, <1>8 DEF Securing
<1>13. ForwardInv'
  BY <1>1, <1>10, <1>12 DEF PInv, ForwardInv
<1>14. SecureInv'
  BY <1>1, <1>4, <1>7, <1>8, <1>12 DEF SecureInv
<1>15. \A q \in protected' \ refused' : dpp'[q].on
  BY <1>1, <1>7 DEF PInv, DppInv, Typed
<1>16. ASSUME NEW e \in Crtc, NEW q \in Done(e)', dpp'[q].on
       PROVE  q \in refused' \/ (q \in protected' <=> content'[q] = "secure")
  <2>1. q # p
    BY <1>2, <1>9, <1>16 DEF PInv, Apart, Used, Done
  <2>2. q \in Plane /\ q \in Done(e)
    BY <1>9, <1>16, OrderPlanes DEF Done, PInv, Typed, StateRecord
  <2> QED BY <1>1, <1>7, <1>16, <2>1, <2>2 DEF PInv, DppInv
<1> QED BY <1>11, <1>13, <1>14, <1>15, <1>16 DEF PInv, DppInv

(* The SMC returns: the DPP is protected, or refused; if it was the first,   *)
(* the forwarding ends with the failure.                                     *)
LEMMA SecuredInv == ASSUME PInv, NEW c \in Crtc, Secured(c) PROVE PInv'
<1> DEFINE p == Min(job[c].todo)
           j == [job[c] EXCEPT !.phase = "planes", !.todo = job[c].todo \ {p}]
<1>1. /\ Securing(c) /\ crtc' = crtc /\ content' = content /\ dpp' = dpp
      /\ job' = [job EXCEPT ![c].phase = "planes", ![c].todo = job[c].todo \ {p}]
  BY DEF Secured, drm, Securing
<1>2. \/ /\ protected' = protected \cup {p} /\ mask' = mask \cup {p}
         /\ refused' = refused \ {p} /\ forwarded' = forwarded
      \/ /\ refused' = refused \cup {p} /\ forwarded' = (forwarded /\ mask # {})
         /\ protected' = protected /\ mask' = mask
  BY DEF Secured
<1>3. job[c].todo # {} /\ dpp[p].on /\ content[p] = "secure"
  BY <1>1 DEF PInv, SecureInv
<1>4. job[c] \in JobRecord /\ p \in Plane /\ p \in job[c].todo
  BY <1>3, LowestPlane DEF PInv, Typed, JobRecord
<1>5. job' = [job EXCEPT ![c] = j]
  BY <1>1 DEF PInv, Typed
<1>6. /\ j \in JobRecord /\ j.todo = job[c].todo \ {p} /\ j.removed = job[c].removed
      /\ j.phase = "planes"
  BY <1>4 DEF JobRecord, Phases
<1> HIDE DEF j
<1>7. /\ job'[c] = j /\ job' \in [Crtc -> JobRecord]
      /\ \A e \in Crtc \ {c} : job'[e] = job[e]
  BY <1>5, <1>6 DEF PInv, Typed
<1>8. \A e \in Crtc : Used(e)' \subseteq Used(e)
  BY <1>1, <1>6, <1>7 DEF Used
<1>9. Typed'
  BY <1>1, <1>2, <1>4, <1>7 DEF PInv, Typed
<1>10. Apart' /\ JobInv'
  <2>1. crtc'[c].power = "on"
    BY <1>1, <1>3 DEF PInv, JobInv
  <2> QED BY <1>1, <1>6, <1>7, <1>8, <2>1 DEF PInv, Apart, JobInv
<1>11. \A e \in Crtc : ~Securing(e)'
  BY <1>1, <1>6, <1>7 DEF Securing, PInv, ForwardInv
<1>12. SecureInv' /\ ForwardInv'
  <2>1. forwarded = TRUE /\ mask = protected
    BY <1>1 DEF PInv, ForwardInv, Typed
  <2>2. mask' = protected' /\ (forwarded' <=> protected' # {})
    BY <1>2, <2>1
  <2> QED BY <1>11, <2>2 DEF SecureInv, ForwardInv
<1> HIDE DEF p
<1>13. \A q \in protected' \ refused' : dpp'[q].on
  BY <1>1, <1>2, <1>3 DEF PInv, DppInv
<1>14. ASSUME NEW e \in Crtc, NEW q \in Done(e)', dpp'[q].on
       PROVE  q \in refused' \/ (q \in protected' <=> content'[q] = "secure")
  <2>1. CASE q = p
    BY <1>1, <1>2, <1>3, <2>1
  <2>2. CASE q # p
    <3>1. q \in Done(e)
      BY <1>1, <1>6, <1>7, <2>2 DEF Done
    <3> QED BY <1>1, <1>2, <1>14, <2>2, <3>1 DEF PInv, DppInv
  <2> QED BY <2>1, <2>2
<1> QED BY <1>9, <1>10, <1>12, <1>13, <1>14 DEF PInv, DppInv

-----------------------------------------------------------------------------
(* Protection: the theorems *)

(* Nothing is protected at the start. *)
LEMMA InitPInv == Init => PInv
<1> SUFFICES ASSUME Init PROVE PInv
  OBVIOUS
<1>1. \A c \in Crtc : job[c] = Job("idle", {}, {}, FALSE, FALSE) /\ ToSet(crtc[c].order) = {}
  BY DEF Init, ToSet
<1>2. Job("idle", {}, {}, FALSE, FALSE) \in JobRecord
  BY DEF Job, JobRecord, Phases
<1>3. [power |-> "off", order |-> <<>>] \in StateRecord
  BY DEF StateRecord
<1>4. [on |-> FALSE, decon |-> NoCrtc, win |-> 0, connected |-> FALSE] \in DppRecord({0})
  BY DEF DppRecord
<1>5. Typed
  BY <1>2, <1>3, <1>4 DEF Init, Typed
<1>6. \A c \in Crtc : job[c].phase = "idle" /\ job[c].todo = {} /\ Used(c) = {} /\ Done(c) = {} /\ ~Securing(c)
  BY <1>1 DEF Job, Used, Done, Securing
<1>7. protected = {} /\ mask = {} /\ forwarded = FALSE
  BY DEF Init
<1> QED BY <1>5, <1>6, <1>7 DEF PInv, JobInv, Apart, ForwardInv, SecureInv, DppInv

(* Every step of every CRTC keeps the invariant. *)
LEMMA NextPInv == ASSUME PInv, "mask_race" \notin Races, [Next]_vars PROVE PInv'
<1>1. ASSUME NEW c \in Crtc, UserCommit(c) PROVE PInv'
  BY <1>1, UserCommitInv
<1>2. ASSUME NEW c \in Crtc, Hibernate(c) PROVE PInv'
  BY <1>2, HibernateInv
<1>3. ASSUME NEW c \in Crtc, Stop(c) PROVE PInv'
  BY <1>3, StopInv
<1>4. ASSUME NEW c \in Crtc, Start(c) PROVE PInv'
  BY <1>4, StartInv
<1>5. ASSUME NEW c \in Crtc, DisablePlane(c) PROVE PInv'
  BY <1>5, DisablePlaneInv
<1>6. ASSUME NEW c \in Crtc, ColorPlane(c) PROVE PInv'
  BY <1>6, ColorPlaneInv
<1>7. ASSUME NEW c \in Crtc, UpdatePlane(c) PROVE PInv'
  <2>1. CASE content[Min(job[c].todo)] = "secure" => Min(job[c].todo) \in protected
    BY <1>7, <2>1, FetchInv
  <2>2. CASE content[Min(job[c].todo)] = "secure" /\ Min(job[c].todo) \notin protected
    BY <1>7, <2>2, ProtectInv
  <2> QED BY <2>1, <2>2
<1>8. ASSUME NEW c \in Crtc, Secured(c) PROVE PInv'
  BY <1>8, SecuredInv
<1>9. ASSUME NEW c \in Crtc, Flush(c) PROVE PInv'
  BY <1>9, FlushInv
<1>10. CASE UNCHANGED vars
  <2>1. UNCHANGED <<crtc, content, job, dpp, protected, mask, forwarded, refused>>
    BY <1>10 DEF vars, drm, prot
  <2>2. Typed' /\ JobInv'
    BY <2>1 DEF PInv, Typed, JobInv
  <2>3. \A c \in Crtc : Used(c)' = Used(c) /\ Done(c)' = Done(c) /\ (Securing(c)' <=> Securing(c))
    BY <2>1 DEF Used, Done, Securing
  <2>4. Apart' /\ ForwardInv'
    BY <2>1, <2>3 DEF PInv, Apart, ForwardInv
  <2>5. SecureInv' /\ DppInv'
    BY <2>1, <2>3 DEF PInv, SecureInv, DppInv
  <2> QED BY <2>2, <2>4, <2>5 DEF PInv
<1> QED BY <1>1, <1>2, <1>3, <1>4, <1>5, <1>6, <1>7, <1>8, <1>9, <1>10 DEF Next

(* Whatever commits, planes and CRTCs there are: secured_dpp_mask is the set *)
(* of DPPs in protection mode, their registers are forwarded to EL3 exactly  *)
(* as long as there are any, and after a commit those that fetch secure      *)
(* buffers are protected and no others, unless their SMC failed.  The        *)
(* hypothesis is what the driver does not see to: that no two tails change   *)
(* secured_dpp_mask at once.                                                 *)
THEOREM Protected == "mask_race" \notin Races /\ Spec => []ProtectionSound
<1>1. CASE "mask_race" \notin Races
  <2>1. PInv /\ [Next]_vars => PInv'
    BY <1>1, NextPInv
  <2> QED BY <2>1, InitPInv, InvSound, PTL DEF Spec
<1>2. CASE "mask_race" \in Races
  BY <1>2
<1> QED BY <1>1, <1>2

(* Voting for bandwidth delays what a commit tail does, and never changes    *)
(* it: the tails of exynos_drm_fb.c implement those of Planes.               *)
THEOREM VotingImplementsTails == BtsSpec => Spec
<1>1. BtsInit => Init
  BY DEF BtsInit
<1>2. [BtsNext]_btsVars => [Next]_vars
  BY DEF BtsNext, btsVars, TailCommit, TailStop, PreUpdate, TailStart, TailPlanes, TailFlip, PostUpdate, Next
<1> QED BY <1>1, <1>2, PTL DEF BtsSpec, Spec

(* So protection is sound while DECONs vote for bandwidth as well. *)
THEOREM ProtectedWhileVoting == "mask_race" \notin Races /\ BtsSpec => []ProtectionSound
  BY Protected, VotingImplementsTails

-----------------------------------------------------------------------------
(* The wiring of planes to windows *)

WiringTypes ==
  /\ crtc \in [Crtc -> StateRecord] /\ (\A c \in Crtc : IsInjective(crtc[c].order))
  /\ job \in [Crtc -> JobRecord]
  /\ owner \in [Win -> Crtc \cup {NoCrtc}]
  /\ content \in [Plane -> Contents] /\ commits \in 0 .. MaxCommits
  /\ decon \in [Crtc -> {"INIT", "ON", "HIBERNATION", "OFF"}]
  /\ window \in [Crtc -> [Win -> {Dark} \cup ({"dpp", "color"} \X (0 .. NPlane))]]
  /\ dpp \in [Plane -> DppRecord(0 .. NoWin)]
  /\ protected \subseteq Plane /\ mask \subseteq Plane /\ refused \subseteq Plane
  /\ forwarded \in BOOLEAN

(* The window of the i-th plane of c, and whether that plane is visible.     *)
At(c, i)    == WinAt(Pool!Held(c), i - 1)
Visible(c, i) == content[crtc[c].order[i]] # "invisible"

Entries(c) == DOMAIN crtc[c].order

(* Nothing visible of the state belongs at this window. *)
Spare(c, w) == \A i \in Entries(c) : Visible(c, i) => At(c, i) # w

(* What each power state, with a tail that is in some phase, has to do.      *)
PhaseInv(c) ==
  /\ Cardinality(Pool!Held(c)) = WinCnt(crtc[c].power, crtc[c].order)
  /\ job[c].phase = "idle" =>
       job[c].todo = {} /\ job[c].removed = {} /\ ~job[c].zpos
       /\ (crtc[c].power = "on" <=> decon[c] = "ON")
  /\ crtc[c].power # "on" => job[c].todo = {} /\ job[c].phase \in {"idle", "stop"}
  /\ job[c].todo \subseteq ToSet(crtc[c].order) \cup job[c].removed
  /\ job[c].phase \in {"planes", "secure"} => decon[c] = "ON"
  /\ job[c].phase \in {"stop", "start"} /\ crtc[c].power = "on" => ToSet(crtc[c].order) \subseteq job[c].todo
  /\ job[c].phase = "start" => decon[c] # "ON"

(* The planes of a state show something; those given up show nothing, and    *)
(* are off when the tail has been at them.                                   *)
ContentInv(c) ==
  /\ \A p \in ToSet(crtc[c].order) : content[p] # "none"
  /\ \A p \in job[c].removed :
       /\ content[p] = "none"
       /\ crtc[c].power = "on" /\ p \notin job[c].todo => ~dpp[p].on

(* The i-th plane of c is done: its window shows it, or it is off.           *)
Wired(c, i) ==
  LET p == crtc[c].order[i]
  IN  IF content[p] = "invisible" THEN ~dpp[p].on
      ELSE /\ window[c][At(c, i)] = <<IF content[p] = "color" THEN "color" ELSE "dpp", p>>
           /\ dpp[p].win = At(c, i) /\ (dpp[p].on <=> content[p] \in Fetched)
           /\ dpp[p].on => dpp[p].decon = c

(* A window that nothing visible takes is dark, or what it shows is disabled *)
(* by the plane that still knows it, or it is the color map of no planes.    *)
Stale(c, w) ==
  \/ window[c][w] = Dark
  \/ \E q \in job[c].todo, use \in {"dpp", "color"} :
       /\ window[c][w] = <<use, q>> /\ dpp[q].win = w
       /\ use = "dpp" => dpp[q].on /\ dpp[q].decon = c
  \/ window[c][w] = <<"color", 0>> /\ crtc[c].order = <<>> /\ ~job[c].skip /\ w = At(c, 1)

(* The windows of a DECON that runs, before, in and after a tail.            *)
WindowInv(c) ==
  job[c].phase \in {"idle", "planes", "secure"} /\ decon[c] = "ON" =>
    /\ \A i \in Entries(c) : crtc[c].order[i] \notin job[c].todo => Wired(c, i)
    /\ \A w \in Win : Spare(c, w) => Stale(c, w)
    /\ job[c].phase = "idle" /\ crtc[c].order = <<>> /\ ~job[c].skip =>
         window[c][At(c, 1)] = <<"color", 0>>

(* A plane that moves to another zpos is among those that are looked up.     *)
KnownInv(c) ==
  job[c].phase \in {"idle", "planes", "secure"} /\ decon[c] = "ON" /\ ~job[c].zpos =>
    \A i \in Entries(c) : dpp[crtc[c].order[i]].connected => dpp[crtc[c].order[i]].win = At(c, i)

(* The plane whose SMC is on its way is connected already.                   *)
BusyInv(c) ==
  job[c].phase = "secure" =>
    /\ job[c].todo # {}
    /\ \E i \in Entries(c) : crtc[c].order[i] = Min(job[c].todo) /\ Visible(c, i) /\ Wired(c, i)

DarkInv(c) == decon[c] # "ON" => \A w \in Win : window[c][w] = Dark

CrtcInv(c) ==
  PhaseInv(c) /\ ContentInv(c) /\ WindowInv(c) /\ KnownInv(c) /\ BusyInv(c) /\ DarkInv(c)

(* A DPP that runs does so for a CRTC that uses it, on a DECON that runs.    *)
DppOwned(p) ==
  /\ dpp[p].connected => dpp[p].on
  /\ dpp[p].on => LET c == dpp[p].decon
                  IN  c \in Crtc /\ decon[c] = "ON" /\ p \in ToSet(crtc[c].order) \cup job[c].removed

WInv == WiringTypes /\ Apart /\ (\A c \in Crtc : CrtcInv(c)) /\ (\A p \in Plane : DppOwned(p))

-----------------------------------------------------------------------------
(* Windows by their rank *)

(* decon_get_win_id finds a window: a reserved set has one of each rank, and *)
(* only one.                                                                 *)
LEMMA WindowOfRank ==
  ASSUME NEW R \in SUBSET Win, NEW k \in Int, 0 <= k, k < Cardinality(R)
  PROVE  WinAt(R, k) \in R /\ Cardinality({v \in R : v < WinAt(R, k)}) = k
<1>1. IsFiniteSet(R) /\ R \subseteq Int /\ Cardinality(R) \in Nat
  <2>1. IsFiniteSet(Win) /\ Win \subseteq Int
    BY PlanesAssumption, FS_Interval DEF Win
  <2> QED BY <2>1, FS_Subset, FS_CardinalityType
<1> DEFINE below(w) == {v \in R : v < w}
           rank == [w \in R |-> Cardinality(below(w))]
           T == 0 .. Cardinality(R) - 1
<1>2. ASSUME NEW w \in R
      PROVE  IsFiniteSet(below(w)) /\ Cardinality(below(w)) \in Nat /\ Cardinality(below(w)) < Cardinality(R)
  <2>1. below(w) \in SUBSET R /\ w \notin below(w)
    BY <1>1
  <2>2. IsFiniteSet(below(w)) /\ Cardinality(below(w)) \in Nat /\ Cardinality(below(w)) <= Cardinality(R)
        /\ (Cardinality(R) = Cardinality(below(w)) => R = below(w))
    BY <1>1, <2>1, FS_Subset, FS_CardinalityType
  <2> HIDE DEF below
  <2> QED BY <1>1, <2>1, <2>2
<1>3. rank \in [R -> T]
  <2> HIDE DEF below
  <2> QED BY <1>1, <1>2
<1>4. ASSUME NEW w \in R, NEW v \in R, v < w PROVE rank[v] < rank[w]
  <2>1. below(v) \in SUBSET below(w) /\ v \in below(w) /\ v \notin below(v)
    <3>1. v \in Int /\ w \in Int /\ \A u \in R : u \in Int
      BY <1>1
    <3>2. \A u \in R : u < v => u < w
      BY <1>4, <3>1
    <3>3. v \notin below(v) /\ v \in below(w)
      BY <1>4, <3>1
    <3>4. \A u \in below(v) : u \in below(w)
      BY <3>2
    <3> QED BY <3>3, <3>4
  <2>2. IsFiniteSet(below(w)) /\ Cardinality(below(w)) \in Nat /\ Cardinality(below(v)) \in Nat
    BY <1>2
  <2>3. Cardinality(below(v)) <= Cardinality(below(w))
        /\ (Cardinality(below(w)) = Cardinality(below(v)) => below(w) = below(v))
    BY <2>1, <2>2, FS_Subset
  <2> HIDE DEF below
  <2> QED BY <2>1, <2>2, <2>3
<1>5. rank \in Injection(R, T)
  <2>1. ASSUME NEW w \in R, NEW v \in R, rank[v] = rank[w] PROVE v = w
    <3>1. rank[v] \in Int /\ rank[w] \in Int /\ v \in Int /\ w \in Int
      BY <1>1, <1>3
    <3>2. ~(v < w) /\ ~(w < v)
      BY <1>4, <2>1, <3>1
    <3> QED BY <3>1, <3>2
  <2> HIDE DEF rank
  <2> QED BY <1>3, <2>1 DEF Injection, IsInjective
<1>6. IsFiniteSet(T) /\ Cardinality(T) = Cardinality(R)
  <2>1. IsFiniteSet(T) /\ Cardinality(T) = IF 0 > Cardinality(R) - 1 THEN 0 ELSE Cardinality(R) - 1 - 0 + 1
    <3>1. 0 \in Int /\ Cardinality(R) - 1 \in Int
      BY <1>1
    <3> QED BY <3>1, FS_Interval
  <2> QED BY <1>1, <2>1
<1> HIDE DEF T, rank
<1>7. rank \in Surjection(R, T)
  BY <1>5, <1>6, FS_Injection
<1>8. k \in T
  BY <1>1 DEF T
<1>9. \E w \in R : rank[w] = k
  BY <1>7, <1>8 DEF Surjection
<1>10. \E w \in R : Cardinality({v \in R : v < w}) = k
  BY <1>9 DEF rank
<1> QED BY <1>10 DEF WinAt

(* Windows of different ranks are different. *)
LEMMA RanksDiffer ==
  ASSUME NEW R \in SUBSET Win, NEW k \in Int, NEW j \in Int, 0 <= k, k < Cardinality(R), 0 <= j, j < Cardinality(R),
         WinAt(R, k) = WinAt(R, j)
  PROVE  k = j
<1> DEFINE n(w) == Cardinality({v \in R : v < w})
<1>1. n(WinAt(R, k)) = k /\ n(WinAt(R, j)) = j
  BY WindowOfRank
<1> HIDE DEF n
<1> QED BY <1>1

(* The order of a state has all the planes asked for, each once. *)
LEMMA OrderIsAll ==
  ASSUME NEW P \in SUBSET Plane, NEW order \in SetToSeqs(P)
  PROVE  ToSet(order) = P /\ IsInjective(order) /\ order \in Seq(Plane)
<1>1. IsFiniteSet(P) /\ Cardinality(P) \in Nat
  <2>1. IsFiniteSet(Plane)
    BY PlanesAssumption, FS_Interval DEF Plane
  <2> QED BY <2>1, FS_Subset, FS_CardinalityType
<1> DEFINE D == 1 .. Cardinality(P)
<1>2. order \in [D -> P] /\ \A i, j \in D : i # j => order[i] # order[j]
  BY DEF SetToSeqs
<1>3. IsFiniteSet(D) /\ Cardinality(D) = Cardinality(P)
  BY <1>1, FS_Interval
<1>4. order \in Seq(Plane)
  BY OrderOf
<1> HIDE DEF D
<1>5. DOMAIN order = D /\ IsInjective(order) /\ order \in Injection(D, P)
  BY <1>2 DEF IsInjective, Injection
<1>6. order \in Surjection(D, P)
  BY <1>1, <1>3, <1>5, FS_Injection
<1> QED BY <1>2, <1>4, <1>5, <1>6 DEF Surjection, ToSet

(* A CRTC that is not off has windows for its planes, and at least one. *)
LEMMA Places ==
  ASSUME NEW R \in SUBSET Win, NEW power, power # "off", NEW order \in Seq(Plane),
         Cardinality(R) = WinCnt(power, order)
  PROVE  /\ \A i \in DOMAIN order : WinAt(R, i - 1) \in R
         /\ \A i, j \in DOMAIN order : WinAt(R, i - 1) = WinAt(R, j - 1) => i = j
         /\ WinAt(R, 0) \in R
<1> DEFINE n == Len(order)
<1>1. n \in Nat /\ DOMAIN order = 1 .. n
  OBVIOUS
<1> HIDE DEF n
<1>2. Max({1, n}) \in Nat /\ Max({1, n}) >= 1 /\ Max({1, n}) >= n
  <2>1. \E x \in {1, n} : \A y \in {1, n} : x >= y
    BY <1>1
  <2>2. Max({1, n}) \in {1, n} /\ \A y \in {1, n} : Max({1, n}) >= y
    BY <2>1 DEF Max
  <2> QED BY <1>1, <2>2
<1>3. Cardinality(R) = Max({1, n})
  BY DEF WinCnt, n
<1> DEFINE m == Cardinality(R)
<1>4. m \in Nat /\ m >= 1 /\ m >= n
  BY <1>2, <1>3
<1>5. ASSUME NEW i \in DOMAIN order PROVE i - 1 \in Int /\ 0 <= i - 1 /\ i - 1 < m /\ i \in Int
  <2> HIDE DEF m
  <2> QED BY <1>1, <1>4
<1>6. \A i \in DOMAIN order : WinAt(R, i - 1) \in R
  BY <1>5, WindowOfRank
<1>7. ASSUME NEW i \in DOMAIN order, NEW j \in DOMAIN order, WinAt(R, i - 1) = WinAt(R, j - 1) PROVE i = j
  <2>1. i - 1 = j - 1
    BY <1>5, <1>7, RanksDiffer
  <2> QED BY <1>5, <2>1
<1>8. WinAt(R, 0) \in R
  <2>1. 0 \in Int /\ 0 <= 0 /\ 0 < Cardinality(R)
    BY <1>4
  <2> QED BY <2>1, WindowOfRank
<1> QED BY <1>6, <1>7, <1>8

(* The same for the windows of a CRTC in a state of the system. *)
LEMMA Located ==
  ASSUME NEW c \in Crtc, WiringTypes, PhaseInv(c), crtc[c].power # "off"
  PROVE  /\ \A i \in Entries(c) : At(c, i) \in Win
         /\ \A i, j \in Entries(c) : At(c, i) = At(c, j) => i = j
         /\ At(c, 1) \in Win
<1>1. Pool!Held(c) \in SUBSET Win /\ crtc[c].order \in Seq(Plane)
      /\ Cardinality(Pool!Held(c)) = WinCnt(crtc[c].power, crtc[c].order)
  BY DEF Pool!Held, WiringTypes, StateRecord, PhaseInv
<1> DEFINE R == Pool!Held(c)
<1>2. R \in SUBSET Win /\ Cardinality(R) = WinCnt(crtc[c].power, crtc[c].order)
  BY <1>1
<1> HIDE DEF R
<1>3. /\ \A i \in DOMAIN crtc[c].order : WinAt(R, i - 1) \in R
      /\ \A i, j \in DOMAIN crtc[c].order : WinAt(R, i - 1) = WinAt(R, j - 1) => i = j
      /\ WinAt(R, 0) \in R
  BY <1>1, <1>2, Places
<1>4. 1 - 1 = 0
  OBVIOUS
<1> QED BY <1>2, <1>3, <1>4 DEF At, Entries, R

(* The planes of an order, by entry. *)
LEMMA EntryPlanes ==
  ASSUME NEW c \in Crtc, WiringTypes
  PROVE  /\ \A i \in Entries(c) : crtc[c].order[i] \in ToSet(crtc[c].order) /\ crtc[c].order[i] \in Plane
         /\ \A p \in ToSet(crtc[c].order) : \E i \in Entries(c) : crtc[c].order[i] = p
         /\ \A i, j \in Entries(c) : crtc[c].order[i] = crtc[c].order[j] => i = j
<1>1. crtc[c].order \in Seq(Plane) /\ IsInjective(crtc[c].order)
  BY DEF WiringTypes, StateRecord
<1>2. \A i, j \in Entries(c) : crtc[c].order[i] = crtc[c].order[j] => i = j
  BY <1>1 DEF IsInjective, Entries
<1>3. \A i \in Entries(c) : crtc[c].order[i] \in ToSet(crtc[c].order)
  BY DEF ToSet, Entries
<1>4. \A p \in ToSet(crtc[c].order) : \E i \in Entries(c) : crtc[c].order[i] = p
  BY DEF ToSet, Entries
<1>5. ToSet(crtc[c].order) \subseteq Plane
  BY <1>1, OrderPlanes
<1> QED BY <1>2, <1>3, <1>4, <1>5

-----------------------------------------------------------------------------
(* Another CRTC's steps *)

(* What c has wired stays wired if nobody touches its state, its windows and *)
(* the DPPs it uses, except for one that is off and shown nowhere on c.      *)
LEMMA Untouched ==
  ASSUME NEW c \in Crtc, WiringTypes, CrtcInv(c), crtc'[c] = crtc[c], job'[c] = job[c], decon'[c] = decon[c],
         window'[c] = window[c], Pool!Held(c)' = Pool!Held(c),
         \A p \in Used(c) : content'[p] = content[p],
         \A p \in Used(c) : \/ dpp'[p] = dpp[p]
                            \/ /\ ~dpp[p].on /\ ~dpp'[p].on /\ ~dpp'[p].connected
                               /\ \A w \in Win : window[c][w] # <<"color", p>>
  PROVE  CrtcInv(c)'
<1>1. /\ \A i \in Entries(c) : crtc[c].order[i] \in Used(c)
      /\ \A p \in job[c].removed \cup job[c].todo : p \in Used(c)
  BY EntryPlanes DEF Used
<1>2. Entries(c)' = Entries(c) /\ \A i : At(c, i)' = At(c, i)
  BY DEF Entries, At
<1>3. PhaseInv(c)'
  BY DEF CrtcInv, PhaseInv
<1>4. ContentInv(c)'
  <2>1. \A p \in ToSet(crtc[c].order) : p \in Used(c)
    BY DEF Used
  <2>2. \A p \in Used(c) : ~dpp[p].on => ~dpp'[p].on
    OBVIOUS
  <2>3. \A p \in ToSet(crtc[c].order) : content'[p] # "none"
    BY <2>1 DEF CrtcInv, ContentInv
  <2>4. \A p \in job[c].removed : content'[p] = "none" /\ (crtc[c].power = "on" /\ p \notin job[c].todo => ~dpp'[p].on)
    BY <1>1, <2>2 DEF CrtcInv, ContentInv
  <2> QED BY <2>3, <2>4 DEF ContentInv
<1>5. ASSUME NEW i \in Entries(c), Wired(c, i), crtc[c].power # "off" PROVE Wired(c, i)'
  <2> DEFINE p == crtc[c].order[i]
             use == IF content[p] = "color" THEN "color" ELSE "dpp"
  <2>1. p \in Used(c) /\ content'[p] = content[p]
    BY <1>1
  <2>2. At(c, i) \in Win
    BY <1>5, Located DEF CrtcInv
  <2>3. CASE content[p] = "invisible"
    <3>1. ~dpp'[p].on
      BY <1>5, <2>1, <2>3 DEF Wired
    <3> QED BY <2>1, <2>3, <3>1 DEF Wired
  <2>4. CASE content[p] # "invisible"
    <3>1. /\ window[c][At(c, i)] = <<use, p>> /\ dpp[p].win = At(c, i)
          /\ (dpp[p].on <=> content[p] \in Fetched) /\ (dpp[p].on => dpp[p].decon = c)
      BY <1>5, <2>4 DEF Wired
    <3>2. dpp'[p] = dpp[p]
      <4>1. CASE content[p] = "color"
        BY <2>1, <2>2, <3>1, <4>1
      <4>2. CASE content[p] = "none"
        <5>1. content[p] # "none"
          BY EntryPlanes DEF CrtcInv, ContentInv
        <5> QED BY <4>2, <5>1
      <4>3. CASE content[p] \in Fetched
        BY <2>1, <3>1, <4>3
      <4>4. content[p] \in {"none", "color"} \cup Fetched
        BY <2>4, EntryPlanes DEF WiringTypes, Contents, Fetched
      <4> QED BY <4>1, <4>2, <4>3, <4>4
    <3> HIDE DEF p
    <3> QED BY <1>2, <2>1, <2>4, <3>1, <3>2 DEF Wired, p
  <2> QED BY <2>3, <2>4
<1>6. ASSUME NEW w \in Win, Stale(c, w) PROVE Stale(c, w)'
  <2>1. CASE window[c][w] = Dark
    BY <2>1 DEF Stale
  <2>2. CASE window[c][w] = <<"color", 0>> /\ crtc[c].order = <<>> /\ ~job[c].skip /\ w = At(c, 1)
    BY <1>2, <2>2 DEF Stale
  <2>3. ASSUME NEW q \in job[c].todo, NEW use \in {"dpp", "color"}, window[c][w] = <<use, q>>, dpp[q].win = w,
               use = "dpp" => dpp[q].on /\ dpp[q].decon = c
        PROVE  Stale(c, w)'
    <3>1. dpp'[q] = dpp[q]
      BY <1>1, <2>3
    <3> QED BY <2>3, <3>1 DEF Stale
  <2> QED BY <1>6, <2>1, <2>2, <2>3 DEF Stale
<1>7. ASSUME job[c].phase \in {"idle", "planes", "secure"}, decon[c] = "ON" PROVE crtc[c].power # "off"
  BY <1>7 DEF CrtcInv, PhaseInv
<1>8. WindowInv(c)'
  <2> SUFFICES ASSUME job[c].phase \in {"idle", "planes", "secure"}, decon[c] = "ON" PROVE WindowInv(c)'
    BY DEF WindowInv
  <2>1. ASSUME NEW i \in Entries(c), crtc[c].order[i] \notin job[c].todo PROVE Wired(c, i)'
    BY <1>5, <1>7, <2>1 DEF CrtcInv, WindowInv
  <2>2. ASSUME NEW w \in Win, Spare(c, w)' PROVE Stale(c, w)'
    <3>1. Spare(c, w)
      <4>1. \A i \in Entries(c) : Visible(c, i)' <=> Visible(c, i)
        BY <1>1 DEF Visible
      <4> QED BY <1>2, <2>2, <4>1 DEF Spare
    <3> QED BY <1>6, <3>1 DEF CrtcInv, WindowInv
  <2>3. job[c].phase = "idle" /\ crtc[c].order = <<>> /\ ~job[c].skip => window'[c][At(c, 1)'] = <<"color", 0>>
    BY <1>2 DEF CrtcInv, WindowInv
  <2> QED BY <1>2, <2>1, <2>2, <2>3 DEF WindowInv
<1>9. KnownInv(c)'
  <2> SUFFICES ASSUME job[c].phase \in {"idle", "planes", "secure"}, decon[c] = "ON", ~job[c].zpos,
                      NEW i \in Entries(c), dpp'[crtc[c].order[i]].connected
               PROVE  dpp'[crtc[c].order[i]].win = At(c, i)'
    BY <1>2 DEF KnownInv
  <2>1. dpp'[crtc[c].order[i]] = dpp[crtc[c].order[i]]
    BY <1>1
  <2> QED BY <1>2, <2>1 DEF CrtcInv, KnownInv
<1>10. BusyInv(c)'
  <2> SUFFICES ASSUME job[c].phase = "secure"
               PROVE  job[c].todo # {} /\ \E i \in Entries(c) : crtc[c].order[i] = Min(job[c].todo) /\ (Visible(c, i) /\ Wired(c, i))'
    BY <1>2 DEF BusyInv
  <2>1. crtc[c].power # "off"
    BY DEF CrtcInv, PhaseInv
  <2>2. \A i \in Entries(c) : Visible(c, i)' <=> Visible(c, i)
    BY <1>1 DEF Visible
  <2> QED BY <1>5, <2>1, <2>2 DEF CrtcInv, BusyInv
<1>11. DarkInv(c)'
  BY DEF CrtcInv, DarkInv
<1> QED BY <1>3, <1>4, <1>8, <1>9, <1>10, <1>11 DEF CrtcInv

-----------------------------------------------------------------------------
(* Steps of a tail *)

DeconStates == {"INIT", "ON", "HIBERNATION", "OFF"}
Uses        == {Dark} \cup ({"dpp", "color"} \X (0 .. NPlane))

ProtTypes ==
  /\ protected \subseteq Plane /\ mask \subseteq Plane /\ refused \subseteq Plane
  /\ forwarded \in BOOLEAN

(* Leaving protection mode keeps the types. *)
LEMMA UnprotectTypes == ASSUME ProtTypes, NEW S, Unprotect(S) PROVE ProtTypes'
<1>1. PICK failed \in SUBSET (S \cap protected) :
        LET freed == (S \cap protected) \ failed
        IN  /\ protected' = protected \ freed /\ mask' = mask \ freed
            /\ forwarded' = Forwarding(mask \ freed) /\ refused' = (refused \ freed) \cup failed
  BY DEF Unprotect
<1>2. protected' \subseteq Plane /\ mask' \subseteq Plane /\ refused' \subseteq Plane
  BY <1>1 DEF ProtTypes
<1>3. forwarded' \in BOOLEAN
  BY <1>1 DEF ProtTypes, Forwarding
<1> QED BY <1>2, <1>3 DEF ProtTypes

(* A tail changes neither the states nor the windows they have reserved.     *)
LEMMA TailTypes ==
  ASSUME WiringTypes, NEW c \in Crtc, NEW j \in JobRecord, NEW x \in DeconStates, NEW y \in [Win -> Uses],
         UNCHANGED drm, job' = [job EXCEPT ![c] = j], decon' = [decon EXCEPT ![c] = x],
         window' = [window EXCEPT ![c] = y], dpp' \in [Plane -> DppRecord(0 .. NoWin)], ProtTypes'
  PROVE  WiringTypes'
<1>1. crtc' = crtc /\ owner' = owner /\ content' = content /\ commits' = commits
  BY DEF drm
<1>2. job' \in [Crtc -> JobRecord] /\ decon' \in [Crtc -> DeconStates] /\ window' \in [Crtc -> [Win -> Uses]]
  BY DEF WiringTypes, DeconStates, Uses
<1> QED BY <1>1, <1>2 DEF WiringTypes, ProtTypes, DeconStates, Uses

(* A step of the tail of c, that changes the DPPs of T: those that c uses,   *)
(* or that are off and shown nowhere else.                                   *)
TailMove(c, j, x, y, T) ==
  /\ UNCHANGED drm /\ job' = [job EXCEPT ![c] = j] /\ decon' = [decon EXCEPT ![c] = x]
  /\ window' = [window EXCEPT ![c] = y] /\ dpp' \in [Plane -> DppRecord(0 .. NoWin)] /\ ProtTypes'
  /\ j.todo \subseteq job[c].todo /\ j.removed \subseteq job[c].removed
  /\ \A p \in Plane : p \notin T => dpp'[p] = dpp[p]
  /\ \A p \in T : \/ p \in Used(c)
                  \/ /\ ~dpp[p].on /\ ~dpp'[p].on /\ ~dpp'[p].connected
                     /\ \A d \in Crtc \ {c}, w \in Win : window[d][w] # <<"color", p>>
  /\ \A p \in Plane \cap T : DppOwned(p)'
  /\ \A p \in Plane \ T : dpp[p].on /\ dpp[p].decon = c => x = "ON" /\ p \in ToSet(crtc[c].order) \cup j.removed

(* Such a step keeps the invariant if c keeps its part of it. *)
LEMMA TailKeeps ==
  ASSUME WInv, NEW c \in Crtc, NEW j \in JobRecord, NEW x \in DeconStates, NEW y \in [Win -> Uses], NEW T,
         TailMove(c, j, x, y, T), CrtcInv(c)'
  PROVE  WInv'
<1> USE DEF TailMove
<1>1. WiringTypes' /\ WiringTypes
  BY TailTypes DEF WInv
<1>2. /\ crtc' = crtc /\ owner' = owner /\ content' = content
      /\ \A d \in Crtc \ {c} : job'[d] = job[d] /\ decon'[d] = decon[d] /\ window'[d] = window[d]
      /\ job'[c] = j /\ decon'[c] = x
  BY <1>1 DEF drm, WiringTypes
<1>3. \A d \in Crtc : Used(d)' \subseteq Used(d)
  BY <1>2 DEF Used
<1>4. Apart /\ Apart'
  BY <1>3 DEF WInv, Apart
<1>5. ASSUME NEW d \in Crtc \ {c} PROVE CrtcInv(d)'
  <2>1. \A p \in Used(d) : p \in Plane /\ p \notin Used(c)
    BY <1>1, <1>4, OrderPlanes DEF Apart, Used, WiringTypes, StateRecord, JobRecord
  <2>2. \A p \in Used(d) : \/ dpp'[p] = dpp[p]
                           \/ /\ ~dpp[p].on /\ ~dpp'[p].on /\ ~dpp'[p].connected
                              /\ \A w \in Win : window[d][w] # <<"color", p>>
    BY <2>1
  <2>3. Pool!Held(d)' = Pool!Held(d)
    BY <1>2 DEF Pool!Held
  <2>4. CrtcInv(d)
    BY DEF WInv
  <2>5. \A p \in Used(d) : content'[p] = content[p]
    BY <1>2
  <2>6. crtc'[d] = crtc[d] /\ job'[d] = job[d] /\ decon'[d] = decon[d] /\ window'[d] = window[d]
    BY <1>2
  <2> QED BY <1>1, <2>2, <2>3, <2>4, <2>5, <2>6, Untouched
<1>6. ASSUME NEW p \in Plane \ T PROVE DppOwned(p)'
  <2>1. dpp'[p] = dpp[p] /\ DppOwned(p)
    BY DEF WInv
  <2>2. CASE dpp[p].on /\ dpp[p].decon = c
    BY <1>2, <2>1, <2>2 DEF DppOwned
  <2>3. CASE dpp[p].on /\ dpp[p].decon # c
    BY <1>2, <2>1, <2>3 DEF DppOwned
  <2>4. CASE ~dpp[p].on
    BY <2>1, <2>4 DEF DppOwned
  <2> QED BY <2>2, <2>3, <2>4
<1> QED BY <1>1, <1>4, <1>5, <1>6 DEF WInv

(* One plane p of the tail of c is done, or its SMC begins: its DPP is d and *)
(* the windows of the DECON are y.                                           *)
PlaneStep(c, j, y, p, d) ==
  /\ job[c].phase = "planes" /\ job[c].todo # {} /\ p = Min(job[c].todo)
  /\ UNCHANGED <<drm, decon>> /\ job' = [job EXCEPT ![c] = j] /\ window' = [window EXCEPT ![c] = y]
  /\ dpp' = [dpp EXCEPT ![p] = d] /\ ProtTypes'
  /\ j.removed = job[c].removed /\ j.zpos = job[c].zpos /\ j.skip = job[c].skip
  /\ \/ j.phase = "planes" /\ j.todo = job[c].todo \ {p}
     \/ /\ j.phase = "secure" /\ j.todo = job[c].todo
        /\ p \in ToSet(crtc[c].order) /\ content[p] # "invisible"
  /\ \A w \in Win : Spare(c, w) => y[w] = IF w = dpp[p].win THEN Dark ELSE window[c][w]
  /\ \A i \in Entries(c) : crtc[c].order[i] # p /\ Visible(c, i) => y[At(c, i)] = window[c][At(c, i)]
  /\ \A i \in Entries(c) : crtc[c].order[i] = p =>
       IF content[p] = "invisible" THEN ~d.on
       ELSE /\ y[At(c, i)] = <<IF content[p] = "color" THEN "color" ELSE "dpp", p>>
            /\ d.win = At(c, i) /\ (d.on <=> content[p] \in Fetched) /\ (d.on => d.decon = c)
  /\ p \in job[c].removed => ~d.on
  /\ d.connected => d.on
  /\ d.on => d.decon = c

(* Such a step keeps the invariant. *)
LEMMA PlaneWired ==
  ASSUME WInv, NEW c \in Crtc, NEW j \in JobRecord, NEW y \in [Win -> Uses], NEW p,
         NEW d \in DppRecord(0 .. NoWin), PlaneStep(c, j, y, p, d)
  PROVE  WInv'
<1> USE DEF PlaneStep
<1>1. WiringTypes /\ CrtcInv(c)
  BY DEF WInv
<1>2. p \in job[c].todo /\ p \in Plane /\ p \in Used(c)
  BY <1>1, LowestPlane DEF WiringTypes, JobRecord, Used
<1>3. decon[c] = "ON" /\ crtc[c].power = "on"
  BY <1>1 DEF CrtcInv, PhaseInv, WiringTypes, StateRecord
<1>4. /\ crtc' = crtc /\ owner' = owner /\ content' = content /\ decon' = decon
      /\ job'[c] = j /\ window'[c] = y /\ dpp'[p] = d
      /\ \A q \in Plane : q # p => dpp'[q] = dpp[q]
  BY <1>1, <1>2 DEF drm, WiringTypes
<1>5. /\ Entries(c)' = Entries(c) /\ Pool!Held(c)' = Pool!Held(c)
      /\ (\A i : At(c, i)' = At(c, i) /\ (Visible(c, i)' <=> Visible(c, i)))
      /\ (\A w : Spare(c, w)' <=> Spare(c, w))
  BY <1>4 DEF Entries, At, Visible, Spare, Pool!Held
<1>6. /\ \A i \in Entries(c) : At(c, i) \in Win /\ crtc[c].order[i] \in Plane
      /\ \A i \in Entries(c) : crtc[c].order[i] \in ToSet(crtc[c].order)
  BY <1>1, <1>3, Located, EntryPlanes DEF CrtcInv
<1>7. PhaseInv(c)'
  <2>1. Cardinality(Pool!Held(c)) = WinCnt(crtc[c].power, crtc[c].order)
    BY <1>1 DEF CrtcInv, PhaseInv
  <2>2. j.todo \subseteq ToSet(crtc[c].order) \cup j.removed
    BY <1>1 DEF CrtcInv, PhaseInv
  <2> QED BY <1>3, <1>4, <1>5, <2>1, <2>2 DEF PhaseInv
<1>8. ContentInv(c)'
  <2>1. ASSUME NEW q \in job[c].removed, q \notin j.todo PROVE ~dpp'[q].on
    <3>1. CASE q = p
      BY <1>4, <3>1
    <3>2. CASE q # p
      <4>1. q \in Plane
        BY <1>1 DEF WiringTypes, JobRecord
      <4> QED BY <1>1, <1>3, <1>4, <2>1, <3>2, <4>1 DEF CrtcInv, ContentInv
    <3> QED BY <3>1, <3>2
  <2> QED BY <1>1, <1>4, <2>1 DEF CrtcInv, ContentInv
<1>9. ASSUME NEW i \in Entries(c), crtc[c].order[i] = p PROVE Wired(c, i)'
  <2>1. IF content[p] = "invisible" THEN ~d.on
        ELSE /\ y[At(c, i)] = <<IF content[p] = "color" THEN "color" ELSE "dpp", p>>
             /\ d.win = At(c, i) /\ (d.on <=> content[p] \in Fetched) /\ (d.on => d.decon = c)
    BY <1>9
  <2> QED BY <1>4, <1>5, <1>9, <2>1 DEF Wired
<1>10. ASSUME NEW i \in Entries(c), crtc[c].order[i] # p, Wired(c, i) PROVE Wired(c, i)'
  <2> DEFINE q == crtc[c].order[i]
  <2>1. dpp'[q] = dpp[q] /\ (content[q] # "invisible" => y[At(c, i)] = window[c][At(c, i)])
    BY <1>4, <1>6, <1>10 DEF Visible
  <2> QED BY <1>4, <1>5, <1>10, <2>1 DEF Wired
<1>11. WindowInv(c)'
  <2>1. ASSUME NEW i \in Entries(c), crtc[c].order[i] \notin j.todo PROVE Wired(c, i)'
    <3>1. CASE crtc[c].order[i] = p
      BY <1>9, <3>1
    <3>2. CASE crtc[c].order[i] # p
      <4>1. crtc[c].order[i] \notin job[c].todo
        BY <2>1, <3>2
      <4>2. Wired(c, i)
        BY <1>1, <1>3, <4>1 DEF CrtcInv, WindowInv
      <4> QED BY <1>10, <3>2, <4>2
    <3> QED BY <3>1, <3>2
  <2>2. ASSUME NEW w \in Win, Spare(c, w) PROVE Stale(c, w)'
    <3>1. Stale(c, w) /\ y[w] = IF w = dpp[p].win THEN Dark ELSE window[c][w]
      BY <1>1, <1>3, <2>2 DEF CrtcInv, WindowInv
    <3>2. CASE w = dpp[p].win
      BY <1>4, <3>1, <3>2 DEF Stale
    <3>3. CASE w # dpp[p].win
      <4>1. y[w] = window[c][w]
        BY <3>1, <3>3
      <4>2. CASE window[c][w] = Dark
        BY <1>4, <4>1, <4>2 DEF Stale
      <4>3. CASE window[c][w] = <<"color", 0>> /\ crtc[c].order = <<>> /\ ~job[c].skip /\ w = At(c, 1)
        BY <1>4, <1>5, <4>1, <4>3 DEF Stale
      <4>4. ASSUME NEW q \in job[c].todo, NEW use \in {"dpp", "color"}, window[c][w] = <<use, q>>, dpp[q].win = w,
                   use = "dpp" => dpp[q].on /\ dpp[q].decon = c
            PROVE  Stale(c, w)'
        <5>1. q # p
          BY <3>3, <4>4
        <5>2. q \in Plane
          BY <1>1 DEF WiringTypes, JobRecord
        <5>3. q \in j.todo /\ dpp'[q] = dpp[q]
          BY <1>4, <5>1, <5>2
        <5> QED BY <1>4, <4>1, <4>4, <5>3 DEF Stale
      <4> QED BY <3>1, <4>2, <4>3, <4>4 DEF Stale
    <3> QED BY <3>2, <3>3
  <2> QED BY <1>4, <1>5, <2>1, <2>2 DEF WindowInv
<1>12. KnownInv(c)'
  <2> SUFFICES ASSUME ~j.zpos, NEW i \in Entries(c), dpp'[crtc[c].order[i]].connected
               PROVE  dpp'[crtc[c].order[i]].win = At(c, i)
    BY <1>4, <1>5 DEF KnownInv
  <2>1. CASE crtc[c].order[i] = p
    <3>1. d.on
      BY <1>4, <2>1
    <3> QED BY <1>4, <2>1, <3>1
  <2>2. CASE crtc[c].order[i] # p
    <3>1. dpp'[crtc[c].order[i]] = dpp[crtc[c].order[i]]
      BY <1>4, <1>6, <2>2
    <3> QED BY <1>1, <1>3, <3>1 DEF CrtcInv, KnownInv
  <2> QED BY <2>1, <2>2
<1>13. BusyInv(c)'
  <2> SUFFICES ASSUME j.phase = "secure"
               PROVE  j.todo # {} /\ \E i \in Entries(c) : crtc[c].order[i] = Min(j.todo) /\ Visible(c, i) /\ Wired(c, i)'
    BY <1>4, <1>5 DEF BusyInv
  <2>1. j.todo = job[c].todo /\ p \in ToSet(crtc[c].order) /\ content[p] # "invisible"
    OBVIOUS
  <2>2. p = Min(job[c].todo) /\ job[c].todo # {}
    OBVIOUS
  <2> HIDE DEF PlaneStep
  <2>3. PICK i \in Entries(c) : crtc[c].order[i] = p
    BY <1>1, <2>1, EntryPlanes
  <2> QED BY <1>9, <2>1, <2>2, <2>3 DEF Visible
<1>14. CrtcInv(c)'
  <2>1. DarkInv(c)'
    BY <1>3, <1>4 DEF DarkInv
  <2> QED BY <1>7, <1>8, <1>11, <1>12, <1>13, <2>1 DEF CrtcInv
<1>15. DppOwned(p)'
  <2>1. p \in ToSet(crtc[c].order) \cup job[c].removed
    BY <1>1, <1>2 DEF CrtcInv, PhaseInv
  <2> QED BY <1>3, <1>4, <2>1 DEF DppOwned
<1> DEFINE T == {p}
           x == "ON"
<1>16. /\ \A q \in Plane : q \notin T => dpp'[q] = dpp[q]
       /\ \A q \in T : q \in Used(c)
       /\ \A q \in Plane \cap T : DppOwned(q)'
  BY <1>2, <1>4, <1>15
<1>17. \A q \in Plane \ T : dpp[q].on /\ dpp[q].decon = c => x = "ON" /\ q \in ToSet(crtc[c].order) \cup j.removed
  BY DEF WInv, DppOwned
<1>18. x \in DeconStates /\ decon' = [decon EXCEPT ![c] = x] /\ dpp' \in [Plane -> DppRecord(0 .. NoWin)]
  BY <1>1, <1>2, <1>3 DEF DeconStates, WiringTypes
<1>19. j.todo \subseteq job[c].todo /\ j.removed \subseteq job[c].removed
  OBVIOUS
<1> HIDE DEF T, x
<1>20. UNCHANGED drm /\ job' = [job EXCEPT ![c] = j] /\ window' = [window EXCEPT ![c] = y] /\ ProtTypes'
  OBVIOUS
<1> HIDE DEF PlaneStep
<1>21. TailMove(c, j, x, y, T)
  BY <1>16, <1>17, <1>18, <1>19, <1>20 DEF TailMove
<1> QED BY <1>14, <1>18, <1>21, TailKeeps

(* decon_disable_win darkens a window that nothing visible takes. *)
LEMMA WithoutIs ==
  ASSUME WiringTypes, NEW c \in Crtc, NEW w
  PROVE  /\ Without(c, w) \in [Win -> Uses]
         /\ \A v \in Win : Without(c, w)[v] = IF v = w /\ Spare(c, v) THEN Dark ELSE window[c][v]
<1>1. window[c] \in [Win -> Uses] /\ Dark \in Uses
  BY DEF WiringTypes, Uses
<1>2. ASSUME NEW v PROVE v \in VisibleWindows(crtc[c].order, Pool!Held(c), content) <=> ~Spare(c, v)
  BY DEF VisibleWindows, Spare, At, Visible, Entries
<1> QED BY <1>1, <1>2 DEF Without

(* exynos_plane_atomic_disable, and planes that are not visible. *)
LEMMA DisableWired == ASSUME WInv, NEW c \in Crtc, DisablePlane(c) PROVE WInv'
<1> DEFINE p == Min(job[c].todo)
           U == {q \in {p} : dpp[q].on}
           d == DppDisabled(dpp[p])
           y == Without(c, dpp[p].win)
           j == [job[c] EXCEPT !.todo = job[c].todo \ {p}]
<1>1. /\ job[c].phase = "planes" /\ job[c].todo # {} /\ UNCHANGED <<drm, decon>>
      /\ job' = [job EXCEPT ![c].todo = job[c].todo \ {p}] /\ dpp' = [dpp EXCEPT ![p] = d]
      /\ window' = [window EXCEPT ![c] = y] /\ Unprotect(U)
      /\ content[p] = "invisible" \/ p \in job[c].removed
  BY DEF DisablePlane
<1>2. WiringTypes /\ CrtcInv(c)
  BY DEF WInv
<1>3. p \in Plane /\ p \in job[c].todo /\ job[c] \in JobRecord /\ dpp[p] \in DppRecord(0 .. NoWin)
  BY <1>1, <1>2, LowestPlane DEF WiringTypes, JobRecord
<1>4. d \in DppRecord(0 .. NoWin) /\ d.on = FALSE /\ d.connected = FALSE
  BY <1>3 DEF DppDisabled, DppRecord
<1>5. /\ j \in JobRecord /\ j.todo = job[c].todo \ {p} /\ j.phase = "planes"
      /\ j.removed = job[c].removed /\ j.zpos = job[c].zpos /\ j.skip = job[c].skip
  BY <1>1, <1>3 DEF JobRecord
<1>6. job' = [job EXCEPT ![c] = j]
  BY <1>1, <1>2 DEF WiringTypes
<1>7. y \in [Win -> Uses] /\ \A v \in Win : y[v] = IF v = dpp[p].win /\ Spare(c, v) THEN Dark ELSE window[c][v]
  BY <1>2, WithoutIs
<1>8. \A w \in Win : Spare(c, w) => y[w] = IF w = dpp[p].win THEN Dark ELSE window[c][w]
  BY <1>7
<1>9. \A i \in Entries(c) : At(c, i) \in Win
  BY <1>1, <1>2, Located DEF CrtcInv, PhaseInv
<1>10. \A i \in Entries(c) : crtc[c].order[i] # p /\ Visible(c, i) => y[At(c, i)] = window[c][At(c, i)]
  BY <1>7, <1>9 DEF Spare
<1>11. \A i \in Entries(c) : crtc[c].order[i] = p => content[p] = "invisible"
  BY <1>1, <1>2, EntryPlanes DEF CrtcInv, ContentInv
<1>12. ProtTypes'
  BY <1>1, <1>2, UnprotectTypes DEF ProtTypes, WiringTypes
<1>13. p = Min(job[c].todo)
  OBVIOUS
<1> HIDE DEF j, d, y, p, U
<1>14. \A i \in Entries(c) : crtc[c].order[i] = p =>
         IF content[p] = "invisible" THEN ~d.on
         ELSE /\ y[At(c, i)] = <<IF content[p] = "color" THEN "color" ELSE "dpp", p>>
              /\ d.win = At(c, i) /\ (d.on <=> content[p] \in Fetched) /\ (d.on => d.decon = c)
  BY <1>4, <1>11
<1>15. /\ p \in job[c].removed => ~d.on
       /\ d.connected => d.on
       /\ d.on => d.decon = c
       /\ j.phase = "planes" /\ j.todo = job[c].todo \ {p}
  BY <1>4, <1>5
<1>16. /\ job[c].phase = "planes" /\ job[c].todo # {} /\ UNCHANGED <<drm, decon>>
       /\ dpp' = [dpp EXCEPT ![p] = d] /\ window' = [window EXCEPT ![c] = y]
  BY <1>1
<1>17. d \in DppRecord(0 .. NoWin) /\ y \in [Win -> Uses] /\ j \in JobRecord
  BY <1>4, <1>5, <1>7
<1>18. PlaneStep(c, j, y, p, d)
  BY <1>5, <1>6, <1>8, <1>10, <1>12, <1>13, <1>14, <1>15, <1>16 DEF PlaneStep
<1> QED BY <1>17, <1>18, PlaneWired

(* decon_update_plane finds the window of a plane, and disables its old one. *)
Rewired(c, p, k, use, y) ==
  /\ window' = [window EXCEPT ![c] = y] /\ y[At(c, k)] = <<use, p>>
  /\ \A w \in Win : Spare(c, w) => y[w] = IF w = dpp[p].win THEN Dark ELSE window[c][w]
  /\ \A i \in Entries(c) : crtc[c].order[i] # p /\ Visible(c, i) => y[At(c, i)] = window[c][At(c, i)]

(* decon_update_plane does that. *)
LEMMA ConnectIs ==
  ASSUME WInv, NEW c \in Crtc, NEW p, job[c].phase = "planes", NEW k \in Entries(c), crtc[c].order[k] = p,
         content[p] # "invisible", NEW use \in {"dpp", "color"}, Connect(c, p, use)
  PROVE  /\ WinOf(c, p) = At(c, k) /\ At(c, k) \in Win
         /\ \E y \in [Win -> Uses] : Rewired(c, p, k, use, y)
<1>1. WiringTypes /\ CrtcInv(c)
  BY DEF WInv
<1>2. crtc[c].power # "off" /\ decon[c] = "ON"
  BY <1>1 DEF CrtcInv, PhaseInv
<1>3. /\ \A i \in Entries(c) : At(c, i) \in Win
      /\ \A i, m \in Entries(c) : At(c, i) = At(c, m) => i = m
  BY <1>1, <1>2, Located DEF CrtcInv
<1>4. \A i \in Entries(c) : crtc[c].order[i] = p => i = k
  BY <1>1, EntryPlanes
<1>5. WinOf(c, p) = At(c, k)
  <2>1. CASE dpp[p].connected /\ ~job[c].zpos
    BY <1>1, <1>2, <2>1 DEF CrtcInv, KnownInv, WinOf
  <2>2. CASE ~(dpp[p].connected /\ ~job[c].zpos)
    <3>1. (CHOOSE i \in DOMAIN crtc[c].order : crtc[c].order[i] = p) = k
      BY <1>4 DEF Entries
    <3> QED BY <2>2, <3>1 DEF WinOf, At
  <2> QED BY <2>1, <2>2
<1> DEFINE v == At(c, k)
           rest == IF dpp[p].win = v THEN window[c] ELSE Without(c, dpp[p].win)
           y == [rest EXCEPT ![v] = <<use, p>>]
<1>6. window' = [window EXCEPT ![c] = y]
  BY <1>5 DEF Connect
<1>7. v \in Win /\ ~Spare(c, v)
  BY <1>3 DEF Spare, Visible
<1>8. <<use, p>> \in Uses
  <2>1. p \in Plane /\ NPlane \in Nat
    BY <1>1, EntryPlanes, PlanesAssumption
  <2> QED BY <2>1 DEF Uses, Plane
<1> DEFINE off == dpp[p].win
<1>9. /\ rest \in [Win -> Uses]
      /\ \A w \in Win : rest[w] = IF w = off /\ Spare(c, w) THEN Dark ELSE window[c][w]
  <2>1. CASE off = v
    BY <1>1, <1>7, <2>1 DEF WiringTypes, Uses
  <2>2. CASE off # v
    BY <1>1, <2>2, WithoutIs
  <2> QED BY <2>1, <2>2
<1> HIDE DEF rest
<1>10. y \in [Win -> Uses] /\ y[v] = <<use, p>> /\ \A w \in Win : w # v => y[w] = rest[w]
  BY <1>7, <1>8, <1>9
<1> HIDE DEF y
<1>11. \A w \in Win : Spare(c, w) => y[w] = IF w = off THEN Dark ELSE window[c][w]
  BY <1>7, <1>9, <1>10
<1>12. ASSUME NEW i \in Entries(c), crtc[c].order[i] # p, Visible(c, i) PROVE y[At(c, i)] = window[c][At(c, i)]
  <2>1. At(c, i) # v /\ At(c, i) \in Win /\ ~Spare(c, At(c, i))
    BY <1>3, <1>12 DEF Spare
  <2> QED BY <1>9, <1>10, <2>1
<1>13. Rewired(c, p, k, use, y)
  BY <1>6, <1>10, <1>11, <1>12 DEF Rewired
<1> QED BY <1>5, <1>7, <1>10, <1>13

(* decon_update_plane of a color map. *)
LEMMA ColorWired == ASSUME WInv, NEW c \in Crtc, ColorPlane(c) PROVE WInv'
<1> DEFINE p == Min(job[c].todo)
           U == {q \in {p} : dpp[q].on}
           e == [dpp[p] EXCEPT !.decon = c]
           d == [DppDisabled(e) EXCEPT !.win = WinOf(c, p)]
           j == [job[c] EXCEPT !.todo = job[c].todo \ {p}]
<1>1. /\ job[c].phase = "planes" /\ job[c].todo # {} /\ UNCHANGED <<drm, decon>>
      /\ job' = [job EXCEPT ![c].todo = job[c].todo \ {p}] /\ dpp' = [dpp EXCEPT ![p] = d]
      /\ Connect(c, p, "color") /\ Unprotect(U) /\ content[p] = "color"
  BY DEF ColorPlane
<1>2. WiringTypes /\ CrtcInv(c)
  BY DEF WInv
<1>3. p \in Plane /\ p \in job[c].todo /\ job[c] \in JobRecord /\ dpp[p] \in DppRecord(0 .. NoWin)
  BY <1>1, <1>2, LowestPlane DEF WiringTypes, JobRecord
<1>4. p \in ToSet(crtc[c].order) /\ p \notin job[c].removed
  BY <1>1, <1>2, <1>3 DEF CrtcInv, PhaseInv, ContentInv
<1>5. PICK k \in Entries(c) : crtc[c].order[k] = p
  BY <1>2, <1>4, EntryPlanes
<1> HIDE DEF p
<1>6. /\ WinOf(c, p) = At(c, k) /\ At(c, k) \in Win
      /\ \E y \in [Win -> Uses] : Rewired(c, p, k, "color", y)
  <2> DEFINE use == "color"
  <2>1. use \in {"dpp", "color"} /\ Connect(c, p, use) /\ job[c].phase = "planes"
    BY <1>1
  <2>2. content[p] # "invisible"
    BY <1>1 DEF Fetched
  <2> HIDE DEF use
  <2>3. /\ WinOf(c, p) = At(c, k) /\ At(c, k) \in Win
        /\ \E y \in [Win -> Uses] : Rewired(c, p, k, use, y)
    BY <1>5, <2>1, <2>2, ConnectIs
  <2> QED BY <2>3 DEF use
<1>7. PICK y \in [Win -> Uses] : Rewired(c, p, k, "color", y)
  BY <1>6
<1>8. d \in DppRecord(0 .. NoWin) /\ d.on = FALSE /\ d.connected = FALSE /\ d.win = At(c, k)
  <2>1. e \in DppRecord(0 .. NoWin)
    BY <1>3 DEF DppRecord
  <2> HIDE DEF e
  <2>2. DppDisabled(e) \in DppRecord(0 .. NoWin) /\ DppDisabled(e).on = FALSE /\ DppDisabled(e).connected = FALSE
    BY <2>1 DEF DppDisabled, DppRecord
  <2>3. At(c, k) \in 0 .. NoWin
    BY <1>6, PlanesAssumption DEF Win, NoWin
  <2> QED BY <1>6, <2>2, <2>3 DEF DppRecord
<1>9. /\ j \in JobRecord /\ j.todo = job[c].todo \ {p} /\ j.phase = "planes"
      /\ j.removed = job[c].removed /\ j.zpos = job[c].zpos /\ j.skip = job[c].skip
  BY <1>1, <1>3 DEF JobRecord
<1>10. job' = [job EXCEPT ![c] = j]
  BY <1>1, <1>2 DEF WiringTypes
<1>11. ProtTypes'
  BY <1>1, <1>2, UnprotectTypes DEF ProtTypes, WiringTypes
<1>12. \A i \in Entries(c) : crtc[c].order[i] = p => i = k
  BY <1>2, <1>5, EntryPlanes
<1>13. p = Min(job[c].todo) /\ content[p] \notin Fetched
  BY <1>1 DEF p, Fetched
<1> HIDE DEF j, d, U
<1>14. \A i \in Entries(c) : crtc[c].order[i] = p =>
         IF content[p] = "invisible" THEN ~d.on
         ELSE /\ y[At(c, i)] = <<IF content[p] = "color" THEN "color" ELSE "dpp", p>>
              /\ d.win = At(c, i) /\ (d.on <=> content[p] \in Fetched) /\ (d.on => d.decon = c)
  BY <1>1, <1>7, <1>8, <1>12, <1>13 DEF Rewired
<1>15. job[c].phase = "planes" /\ job[c].todo # {} /\ UNCHANGED <<drm, decon>> /\ dpp' = [dpp EXCEPT ![p] = d]
  BY <1>1
<1>16. PlaneStep(c, j, y, p, d)
  BY <1>7, <1>8, <1>9, <1>10, <1>11, <1>13, <1>14, <1>15 DEF PlaneStep, Rewired
<1> QED BY <1>8, <1>9, <1>16, PlaneWired

(* decon_update_plane of a buffer, with an SMC on its way after it or not.   *)
LEMMA UpdateWired == ASSUME WInv, NEW c \in Crtc, UpdatePlane(c) PROVE WInv'
<1> DEFINE p == Min(job[c].todo)
           protect == content[p] = "secure" /\ p \notin protected
           d == [on |-> TRUE, decon |-> c, win |-> WinOf(c, p), connected |-> TRUE]
           j == IF protect THEN [job[c] EXCEPT !.phase = "secure"] ELSE [job[c] EXCEPT !.todo = job[c].todo \ {p}]
<1>1. /\ job[c].phase = "planes" /\ job[c].todo # {} /\ UNCHANGED <<drm, decon>>
      /\ dpp' = [dpp EXCEPT ![p] = d] /\ Connect(c, p, "dpp") /\ content[p] \in Fetched
      /\ IF protect THEN /\ forwarded' = Forwarding(mask \cup {p}) /\ UNCHANGED <<protected, mask, refused>>
                         /\ job' = [job EXCEPT ![c].phase = "secure"]
         ELSE /\ Unprotect(IF content[p] = "buffer" THEN {p} ELSE {})
              /\ job' = [job EXCEPT ![c].todo = job[c].todo \ {p}]
  BY DEF UpdatePlane
<1>2. WiringTypes /\ CrtcInv(c)
  BY DEF WInv
<1>3. p \in Plane /\ p \in job[c].todo /\ job[c] \in JobRecord
  BY <1>1, <1>2, LowestPlane DEF WiringTypes, JobRecord
<1>4. p \in ToSet(crtc[c].order) /\ p \notin job[c].removed
  BY <1>1, <1>2, <1>3 DEF CrtcInv, PhaseInv, ContentInv, Fetched
<1>5. PICK k \in Entries(c) : crtc[c].order[k] = p
  BY <1>2, <1>4, EntryPlanes
<1>6. /\ WinOf(c, p) = At(c, k) /\ At(c, k) \in Win
      /\ \E y \in [Win -> Uses] : Rewired(c, p, k, "dpp", y)
  <2> DEFINE use == "dpp"
  <2>1. use \in {"dpp", "color"} /\ Connect(c, p, use) /\ job[c].phase = "planes"
    BY <1>1
  <2>2. content[p] # "invisible"
    BY <1>1 DEF Fetched
  <2> HIDE DEF use, p
  <2>3. /\ WinOf(c, p) = At(c, k) /\ At(c, k) \in Win
        /\ \E y \in [Win -> Uses] : Rewired(c, p, k, use, y)
    BY <1>5, <2>1, <2>2, ConnectIs
  <2> QED BY <2>3 DEF use
<1>7. PICK y \in [Win -> Uses] : Rewired(c, p, k, "dpp", y)
  BY <1>6
<1>8. d \in DppRecord(0 .. NoWin) /\ d.on = TRUE /\ d.decon = c /\ d.win = At(c, k)
  <2>1. At(c, k) \in 0 .. NoWin
    BY <1>6, PlanesAssumption DEF Win, NoWin
  <2> QED BY <1>6, <2>1 DEF DppRecord
<1>9. /\ j \in JobRecord
      /\ j.removed = job[c].removed /\ j.zpos = job[c].zpos /\ j.skip = job[c].skip
      /\ \/ j.phase = "planes" /\ j.todo = job[c].todo \ {p}
         \/ j.phase = "secure" /\ j.todo = job[c].todo /\ p \in ToSet(crtc[c].order) /\ content[p] # "invisible"
  <2> HIDE DEF p
  <2>1. CASE protect
    BY <1>1, <1>3, <1>4, <2>1 DEF JobRecord, Phases, Fetched
  <2>2. CASE ~protect
    BY <1>1, <1>3, <2>2 DEF JobRecord
  <2> QED BY <2>1, <2>2
<1>10. job' = [job EXCEPT ![c] = j]
  <2> HIDE DEF p
  <2>1. CASE protect
    BY <1>1, <1>2, <2>1 DEF WiringTypes
  <2>2. CASE ~protect
    BY <1>1, <1>2, <2>2 DEF WiringTypes
  <2> QED BY <2>1, <2>2
<1>11. ProtTypes'
  <2>1. ProtTypes
    BY <1>2 DEF ProtTypes, WiringTypes
  <2>2. CASE protect
    BY <1>1, <2>1, <2>2 DEF ProtTypes, Forwarding
  <2>3. CASE ~protect
    <3>1. Unprotect(IF content[p] = "buffer" THEN {p} ELSE {})
      BY <1>1, <2>3
    <3> QED BY <2>1, <3>1, UnprotectTypes
  <2> QED BY <2>2, <2>3
<1>12. \A i \in Entries(c) : crtc[c].order[i] = p => i = k
  BY <1>2, <1>5, EntryPlanes
<1>13. p = Min(job[c].todo) /\ content[p] \in Fetched /\ content[p] # "invisible" /\ content[p] # "color"
  BY <1>1 DEF Fetched
<1>14. job[c].phase = "planes" /\ job[c].todo # {} /\ UNCHANGED <<drm, decon>> /\ dpp' = [dpp EXCEPT ![p] = d]
  BY <1>1
<1> HIDE DEF j, d, p, protect
<1>15. \A i \in Entries(c) : crtc[c].order[i] = p =>
         IF content[p] = "invisible" THEN ~d.on
         ELSE /\ y[At(c, i)] = <<IF content[p] = "color" THEN "color" ELSE "dpp", p>>
              /\ d.win = At(c, i) /\ (d.on <=> content[p] \in Fetched) /\ (d.on => d.decon = c)
  BY <1>7, <1>8, <1>12, <1>13 DEF Rewired
<1>16. PlaneStep(c, j, y, p, d)
  BY <1>4, <1>7, <1>8, <1>9, <1>10, <1>11, <1>13, <1>14, <1>15 DEF PlaneStep, Rewired
<1> QED BY <1>8, <1>9, <1>16, PlaneWired

(* The SMC returns, with or without success. *)
LEMMA SecuredWired == ASSUME WInv, NEW c \in Crtc, Secured(c) PROVE WInv'
<1> DEFINE p == Min(job[c].todo)
           j == [job[c] EXCEPT !.phase = "planes", !.todo = job[c].todo \ {p}]
<1>1. /\ job[c].phase = "secure" /\ UNCHANGED <<drm, decon, window, dpp>>
      /\ job' = [job EXCEPT ![c].phase = "planes", ![c].todo = job[c].todo \ {p}]
      /\ \/ /\ protected' = protected \cup {p} /\ mask' = mask \cup {p}
            /\ refused' = refused \ {p} /\ UNCHANGED forwarded
         \/ /\ refused' = refused \cup {p} /\ forwarded' = (forwarded /\ mask # {})
            /\ UNCHANGED <<protected, mask>>
  BY DEF Secured
<1>2. WiringTypes /\ CrtcInv(c)
  BY DEF WInv
<1>3. PICK k \in Entries(c) : crtc[c].order[k] = p /\ Visible(c, k) /\ Wired(c, k)
  BY <1>1, <1>2 DEF CrtcInv, BusyInv
<1>4. job[c] \in JobRecord /\ p \in Plane /\ crtc[c].power = "on" /\ decon[c] = "ON"
      /\ p \in ToSet(crtc[c].order) /\ content[p] # "invisible" /\ content[p] # "none"
  BY <1>1, <1>2, <1>3, EntryPlanes DEF CrtcInv, PhaseInv, ContentInv, WiringTypes, Visible
<1> HIDE DEF p
<1>5. /\ j \in JobRecord /\ j.todo = job[c].todo \ {p} /\ j.phase = "planes"
      /\ j.removed = job[c].removed /\ j.zpos = job[c].zpos /\ j.skip = job[c].skip
  BY <1>4 DEF JobRecord, Phases
<1>6. job' = [job EXCEPT ![c] = j]
  BY <1>1, <1>2 DEF WiringTypes
<1>7. ProtTypes'
  BY <1>1, <1>2, <1>4 DEF ProtTypes, WiringTypes
<1> HIDE DEF j
<1>8. crtc' = crtc /\ owner' = owner /\ content' = content /\ decon' = decon /\ window' = window /\ dpp' = dpp
      /\ job'[c] = j
  BY <1>1, <1>2, <1>6 DEF drm, WiringTypes
<1>9. /\ Entries(c)' = Entries(c) /\ Pool!Held(c)' = Pool!Held(c)
      /\ (\A i : At(c, i)' = At(c, i) /\ (Visible(c, i)' <=> Visible(c, i)) /\ (Wired(c, i)' <=> Wired(c, i)))
      /\ (\A w : Spare(c, w)' <=> Spare(c, w))
  BY <1>8 DEF Entries, At, Visible, Spare, Wired, Pool!Held
<1>10. PhaseInv(c)'
  BY <1>1, <1>2, <1>4, <1>5, <1>8, <1>9 DEF CrtcInv, PhaseInv
<1>11. ContentInv(c)'
  BY <1>2, <1>4, <1>5, <1>8 DEF CrtcInv, ContentInv
<1>12. WindowInv(c)'
  <2>1. ASSUME NEW i \in Entries(c), crtc[c].order[i] \notin j.todo PROVE Wired(c, i)
    <3>1. CASE crtc[c].order[i] = p
      BY <1>2, <1>3, <3>1, EntryPlanes
    <3>2. CASE crtc[c].order[i] # p
      BY <1>1, <1>2, <1>4, <1>5, <2>1, <3>2 DEF CrtcInv, WindowInv
    <3> QED BY <3>1, <3>2
  <2>2. ASSUME NEW w \in Win, Spare(c, w) PROVE Stale(c, w)'
    <3>1. Stale(c, w)
      BY <1>1, <1>2, <1>4, <2>2 DEF CrtcInv, WindowInv
    <3>2. dpp[p].win # w
      <4>1. dpp[p].win = At(c, k)
        BY <1>3, <1>4 DEF Wired
      <4> QED BY <1>3, <2>2, <4>1 DEF Spare
    <3>3. \A q \in job[c].todo : dpp[q].win = w => q \in j.todo
      BY <1>5, <3>2
    <3> QED BY <1>5, <1>8, <1>9, <3>1, <3>3 DEF Stale
  <2> QED BY <1>5, <1>8, <1>9, <2>1, <2>2 DEF WindowInv
<1>13. KnownInv(c)'
  BY <1>1, <1>2, <1>4, <1>5, <1>8, <1>9 DEF CrtcInv, KnownInv
<1>14. CrtcInv(c)'
  BY <1>4, <1>5, <1>8, <1>10, <1>11, <1>12, <1>13 DEF CrtcInv, BusyInv, DarkInv
<1> DEFINE x == decon[c]
           y == window[c]
           T == {}
<1>15. /\ x \in DeconStates /\ y \in [Win -> Uses] /\ decon' = [decon EXCEPT ![c] = x]
       /\ window' = [window EXCEPT ![c] = y] /\ dpp' \in [Plane -> DppRecord(0 .. NoWin)]
       /\ UNCHANGED drm
  BY <1>1, <1>2, <1>8 DEF WiringTypes, DeconStates, Uses
<1>16. /\ \A q \in Plane : q \notin T => dpp'[q] = dpp[q]
       /\ T = {} /\ x = "ON"
       /\ j.todo \subseteq job[c].todo /\ j.removed \subseteq job[c].removed
  BY <1>4, <1>5, <1>8
<1>17. \A q \in Plane \ T : dpp[q].on /\ dpp[q].decon = c => x = "ON" /\ q \in ToSet(crtc[c].order) \cup j.removed
  BY <1>4, <1>5 DEF WInv, DppOwned
<1> HIDE DEF x, y, T
<1>18. TailMove(c, j, x, y, T)
  BY <1>6, <1>7, <1>15, <1>16, <1>17 DEF TailMove
<1> QED BY <1>5, <1>14, <1>15, <1>18, TailKeeps

(* decon_atomic_flush ends the tail. *)
LEMMA FlushWired == ASSUME WInv, NEW c \in Crtc, Flush(c) PROVE WInv'
<1> DEFINE j == Job("idle", {}, {}, FALSE, job[c].skip)
           y == IF job[c].skip \/ crtc[c].order # <<>> THEN window[c]
                ELSE [window[c] EXCEPT ![At(c, 1)] = <<"color", 0>>]
<1>1. /\ job[c].phase = "planes" /\ job[c].todo = {} /\ UNCHANGED <<drm, decon, dpp, prot>>
      /\ job' = [job EXCEPT ![c] = j]
  BY DEF Flush
<1>2. WiringTypes /\ CrtcInv(c)
  BY DEF WInv
<1>3. window' = [window EXCEPT ![c] = y]
  <2>1. At(c, 1) = WinAt(Pool!Held(c), 0)
    BY DEF At
  <2>2. window' = IF job[c].skip \/ crtc[c].order # <<>> THEN window
                  ELSE [window EXCEPT ![c][At(c, 1)] = <<"color", 0>>]
    BY <2>1 DEF Flush
  <2>3. window \in [Crtc -> [Win -> Uses]]
    BY <1>2 DEF WiringTypes, Uses
  <2> QED BY <2>2, <2>3
<1>4. job[c] \in JobRecord /\ crtc[c].power = "on" /\ decon[c] = "ON"
  BY <1>1, <1>2 DEF CrtcInv, PhaseInv, WiringTypes
<1>5. /\ j \in JobRecord /\ j.todo = {} /\ j.phase = "idle" /\ j.removed = {}
      /\ j.zpos = FALSE /\ j.skip = job[c].skip
  BY <1>4 DEF JobRecord, Phases, Job
<1>6. ProtTypes'
  BY <1>1, <1>2 DEF ProtTypes, WiringTypes, prot
<1>7. /\ \A i \in Entries(c) : At(c, i) \in Win
      /\ At(c, 1) \in Win
  BY <1>2, <1>4, Located DEF CrtcInv
<1>8. y \in [Win -> Uses] /\ \A w \in Win : y[w] = IF ~job[c].skip /\ crtc[c].order = <<>> /\ w = At(c, 1)
                                                   THEN <<"color", 0>> ELSE window[c][w]
  <2>1. window[c] \in [Win -> Uses] /\ <<"color", 0>> \in Uses
    BY <1>2, PlanesAssumption DEF WiringTypes, Uses
  <2> QED BY <1>7, <2>1
<1> HIDE DEF j, y
<1>9. /\ crtc' = crtc /\ owner' = owner /\ content' = content /\ decon' = decon /\ dpp' = dpp
      /\ job'[c] = j /\ window'[c] = y
  BY <1>1, <1>2, <1>3 DEF drm, WiringTypes
<1>10. /\ Entries(c)' = Entries(c) /\ Pool!Held(c)' = Pool!Held(c)
       /\ (\A i : At(c, i)' = At(c, i) /\ (Visible(c, i)' <=> Visible(c, i)))
       /\ (\A w : Spare(c, w)' <=> Spare(c, w))
  BY <1>9 DEF Entries, At, Visible, Spare, Pool!Held
<1>11. PhaseInv(c)'
  BY <1>2, <1>4, <1>5, <1>9, <1>10 DEF CrtcInv, PhaseInv
<1>12. ContentInv(c)'
  BY <1>2, <1>5, <1>9 DEF CrtcInv, ContentInv
<1>13. \A i \in Entries(c) : Wired(c, i) /\ Wired(c, i)'
  <2> SUFFICES ASSUME NEW i \in Entries(c) PROVE Wired(c, i) /\ Wired(c, i)'
    OBVIOUS
  <2>1. Wired(c, i)
    BY <1>1, <1>2, <1>4 DEF CrtcInv, WindowInv
  <2>2. crtc[c].order # <<>>
    BY DEF Entries
  <2>3. y[At(c, i)] = window[c][At(c, i)]
    BY <1>7, <1>8, <2>2
  <2> QED BY <1>9, <1>10, <2>1, <2>3 DEF Wired
<1>14. WindowInv(c)'
  <2>1. ASSUME NEW w \in Win, Spare(c, w) PROVE Stale(c, w)'
    <3>1. Stale(c, w)
      BY <1>1, <1>2, <1>4, <2>1 DEF CrtcInv, WindowInv
    <3>2. CASE ~job[c].skip /\ crtc[c].order = <<>> /\ w = At(c, 1)
      BY <1>5, <1>8, <1>9, <1>10, <3>2 DEF Stale
    <3>3. CASE ~(~job[c].skip /\ crtc[c].order = <<>> /\ w = At(c, 1))
      <4>1. window[c][w] = Dark
        BY <1>1, <3>1, <3>3 DEF Stale
      <4>2. y[w] = Dark
        BY <1>8, <3>3, <4>1
      <4> QED BY <1>9, <4>2 DEF Stale
    <3> QED BY <3>2, <3>3
  <2>2. crtc[c].order = <<>> /\ ~job[c].skip => y[At(c, 1)] = <<"color", 0>>
    BY <1>7, <1>8
  <2> QED BY <1>5, <1>9, <1>10, <1>13, <2>1, <2>2 DEF WindowInv
<1>15. KnownInv(c)'
  <2> SUFFICES ASSUME NEW i \in Entries(c), dpp[crtc[c].order[i]].connected
               PROVE  dpp[crtc[c].order[i]].win = At(c, i)
    BY <1>9, <1>10 DEF KnownInv
  <2>1. dpp[crtc[c].order[i]].on
    BY <1>2, EntryPlanes DEF WInv, DppOwned
  <2> QED BY <1>13, <2>1 DEF Wired
<1>16. CrtcInv(c)'
  BY <1>4, <1>5, <1>9, <1>11, <1>12, <1>14, <1>15 DEF CrtcInv, BusyInv, DarkInv
<1> DEFINE x == decon[c]
           T == {}
<1>17. /\ x \in DeconStates /\ decon' = [decon EXCEPT ![c] = x] /\ dpp' \in [Plane -> DppRecord(0 .. NoWin)]
       /\ UNCHANGED drm /\ x = "ON"
  BY <1>1, <1>2, <1>4, <1>9 DEF WiringTypes, DeconStates
<1>18. /\ \A q \in Plane : q \notin T => dpp'[q] = dpp[q]
       /\ T = {}
       /\ j.todo \subseteq job[c].todo /\ j.removed \subseteq job[c].removed
  BY <1>5, <1>9
<1>19. \A q \in Plane \ T : dpp[q].on /\ dpp[q].decon = c => x = "ON" /\ q \in ToSet(crtc[c].order) \cup j.removed
  BY <1>1, <1>2, <1>4 DEF WInv, DppOwned, CrtcInv, ContentInv
<1> HIDE DEF x, T
<1>20. TailMove(c, j, x, y, T)
  BY <1>1, <1>3, <1>6, <1>17, <1>18, <1>19 DEF TailMove
<1> QED BY <1>5, <1>8, <1>16, <1>17, <1>20, TailKeeps

-----------------------------------------------------------------------------
(* Stopping and starting a DECON *)

AllDark == [w \in Win |-> Dark]

(* All windows of c are dark and no DPP runs for it; the DPPs that changed   *)
(* are those of T.                                                           *)
Reset(c, T) ==
  /\ window' = [window EXCEPT ![c] = AllDark]
  /\ dpp' \in [Plane -> DppRecord(0 .. NoWin)] /\ ProtTypes'
  /\ \A p \in Plane : p \notin T => dpp'[p] = dpp[p] /\ ~(dpp[p].on /\ dpp[p].decon = c)
  /\ \A p \in T : p \in Plane /\ ~dpp'[p].on /\ ~dpp'[p].connected
  /\ \A p \in T : \/ p \in Used(c)
                  \/ ~dpp[p].on /\ \A d \in Crtc \ {c}, w \in Win : window[d][w] # <<"color", p>>
  /\ \A p \in Used(c) : ~dpp'[p].on /\ ~dpp'[p].connected

(* A DPP that c uses and that c does not run is off. *)
LEMMA OffUnlessOwned ==
  ASSUME WInv, NEW c \in Crtc, NEW p \in Used(c), dpp[p].on PROVE p \in Plane /\ dpp[p].decon = c
<1>1. p \in Plane
  BY OrderPlanes DEF WInv, WiringTypes, Used, StateRecord, JobRecord
<1>2. dpp[p].decon \in Crtc /\ p \in Used(dpp[p].decon)
  BY <1>1 DEF WInv, DppOwned, Used
<1> QED BY <1>1, <1>2 DEF WInv, Apart

(* _decon_reinit_locked resets a DECON, if no color map of another one is    *)
(* shown by a plane whose DPP no DECON owns.                                 *)
LEMMA ReinitResets ==
  ASSUME WInv, "color_reinit" \notin Races, NEW c \in Crtc, Reinit(c) PROVE \E T : Reset(c, T)
<1> DEFINE own == {p \in Plane : dpp[p].decon \in {c, NoCrtc}}
           d(p) == [DppDisabled(dpp[p]) EXCEPT !.win = NoWin]
<1>1. /\ window' = [window EXCEPT ![c] = AllDark]
      /\ dpp' = [p \in Plane |-> IF p \in own THEN d(p) ELSE dpp[p]]
      /\ Unprotect({p \in own : dpp[p].on})
      /\ \A e \in Crtc \ {c}, w \in Win, p \in own : window[e][w] # <<"color", p>>
  BY DEF Reinit, AllDark
<1>2. WiringTypes
  BY DEF WInv
<1>3. ASSUME NEW p \in own PROVE d(p) \in DppRecord(0 .. NoWin) /\ d(p).on = FALSE /\ d(p).connected = FALSE
  <2>1. dpp[p] \in DppRecord(0 .. NoWin) /\ NoWin \in 0 .. NoWin
    BY <1>2, PlanesAssumption DEF WiringTypes, NoWin
  <2>2. DppDisabled(dpp[p]) \in DppRecord(0 .. NoWin) /\ DppDisabled(dpp[p]).on = FALSE
        /\ DppDisabled(dpp[p]).connected = FALSE
    BY <2>1 DEF DppDisabled, DppRecord
  <2> QED BY <2>1, <2>2 DEF DppRecord
<1> HIDE DEF d
<1>4. dpp' \in [Plane -> DppRecord(0 .. NoWin)]
  BY <1>1, <1>2, <1>3 DEF WiringTypes
<1>5. ProtTypes'
  BY <1>1, <1>2, UnprotectTypes DEF ProtTypes, WiringTypes
<1>6. /\ \A p \in own : p \in Plane /\ ~dpp'[p].on /\ ~dpp'[p].connected
      /\ \A p \in Plane : p \notin own => dpp'[p] = dpp[p] /\ ~(dpp[p].on /\ dpp[p].decon = c)
  BY <1>1, <1>3
<1>7. ASSUME NEW p \in own
      PROVE  \/ p \in Used(c)
             \/ ~dpp[p].on /\ \A e \in Crtc \ {c}, w \in Win : window[e][w] # <<"color", p>>
  <2>1. CASE dpp[p].on
    <3>1. dpp[p].decon \in Crtc /\ p \in Used(dpp[p].decon)
      BY <2>1 DEF WInv, DppOwned, Used
    <3>2. dpp[p].decon = c
      BY <3>1, PlanesAssumption
    <3> QED BY <3>1, <3>2
  <2>2. CASE ~dpp[p].on
    BY <1>1, <2>2
  <2> QED BY <2>1, <2>2
<1>8. ASSUME NEW p \in Used(c) PROVE ~dpp'[p].on /\ ~dpp'[p].connected
  <2>1. p \in Plane
    BY <1>2, OrderPlanes DEF WiringTypes, Used, StateRecord, JobRecord
  <2>2. CASE p \in own
    BY <1>6, <2>2
  <2>3. CASE p \notin own
    <3>1. dpp'[p] = dpp[p] /\ dpp[p].decon # c
      BY <2>1, <2>3, <1>6
    <3>2. ~dpp[p].on /\ (dpp[p].connected => dpp[p].on)
      BY <2>1, <3>1, OffUnlessOwned DEF WInv, DppOwned
    <3> QED BY <3>1, <3>2
  <2> QED BY <2>2, <2>3
<1> HIDE DEF own
<1>9. Reset(c, own)
  BY <1>1, <1>4, <1>5, <1>6, <1>7, <1>8 DEF Reset
<1> QED BY <1>9

(* A DECON that does not run is in that state already. *)
LEMMA StoppedIsReset ==
  ASSUME WInv, NEW c \in Crtc, decon[c] # "ON", UNCHANGED <<window, dpp, prot>> PROVE \E T : Reset(c, T)
<1>1. WiringTypes /\ CrtcInv(c)
  BY DEF WInv
<1>2. window[c] = AllDark
  BY <1>1 DEF WiringTypes, CrtcInv, DarkInv, AllDark
<1>3. window' = [window EXCEPT ![c] = AllDark]
  BY <1>1, <1>2 DEF WiringTypes
<1>4. dpp' \in [Plane -> DppRecord(0 .. NoWin)] /\ ProtTypes'
  BY <1>1 DEF WiringTypes, ProtTypes, prot
<1>5. \A p \in Plane : dpp'[p] = dpp[p] /\ ~(dpp[p].on /\ dpp[p].decon = c)
  BY DEF WInv, DppOwned
<1>6. ASSUME NEW p \in Used(c) PROVE ~dpp'[p].on /\ ~dpp'[p].connected
  <2>1. p \in Plane
    BY <1>1, OrderPlanes DEF WiringTypes, Used, StateRecord, JobRecord
  <2>2. ~dpp[p].on /\ (dpp[p].connected => dpp[p].on)
    BY <1>5, <2>1, OffUnlessOwned DEF WInv, DppOwned
  <2> QED BY <2>2
<1>7. Reset(c, {})
  BY <1>3, <1>4, <1>5, <1>6 DEF Reset
<1> QED BY <1>7

(* What the tail does with a DECON that it has reset. *)
LEMMA ResetKeeps ==
  ASSUME WInv, NEW c \in Crtc, NEW T, Reset(c, T), NEW j \in JobRecord, NEW x \in DeconStates,
         UNCHANGED drm, job' = [job EXCEPT ![c] = j], decon' = [decon EXCEPT ![c] = x],
         j.todo \subseteq job[c].todo, j.removed \subseteq job[c].removed, CrtcInv(c)'
  PROVE  WInv'
<1>1. AllDark \in [Win -> Uses]
  BY DEF AllDark, Uses
<1>2. /\ \A p \in Plane \cap T : DppOwned(p)'
      /\ \A p \in Plane : p \notin T => dpp'[p] = dpp[p]
      /\ \A p \in T : \/ p \in Used(c)
                      \/ /\ ~dpp[p].on /\ ~dpp'[p].on /\ ~dpp'[p].connected
                         /\ \A d \in Crtc \ {c}, w \in Win : window[d][w] # <<"color", p>>
      /\ \A p \in Plane \ T : dpp[p].on /\ dpp[p].decon = c => x = "ON" /\ p \in ToSet(crtc[c].order) \cup j.removed
  BY DEF Reset, DppOwned
<1>3. window' = [window EXCEPT ![c] = AllDark] /\ dpp' \in [Plane -> DppRecord(0 .. NoWin)] /\ ProtTypes'
  BY DEF Reset
<1> DEFINE y == AllDark
<1>4. TailMove(c, j, x, y, T)
  BY <1>2, <1>3 DEF TailMove
<1>5. y \in [Win -> Uses]
  BY <1>1
<1> HIDE DEF y
<1> QED BY <1>4, <1>5, TailKeeps

(* decon_disable and decon_enter_hibernation. *)
LEMMA StopWired == ASSUME WInv, "color_reinit" \notin Races, NEW c \in Crtc, Stop(c) PROVE WInv'
<1> DEFINE x == IF crtc[c].power = "sleep" THEN "HIBERNATION" ELSE "OFF"
           j == IF crtc[c].power = "on" THEN [job[c] EXCEPT !.phase = "start"] ELSE Job("idle", {}, {}, FALSE, FALSE)
<1>1. /\ job[c].phase = "stop" /\ UNCHANGED drm /\ job' = [job EXCEPT ![c] = j] /\ decon' = [decon EXCEPT ![c] = x]
      /\ IF decon[c] = "ON" THEN Reinit(c) ELSE UNCHANGED <<window, dpp, prot>>
  BY DEF Stop
<1>2. WiringTypes /\ CrtcInv(c)
  BY DEF WInv
<1>3. PICK T : Reset(c, T)
  BY <1>1, ReinitResets, StoppedIsReset
<1>4. job[c] \in JobRecord /\ x \in DeconStates /\ x # "ON"
  BY <1>2 DEF WiringTypes, DeconStates
<1>5. /\ j \in JobRecord /\ j.todo \subseteq job[c].todo /\ j.removed \subseteq job[c].removed
      /\ IF crtc[c].power = "on" THEN j.phase = "start" /\ j.todo = job[c].todo /\ j.removed = job[c].removed
         ELSE j.phase = "idle" /\ j.todo = {} /\ j.removed = {} /\ ~j.zpos
  BY <1>4 DEF JobRecord, Phases, Job
<1> HIDE DEF j, x
<1>6. /\ crtc' = crtc /\ owner' = owner /\ content' = content
      /\ job'[c] = j /\ decon'[c] = x /\ window'[c] = AllDark
  BY <1>1, <1>2, <1>3 DEF drm, WiringTypes, Reset
<1>7. Pool!Held(c)' = Pool!Held(c)
  BY <1>6 DEF Pool!Held
<1>8. PhaseInv(c)'
  BY <1>1, <1>2, <1>4, <1>5, <1>6, <1>7 DEF CrtcInv, PhaseInv
<1>9. ContentInv(c)'
  <2>1. \A p \in job[c].removed : ~dpp'[p].on
    BY <1>3 DEF Reset, Used
  <2> QED BY <1>2, <1>5, <1>6, <2>1 DEF CrtcInv, ContentInv
<1>10. DarkInv(c)'
  BY <1>6 DEF DarkInv, AllDark
<1>11. WindowInv(c)' /\ KnownInv(c)' /\ BusyInv(c)'
  BY <1>4, <1>5, <1>6 DEF WindowInv, KnownInv, BusyInv
<1>12. CrtcInv(c)'
  BY <1>8, <1>9, <1>10, <1>11 DEF CrtcInv
<1> QED BY <1>1, <1>3, <1>4, <1>5, <1>12, ResetKeeps

(* decon_enable and decon_exit_hibernation. *)
LEMMA StartWired == ASSUME WInv, "color_reinit" \notin Races, NEW c \in Crtc, Start(c) PROVE WInv'
<1> DEFINE x == "ON"
           j == [job[c] EXCEPT !.phase = "planes"]
<1>1. /\ job[c].phase = "start" /\ UNCHANGED drm /\ decon' = [decon EXCEPT ![c] = x]
      /\ job' = [job EXCEPT ![c].phase = "planes"]
      /\ IF decon[c] = "INIT" THEN Reinit(c) ELSE UNCHANGED <<window, dpp, prot>>
  BY DEF Start
<1>2. WiringTypes /\ CrtcInv(c)
  BY DEF WInv
<1>3. decon[c] # "ON"
  BY <1>1, <1>2 DEF CrtcInv, PhaseInv
<1>4. PICK T : Reset(c, T)
  BY <1>1, <1>3, ReinitResets, StoppedIsReset
<1>5. job[c] \in JobRecord /\ x \in DeconStates /\ crtc[c].power = "on" /\ ToSet(crtc[c].order) \subseteq job[c].todo
  BY <1>1, <1>2 DEF CrtcInv, PhaseInv, WiringTypes, DeconStates
<1>6. /\ j \in JobRecord /\ j.todo = job[c].todo /\ j.removed = job[c].removed /\ j.phase = "planes"
      /\ job' = [job EXCEPT ![c] = j]
  BY <1>1, <1>2, <1>5 DEF JobRecord, Phases, WiringTypes
<1> HIDE DEF j
<1>7. /\ crtc' = crtc /\ owner' = owner /\ content' = content
      /\ job'[c] = j /\ decon'[c] = "ON" /\ window'[c] = AllDark
  BY <1>1, <1>2, <1>4, <1>6 DEF drm, WiringTypes, Reset
<1>8. Pool!Held(c)' = Pool!Held(c) /\ Entries(c)' = Entries(c)
  BY <1>7 DEF Pool!Held, Entries
<1>9. PhaseInv(c)'
  BY <1>1, <1>2, <1>5, <1>6, <1>7, <1>8 DEF CrtcInv, PhaseInv
<1>10. ContentInv(c)'
  <2>1. \A p \in job[c].removed : ~dpp'[p].on
    BY <1>4 DEF Reset, Used
  <2> QED BY <1>2, <1>6, <1>7, <2>1 DEF CrtcInv, ContentInv
<1>11. WindowInv(c)'
  <2>1. \A i \in Entries(c) : crtc[c].order[i] \in j.todo
    BY <1>2, <1>5, <1>6, EntryPlanes
  <2>2. \A w \in Win : Stale(c, w)'
    BY <1>7 DEF Stale, AllDark
  <2> QED BY <1>6, <1>7, <1>8, <2>1, <2>2 DEF WindowInv
<1>12. KnownInv(c)'
  <2>1. \A i \in Entries(c) : ~dpp'[crtc[c].order[i]].connected
    BY <1>2, <1>4, EntryPlanes DEF Reset, Used
  <2> QED BY <1>7, <1>8, <2>1 DEF KnownInv
<1>13. CrtcInv(c)'
  BY <1>6, <1>7, <1>9, <1>10, <1>11, <1>12 DEF CrtcInv, BusyInv, DarkInv
<1>14. j.todo \subseteq job[c].todo /\ j.removed \subseteq job[c].removed
  BY <1>6
<1> HIDE DEF x
<1> QED BY <1>1, <1>4, <1>5, <1>6, <1>13, <1>14, ResetKeeps

-----------------------------------------------------------------------------
(* Commits *)

(* What a commit asks of c, whoever makes it: the planes that stay show what *)
(* they showed unless they are touched, those given up show nothing, and     *)
(* nothing changes for the planes of others.                                 *)
Request(c, power, order, touched, shows, modeset) ==
  /\ Ready(c) /\ Commit(c, power, order, touched, shows, modeset)
  /\ ToSet(order) \cap Taken(c) = {} /\ touched \subseteq ToSet(order)
  /\ ToSet(order) \subseteq ToSet(crtc[c].order) \cup touched
  /\ power # "on" => touched = {}
  /\ modeset \in BOOLEAN /\ (modeset => power = "on" /\ crtc[c].power = "on")
  /\ \A p \in ToSet(order) : shows[p] # "none" /\ (p \notin touched => shows[p] = content[p])
  /\ \A p \in ToSet(crtc[c].order) \ ToSet(order) : shows[p] = "none"
  /\ \A p \in Taken(c) : shows[p] = content[p]

(* The windows R that the pool gives c. *)
Granted(c, power, order, shows, R) ==
  /\ Cardinality(R) = WinCnt(power, order)
  /\ owner' = [w \in Win |-> IF w \in R THEN c ELSE IF owner[w] = c THEN NoCrtc ELSE owner[w]]
  /\ Pool!Resize
  /\ power = "on" /\ order # <<>> /\ "kept_color" \notin Races =>
       \A w \in Win : window[c][w] = <<"color", 0>> => w \in VisibleWindows(order, R, shows)

(* The pool moves windows between c and the free ones only. *)
LEMMA GrantedWindows ==
  ASSUME WiringTypes, NEW c \in Crtc, NEW power, NEW order, NEW shows, NEW R \in SUBSET Win,
         Granted(c, power, order, shows, R)
  PROVE  /\ Pool!Held(c)' = R /\ (Pool!Held(c) \subseteq R \/ R \subseteq Pool!Held(c))
         /\ \A d \in Crtc \ {c} : Pool!Held(d)' = Pool!Held(d)
         /\ owner' \in [Win -> Crtc \cup {NoCrtc}]
<1>1. NoCrtc # c /\ owner \in [Win -> Crtc \cup {NoCrtc}]
  BY PlanesAssumption DEF WiringTypes
<1>2. owner' = [w \in Win |-> IF w \in R THEN c ELSE IF owner[w] = c THEN NoCrtc ELSE owner[w]]
  BY DEF Granted
<1>3. /\ \A w \in Win : owner[w] = NoCrtc \/ owner'[w] \in {NoCrtc, owner[w]}
      /\ \A d \in Crtc : Pool!Held(d) \subseteq Pool!Held(d)' \/ Pool!Held(d)' \subseteq Pool!Held(d)
  BY DEF Granted, Pool!Resize
<1>4. Pool!Held(c)' = R
  BY <1>1, <1>2 DEF Pool!Held
<1>5. ASSUME NEW d \in Crtc \ {c} PROVE Pool!Held(d)' = Pool!Held(d)
  <2>1. ASSUME NEW w \in Win PROVE owner'[w] = d <=> owner[w] = d
    <3>1. d # NoCrtc /\ d # c
      BY PlanesAssumption
    <3>2. CASE w \in R
      BY <1>1, <1>2, <1>3, <3>1, <3>2
    <3>3. CASE w \notin R
      BY <1>1, <1>2, <3>1, <3>3
    <3> QED BY <3>2, <3>3
  <2> QED BY <2>1 DEF Pool!Held
<1>6. owner' \in [Win -> Crtc \cup {NoCrtc}]
  BY <1>1, <1>2
<1> QED BY <1>3, <1>4, <1>5, <1>6

(* The tail of a commit: what the helpers add to its planes. *)
CommitTail(c, power, order, touched, modeset, j) ==
  LET removed == ToSet(crtc[c].order) \ ToSet(order)
      zpos    == order # crtc[c].order
  IN  /\ j \in JobRecord
      /\ j.phase = FirstPhase(c, power, modeset)
      /\ j.todo = IF power # "on" THEN {}
                  ELSE removed \cup IF zpos \/ power # crtc[c].power \/ modeset THEN ToSet(order) ELSE touched
      /\ j.removed = IF FirstPhase(c, power, modeset) = "idle" THEN {} ELSE removed
      /\ j.zpos = (power = "on" /\ zpos)
      /\ j.skip = (power = "on" /\ crtc[c].power = "sleep" /\ touched = {})

(* A commit that was asked for changes the state and starts such a tail. *)
LEMMA CommitIs ==
  ASSUME WiringTypes, NEW c \in Crtc, NEW power \in {"on", "sleep", "off"}, NEW order \in Seq(Plane),
         NEW touched, NEW shows, NEW modeset, Request(c, power, order, touched, shows, modeset)
  PROVE  /\ crtc' = [crtc EXCEPT ![c] = [power |-> power, order |-> order]]
         /\ content' = shows /\ commits' = commits + 1 /\ UNCHANGED <<decon, window, dpp, prot>>
         /\ \E j : job' = [job EXCEPT ![c] = j] /\ CommitTail(c, power, order, touched, modeset, j)
         /\ \E R \in SUBSET Win : Granted(c, power, order, shows, R)
<1> DEFINE removed == ToSet(crtc[c].order) \ ToSet(order)
           zpos == order # crtc[c].order
           all == zpos \/ power # crtc[c].power \/ modeset
           todo == IF power # "on" THEN {} ELSE removed \cup (IF all THEN ToSet(order) ELSE touched)
           phase == FirstPhase(c, power, modeset)
           left == IF phase = "idle" THEN {} ELSE removed
           late == power = "on" /\ zpos
           skip == power = "on" /\ crtc[c].power = "sleep" /\ touched = {}
           j == Job(phase, todo, left, late, skip)
<1>1. Commit(c, power, order, touched, shows, modeset)
  BY DEF Request
<1>2. /\ crtc' = [crtc EXCEPT ![c] = [power |-> power, order |-> order]]
      /\ content' = shows /\ commits' = commits + 1 /\ UNCHANGED <<decon, window, dpp, prot>>
      /\ job' = [job EXCEPT ![c] = j]
  BY <1>1 DEF Commit
<1>3. \E R \in SUBSET Win : Granted(c, power, order, shows, R)
  BY <1>1 DEF Commit, Granted
<1>4. ToSet(order) \subseteq Plane /\ ToSet(crtc[c].order) \subseteq Plane
  BY OrderPlanes DEF WiringTypes, StateRecord
<1>5. touched \subseteq ToSet(order)
  BY DEF Request
<1>6. todo \in SUBSET Plane /\ left \in SUBSET Plane
  BY <1>4, <1>5
<1>7. phase \in {"idle", "stop", "start", "planes"}
  BY DEF FirstPhase
<1>8. late \in BOOLEAN /\ skip \in BOOLEAN
  OBVIOUS
<1>9. j \in JobRecord /\ j.phase = phase /\ j.todo = todo /\ j.removed = left /\ j.zpos = late /\ j.skip = skip
  <2> HIDE DEF todo, left, phase, late, skip
  <2> QED BY <1>6, <1>7, <1>8 DEF Job, JobRecord, Phases
<1> HIDE DEF j
<1>10. CommitTail(c, power, order, touched, modeset, j)
  BY <1>9 DEF CommitTail
<1> QED BY <1>2, <1>3, <1>10

(* A commit of c with its tail j and its windows R, and what it leaves. *)
Committing(c, power, order, touched, shows, modeset, j, R) ==
  /\ Request(c, power, order, touched, shows, modeset)
  /\ CommitTail(c, power, order, touched, modeset, j) /\ Granted(c, power, order, shows, R)
  /\ crtc'[c] = [power |-> power, order |-> order] /\ job'[c] = j /\ content' = shows
  /\ \A d \in Crtc \ {c} : crtc'[d] = crtc[d] /\ job'[d] = job[d]
  /\ decon' = decon /\ window' = window /\ dpp' = dpp
  /\ Pool!Held(c)' = R /\ (Pool!Held(c) \subseteq R \/ R \subseteq Pool!Held(c))
  /\ \A d \in Crtc \ {c} : Pool!Held(d)' = Pool!Held(d)

(* The first thing that a tail does, and what it has to do with the planes.  *)
LEMMA CommitPhase ==
  ASSUME WInv, NEW c \in Crtc, NEW power \in {"on", "sleep", "off"}, NEW order \in Seq(Plane),
         NEW touched, NEW shows, NEW modeset, NEW j, NEW R \in SUBSET Win,
         Committing(c, power, order, touched, shows, modeset, j, R)
  PROVE  /\ j.phase \in {"idle", "stop", "start", "planes"}
         /\ j.phase = "idle" => power # "on" /\ decon[c] # "ON" /\ j.removed = {}
         /\ power # "on" => j.todo = {} /\ ~j.zpos /\ j.phase \in {"idle", "stop"}
         /\ j.phase # "idle" => j.removed = ToSet(crtc[c].order) \ ToSet(order)
         /\ power = "on" => ToSet(crtc[c].order) \ ToSet(order) \subseteq j.todo /\ touched \subseteq j.todo
         /\ j.todo \subseteq ToSet(order) \cup j.removed
         /\ power = "on" /\ j.phase \in {"stop", "start"} => ToSet(order) \subseteq j.todo
         /\ j.phase = "start" => decon[c] # "ON"
         /\ j.phase = "planes" =>
              /\ decon[c] = "ON" /\ power = "on" /\ crtc[c].power = "on" /\ ~j.skip
              /\ j.zpos <=> order # crtc[c].order
              /\ j.zpos => ToSet(order) \subseteq j.todo
<1>1. job[c].phase = "idle" /\ (crtc[c].power = "on" <=> decon[c] = "ON")
  BY DEF WInv, CrtcInv, PhaseInv, Committing, Request, Ready
<1> DEFINE removed == ToSet(crtc[c].order) \ ToSet(order)
           zpos == order # crtc[c].order
           phase == FirstPhase(c, power, modeset)
<1>2. /\ j.phase = phase
      /\ j.todo = IF power # "on" THEN {}
                  ELSE removed \cup IF zpos \/ power # crtc[c].power \/ modeset THEN ToSet(order) ELSE touched
      /\ j.removed = IF phase = "idle" THEN {} ELSE removed
      /\ j.zpos = (power = "on" /\ zpos)
      /\ j.skip = (power = "on" /\ crtc[c].power = "sleep" /\ touched = {})
  BY DEF Committing, CommitTail
<1>3. touched \subseteq ToSet(order) /\ (modeset => power = "on" /\ crtc[c].power = "on")
  BY DEF Committing, Request
<1>4. phase \in {"idle", "stop", "start", "planes"}
  BY DEF FirstPhase
<1>5. /\ phase = "idle" => power # "on" /\ decon[c] # "ON"
      /\ power # "on" => phase \in {"idle", "stop"}
      /\ phase = "stop" /\ power = "on" => modeset
      /\ phase = "start" => decon[c] # "ON"
      /\ phase = "planes" => decon[c] = "ON" /\ power = "on" /\ ~modeset
  BY <1>3 DEF FirstPhase
<1> HIDE DEF phase
<1>6. /\ j.phase \in {"idle", "stop", "start", "planes"}
      /\ j.phase = "idle" => power # "on" /\ decon[c] # "ON" /\ j.removed = {}
      /\ power # "on" => j.todo = {} /\ ~j.zpos /\ j.phase \in {"idle", "stop"}
      /\ j.phase # "idle" => j.removed = removed
      /\ j.phase = "start" => decon[c] # "ON"
  BY <1>2, <1>4, <1>5
<1>7. /\ power = "on" => removed \subseteq j.todo /\ touched \subseteq j.todo
      /\ j.todo \subseteq ToSet(order) \cup j.removed
  BY <1>2, <1>3, <1>5
<1>8. power = "on" /\ j.phase \in {"stop", "start"} => ToSet(order) \subseteq j.todo
  BY <1>1, <1>2, <1>5
<1>9. j.phase = "planes" =>
        /\ decon[c] = "ON" /\ power = "on" /\ crtc[c].power = "on" /\ ~j.skip
        /\ j.zpos <=> zpos
        /\ j.zpos => ToSet(order) \subseteq j.todo
  BY <1>1, <1>2, <1>5
<1> QED BY <1>6, <1>7, <1>8, <1>9

(* What the windows of c show is no more than what the tail has to do.       *)
LEMMA CommitWindows ==
  ASSUME WInv, "kept_color" \notin Races, NEW c \in Crtc, NEW power \in {"on", "sleep", "off"}, NEW order \in Seq(Plane),
         NEW touched, NEW shows, NEW modeset, NEW j, NEW R \in SUBSET Win,
         Committing(c, power, order, touched, shows, modeset, j, R), j.phase = "planes"
  PROVE  /\ \A i \in Entries(c)' : order[i] \notin j.todo => Wired(c, i)'
         /\ \A w \in Win : Spare(c, w)' => Stale(c, w)'
         /\ ~j.zpos => \A i \in Entries(c)' : dpp[order[i]].connected => dpp[order[i]].win = At(c, i)'
<1>1. WiringTypes /\ CrtcInv(c)
  BY DEF WInv
<1>2. /\ decon[c] = "ON" /\ power = "on" /\ crtc[c].power = "on" /\ ~j.skip
      /\ j.zpos <=> order # crtc[c].order
      /\ j.zpos => ToSet(order) \subseteq j.todo
      /\ ToSet(crtc[c].order) \ ToSet(order) \subseteq j.todo /\ touched \subseteq j.todo
  <2>1. j.phase = "planes" =>
          /\ decon[c] = "ON" /\ power = "on" /\ crtc[c].power = "on" /\ ~j.skip
          /\ j.zpos <=> order # crtc[c].order
          /\ j.zpos => ToSet(order) \subseteq j.todo
    BY CommitPhase
  <2>2. power = "on" => ToSet(crtc[c].order) \ ToSet(order) \subseteq j.todo /\ touched \subseteq j.todo
    BY CommitPhase
  <2> QED BY <2>1, <2>2
<1>3. /\ crtc'[c].order = order /\ job'[c] = j /\ content' = shows /\ window' = window /\ dpp' = dpp
      /\ Pool!Held(c)' = R
  BY DEF Committing
<1>4. job[c].phase = "idle" /\ job[c].todo = {}
  BY <1>1 DEF CrtcInv, PhaseInv, Committing, Request, Ready
<1>5. /\ \A i \in Entries(c) : Wired(c, i)
      /\ \A w \in Win : Spare(c, w) => Stale(c, w)
  BY <1>1, <1>2, <1>4 DEF CrtcInv, WindowInv
(* A window that shows a plane of the old state, which is to be done. *)
<1>6. ASSUME NEW w \in Win, NEW i \in Entries(c), Visible(c, i), At(c, i) = w, crtc[c].order[i] \in j.todo
      PROVE  Stale(c, w)'
  <2> DEFINE q == crtc[c].order[i]
             use == IF content[q] = "color" THEN "color" ELSE "dpp"
  <2>1. /\ window[c][w] = <<use, q>> /\ dpp[q].win = w
        /\ (dpp[q].on <=> content[q] \in Fetched) /\ (dpp[q].on => dpp[q].decon = c)
    BY <1>5, <1>6 DEF Wired, Visible
  <2>2. content[q] \in Contents /\ content[q] # "none" /\ content[q] # "invisible"
    BY <1>1, <1>6, EntryPlanes DEF WiringTypes, CrtcInv, ContentInv, Visible
  <2>3. use = "dpp" => dpp[q].on /\ dpp[q].decon = c
    BY <2>1, <2>2 DEF Contents, Fetched
  <2>4. q \in j.todo /\ use \in {"dpp", "color"}
    BY <1>6
  <2> HIDE DEF q, use
  <2> QED BY <1>3, <2>1, <2>3, <2>4 DEF Stale
<1>7. CASE j.zpos
  <2>1. ASSUME NEW w \in Win, Spare(c, w)' PROVE Stale(c, w)'
    <3>1. CASE Spare(c, w)
      <4>1. CASE window[c][w] = Dark
        BY <1>3, <4>1 DEF Stale
      <4>2. CASE window[c][w] = <<"color", 0>> /\ crtc[c].order = <<>>
        <5>1. order # <<>>
          BY <1>2, <1>7, <4>2
        <5>2. w \in VisibleWindows(order, R, shows)
          BY <1>2, <4>2, <5>1 DEF Committing, Granted
        <5>3. ~Spare(c, w)'
          BY <1>3, <5>2 DEF VisibleWindows, Spare, At, Visible, Entries
        <5> QED BY <2>1, <5>3
      <4> QED BY <1>4, <1>5, <3>1, <4>1, <4>2 DEF Stale
    <3>2. CASE ~Spare(c, w)
      <4>1. PICK i \in Entries(c) : Visible(c, i) /\ At(c, i) = w
        BY <3>2 DEF Spare
      <4>2. crtc[c].order[i] \in j.todo
        BY <1>1, <1>2, <1>7, EntryPlanes
      <4> QED BY <1>6, <4>1, <4>2
    <3> QED BY <3>1, <3>2
  <2>2. \A i \in Entries(c)' : order[i] \in j.todo
    BY <1>2, <1>3, <1>7 DEF Entries, ToSet
  <2> QED BY <1>7, <2>1, <2>2
<1>8. CASE ~j.zpos
  <2>1. order = crtc[c].order
    BY <1>2, <1>8
  <2>2. R = Pool!Held(c)
    <3>1. Cardinality(R) = WinCnt(power, order) /\ Cardinality(Pool!Held(c)) = WinCnt(crtc[c].power, crtc[c].order)
      BY <1>1 DEF Committing, Granted, CrtcInv, PhaseInv
    <3>2. Cardinality(R) = Cardinality(Pool!Held(c))
      BY <1>2, <2>1, <3>1
    <3>3. IsFiniteSet(R) /\ IsFiniteSet(Pool!Held(c))
      <4>1. IsFiniteSet(Win) /\ R \subseteq Win /\ Pool!Held(c) \subseteq Win
        BY PlanesAssumption, FS_Interval DEF Win, Pool!Held
      <4> QED BY <4>1, FS_Subset
    <3>4. Pool!Held(c) \subseteq R \/ R \subseteq Pool!Held(c)
      BY DEF Committing
    <3> QED BY <3>2, <3>3, <3>4, FS_Subset
  <2>3. Entries(c)' = Entries(c) /\ \A i : At(c, i)' = At(c, i)
    BY <1>3, <2>1, <2>2 DEF Entries, At
  <2>4. \A p \in ToSet(order) : p \notin touched => shows[p] = content[p]
    BY DEF Committing, Request
  <2>5. ASSUME NEW i \in Entries(c), crtc[c].order[i] \notin j.todo
        PROVE  content'[crtc[c].order[i]] = content[crtc[c].order[i]]
    BY <1>1, <1>2, <1>3, <2>1, <2>4, <2>5, EntryPlanes
  <2>6. ASSUME NEW i \in Entries(c), crtc[c].order[i] \notin j.todo PROVE Wired(c, i)'
    <3>1. Wired(c, i)
      BY <1>5
    <3> QED BY <1>3, <2>1, <2>3, <2>5, <2>6, <3>1 DEF Wired
  <2>7. ASSUME NEW w \in Win, Spare(c, w)' PROVE Stale(c, w)'
    <3>1. CASE Spare(c, w)
      <4>1. Stale(c, w)
        BY <1>5, <3>1
      <4> QED BY <1>2, <1>3, <1>4, <2>1, <2>3, <4>1 DEF Stale
    <3>2. CASE ~Spare(c, w)
      <4>1. PICK i \in Entries(c) : Visible(c, i) /\ At(c, i) = w
        BY <3>2 DEF Spare
      <4>2. ~Visible(c, i)'
        BY <2>3, <2>7, <4>1 DEF Spare
      <4>3. crtc[c].order[i] \in j.todo
        BY <1>3, <2>1, <2>5, <4>1, <4>2 DEF Visible
      <4> QED BY <1>6, <4>1, <4>3
    <3> QED BY <3>1, <3>2
  <2>8. ~job[c].zpos
    BY <1>1, <1>4 DEF CrtcInv, PhaseInv
  <2>9. \A i \in Entries(c) : dpp[crtc[c].order[i]].connected => dpp[crtc[c].order[i]].win = At(c, i)
    BY <1>1, <1>2, <1>4, <2>8 DEF CrtcInv, KnownInv
  <2> QED BY <2>1, <2>3, <2>6, <2>7, <2>9
<1> QED BY <1>7, <1>8

(* A commit keeps the invariant. *)
LEMMA CommitWired ==
  ASSUME WInv, "kept_color" \notin Races, NEW c \in Crtc, NEW power \in {"on", "sleep", "off"}, NEW order \in Seq(Plane),
         IsInjective(order), NEW touched, NEW shows \in [Plane -> Contents], NEW modeset,
         Request(c, power, order, touched, shows, modeset)
  PROVE  WInv'
<1>1. WiringTypes /\ CrtcInv(c)
  BY DEF WInv
<1>2. /\ crtc' = [crtc EXCEPT ![c] = [power |-> power, order |-> order]]
      /\ content' = shows /\ commits' = commits + 1 /\ UNCHANGED <<decon, window, dpp, prot>>
      /\ \E j : job' = [job EXCEPT ![c] = j] /\ CommitTail(c, power, order, touched, modeset, j)
      /\ \E R \in SUBSET Win : Granted(c, power, order, shows, R)
  BY <1>1, CommitIs
<1>3. PICK j : job' = [job EXCEPT ![c] = j] /\ CommitTail(c, power, order, touched, modeset, j)
  BY <1>2
<1>4. PICK R \in SUBSET Win : Granted(c, power, order, shows, R)
  BY <1>2
<1>5. /\ Pool!Held(c)' = R /\ (Pool!Held(c) \subseteq R \/ R \subseteq Pool!Held(c))
      /\ \A d \in Crtc \ {c} : Pool!Held(d)' = Pool!Held(d)
      /\ owner' \in [Win -> Crtc \cup {NoCrtc}]
  BY <1>1, <1>4, GrantedWindows
<1>6. /\ crtc'[c] = [power |-> power, order |-> order] /\ job'[c] = j /\ content' = shows
      /\ \A d \in Crtc \ {c} : crtc'[d] = crtc[d] /\ job'[d] = job[d]
      /\ decon' = decon /\ window' = window /\ dpp' = dpp
  BY <1>1, <1>2, <1>3 DEF WiringTypes
<1>7. Committing(c, power, order, touched, shows, modeset, j, R)
  BY <1>3, <1>4, <1>5, <1>6 DEF Committing
<1>8. /\ j.phase \in {"idle", "stop", "start", "planes"}
      /\ j.phase = "idle" => power # "on" /\ decon[c] # "ON" /\ j.removed = {}
      /\ power # "on" => j.todo = {} /\ ~j.zpos /\ j.phase \in {"idle", "stop"}
      /\ j.phase # "idle" => j.removed = ToSet(crtc[c].order) \ ToSet(order)
      /\ power = "on" => ToSet(crtc[c].order) \ ToSet(order) \subseteq j.todo /\ touched \subseteq j.todo
      /\ j.todo \subseteq ToSet(order) \cup j.removed
      /\ power = "on" /\ j.phase \in {"stop", "start"} => ToSet(order) \subseteq j.todo
      /\ j.phase = "start" => decon[c] # "ON"
      /\ j.phase = "planes" =>
           /\ decon[c] = "ON" /\ power = "on" /\ crtc[c].power = "on" /\ ~j.skip
           /\ j.zpos <=> order # crtc[c].order
           /\ j.zpos => ToSet(order) \subseteq j.todo
  BY <1>7, CommitPhase
<1>9. /\ job[c].phase = "idle" /\ commits < MaxCommits /\ ToSet(order) \cap Taken(c) = {}
      /\ (\A p \in ToSet(order) : shows[p] # "none")
      /\ (\A p \in ToSet(crtc[c].order) \ ToSet(order) : shows[p] = "none")
      /\ (\A p \in Taken(c) : shows[p] = content[p])
  BY DEF Request, Ready
<1>10. WiringTypes'
  <2>1. crtc' \in [Crtc -> StateRecord] /\ \A d \in Crtc : IsInjective(crtc'[d].order)
    BY <1>1, <1>2, <1>6 DEF WiringTypes, StateRecord
  <2>2. job' \in [Crtc -> JobRecord]
    BY <1>1, <1>3 DEF WiringTypes, CommitTail
  <2>3. commits' \in 0 .. MaxCommits
    <3>1. commits \in 0 .. MaxCommits /\ MaxCommits \in Nat
      BY <1>1, PlanesAssumption DEF WiringTypes
    <3> QED BY <1>2, <1>9, <3>1
  <2> QED BY <1>1, <1>2, <1>5, <2>1, <2>2, <2>3 DEF WiringTypes, prot
<1>11. PhaseInv(c)'
  <2>1. Cardinality(R) = WinCnt(power, order)
    BY <1>4 DEF Granted
  <2> HIDE DEF Committing
  <2> QED BY <1>5, <1>6, <1>8, <2>1 DEF PhaseInv
<1>12. ContentInv(c)'
  <2>1. \A p \in j.removed : p \in ToSet(crtc[c].order) \ ToSet(order) /\ (power = "on" => p \in j.todo)
    BY <1>8
  <2> QED BY <1>6, <1>9, <2>1 DEF ContentInv
<1>13. /\ j.phase = "planes" => \A i \in Entries(c)' : order[i] \notin j.todo => Wired(c, i)'
       /\ j.phase = "planes" => \A w \in Win : Spare(c, w)' => Stale(c, w)'
       /\ j.phase = "planes" /\ ~j.zpos => \A i \in Entries(c)' : dpp[order[i]].connected => dpp[order[i]].win = At(c, i)'
  BY <1>7, CommitWindows
<1>14. j.phase \in {"idle", "planes", "secure"} /\ decon[c] = "ON" => j.phase = "planes"
  BY <1>8
<1>15. CrtcInv(c)'
  <2>1. WindowInv(c)'
    BY <1>6, <1>13, <1>14 DEF WindowInv
  <2>2. KnownInv(c)'
    BY <1>6, <1>13, <1>14 DEF KnownInv
  <2>3. BusyInv(c)' /\ DarkInv(c)'
    BY <1>1, <1>6, <1>8 DEF CrtcInv, BusyInv, DarkInv
  <2> QED BY <1>11, <1>12, <2>1, <2>2, <2>3 DEF CrtcInv
<1>16. \A d \in Crtc \ {c} : Used(d)' = Used(d) /\ Used(d) \subseteq Taken(c)
  BY <1>6 DEF Used, Taken
<1>17. Apart'
  <2>1. Used(c)' \subseteq Used(c) \cup ToSet(order)
    <3>1. j.removed \subseteq ToSet(crtc[c].order)
      BY <1>8
    <3> QED BY <1>6, <1>8, <3>1 DEF Used
  <2>2. ASSUME NEW d \in Crtc \ {c} PROVE Used(c)' \cap Used(d)' = {}
    BY <1>9, <1>16, <2>1 DEF WInv, Apart
  <2> QED BY <1>16, <2>2 DEF WInv, Apart
<1>18. ASSUME NEW d \in Crtc \ {c} PROVE CrtcInv(d)'
  <2>1. CrtcInv(d) /\ \A p \in Used(d) : content'[p] = content[p] /\ dpp'[p] = dpp[p]
    BY <1>6, <1>9, <1>16 DEF WInv
  <2>2. \A p \in Used(d) : content'[p] = content[p]
    BY <2>1
  <2>3. \A p \in Used(d) : \/ dpp'[p] = dpp[p]
                           \/ /\ ~dpp[p].on /\ ~dpp'[p].on /\ ~dpp'[p].connected
                              /\ \A w \in Win : window[d][w] # <<"color", p>>
    BY <2>1
  <2>4. crtc'[d] = crtc[d] /\ job'[d] = job[d] /\ decon'[d] = decon[d] /\ window'[d] = window[d]
        /\ Pool!Held(d)' = Pool!Held(d)
    BY <1>5, <1>6
  <2> QED BY <1>1, <2>1, <2>2, <2>3, <2>4, Untouched
<1>19. ASSUME NEW p \in Plane PROVE DppOwned(p)'
  <2>1. DppOwned(p)
    BY DEF WInv
  <2> DEFINE d == dpp[p].decon
  <2>2. CASE dpp[p].on /\ d = c
    <3>1. decon[c] = "ON" /\ p \in ToSet(crtc[c].order)
      BY <1>1, <1>9, <2>1, <2>2 DEF DppOwned, CrtcInv, PhaseInv
    <3>2. p \in ToSet(order) \cup j.removed
      BY <1>8, <3>1
    <3> QED BY <1>6, <2>1, <2>2, <3>1, <3>2 DEF DppOwned
  <2>3. CASE dpp[p].on /\ d # c
    BY <1>6, <2>1, <2>3 DEF DppOwned
  <2>4. CASE ~dpp[p].on
    BY <1>6, <2>1, <2>4 DEF DppOwned
  <2> QED BY <2>2, <2>3, <2>4
<1> QED BY <1>10, <1>15, <1>17, <1>18, <1>19 DEF WInv

(* Something is asked of c. *)
Asks(c) ==
  \E power \in {"on", "sleep", "off"}, order \in Seq(Plane), touched \in SUBSET Plane,
     shows \in [Plane -> Contents], modeset \in BOOLEAN :
       IsInjective(order) /\ Request(c, power, order, touched, shows, modeset)

(* What user space may ask for is such a commit. *)
LEMMA UserCommitAsks == ASSUME WInv, NEW c \in Crtc, UserCommit(c) PROVE Asks(c)
<1> DEFINE Asked(P, power, modeset, order, touched) ==
             /\ modeset => power = "on" /\ crtc[c].power = "on"
             /\ power = "off" => crtc[c].power # "off" /\ touched = {} /\ order \in {<<>>, crtc[c].order}
             /\ P \ ToSet(crtc[c].order) \subseteq touched
             /\ \E shows \in [touched -> Contents \ {"none"}] :
                  Commit(c, power, order, touched, Committed(c, P, shows), modeset)
<1>1. \E P \in SUBSET (Plane \ Taken(c)), power \in {"on", "off"}, modeset \in BOOLEAN :
        \E order \in SetToSeqs(P), touched \in SUBSET P : Asked(P, power, modeset, order, touched)
  BY DEF UserCommit
<1> HIDE DEF Asked
<1>2. PICK P \in SUBSET (Plane \ Taken(c)), power \in {"on", "off"}, modeset \in BOOLEAN :
        \E order \in SetToSeqs(P), touched \in SUBSET P : Asked(P, power, modeset, order, touched)
  BY <1>1
<1>3. PICK order \in SetToSeqs(P), touched \in SUBSET P : Asked(P, power, modeset, order, touched)
  BY <1>2
<1>4. PICK asked \in [touched -> Contents \ {"none"}] :
        Commit(c, power, order, touched, Committed(c, P, asked), modeset)
  BY <1>3 DEF Asked
<1>5. /\ modeset => power = "on" /\ crtc[c].power = "on"
      /\ power = "off" => touched = {}
      /\ P \ ToSet(crtc[c].order) \subseteq touched
  BY <1>3 DEF Asked
<1>6. WiringTypes /\ CrtcInv(c)
  BY DEF WInv
<1>7. order \in Seq(Plane) /\ IsInjective(order) /\ ToSet(order) = P /\ P \subseteq Plane /\ P \cap Taken(c) = {}
  BY OrderIsAll
<1> DEFINE shows == Committed(c, P, asked)
<1>8. \A p \in Plane : shows[p] = IF p \in touched THEN asked[p]
                                  ELSE IF p \in ToSet(crtc[c].order) \ P THEN "none" ELSE content[p]
  BY DEF Committed
<1>9. shows \in [Plane -> Contents]
  <2>1. "none" \in Contents /\ \A p \in Plane : content[p] \in Contents
    BY <1>6 DEF WiringTypes, Contents
  <2>2. \A p \in touched : asked[p] \in Contents
    OBVIOUS
  <2> QED BY <2>1, <2>2 DEF Committed
<1>10. Commit(c, power, order, touched, shows, modeset)
  BY <1>4
<1> HIDE DEF shows
<1>11. ASSUME NEW p \in P PROVE shows[p] # "none" /\ (p \notin touched => shows[p] = content[p])
  <2>1. CASE p \in touched
    BY <1>7, <1>8, <2>1
  <2>2. CASE p \notin touched
    <3>1. p \in ToSet(crtc[c].order) /\ shows[p] = content[p]
      BY <1>5, <1>7, <1>8, <2>2
    <3> QED BY <1>6, <3>1 DEF CrtcInv, ContentInv
  <2> QED BY <2>1, <2>2
<1>12. ToSet(crtc[c].order) \subseteq Plane
  BY <1>6, OrderPlanes DEF WiringTypes, StateRecord
<1>13. \A p \in ToSet(crtc[c].order) \ P : shows[p] = "none"
  BY <1>8, <1>12
<1>14. ASSUME NEW p \in Taken(c) PROVE shows[p] = content[p]
  <2>1. PICK d \in Crtc \ {c} : p \in Used(d)
    BY <1>14 DEF Taken, Used
  <2>2. p \in Plane /\ p \notin ToSet(crtc[c].order)
    BY <2>1, OrderPlanes DEF WInv, WiringTypes, Apart, Used, StateRecord, JobRecord
  <2> QED BY <1>7, <1>8, <1>14, <2>2
<1>15. Ready(c) /\ power \in {"on", "sleep", "off"}
  BY DEF UserCommit
<1>16. power # "on" => touched = {}
  BY <1>5
<1>17. Request(c, power, order, touched, shows, modeset)
  BY <1>5, <1>7, <1>10, <1>11, <1>13, <1>14, <1>15, <1>16 DEF Request
<1>18. touched \in SUBSET Plane
  BY <1>7
<1> QED BY <1>7, <1>9, <1>15, <1>17, <1>18 DEF Asks

(* Self refresh leaves the planes as they are. *)
LEMMA HibernateAsks == ASSUME WInv, NEW c \in Crtc, Hibernate(c) PROVE Asks(c)
<1> DEFINE power == "sleep"
           order == crtc[c].order
           touched == {}
           modeset == FALSE
<1>1. WiringTypes /\ CrtcInv(c)
  BY DEF WInv
<1>2. Commit(c, power, order, touched, content, modeset) /\ Ready(c)
  BY DEF Hibernate
<1>3. order \in Seq(Plane) /\ IsInjective(order) /\ content \in [Plane -> Contents]
  BY <1>1 DEF WiringTypes, StateRecord
<1>4. ToSet(order) \cap Taken(c) = {}
  BY DEF WInv, Apart, Used, Taken
<1>5. \A p \in ToSet(order) : content[p] # "none"
  BY <1>1 DEF CrtcInv, ContentInv
<1>6. power # "on" /\ touched = {} /\ modeset = FALSE /\ power \in {"on", "sleep", "off"}
  OBVIOUS
<1>7. ToSet(order) = ToSet(crtc[c].order)
  OBVIOUS
<1> HIDE DEF power, order, touched, modeset
<1>8. Request(c, power, order, touched, content, modeset)
  BY <1>2, <1>4, <1>5, <1>6, <1>7 DEF Request
<1>9. touched \in SUBSET Plane /\ modeset \in BOOLEAN
  BY <1>6
<1> QED BY <1>3, <1>6, <1>8, <1>9 DEF Asks

(* So both kinds of commits keep the invariant. *)
LEMMA AsksWired == ASSUME WInv, "kept_color" \notin Races, NEW c \in Crtc, Asks(c) PROVE WInv'
<1>1. PICK power \in {"on", "sleep", "off"}, order \in Seq(Plane), touched \in SUBSET Plane,
           shows \in [Plane -> Contents], modeset \in BOOLEAN :
             IsInjective(order) /\ Request(c, power, order, touched, shows, modeset)
  BY DEF Asks
<1> QED BY <1>1, CommitWired

-----------------------------------------------------------------------------
(* The wiring at rest *)

(* Nothing is shown at the start. *)
LEMMA InitWired == Init => WInv
<1> SUFFICES ASSUME Init PROVE WInv
  OBVIOUS
<1>1. NPlane \in Nat /\ NWin \in Nat /\ MaxCommits \in Nat
  BY PlanesAssumption
<1>2. /\ crtc = [c \in Crtc |-> [power |-> "off", order |-> <<>>]]
      /\ job = [c \in Crtc |-> Job("idle", {}, {}, FALSE, FALSE)]
      /\ decon = [c \in Crtc |-> "INIT"] /\ window = [c \in Crtc |-> [w \in Win |-> Dark]]
      /\ owner = [w \in Win |-> NoCrtc]
      /\ content = [p \in Plane |-> "none"] /\ commits = 0
      /\ dpp = [p \in Plane |-> [on |-> FALSE, decon |-> NoCrtc, win |-> 0, connected |-> FALSE]]
      /\ protected = {} /\ mask = {} /\ forwarded = FALSE /\ refused = {}
  BY DEF Init, Pool!Init
<1>3. [power |-> "off", order |-> <<>>] \in StateRecord /\ IsInjective(<<>>) /\ ToSet(<<>>) = {} /\ DOMAIN <<>> = {}
  BY DEF StateRecord, IsInjective, ToSet
<1>4. Job("idle", {}, {}, FALSE, FALSE) \in JobRecord
  BY DEF Job, JobRecord, Phases
<1>5. [on |-> FALSE, decon |-> NoCrtc, win |-> 0, connected |-> FALSE] \in DppRecord(0 .. NoWin)
  BY <1>1 DEF DppRecord, NoWin
<1>6. /\ crtc \in [Crtc -> StateRecord] /\ \A c \in Crtc : IsInjective(crtc[c].order)
  BY <1>2, <1>3
<1>7. job \in [Crtc -> JobRecord] /\ dpp \in [Plane -> DppRecord(0 .. NoWin)]
  BY <1>2, <1>4, <1>5
<1>8. content \in [Plane -> Contents] /\ commits \in 0 .. MaxCommits /\ owner \in [Win -> Crtc \cup {NoCrtc}]
  BY <1>1, <1>2 DEF Contents
<1>9. window \in [Crtc -> [Win -> {Dark} \cup ({"dpp", "color"} \X (0 .. NPlane))]]
      /\ decon \in [Crtc -> {"INIT", "ON", "HIBERNATION", "OFF"}]
  BY <1>2
<1>10. WiringTypes
  BY <1>2, <1>6, <1>7, <1>8, <1>9 DEF WiringTypes
<1>11. \A c \in Crtc : /\ crtc[c].power = "off" /\ crtc[c].order = <<>> /\ decon[c] = "INIT"
                       /\ job[c].phase = "idle" /\ job[c].todo = {} /\ job[c].removed = {} /\ ~job[c].zpos
                       /\ \A w \in Win : window[c][w] = Dark
  BY <1>2 DEF Job
<1>12. Apart
  BY <1>3, <1>11 DEF Apart, Used
<1>13. ASSUME NEW c \in Crtc PROVE CrtcInv(c)
  <2>1. Cardinality(Pool!Held(c)) = 0
    <3>1. Pool!Held(c) = {}
      BY <1>2, PlanesAssumption DEF Pool!Held
    <3> QED BY <3>1, FS_EmptySet
  <2>2. PhaseInv(c)
    BY <1>3, <1>11, <2>1 DEF PhaseInv, WinCnt
  <2> QED BY <1>3, <1>11, <2>2 DEF CrtcInv, ContentInv, WindowInv, KnownInv, BusyInv, DarkInv
<1>14. \A p \in Plane : DppOwned(p)
  BY <1>2 DEF DppOwned
<1> QED BY <1>10, <1>12, <1>13, <1>14 DEF WInv

(* Every step of every CRTC keeps the invariant. *)
LEMMA NextWired ==
  ASSUME WInv, "color_reinit" \notin Races, "kept_color" \notin Races, [Next]_vars PROVE WInv'
<1>1. ASSUME NEW c \in Crtc, UserCommit(c) \/ Hibernate(c) PROVE WInv'
  BY <1>1, UserCommitAsks, HibernateAsks, AsksWired
<1>2. ASSUME NEW c \in Crtc, Stop(c) \/ Start(c) PROVE WInv'
  BY <1>2, StopWired, StartWired
<1>3. ASSUME NEW c \in Crtc, DisablePlane(c) \/ ColorPlane(c) PROVE WInv'
  BY <1>3, DisableWired, ColorWired
<1>4. ASSUME NEW c \in Crtc, UpdatePlane(c) \/ Secured(c) PROVE WInv'
  BY <1>4, UpdateWired, SecuredWired
<1>5. ASSUME NEW c \in Crtc, Flush(c) PROVE WInv'
  BY <1>5, FlushWired
<1>6. CASE UNCHANGED vars
  <2>1. UNCHANGED <<crtc, owner, content, commits, job, decon, window, dpp, protected, mask, forwarded, refused>>
    BY <1>6 DEF vars, drm, prot
  <2>2. WiringTypes' /\ Apart'
    BY <2>1 DEF WInv, WiringTypes, Apart, Used
  <2>3. ASSUME NEW c \in Crtc PROVE CrtcInv(c)'
    <3>1. /\ crtc'[c] = crtc[c] /\ job'[c] = job[c] /\ decon'[c] = decon[c] /\ window'[c] = window[c]
          /\ Pool!Held(c)' = Pool!Held(c)
      BY <2>1 DEF Pool!Held
    <3>2. \A p \in Used(c) : content'[p] = content[p]
      BY <2>1
    <3>3. \A p \in Used(c) : \/ dpp'[p] = dpp[p]
                             \/ /\ ~dpp[p].on /\ ~dpp'[p].on /\ ~dpp'[p].connected
                                /\ \A w \in Win : window[c][w] # <<"color", p>>
      BY <2>1
    <3>4. WiringTypes /\ CrtcInv(c)
      BY DEF WInv
    <3> QED BY <3>1, <3>2, <3>3, <3>4, Untouched
  <2>4. \A p \in Plane : DppOwned(p)'
    BY <2>1 DEF WInv, DppOwned
  <2> QED BY <2>2, <2>3, <2>4 DEF WInv
<1> QED BY <1>1, <1>2, <1>3, <1>4, <1>5, <1>6 DEF Next

(* At rest the invariant says what the property asks for. *)
LEMMA WiredExact == WInv => WiringExact
<1> SUFFICES ASSUME WInv PROVE WiringExact
  OBVIOUS
<1>1. WiringTypes
  BY DEF WInv
<1>2. TypeOK
  <2>1. ASSUME NEW c \in Crtc
        PROVE  /\ crtc[c].power \in {"on", "sleep", "off"}
               /\ ToSet(crtc[c].order) \subseteq Plane /\ IsInjective(crtc[c].order)
               /\ job[c].phase \in Phases
               /\ job[c].todo \subseteq Plane /\ job[c].removed \subseteq Plane
    BY <1>1, OrderPlanes DEF WiringTypes, StateRecord, JobRecord
  <2> QED BY <1>1, <2>1 DEF TypeOK, WiringTypes, DppRecord
<1>3. ASSUME NEW c \in Crtc, Settled(c), decon[c] # "ON"
      PROVE  /\ \A w \in Win : window[c][w] = Use(c, w)
             /\ \A p \in ToSet(crtc[c].order) : ~dpp[p].on
  <2>1. \A w \in Win : window[c][w] = Use(c, w)
    BY <1>3 DEF WInv, CrtcInv, DarkInv, Use
  <2>2. ASSUME NEW p \in ToSet(crtc[c].order), dpp[p].on PROVE FALSE
    <3>1. p \in Used(c)
      BY DEF Used
    <3>2. p \in Plane /\ dpp[p].decon = c
      BY <2>2, <3>1, OffUnlessOwned
    <3> QED BY <1>3, <2>2, <3>2 DEF WInv, DppOwned
  <2> QED BY <2>1, <2>2
<1>4. ASSUME NEW c \in Crtc, Settled(c), decon[c] = "ON"
      PROVE  /\ \A w \in Win : window[c][w] = Use(c, w)
             /\ \A p \in ToSet(crtc[c].order) :
                  /\ dpp[p].on <=> content[p] \in Fetched
                  /\ dpp[p].on => dpp[p].decon = c /\ window[c][dpp[p].win] = <<"dpp", p>>
  <2>1. job[c].phase = "idle" /\ job[c].todo = {}
    BY <1>4 DEF Settled, WInv, CrtcInv, PhaseInv
  <2>2. /\ \A i \in Entries(c) : Wired(c, i)
        /\ \A w \in Win : Spare(c, w) => Stale(c, w)
        /\ crtc[c].order = <<>> /\ ~job[c].skip => window[c][At(c, 1)] = <<"color", 0>>
    BY <1>4, <2>1 DEF WInv, CrtcInv, WindowInv
  <2>3. ASSUME NEW w \in Win PROVE window[c][w] = Use(c, w)
    <3> DEFINE at(i) == WinAt(Pool!Held(c), i - 1) = w /\ content[crtc[c].order[i]] # "invisible"
    <3>1. CASE \E i \in DOMAIN crtc[c].order : at(i)
      <4> DEFINE k == CHOOSE i \in DOMAIN crtc[c].order : at(i)
                 p == crtc[c].order[k]
      <4>1. k \in DOMAIN crtc[c].order /\ at(k)
        BY <3>1
      <4>2. Use(c, w) = <<IF content[p] = "color" THEN "color" ELSE "dpp", p>>
        BY <1>4, <3>1 DEF Use
      <4> HIDE DEF k
      <4>3. Wired(c, k) /\ At(c, k) = w /\ content[p] # "invisible"
        BY <2>2, <4>1 DEF Entries, At
      <4> QED BY <4>2, <4>3 DEF Wired
    <3>2. CASE ~\E i \in DOMAIN crtc[c].order : at(i)
      <4>1. Use(c, w) = IF crtc[c].order = <<>> /\ ~job[c].skip /\ WinAt(Pool!Held(c), 0) = w
                        THEN <<"color", 0>> ELSE Dark
        BY <1>4, <3>2 DEF Use
      <4>2. Spare(c, w)
        BY <3>2 DEF Spare, Entries, At, Visible
      <4>3. Stale(c, w) /\ At(c, 1) = WinAt(Pool!Held(c), 0)
        BY <2>2, <4>2 DEF At
      <4>4. CASE crtc[c].order = <<>> /\ ~job[c].skip /\ WinAt(Pool!Held(c), 0) = w
        BY <2>2, <4>1, <4>3, <4>4
      <4>5. CASE ~(crtc[c].order = <<>> /\ ~job[c].skip /\ WinAt(Pool!Held(c), 0) = w)
        BY <2>1, <4>1, <4>3, <4>5 DEF Stale
      <4> QED BY <4>4, <4>5
    <3> QED BY <3>1, <3>2
  <2>4. ASSUME NEW p \in ToSet(crtc[c].order)
        PROVE  /\ dpp[p].on <=> content[p] \in Fetched
               /\ dpp[p].on => dpp[p].decon = c /\ window[c][dpp[p].win] = <<"dpp", p>>
    <3>1. PICK i \in Entries(c) : crtc[c].order[i] = p
      BY <1>1, EntryPlanes
    <3>2. Wired(c, i)
      BY <2>2
    <3>3. CASE content[p] = "invisible"
      BY <3>1, <3>2, <3>3 DEF Wired, Fetched
    <3>4. CASE content[p] # "invisible"
      <4>1. content[p] \in Fetched => content[p] # "color"
        BY DEF Fetched
      <4> QED BY <3>1, <3>2, <3>4, <4>1 DEF Wired
    <3> QED BY <3>3, <3>4
  <2> QED BY <2>3, <2>4
<1>5. ASSUME NEW p \in Plane, p \notin UNION {ToSet(crtc[c].order) \cup job[c].removed : c \in Crtc} PROVE ~dpp[p].on
  BY <1>5 DEF WInv, DppOwned
<1>6. \A c \in Crtc : Settled(c) =>
       /\ \A w \in Win : window[c][w] = Use(c, w)
       /\ \A p \in ToSet(crtc[c].order) :
            /\ dpp[p].on <=> decon[c] = "ON" /\ content[p] \in Fetched
            /\ dpp[p].on => dpp[p].decon = c /\ window[c][dpp[p].win] = <<"dpp", p>>
  BY <1>3, <1>4
<1> QED BY <1>2, <1>5, <1>6 DEF WiringExact

(* After every commit, of however many CRTCs with however many planes and    *)
(* windows, the windows of a DECON are enabled for exactly what its state    *)
(* shows, and the DPPs run for exactly the visible buffers of the DECONs     *)
(* that run.  The hypotheses are what the driver does not see to: that no    *)
(* DECON is reset under a color map of another, and that no invisible plane  *)
(* follows a commit without planes.  Two tails may change secured_dpp_mask   *)
(* at once: the wiring does not depend on it.                                *)
THEOREM WiringKept ==
  "color_reinit" \notin Races /\ "kept_color" \notin Races /\ Spec => []WiringExact
<1>1. CASE "color_reinit" \notin Races /\ "kept_color" \notin Races
  <2>1. WInv /\ [Next]_vars => WInv'
    BY <1>1, NextWired
  <2> QED BY <2>1, InitWired, WiredExact, PTL DEF Spec
<1>2. CASE ~("color_reinit" \notin Races /\ "kept_color" \notin Races)
  BY <1>2
<1> QED BY <1>1, <1>2

(* So it is while DECONs vote for bandwidth. *)
THEOREM WiringKeptWhileVoting ==
  "color_reinit" \notin Races /\ "kept_color" \notin Races /\ BtsSpec => []WiringExact
  BY WiringKept, VotingImplementsTails

-----------------------------------------------------------------------------
(* Sums *)

(* What the values of f at the elements of S add up to. *)
Sum(f, S) == FoldFunctionOnSet(+, 0, f, S)

(* A number is as many blocks, numbered from 0, so a sum is a number of      *)
(* blocks.                                                                   *)
Blocks(f, S) == {b \in S \X Nat : b[2] < f[b[1]]}

(* Finitely many numbers. *)
Numbers(f, S) == IsFiniteSet(S) /\ \A s \in S : f[s] \in Nat

(* One more element adds its blocks, and no element has none.                *)
LEMMA BlocksOf ==
  ASSUME NEW f, NEW S, Numbers(f, S)
  PROVE  /\ IsFiniteSet(Blocks(f, S)) /\ Cardinality(Blocks(f, S)) \in Nat
         /\ S = {} => Cardinality(Blocks(f, S)) = 0
         /\ \A x \in S : Cardinality(Blocks(f, S)) = f[x] + Cardinality(Blocks(f, S \ {x}))
<1> DEFINE Good(U) == IsFiniteSet(Blocks(f, U))
           Bad == {U \in SUBSET S : ~Good(U)}
<1>1. Blocks(f, {}) = {}
  BY DEF Blocks
<1>2. ASSUME NEW U \in SUBSET S, NEW x \in U, Good(U \ {x})
      PROVE  Good(U) /\ Cardinality(Blocks(f, U)) = f[x] + Cardinality(Blocks(f, U \ {x}))
  <2> DEFINE A == Blocks(f, U \ {x})
             I == 0 .. f[x] - 1
             B == {x} \X I
  <2>1. f[x] \in Nat
    BY DEF Numbers
  <2>2. IsFiniteSet(I) /\ Cardinality(I) = f[x]
    BY <2>1, FS_Interval
  <2>3. IsFiniteSet({x}) /\ Cardinality({x}) = 1
    BY FS_Singleton
  <2>4. IsFiniteSet(B) /\ Cardinality(B) = f[x]
    <3> HIDE DEF I
    <3>1. IsFiniteSet(B) /\ Cardinality(B) = 1 * f[x]
      BY <2>2, <2>3, FS_Product
    <3> QED BY <2>1, <3>1
  <2>5. Blocks(f, U) = A \cup B /\ A \cap B = {}
    <3>1. ASSUME NEW b \in Blocks(f, U) PROVE b \in A \cup B
      BY <2>1 DEF Blocks
    <3>2. ASSUME NEW b \in A PROVE b \in Blocks(f, U) /\ b \notin B
      BY DEF Blocks
    <3>3. ASSUME NEW b \in B PROVE b \in Blocks(f, U)
      BY <2>1 DEF Blocks
    <3> QED BY <3>1, <3>2, <3>3
  <2>6. IsFiniteSet(A) /\ Cardinality(A) \in Nat
    BY <1>2, FS_CardinalityType
  <2> HIDE DEF A, B
  <2>7. IsFiniteSet(A \cup B) /\ Cardinality(A \cup B) = Cardinality(A) + Cardinality(B) - Cardinality({})
    BY <2>4, <2>5, <2>6, FS_Union
  <2>8. Cardinality({}) = 0
    BY FS_EmptySet
  <2> QED BY <2>1, <2>4, <2>5, <2>6, <2>7, <2>8 DEF A
<1>3. Bad = {}
  <2> SUFFICES ASSUME Bad # {} PROVE FALSE
    OBVIOUS
  <2>1. IsFiniteSet(S)
    BY DEF Numbers
  <2>2. PICK U \in Bad : \A x \in U : U \ {x} \notin Bad
    <3>1. Bad \in SUBSET SUBSET S
      OBVIOUS
    <3> HIDE DEF Bad
    <3> QED BY <2>1, <3>1, SmallestBad
  <2>3. U # {}
    BY <1>1, FS_EmptySet
  <2>4. PICK x \in U : TRUE
    BY <2>3
  <2>5. Good(U \ {x})
    BY <2>2, <2>4
  <2> QED BY <1>2, <2>5
<1>4. Good(S) /\ \A x \in S : Good(S \ {x})
  BY <1>3
<1>5. \A x \in S : Cardinality(Blocks(f, S)) = f[x] + Cardinality(Blocks(f, S \ {x}))
  BY <1>2, <1>4
<1>6. S = {} => Cardinality(Blocks(f, S)) = 0
  BY <1>1, FS_EmptySet
<1> QED BY <1>4, <1>5, <1>6, FS_CardinalityType

(* A sum is that number of blocks. *)
LEMMA SumIs ==
  ASSUME NEW f, NEW S, Numbers(f, S)
  PROVE  Sum(f, S) = Cardinality(Blocks(f, S))
<1> DEFINE def(g) == [s \in SUBSET S |-> IF s = {} THEN 0
                                         ELSE LET x == CHOOSE x \in s : TRUE IN f[x] + g[s \ {x}]]
           iter == CHOOSE g : g = def(g)
           cnt == [s \in SUBSET S |-> Cardinality(Blocks(f, s))]
<1>1. ASSUME NEW s \in SUBSET S PROVE Numbers(f, s)
  BY FS_Subset DEF Numbers
<1>2. cnt = def(cnt)
  <2>1. ASSUME NEW s \in SUBSET S PROVE cnt[s] = def(cnt)[s]
    <3>1. CASE s = {}
      BY <1>1, <3>1, BlocksOf
    <3>2. CASE s # {}
      <4> DEFINE x == CHOOSE x \in s : TRUE
      <4>1. x \in s
        BY <3>2
      <4> HIDE DEF x
      <4>2. cnt[s] = f[x] + cnt[s \ {x}]
        BY <1>1, <4>1, BlocksOf
      <4> QED BY <3>2, <4>2 DEF x
    <3> QED BY <3>1, <3>2
  <2> QED BY <2>1
<1>3. iter = def(iter)
  <2> HIDE DEF cnt, def
  <2> QED BY <1>2
<1> HIDE DEF iter
<1> DEFINE Bad == {s \in SUBSET S : iter[s] # cnt[s]}
<1>4. Bad = {}
  <2> SUFFICES ASSUME Bad # {} PROVE FALSE
    OBVIOUS
  <2>1. IsFiniteSet(S)
    BY DEF Numbers
  <2>2. PICK U \in Bad : \A x \in U : U \ {x} \notin Bad
    <3>1. Bad \in SUBSET SUBSET S
      OBVIOUS
    <3> HIDE DEF Bad
    <3> QED BY <2>1, <3>1, SmallestBad
  <2>3. U \in SUBSET S /\ iter[U] # cnt[U]
    OBVIOUS
  <2>4. iter[U] = def(iter)[U] /\ cnt[U] = def(cnt)[U]
    <3> HIDE DEF def, cnt
    <3> QED BY <1>2, <1>3
  <2>5. CASE U = {}
    BY <2>3, <2>4, <2>5
  <2>6. CASE U # {}
    <3> DEFINE x == CHOOSE x \in U : TRUE
    <3>1. x \in U
      BY <2>6
    <3> HIDE DEF x
    <3>2. U \ {x} \in SUBSET S /\ iter[U \ {x}] = cnt[U \ {x}]
      BY <2>2, <3>1
    <3> HIDE DEF cnt
    <3> QED BY <2>3, <2>4, <2>6, <3>2 DEF x
  <2> QED BY <2>5, <2>6
<1>5. iter[S] = cnt[S]
  BY <1>4
<1>6. Sum(f, S) = iter[S]
  BY DEF Sum, FoldFunctionOnSet, MapThenFoldSet, iter
<1> QED BY <1>5, <1>6

(* How a sum is made up, and that only zeros add up to zero.                 *)
LEMMA SumLaws ==
  ASSUME NEW f, NEW S, Numbers(f, S)
  PROVE  /\ Sum(f, S) \in Nat
         /\ S = {} => Sum(f, S) = 0
         /\ \A x \in S : Sum(f, S \ {x}) \in Nat /\ Sum(f, S) = f[x] + Sum(f, S \ {x})
         /\ Sum(f, S) = 0 => \A x \in S : f[x] = 0
<1>1. Sum(f, S) \in Nat /\ (S = {} => Sum(f, S) = 0)
  BY SumIs, BlocksOf
<1>2. ASSUME NEW x \in S PROVE Sum(f, S \ {x}) \in Nat /\ Sum(f, S) = f[x] + Sum(f, S \ {x}) /\ f[x] \in Nat
  <2>1. Numbers(f, S \ {x}) /\ f[x] \in Nat
    BY FS_Subset DEF Numbers
  <2> QED BY <2>1, SumIs, BlocksOf
<1>3. ASSUME Sum(f, S) = 0, NEW x \in S PROVE f[x] = 0
  <2>1. f[x] \in Nat /\ Sum(f, S \ {x}) \in Nat /\ 0 = f[x] + Sum(f, S \ {x})
    BY <1>2, <1>3
  <2> HIDE DEF Sum
  <2> QED BY <2>1
<1> QED BY <1>1, <1>2, <1>3

(* A sum is no more than another one if each of its numbers finds a place of *)
(* its own, h, in that one, with a number that is as high.                   *)
LEMMA SumBelow ==
  ASSUME NEW f, NEW S, Numbers(f, S), NEW g, NEW T, Numbers(g, T), NEW h,
         \A s \in S : f[s] > 0 => h[s] \in T /\ f[s] <= g[h[s]],
         \A s, r \in S : f[s] > 0 /\ f[r] > 0 /\ h[s] = h[r] => s = r
  PROVE  Sum(f, S) <= Sum(g, T)
<1> DEFINE A == Blocks(f, S)
           B == Blocks(g, T)
           move == [b \in A |-> <<h[b[1]], b[2]>>]
<1>1. ASSUME NEW b \in A PROVE b[1] \in S /\ b[2] \in Nat /\ b[2] < f[b[1]] /\ f[b[1]] > 0 /\ b = <<b[1], b[2]>>
  <2>1. b[1] \in S /\ b[2] \in Nat /\ b[2] < f[b[1]] /\ b = <<b[1], b[2]>>
    BY DEF Blocks
  <2>2. f[b[1]] \in Nat
    BY <2>1 DEF Numbers
  <2> QED BY <2>1, <2>2
<1>2. ASSUME NEW b \in A PROVE move[b] \in B
  <2>1. h[b[1]] \in T /\ f[b[1]] <= g[h[b[1]]] /\ f[b[1]] \in Nat /\ g[h[b[1]]] \in Nat
    BY <1>1 DEF Numbers
  <2>2. b[2] \in Nat /\ b[2] < g[h[b[1]]]
    BY <1>1, <2>1
  <2> QED BY <2>1, <2>2 DEF Blocks
<1>3. ASSUME NEW b \in A, NEW a \in A, move[b] = move[a] PROVE b = a
  <2>1. h[b[1]] = h[a[1]] /\ b[2] = a[2]
    BY <1>3
  <2>2. b[1] = a[1]
    BY <1>1, <2>1
  <2> QED BY <1>1, <2>1, <2>2
<1>4. move \in Injection(A, B)
  <2> DEFINE k == move
  <2>1. k \in [A -> B] /\ \A b, a \in A : k[b] = k[a] => b = a
    BY <1>2, <1>3
  <2>2. DOMAIN k = A
    OBVIOUS
  <2> HIDE DEF k
  <2>3. k \in Injection(A, B)
    BY <2>1, <2>2 DEF Injection, IsInjective
  <2> QED BY <2>3 DEF k
<1>5. IsFiniteSet(B) /\ Cardinality(A) \in Nat /\ Cardinality(B) \in Nat
  BY BlocksOf
<1> HIDE DEF move, A, B
<1>6. Cardinality(A) <= Cardinality(B)
  BY <1>4, <1>5, FS_Injection
<1> QED BY <1>6, SumIs DEF A, B

(* In particular more and higher numbers add up to no less. *)
LEMMA SumMonotone ==
  ASSUME NEW f, NEW g, NEW T, Numbers(g, T), NEW S \in SUBSET T, \A s \in S : f[s] \in Nat /\ f[s] <= g[s]
  PROVE  Numbers(f, S) /\ Sum(f, S) <= Sum(g, T)
<1>1. Numbers(f, S)
  BY FS_Subset DEF Numbers
<1> DEFINE h == [s \in S |-> s]
<1>2. \A s \in S : h[s] \in T /\ f[s] <= g[h[s]]
  OBVIOUS
<1>3. \A s, r \in S : h[s] = h[r] => s = r
  OBVIOUS
<1> HIDE DEF h
<1> QED BY <1>1, <1>2, <1>3, SumBelow

(* A sum depends on its numbers alone. *)
LEMMA SumEqual ==
  ASSUME NEW f, NEW g, NEW S, Numbers(g, S), \A s \in S : f[s] = g[s]
  PROVE  Sum(f, S) = Sum(g, S)
<1>1. Blocks(f, S) = Blocks(g, S)
  <2>1. \A b \in S \X Nat : f[b[1]] = g[b[1]]
    OBVIOUS
  <2> QED BY <2>1 DEF Blocks
<1>2. Numbers(f, S)
  BY DEF Numbers
<1> QED BY <1>1, <1>2, SumIs

(* Numbers that are at most n add up to at most n times as many. *)
LEMMA SumBounded ==
  ASSUME NEW f, NEW S, Numbers(f, S), NEW n \in Nat, \A s \in S : f[s] <= n
  PROVE  Cardinality(S) \in Nat /\ Sum(f, S) <= n * Cardinality(S)
<1> DEFINE I == 0 .. n - 1
<1>1. IsFiniteSet(S) /\ Cardinality(S) \in Nat
  BY FS_CardinalityType DEF Numbers
<1>2. IsFiniteSet(I) /\ Cardinality(I) = n
  BY FS_Interval
<1>3. Blocks(f, S) \subseteq S \X I
  BY DEF Blocks, Numbers
<1> HIDE DEF I
<1>4. IsFiniteSet(S \X I) /\ Cardinality(S \X I) = Cardinality(S) * n
  BY <1>1, <1>2, FS_Product
<1>5. Cardinality(Blocks(f, S)) <= Cardinality(S) * n
  BY <1>3, <1>4, FS_Subset
<1>6. Cardinality(S) * n = n * Cardinality(S)
  BY <1>1
<1> QED BY <1>1, <1>5, <1>6, SumIs

(* A set of numbers has a highest one. *)
LEMMA HighestOf == ASSUME NEW S \in SUBSET Nat, IsFiniteSet(S), S # {} PROVE Max(S) \in S /\ \A y \in S : y <= Max(S)
<1> DEFINE Bad == {U \in SUBSET S : U # {} /\ \A m \in U : \E x \in U : ~(m >= x)}
<1>1. Bad = {}
  <2> SUFFICES ASSUME Bad # {} PROVE FALSE
    OBVIOUS
  <2>1. PICK U \in Bad : \A x \in U : U \ {x} \notin Bad
    <3>1. Bad \in SUBSET SUBSET S
      OBVIOUS
    <3> HIDE DEF Bad
    <3> QED BY <3>1, SmallestBad
  <2>2. U # {} /\ (\A m \in U : \E x \in U : ~(m >= x)) /\ \A x \in U : x \in Nat
    OBVIOUS
  <2>3. PICK a \in U : TRUE
    BY <2>2
  <2>4. U \ {a} # {}
    BY <2>2, <2>3
  <2>5. PICK m \in U \ {a} : \A x \in U \ {a} : m >= x
    BY <2>1, <2>3, <2>4
  <2>6. CASE m >= a
    <3>1. \A x \in U : m >= x
      BY <2>5, <2>6
    <3> QED BY <2>2, <3>1
  <2>7. CASE ~(m >= a)
    <3>1. a \in Nat /\ m \in Nat
      BY <2>2, <2>3
    <3>2. \A x \in U : a >= x
      BY <2>2, <2>5, <2>7, <3>1
    <3> QED BY <2>2, <2>3, <3>2
  <2> QED BY <2>6, <2>7
<1>2. \E m \in S : \A y \in S : m >= y
  BY <1>1
<1>3. Max(S) \in S /\ \A y \in S : Max(S) >= y
  BY <1>2 DEF Max
<1>4. Max(S) \in Nat
  BY <1>3
<1> QED BY <1>3, <1>4

-----------------------------------------------------------------------------
(* The invariant of the votes *)

VoteRecord == [total : Nat, peak : Nat, freq : Nat]
BtsRecord ==
  [config : [Win -> 0 .. 2], ch : 0 .. 2 * NPlane, need : VoteRecord, prev : VoteRecord, vote : VoteRecord]

BtsTypes ==
  /\ tail \in [Crtc -> {"idle", "pre", "tail", "post"}]
  /\ shown \in [Crtc -> 0 .. 2 * NPlane]
  /\ bts \in [Crtc -> BtsRecord]

(* What the state of c fetches, by the window that win_config has for it.    *)
DueAt(c, i) == IF i < Len(crtc[c].order) THEN Load(content[crtc[c].order[i + 1]]) ELSE 0
Due(c) == [i \in Win |-> DueAt(c, i)]

(* Between its votes: c has placed those that may rise.                      *)
Midway(c) == tail[c] \in {"tail", "post"} /\ crtc[c].power = "on"

(* c is about to fetch less than it does.                                    *)
Falling(c) == tail[c] = "tail" /\ bts[c].need.total < shown[c]

(* Which part of the tail goes with which phase of Planes.                   *)
PairInv(c) ==
  /\ tail[c] \in {"idle", "post"} => job[c].phase = "idle"
  /\ tail[c] = "tail" => crtc[c].power = "on" /\ job[c].phase \in {"start", "planes", "secure"}
  /\ tail[c] = "pre" /\ crtc[c].power = "on" => job[c].phase # "idle"
  /\ decon[c] # "ON" => shown[c] = 0

(* The table is that of the state, or will be; or it has been cleared.       *)
TableInv(c) ==
  crtc[c].power = "on" =>
    \/ \A i \in Win :
         \/ bts[c].config[i] = DueAt(c, i)
         \/ /\ tail[c] = "pre"
            /\ IF i < Len(crtc[c].order) THEN crtc[c].order[i + 1] \in PlanesInState(c)
               ELSE job[c].todo # {} \/ crtc[c].order = <<>>
    \/ Cleared(c)

(* The votes of c. *)
RestInv(c) ==
  /\ ~Midway(c) => bts[c].prev = bts[c].vote /\ bts[c].vote.peak <= bts[c].vote.freq
  /\ tail[c] = "idle" => IF decon[c] = "ON" THEN bts[c].vote.total = Sum(Due(c), Win) ELSE bts[c].vote = Nothing

MidInv(c) ==
  LET need == bts[c].need
      prev == bts[c].prev
      vote == bts[c].vote
  IN  Midway(c) =>
    /\ need.total = Sum(Due(c), Win) /\ (bts[c].ch = need.total \/ need.total = 0)
    /\ need.peak <= need.freq /\ prev.peak <= prev.freq
    /\ \/ vote.total = need.total /\ vote.peak = need.peak /\ prev.total <= need.total /\ prev.peak <= need.peak
       \/ vote.total = prev.total /\ vote.peak = prev.peak /\ need.total <= prev.total /\ need.peak <= prev.peak
    /\ \/ vote.freq = need.freq /\ prev.freq <= need.freq
       \/ vote.freq = prev.freq /\ need.freq <= prev.freq
    /\ tail[c] = "post" => shown[c] <= need.total

(* What c may fetch before its next vote, and the peak that still stands for *)
(* it when its tail has ended.                                               *)
Bears(c) == IF Midway(c) /\ shown[c] < bts[c].need.total THEN bts[c].need.total ELSE shown[c]
Stands(c) == IF Midway(c) /\ ~Falling(c) THEN bts[c].need.peak ELSE bts[c].vote.peak
bears  == [c \in Crtc |-> Bears(c)]
stands == [c \in Crtc |-> Stands(c)]

(* Of any CRTCs, one has voted for what all of them fetch. *)
PeakHolds(b, s) == \A S \in SUBSET Crtc : S # {} => \E c \in S : Sum(b, S) <= s[c]

PeakInv == PeakHolds(bears, stands)

(* One that falls has taken account of the others, which add nothing until it flips. *)
FallInv ==
  \A c \in Crtc : Falling(c) /\ bts[c].need.total # 0 =>
    bts[c].need.total + Sum(bears, Crtc \ {c}) <= bts[c].need.peak

VoteInv(c) ==
  PairInv(c) /\ TableInv(c) /\ RestInv(c) /\ MidInv(c) /\ shown[c] <= bts[c].vote.total

BInv == BtsTypes /\ (\A c \in Crtc : VoteInv(c)) /\ PeakInv /\ FallInv


-----------------------------------------------------------------------------

(* A step of c that raises nothing of the others keeps a peak for all, if    *)
(* it raises nothing for c either, or leaves nothing to c, or c has voted    *)
(* for all of them.                                                          *)
LEMMA PeakStep ==
  ASSUME NEW b \in [Crtc -> Nat], NEW e \in [Crtc -> Nat], NEW s \in [Crtc -> Nat], NEW t \in [Crtc -> Nat],
         PeakHolds(b, s), NEW c \in Crtc,
         \A d \in Crtc \ {c} : e[d] <= b[d] /\ s[d] <= t[d],
         \/ e[c] <= b[c] /\ s[c] <= t[c]
         \/ e[c] = 0
         \/ Sum(e, Crtc) <= t[c]
  PROVE  PeakHolds(e, t)
<1>1. Numbers(b, Crtc) /\ Numbers(e, Crtc)
  BY BandwidthAssumption DEF Numbers
<1>2. \A S \in SUBSET Crtc : Numbers(b, S) /\ Numbers(e, S)
  BY <1>1, FS_Subset DEF Numbers
<1>3. ASSUME NEW S \in SUBSET Crtc, S # {}, \A d \in S : e[d] <= b[d] /\ s[d] <= t[d]
      PROVE  \E d \in S : Sum(e, S) <= t[d]
  <2>1. PICK d \in S : Sum(b, S) <= s[d]
    BY <1>3 DEF PeakHolds
  <2>2. Sum(e, S) <= Sum(b, S)
    <3>1. \A x \in S : e[x] \in Nat /\ e[x] <= b[x]
      BY <1>3
    <3> QED BY <1>2, <3>1, SumMonotone
  <2>3. Sum(e, S) \in Nat /\ Sum(b, S) \in Nat /\ s[d] \in Nat /\ t[d] \in Nat /\ s[d] <= t[d]
    BY <1>2, <1>3, SumLaws
  <2> QED BY <2>1, <2>2, <2>3
<1>4. ASSUME NEW S \in SUBSET Crtc, S # {} PROVE \E d \in S : Sum(e, S) <= t[d]
  <2>1. CASE c \notin S \/ (e[c] <= b[c] /\ s[c] <= t[c])
    <3>1. \A d \in S : e[d] <= b[d] /\ s[d] <= t[d]
      BY <2>1
    <3> QED BY <1>3, <1>4, <3>1
  <2>2. CASE c \in S /\ e[c] = 0
    <3>1. Sum(e, S \ {c}) \in Nat /\ Sum(e, S) = e[c] + Sum(e, S \ {c})
      BY <1>2, <2>2, SumLaws
    <3>2. Sum(e, S) = Sum(e, S \ {c})
      BY <2>2, <3>1
    <3>3. CASE S \ {c} = {}
      <4>1. Sum(e, S \ {c}) = 0
        BY <1>2, <3>3, SumLaws
      <4>2. t[c] \in Nat
        OBVIOUS
      <4>3. Sum(e, S) <= t[c]
        BY <3>2, <4>1, <4>2
      <4> QED BY <2>2, <4>3
    <3>4. CASE S \ {c} # {}
      <4>1. \E d \in S \ {c} : Sum(e, S \ {c}) <= t[d]
        BY <1>3, <3>4
      <4> QED BY <3>2, <4>1
    <3> QED BY <3>3, <3>4
  <2>3. CASE c \in S /\ Sum(e, Crtc) <= t[c]
    <3>1. Sum(e, S) <= Sum(e, Crtc)
      <4>1. \A x \in S : e[x] \in Nat /\ e[x] <= e[x]
        OBVIOUS
      <4> QED BY <1>1, <4>1, SumMonotone
    <3>2. Sum(e, S) \in Nat /\ Sum(e, Crtc) \in Nat /\ t[c] \in Nat
      BY <1>1, <1>2, SumLaws
    <3>3. Sum(e, S) <= t[c]
      BY <2>3, <3>1, <3>2
    <3> QED BY <2>3, <3>3
  <2> QED BY <2>1, <2>2, <2>3
<1> QED BY <1>4 DEF PeakHolds

-----------------------------------------------------------------------------
(* What a state fetches *)

(* The loads there are. *)
LEMMA LoadBounds == ASSUME NEW x PROVE Load(x) \in 0 .. 2
  BY DEF Load

(* win_config has room for every plane. *)
LEMMA OrderFits ==
  ASSUME WInv, NEW c \in Crtc, crtc[c].power # "off"
  PROVE  Len(crtc[c].order) \in Nat /\ Len(crtc[c].order) <= NWin /\ DOMAIN crtc[c].order = 1 .. Len(crtc[c].order)
<1>1. crtc[c].order \in Seq(Plane) /\ Cardinality(Pool!Held(c)) = WinCnt(crtc[c].power, crtc[c].order)
  BY DEF WInv, WiringTypes, StateRecord, CrtcInv, PhaseInv
<1> DEFINE n == Len(crtc[c].order)
<1>2. n \in Nat /\ DOMAIN crtc[c].order = 1 .. n
  BY <1>1
<1>3. Cardinality(Pool!Held(c)) = Max({1, n})
  BY <1>1 DEF WinCnt
<1> HIDE DEF n
<1>4. n <= Max({1, n})
  <2>1. {1, n} \in SUBSET Nat /\ {1, n} # {} /\ n \in {1, n}
    BY <1>2
  <2>2. IsFiniteSet({1, n})
    <3>1. IsFiniteSet({1} \cup {n})
      BY FS_Singleton, FS_Union
    <3>2. {1, n} = {1} \cup {n}
      OBVIOUS
    <3> QED BY <3>1, <3>2
  <2> QED BY <2>1, <2>2, HighestOf
<1>5. NWin \in Nat /\ IsFiniteSet(Win) /\ Cardinality(Win) = NWin
  <2>1. NWin \in Nat /\ 0 \in Int /\ NWin - 1 \in Int
    BY PlanesAssumption
  <2>2. IsFiniteSet(Win) /\ Cardinality(Win) = IF 0 > NWin - 1 THEN 0 ELSE NWin - 1 - 0 + 1
    BY <2>1, FS_Interval DEF Win
  <2> QED BY <2>1, <2>2
<1>6. Cardinality(Pool!Held(c)) <= NWin /\ Cardinality(Pool!Held(c)) \in Nat
  <2>1. Pool!Held(c) \in SUBSET Win
    BY DEF Pool!Held
  <2> QED BY <1>5, <2>1, FS_Subset, FS_CardinalityType
<1> QED BY <1>2, <1>3, <1>4, <1>5, <1>6 DEF n

(* What it fetches by plane. *)
Loads(c) == [p \in ToSet(crtc[c].order) |-> Load(content[p])]

(* By window or by plane, the state of c fetches the same, and no more than  *)
(* twice for every plane.                                                    *)
LEMMA DueSums ==
  ASSUME WInv, NEW c \in Crtc, crtc[c].power # "off"
  PROVE  /\ Due(c) \in [Win -> 0 .. 2] /\ Numbers(Due(c), Win)
         /\ Sum(Due(c), Win) \in 0 .. 2 * NPlane
         /\ Sum(Due(c), Win) = Sum(Loads(c), ToSet(crtc[c].order))
<1> DEFINE order == crtc[c].order
           P == ToSet(order)
           n == Len(order)
           due == Due(c)
           loads == Loads(c)
<1>1. n \in Nat /\ n <= NWin /\ DOMAIN order = 1 .. n /\ NWin \in Nat /\ NPlane \in Nat
  BY OrderFits, PlanesAssumption
<1>2. IsFiniteSet(Win) /\ IsFiniteSet(Plane) /\ Cardinality(Plane) = NPlane
  <2>1. NWin - 1 \in Int /\ 0 \in Int /\ 1 \in Int /\ NPlane \in Int
    BY <1>1
  <2>2. IsFiniteSet(Win) /\ IsFiniteSet(Plane) /\ Cardinality(Plane) = IF 1 > NPlane THEN 0 ELSE NPlane - 1 + 1
    BY <2>1, FS_Interval DEF Win, Plane
  <2> QED BY <1>1, <2>2
<1>3. /\ \A i \in 1 .. n : order[i] \in P /\ order[i] \in Plane
      /\ \A p \in P : \E i \in 1 .. n : order[i] = p
      /\ \A i, j \in 1 .. n : order[i] = order[j] => i = j
  <2>1. WiringTypes
    BY DEF WInv
  <2>2. Entries(c) = 1 .. n
    BY <1>1 DEF Entries
  <2> QED BY <2>1, <2>2, EntryPlanes
<1>4. P \subseteq Plane
  BY OrderPlanes DEF WInv, WiringTypes, StateRecord
<1>5. due \in [Win -> 0 .. 2] /\ \A i \in Win : due[i] = IF i < n THEN Load(content[order[i + 1]]) ELSE 0
  <2>1. \A i \in Win : DueAt(c, i) \in 0 .. 2
    BY LoadBounds DEF DueAt
  <2> QED BY <2>1 DEF Due, DueAt
<1>6. \A p \in P : loads[p] = Load(content[p]) /\ loads[p] \in 0 .. 2
  BY LoadBounds DEF Loads
<1> HIDE DEF due, loads, n, order
<1>7. Numbers(due, Win)
  BY <1>2, <1>5 DEF Numbers
<1>8. IsFiniteSet(P) /\ Cardinality(P) <= NPlane /\ Cardinality(P) \in Nat
  BY <1>2, <1>4, FS_Subset, FS_CardinalityType
<1> HIDE DEF P
<1>9. Numbers(loads, P)
  BY <1>6, <1>8 DEF Numbers
<1>10. Win = 0 .. NWin - 1
  BY DEF Win
<1>11. Sum(due, Win) <= Sum(loads, P)
  <2> DEFINE h == [i \in Win |-> order[i + 1]]
  <2>1. ASSUME NEW i \in Win, due[i] > 0 PROVE i + 1 \in 1 .. n /\ due[i] = Load(content[order[i + 1]])
    BY <1>1, <1>5, <1>10, <2>1
  <2>2. \A i \in Win : due[i] > 0 => h[i] \in P /\ due[i] <= loads[h[i]]
    <3>1. SUFFICES ASSUME NEW i \in Win, due[i] > 0 PROVE h[i] \in P /\ due[i] <= loads[h[i]]
      OBVIOUS
    <3>2. i + 1 \in 1 .. n /\ due[i] = Load(content[order[i + 1]]) /\ h[i] = order[i + 1]
      BY <2>1, <3>1
    <3>3. order[i + 1] \in P
      BY <1>3, <3>2
    <3>4. loads[h[i]] = due[i] /\ due[i] \in Nat
      BY <1>5, <1>6, <3>2, <3>3
    <3> QED BY <3>2, <3>3, <3>4
  <2>3. \A i, j \in Win : due[i] > 0 /\ due[j] > 0 /\ h[i] = h[j] => i = j
    <3>1. SUFFICES ASSUME NEW i \in Win, NEW j \in Win, due[i] > 0, due[j] > 0, h[i] = h[j] PROVE i = j
      OBVIOUS
    <3>2. i + 1 \in 1 .. n /\ j + 1 \in 1 .. n /\ order[i + 1] = order[j + 1]
      BY <2>1, <3>1
    <3>3. i + 1 = j + 1
      BY <1>3, <3>2
    <3> QED BY <1>10, <3>3
  <2> HIDE DEF h
  <2> QED BY <1>7, <1>9, <2>2, <2>3, SumBelow
<1>12. Sum(loads, P) <= Sum(due, Win)
  <2> DEFINE at(p) == CHOOSE i \in 1 .. n : order[i] = p
             h == [p \in P |-> at(p) - 1]
  <2>1. ASSUME NEW p \in P PROVE at(p) \in 1 .. n /\ order[at(p)] = p
    BY <1>3
  <2> HIDE DEF at
  <2>2. \A p \in P : h[p] \in Win /\ loads[p] <= due[h[p]]
    <3>1. SUFFICES ASSUME NEW p \in P PROVE h[p] \in Win /\ loads[p] <= due[h[p]]
      OBVIOUS
    <3>2. h[p] = at(p) - 1 /\ h[p] \in Win /\ h[p] < n /\ h[p] + 1 = at(p)
      BY <1>1, <1>10, <2>1
    <3>3. due[h[p]] = Load(content[p])
      BY <1>5, <2>1, <3>2
    <3>4. due[h[p]] = loads[p] /\ loads[p] \in Nat
      BY <1>6, <3>3
    <3> QED BY <3>2, <3>4
  <2>3. \A p, q \in P : h[p] = h[q] => p = q
    <3>1. SUFFICES ASSUME NEW p \in P, NEW q \in P, h[p] = h[q] PROVE p = q
      OBVIOUS
    <3>2. at(p) - 1 = at(q) - 1 /\ at(p) \in Int /\ at(q) \in Int
      BY <2>1, <3>1
    <3>3. at(p) = at(q)
      BY <3>2
    <3> QED BY <2>1, <3>3
  <2> HIDE DEF h
  <2> QED BY <1>7, <1>9, <2>2, <2>3, SumBelow
<1>13. Sum(loads, P) <= 2 * NPlane /\ Sum(loads, P) \in Nat /\ Sum(due, Win) \in Nat
  <2>1. Sum(loads, P) <= 2 * Cardinality(P)
    <3>1. \A p \in P : loads[p] <= 2
      BY <1>6
    <3> QED BY <1>9, <3>1, SumBounded
  <2>2. Sum(loads, P) \in Nat /\ Sum(due, Win) \in Nat
    BY <1>7, <1>9, SumLaws
  <2> QED BY <1>1, <1>8, <2>1, <2>2
<1>14. Sum(due, Win) = Sum(loads, P) /\ Sum(due, Win) \in 0 .. 2 * NPlane
  BY <1>1, <1>11, <1>12, <1>13
<1> QED BY <1>5, <1>7, <1>14 DEF due, loads, P, order

-----------------------------------------------------------------------------
(* What the steps of c leave to the others *)

(* Nobody but d touches what the votes of d are about. *)
Left(d) ==
  /\ bts'[d] = bts[d] /\ tail'[d] = tail[d] /\ shown'[d] = shown[d] /\ crtc'[d] = crtc[d]
  /\ job'[d] = job[d] /\ decon'[d] = decon[d]
  /\ \A p \in ToSet(crtc[d].order) : content'[p] = content[p]

(* What a state fetches depends on the contents of its planes alone. *)
LEMMA DueKept ==
  ASSUME WInv, NEW d \in Crtc, crtc'[d].order = crtc[d].order, \A p \in ToSet(crtc[d].order) : content'[p] = content[p]
  PROVE  (\A i \in Win : DueAt(d, i)' = DueAt(d, i)) /\ Due(d)' = Due(d)
<1>1. ASSUME NEW i \in Win PROVE DueAt(d, i)' = DueAt(d, i)
  <2>1. CASE i < Len(crtc[d].order)
    <3>1. crtc[d].order \in Seq(Plane) /\ i \in Nat
      BY PlanesAssumption DEF WInv, WiringTypes, StateRecord, Win
    <3>2. i + 1 \in DOMAIN crtc[d].order
      BY <2>1, <3>1
    <3>3. crtc[d].order[i + 1] \in ToSet(crtc[d].order)
      BY <3>2 DEF ToSet
    <3> QED BY <2>1, <3>3 DEF DueAt
  <2>2. CASE ~(i < Len(crtc[d].order))
    BY <2>2 DEF DueAt
  <2> QED BY <2>1, <2>2
<1> QED BY <1>1 DEF Due

(* So its part of the invariant stays, and so does what it bears.            *)
LEMMA LeftKeeps ==
  ASSUME WInv, NEW d \in Crtc, Left(d), VoteInv(d)
  PROVE  VoteInv(d)' /\ Bears(d)' = Bears(d) /\ Stands(d)' = Stands(d) /\ (Falling(d)' <=> Falling(d))
<1> USE DEF Left
<1>1. (\A i \in Win : DueAt(d, i)' = DueAt(d, i)) /\ Due(d)' = Due(d)
  BY DueKept
<1>2. (Midway(d)' <=> Midway(d)) /\ (Falling(d)' <=> Falling(d))
  BY DEF Midway, Falling
<1>3. PlanesInState(d)' = PlanesInState(d)
  BY DEF PlanesInState
<1>4. PairInv(d)'
  BY DEF VoteInv, PairInv
<1>5. TableInv(d)'
  <2>1. TableInv(d)
    BY DEF VoteInv
  <2>2. Cleared(d)' <=> Cleared(d)
    BY DEF Cleared, NoWindows
  <2> HIDE DEF VoteInv
  <2> QED BY <1>1, <1>3, <2>1, <2>2 DEF TableInv
<1>6. Sum(Due(d), Win)' = Sum(Due(d), Win)
  BY <1>1
<1>7. RestInv(d)'
  BY <1>2, <1>6 DEF VoteInv, RestInv
<1>8. MidInv(d)'
  BY <1>2, <1>6 DEF VoteInv, MidInv
<1>9. (shown[d] <= bts[d].vote.total)'
  BY DEF VoteInv
<1>10. Bears(d)' = Bears(d) /\ Stands(d)' = Stands(d)
  BY <1>2 DEF Bears, Stands
<1> QED BY <1>2, <1>4, <1>5, <1>7, <1>8, <1>9, <1>10 DEF VoteInv

(* The types of what c bears and of what stands for it. *)
LEMMA BearTypes ==
  ASSUME BtsTypes, NEW c \in Crtc
  PROVE  /\ bts[c] \in BtsRecord /\ bts[c].need \in VoteRecord /\ bts[c].prev \in VoteRecord
         /\ bts[c].vote \in VoteRecord
         /\ shown[c] \in Nat /\ bts[c].ch \in Nat /\ bts[c].need.total \in Nat /\ bts[c].need.peak \in Nat
         /\ bts[c].vote.total \in Nat /\ bts[c].vote.peak \in Nat
         /\ Bears(c) \in Nat /\ Stands(c) \in Nat
<1>1. bts[c] \in BtsRecord /\ shown[c] \in 0 .. 2 * NPlane
  BY DEF BtsTypes
<1>2. NPlane \in Nat
  BY PlanesAssumption
<1>3. /\ bts[c].need \in VoteRecord /\ bts[c].prev \in VoteRecord /\ bts[c].vote \in VoteRecord
      /\ shown[c] \in Nat /\ bts[c].ch \in Nat
  BY <1>1, <1>2 DEF BtsRecord
<1>4. /\ bts[c].need.total \in Nat /\ bts[c].need.peak \in Nat
      /\ bts[c].vote.total \in Nat /\ bts[c].vote.peak \in Nat
  BY <1>3 DEF VoteRecord
<1> QED BY <1>1, <1>3, <1>4 DEF Bears, Stands

(* The same for all of them. *)
LEMMA AllBearTypes == BtsTypes => \A c \in Crtc : Bears(c) \in Nat /\ Stands(c) \in Nat
  BY BearTypes

(* Numbers again after a step that keeps the types. *)
LEMMA AllBearTypesNext == BtsTypes' => (\A c \in Crtc : Bears(c) \in Nat /\ Stands(c) \in Nat)'
  BY AllBearTypes, PTL

(* So a step of c keeps the invariant if it does for c, with what the peaks  *)
(* and the fall of c need.                                                   *)
LEMMA StepKeeps ==
  ASSUME WInv, BInv, BtsTypes', NEW c \in Crtc, \A d \in Crtc \ {c} : Left(d), VoteInv(c)',
         \/ Bears(c)' <= Bears(c) /\ Stands(c) <= Stands(c)'
         \/ Bears(c)' = 0
         \/ Sum(bears', Crtc) <= Stands(c)',
         \/ Bears(c)' <= Bears(c)
         \/ \A d \in Crtc \ {c} : ~Falling(d) \/ bts[d].need.total = 0,
         Falling(c)' /\ bts'[c].need.total # 0 =>
           bts'[c].need.total + Sum(bears', Crtc \ {c}) <= bts'[c].need.peak
  PROVE  BInv'
<1>1. \A d \in Crtc \ {c} : VoteInv(d)' /\ Bears(d)' = Bears(d) /\ Stands(d)' = Stands(d) /\ (Falling(d)' <=> Falling(d))
  BY LeftKeeps DEF BInv
<1>2. \A d \in Crtc : VoteInv(d)'
  BY <1>1
<1>3. \A d \in Crtc : Bears(d) \in Nat /\ Stands(d) \in Nat
  BY BearTypes DEF BInv
<1>4. \A d \in Crtc : Bears(d)' \in Nat /\ Stands(d)' \in Nat
  BY AllBearTypesNext
<1> DEFINE b == bears
           e == bears'
           s == stands
           t == stands'
<1>5. /\ b \in [Crtc -> Nat] /\ e \in [Crtc -> Nat] /\ s \in [Crtc -> Nat] /\ t \in [Crtc -> Nat]
      /\ \A d \in Crtc : b[d] = Bears(d) /\ e[d] = Bears(d)' /\ s[d] = Stands(d) /\ t[d] = Stands(d)'
  BY <1>3, <1>4 DEF bears, stands
<1>6. \A d \in Crtc \ {c} : e[d] = b[d] /\ t[d] = s[d]
  BY <1>1, <1>5
<1> HIDE DEF b, e, s, t
<1>7. PeakHolds(b, s)
  BY DEF BInv, PeakInv, b, s
<1>8. PeakHolds(e, t)
  <2>1. \A d \in Crtc \ {c} : e[d] <= b[d] /\ s[d] <= t[d]
    BY <1>5, <1>6
  <2>2. \/ e[c] <= b[c] /\ s[c] <= t[c]
        \/ e[c] = 0
        \/ Sum(e, Crtc) <= t[c]
    BY <1>5 DEF e
  <2> QED BY <1>5, <1>7, <2>1, <2>2, PeakStep
<1>9. PeakInv'
  BY <1>8 DEF PeakInv, e, t
<1>10. ASSUME NEW d \in Crtc, Falling(d)', bts'[d].need.total # 0
       PROVE  bts'[d].need.total + Sum(bears', Crtc \ {d}) <= bts'[d].need.peak
  <2>1. CASE d = c
    BY <1>10, <2>1
  <2>2. CASE d # c
    <3>1. bts'[d] = bts[d] /\ Falling(d) /\ bts[d].need.total # 0
      BY <1>1, <1>10, <2>2 DEF Left
    <3>2. bts[d].need.total + Sum(b, Crtc \ {d}) <= bts[d].need.peak
      BY <3>1 DEF BInv, FallInv, b
    <3>3. e[c] <= b[c]
      BY <1>5, <2>2, <3>1
    <3>4. Numbers(b, Crtc \ {d}) /\ Numbers(e, Crtc \ {d})
      BY <1>5, BandwidthAssumption, FS_Subset DEF Numbers
    <3>5. \A x \in Crtc \ {d} : e[x] \in Nat /\ e[x] <= b[x]
      BY <1>5, <1>6, <3>3
    <3>6. Sum(e, Crtc \ {d}) <= Sum(b, Crtc \ {d})
      BY <3>4, <3>5, SumMonotone
    <3>7. Sum(e, Crtc \ {d}) \in Nat /\ Sum(b, Crtc \ {d}) \in Nat
      BY <3>4, SumLaws
    <3>8. bts[d].need.total \in Nat /\ bts[d].need.peak \in Nat
      BY BearTypes DEF BInv
    <3>9. bts[d].need.total + Sum(e, Crtc \ {d}) <= bts[d].need.peak
      BY <3>2, <3>6, <3>7, <3>8
    <3> QED BY <3>1, <3>9 DEF e
  <2> QED BY <2>1, <2>2
<1>11. FallInv'
  BY <1>10 DEF FallInv
<1> QED BY <1>2, <1>9, <1>11 DEF BInv

-----------------------------------------------------------------------------
(* The calculation *)

(* Total is a sum. *)
LEMMA TotalIs == ASSUME NEW config, NEW S, DOMAIN config = S PROVE Total(config) = Sum(config, S)
  BY DEF Total, Sum, FoldFunction

(* A table is calculated for what the state fetches. *)
LEMMA ConfigIsDue ==
  ASSUME WInv, BInv, "kept_table" \notin BtsRaces, "first_start" \notin BtsRaces,
         NEW c \in Crtc, PreUpdate(c), crtc[c].power = "on"
  PROVE  Config(c) = Due(c)
<1>1. tail[c] = "pre" /\ TableInv(c) /\ bts[c] \in BtsRecord
  BY BearTypes DEF PreUpdate, BInv, VoteInv
<1>2. bts[c].config \in [Win -> 0 .. 2]
  BY <1>1 DEF BtsRecord
<1> DEFINE order == crtc[c].order
           old == bts[c].config
           past == job[c].todo # {}
           n == Len(order)
           new == Config(c)
<1>3. /\ new = [i \in Win |-> IF i < n
                              THEN IF order[i + 1] \in PlanesInState(c) THEN Load(content[order[i + 1]]) ELSE old[i]
                              ELSE IF past THEN 0 ELSE old[i]]
  BY DEF Config
<1>4. \A i \in Win : /\ new[i] = IF i < n
                                 THEN IF order[i + 1] \in PlanesInState(c) THEN Load(content[order[i + 1]]) ELSE old[i]
                                 ELSE IF past THEN 0 ELSE old[i]
                     /\ new[i] \in 0 .. 2
  BY <1>2, <1>3, LoadBounds
<1>5. DOMAIN new = Win
  BY <1>3
<1>6. ASSUME NEW i \in Win PROVE new[i] = DueAt(c, i)
  <2>1. \/ old[i] = DueAt(c, i)
        \/ IF i < n THEN order[i + 1] \in PlanesInState(c) ELSE past \/ order = <<>>
    <3>1. CASE Cleared(c)
      <4>1. old[i] = 0
        BY <3>1 DEF Cleared, NoWindows
      <4>2. CASE i < n
        <5>1. i + 1 \in DOMAIN order
          BY <4>2, PlanesAssumption DEF WInv, WiringTypes, StateRecord, Win
        <5>2. order[i + 1] \in ToSet(order)
          BY <5>1 DEF ToSet
        <5>3. order[i + 1] \in PlanesInState(c) \/ Load(content[order[i + 1]]) = 0
          BY <3>1, <5>2 DEF PreUpdate
        <5> QED BY <4>1, <4>2, <5>3 DEF DueAt
      <4>3. CASE ~(i < n)
        BY <4>1, <4>3 DEF DueAt
      <4> QED BY <4>2, <4>3
    <3>2. CASE ~Cleared(c)
      BY <1>1, <3>2 DEF TableInv
    <3> QED BY <3>1, <3>2
  <2>2. CASE i < n
    <3>1. DueAt(c, i) = Load(content[order[i + 1]])
      BY <2>2 DEF DueAt
    <3> HIDE DEF new, n, order, old
    <3> QED BY <1>4, <2>1, <2>2, <3>1
  <2>3. CASE ~(i < n)
    <3>1. DueAt(c, i) = 0
      BY <2>3 DEF DueAt
    <3>2. CASE order = <<>>
      <4>1. Total(new) = 0
        BY <3>2 DEF PreUpdate
      <4>2. IsFiniteSet(Win)
        BY PlanesAssumption, FS_Interval DEF Win
      <4> HIDE DEF new
      <4>3. Numbers(new, Win)
        BY <1>4, <4>2 DEF Numbers
      <4>4. new[i] = 0
        BY <1>5, <4>1, <4>3, TotalIs, SumLaws
      <4> QED BY <3>1, <4>4
    <3>3. CASE order # <<>>
      <4> HIDE DEF new, n, order, old
      <4> QED BY <1>4, <2>1, <2>3, <3>1, <3>3
    <3> QED BY <3>2, <3>3
  <2> QED BY <2>2, <2>3
<1>7. new = [i \in Win |-> DueAt(c, i)]
  <2> HIDE DEF new
  <2>1. new = [i \in Win |-> new[i]]
    BY <1>3 DEF new
  <2> QED BY <1>6, <2>1
<1> QED BY <1>7 DEF Due

(* What the DECONs have last calculated for their channels. *)
Channels == [d \in Crtc |-> bts[d].ch]

(* A clock that bears a peak. *)
LEMMA ClockBears == ASSUME NEW n \in Nat PROVE Clock(n) \in Nat /\ n <= Clock(n)
<1>1. IsFiniteSet({n, FullSize})
  <2>1. IsFiniteSet({n} \cup {FullSize})
    BY FS_Singleton, FS_Union
  <2>2. {n, FullSize} = {n} \cup {FullSize}
    OBVIOUS
  <2> QED BY <2>1, <2>2
<1>2. {n, FullSize} \in SUBSET Nat /\ {n, FullSize} # {} /\ n \in {n, FullSize}
  BY DEF FullSize
<1>3. Max({n, FullSize}) \in {n, FullSize} /\ n <= Max({n, FullSize})
  BY <1>1, <1>2, HighestOf
<1> QED BY <1>2, <1>3 DEF Clock

(* Placing a vote leaves the rest. *)
LEMMA BtsVoted ==
  ASSUME NEW r \in BtsRecord, NEW vote \in VoteRecord
  PROVE  LET b == [r EXCEPT !.vote = vote]
         IN  b \in BtsRecord /\ b.config = r.config /\ b.ch = r.ch /\ b.need = r.need /\ b.prev = r.prev /\ b.vote = vote
  BY DEF BtsRecord

(* The sums that the peaks are calculated with. *)
LEMMA ChannelSums ==
  ASSUME BtsTypes, NEW c \in Crtc
  PROVE  Numbers(Channels, Crtc \ {c}) /\ Sum(Channels, Crtc \ {c}) \in Nat /\ \A d \in Crtc : Channels[d] = bts[d].ch
<1>1. \A d \in Crtc : Channels[d] = bts[d].ch /\ Channels[d] \in Nat
  BY BearTypes DEF Channels
<1>2. Numbers(Channels, Crtc \ {c})
  BY <1>1, BandwidthAssumption, FS_Subset DEF Numbers
<1> QED BY <1>1, <1>2, SumLaws

(* What c needs for its state, and how its votes rise. *)
LEMMA Calculates ==
  ASSUME WInv, BInv, "kept_table" \notin BtsRaces, "first_start" \notin BtsRaces,
         NEW c \in Crtc, PreUpdate(c), crtc[c].power = "on"
  PROVE  LET b == bts[c]
             e == bts'[c]
             total == Sum(Due(c), Win)
         IN  /\ e.config = Due(c) /\ e.prev = b.prev
             /\ e.ch = IF total = 0 THEN b.ch ELSE total
             /\ e.need.total = total
             /\ e.need.peak = IF total = 0 THEN 0 ELSE total + Sum(Channels, Crtc \ {c})
             /\ e.need.freq = Clock(e.need.peak)
             /\ e.vote = [total |-> IF e.need.total > b.prev.total \/ e.need.peak > b.prev.peak THEN e.need.total ELSE b.vote.total,
                          peak  |-> IF e.need.total > b.prev.total \/ e.need.peak > b.prev.peak THEN e.need.peak ELSE b.vote.peak,
                          freq  |-> IF e.need.freq > b.prev.freq THEN e.need.freq ELSE b.vote.freq]
             /\ e \in BtsRecord /\ \A d \in Crtc \ {c} : bts'[d] = bts[d]
<1>1. bts \in [Crtc -> BtsRecord] /\ bts[c] \in BtsRecord
  BY DEF BInv, BtsTypes
<1>2. bts' = [bts EXCEPT ![c] = VotedUp(Calculated(c, Config(c)))]
  BY DEF PreUpdate
<1>3. Config(c) = Due(c)
  BY ConfigIsDue
<1>4. Total(Due(c)) = Sum(Due(c), Win)
  BY TotalIs DEF Due
<1>5. \A ch : AllDecons(c, ch) = ch + Sum(Channels, Crtc \ {c})
  BY DEF AllDecons, Sum, Channels
<1> DEFINE total == Sum(Due(c), Win)
           ch == IF total = 0 THEN bts[c].ch ELSE total
           peak == IF total = 0 THEN 0 ELSE total + Sum(Channels, Crtc \ {c})
           need == [total |-> total, peak |-> peak, freq |-> Clock(peak)]
           b == [bts[c] EXCEPT !.config = Due(c), !.ch = ch, !.need = need]
<1>6. Calculated(c, Config(c)) = b
  <2>1. ChBw(c, total) = ch
    BY DEF ChBw
  <2>2. (IF total = 0 THEN 0 ELSE AllDecons(c, ch)) = peak
    BY <1>5
  <2>3. Calculated(c, Due(c)) =
          [bts[c] EXCEPT !.config = Due(c), !.ch = ChBw(c, total),
             !.need = [total |-> total, peak |-> IF total = 0 THEN 0 ELSE AllDecons(c, ChBw(c, total)),
                       freq |-> Clock(IF total = 0 THEN 0 ELSE AllDecons(c, ChBw(c, total)))]]
    BY <1>4 DEF Calculated
  <2> HIDE DEF total, ch, peak
  <2> QED BY <1>3, <2>1, <2>2, <2>3
<1>7. bts' = [bts EXCEPT ![c] = VotedUp(b)]
  BY <1>2, <1>6
<1>8. need.total = total /\ need.peak = peak /\ need.freq = Clock(peak) /\ need \in VoteRecord
  <2>1. total \in Nat
    BY DueSums
  <2>2. peak \in Nat
    <3>1. BtsTypes
      BY DEF BInv
    <3>2. Sum(Channels, Crtc \ {c}) \in Nat
      BY <3>1, ChannelSums
    <3> HIDE DEF total
    <3> QED BY <2>1, <3>2
  <2>3. Clock(peak) \in Nat
    <3> HIDE DEF peak
    <3> QED BY <2>2, ClockBears
  <2> HIDE DEF total, peak
  <2> QED BY <2>1, <2>2, <2>3 DEF VoteRecord
<1>9. Due(c) \in [Win -> 0 .. 2] /\ ch \in 0 .. 2 * NPlane
  <2>1. Due(c) \in [Win -> 0 .. 2] /\ total \in 0 .. 2 * NPlane
    BY DueSums
  <2>2. bts[c].ch \in 0 .. 2 * NPlane
    BY <1>1 DEF BtsRecord
  <2> HIDE DEF total
  <2> QED BY <2>1, <2>2
<1>10. b \in BtsRecord /\ b.config = Due(c) /\ b.prev = bts[c].prev /\ b.vote = bts[c].vote /\ b.ch = ch /\ b.need = need
  <2> HIDE DEF ch, need
  <2> DEFINE config == Due(c)
  <2>1. config \in [Win -> 0 .. 2] /\ b = [bts[c] EXCEPT !.config = config, !.ch = ch, !.need = need]
    BY <1>9
  <2> HIDE DEF config, b
  <2>2. b \in BtsRecord /\ b.config = config /\ b.prev = bts[c].prev /\ b.vote = bts[c].vote /\ b.ch = ch /\ b.need = need
    BY <1>1, <1>8, <1>9, <2>1 DEF BtsRecord
  <2> QED BY <2>2 DEF config
<1> HIDE DEF b, need
<1> DEFINE vote == [total |-> IF need.total > b.prev.total \/ need.peak > b.prev.peak THEN need.total ELSE b.vote.total,
                    peak  |-> IF need.total > b.prev.total \/ need.peak > b.prev.peak THEN need.peak ELSE b.vote.peak,
                    freq  |-> IF need.freq > b.prev.freq THEN need.freq ELSE b.vote.freq]
<1>11. VotedUp(b) = [b EXCEPT !.vote = vote]
  BY <1>10 DEF VotedUp, Voted
<1>12. vote \in VoteRecord
  <2>1. b.vote \in VoteRecord
    BY <1>10 DEF BtsRecord
  <2> HIDE DEF b
  <2> QED BY <1>8, <2>1 DEF VoteRecord
<1> HIDE DEF vote
<1>13. bts'[c] = [b EXCEPT !.vote = vote] /\ \A d \in Crtc \ {c} : bts'[d] = bts[d]
  BY <1>1, <1>7, <1>11
<1>14. /\ bts'[c].config = Due(c) /\ bts'[c].prev = bts[c].prev /\ bts'[c].ch = ch /\ bts'[c].need = need
       /\ bts'[c].vote = vote /\ bts'[c] \in BtsRecord
  <2> HIDE DEF ch
  <2> QED BY <1>10, <1>12, <1>13, BtsVoted
<1> QED BY <1>8, <1>10, <1>13, <1>14 DEF vote

(* A CRTC that is on calculates and votes up. *)
LEMMA VoteUpKeeps ==
  ASSUME WInv, BInv, "kept_table" \notin BtsRaces, "first_start" \notin BtsRaces,
         "sum_race" \notin BtsRaces, "mixed_vote" \notin BtsRaces,
         NEW c \in Crtc, PreUpdate(c), crtc[c].power = "on"
  PROVE  BInv'
<1> DEFINE b == bts[c]
           e == bts'[c]
           total == Sum(Due(c), Win)
           others == Sum(Channels, Crtc \ {c})
<1>1. /\ BtsTypes /\ VoteInv(c) /\ tail[c] = "pre" /\ job[c].phase # "stop"
      /\ (\A d \in Crtc \ {c} : bts[d].ch >= shown[d]) /\ ~Mixed(bts'[c])
  BY DEF BInv, PreUpdate
<1>2. /\ crtc' = crtc /\ content' = content /\ job' = job /\ decon' = decon /\ shown' = shown
      /\ tail' = [tail EXCEPT ![c] = "tail"]
  BY DEF PreUpdate, vars, drm
<1>3. /\ e.config = Due(c) /\ e.prev = b.prev
      /\ e.ch = IF total = 0 THEN b.ch ELSE total
      /\ e.need.total = total
      /\ e.need.peak = IF total = 0 THEN 0 ELSE total + others
      /\ e.need.freq = Clock(e.need.peak)
      /\ e.vote = [total |-> IF e.need.total > b.prev.total \/ e.need.peak > b.prev.peak THEN e.need.total ELSE b.vote.total,
                   peak  |-> IF e.need.total > b.prev.total \/ e.need.peak > b.prev.peak THEN e.need.peak ELSE b.vote.peak,
                   freq  |-> IF e.need.freq > b.prev.freq THEN e.need.freq ELSE b.vote.freq]
      /\ e \in BtsRecord /\ \A d \in Crtc \ {c} : bts'[d] = bts[d]
  BY Calculates
<1>4. tail'[c] = "tail" /\ \A d \in Crtc \ {c} : tail'[d] = tail[d]
  BY <1>1, <1>2 DEF BtsTypes
<1>5. Due(c)' = Due(c) /\ \A i \in Win : DueAt(c, i)' = DueAt(c, i)
  BY <1>2, DueKept
<1>6. b.vote = b.prev /\ b.vote.peak <= b.vote.freq /\ shown[c] <= b.vote.total
  BY <1>1 DEF VoteInv, RestInv, Midway
<1>7. /\ e.need \in VoteRecord /\ e.vote \in VoteRecord /\ b.prev \in VoteRecord /\ total \in Nat /\ others \in Nat
      /\ shown[c] \in Nat /\ e.need.peak \in Nat
  <2>1. b \in BtsRecord /\ shown[c] \in Nat
    BY <1>1, BearTypes
  <2>2. e.need \in VoteRecord /\ e.vote \in VoteRecord /\ b.prev \in VoteRecord
    BY <1>3, <2>1 DEF BtsRecord
  <2>3. total \in Nat /\ others \in Nat
    BY <1>1, <1>3, <2>2, ChannelSums DEF VoteRecord
  <2> QED BY <2>1, <2>2, <2>3 DEF VoteRecord
<1>8. e.need.peak <= e.need.freq
  BY <1>3, <1>7, ClockBears
<1> DEFINE need == e.need
           prev == b.prev
           vote == e.vote
<1>9. /\ need.total \in Nat /\ need.peak \in Nat /\ need.freq \in Nat
      /\ prev.total \in Nat /\ prev.peak \in Nat /\ prev.freq \in Nat
      /\ vote.total \in Nat /\ vote.peak \in Nat /\ vote.freq \in Nat
  BY <1>7 DEF VoteRecord
<1>10. /\ ~(need.total > prev.total /\ need.peak < prev.peak)
       /\ ~(need.total < prev.total /\ need.peak > prev.peak)
  BY <1>1, <1>3 DEF Mixed
<1>11. /\ vote.total = IF need.total > prev.total \/ need.peak > prev.peak THEN need.total ELSE prev.total
       /\ vote.peak = IF need.total > prev.total \/ need.peak > prev.peak THEN need.peak ELSE prev.peak
       /\ vote.freq = IF need.freq > prev.freq THEN need.freq ELSE prev.freq
  <2> HIDE DEF need, prev
  <2> QED BY <1>3, <1>6 DEF need, prev
<1>12. /\ \/ vote.total = need.total /\ vote.peak = need.peak /\ prev.total <= need.total /\ prev.peak <= need.peak
          \/ vote.total = prev.total /\ vote.peak = prev.peak /\ need.total <= prev.total /\ need.peak <= prev.peak
       /\ \/ vote.freq = need.freq /\ prev.freq <= need.freq
          \/ vote.freq = prev.freq /\ need.freq <= prev.freq
  <2> HIDE DEF need, prev, vote
  <2>1. CASE need.total > prev.total \/ need.peak > prev.peak
    BY <1>9, <1>10, <1>11, <2>1
  <2>2. CASE ~(need.total > prev.total \/ need.peak > prev.peak)
    BY <1>9, <1>10, <1>11, <2>2
  <2> QED BY <2>1, <2>2
<1>13. prev.total <= vote.total /\ prev.peak <= vote.peak
  <2> HIDE DEF need, prev, vote
  <2> QED BY <1>9, <1>12
<1>14. BtsTypes'
  <2>1. bts' \in [Crtc -> BtsRecord]
    <3>1. bts' = [bts EXCEPT ![c] = bts'[c]]
      <4>1. bts \in [Crtc -> BtsRecord]
        BY <1>1 DEF BtsTypes
      <4>2. \E x : bts' = [bts EXCEPT ![c] = x]
        BY DEF PreUpdate
      <4> QED BY <4>1, <4>2
    <3> HIDE DEF b
    <3> QED BY <1>1, <1>3, <3>1 DEF BtsTypes
  <2> QED BY <1>1, <1>2, <2>1 DEF BtsTypes
<1>15. Midway(c)' /\ ~Midway(c) /\ ~Falling(c)
  BY <1>1, <1>2, <1>4 DEF Midway, Falling
<1>16. VoteInv(c)'
  <2>1. PairInv(c)'
    <3>1. job[c].phase \in Phases
      BY DEF WInv, WiringTypes, JobRecord
    <3> QED BY <1>1, <1>2, <1>4, <3>1 DEF VoteInv, PairInv, Phases
  <2>2. TableInv(c)'
    BY <1>3, <1>5 DEF TableInv, Due
  <2>3. RestInv(c)'
    BY <1>4, <1>15 DEF RestInv
  <2>4. MidInv(c)'
    <3>1. need.total = Sum(Due(c), Win)' /\ (e.ch = need.total \/ need.total = 0)
      BY <1>3, <1>5
    <3>2. prev.peak <= prev.freq /\ e.prev = prev
      BY <1>3, <1>6
    <3>3. tail'[c] # "post"
      BY <1>4
    <3> QED BY <1>8, <1>12, <3>1, <3>2, <3>3 DEF MidInv
  <2>5. shown'[c] <= e.vote.total
    <3>1. shown[c] <= prev.total
      BY <1>6
    <3> HIDE DEF prev, vote
    <3>2. shown[c] <= vote.total
      BY <1>7, <1>9, <1>13, <3>1
    <3> QED BY <1>2, <3>2 DEF vote
  <2> QED BY <2>1, <2>2, <2>3, <2>4, <2>5 DEF VoteInv
<1>17. \A d \in Crtc \ {c} : Left(d)
  BY <1>2, <1>3, <1>4 DEF Left
<1>18. ASSUME NEW d \in Crtc \ {c} PROVE Bears(d) <= bts[d].ch /\ (~Falling(d) \/ bts[d].need.total = 0)
  <2>1. shown[d] <= bts[d].ch /\ shown[d] \in Nat /\ bts[d].ch \in Nat /\ bts[d].need.total \in Nat
    BY <1>1, BearTypes
  <2>2. Midway(d) => bts[d].ch = bts[d].need.total \/ bts[d].need.total = 0
    BY DEF BInv, VoteInv, MidInv
  <2>3. Falling(d) => Midway(d)
    BY DEF BInv, VoteInv, PairInv, Falling, Midway
  <2>4. Bears(d) <= bts[d].ch
    BY <2>1, <2>2 DEF Bears
  <2>5. ~Falling(d) \/ bts[d].need.total = 0
    BY <2>1, <2>2, <2>3 DEF Falling
  <2> QED BY <2>4, <2>5
<1>19. /\ Bears(c) = shown[c] /\ Stands(c) = prev.peak
       /\ Bears(c)' = IF shown[c] < total THEN total ELSE shown[c]
       /\ (Falling(c)' <=> total < shown[c])
       /\ Stands(c)' = IF total < shown[c] THEN vote.peak ELSE need.peak
  <2>1. Bears(c) = shown[c] /\ Stands(c) = prev.peak
    BY <1>6, <1>15 DEF Bears, Stands
  <2>2. Falling(c)' <=> total < shown[c]
    BY <1>2, <1>3, <1>4 DEF Falling
  <2>3. Bears(c)' = IF shown[c] < total THEN total ELSE shown[c]
    BY <1>2, <1>3, <1>15 DEF Bears
  <2>4. Stands(c)' = IF total < shown[c] THEN vote.peak ELSE need.peak
    BY <1>15, <2>2 DEF Stands
  <2> QED BY <2>1, <2>2, <2>3, <2>4
<1>20. \A d \in Crtc : bears'[d] = Bears(d)' /\ Bears(d)' \in Nat
  BY <1>14, AllBearTypesNext DEF bears
<1>21. Numbers(bears', Crtc) /\ Sum(bears', Crtc \ {c}) \in Nat /\ Sum(bears', Crtc \ {c}) <= others
  <2>1. Numbers(bears', Crtc) /\ Numbers(bears', Crtc \ {c})
    BY <1>20, BandwidthAssumption, FS_Subset DEF Numbers
  <2>2. Numbers(Channels, Crtc \ {c}) /\ \A d \in Crtc : Channels[d] = bts[d].ch
    BY <1>1, ChannelSums
  <2>3. ASSUME NEW d \in Crtc \ {c} PROVE bears'[d] \in Nat /\ bears'[d] <= Channels[d]
    <3>1. Bears(d)' = Bears(d)
      BY <1>17, LeftKeeps DEF BInv
    <3> QED BY <1>18, <1>20, <2>2, <3>1
  <2>4. Sum(bears', Crtc \ {c}) <= Sum(Channels, Crtc \ {c})
    BY <2>2, <2>3, SumMonotone
  <2> QED BY <2>1, <2>4, SumLaws
<1>22. Sum(bears', Crtc) = Bears(c)' + Sum(bears', Crtc \ {c})
  BY <1>20, <1>21, SumLaws
<1>23. need.total # 0 => need.total = total /\ need.total + Sum(bears', Crtc \ {c}) <= need.peak
  <2> HIDE DEF total, others
  <2> QED BY <1>3, <1>7, <1>21
<1>24. \/ Bears(c)' <= Bears(c) /\ Stands(c) <= Stands(c)'
       \/ Bears(c)' = 0
       \/ Sum(bears', Crtc) <= Stands(c)'
  <2>1. CASE total < shown[c]
    <3> HIDE DEF total, prev, vote, need
    <3>1. Bears(c)' = shown[c] /\ Stands(c)' = vote.peak
      BY <1>7, <1>19, <2>1
    <3> QED BY <1>7, <1>13, <1>19, <3>1
  <2>2. CASE ~(total < shown[c]) /\ total = 0
    <3>1. shown[c] = 0
      BY <1>7, <2>2
    <3> QED BY <1>19, <2>2, <3>1
  <2>3. CASE ~(total < shown[c]) /\ total # 0
    <3>1. Bears(c)' = total /\ Stands(c)' = need.peak
      <4> HIDE DEF total, prev, vote, need
      <4> QED BY <1>7, <1>19, <2>3
    <3>2. need.total # 0 /\ need.total = total
      BY <1>3, <2>3
    <3> QED BY <1>22, <1>23, <3>1, <3>2
  <2> QED BY <2>1, <2>2, <2>3
<1>25. Falling(c)' /\ bts'[c].need.total # 0 => bts'[c].need.total + Sum(bears', Crtc \ {c}) <= bts'[c].need.peak
  BY <1>23
<1>26. \A d \in Crtc \ {c} : ~Falling(d) \/ bts[d].need.total = 0
  BY <1>18
<1> HIDE DEF b, e, total, others, need, prev, vote
<1> QED BY <1>14, <1>16, <1>17, <1>24, <1>25, <1>26, StepKeeps

(* One that is not has only its table calculated. *)
LEMMA TableOnlyKeeps ==
  ASSUME WInv, BInv, NEW c \in Crtc, PreUpdate(c), crtc[c].power # "on"
  PROVE  BInv'
<1>1. /\ BtsTypes /\ VoteInv(c) /\ tail[c] = "pre" /\ job[c].phase # "stop"
      /\ bts' = [bts EXCEPT ![c] = [bts[c] EXCEPT !.config = Config(c)]]
  BY DEF BInv, PreUpdate
<1>2. /\ crtc' = crtc /\ content' = content /\ job' = job /\ decon' = decon /\ shown' = shown
      /\ tail' = [tail EXCEPT ![c] = "post"]
  BY DEF PreUpdate, vars, drm
<1>3. bts \in [Crtc -> BtsRecord] /\ bts[c] \in BtsRecord
  BY <1>1 DEF BtsTypes
<1> DEFINE config == Config(c)
<1>4. config \in [Win -> 0 .. 2]
  <2>1. bts[c].config \in [Win -> 0 .. 2]
    BY <1>3 DEF BtsRecord
  <2>2. crtc[c].power # "on"
    OBVIOUS
  <2> QED BY <2>1, <2>2, LoadBounds DEF Config
<1> HIDE DEF config
<1>5. bts' = [bts EXCEPT ![c] = [bts[c] EXCEPT !.config = config]]
  BY <1>1 DEF config
<1>6. /\ bts'[c] \in BtsRecord /\ bts'[c].need = bts[c].need /\ bts'[c].prev = bts[c].prev /\ bts'[c].vote = bts[c].vote
      /\ \A d \in Crtc \ {c} : bts'[d] = bts[d]
  BY <1>3, <1>4, <1>5 DEF BtsRecord
<1>7. bts' \in [Crtc -> BtsRecord]
  <2>1. bts' = [bts EXCEPT ![c] = bts'[c]]
    BY <1>3, <1>5
  <2> QED BY <1>3, <1>6, <2>1
<1>8. BtsTypes'
  BY <1>1, <1>2, <1>7 DEF BtsTypes
<1>9. tail'[c] = "post" /\ \A d \in Crtc \ {c} : tail'[d] = tail[d]
  BY <1>1, <1>2 DEF BtsTypes
<1>10. \A d \in Crtc \ {c} : Left(d)
  BY <1>2, <1>6, <1>9 DEF Left
<1>11. ~Midway(c)' /\ ~Midway(c) /\ ~Falling(c) /\ ~Falling(c)'
  BY <1>1, <1>2, <1>9 DEF Midway, Falling
<1>12. VoteInv(c)'
  <2>1. PairInv(c)'
    <3>1. job[c].phase = "idle"
      BY <1>1 DEF WInv, CrtcInv, PhaseInv
    <3> QED BY <1>1, <1>2, <1>9, <3>1 DEF VoteInv, PairInv
  <2>2. TableInv(c)' /\ RestInv(c)' /\ MidInv(c)'
    BY <1>1, <1>2, <1>6, <1>9, <1>11 DEF VoteInv, TableInv, RestInv, MidInv
  <2>3. shown'[c] <= bts'[c].vote.total
    BY <1>1, <1>2, <1>6 DEF VoteInv
  <2> QED BY <2>1, <2>2, <2>3 DEF VoteInv
<1>13. Bears(c)' = Bears(c) /\ Stands(c)' = Stands(c) /\ Bears(c) \in Nat /\ Stands(c) \in Nat
  BY <1>1, <1>2, <1>6, <1>11, BearTypes DEF Bears, Stands
<1>14. Bears(c)' <= Bears(c) /\ Stands(c) <= Stands(c)'
  BY <1>13
<1> QED BY <1>8, <1>10, <1>11, <1>12, <1>14, StepKeeps

-----------------------------------------------------------------------------
(* After the flip *)

(* After the flip the votes that fall are placed: all are what is needed.    *)
LEMMA VoteDownKeeps ==
  ASSUME WInv, BInv, NEW c \in Crtc, PostUpdate(c), crtc[c].power = "on"
  PROVE  BInv'
<1> DEFINE need == bts[c].need
           prev == bts[c].prev
           old == bts[c].vote
           bw == need.total < prev.total \/ need.peak < prev.peak
           vote == [total |-> IF bw THEN need.total ELSE old.total,
                    peak |-> IF bw THEN need.peak ELSE old.peak,
                    freq |-> IF need.freq < prev.freq THEN need.freq ELSE old.freq]
<1>1. /\ BtsTypes /\ VoteInv(c) /\ tail[c] = "post" /\ bts' = [bts EXCEPT ![c] = VotedDown(bts[c])]
  BY DEF BInv, PostUpdate
<1>2. /\ crtc' = crtc /\ content' = content /\ job' = job /\ decon' = decon /\ shown' = shown
      /\ tail' = [tail EXCEPT ![c] = "idle"]
  BY DEF PostUpdate, vars, drm
<1>3. bts \in [Crtc -> BtsRecord] /\ bts[c] \in BtsRecord /\ need \in VoteRecord /\ prev \in VoteRecord /\ old \in VoteRecord
  BY <1>1, BearTypes DEF BtsTypes
<1>4. /\ need.total \in Nat /\ need.peak \in Nat /\ need.freq \in Nat
      /\ prev.total \in Nat /\ prev.peak \in Nat /\ prev.freq \in Nat
      /\ old.total \in Nat /\ old.peak \in Nat /\ old.freq \in Nat
  BY <1>3 DEF VoteRecord
<1>5. Midway(c) /\ ~Falling(c)
  BY <1>1 DEF Midway, Falling
<1>6. /\ need.total = Sum(Due(c), Win) /\ need.peak <= need.freq
      /\ \/ old.total = need.total /\ old.peak = need.peak /\ prev.total <= need.total /\ prev.peak <= need.peak
         \/ old.total = prev.total /\ old.peak = prev.peak /\ need.total <= prev.total /\ need.peak <= prev.peak
      /\ \/ old.freq = need.freq /\ prev.freq <= need.freq
         \/ old.freq = prev.freq /\ need.freq <= prev.freq
      /\ shown[c] <= need.total
  BY <1>1, <1>5 DEF VoteInv, MidInv
<1>7. vote.total = need.total /\ vote.peak = need.peak /\ vote.freq = need.freq
  <2> HIDE DEF need, prev, old
  <2>1. (IF bw THEN need.total ELSE old.total) = need.total
    BY <1>4, <1>6
  <2>2. (IF bw THEN need.peak ELSE old.peak) = need.peak
    BY <1>4, <1>6
  <2>3. (IF need.freq < prev.freq THEN need.freq ELSE old.freq) = need.freq
    BY <1>4, <1>6
  <2> HIDE DEF bw
  <2> QED BY <2>1, <2>2, <2>3
<1>8. VotedDown(bts[c]) = [[bts[c] EXCEPT !.vote = vote] EXCEPT !.prev = need]
  BY DEF VotedDown, Voted
<1>9. vote = need
  <2> HIDE DEF bw, old
  <2>1. need = [total |-> need.total, peak |-> need.peak, freq |-> need.freq]
    <3> HIDE DEF need
    <3> QED BY <1>3 DEF VoteRecord
  <2>2. vote = [total |-> vote.total, peak |-> vote.peak, freq |-> vote.freq]
    OBVIOUS
  <2> HIDE DEF vote, need
  <2> QED BY <1>7, <2>1, <2>2
<1> HIDE DEF vote
<1>10. bts' = [bts EXCEPT ![c] = [[bts[c] EXCEPT !.vote = need] EXCEPT !.prev = need]]
  BY <1>1, <1>8, <1>9
<1>11. /\ bts'[c] \in BtsRecord /\ bts'[c].config = bts[c].config /\ bts'[c].need = need /\ bts'[c].prev = need
       /\ bts'[c].vote = need /\ \A d \in Crtc \ {c} : bts'[d] = bts[d]
  <2> HIDE DEF need
  <2> QED BY <1>3, <1>10 DEF BtsRecord, need
<1>12. bts' \in [Crtc -> BtsRecord]
  <2>1. bts' = [bts EXCEPT ![c] = bts'[c]]
    BY <1>3, <1>10
  <2> QED BY <1>3, <1>11, <2>1
<1>13. BtsTypes'
  BY <1>1, <1>2, <1>12 DEF BtsTypes
<1>14. tail'[c] = "idle" /\ \A d \in Crtc \ {c} : tail'[d] = tail[d]
  BY <1>1, <1>2 DEF BtsTypes
<1>15. \A d \in Crtc \ {c} : Left(d)
  BY <1>2, <1>11, <1>14 DEF Left
<1>16. ~Midway(c)' /\ ~Falling(c)'
  BY <1>14 DEF Midway, Falling
<1>17. Due(c)' = Due(c) /\ \A i \in Win : DueAt(c, i)' = DueAt(c, i)
  BY <1>2, DueKept
<1>18. decon[c] = "ON" /\ job[c].phase = "idle"
  BY <1>1 DEF VoteInv, PairInv, WInv, CrtcInv, PhaseInv
<1>19. VoteInv(c)'
  <2>1. PairInv(c)'
    BY <1>2, <1>14, <1>18 DEF PairInv
  <2>2. TableInv(c)'
    <3>1. (\A i \in Win : bts[c].config[i] = DueAt(c, i)) \/ Cleared(c)
      BY <1>1 DEF VoteInv, TableInv
    <3> QED BY <1>11, <1>17, <3>1 DEF TableInv, Cleared, NoWindows
  <2>3. RestInv(c)'
    BY <1>2, <1>6, <1>11, <1>17, <1>18 DEF RestInv
  <2>4. MidInv(c)'
    BY <1>16 DEF MidInv
  <2>5. shown'[c] <= bts'[c].vote.total
    BY <1>2, <1>6, <1>11
  <2> QED BY <2>1, <2>2, <2>3, <2>4, <2>5 DEF VoteInv
<1>20. Bears(c)' = shown[c] /\ Stands(c)' = need.peak
  BY <1>2, <1>11, <1>16 DEF Bears, Stands
<1>21. shown[c] <= Bears(c) /\ Stands(c) = need.peak
  <2>1. shown[c] \in Nat
    BY <1>1, BearTypes
  <2>2. Stands(c) = need.peak
    BY <1>5 DEF Stands
  <2>3. shown[c] <= Bears(c)
    BY <1>4, <2>1 DEF Bears
  <2> QED BY <2>2, <2>3
<1>22. Bears(c)' <= Bears(c) /\ Stands(c) <= Stands(c)'
  BY <1>4, <1>20, <1>21
<1> HIDE DEF need, prev, old
<1> QED BY <1>13, <1>15, <1>16, <1>19, <1>22, StepKeeps

(* A CRTC that is not on gives its votes back. *)
LEMMA ReleaseKeeps ==
  ASSUME WInv, BInv, NEW c \in Crtc, PostUpdate(c), crtc[c].power # "on"
  PROVE  BInv'
<1>1. /\ BtsTypes /\ VoteInv(c) /\ tail[c] = "post" /\ bts' = [bts EXCEPT ![c] = Released(bts[c])]
  BY DEF BInv, PostUpdate
<1>2. /\ crtc' = crtc /\ content' = content /\ job' = job /\ decon' = decon /\ shown' = shown
      /\ tail' = [tail EXCEPT ![c] = "idle"]
  BY DEF PostUpdate, vars, drm
<1>3. bts \in [Crtc -> BtsRecord] /\ bts[c] \in BtsRecord /\ Nothing \in VoteRecord /\ 0 \in 0 .. 2 * NPlane
  BY <1>1, PlanesAssumption DEF BtsTypes, Nothing, VoteRecord
<1>4. bts' = [bts EXCEPT ![c] = [bts[c] EXCEPT !.ch = 0, !.prev = Nothing, !.vote = Nothing]]
  BY <1>1 DEF Released
<1>5. /\ bts'[c] \in BtsRecord /\ bts'[c].prev = Nothing /\ bts'[c].vote = Nothing
      /\ \A d \in Crtc \ {c} : bts'[d] = bts[d]
  BY <1>3, <1>4 DEF BtsRecord
<1>6. bts' \in [Crtc -> BtsRecord]
  <2>1. bts' = [bts EXCEPT ![c] = bts'[c]]
    BY <1>3, <1>4
  <2> QED BY <1>3, <1>5, <2>1
<1>7. BtsTypes'
  BY <1>1, <1>2, <1>6 DEF BtsTypes
<1>8. tail'[c] = "idle" /\ \A d \in Crtc \ {c} : tail'[d] = tail[d]
  BY <1>1, <1>2 DEF BtsTypes
<1>9. \A d \in Crtc \ {c} : Left(d)
  BY <1>2, <1>5, <1>8 DEF Left
<1>10. ~Midway(c)' /\ ~Falling(c)'
  BY <1>8 DEF Midway, Falling
<1>11. decon[c] # "ON" /\ job[c].phase = "idle" /\ shown[c] = 0
  BY <1>1 DEF VoteInv, PairInv, WInv, CrtcInv, PhaseInv
<1>12. Nothing.total = 0 /\ Nothing.peak = 0 /\ Nothing.freq = 0
  BY DEF Nothing
<1>13. VoteInv(c)'
  BY <1>2, <1>5, <1>8, <1>10, <1>11, <1>12 DEF VoteInv, PairInv, TableInv, RestInv, MidInv
<1>14. Bears(c)' = 0 /\ Bears(c) \in Nat
  BY <1>1, <1>2, <1>10, <1>11, BearTypes DEF Bears
<1>15. Bears(c)' <= Bears(c)
  BY <1>14
<1> QED BY <1>7, <1>9, <1>10, <1>13, <1>14, <1>15, StepKeeps

-----------------------------------------------------------------------------
(* The rest of the tail *)

(* A commit leaves the others alone, and the table of c where its tail will  *)
(* not calculate it.                                                         *)
LEMMA CommitKeeps == ASSUME WInv, BInv, NEW c \in Crtc, TailCommit(c) PROVE BInv'
<1>1. /\ BtsTypes /\ VoteInv(c) /\ tail[c] = "idle" /\ tail' = [tail EXCEPT ![c] = "pre"]
      /\ bts' = bts /\ shown' = shown
  BY DEF BInv, TailCommit
<1>2. WiringTypes /\ Apart /\ CrtcInv(c)
  BY DEF WInv
<1>3. Asks(c)
  BY UserCommitAsks, HibernateAsks DEF TailCommit
<1>4. PICK power \in {"on", "sleep", "off"}, order \in Seq(Plane), touched \in SUBSET Plane,
           shows \in [Plane -> Contents], modeset \in BOOLEAN :
             IsInjective(order) /\ Request(c, power, order, touched, shows, modeset)
  BY <1>3 DEF Asks
<1>5. /\ crtc' = [crtc EXCEPT ![c] = [power |-> power, order |-> order]]
      /\ content' = shows /\ UNCHANGED <<decon, window, dpp, prot>>
      /\ \E j : job' = [job EXCEPT ![c] = j] /\ CommitTail(c, power, order, touched, modeset, j)
  BY <1>2, <1>4, CommitIs
<1>6. PICK j : job' = [job EXCEPT ![c] = j] /\ CommitTail(c, power, order, touched, modeset, j)
  BY <1>5
<1>7. /\ crtc'[c].power = power /\ crtc'[c].order = order /\ job'[c] = j /\ decon' = decon
      /\ \A d \in Crtc \ {c} : crtc'[d] = crtc[d] /\ job'[d] = job[d]
  BY <1>2, <1>5, <1>6 DEF WiringTypes
<1>8. tail'[c] = "pre" /\ \A d \in Crtc \ {c} : tail'[d] = tail[d]
  BY <1>1 DEF BtsTypes
<1>9. /\ ToSet(order) \subseteq ToSet(crtc[c].order) \cup touched
      /\ touched \subseteq ToSet(order)
      /\ \A p \in ToSet(order) : p \notin touched => shows[p] = content[p]
      /\ \A p \in Taken(c) : shows[p] = content[p]
  BY <1>4 DEF Request
<1>10. ASSUME NEW d \in Crtc \ {c} PROVE Left(d)
  <2>1. ToSet(crtc[d].order) \subseteq Taken(c)
    BY DEF Taken
  <2> QED BY <1>1, <1>5, <1>7, <1>8, <1>9, <2>1 DEF Left
<1>11. job[c].phase = "idle" /\ (crtc[c].power = "on" <=> decon[c] = "ON")
  BY <1>1, <1>2 DEF VoteInv, PairInv, CrtcInv, PhaseInv
<1> DEFINE zpos == order # crtc[c].order
           all == zpos \/ power # crtc[c].power \/ modeset
           removed == ToSet(crtc[c].order) \ ToSet(order)
<1>12. power = "on" => /\ j.phase # "idle"
                       /\ j.todo = removed \cup IF all THEN ToSet(order) ELSE touched
                       /\ j.removed = removed
  <2>1. power = "on" => FirstPhase(c, power, modeset) # "idle"
    BY DEF FirstPhase
  <2> QED BY <1>6, <2>1 DEF CommitTail
<1>13. PairInv(c)'
  BY <1>1, <1>7, <1>8, <1>12 DEF VoteInv, PairInv
<1>14. TableInv(c)'
  <2>1. SUFFICES ASSUME power = "on", ~Cleared(c), NEW i \in Win
                 PROVE  \/ bts[c].config[i] = DueAt(c, i)'
                        \/ IF i < Len(order) THEN order[i + 1] \in PlanesInState(c)'
                           ELSE j.todo # {} \/ order = <<>>
    BY <1>1, <1>7, <1>8 DEF TableInv, Cleared, NoWindows
  <2>2. PlanesInState(c)' = j.todo \ j.removed
    BY <1>7, <2>1 DEF PlanesInState
  <2>3. DueAt(c, i)' = IF i < Len(order) THEN Load(shows[order[i + 1]]) ELSE 0
    BY <1>5, <1>7 DEF DueAt
  <2>4. i < Len(order) => order[i + 1] \in ToSet(order)
    <3>1. i \in Nat /\ DOMAIN order = 1 .. Len(order) /\ Len(order) \in Nat
      BY PlanesAssumption DEF Win
    <3>2. i < Len(order) => i + 1 \in DOMAIN order
      BY <3>1
    <3> QED BY <3>2 DEF ToSet
  <2>5. CASE all
    <3>1. CASE i < Len(order)
      <4>1. order[i + 1] \in j.todo \ j.removed
        BY <1>12, <2>1, <2>4, <2>5, <3>1
      <4> QED BY <2>2, <3>1, <4>1
    <3>2. CASE ~(i < Len(order))
      <4>1. order = <<>> \/ order[1] \in ToSet(order)
        <5>1. order = <<>> \/ 1 \in DOMAIN order
          OBVIOUS
        <5> QED BY <5>1 DEF ToSet
      <4>2. j.todo # {} \/ order = <<>>
        BY <1>12, <2>1, <2>5, <4>1
      <4> QED BY <3>2, <4>2
    <3> QED BY <3>1, <3>2
  <2>6. CASE ~all
    <3>1. order = crtc[c].order /\ crtc[c].power = "on"
      BY <2>1, <2>6
    <3>2. bts[c].config[i] = DueAt(c, i)
      BY <1>1, <2>1, <3>1 DEF VoteInv, TableInv
    <3>3. CASE i < Len(order)
      <4>1. CASE order[i + 1] \in touched
        <5>1. order[i + 1] \in j.todo \ j.removed
          BY <1>12, <2>1, <2>4, <2>6, <3>3, <4>1
        <5> QED BY <2>2, <3>3, <5>1
      <4>2. CASE order[i + 1] \notin touched
        <5>1. shows[order[i + 1]] = content[order[i + 1]]
          BY <1>9, <2>4, <3>3, <4>2
        <5>2. DueAt(c, i)' = DueAt(c, i)
          BY <2>3, <3>1, <3>3, <5>1 DEF DueAt
        <5> QED BY <3>2, <5>2
      <4> QED BY <4>1, <4>2
    <3>4. CASE ~(i < Len(order))
      <4>1. DueAt(c, i)' = DueAt(c, i)
        BY <2>3, <3>1, <3>4 DEF DueAt
      <4> QED BY <3>2, <4>1
    <3> QED BY <3>3, <3>4
  <2> QED BY <2>5, <2>6
<1>15. ~Midway(c) /\ ~Midway(c)' /\ ~Falling(c) /\ ~Falling(c)'
  BY <1>1, <1>8 DEF Midway, Falling
<1>16. VoteInv(c)'
  <2>1. RestInv(c)' /\ MidInv(c)'
    BY <1>1, <1>8, <1>15 DEF VoteInv, RestInv, MidInv
  <2>2. shown'[c] <= bts'[c].vote.total
    BY <1>1 DEF VoteInv
  <2> QED BY <1>13, <1>14, <2>1, <2>2 DEF VoteInv
<1>17. BtsTypes'
  BY <1>1 DEF BtsTypes
<1>18. Bears(c)' = Bears(c) /\ Stands(c)' = Stands(c) /\ Bears(c) \in Nat /\ Stands(c) \in Nat
  BY <1>1, <1>15, BearTypes DEF Bears, Stands
<1>19. Bears(c)' <= Bears(c) /\ Stands(c) <= Stands(c)'
  BY <1>18
<1> QED BY <1>10, <1>15, <1>16, <1>17, <1>19, StepKeeps

(* Clearing a table leaves the rest. *)
LEMMA ClearedBts ==
  ASSUME bts \in [Crtc -> BtsRecord], NEW c \in Crtc,
         bts' = [bts EXCEPT ![c].config = NoWindows] \/ bts' = bts
  PROVE  /\ bts'[c] \in BtsRecord /\ bts'[c].need = bts[c].need /\ bts'[c].prev = bts[c].prev
         /\ bts'[c].vote = bts[c].vote /\ bts'[c].ch = bts[c].ch
         /\ \A d \in Crtc \ {c} : bts'[d] = bts[d]
         /\ bts' \in [Crtc -> BtsRecord]
         /\ IF bts' = bts THEN bts'[c].config = bts[c].config ELSE bts'[c].config = NoWindows
<1>1. CASE bts' = bts
  BY <1>1
<1>2. CASE bts' = [bts EXCEPT ![c].config = NoWindows] /\ bts' # bts
  <2>1. NoWindows \in [Win -> 0 .. 2]
    BY DEF NoWindows
  <2>2. /\ bts'[c] \in BtsRecord /\ bts'[c].need = bts[c].need /\ bts'[c].prev = bts[c].prev
        /\ bts'[c].vote = bts[c].vote /\ bts'[c].ch = bts[c].ch /\ bts'[c].config = NoWindows
        /\ \A d \in Crtc \ {c} : bts'[d] = bts[d]
    BY <1>2, <2>1 DEF BtsRecord
  <2>3. bts' = [bts EXCEPT ![c] = bts'[c]]
    BY <1>2
  <2> QED BY <1>2, <2>2, <2>3
<1> QED BY <1>1, <1>2

(* A DECON that stops fetches nothing, and forgets a table that is to be     *)
(* calculated as a whole.                                                    *)
LEMMA StopKeeps == ASSUME WInv, BInv, NEW c \in Crtc, TailStop(c) PROVE BInv'
<1>1. /\ BtsTypes /\ VoteInv(c) /\ tail[c] = "pre" /\ tail' = tail /\ shown' = [shown EXCEPT ![c] = 0]
      /\ bts' = IF decon[c] = "ON" THEN [bts EXCEPT ![c].config = NoWindows] ELSE bts
      /\ Stop(c)
  BY DEF BInv, TailStop
<1>2. WiringTypes /\ CrtcInv(c)
  BY DEF WInv
<1>3. /\ job[c].phase = "stop" /\ crtc' = crtc /\ content' = content
      /\ \E x : decon' = [decon EXCEPT ![c] = x]
      /\ job' = [job EXCEPT ![c] = IF crtc[c].power = "on" THEN [job[c] EXCEPT !.phase = "start"]
                                   ELSE Job("idle", {}, {}, FALSE, FALSE)]
  BY <1>1 DEF Stop, drm
<1>4. \A d \in Crtc \ {c} : decon'[d] = decon[d] /\ job'[d] = job[d] /\ shown'[d] = shown[d]
  BY <1>1, <1>2, <1>3 DEF WiringTypes, BtsTypes
<1>5. crtc[c].power = "on" => job'[c].phase = "start" /\ job'[c].todo = job[c].todo /\ job'[c].removed = job[c].removed
  BY <1>2, <1>3 DEF WiringTypes, JobRecord
<1>6. shown'[c] = 0 /\ BtsRecord # {} /\ 0 \in 0 .. 2 * NPlane
  BY <1>1, PlanesAssumption DEF BtsTypes
<1>7. bts \in [Crtc -> BtsRecord] /\ bts[c] \in BtsRecord
  BY <1>1 DEF BtsTypes
<1>8. /\ bts'[c] \in BtsRecord /\ bts'[c].need = bts[c].need /\ bts'[c].prev = bts[c].prev /\ bts'[c].vote = bts[c].vote
      /\ \A d \in Crtc \ {c} : bts'[d] = bts[d]
      /\ bts' \in [Crtc -> BtsRecord]
      /\ bts'[c].config = bts[c].config \/ bts'[c].config = NoWindows
  BY <1>1, <1>7, ClearedBts
<1>9. BtsTypes'
  BY <1>1, <1>6, <1>8 DEF BtsTypes
<1>10. \A d \in Crtc \ {c} : Left(d)
  BY <1>1, <1>3, <1>4, <1>8 DEF Left
<1>11. ~Midway(c)' /\ ~Falling(c)'
  BY <1>1, <1>3 DEF Midway, Falling
<1>12. PairInv(c)'
  BY <1>1, <1>3, <1>5, <1>6 DEF PairInv
<1>13. TableInv(c)'
  <2>1. SUFFICES ASSUME crtc[c].power = "on", ~Cleared(c)', NEW i \in Win
                 PROVE  \/ bts'[c].config[i] = DueAt(c, i)
                        \/ IF i < Len(crtc[c].order) THEN crtc[c].order[i + 1] \in PlanesInState(c)'
                           ELSE job[c].todo # {} \/ crtc[c].order = <<>>
    <3>1. crtc[c].power = "on" => job'[c].todo = job[c].todo
      BY <1>5
    <3>2. \A i \in Win : DueAt(c, i)' = DueAt(c, i)
      BY <1>3 DEF DueAt
    <3> QED BY <1>1, <1>3, <3>1, <3>2 DEF TableInv
  <2>2. CASE i < Len(crtc[c].order)
    <3>1. i \in Nat /\ crtc[c].order \in Seq(Plane)
      BY <1>2, PlanesAssumption DEF Win, WiringTypes, StateRecord
    <3>2. i + 1 \in DOMAIN crtc[c].order
      BY <2>2, <3>1
    <3>3. crtc[c].order[i + 1] \in ToSet(crtc[c].order)
      BY <3>2 DEF ToSet
    <3>4. crtc[c].order[i + 1] \in job[c].todo /\ crtc[c].order[i + 1] \notin job[c].removed
      BY <1>2, <1>3, <2>1, <3>3 DEF CrtcInv, PhaseInv, ContentInv
    <3>5. PlanesInState(c)' = job[c].todo \ job[c].removed
      BY <1>3, <1>5, <2>1 DEF PlanesInState
    <3> QED BY <2>2, <3>4, <3>5
  <2>3. CASE ~(i < Len(crtc[c].order))
    <3>1. DueAt(c, i) = 0
      BY <2>3 DEF DueAt
    <3>2. bts'[c].config = bts[c].config /\ ~Cleared(c)
      BY <1>8, <2>1 DEF Cleared, NoWindows
    <3>3. bts[c].config[i] = DueAt(c, i) \/ job[c].todo # {} \/ crtc[c].order = <<>>
      BY <1>1, <2>1, <2>3, <3>2 DEF VoteInv, TableInv
    <3> QED BY <2>3, <3>1, <3>2, <3>3
  <2> QED BY <2>2, <2>3
<1>14. VoteInv(c)'
  <2>1. RestInv(c)' /\ MidInv(c)'
    BY <1>1, <1>8, <1>11 DEF VoteInv, RestInv, MidInv, Midway
  <2>2. 0 <= bts[c].vote.total
    BY <1>1, BearTypes
  <2>3. shown'[c] <= bts'[c].vote.total
    BY <1>6, <1>8, <2>2
  <2> QED BY <1>12, <1>13, <2>1, <2>3 DEF VoteInv
<1>15. Bears(c)' = 0 /\ Bears(c) \in Nat
  BY <1>1, <1>6, <1>11, BearTypes DEF Bears
<1>16. Bears(c)' <= Bears(c)
  BY <1>15
<1> QED BY <1>9, <1>10, <1>11, <1>14, <1>15, <1>16, StepKeeps

(* Enabling the DECON and programming the planes changes no vote: the table  *)
(* is cleared at most.                                                       *)
LEMMA PlanesKeep == ASSUME WInv, BInv, NEW c \in Crtc, TailStart(c) \/ TailPlanes(c) PROVE BInv'
<1>1. /\ BtsTypes /\ VoteInv(c) /\ tail[c] = "tail" /\ tail' = tail /\ shown' = shown
      /\ (Start(c) \/ DisablePlane(c) \/ ColorPlane(c) \/ UpdatePlane(c) \/ Secured(c))
  BY DEF BInv, TailStart, TailPlanes
<1>2. /\ bts'[c].need = bts[c].need /\ bts'[c].prev = bts[c].prev
      /\ bts'[c].vote = bts[c].vote /\ bts'[c].ch = bts[c].ch
      /\ \A d \in Crtc \ {c} : bts'[d] = bts[d]
      /\ bts' \in [Crtc -> BtsRecord]
      /\ bts'[c].config = bts[c].config \/ Cleared(c)'
  <2>1. bts' = [bts EXCEPT ![c].config = NoWindows] \/ bts' = bts
    BY DEF TailStart, TailPlanes
  <2>2. bts \in [Crtc -> BtsRecord]
    BY <1>1 DEF BtsTypes
  <2>3. bts'[c].config = NoWindows => Cleared(c)'
    BY DEF Cleared, NoWindows
  <2> QED BY <2>1, <2>2, <2>3, ClearedBts
<1>3. WiringTypes
  BY DEF WInv
<1>4. /\ crtc' = crtc /\ content' = content
      /\ \A d \in Crtc \ {c} : job'[d] = job[d] /\ decon'[d] = decon[d]
      /\ job'[c].phase \in {"planes", "secure"} /\ (decon'[c] = "ON" \/ decon'[c] = decon[c])
  <2>1. job \in [Crtc -> JobRecord] /\ decon \in [Crtc -> DeconStates]
    BY <1>3 DEF WiringTypes, DeconStates
  <2>2. CASE Start(c)
    BY <2>1, <2>2 DEF Start, drm, JobRecord
  <2>3. CASE DisablePlane(c)
    BY <2>1, <2>3 DEF DisablePlane, drm, JobRecord
  <2>4. CASE ColorPlane(c)
    BY <2>1, <2>4 DEF ColorPlane, drm, JobRecord
  <2>5. CASE UpdatePlane(c)
    <3>1. \/ job' = [job EXCEPT ![c].phase = "secure"]
          \/ job' = [job EXCEPT ![c].todo = job[c].todo \ {Min(job[c].todo)}]
      BY <2>5 DEF UpdatePlane
    <3>2. job[c].phase = "planes" /\ crtc' = crtc /\ content' = content /\ decon' = decon
      BY <2>5 DEF UpdatePlane, drm
    <3> QED BY <2>1, <3>1, <3>2 DEF JobRecord
  <2>6. CASE Secured(c)
    BY <2>1, <2>6 DEF Secured, drm, JobRecord
  <2> QED BY <1>1, <2>2, <2>3, <2>4, <2>5, <2>6
<1>5. \A d \in Crtc \ {c} : Left(d)
  BY <1>1, <1>2, <1>4 DEF Left
<1>6. (Midway(c)' <=> Midway(c)) /\ (Falling(c)' <=> Falling(c))
  BY <1>1, <1>2, <1>4 DEF Midway, Falling
<1>7. Due(c)' = Due(c) /\ \A i \in Win : DueAt(c, i)' = DueAt(c, i)
  BY <1>4, DueKept
<1>8. VoteInv(c)'
  <2>1. PairInv(c)'
    BY <1>1, <1>4 DEF VoteInv, PairInv
  <2>2. TableInv(c)'
    <3>1. crtc[c].power = "on" => (\A i \in Win : bts[c].config[i] = DueAt(c, i)) \/ Cleared(c)
      BY <1>1 DEF VoteInv, TableInv
    <3>2. bts'[c].config = bts[c].config => (Cleared(c) => Cleared(c)')
      BY DEF Cleared, NoWindows
    <3> QED BY <1>1, <1>2, <1>4, <1>7, <3>1, <3>2 DEF TableInv
  <2>3. Sum(Due(c), Win)' = Sum(Due(c), Win)
    BY <1>7
  <2>4. RestInv(c)'
    BY <1>1, <1>6 DEF VoteInv, PairInv, RestInv, Midway
  <2>5. MidInv(c)'
    BY <1>1, <1>2, <1>6, <2>3 DEF VoteInv, MidInv
  <2>6. shown'[c] <= bts'[c].vote.total
    BY <1>1, <1>2 DEF VoteInv
  <2> QED BY <2>1, <2>2, <2>4, <2>5, <2>6 DEF VoteInv
<1>9. BtsTypes'
  BY <1>1, <1>2 DEF BtsTypes
<1>10. Bears(c)' = Bears(c) /\ Stands(c)' = Stands(c) /\ Bears(c) \in Nat /\ Stands(c) \in Nat
  BY <1>1, <1>2, <1>6, BearTypes DEF Bears, Stands
<1>11. Bears(c)' <= Bears(c) /\ Stands(c) <= Stands(c)'
  BY <1>10
<1>12. Falling(c)' /\ bts'[c].need.total # 0 =>
         bts'[c].need.total + Sum(bears', Crtc \ {c}) <= bts'[c].need.peak
  <2>1. \A d \in Crtc : Bears(d)' = Bears(d)
    BY <1>5, <1>10, LeftKeeps DEF BInv
  <2>2. bears' = bears
    BY <2>1 DEF bears
  <2>3. Falling(c) /\ bts[c].need.total # 0 =>
          bts[c].need.total + Sum(bears, Crtc \ {c}) <= bts[c].need.peak
    BY DEF BInv, FallInv
  <2> QED BY <1>1, <1>2, <1>6, <2>2, <2>3
<1> QED BY <1>5, <1>8, <1>9, <1>11, <1>12, StepKeeps

(* What the windows of c fetch. *)
Fetch(c) ==
  [w \in Win |-> IF window[c][w][1] = "dpp" THEN Load(content[window[c][w][2]]) ELSE 0]

(* With every plane done, that is no more than what the state fetches: each  *)
(* window shows the plane of its zpos.                                       *)
LEMMA FetchBelowDue ==
  ASSUME WInv, NEW c \in Crtc, job[c].phase = "planes", job[c].todo = {}
  PROVE  Sum(Fetch(c), Win) \in Nat /\ Sum(Fetch(c), Win) <= Sum(Due(c), Win)
<1>1. WiringTypes /\ CrtcInv(c)
  BY DEF WInv
<1>2. decon[c] = "ON" /\ crtc[c].power = "on"
  BY <1>1 DEF CrtcInv, PhaseInv, WiringTypes, StateRecord
<1>3. /\ \A i \in Entries(c) : Wired(c, i)
      /\ \A w \in Win : Spare(c, w) => Stale(c, w)
  BY <1>1, <1>2 DEF CrtcInv, WindowInv
<1> DEFINE n == Len(crtc[c].order)
           due == Due(c)
           fetch == Fetch(c)
           shows(w, i) == i \in Entries(c) /\ At(c, i) = w /\ window[c][w] = <<"dpp", crtc[c].order[i]>>
           at(w) == CHOOSE i \in Entries(c) : shows(w, i)
           h == [w \in Win |-> at(w) - 1]
<1>4. n \in Nat /\ n <= NWin /\ Entries(c) = 1 .. n /\ NWin \in Nat
  BY <1>2, OrderFits, PlanesAssumption DEF Entries
<1>5. Numbers(due, Win) /\ IsFiniteSet(Win)
  BY <1>2, DueSums DEF Numbers
<1>6. \A w \in Win : fetch[w] = IF window[c][w][1] = "dpp" THEN Load(content[window[c][w][2]]) ELSE 0
  BY DEF Fetch
<1>7. \A w \in Win : fetch[w] \in Nat
  BY <1>6, LoadBounds
<1>8. Numbers(fetch, Win)
  <2> HIDE DEF fetch
  <2> QED BY <1>5, <1>7 DEF Numbers
<1>9. \A i \in 1 .. n : i - 1 \in Win /\ due[i - 1] = Load(content[crtc[c].order[i]])
  <2>1. SUFFICES ASSUME NEW i \in 1 .. n PROVE i - 1 \in Win /\ due[i - 1] = Load(content[crtc[c].order[i]])
    OBVIOUS
  <2>2. i - 1 \in Win /\ i - 1 < n /\ (i - 1) + 1 = i
    <3> HIDE DEF n
    <3> QED BY <1>4, <2>1 DEF Win
  <2>3. due[i - 1] = DueAt(c, i - 1)
    BY <2>2 DEF Due
  <2> QED BY <2>2, <2>3 DEF DueAt
<1>10. ASSUME NEW w \in Win, fetch[w] > 0 PROVE shows(w, at(w))
  <2>1. window[c][w][1] = "dpp"
    BY <1>6, <1>10
  <2>2. ~Stale(c, w)
    <3>1. window[c][w] # Dark /\ window[c][w] # <<"color", 0>>
      BY <2>1 DEF Dark
    <3> QED BY <3>1 DEF Stale
  <2>3. PICK i \in Entries(c) : Visible(c, i) /\ At(c, i) = w
    BY <1>3, <2>2 DEF Spare
  <2>4. window[c][w] = <<IF content[crtc[c].order[i]] = "color" THEN "color" ELSE "dpp", crtc[c].order[i]>>
    BY <1>3, <2>3 DEF Wired, Visible
  <2>5. shows(w, i)
    BY <2>1, <2>3, <2>4
  <2> QED BY <2>5
<1> HIDE DEF fetch, due, at
<1>11. \A w \in Win : fetch[w] > 0 => h[w] \in Win /\ fetch[w] <= due[h[w]]
  <2>1. SUFFICES ASSUME NEW w \in Win, fetch[w] > 0 PROVE h[w] \in Win /\ fetch[w] <= due[h[w]]
    OBVIOUS
  <2>2. at(w) \in 1 .. n /\ window[c][w] = <<"dpp", crtc[c].order[at(w)]>> /\ h[w] = at(w) - 1
    BY <1>4, <1>10, <2>1
  <2>3. fetch[w] = Load(content[crtc[c].order[at(w)]])
    BY <1>6, <2>2
  <2>4. h[w] \in Win /\ fetch[w] = due[h[w]] /\ fetch[w] \in Nat
    BY <1>7, <1>9, <2>2, <2>3
  <2> QED BY <2>4
<1>12. \A w, v \in Win : fetch[w] > 0 /\ fetch[v] > 0 /\ h[w] = h[v] => w = v
  <2>1. SUFFICES ASSUME NEW w \in Win, NEW v \in Win, fetch[w] > 0, fetch[v] > 0, h[w] = h[v] PROVE w = v
    OBVIOUS
  <2>2. at(w) \in 1 .. n /\ at(v) \in 1 .. n /\ At(c, at(w)) = w /\ At(c, at(v)) = v /\ at(w) - 1 = at(v) - 1
    BY <1>4, <1>10, <2>1
  <2>3. at(w) = at(v)
    <3> HIDE DEF n
    <3> QED BY <1>4, <2>2
  <2> QED BY <2>2, <2>3
<1> HIDE DEF h
<1>13. Sum(fetch, Win) <= Sum(due, Win)
  BY <1>5, <1>8, <1>11, <1>12, SumBelow
<1>14. Sum(fetch, Win) \in Nat
  BY <1>8, SumLaws
<1> QED BY <1>13, <1>14 DEF fetch, due

(* The flip of c: what it fetches is what it needs. *)
LEMMA FlipKeeps == ASSUME WInv, BInv, NEW c \in Crtc, TailFlip(c) PROVE BInv'
<1>1. /\ BtsTypes /\ VoteInv(c) /\ tail[c] = "tail" /\ tail' = [tail EXCEPT ![c] = "post"] /\ bts' = bts
      /\ Flush(c) /\ shown' = [shown EXCEPT ![c] = FoldFunction(+, 0, Fetch(c))]
  BY DEF BInv, TailFlip, Fetch
<1>2. WiringTypes
  BY DEF WInv
<1>3. /\ crtc' = crtc /\ content' = content /\ decon' = decon
      /\ job[c].phase = "planes" /\ job[c].todo = {}
      /\ job' = [job EXCEPT ![c] = Job("idle", {}, {}, FALSE, job[c].skip)]
  BY <1>1 DEF Flush, drm
<1>4. FoldFunction(+, 0, Fetch(c)) = Sum(Fetch(c), Win)
  BY DEF FoldFunction, Sum, Fetch
<1>5. shown'[c] = Sum(Fetch(c), Win) /\ tail'[c] = "post" /\ job'[c].phase = "idle"
      /\ \A d \in Crtc \ {c} : shown'[d] = shown[d] /\ tail'[d] = tail[d] /\ job'[d] = job[d]
  BY <1>1, <1>2, <1>3, <1>4 DEF BtsTypes, WiringTypes, Job
<1>6. Midway(c) /\ Midway(c)' /\ crtc[c].power = "on" /\ decon[c] = "ON" /\ ~Falling(c)'
  BY <1>1, <1>3, <1>5 DEF VoteInv, PairInv, Midway, Falling, WInv, CrtcInv, PhaseInv
<1> DEFINE need == bts[c].need
<1>7. need.total = Sum(Due(c), Win) /\ need.total \in 0 .. 2 * NPlane /\ need.total \in Nat /\ need.peak \in Nat
  BY <1>1, <1>6, BearTypes, DueSums DEF VoteInv, MidInv
<1>8. shown'[c] \in Nat /\ shown'[c] <= need.total
  BY <1>3, <1>5, <1>7, FetchBelowDue
<1>9. BtsTypes'
  <2>1. shown'[c] \in 0 .. 2 * NPlane
    <3> HIDE DEF need
    <3> QED BY <1>7, <1>8, PlanesAssumption
  <2> QED BY <1>1, <1>4, <1>5, <2>1 DEF BtsTypes
<1>10. \A d \in Crtc \ {c} : Left(d)
  BY <1>1, <1>3, <1>5 DEF Left
<1>11. Due(c)' = Due(c) /\ \A i \in Win : DueAt(c, i)' = DueAt(c, i)
  BY <1>3, DueKept
<1>12. bts[c].need.total <= bts[c].vote.total
  <2>1. bts[c].need \in VoteRecord /\ bts[c].prev \in VoteRecord /\ bts[c].vote \in VoteRecord
    BY <1>1, BearTypes
  <2>2. bts[c].vote.total \in Nat /\ bts[c].prev.total \in Nat
    BY <2>1 DEF VoteRecord
  <2>3. \/ bts[c].vote.total = bts[c].need.total
        \/ bts[c].vote.total = bts[c].prev.total /\ bts[c].need.total <= bts[c].prev.total
    BY <1>1, <1>6 DEF VoteInv, MidInv
  <2> QED BY <1>7, <2>2, <2>3
<1>13. VoteInv(c)'
  <2>1. PairInv(c)'
    BY <1>3, <1>5, <1>6 DEF PairInv
  <2>2. TableInv(c)'
    <3>1. (\A i \in Win : bts[c].config[i] = DueAt(c, i)) \/ Cleared(c)
      BY <1>1, <1>6 DEF VoteInv, TableInv
    <3> QED BY <1>1, <1>11, <3>1 DEF TableInv, Cleared, NoWindows
  <2>3. RestInv(c)'
    BY <1>5, <1>6 DEF RestInv
  <2>4. MidInv(c)'
    <3>1. Sum(Due(c), Win)' = Sum(Due(c), Win)
      BY <1>11
    <3> QED BY <1>1, <1>5, <1>6, <1>8, <3>1 DEF VoteInv, MidInv
  <2>5. shown'[c] <= bts'[c].vote.total
    <3>1. bts[c].vote.total \in Nat /\ need.total \in Nat /\ need.total <= bts[c].vote.total
      BY <1>1, <1>12, BearTypes
    <3> HIDE DEF need
    <3>2. shown'[c] <= bts[c].vote.total
      BY <1>8, <3>1
    <3> QED BY <1>1, <3>2
  <2> QED BY <2>1, <2>2, <2>3, <2>4, <2>5 DEF VoteInv
<1>14. Bears(c)' = need.total /\ Stands(c)' = need.peak
  <2>1. Bears(c)' = need.total
    <3>1. Bears(c)' = IF shown'[c] < need.total THEN need.total ELSE shown'[c]
      <4>1. bts'[c].need = need /\ Midway(c)'
        BY <1>1, <1>6
      <4> HIDE DEF need
      <4> QED BY <4>1 DEF Bears
    <3>2. need.total \in Nat
      BY <1>7
    <3> HIDE DEF need
    <3> QED BY <1>8, <3>1, <3>2
  <2>2. Stands(c)' = need.peak
    BY <1>1, <1>6 DEF Stands
  <2> QED BY <2>1, <2>2
<1>15. need.total <= Bears(c) /\ Bears(c) \in Nat
  <2>1. Bears(c) = IF shown[c] < need.total THEN need.total ELSE shown[c]
    BY <1>6 DEF Bears
  <2>2. shown[c] \in Nat /\ need.total \in Nat
    BY <1>1, BearTypes
  <2> HIDE DEF need
  <2> QED BY <2>1, <2>2
<1>16. Bears(c)' <= Bears(c)
  BY <1>14, <1>15
<1>17. \A d \in Crtc : bears'[d] = Bears(d)' /\ Bears(d)' \in Nat
  BY <1>9, AllBearTypesNext DEF bears
<1>18. Numbers(bears', Crtc) /\ Sum(bears', Crtc) = need.total + Sum(bears', Crtc \ {c})
  <2>1. Numbers(bears', Crtc)
    BY <1>17, BandwidthAssumption DEF Numbers
  <2> HIDE DEF need
  <2> QED BY <1>14, <1>17, <2>1, SumLaws
<1>19. \/ Bears(c)' <= Bears(c) /\ Stands(c) <= Stands(c)'
       \/ Bears(c)' = 0
       \/ Sum(bears', Crtc) <= Stands(c)'
  <2>1. CASE ~Falling(c)
    <3>1. Stands(c) = need.peak
      BY <1>6, <2>1 DEF Stands
    <3> QED BY <1>7, <1>14, <1>16, <3>1
  <2>2. CASE need.total = 0
    BY <1>14, <2>2
  <2>3. CASE Falling(c) /\ need.total # 0
    <3>1. need.total + Sum(bears, Crtc \ {c}) <= need.peak
      BY <2>3 DEF BInv, FallInv
    <3>2. \A d \in Crtc \ {c} : bears'[d] = bears[d]
      <4>1. \A d \in Crtc \ {c} : Bears(d)' = Bears(d)
        BY <1>10, LeftKeeps DEF BInv
      <4>2. \A d \in Crtc : bears[d] = Bears(d)
        BY DEF bears
      <4> QED BY <1>17, <4>1, <4>2
    <3>3. Numbers(bears, Crtc \ {c})
      <4>1. \A d \in Crtc : bears[d] \in Nat
        BY <1>1, AllBearTypes DEF bears
      <4> QED BY <4>1, BandwidthAssumption, FS_Subset DEF Numbers
    <3>4. Sum(bears', Crtc \ {c}) = Sum(bears, Crtc \ {c})
      BY <3>2, <3>3, SumEqual
    <3>5. Sum(bears', Crtc) <= need.peak
      BY <1>18, <3>1, <3>4
    <3> QED BY <1>14, <3>5
  <2> QED BY <2>1, <2>2, <2>3
<1> HIDE DEF need
<1> QED BY <1>6, <1>9, <1>10, <1>13, <1>16, <1>19, StepKeeps

-----------------------------------------------------------------------------
(* The result *)

(* Nothing is fetched or voted for at the start. *)
LEMMA InitVotes == BtsInit => BInv
<1> SUFFICES ASSUME BtsInit PROVE BInv
  OBVIOUS
<1> DEFINE none == [w \in Win |-> 0]
           start == [config |-> none, ch |-> 0, need |-> Nothing, prev |-> Nothing, vote |-> Nothing]
<1>1. /\ tail = [c \in Crtc |-> "idle"] /\ shown = [c \in Crtc |-> 0] /\ bts = [c \in Crtc |-> start] /\ Init
  BY DEF BtsInit, NoWindows
<1>2. NPlane \in Nat /\ 0 \in 0 .. 2 * NPlane
  BY PlanesAssumption
<1>3. Nothing \in VoteRecord /\ Nothing.total = 0 /\ Nothing.peak = 0 /\ Nothing.freq = 0
  BY DEF Nothing, VoteRecord
<1>4. start \in BtsRecord /\ start.prev = Nothing /\ start.vote = Nothing
  <2>1. none \in [Win -> 0 .. 2]
    OBVIOUS
  <2> HIDE DEF none
  <2> QED BY <1>2, <1>3, <2>1 DEF BtsRecord
<1> HIDE DEF start
<1>5. BtsTypes
  BY <1>1, <1>2, <1>4 DEF BtsTypes
<1>6. ASSUME NEW c \in Crtc
      PROVE  /\ tail[c] = "idle" /\ shown[c] = 0 /\ bts[c].prev = Nothing /\ bts[c].vote = Nothing
             /\ crtc[c].power = "off" /\ decon[c] = "INIT" /\ job[c].phase = "idle"
  <2>1. tail[c] = "idle" /\ shown[c] = 0 /\ bts[c].prev = Nothing /\ bts[c].vote = Nothing
    BY <1>1, <1>4
  <2>2. crtc[c].power = "off" /\ decon[c] = "INIT" /\ job[c].phase = "idle"
    BY <1>1 DEF Init, Job
  <2> QED BY <2>1, <2>2
<1>7. ASSUME NEW c \in Crtc PROVE VoteInv(c)
  BY <1>3, <1>6 DEF VoteInv, PairInv, TableInv, RestInv, MidInv, Midway
<1>8. \A c \in Crtc : ~Midway(c) /\ ~Falling(c) /\ Bears(c) = 0 /\ Stands(c) = 0
  BY <1>3, <1>6 DEF Midway, Falling, Bears, Stands
<1>9. FallInv
  BY <1>8 DEF FallInv
<1>10. ASSUME NEW S \in SUBSET Crtc, S # {} PROVE \E c \in S : Sum(bears, S) <= stands[c]
  <2>1. \A c \in Crtc : bears[c] = 0 /\ stands[c] = 0
    BY <1>8 DEF bears, stands
  <2>2. Numbers(bears, S)
    BY <2>1, BandwidthAssumption, FS_Subset DEF Numbers
  <2>3. \A c \in S : bears[c] <= 0
    BY <2>1
  <2>4. Cardinality(S) \in Nat /\ Sum(bears, S) <= 0 * Cardinality(S)
    BY <2>2, <2>3, SumBounded
  <2>5. Sum(bears, S) <= 0
    BY <2>4
  <2> QED BY <1>10, <2>1, <2>5
<1>11. PeakInv
  BY <1>10 DEF PeakInv, PeakHolds
<1> QED BY <1>5, <1>7, <1>9, <1>11 DEF BInv

(* Every step of every CRTC keeps the invariant. *)
LEMMA NextVotes ==
  ASSUME WInv, BInv, "color_reinit" \notin Races, "kept_color" \notin Races, BtsRaces = {}, [BtsNext]_btsVars
  PROVE  WInv' /\ BInv'
<1>1. [Next]_vars
  BY DEF BtsNext, btsVars, TailCommit, TailStop, PreUpdate, TailStart, TailPlanes, TailFlip, PostUpdate, Next
<1>2. WInv'
  BY <1>1, NextWired
<1>3. ASSUME NEW c \in Crtc, PreUpdate(c) PROVE BInv'
  <2>1. CASE crtc[c].power = "on"
    BY <1>3, <2>1, VoteUpKeeps
  <2>2. CASE crtc[c].power # "on"
    BY <1>3, <2>2, TableOnlyKeeps
  <2> QED BY <2>1, <2>2
<1>4. ASSUME NEW c \in Crtc, PostUpdate(c) PROVE BInv'
  <2>1. CASE crtc[c].power = "on"
    BY <1>4, <2>1, VoteDownKeeps
  <2>2. CASE crtc[c].power # "on"
    BY <1>4, <2>2, ReleaseKeeps
  <2> QED BY <2>1, <2>2
<1>5. ASSUME NEW c \in Crtc, TailCommit(c) \/ TailStop(c) PROVE BInv'
  BY <1>5, CommitKeeps, StopKeeps
<1>6. ASSUME NEW c \in Crtc, TailStart(c) \/ TailPlanes(c) \/ TailFlip(c) PROVE BInv'
  BY <1>6, PlanesKeep, FlipKeeps
<1>7. ASSUME UNCHANGED btsVars PROVE BInv'
  <2>1. /\ tail' = tail /\ bts' = bts /\ shown' = shown
        /\ crtc' = crtc /\ content' = content /\ job' = job /\ decon' = decon
    BY <1>7 DEF btsVars, vars, drm
  <2>2. BtsTypes'
    BY <2>1 DEF BInv, BtsTypes
  <2>3. \A d \in Crtc : Left(d)
    BY <2>1 DEF Left
  <2>4. \A d \in Crtc : VoteInv(d)' /\ Bears(d)' = Bears(d) /\ Stands(d)' = Stands(d) /\ (Falling(d)' <=> Falling(d))
    BY <2>3, LeftKeeps DEF BInv
  <2>5. bears' = bears /\ stands' = stands
    BY <2>4 DEF bears, stands
  <2>6. PeakInv'
    BY <2>5 DEF BInv, PeakInv, PeakHolds
  <2>7. FallInv'
    BY <2>1, <2>4, <2>5 DEF BInv, FallInv
  <2> QED BY <2>2, <2>4, <2>6, <2>7 DEF BInv
<1>8. CASE BtsNext
  <2>1. PICK c \in Crtc : \/ TailCommit(c) \/ TailStop(c) \/ PreUpdate(c) \/ TailStart(c)
                          \/ TailPlanes(c) \/ TailFlip(c) \/ PostUpdate(c)
    BY <1>8 DEF BtsNext
  <2>2. BInv'
    BY <1>3, <1>4, <1>5, <1>6, <2>1
  <2> QED BY <1>2, <2>2
<1>9. CASE UNCHANGED btsVars
  BY <1>2, <1>7, <1>9
<1> QED BY <1>8, <1>9

(* The highest of the votes. *)
LEMMA MaxOfVotes ==
  ASSUME NEW f \in [Crtc -> Nat], NEW n \in Nat, NEW c \in Crtc, n <= f[c]
  PROVE  n <= Max({f[d] : d \in Crtc})
<1> DEFINE S == {f[d] : d \in Crtc}
<1>1. S \in SUBSET Nat /\ f[c] \in S
  OBVIOUS
<1>2. IsFiniteSet(S)
  <2>1. f \in Surjection(Crtc, S)
    BY DEF Surjection
  <2> QED BY <2>1, BandwidthAssumption, FS_Surjection
<1> HIDE DEF S
<1>3. Max(S) \in S /\ f[c] <= Max(S)
  BY <1>1, <1>2, HighestOf
<1>4. Max(S) \in Nat /\ f[c] \in Nat
  BY <1>1, <1>3
<1>5. n <= Max(S)
  BY <1>3, <1>4
<1> QED BY <1>5 DEF S

(* At any time and at rest the invariant says what the property asks for. *)
LEMMA VotesSound == WInv /\ BInv => VotesCoverDisplay
<1> SUFFICES ASSUME WInv, BInv PROVE VotesCoverDisplay
  OBVIOUS
<1>1. BtsTypes
  BY DEF BInv
<1>2. BtsTypeOK
  <2>1. ASSUME NEW c \in Crtc
        PROVE  /\ bts[c].config \in [Win -> 0 .. 2] /\ bts[c].ch \in 0 .. 2 * NPlane
               /\ \A v \in {"need", "prev", "vote"} :
                    DOMAIN bts[c][v] = DOMAIN Nothing /\ \A x \in DOMAIN Nothing : bts[c][v][x] \in Nat
    <3>1. bts[c] \in BtsRecord
      BY <1>1 DEF BtsTypes
    <3>2. bts[c].config \in [Win -> 0 .. 2] /\ bts[c].ch \in 0 .. 2 * NPlane
          /\ \A v \in {"need", "prev", "vote"} : bts[c][v] \in VoteRecord
      BY <3>1 DEF BtsRecord
    <3>3. DOMAIN Nothing = {"total", "peak", "freq"}
      BY DEF Nothing
    <3>4. \A r \in VoteRecord : DOMAIN r = DOMAIN Nothing /\ \A x \in DOMAIN Nothing : r[x] \in Nat
      BY <3>3 DEF VoteRecord
    <3> QED BY <3>2, <3>4
  <2> QED BY <1>1, <2>1 DEF BtsTypeOK, BtsTypes
<1>3. \A c \in Crtc : shown[c] <= bts[c].vote.total
  BY DEF BInv, VoteInv
<1>4. \A c \in Crtc : Bears(c) \in Nat /\ Stands(c) \in Nat /\ bears[c] = Bears(c) /\ stands[c] = Stands(c)
  BY <1>1, AllBearTypes DEF bears, stands
<1> DEFINE fetched == FoldFunction(+, 0, shown)
<1>5. fetched \in Nat /\ fetched <= Sum(bears, Crtc) /\ Sum(bears, Crtc) \in Nat
  <2>1. fetched = Sum(shown, Crtc)
    BY <1>1 DEF FoldFunction, Sum, BtsTypes
  <2>2. Numbers(bears, Crtc)
    BY <1>4, BandwidthAssumption DEF Numbers
  <2>3. \A c \in Crtc : shown[c] \in Nat /\ shown[c] <= bears[c]
    <3>1. SUFFICES ASSUME NEW c \in Crtc PROVE shown[c] \in Nat /\ shown[c] <= bears[c]
      OBVIOUS
    <3>2. shown[c] \in Nat /\ bts[c].need.total \in Nat /\ bears[c] = Bears(c)
      BY <1>1, <1>4, BearTypes
    <3> QED BY <3>2 DEF Bears
  <2>4. Numbers(shown, Crtc) /\ Sum(shown, Crtc) <= Sum(bears, Crtc)
    BY <2>2, <2>3, SumMonotone
  <2> QED BY <2>1, <2>2, <2>4, SumLaws
<1> HIDE DEF fetched
<1>6. PICK c \in Crtc : Sum(bears, Crtc) <= Stands(c)
  <2>1. Crtc \in SUBSET Crtc /\ Crtc # {}
    BY BandwidthAssumption
  <2>2. \E c \in Crtc : Sum(bears, Crtc) <= stands[c]
    BY <2>1 DEF BInv, PeakInv, PeakHolds
  <2> QED BY <1>4, <2>2
<1>7. fetched <= bts[c].vote.peak /\ fetched <= bts[c].vote.freq
  <2> DEFINE need == bts[c].need
             prev == bts[c].prev
             vote == bts[c].vote
  <2>1. /\ need.total \in Nat /\ need.peak \in Nat /\ need.freq \in Nat
        /\ prev.total \in Nat /\ prev.peak \in Nat /\ prev.freq \in Nat
        /\ vote.total \in Nat /\ vote.peak \in Nat /\ vote.freq \in Nat
    BY <1>1, BearTypes DEF VoteRecord
  <2>2. CASE Midway(c)
    <3>1. /\ need.peak <= need.freq /\ prev.peak <= prev.freq
          /\ \/ vote.total = need.total /\ vote.peak = need.peak /\ prev.total <= need.total /\ prev.peak <= need.peak
             \/ vote.total = prev.total /\ vote.peak = prev.peak /\ need.total <= prev.total /\ need.peak <= prev.peak
          /\ \/ vote.freq = need.freq /\ prev.freq <= need.freq
             \/ vote.freq = prev.freq /\ need.freq <= prev.freq
      BY <2>2 DEF BInv, VoteInv, MidInv
    <3>2. Stands(c) = need.peak \/ Stands(c) = vote.peak
      BY DEF Stands
    <3> HIDE DEF need, prev, vote
    <3>3. Stands(c) <= vote.peak /\ vote.peak <= vote.freq
      BY <2>1, <3>1, <3>2
    <3>4. fetched <= vote.peak /\ fetched <= vote.freq
      BY <1>4, <1>5, <1>6, <2>1, <3>3
    <3> QED BY <3>4 DEF vote
  <2>3. CASE ~Midway(c)
    <3>1. Stands(c) = vote.peak
      BY <2>3 DEF Stands
    <3>2. vote.peak <= vote.freq
      BY <2>3 DEF BInv, VoteInv, RestInv
    <3> HIDE DEF need, prev, vote
    <3>3. fetched <= vote.peak /\ fetched <= vote.freq
      BY <1>4, <1>5, <1>6, <2>1, <3>1, <3>2
    <3> QED BY <3>3 DEF vote
  <2> QED BY <2>2, <2>3
<1>8. \A x \in {"peak", "freq"} : fetched <= Max({bts[d].vote[x] : d \in Crtc})
  <2>1. SUFFICES ASSUME NEW x \in {"peak", "freq"} PROVE fetched <= Max({bts[d].vote[x] : d \in Crtc})
    OBVIOUS
  <2> DEFINE f == [d \in Crtc |-> bts[d].vote[x]]
  <2>2. f \in [Crtc -> Nat]
    <3>1. \A d \in Crtc : bts[d].vote[x] \in Nat
      BY <1>1, BearTypes DEF VoteRecord
    <3> QED BY <3>1
  <2>3. fetched <= f[c]
    BY <1>7
  <2>4. {f[d] : d \in Crtc} = {bts[d].vote[x] : d \in Crtc}
    OBVIOUS
  <2> HIDE DEF f
  <2>5. fetched <= Max({f[d] : d \in Crtc})
    BY <1>5, <2>2, <2>3, MaxOfVotes
  <2> QED BY <2>4, <2>5
<1>9. ASSUME NEW d \in Crtc, tail[d] = "idle"
      PROVE  IF decon[d] = "ON"
             THEN bts[d].vote.total = Total([p \in ToSet(crtc[d].order) |-> Load(content[p])])
             ELSE bts[d].vote = Nothing
  <2>1. CASE decon[d] = "ON"
    <3>1. crtc[d].power # "off"
      BY <1>9, <2>1 DEF BInv, VoteInv, PairInv, WInv, CrtcInv, PhaseInv
    <3>2. bts[d].vote.total = Sum(Due(d), Win)
      BY <1>9, <2>1 DEF BInv, VoteInv, RestInv
    <3>3. Sum(Due(d), Win) = Sum(Loads(d), ToSet(crtc[d].order))
      BY <3>1, DueSums
    <3>4. Total([p \in ToSet(crtc[d].order) |-> Load(content[p])]) = Sum(Loads(d), ToSet(crtc[d].order))
      BY TotalIs DEF Loads
    <3> QED BY <2>1, <3>2, <3>3, <3>4
  <2>2. CASE decon[d] # "ON"
    BY <1>9, <2>2 DEF BInv, VoteInv, RestInv
  <2> QED BY <2>1, <2>2
<1> QED BY <1>2, <1>3, <1>8, <1>9 DEF VotesCoverDisplay, fetched

(* However many CRTCs there are, with however many planes and windows, and   *)
(* however their tails interleave: no DECON ever fetches more than it has    *)
(* voted for, the highest peak and the highest clock voted for bear what all *)
(* of them fetch together, and no vote outlives its commit.  The hypotheses  *)
(* are what the driver does not see to: those of the wiring, and that none   *)
(* of the four races of the votes happens.                                   *)
THEOREM VotesKept ==
  "color_reinit" \notin Races /\ "kept_color" \notin Races /\ BtsRaces = {} /\ BtsSpec => []VotesCoverDisplay
<1> DEFINE Quiet == "color_reinit" \notin Races /\ "kept_color" \notin Races /\ BtsRaces = {}
<1>1. CASE Quiet
  <2>1. BtsInit => WInv /\ BInv
    BY InitWired, InitVotes DEF BtsInit
  <2>2. WInv /\ BInv /\ [BtsNext]_btsVars => WInv' /\ BInv'
    BY <1>1, NextVotes
  <2> QED BY <2>1, <2>2, VotesSound, PTL DEF BtsSpec
<1>2. CASE ~Quiet
  BY <1>2
<1> QED BY <1>1, <1>2
=============================================================================
