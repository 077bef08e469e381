------------------------- MODULE DisplayPortProofs -------------------------
(***************************************************************************)
(* Hotplug of DisplayPort, for any number of HPD events: power, link,      *)
(* trusted UI and output are each on only over the one below, and audio    *)
(* lives inside the connection.                                            *)
(***************************************************************************)
EXTENDS DisplayPort, TLAPS

-----------------------------------------------------------------------------
(* Type correctness *)

(* A work is pending at most once, so at most as many as there are works. *)
Distinct == \A i, j \in DOMAIN queue : queue[i] = queue[j] => i = j

LEMMA ShortWhenDistinct ==
  ASSUME NEW q \in Seq(Works), \A i, j \in DOMAIN q : q[i] = q[j] => i = j
  PROVE  Len(q) <= 3
<1> SUFFICES ASSUME Len(q) > 3 PROVE FALSE
  OBVIOUS
<1>1. 1 \in DOMAIN q /\ 2 \in DOMAIN q /\ 3 \in DOMAIN q /\ 4 \in DOMAIN q
  OBVIOUS
<1>2. q[1] \in Works /\ q[2] \in Works /\ q[3] \in Works /\ q[4] \in Works
  BY <1>1
<1>3. /\ q[1] # q[2] /\ q[1] # q[3] /\ q[1] # q[4]
      /\ q[2] # q[3] /\ q[2] # q[4] /\ q[3] # q[4]
  BY <1>1
<1> QED BY <1>2, <1>3 DEF Works

(* queue_work keeps it so... *)
LEMMA QueueWorkKeeps ==
  ASSUME queue \in Seq(Works), Distinct, NEW w \in Works, queue' = QueueWork(w)
  PROVE  queue' \in Seq(Works) /\ Distinct'
<1>1. CASE \E i \in DOMAIN queue : queue[i] = w
  BY <1>1 DEF QueueWork, Distinct
<1>2. CASE ~\E i \in DOMAIN queue : queue[i] = w
  <2>1. queue' = Append(queue, w)
    BY <1>2 DEF QueueWork
  <2>2. queue' \in Seq(Works) /\ Len(queue') = Len(queue) + 1 /\ queue'[Len(queue) + 1] = w
    BY <2>1
  <2>3. \A i \in DOMAIN queue : queue'[i] = queue[i]
    BY <2>1
  <2>4. DOMAIN queue' = 1 .. Len(queue) + 1 /\ DOMAIN queue = 1 .. Len(queue) /\ Len(queue) \in Nat
    BY <2>2
  <2>5. ASSUME NEW i \in DOMAIN queue', NEW j \in DOMAIN queue', queue'[i] = queue'[j] PROVE i = j
    <3>1. CASE i \in DOMAIN queue /\ j \in DOMAIN queue
      BY <3>1, <2>3, <2>5 DEF Distinct
    <3>2. CASE i \notin DOMAIN queue \/ j \notin DOMAIN queue
      BY <3>2, <2>2, <2>3, <2>4, <2>5, <1>2
    <3> QED BY <3>1, <3>2
  <2> QED BY <2>2, <2>5 DEF Distinct
<1> QED BY <1>1, <1>2

(* ...and so does taking the first work. *)
LEMMA TakeKeeps ==
  ASSUME queue \in Seq(Works), Distinct, NEW w, Take(w)
  PROVE  queue' \in Seq(Works) /\ Distinct'
<1>1. queue # <<>> /\ queue' = Tail(queue)
  BY DEF Take
<1>2. queue' \in Seq(Works) /\ Len(queue') = Len(queue) - 1 /\ Len(queue) \in Nat
  BY <1>1
<1>3. \A i \in 1 .. Len(queue) - 1 : queue'[i] = queue[i + 1]
  BY <1>1
<1>4. ASSUME NEW i \in DOMAIN queue', NEW j \in DOMAIN queue', queue'[i] = queue'[j] PROVE i = j
  <2>1. i \in 1 .. Len(queue) - 1 /\ j \in 1 .. Len(queue) - 1
    BY <1>2
  <2>2. queue[i + 1] = queue[j + 1] /\ i + 1 \in DOMAIN queue /\ j + 1 \in DOMAIN queue
    BY <2>1, <1>2, <1>3, <1>4
  <2> QED BY <2>1, <2>2 DEF Distinct
<1> QED BY <1>2, <1>4 DEF Distinct

(* The queue after any step. *)
LEMMA QueueNext ==
  ASSUME TypeOK, Distinct, [Next]_vars
  PROVE  queue' \in Seq(Works) /\ Len(queue') <= 3 /\ Distinct'
<1> SUFFICES queue' \in Seq(Works) /\ Distinct'
  BY ShortWhenDistinct DEF Distinct
<1>1. queue \in Seq(Works)
  BY DEF TypeOK
<1>2. ASSUME UNCHANGED queue PROVE queue' \in Seq(Works) /\ Distinct'
  BY <1>1, <1>2 DEF Distinct
<1>3. ASSUME NEW w \in Works, queue' = QueueWork(w) PROVE queue' \in Seq(Works) /\ Distinct'
  BY <1>1, <1>3, QueueWorkKeeps
<1>4. ASSUME NEW w, Take(w) PROVE queue' \in Seq(Works) /\ Distinct'
  BY <1>1, <1>4, TakeKeeps
<1>5. "plug" \in Works /\ "unplug" \in Works /\ "irq" \in Works
  BY DEF Works
<1>6. CASE HpdPlug \/ HpdUnplug \/ HpdIrq
  BY <1>6, <1>2, <1>3, <1>5 DEF HpdPlug, HpdUnplug, HpdIrq
<1>7. CASE PlugStarts \/ PlugBailsOut \/ UnplugIgnored \/ UnplugStarts \/ IrqStarts
  BY <1>7, <1>4 DEF PlugStarts, PlugBailsOut, UnplugIgnored, UnplugStarts, IrqStarts
<1>8. CASE Worker /\ ~(PlugStarts \/ PlugBailsOut \/ UnplugIgnored \/ UnplugStarts \/ IrqStarts)
  <2>1. UNCHANGED queue
    BY <1>8 DEF Worker, LinkTrained, LinkDeferred, LinkFails, PlugReleases, On, OnWaited, Off, OffAudio, OffAudioWaited, OffStateWaited, OffTimeout, UnplugEnds, IrqNothing, IrqLinkDown, IrqSinkCount
  <2> QED BY <2>1, <1>2
<1>9. CASE UserCommits \/ CheckConfirms \/ Tails \/ AudioOpens \/ Audio \/ TuiEnters \/ TuiExits
  <2>1. UNCHANGED queue
    BY <1>9 DEF UserCommits, CheckConfirms, Tails, AudioOpens, Audio, TuiEnters, TuiExits, TailEnables,
                TailDisables, CheckEnables, AudioConfigured, AudioCloses, work
  <2> QED BY <2>1, <1>2
<1>10. CASE UNCHANGED vars
  <2>1. UNCHANGED queue
    BY <1>10 DEF vars, work
  <2> QED BY <2>1, <1>2
<1> QED BY <1>6, <1>7, <1>8, <1>9, <1>10 DEF Next

(* The types of everything but the queue: the flags, and the rest. *)
FlagsTyped ==
  /\ cable \in BOOLEAN /\ power \in BOOLEAN /\ awake \in BOOLEAN /\ branch \in BOOLEAN
  /\ trained \in BOOLEAN /\ drm \in BOOLEAN /\ check \in BOOLEAN
  /\ confirmed \in BOOLEAN /\ extcon \in BOOLEAN

ValuesTyped ==
  /\ hpd \in {"PLUG", "UNPLUG"}
  /\ pc \in Pcs /\ ctx \in {"none", "plug", "unplug", "relink", "sinkUp", "sinkDown"}
  /\ state \in DpStates /\ irqDepth \in -1 .. MaxDepth
  /\ tuiLock \in {"free", "dp", "tui"} /\ sink \in -1 .. 1
  /\ status \in {"connected", "disconnected"} /\ request \in {"none", "enable", "disable"}
  /\ audio \in {"off", "opening", "on"} /\ events \in 0 .. MaxEvents

(* What called dp_link_up or dp_off_by_hpd_plug is known at each place of a  *)
(* work, so they return to somewhere.                                        *)
CallInv ==
  /\ pc \in {"idle", "irq"} <=> ctx = "none"
  /\ pc \in {"link", "on", "waitRun"} => ctx \in {"plug", "relink", "sinkUp"}
  /\ pc \in {"off", "offAudio", "offWaitAudio", "offWaitState"} => ctx \in {"unplug", "relink", "sinkDown"}
  /\ pc = "plugFailed" => ctx = "plug"
  /\ pc = "unplugged" => ctx = "unplug"

(* An output that runs has its interrupt enabled. *)
DepthInv == irqDepth >= (IF state = "RUN" THEN 1 ELSE 0)

LEMMA CallNext ==
  ASSUME CallInv, Next
  PROVE  CallInv'
<1> USE DEF CallInv
<1>1. CASE PlugStarts \/ PlugBailsOut \/ UnplugIgnored \/ UnplugStarts \/ IrqStarts
  BY <1>1 DEF PlugStarts, PlugBailsOut, UnplugIgnored, UnplugStarts, IrqStarts, Goto, Take, out, user,
          sound, Done, link
<1>2. CASE LinkTrained
  BY <1>2 DEF LinkTrained, Goto, out, user, sound
<1>3. CASE LinkDeferred
  BY <1>3 DEF LinkDeferred, Goto, Done, out, user, sound
<1>4. CASE LinkFails
  BY <1>4 DEF LinkFails, Goto, Done, user
<1>5. CASE PlugReleases \/ On \/ OnWaited
  BY <1>5 DEF PlugReleases, On, OnWaited, Done, Goto, out, user, sound, link
<1>6. CASE Off
  BY <1>6 DEF Off, Goto, AfterOff, linkExceptTrained, Done, out, user, sound
<1>7. CASE OffAudio \/ OffAudioWaited
  BY <1>7 DEF OffAudio, OffAudioWaited, Goto, link, out, user, sound
<1>8. CASE OffStateWaited
  BY <1>8 DEF OffStateWaited, AfterOff, linkExceptTrained, Goto, Done, out, user, sound
<1>9. CASE OffTimeout
  BY <1>9 DEF OffTimeout, AfterOff, linkExceptTrained, Disabled, Goto, Done, out, user, sound
<1>10. CASE UnplugEnds \/ IrqNothing \/ IrqLinkDown
  BY <1>10 DEF UnplugEnds, IrqNothing, IrqLinkDown, Done, Goto, user, sound, link, out
<1>11. CASE IrqSinkCount
  BY <1>11 DEF IrqSinkCount, Goto, Done, out, user, sound
<1>12. CASE ~Worker
  <2>1. UNCHANGED <<pc, ctx>>
    BY <1>12 DEF Next, Tails, Audio, work, HpdPlug, HpdUnplug, HpdIrq, UserCommits, TailEnables, TailDisables, CheckConfirms,
          CheckEnables, AudioOpens, AudioConfigured, AudioCloses, TuiEnters, TuiExits,
          Stale, link, out, user, sound, work, Disabled
  <2> QED BY <2>1
<1> QED
  BY <1>1, <1>2, <1>3, <1>4, <1>5, <1>6, <1>7, <1>8, <1>9, <1>10, <1>11, <1>12 DEF Worker

LEMMA DepthNext ==
  ASSUME irqDepth \in Int, DepthInv, Next
  PROVE  DepthInv'
<1> USE DEF DepthInv
<1>1. CASE LinkFails
  BY <1>1 DEF LinkFails, Goto, Done, user
<1>2. CASE On
  BY <1>2 DEF On, Goto, Done, link, user, sound
<1>3. CASE OffTimeout
  BY <1>3 DEF OffTimeout, AfterOff, linkExceptTrained, Disabled, Goto, Done, out, user, sound
<1>4. CASE UnplugEnds
  BY <1>4 DEF UnplugEnds, Done, Goto, user, sound
<1>5. CASE TailEnables
  BY <1>5 DEF TailEnables, link, sound, work
<1>6. CASE TailDisables
  BY <1>6 DEF TailDisables, Disabled, link, out, sound, work
<1>7. CASE ~(LinkFails \/ On \/ OffTimeout
             \/ UnplugEnds \/ TailEnables \/ TailDisables)
  <2>1. UNCHANGED out
    BY <1>7 DEF Next, Worker, Tails, Audio, PlugStarts, PlugBailsOut, UnplugIgnored, UnplugStarts, IrqStarts, LinkTrained,
          LinkDeferred, PlugReleases, OnWaited, Off, OffAudio, OffAudioWaited,
          OffStateWaited, IrqNothing, IrqLinkDown, IrqSinkCount, HpdPlug, HpdUnplug,
          HpdIrq, UserCommits, CheckConfirms, CheckEnables, AudioOpens, AudioConfigured,
          AudioCloses, TuiEnters, TuiExits, Goto, Take, out, user, sound, Done, link,
          AfterOff, linkExceptTrained, Stale, work
  <2> QED BY <2>1 DEF out
<1> QED
  BY <1>1, <1>2, <1>3, <1>4, <1>5, <1>6, <1>7

LEMMA FlagsNext ==
  ASSUME FlagsTyped, CallInv, Next
  PROVE  FlagsTyped'
<1> USE DEF FlagsTyped
<1>1. CASE PlugStarts
  BY <1>1, Zenon DEF PlugStarts, Goto, Take, out, user, sound
<1>2. CASE LinkTrained
  BY <1>2, Zenon DEF LinkTrained, Goto, out, user, sound
<1>3. CASE LinkDeferred
  BY <1>3, Zenon DEF LinkDeferred, Goto, Done, out, user, sound
<1>4. CASE LinkFails
  BY <1>4, Zenon DEF LinkFails, Goto, Done, user
<1>5. CASE PlugReleases
  BY <1>5, Zenon DEF PlugReleases, Done, Goto, out, user, sound
<1>6. CASE Off
  BY <1>6, Zenon DEF Off, Goto, AfterOff, linkExceptTrained, Done, out, user, sound, CallInv
<1>7. CASE OffAudio
  BY <1>7, Zenon DEF OffAudio, Goto, link, out, user
<1>8. CASE OffStateWaited
  BY <1>8, Zenon DEF OffStateWaited, AfterOff, linkExceptTrained, Goto, Done, out, user, sound, CallInv
<1>9. CASE OffTimeout
  BY <1>9, Zenon DEF OffTimeout, AfterOff, linkExceptTrained, Disabled, Goto, Done, out, user, sound, CallInv
<1>10. CASE UnplugEnds
  BY <1>10, Zenon DEF UnplugEnds, Done, Goto, user, sound
<1>11. CASE HpdPlug
  BY <1>11, Zenon DEF HpdPlug, Stale, link, out, user, sound
<1>12. CASE HpdUnplug
  BY <1>12, Zenon DEF HpdUnplug, link, out, user, sound
<1>13. CASE TailEnables
  BY <1>13, Zenon DEF TailEnables, link, sound, work
<1>14. CASE TailDisables
  BY <1>14, Zenon DEF TailDisables, Disabled, link, out, sound, work
<1>15. CASE CheckConfirms
  BY <1>15, Zenon DEF CheckConfirms, link, out, sound, work
<1>16. CASE CheckEnables
  BY <1>16, Zenon DEF CheckEnables, link, out, work
<1>17. CASE ~(PlugStarts \/ LinkTrained \/ LinkDeferred \/ LinkFails \/ PlugReleases \/ Off \/
             OffAudio \/ OffStateWaited \/ OffTimeout \/ UnplugEnds \/ HpdPlug
             \/ HpdUnplug \/ TailEnables \/ TailDisables \/ CheckConfirms \/
             CheckEnables)
  <2>1. UNCHANGED <<cable, power, awake, branch, trained, drm, check, confirmed, extcon>>
    BY <1>17 DEF Next, Worker, Tails, Audio, PlugBailsOut, UnplugIgnored, UnplugStarts, IrqStarts, On, OnWaited, OffAudioWaited,
          IrqNothing, IrqLinkDown, IrqSinkCount, HpdIrq, UserCommits, AudioOpens,
          AudioConfigured, AudioCloses, TuiEnters, TuiExits, Done, Take, Goto, link,
          out, user, sound, work
  <2> QED BY <2>1
<1> QED
  BY <1>1, <1>2, <1>3, <1>4, <1>5, <1>6, <1>7, <1>8, <1>9, <1>10, <1>11, <1>12, <1>13, <1>14,
     <1>15, <1>16, <1>17

LEMMA ValuesNext ==
  ASSUME ValuesTyped, CallInv, DepthInv, Next
  PROVE  ValuesTyped'
<1> USE DEF ValuesTyped, CallInv, DepthInv, Pcs, DpStates, MaxDepth
<1>1. CASE PlugStarts
  BY <1>1 DEF PlugStarts, Goto, Take, out, user, sound
<1>2. CASE PlugBailsOut
  BY <1>2 DEF PlugBailsOut, Done, Take, Goto, link, out, user, sound
<1>3. CASE UnplugIgnored
  BY <1>3 DEF UnplugIgnored, Done, Take, Goto, link, out, user, sound
<1>4. CASE UnplugStarts
  BY <1>4 DEF UnplugStarts, Goto, Take, link, out, user, sound
<1>5. CASE IrqStarts
  BY <1>5 DEF IrqStarts, Goto, Done, Take, link, out, user, sound
<1>6. CASE LinkTrained
  BY <1>6 DEF LinkTrained, Goto, out, user, sound
<1>7. CASE LinkDeferred
  BY <1>7 DEF LinkDeferred, Goto, Done, out, user, sound
<1>8. CASE LinkFails
  BY <1>8 DEF LinkFails, Goto, Done, user
<1>9. CASE PlugReleases
  BY <1>9 DEF PlugReleases, Done, Goto, out, user, sound
<1>10. CASE On
  BY <1>10 DEF On, Goto, Done, link, user, sound
<1>11. CASE OnWaited
  BY <1>11 DEF OnWaited, Done, Goto, link, out, user, sound
<1>12. CASE Off
  BY <1>12 DEF Off, Goto, AfterOff, linkExceptTrained, Done, out, user, sound
<1>13. CASE OffAudio
  BY <1>13 DEF OffAudio, Goto, link, out, user
<1>14. CASE OffAudioWaited
  BY <1>14 DEF OffAudioWaited, Goto, link, out, user, sound
<1>15. CASE OffStateWaited
  BY <1>15 DEF OffStateWaited, AfterOff, linkExceptTrained, Goto, Done, out, user, sound
<1>16. CASE OffTimeout
  <2>1. pc' \in Pcs /\ ctx' \in {"none", "plug", "unplug", "relink", "sinkUp", "sinkDown"}
    BY <1>16 DEF OffTimeout, AfterOff, Goto, Done
  <2>2. state' \in DpStates /\ irqDepth' \in -1 .. MaxDepth
    BY <1>16 DEF OffTimeout, Disabled, out
  <2>3. UNCHANGED <<hpd, tuiLock, sink, status, request, audio, events>>
    BY <1>16 DEF OffTimeout, linkExceptTrained, user, sound
  <2> QED BY <2>1, <2>2, <2>3
<1>17. CASE UnplugEnds
  BY <1>17 DEF UnplugEnds, Done, Goto, user, sound
<1>18. CASE IrqNothing
  BY <1>18 DEF IrqNothing, Done, Goto, link, out, user, sound
<1>19. CASE IrqLinkDown
  BY <1>19 DEF IrqLinkDown, Goto, link, out, user, sound
<1>20. CASE IrqSinkCount
  BY <1>20 DEF IrqSinkCount, Goto, Done, out, user, sound
<1>21. CASE HpdPlug
  BY <1>21, MaxEventsAssumption DEF HpdPlug, Stale, link, out, user, sound
<1>22. CASE HpdUnplug
  BY <1>22, MaxEventsAssumption DEF HpdUnplug, link, out, user, sound
<1>23. CASE HpdIrq
  BY <1>23, MaxEventsAssumption DEF HpdIrq, link, out, user, sound
<1>24. CASE UserCommits
  BY <1>24 DEF UserCommits, link, out, sound, work
<1>25. CASE TailEnables
  BY <1>25 DEF TailEnables, link, sound, work
<1>26. CASE TailDisables
  BY <1>26 DEF TailDisables, Disabled, link, out, sound, work
<1>27. CASE CheckConfirms
  BY <1>27 DEF CheckConfirms, link, out, sound, work
<1>28. CASE CheckEnables
  BY <1>28 DEF CheckEnables, link, out, work
<1>29. CASE AudioOpens
  BY <1>29 DEF AudioOpens, link, out, user, work
<1>30. CASE AudioConfigured
  BY <1>30 DEF AudioConfigured, link, out, user, work
<1>31. CASE AudioCloses
  BY <1>31 DEF AudioCloses, link, out, user, work
<1>32. CASE TuiEnters
  BY <1>32 DEF TuiEnters, out, user, sound, work
<1>33. CASE TuiExits
  BY <1>33 DEF TuiExits, out, user, sound, work
<1> QED
  BY <1>1, <1>2, <1>3, <1>4, <1>5, <1>6, <1>7, <1>8, <1>9, <1>10, <1>11, <1>12, <1>13, <1>14,
     <1>15, <1>16, <1>17, <1>18, <1>19, <1>20, <1>21, <1>22, <1>23, <1>24, <1>25, <1>26,
     <1>27, <1>28, <1>29, <1>30, <1>31, <1>32, <1>33 DEF Next, Worker, Tails, Audio

(* What the types rest on holds whichever races happen. *)
TypeInv == TypeOK /\ Distinct /\ CallInv /\ DepthInv

LEMMA TypeSplit == TypeOK <=> FlagsTyped /\ ValuesTyped /\ queue \in Seq(Works) /\ Len(queue) <= 3
  BY DEF TypeOK, FlagsTyped, ValuesTyped

LEMMA TypeSplitNext ==
  FlagsTyped' /\ ValuesTyped' /\ queue' \in Seq(Works) /\ Len(queue') <= 3 => TypeOK'
  BY DEF TypeOK, FlagsTyped, ValuesTyped

LEMMA TypeInvInit == Init => TypeInv
<1> SUFFICES ASSUME Init PROVE TypeInv
  OBVIOUS
<1>1. FlagsTyped
  BY Zenon DEF Init, FlagsTyped
<1>2. ValuesTyped
  BY MaxEventsAssumption DEF Init, ValuesTyped, Pcs, DpStates, MaxDepth
<1>3. queue \in Seq(Works) /\ Len(queue) <= 3 /\ Distinct
  BY DEF Init, Distinct
<1>4. CallInv /\ DepthInv
  BY DEF Init, CallInv, DepthInv
<1> QED BY <1>1, <1>2, <1>3, <1>4, TypeSplit DEF TypeInv

LEMMA TypeInvNext == TypeInv /\ [Next]_vars => TypeInv'
<1> SUFFICES ASSUME TypeInv, [Next]_vars PROVE TypeInv'
  OBVIOUS
<1>1. TypeOK /\ FlagsTyped /\ ValuesTyped /\ Distinct /\ CallInv /\ DepthInv
  BY TypeSplit DEF TypeInv
<1>2. queue' \in Seq(Works) /\ Len(queue') <= 3 /\ Distinct'
  BY <1>1, QueueNext
<1>3. CASE Next
  <2>1. irqDepth \in Int
    BY <1>1 DEF ValuesTyped, MaxDepth
  <2>2. FlagsTyped' /\ ValuesTyped' /\ CallInv' /\ DepthInv'
    BY <2>1, <1>1, <1>3, FlagsNext, ValuesNext, CallNext, DepthNext
  <2> QED BY <2>2, <1>2, TypeSplitNext DEF TypeInv
<1>4. CASE UNCHANGED vars
  <2>1. FlagsTyped' /\ ValuesTyped'
    BY <1>1, <1>4 DEF vars, work, link, out, user, sound, FlagsTyped, ValuesTyped
  <2>2. CallInv' /\ DepthInv'
    BY <1>1, <1>4 DEF vars, work, out, CallInv, DepthInv
  <2> QED BY <2>1, <2>2, <1>2, TypeSplitNext DEF TypeInv
<1> QED BY <1>3, <1>4

(* A work is pending at most once, the works always return to where they were *)
(* called from, and disable_irq is never called more often than enable_irq.    *)
THEOREM TypeCorrect == Spec => []TypeOK
<1>1. TypeInv => TypeOK
  BY DEF TypeInv
<1> QED BY <1>1, TypeInvInit, TypeInvNext, PTL DEF Spec

-----------------------------------------------------------------------------
(* Power, link and output *)

(* DRM answers an unplug before it is handled, and a new training finds the  *)
(* sink that the last one found.                                             *)
Answers == "late_enable" \notin Races /\ "sink_leaves" \notin Races

(* HPD_PLUG takes and gives back the lock, the wakeup source and the power   *)
(* as one, and works that do more than that run under them.                  *)
PowerInv ==
  /\ power <=> tuiLock = "dp"
  /\ awake <=> power
  /\ pc # "idle" => power
  /\ state # "INIT" => power

Leaving == {"offAudio", "offWaitAudio", "offWaitState"}

(* What the works know of the connection: DRM may only be asked to enable an *)
(* output that is connected, and a connected one has a trained link and a    *)
(* sink, unless a work is about to disconnect it.                            *)
ConnInv ==
  /\ status = "connected" =>
       /\ state # "INIT" /\ trained
       /\ pc \in {"idle", "irq", "waitRun", "off"}
       /\ sink > 0 \/ (pc = "off" /\ ctx = "sinkDown")
  /\ state = "RUN" => trained /\ drm /\ (status = "connected" \/ pc \in Leaving)
  /\ request = "enable" => ~drm /\ status = "connected"
  /\ irqDepth = IF state = "RUN" THEN 1 ELSE 0
  /\ pc = "on" => trained /\ sink > 0
  /\ pc = "plugFailed" => state = "INIT"

LEMMA PowerNext ==
  ASSUME PowerInv, ConnInv, CallInv, Next
  PROVE  PowerInv'
<1> USE DEF PowerInv, ConnInv, Leaving
<1>1. CASE PlugStarts
  BY <1>1 DEF PlugStarts, Goto, Take, out, user, sound
<1>2. CASE PlugBailsOut
  BY <1>2 DEF PlugBailsOut, Done, Take, Goto, link, out, user, sound
<1>3. CASE UnplugIgnored
  BY <1>3 DEF UnplugIgnored, Done, Take, Goto, link, out, user, sound
<1>4. CASE UnplugStarts
  BY <1>4 DEF UnplugStarts, Goto, Take, link, out, user, sound
<1>5. CASE IrqStarts
  BY <1>5 DEF IrqStarts, Goto, Done, Take, link, out, user, sound
<1>6. CASE LinkTrained
  BY <1>6 DEF LinkTrained, Goto, out, user, sound
<1>7. CASE LinkDeferred
  BY <1>7 DEF LinkDeferred, Goto, Done, out, user, sound
<1>8. CASE LinkFails
  BY <1>8 DEF LinkFails, Goto, Done, user, CallInv
<1>9. CASE PlugReleases
  BY <1>9 DEF PlugReleases, Done, Goto, out, user, sound, CallInv
<1>10. CASE On
  BY <1>10 DEF On, Goto, Done, link, user, sound, CallInv
<1>11. CASE OnWaited
  BY <1>11 DEF OnWaited, Done, Goto, link, out, user, sound
<1>12. CASE Off
  BY <1>12 DEF Off, Goto, AfterOff, linkExceptTrained, Done, out, user, sound, CallInv
<1>13. CASE OffAudio
  BY <1>13 DEF OffAudio, Goto, link, out, user
<1>14. CASE OffAudioWaited
  BY <1>14 DEF OffAudioWaited, Goto, link, out, user, sound
<1>15. CASE OffStateWaited
  BY <1>15 DEF OffStateWaited, AfterOff, linkExceptTrained, Goto, Done, out, user, sound, CallInv
<1>16. CASE OffTimeout
  BY <1>16 DEF OffTimeout, AfterOff, linkExceptTrained, Disabled, Goto, Done, out, user, sound, CallInv
<1>17. CASE UnplugEnds
  BY <1>17 DEF UnplugEnds, Done, Goto, user, sound, CallInv
<1>18. CASE IrqNothing
  BY <1>18 DEF IrqNothing, Done, Goto, link, out, user, sound
<1>19. CASE IrqLinkDown
  BY <1>19 DEF IrqLinkDown, Goto, link, out, user, sound
<1>20. CASE IrqSinkCount
  BY <1>20 DEF IrqSinkCount, Goto, Done, out, user, sound
<1>21. CASE HpdPlug
  BY <1>21 DEF HpdPlug, Stale, link, out, user, sound
<1>22. CASE HpdUnplug
  BY <1>22 DEF HpdUnplug, link, out, user, sound
<1>23. CASE HpdIrq
  BY <1>23 DEF HpdIrq, link, out, user, sound
<1>24. CASE UserCommits
  BY <1>24 DEF UserCommits, link, out, sound, work
<1>25. CASE TailEnables
  BY <1>25 DEF TailEnables, link, sound, work
<1>26. CASE TailDisables
  BY <1>26 DEF TailDisables, Disabled, link, out, sound, work
<1>27. CASE CheckConfirms
  BY <1>27 DEF CheckConfirms, link, out, sound, work
<1>28. CASE CheckEnables
  BY <1>28 DEF CheckEnables, link, out, work
<1>29. CASE AudioOpens
  BY <1>29 DEF AudioOpens, link, out, user, work
<1>30. CASE AudioConfigured
  BY <1>30 DEF AudioConfigured, link, out, user, work
<1>31. CASE AudioCloses
  BY <1>31 DEF AudioCloses, link, out, user, work
<1>32. CASE TuiEnters
  BY <1>32 DEF TuiEnters, out, user, sound, work
<1>33. CASE TuiExits
  BY <1>33 DEF TuiExits, out, user, sound, work
<1> QED
  BY <1>1, <1>2, <1>3, <1>4, <1>5, <1>6, <1>7, <1>8, <1>9, <1>10, <1>11, <1>12, <1>13, <1>14,
     <1>15, <1>16, <1>17, <1>18, <1>19, <1>20, <1>21, <1>22, <1>23, <1>24, <1>25, <1>26,
     <1>27, <1>28, <1>29, <1>30, <1>31, <1>32, <1>33 DEF Next, Worker, Tails, Audio

LEMMA ConnNext ==
  ASSUME Answers, FlagsTyped, ValuesTyped, PowerInv, ConnInv, CallInv, Next
  PROVE  ConnInv'
<1> USE DEF Answers, FlagsTyped, ValuesTyped, PowerInv, ConnInv, CallInv, Leaving
<1>1. CASE PlugStarts
  BY <1>1 DEF PlugStarts, Goto, Take, out, user, sound
<1>2. CASE PlugBailsOut
  BY <1>2 DEF PlugBailsOut, Done, Take, Goto, link, out, user, sound
<1>3. CASE UnplugIgnored
  BY <1>3 DEF UnplugIgnored, Done, Take, Goto, link, out, user, sound
<1>4. CASE UnplugStarts
  BY <1>4 DEF UnplugStarts, Goto, Take, link, out, user, sound
<1>5. CASE IrqStarts
  BY <1>5 DEF IrqStarts, Goto, Done, Take, link, out, user, sound
<1>6. CASE LinkTrained
  BY <1>6 DEF LinkTrained, Goto, out, user, sound
<1>7. CASE LinkDeferred
  BY <1>7 DEF LinkDeferred, Goto, Done, out, user, sound
<1>8. CASE LinkFails
  BY <1>8 DEF LinkFails, Goto, Done, user
<1>9. CASE PlugReleases
  BY <1>9 DEF PlugReleases, Done, Goto, out, user, sound
<1>10. CASE On
  BY <1>10 DEF On, Goto, Done, link, user, sound
<1>11. CASE OnWaited
  BY <1>11 DEF OnWaited, Done, Goto, link, out, user, sound
<1>12. CASE Off
  BY <1>12 DEF Off, Goto, AfterOff, linkExceptTrained, Done, out, user, sound
<1>13. CASE OffAudio
  BY <1>13 DEF OffAudio, Goto, link, out, user
<1>14. CASE OffAudioWaited
  BY <1>14 DEF OffAudioWaited, Goto, link, out, user, sound
<1>15. CASE OffStateWaited
  BY <1>15 DEF OffStateWaited, AfterOff, linkExceptTrained, Goto, Done, out, user, sound
<1>16. CASE OffTimeout
  <2>1. state' # "RUN" /\ irqDepth' = 0
    BY <1>16 DEF OffTimeout, Disabled, out
  <2>2. status # "connected" /\ request # "enable" /\ UNCHANGED <<status, request>>
    BY <1>16 DEF OffTimeout, user
  <2>3. pc' \in {"unplugged", "link", "idle"}
    BY <1>16 DEF OffTimeout, AfterOff, Goto, Done
  <2> QED BY <2>1, <2>2, <2>3
<1>17. CASE UnplugEnds
  BY <1>17 DEF UnplugEnds, Done, Goto, user, sound
<1>18. CASE IrqNothing
  BY <1>18 DEF IrqNothing, Done, Goto, link, out, user, sound
<1>19. CASE IrqLinkDown
  BY <1>19 DEF IrqLinkDown, Goto, link, out, user, sound
<1>20. CASE IrqSinkCount
  BY <1>20 DEF IrqSinkCount, Goto, Done, out, user, sound
<1>21. CASE HpdPlug
  BY <1>21 DEF HpdPlug, Stale, link, out, user, sound
<1>22. CASE HpdUnplug
  BY <1>22 DEF HpdUnplug, link, out, user, sound
<1>23. CASE HpdIrq
  BY <1>23 DEF HpdIrq, link, out, user, sound
<1>24. CASE UserCommits
  BY <1>24 DEF UserCommits, link, out, sound, work
<1>25. CASE TailEnables
  BY <1>25 DEF TailEnables, link, sound, work
<1>26. CASE TailDisables
  BY <1>26 DEF TailDisables, Disabled, link, out, sound, work
<1>27. CASE CheckConfirms
  BY <1>27 DEF CheckConfirms, link, out, sound, work
<1>28. CASE CheckEnables
  BY <1>28 DEF CheckEnables, link, out, work
<1>29. CASE AudioOpens
  BY <1>29 DEF AudioOpens, link, out, user, work
<1>30. CASE AudioConfigured
  BY <1>30 DEF AudioConfigured, link, out, user, work
<1>31. CASE AudioCloses
  BY <1>31 DEF AudioCloses, link, out, user, work
<1>32. CASE TuiEnters
  BY <1>32 DEF TuiEnters, out, user, sound, work
<1>33. CASE TuiExits
  BY <1>33 DEF TuiExits, out, user, sound, work
<1> QED
  BY <1>1, <1>2, <1>3, <1>4, <1>5, <1>6, <1>7, <1>8, <1>9, <1>10, <1>11, <1>12, <1>13, <1>14,
     <1>15, <1>16, <1>17, <1>18, <1>19, <1>20, <1>21, <1>22, <1>23, <1>24, <1>25, <1>26,
     <1>27, <1>28, <1>29, <1>30, <1>31, <1>32, <1>33 DEF Next, Worker, Tails, Audio

OutputInv == TypeInv /\ PowerInv /\ ConnInv

LEMMA OutputInvInit == Init => OutputInv
<1> SUFFICES ASSUME Init PROVE OutputInv
  OBVIOUS
<1>1. TypeInv
  BY TypeInvInit
<1>2. PowerInv
  BY DEF Init, PowerInv
<1>3. ConnInv
  BY DEF Init, ConnInv
<1> QED BY <1>1, <1>2, <1>3 DEF OutputInv

LEMMA OutputInvNext == Answers /\ OutputInv /\ [Next]_vars => OutputInv'
<1> SUFFICES ASSUME Answers, OutputInv, [Next]_vars PROVE OutputInv'
  OBVIOUS
<1>1. TypeInv /\ FlagsTyped /\ ValuesTyped /\ CallInv /\ PowerInv /\ ConnInv
  BY TypeSplit DEF TypeInv, OutputInv
<1>2. TypeInv'
  BY <1>1, TypeInvNext
<1>3. CASE Next
  BY <1>1, <1>2, <1>3, PowerNext, ConnNext DEF OutputInv
<1>4. CASE UNCHANGED vars
  <2>1. PowerInv' /\ ConnInv'
    BY <1>1, <1>4 DEF vars, work, link, out, user, sound, PowerInv, ConnInv
  <2> QED BY <2>1, <1>2 DEF OutputInv
<1> QED BY <1>3, <1>4

LEMMA OutputInvSound == OutputInv => OutputSound
<1> SUFFICES ASSUME OutputInv PROVE OutputSound
  OBVIOUS
<1>1. TypeOK /\ PowerInv /\ ConnInv
  BY DEF OutputInv, TypeInv
<1>2. PoweredOffMeansDisabled
  BY <1>1 DEF PoweredOffMeansDisabled, PowerInv, ConnInv
<1>3. RunsTrained
  BY <1>1 DEF RunsTrained, ConnInv
<1>4. TuiExcludesDp
  BY <1>1 DEF TuiExcludesDp, PowerInv
<1> QED BY <1>1, <1>2, <1>3, <1>4 DEF OutputSound

(* However HPD events, the works, DRM's answers and their time limits follow *)
(* each other: without power the output is disabled, it runs over a trained  *)
(* link only, and never while the trusted UI holds the lock.                 *)
THEOREM OutputKept == Answers /\ Spec => []OutputSound
<1>1. CASE Answers
  <2>1. OutputInv /\ [Next]_vars => OutputInv'
    BY <1>1, OutputInvNext
  <2> QED BY <2>1, OutputInvInit, OutputInvSound, PTL DEF Spec
<1>2. CASE ~Answers
  BY <1>2
<1> QED BY <1>1, <1>2

-----------------------------------------------------------------------------
(* Audio *)

(* An unplug neither overtakes a check that saw the display connected, nor   *)
(* gives up waiting for ALSA.                                                *)
Waits == Answers /\ "late_check" \notin Races /\ "slow_audio" \notin Races

(* What is announced to ALSA, confirmed to user space, or about to be, dies  *)
(* with the connection; the stream is waited for before DP goes on.          *)
AudioInv ==
  /\ extcon \/ confirmed \/ check => status = "connected" \/ pc = "offAudio"
  /\ audio # "off" => status = "connected" \/ pc \in {"offAudio", "offWaitAudio"}

LEMMA AudioNext ==
  ASSUME Waits, ValuesTyped, ConnInv, AudioInv, Next
  PROVE  AudioInv'
<1> USE DEF Waits, ValuesTyped, ConnInv, AudioInv
<1>1. CASE PlugStarts
  BY <1>1 DEF PlugStarts, Goto, Take, out, user, sound
<1>2. CASE PlugBailsOut
  BY <1>2 DEF PlugBailsOut, Done, Take, Goto, link, out, user, sound
<1>3. CASE UnplugIgnored
  BY <1>3 DEF UnplugIgnored, Done, Take, Goto, link, out, user, sound
<1>4. CASE UnplugStarts
  BY <1>4 DEF UnplugStarts, Goto, Take, link, out, user, sound
<1>5. CASE IrqStarts
  BY <1>5 DEF IrqStarts, Goto, Done, Take, link, out, user, sound
<1>6. CASE LinkTrained
  BY <1>6 DEF LinkTrained, Goto, out, user, sound
<1>7. CASE LinkDeferred
  BY <1>7 DEF LinkDeferred, Goto, Done, out, user, sound
<1>8. CASE LinkFails
  BY <1>8 DEF LinkFails, Goto, Done, user
<1>9. CASE PlugReleases
  BY <1>9 DEF PlugReleases, Done, Goto, out, user, sound
<1>10. CASE On
  BY <1>10 DEF On, Goto, Done, link, user, sound
<1>11. CASE OnWaited
  BY <1>11 DEF OnWaited, Done, Goto, link, out, user, sound
<1>12. CASE Off
  BY <1>12 DEF Off, Goto, AfterOff, linkExceptTrained, Done, out, user, sound
<1>13. CASE OffAudio
  BY <1>13 DEF OffAudio, Goto, link, out, user
<1>14. CASE OffAudioWaited
  BY <1>14 DEF OffAudioWaited, Goto, link, out, user, sound
<1>15. CASE OffStateWaited
  BY <1>15 DEF OffStateWaited, AfterOff, linkExceptTrained, Goto, Done, out, user, sound
<1>16. CASE OffTimeout
  BY <1>16 DEF OffTimeout, AfterOff, linkExceptTrained, Disabled, Goto, Done, out, user, sound
<1>17. CASE UnplugEnds
  BY <1>17 DEF UnplugEnds, Done, Goto, user, sound
<1>18. CASE IrqNothing
  BY <1>18 DEF IrqNothing, Done, Goto, link, out, user, sound
<1>19. CASE IrqLinkDown
  BY <1>19 DEF IrqLinkDown, Goto, link, out, user, sound
<1>20. CASE IrqSinkCount
  BY <1>20 DEF IrqSinkCount, Goto, Done, out, user, sound
<1>21. CASE HpdPlug
  BY <1>21 DEF HpdPlug, Stale, link, out, user, sound
<1>22. CASE HpdUnplug
  BY <1>22 DEF HpdUnplug, link, out, user, sound
<1>23. CASE HpdIrq
  BY <1>23 DEF HpdIrq, link, out, user, sound
<1>24. CASE UserCommits
  BY <1>24 DEF UserCommits, link, out, sound, work
<1>25. CASE TailEnables
  BY <1>25 DEF TailEnables, link, sound, work
<1>26. CASE TailDisables
  BY <1>26 DEF TailDisables, Disabled, link, out, sound, work
<1>27. CASE CheckConfirms
  BY <1>27 DEF CheckConfirms, link, out, sound, work
<1>28. CASE CheckEnables
  BY <1>28 DEF CheckEnables, link, out, work
<1>29. CASE AudioOpens
  BY <1>29 DEF AudioOpens, link, out, user, work
<1>30. CASE AudioConfigured
  BY <1>30 DEF AudioConfigured, link, out, user, work
<1>31. CASE AudioCloses
  BY <1>31 DEF AudioCloses, link, out, user, work
<1>32. CASE TuiEnters
  BY <1>32 DEF TuiEnters, out, user, sound, work
<1>33. CASE TuiExits
  BY <1>33 DEF TuiExits, out, user, sound, work
<1> QED
  BY <1>1, <1>2, <1>3, <1>4, <1>5, <1>6, <1>7, <1>8, <1>9, <1>10, <1>11, <1>12, <1>13, <1>14,
     <1>15, <1>16, <1>17, <1>18, <1>19, <1>20, <1>21, <1>22, <1>23, <1>24, <1>25, <1>26,
     <1>27, <1>28, <1>29, <1>30, <1>31, <1>32, <1>33 DEF Next, Worker, Tails, Audio

LEMMA AudioInvSound == OutputInv /\ AudioInv => AudioSound
<1> SUFFICES ASSUME OutputInv, AudioInv PROVE AudioSound
  OBVIOUS
<1>1. PowerInv /\ ConnInv
  BY DEF OutputInv
<1>2. AudioOnlyWhileConnected
  BY DEF AudioOnlyWhileConnected, AudioInv
<1>3. AudioStopsFirst
  BY <1>1 DEF AudioStopsFirst, AudioInv, PowerInv, ConnInv
<1> QED BY <1>2, <1>3 DEF AudioSound

(* HDCP and audio are only on for a connected display, and no unplug takes   *)
(* the power from a stream that runs, whatever ALSA and DRM do meanwhile.    *)
THEOREM AudioKept == Waits /\ Spec => []AudioSound
<1>1. CASE Waits
  <2>1. OutputInv /\ [Next]_vars => OutputInv'
    BY <1>1, OutputInvNext DEF Waits
  <2>2. OutputInv /\ AudioInv /\ [Next]_vars => AudioInv'
    <3> SUFFICES ASSUME OutputInv, AudioInv, [Next]_vars PROVE AudioInv'
      OBVIOUS
    <3>1. ValuesTyped /\ ConnInv
      BY TypeSplit DEF OutputInv, TypeInv
    <3>2. CASE Next
      BY <1>1, <3>1, <3>2, AudioNext
    <3>3. CASE UNCHANGED vars
      BY <3>3 DEF vars, work, user, sound, AudioInv
    <3> QED BY <3>2, <3>3
  <2>3. Init => AudioInv
    BY DEF Init, AudioInv
  <2> QED BY <2>1, <2>2, <2>3, OutputInvInit, AudioInvSound, PTL DEF Spec
<1>2. CASE ~Waits
  BY <1>2
<1> QED BY <1>1, <1>2
=============================================================================
