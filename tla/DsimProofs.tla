----------------------------- MODULE DsimProofs -----------------------------
(* The DSI link, for any number of sending threads and FIFOs of any size:    *)
(* references, power and interrupt follow the link, no command is refused    *)
(* for lack of room, the FIFOs never overflow, and a set goes out whole.     *)
EXTENDS Dsim, FiniteSetTheorems, TLAPS

-----------------------------------------------------------------------------
(* The inductive invariant *)

(* cmd_lock is only held over these, and only while the link runs. *)
Holds(s) == pc[s] \in {"ready", "flush", "read"}

LockInv ==
  /\ \A s \in Sender : Holds(s) <=> cmdLock = s
  /\ cmdLock # NoSender => state = "HSCLKEN"

(* What the commit tail has done to the link so far. *)
TailInv ==
  /\ tpc = "idle" =>
       CASE link = "on"     -> state = "HSCLKEN"
         [] link = "sleep"  -> state \in {"HSCLKEN", "ULPS"}
         [] link = "bypass" -> state = "BYPASS"
         [] link = "off"    -> state \in {"SUSPEND", "HANDOVER"}
  /\ tpc = "enable"      => link = "on" /\ state \in {"SUSPEND", "HANDOVER"}
  /\ tpc = "disable"     => link \in {"off", "bypass"} /\ state = "HSCLKEN"
  /\ tpc = "put"         => link \in {"off", "bypass"} /\ state = "SUSPEND"
  /\ tpc = "enterBypass" => link = "bypass" /\ state = "SUSPEND"
  /\ tpc = "leaveBypass" => link \in {"on", "off"} /\ state = "BYPASS"

SleepInv ==
  /\ asleep => tpc = "idle" /\ link # "on" /\ usage = 0 /\ state # "HSCLKEN"
  /\ asleep /\ resumes => link = "sleep" /\ state = "ULPS"

(* ULPS can be left. *)
ErrorInv ==
  /\ rpmError => rpm = "suspended"
  /\ state = "ULPS" /\ ~(asleep /\ resumes) => ~rpmError

IrqInv == irqDepth = IF state = "HSCLKEN" THEN 0 ELSE 1

Wire == LockInv /\ TailInv /\ SleepInv /\ ErrorInv /\ IrqInv /\ UsageBalanced

Without(R) == Races \cap R = {}

(* A running link is powered; only a link in bypass has an error.            *)
PowerInv ==
  Without({"bypass_transfer"}) =>
    /\ (state = "HSCLKEN" /\ ~asleep) \/ tpc = "enable" \/ (asleep /\ resumes) => rpm = "active" /\ ~rpmError
    /\ rpmError => state = "BYPASS" /\ tpc = "idle"

(* No single command is longer than the threshold, 1536 bytes. *)
ShortCommands == Payload \subseteq 0 .. Threshold

(* Then a command finds room unless another is on its way out. *)
Room ==
  /\ ~refused
  /\ pendPh = 0 => pendPl <= Threshold
  /\ (\A s \in Sender : pc[s] \notin {"ready", "flush"}) => pendPh < MaxPh /\ pendPl <= Threshold

RoomInv == ShortCommands => Room

(* The hardware holds what the counters count. *)
HeldInv ==
  Without({"garbage_last"}) =>
    /\ packetgo => pendPh > 0
    /\ \A s \in Sender : pc[s] = "flush" => Released
    /\ ready => \E s \in Sender : pc[s] = "flush"
    /\ state # "HSCLKEN" => fifo = <<>>  /\ pendPh = 0
    /\ cmdLock = NoSender /\ pendPh = 0 => fifo = <<>> \/ stuck
    /\ stuck \/ packetgo \/ \A i \in DOMAIN fifo : ~fifo[i].held

FitInv ==
  Without({"garbage_last", "read"}) =>
    \/ stuck
    \/ /\ Len(fifo) <= MaxPh /\ Layouts(fifo, MaxPl) # {}
       /\ pendPh > 0 => Len(fifo) <= pendPh /\ Layouts(fifo, pendPl) # {}

IInv == TypeOK /\ Wire /\ PowerInv /\ RoomInv /\ HeldInv /\ FitInv

-----------------------------------------------------------------------------
(* References *)

Active  == {s \in Sender : pc[s] # "idle"}
TailRef == IF tpc \in {"enable", "disable", "put"} \/ (tpc = "idle" /\ link = "on") THEN 1 ELSE 0

LEMMA Balanced == UsageBalanced <=> usage = Cardinality(Active) + PacketgoRef + TailRef
BY DEF UsageBalanced, Active, TailRef

LEMMA Counted ==
  IsFiniteSet(Active) /\ Cardinality(Active) \in Nat /\ PacketgoRef \in {0, 1} /\ TailRef \in {0, 1}
<1>1. IsFiniteSet(Active)
  BY SenderAssumption, FS_Subset DEF Active
<1> QED BY <1>1, FS_CardinalityType DEF PacketgoRef, TailRef

LEMMA CountedNext ==
  IsFiniteSet(Active') /\ Cardinality(Active') \in Nat /\ PacketgoRef' \in {0, 1} /\ TailRef' \in {0, 1}
<1>1. IsFiniteSet(Active')
  BY SenderAssumption, FS_Subset DEF Active
<1> QED BY <1>1, FS_CardinalityType DEF PacketgoRef, TailRef

(* What a move of one transfer does to the count. *)
LEMMA ActiveMoves ==
  ASSUME TypeOK, NEW s \in Sender, NEW p, pc' = [pc EXCEPT ![s] = p]
  PROVE  /\ (pc[s] # "idle") /\ (p # "idle") => Active' = Active
         /\ (pc[s] = "idle") /\ (p # "idle") => Cardinality(Active') = Cardinality(Active) + 1
         /\ (pc[s] # "idle") /\ (p = "idle") => Cardinality(Active') = Cardinality(Active) - 1
<1>1. \A t \in Sender : pc'[t] = IF t = s THEN p ELSE pc[t]
  BY DEF TypeOK
<1>2. CASE pc[s] # "idle" /\ p # "idle"
  BY <1>1, <1>2 DEF Active
<1>3. CASE pc[s] = "idle" /\ p # "idle"
  <2>1. Active' = Active \cup {s} /\ s \notin Active
    BY <1>1, <1>3 DEF Active
  <2> QED BY <1>3, <2>1, Counted, FS_AddElement
<1>4. CASE pc[s] # "idle" /\ p = "idle"
  <2>1. Active' = Active \ {s} /\ s \in Active
    BY <1>1, <1>4 DEF Active
  <2> QED BY <1>4, <2>1, Counted, FS_RemoveElement
<1>5. CASE pc[s] = "idle" /\ p = "idle"
  BY <1>5
<1> QED BY <1>2, <1>3, <1>4, <1>5

(* Without references nothing is under way. *)
LEMMA Quiet ==
  ASSUME TypeOK, Wire, usage = 0
  PROVE  /\ \A s \in Sender : pc[s] = "idle"
         /\ pendPh = 0 /\ cmdLock = NoSender
         /\ tpc \notin {"enable", "disable", "put"} /\ ~(tpc = "idle" /\ link = "on")
<1>1. usage = Cardinality(Active) + PacketgoRef + TailRef
  BY Balanced DEF Wire
<1>2. Cardinality(Active) = 0 /\ PacketgoRef = 0 /\ TailRef = 0
  <2>1. Cardinality(Active) \in Nat /\ PacketgoRef \in Nat /\ TailRef \in Nat
    BY Counted
  <2> QED BY <1>1, <2>1
<1>3. Active = {}
  BY <1>2, Counted, FS_EmptySet
<1>4. \A s \in Sender : pc[s] = "idle"
  BY <1>3 DEF Active
<1>5. pendPh = 0
  BY <1>2 DEF PacketgoRef, TypeOK
<1>6. cmdLock = NoSender
  BY <1>4 DEF Wire, LockInv, Holds, TypeOK
<1>7. tpc \notin {"enable", "disable", "put"} /\ ~(tpc = "idle" /\ link = "on")
  BY <1>2 DEF TailRef
<1> QED BY <1>4, <1>5, <1>6, <1>7

(* A transfer that is under way holds the link awake. *)
LEMMA Awake ==
  ASSUME TypeOK, Wire, NEW s \in Sender, pc[s] # "idle"
  PROVE  ~asleep /\ usage # 0
BY Quiet DEF Wire, SleepInv

-----------------------------------------------------------------------------
(* Runtime PM *)

LEMMA ResumeDoes ==
  ASSUME TypeOK, Wire, ~asleep, Resume
  PROVE  /\ state' \in States /\ rpm' \in {"active", "suspended"} /\ rpmError' \in BOOLEAN
         /\ state' = IF state = "ULPS" THEN "HSCLKEN" ELSE state
         /\ irqDepth' = (IF state' = "HSCLKEN" THEN 0 ELSE 1) /\ irqDepth' \in Nat
         /\ rpmError' => rpm' = "suspended" /\ (rpmError \/ state = "BYPASS")
         /\ (rpm = "active" \/ ~rpmError) /\ state # "BYPASS" => rpm' = "active" /\ ~rpmError'
         /\ rpm = "active" => rpm' = "active" /\ ~rpmError'
<1>1. state = "ULPS" => ~rpmError
  BY DEF Wire, ErrorInv
<1>2. irqDepth = (IF state = "HSCLKEN" THEN 0 ELSE 1) /\ (rpmError => rpm = "suspended")
  BY DEF Wire, IrqInv, ErrorInv
<1>3. state \in States /\ rpm \in {"active", "suspended"} /\ rpmError \in BOOLEAN
  BY DEF TypeOK
<1>4. CASE CanResume
  <2>1. rpm' = "active" /\ rpmError' = rpmError /\ (rpm = "active" \/ (~rpmError /\ state # "BYPASS"))
    BY <1>4 DEF Resume, CanResume
  <2>2. ~rpmError
    BY <1>2, <2>1
  <2>3. CASE state = "ULPS"
    <3>1. state' = "HSCLKEN" /\ irqDepth' = irqDepth - 1
      BY <1>4, <2>3 DEF Resume
    <3> QED BY <1>2, <1>3, <2>1, <2>2, <2>3, <3>1 DEF States
  <2>4. CASE state # "ULPS"
    <3>1. state' = state /\ irqDepth' = irqDepth
      BY <1>4, <2>4 DEF Resume
    <3> QED BY <1>2, <1>3, <2>1, <2>2, <2>4, <3>1
  <2> QED BY <2>3, <2>4
<1>5. CASE ~CanResume
  <2>1. rpmError' = TRUE /\ state' = state /\ rpm' = rpm /\ irqDepth' = irqDepth /\ rpm # "active" /\ (rpmError \/ state = "BYPASS")
    BY <1>5 DEF Resume, CanResume
  <2>2. state # "ULPS"
    BY <1>1, <2>1
  <2> QED BY <1>2, <1>3, <2>1, <2>2
<1> QED BY <1>4, <1>5

-----------------------------------------------------------------------------
(* The steps of a transfer *)

(* cmd_lock is taken, kept and let go with pc. *)
LEMMA StepMoves ==
  ASSUME TypeOK, Wire, NEW s \in Sender, Step(s)
  PROVE  /\ UNCHANGED <<drm, power, job, messages>> /\ pc[s] # "idle"
         /\ \E p \in {"idle", "ready", "flush", "read", "put"} :
              /\ pc' = [pc EXCEPT ![s] = p]
              /\ \/ pc[s] = "got" /\ cmdLock = NoSender /\ p = "put" /\ cmdLock' = NoSender
                 \/ pc[s] = "got" /\ cmdLock = NoSender /\ p \in {"ready", "flush", "read"} /\ cmdLock' = s /\ state = "HSCLKEN"
                 \/ pc[s] = "ready" /\ p = "flush" /\ cmdLock' = cmdLock
                 \/ pc[s] \in {"flush", "read"} /\ p = "put" /\ cmdLock' = NoSender
                 \/ pc[s] = "put" /\ p = "idle" /\ cmdLock' = cmdLock /\ Puts(s)
<1>1. CASE FindsLinkOff(s) \/ BeginsBatch(s) \/ RefusesCommand(s) \/ QueuesCommand(s)
  BY <1>1 DEF FindsLinkOff, BeginsBatch, RefusesCommand, QueuesCommand, Goto, Locked, writeRest
<1>2. CASE EndsBatch(s) \/ QueuesLastCommand(s) \/ WritesCommand(s) \/ Reads(s)
  BY <1>2 DEF EndsBatch, QueuesLastCommand, WritesCommand, Reads, Goto, Locked, writeRest
<1>3. CASE MakesReady(s) \/ Flushed(s) \/ FlushTimesOut(s) \/ ReadEnds(s)
  BY <1>3 DEF MakesReady, Flushed, FlushTimesOut, ReadEnds, Flush, Goto, writeRest
<1>4. CASE Puts(s)
  BY <1>4 DEF Puts, Goto
<1> QED BY <1>1, <1>2, <1>3, <1>4 DEF Step

LEMMA StepLock ==
  ASSUME TypeOK, Wire, NEW s \in Sender, Step(s)
  PROVE  LockInv' /\ cmdLock' \in Sender \cup {NoSender}
         /\ pc' \in [Sender -> {"idle", "got", "ready", "flush", "read", "put"}]
<1>1. PICK p \in {"idle", "ready", "flush", "read", "put"} :
        /\ pc' = [pc EXCEPT ![s] = p]
        /\ \/ pc[s] = "got" /\ cmdLock = NoSender /\ p = "put" /\ cmdLock' = NoSender
           \/ pc[s] = "got" /\ cmdLock = NoSender /\ p \in {"ready", "flush", "read"} /\ cmdLock' = s /\ state = "HSCLKEN"
           \/ pc[s] = "ready" /\ p = "flush" /\ cmdLock' = cmdLock
           \/ pc[s] \in {"flush", "read"} /\ p = "put" /\ cmdLock' = NoSender
           \/ pc[s] = "put" /\ p = "idle" /\ cmdLock' = cmdLock /\ Puts(s)
  BY StepMoves
<1>2. state' = state
  BY StepMoves DEF power
<1>3. \A t \in Sender : pc'[t] = IF t = s THEN p ELSE pc[t]
  BY <1>1 DEF TypeOK
<1>4. LockInv /\ NoSender \notin Sender
  BY SenderAssumption DEF Wire
<1>5. \A t \in Sender : Holds(t)' <=> cmdLock' = t
  BY <1>1, <1>3, <1>4 DEF LockInv, Holds
<1>6. cmdLock' # NoSender => state' = "HSCLKEN"
  BY <1>1, <1>2, <1>4 DEF LockInv
<1>7. cmdLock' \in Sender \cup {NoSender}
  BY <1>1 DEF TypeOK
<1>8. pc' \in [Sender -> {"idle", "got", "ready", "flush", "read", "put"}]
  BY <1>1 DEF TypeOK
<1> QED BY <1>5, <1>6, <1>7, <1>8 DEF LockInv

(* The counters and references of the queue, and its packets. *)
Packet == [pl : Nat, held : BOOLEAN]

LEMMA Numbers ==
  ASSUME TypeOK
  PROVE  /\ MaxPh \in Nat /\ MaxPl \in Nat /\ Threshold \in Nat /\ Threshold <= MaxPl /\ MaxPh > 1
         /\ pendPh \in Nat /\ pendPl \in Nat /\ pendPh <= MaxPh /\ pendPl <= MaxPl
         /\ \A s \in Sender : msg[s].pl \in Payload \cup {0} /\ msg[s].pl \in Nat
<1>1. MaxPh \in Nat /\ MaxPl \in Nat /\ Threshold \in Nat /\ Threshold <= MaxPl /\ MaxPh > 1
  BY FifoAssumption
<1>2. pendPh \in Nat /\ pendPl \in Nat /\ pendPh <= MaxPh /\ pendPl <= MaxPl
  BY <1>1 DEF TypeOK
<1>3. \A s \in Sender : msg[s].pl \in Payload \cup {0}
  BY DEF TypeOK, Message
<1>4. \A s \in Sender : msg[s].pl \in Nat
  <2>1. Payload \cup {0} \subseteq Nat
    BY PayloadAssumption
  <2> QED BY <1>3, <2>1
<1> QED BY <1>1, <1>2, <1>3, <1>4

LEMMA QueueDoes ==
  ASSUME TypeOK, NEW s \in Sender, ~TooLong(s), Queue(s)
  PROVE  /\ pendPh < MaxPh /\ pendPh' = pendPh + 1 /\ pendPl' = pendPl + msg[s].pl
         /\ pendPh' \in 0 .. MaxPh /\ pendPl' \in 0 .. MaxPl /\ pendPh' > 0
         /\ usage' = usage + PacketgoRef' - PacketgoRef
         /\ fifo' = Append(fifo, [pl |-> msg[s].pl, held |-> TRUE]) /\ fifo' \in Seq(Packet)
         /\ packetgo' = TRUE /\ UNCHANGED <<ready, stuck, batching, refused>>
<1>1. /\ pendPh' = pendPh + 1 /\ pendPl' = pendPl + msg[s].pl /\ packetgo' = TRUE
      /\ fifo' = Append(fifo, [pl |-> msg[s].pl, held |-> TRUE])
      /\ usage' = usage + (IF pendPh = 0 THEN 1 ELSE 0)
      /\ UNCHANGED <<ready, stuck, batching, refused>>
  BY DEF Queue, Words
<1>2. pendPh < MaxPh /\ pendPl + msg[s].pl <= MaxPl
  BY Numbers DEF TooLong, Words
<1>3. pendPh' \in 0 .. MaxPh /\ pendPl' \in 0 .. MaxPl /\ pendPh' > 0
  BY <1>1, <1>2, Numbers
<1>4. PacketgoRef' = 1 /\ PacketgoRef = (IF pendPh > 0 THEN 1 ELSE 0)
  BY <1>3 DEF PacketgoRef
<1>5. usage \in Int /\ pendPh \in Nat
  BY DEF TypeOK
<1>6. usage' = usage + PacketgoRef' - PacketgoRef
  BY <1>1, <1>4, <1>5
<1>7. fifo' \in Seq(Packet)
  <2>1. [pl |-> msg[s].pl, held |-> TRUE] \in Packet /\ fifo \in Seq(Packet)
    BY Numbers DEF Packet, TypeOK
  <2> QED BY <1>1, <2>1
<1> QED BY <1>1, <1>2, <1>3, <1>6, <1>7

LEMMA FlushDoes ==
  ASSUME TypeOK, NEW s \in Sender, Flush(s)
  PROVE  /\ pendPh' = 0 /\ pendPl' = (IF pendPh > 0 THEN 0 ELSE pendPl)
         /\ pendPh' \in 0 .. MaxPh /\ pendPl' \in 0 .. MaxPl
         /\ usage' = usage + PacketgoRef' - PacketgoRef
         /\ ~packetgo' /\ ~ready' /\ UNCHANGED <<batching, refused, fifo>>
<1>1. /\ pendPh' = 0 /\ pendPl' = (IF pendPh > 0 THEN 0 ELSE pendPl) /\ usage' = usage - PacketgoRef
      /\ ~packetgo' /\ ~ready' /\ UNCHANGED <<batching, refused, fifo>>
  BY DEF Flush, GiveUpPending
<1>2. PacketgoRef' = 0 /\ PacketgoRef \in Nat /\ usage \in Int
  BY <1>1, Counted DEF PacketgoRef, TypeOK
<1>3. usage' = usage + PacketgoRef' - PacketgoRef
  BY <1>1, <1>2
<1> QED BY <1>1, <1>3, Numbers

LEMMA StepQueue ==
  ASSUME TypeOK, Wire, NEW s \in Sender, Step(s)
  PROVE  /\ usage' = usage + PacketgoRef' - PacketgoRef - IF Puts(s) THEN 1 ELSE 0
         /\ pendPh' \in 0 .. MaxPh /\ pendPl' \in 0 .. MaxPl /\ fifo' \in Seq(Packet)
<1>1. usage \in Int /\ pendPh \in 0 .. MaxPh /\ pendPl \in 0 .. MaxPl /\ fifo \in Seq(Packet) /\ PacketgoRef \in Nat
  BY Counted DEF TypeOK, Packet
<1>2. ~Puts(s) \/ pc[s] = "put"
  BY DEF Puts
<1>3. CASE FindsLinkOff(s) \/ BeginsBatch(s) \/ EndsBatch(s) \/ RefusesCommand(s) \/ MakesReady(s)
  <2>1. UNCHANGED <<usage, pendPh, pendPl, fifo>> /\ ~Puts(s)
    BY <1>2, <1>3 DEF FindsLinkOff, BeginsBatch, EndsBatch, RefusesCommand, MakesReady, queue, hw, Locked
  <2>2. PacketgoRef' = PacketgoRef
    BY <2>1 DEF PacketgoRef
  <2> QED BY <1>1, <2>1, <2>2
<1>4. CASE QueuesCommand(s) \/ QueuesLastCommand(s)
  <2>1. ~TooLong(s) /\ Queue(s) /\ ~Puts(s)
    BY <1>2, <1>4 DEF QueuesCommand, QueuesLastCommand, Locked
  <2>2. PacketgoRef' \in Nat
    BY DEF PacketgoRef
  <2>3. usage' = usage + PacketgoRef' - PacketgoRef
    BY <2>1, QueueDoes
  <2>4. usage' = usage + PacketgoRef' - PacketgoRef - IF Puts(s) THEN 1 ELSE 0
    BY <1>1, <2>1, <2>2, <2>3
  <2> QED BY <2>1, <2>4, QueueDoes
<1>5. CASE WritesCommand(s)
  <2>1. /\ UNCHANGED <<usage, pendPh>> /\ pendPl' = msg[s].pl /\ ~Puts(s)
        /\ fifo' = Append(fifo, [pl |-> msg[s].pl, held |-> FALSE])
    BY <1>2, <1>5 DEF WritesCommand, Locked
  <2>2. PacketgoRef' = PacketgoRef
    BY <2>1 DEF PacketgoRef
  <2>3. [pl |-> msg[s].pl, held |-> FALSE] \in Packet
    BY Numbers DEF Packet
  <2>4. fifo' \in Seq(Packet)
    BY <1>1, <2>1, <2>3
  <2>5. pendPl' \in 0 .. MaxPl
    <3>1. ~TooLong(s)
      BY <1>5 DEF WritesCommand
    <3>2. pendPl + msg[s].pl <= MaxPl
      BY <3>1, Numbers DEF TooLong, Words
    <3> QED BY <2>1, <3>2, Numbers
  <2>6. usage' = usage + PacketgoRef' - PacketgoRef - IF Puts(s) THEN 1 ELSE 0
    BY <1>1, <2>1, <2>2
  <2> QED BY <1>1, <2>1, <2>4, <2>5, <2>6
<1>6. CASE Flushed(s) \/ FlushTimesOut(s)
  <2>1. Flush(s) /\ ~Puts(s)
    BY <1>2, <1>6 DEF Flushed, FlushTimesOut
  <2>2. PacketgoRef' \in Nat
    BY DEF PacketgoRef
  <2>3. usage' = usage + PacketgoRef' - PacketgoRef /\ fifo' = fifo
    BY <2>1, FlushDoes
  <2>4. usage' = usage + PacketgoRef' - PacketgoRef - IF Puts(s) THEN 1 ELSE 0
    BY <1>1, <2>1, <2>2, <2>3
  <2> QED BY <1>1, <2>1, <2>3, <2>4, FlushDoes
<1>7. CASE Reads(s)
  <2>1. UNCHANGED <<usage, pendPh, pendPl>> /\ ~Puts(s)
        /\ fifo' = fifo \o [i \in 1 .. 2 |-> [pl |-> 0, held |-> packetgo]]
    BY <1>2, <1>7 DEF Reads, Locked, queue
  <2>2. PacketgoRef' = PacketgoRef
    BY <2>1 DEF PacketgoRef
  <2>3. fifo' \in Seq(Packet)
    <3>1. [pl |-> 0, held |-> packetgo] \in Packet
      BY DEF Packet, TypeOK
    <3>2. [i \in 1 .. 2 |-> [pl |-> 0, held |-> packetgo]] \in Seq(Packet)
      BY <3>1
    <3> QED BY <1>1, <2>1, <3>2
  <2> QED BY <1>1, <2>1, <2>2, <2>3
<1>8. CASE ReadEnds(s)
  <2>1. UNCHANGED <<usage, pendPh, pendPl, fifo>> /\ ~Puts(s)
    BY <1>2, <1>8 DEF ReadEnds, queue
  <2>2. PacketgoRef' = PacketgoRef
    BY <2>1 DEF PacketgoRef
  <2> QED BY <1>1, <2>1, <2>2
<1>9. CASE Puts(s)
  <2>1. UNCHANGED <<pendPh, pendPl, fifo>> /\ usage' = usage - 1
    BY <1>9 DEF Puts, queue, hw
  <2>2. PacketgoRef' = PacketgoRef
    BY <2>1 DEF PacketgoRef
  <2> QED BY <1>1, <1>9, <2>1, <2>2
<1> QED BY <1>3, <1>4, <1>5, <1>6, <1>7, <1>8, <1>9 DEF Step

LEMMA StepTyped ==
  ASSUME TypeOK, Wire, NEW s \in Sender, Step(s)
  PROVE  /\ msg' \in [Sender -> Message] /\ batching' \in BOOLEAN /\ refused' \in BOOLEAN
         /\ packetgo' \in BOOLEAN /\ ready' \in BOOLEAN /\ stuck' \in BOOLEAN
<1>1. /\ batching \in BOOLEAN /\ refused \in BOOLEAN /\ packetgo \in BOOLEAN /\ ready \in BOOLEAN /\ stuck \in BOOLEAN
      /\ msg \in [Sender -> Message]
  BY DEF TypeOK
<1>2. CASE FindsLinkOff(s) \/ BeginsBatch(s) \/ EndsBatch(s) \/ MakesReady(s)
  BY <1>1, <1>2 DEF FindsLinkOff, BeginsBatch, EndsBatch, MakesReady, writeRest, queue, hw
<1>3. CASE QueuesCommand(s) \/ QueuesLastCommand(s) \/ WritesCommand(s)
  BY <1>1, <1>3 DEF QueuesCommand, QueuesLastCommand, WritesCommand, Queue, writeRest
<1>4. CASE RefusesCommand(s)
  <2> DEFINE b == refused \/ msg[s].pl <= MaxPl - Threshold
  <2>1. refused' = b /\ UNCHANGED <<msg, batching, packetgo, ready, stuck>>
    BY <1>4 DEF RefusesCommand, writeRest, hw
  <2>2. b \in BOOLEAN
    OBVIOUS
  <2> HIDE DEF b
  <2> QED BY <1>1, <2>1, <2>2
<1>5. CASE Flushed(s) \/ FlushTimesOut(s)
  <2>1. UNCHANGED <<msg, batching, refused>> /\ packetgo' = FALSE /\ ready' = FALSE
    BY <1>5 DEF Flushed, FlushTimesOut, Flush, writeRest
  <2> DEFINE b == stuck \/ Released
  <2>2. stuck' = stuck \/ stuck' = b
    BY <1>5 DEF Flushed, FlushTimesOut
  <2>3. b \in BOOLEAN
    OBVIOUS
  <2> HIDE DEF b
  <2> QED BY <1>1, <2>1, <2>2, <2>3
<1>6. CASE Reads(s) \/ ReadEnds(s)
  <2>1. UNCHANGED <<msg, batching, refused, packetgo, ready>>
    BY <1>6 DEF Reads, ReadEnds, writeRest, queue
  <2> DEFINE b == stuck \/ (fifo # <<>> /\ Released)
  <2>2. stuck' = stuck \/ stuck' = b
    BY <1>6 DEF Reads, ReadEnds
  <2>3. b \in BOOLEAN
    OBVIOUS
  <2> HIDE DEF b
  <2> QED BY <1>1, <2>1, <2>2, <2>3
<1>7. CASE Puts(s)
  <2>1. NoMessage \in Message
    BY DEF NoMessage, Message, Kinds
  <2>2. UNCHANGED <<batching, refused, packetgo, ready, stuck>> /\ msg' = [msg EXCEPT ![s] = NoMessage]
    BY <1>7 DEF Puts, queue, hw
  <2> QED BY <1>1, <2>1, <2>2
<1> QED BY <1>2, <1>3, <1>4, <1>5, <1>6, <1>7 DEF Step

LEMMA StepWire ==
  ASSUME TypeOK, Wire, NEW s \in Sender, Step(s)
  PROVE  TypeOK' /\ Wire'
<1>1. UNCHANGED <<link, tpc, asleep, resumes, state, rpm, rpmError, irqDepth, job, messages>> /\ pc[s] # "idle"
  BY StepMoves DEF drm, power
<1>2. ~asleep
  BY <1>1, Awake
<1>3. UsageBalanced'
  <2>1. PICK p \in {"idle", "ready", "flush", "read", "put"} : pc' = [pc EXCEPT ![s] = p] /\ (p = "idle" <=> Puts(s))
    <3>1. Puts(s) => pc' = [pc EXCEPT ![s] = "idle"]
      BY DEF Puts, Goto
    <3>2. PICK p \in {"idle", "ready", "flush", "read", "put"} : pc' = [pc EXCEPT ![s] = p] /\ (p = "idle" => Puts(s))
      BY StepMoves
    <3>3. Puts(s) => p = "idle"
      BY <3>1, <3>2 DEF TypeOK
    <3> QED BY <3>2, <3>3
  <2>2. Cardinality(Active') = Cardinality(Active) - IF Puts(s) THEN 1 ELSE 0
    <3>1. Cardinality(Active) \in Nat
      BY Counted
    <3>2. CASE Puts(s)
      BY <1>1, <2>1, <3>2, ActiveMoves
    <3>3. CASE ~Puts(s)
      <4>1. Active' = Active
        BY <1>1, <2>1, <3>3, ActiveMoves
      <4> QED BY <3>1, <3>3, <4>1
    <3> QED BY <3>2, <3>3
  <2>3. usage' = usage + PacketgoRef' - PacketgoRef - IF Puts(s) THEN 1 ELSE 0
    BY StepQueue
  <2>4. TailRef' = TailRef
    BY <1>1 DEF TailRef
  <2>5. usage = Cardinality(Active) + PacketgoRef + TailRef
    BY Balanced DEF Wire
  <2>6. Cardinality(Active) \in Nat /\ PacketgoRef \in Nat /\ TailRef \in Nat /\ PacketgoRef' \in Nat
    BY Counted DEF PacketgoRef
  <2>7. usage' = Cardinality(Active') + PacketgoRef' + TailRef'
    BY <2>2, <2>3, <2>4, <2>5, <2>6
  <2> QED BY <2>7 DEF UsageBalanced, Active, TailRef
<1>4. usage' \in Nat
  <2>1. usage' = Cardinality(Active') + PacketgoRef' + TailRef'
    BY <1>3 DEF UsageBalanced, Active, TailRef
  <2>2. Cardinality(Active') \in Nat /\ PacketgoRef' \in Nat /\ TailRef' \in Nat
    BY CountedNext
  <2> QED BY <2>1, <2>2
<1>5. TypeOK'
  BY <1>1, <1>4, StepLock, StepQueue, StepTyped DEF TypeOK, Packet
<1>6. TailInv' /\ ErrorInv' /\ IrqInv'
  BY <1>1 DEF Wire, TailInv, ErrorInv, IrqInv
<1>7. SleepInv'
  BY <1>1, <1>2 DEF SleepInv
<1> QED BY <1>3, <1>5, <1>6, <1>7, StepLock DEF Wire

-----------------------------------------------------------------------------
(* The start of a transfer *)

LEMMA UlpsIs == ASSUME TypeOK, Wire, state = "ULPS" PROVE tpc = "idle" /\ link = "sleep" /\ cmdLock = NoSender
BY DEF TypeOK, Wire, TailInv, LockInv, TailPcs, Links

LEMMA TransferWire ==
  ASSUME TypeOK, Wire, NEW s \in Sender, NEW m \in Message, Transfer(s, m)
  PROVE  TypeOK' /\ Wire'
<1>1. ~asleep /\ pc[s] = "idle" /\ Resume /\ UNCHANGED <<link, tpc, asleep, resumes, cmdLock, queue, hw>>
  BY DEF Transfer, drm
<1>2. /\ state' \in States /\ rpm' \in {"active", "suspended"} /\ rpmError' \in BOOLEAN /\ irqDepth' \in Nat
      /\ state' = IF state = "ULPS" THEN "HSCLKEN" ELSE state
      /\ irqDepth' = (IF state' = "HSCLKEN" THEN 0 ELSE 1)
      /\ rpmError' => rpm' = "suspended"
      /\ state = "ULPS" => ~rpmError'
  <2>1. state = "ULPS" => ~rpmError
    BY <1>1 DEF Wire, ErrorInv
  <2> QED BY <1>1, <2>1, ResumeDoes
<1>3. /\ messages' \in 0 .. MaxMessages /\ job' \in [Sender -> {"none", "set", "batch"}]
  <2>1. messages' = messages + (IF Closes(s, m) THEN 0 ELSE 1) /\ (Closes(s, m) \/ messages < MaxMessages)
        /\ job' = [job EXCEPT ![s] = NextJob(job[s], m)]
    BY DEF Transfer
  <2>2. messages' \in 0 .. MaxMessages
    BY <2>1, RacesAssumption DEF TypeOK
  <2>3. NextJob(job[s], m) \in {"none", "set", "batch"}
    BY DEF NextJob, Message, Kinds, TypeOK
  <2> QED BY <2>1, <2>2, <2>3 DEF TypeOK
<1>4. PacketgoRef' = PacketgoRef /\ TailRef' = TailRef /\ UNCHANGED <<batching, pendPh, pendPl, refused, packetgo, ready, fifo, stuck>>
  BY <1>1 DEF PacketgoRef, TailRef, queue, hw
<1>5. /\ pc' \in [Sender -> {"idle", "got", "ready", "flush", "read", "put"}] /\ msg' \in [Sender -> Message]
      /\ usage' = Cardinality(Active') + PacketgoRef' + TailRef'
      /\ \A t \in Sender : Holds(t)' <=> Holds(t)
  <2>1. usage = Cardinality(Active) + PacketgoRef + TailRef
    BY Balanced DEF Wire
  <2>2. Cardinality(Active) \in Nat /\ PacketgoRef \in Nat /\ TailRef \in Nat
    BY Counted
  <2>3. CASE CanResume
    <3>1. pc' = [pc EXCEPT ![s] = "got"] /\ msg' = [msg EXCEPT ![s] = m] /\ usage' = usage + 1
      BY <2>3 DEF Transfer, Goto
    <3>2. Cardinality(Active') = Cardinality(Active) + 1
      <4>1. \E p \in {"got"} : pc' = [pc EXCEPT ![s] = p] /\ p # "idle"
        BY <3>1
      <4> QED BY <1>1, <4>1, ActiveMoves
    <3>3. usage' = Cardinality(Active') + PacketgoRef' + TailRef'
      BY <1>4, <2>1, <2>2, <3>1, <3>2
    <3>4. \A t \in Sender : Holds(t)' <=> Holds(t)
      BY <1>1, <3>1 DEF Holds, TypeOK
    <3> QED BY <3>1, <3>3, <3>4 DEF TypeOK
  <2>4. CASE ~CanResume
    <3>1. UNCHANGED <<pc, msg, usage>>
      BY <2>4 DEF Transfer
    <3>2. Active' = Active
      BY <3>1 DEF Active
    <3>3. usage' = Cardinality(Active') + PacketgoRef' + TailRef'
      BY <1>4, <2>1, <3>1, <3>2
    <3>4. \A t \in Sender : Holds(t)' <=> Holds(t)
      BY <3>1 DEF Holds
    <3> QED BY <3>1, <3>3, <3>4 DEF TypeOK
  <2> QED BY <2>3, <2>4
<1>6. usage' \in Nat
  BY <1>5, CountedNext
<1>7. TypeOK'
  BY <1>1, <1>2, <1>3, <1>4, <1>5, <1>6 DEF TypeOK
<1>8. LockInv'
  BY <1>1, <1>2, <1>5 DEF Wire, LockInv
<1>9. TailInv'
  BY <1>1, <1>2, UlpsIs DEF Wire, TailInv
<1>10. SleepInv'
  BY <1>1 DEF SleepInv
<1>11. ErrorInv'
  <2>1. state' # "ULPS"
    BY <1>2
  <2> QED BY <1>2, <2>1 DEF ErrorInv
<1>12. IrqInv' /\ UsageBalanced'
  BY <1>2, <1>5 DEF IrqInv, UsageBalanced, Active, TailRef
<1> QED BY <1>7, <1>8, <1>9, <1>10, <1>11, <1>12 DEF Wire

-----------------------------------------------------------------------------
(* The commit tail *)

(* What a step keeps that moves no transfer. *)
LEMMA SendersStay ==
  ASSUME TypeOK, Wire, UNCHANGED <<callers, cmdLock>>, cmdLock # NoSender => state' = "HSCLKEN",
         pendPh' = pendPh, usage' = usage + TailRef' - TailRef
  PROVE  LockInv' /\ UsageBalanced' /\ usage' \in Nat
<1>1. UNCHANGED <<pc, msg, job, messages>>
  BY DEF callers
<1>2. LockInv'
  BY <1>1 DEF Wire, LockInv, Holds
<1>3. Active' = Active /\ PacketgoRef' = PacketgoRef
  BY <1>1 DEF Active, PacketgoRef
<1>4. usage = Cardinality(Active) + PacketgoRef + TailRef
  BY Balanced DEF Wire
<1>5. Cardinality(Active) \in Nat /\ PacketgoRef \in Nat /\ TailRef \in Nat /\ TailRef' \in Nat
  BY Counted, CountedNext
<1>6. usage' = Cardinality(Active') + PacketgoRef' + TailRef' /\ usage' \in Nat
  BY <1>3, <1>4, <1>5
<1> QED BY <1>2, <1>6 DEF UsageBalanced, Active, TailRef

LEMMA TailResumes ==
  ASSUME TypeOK, Wire, EnablesFromSleep \/ Enables \/ Disables
  PROVE  TypeOK' /\ Wire'
<1>1. ~asleep /\ tpc = "idle" /\ UNCHANGED <<asleep, resumes, callers, cmdLock, queue, hw>>
  BY DEF EnablesFromSleep, Enables, Disables, TailIdle
<1>2. CASE EnablesFromSleep \/ Enables \/ (Disables /\ link = "sleep")
  <2>1. Resume /\ usage' = usage + 1 /\ link \in {"sleep", "off"}
    BY <1>2 DEF EnablesFromSleep, Enables, Disables
  <2>2. /\ state' \in States /\ rpm' \in {"active", "suspended"} /\ rpmError' \in BOOLEAN /\ irqDepth' \in Nat
        /\ state' = IF state = "ULPS" THEN "HSCLKEN" ELSE state
        /\ irqDepth' = (IF state' = "HSCLKEN" THEN 0 ELSE 1)
        /\ rpmError' => rpm' = "suspended"
    BY <1>1, <2>1, ResumeDoes
  <2>3. /\ link' \in Links /\ tpc' \in TailPcs
        /\ \/ link = "sleep" /\ link' = "on" /\ tpc' = "idle"
           \/ link = "off" /\ link' = "on" /\ tpc' = "enable"
           \/ link = "sleep" /\ link' = "off" /\ tpc' = "disable"
    BY <1>1, <1>2 DEF EnablesFromSleep, Enables, Disables, Links, TailPcs
  <2>4. TailRef = 0 /\ TailRef' = 1
    BY <1>1, <2>3 DEF TailRef
  <2>5. pendPh' = pendPh
    BY <1>1 DEF queue
  <2>6. cmdLock # NoSender => state' = "HSCLKEN"
    BY <2>2 DEF Wire, LockInv
  <2>7. usage' = usage + TailRef' - TailRef
    BY <2>1, <2>4 DEF TypeOK
  <2>8. LockInv' /\ UsageBalanced' /\ usage' \in Nat
    BY <1>1, <2>5, <2>6, <2>7, SendersStay
  <2>9. TypeOK'
    BY <1>1, <2>2, <2>3, <2>8 DEF TypeOK, callers, queue, hw
  <2>10. TailInv'
    BY <1>1, <2>2, <2>3 DEF Wire, TailInv
  <2>11. SleepInv' /\ ErrorInv' /\ IrqInv'
    BY <1>1, <2>2 DEF SleepInv, ErrorInv, IrqInv
  <2> QED BY <2>8, <2>9, <2>10, <2>11 DEF Wire
<1>3. CASE Disables /\ link # "sleep"
  <2>1. link = "on" /\ link' \in {"off", "bypass"} /\ tpc' = "disable" /\ UNCHANGED <<power, usage>>
    BY <1>3 DEF Disables
  <2>2. UNCHANGED <<state, rpm, rpmError, irqDepth>> /\ pendPh' = pendPh
    BY <1>1, <2>1 DEF power, queue
  <2>3. TailRef = 1 /\ TailRef' = 1
    BY <1>1, <2>1 DEF TailRef
  <2>4. usage' = usage + TailRef' - TailRef
    BY <2>1, <2>3 DEF TypeOK
  <2>5. LockInv' /\ UsageBalanced' /\ usage' \in Nat
    BY <1>1, <2>2, <2>4, SendersStay DEF Wire, LockInv
  <2>6. link' \in Links /\ tpc' \in TailPcs
    BY <2>1 DEF Links, TailPcs
  <2>7. TypeOK'
    BY <1>1, <2>2, <2>5, <2>6 DEF TypeOK, callers, queue, hw
  <2>8. TailInv'
    BY <1>1, <2>1, <2>2 DEF Wire, TailInv
  <2>9. SleepInv' /\ ErrorInv' /\ IrqInv'
    BY <1>1, <2>2 DEF SleepInv, ErrorInv, IrqInv, Wire
  <2> QED BY <2>5, <2>7, <2>8, <2>9 DEF Wire
<1> QED BY <1>2, <1>3

LEMMA TailWalks ==
  ASSUME TypeOK, Wire, LeavesBypass \/ LeftBypass \/ Sleeps \/ DisabledPuts \/ EntersBypass
  PROVE  TypeOK' /\ Wire'
<1>1. ~asleep /\ UNCHANGED <<asleep, resumes, irqDepth, callers, cmdLock, queue, hw>>
  BY DEF LeavesBypass, LeftBypass, Sleeps, DisabledPuts, EntersBypass, TailIdle, power, Wire, SleepInv
<1>2. pendPh' = pendPh
  BY <1>1 DEF queue
<1>3. /\ link' \in Links /\ tpc' \in TailPcs /\ state' \in States
      /\ \/ link = "bypass" /\ tpc = "idle" /\ link' \in {"on", "off"} /\ tpc' = "leaveBypass" /\ state' = state /\ usage' = usage
         \/ link = "off" /\ tpc = "leaveBypass" /\ link' = link /\ state' = "SUSPEND" /\ tpc' = "idle" /\ usage' = usage
         \/ link = "on" /\ tpc = "leaveBypass" /\ link' = link /\ state' = "SUSPEND" /\ tpc' = "enable" /\ usage' = usage + 1
         \/ link = "on" /\ tpc = "idle" /\ link' = "sleep" /\ tpc' = tpc /\ state' = state /\ usage' = usage - 1
         \/ link = "bypass" /\ tpc = "put" /\ link' = link /\ tpc' = "enterBypass" /\ state' = state /\ usage' = usage - 1
         \/ link = "off" /\ tpc = "put" /\ link' = link /\ tpc' = "idle" /\ state' = state /\ usage' = usage - 1
         \/ link = "bypass" /\ tpc = "enterBypass" /\ link' = link /\ tpc' = "idle" /\ state' = "BYPASS" /\ usage' = usage
  <2>1. CASE LeavesBypass
    BY <2>1 DEF LeavesBypass, TailIdle, TypeOK, Links, TailPcs
  <2>2. CASE LeftBypass
    <3>1. link \in {"on", "off"}
      BY <2>2 DEF LeftBypass, Wire, TailInv
    <3> QED BY <2>2, <3>1 DEF LeftBypass, TypeOK, TailPcs, States
  <2>3. CASE Sleeps
    BY <2>3 DEF Sleeps, TailIdle, TypeOK, Links, power
  <2>4. CASE DisabledPuts
    <3>1. link \in {"off", "bypass"}
      BY <2>4 DEF DisabledPuts, Wire, TailInv
    <3> QED BY <2>4, <3>1 DEF DisabledPuts, TypeOK, TailPcs, power
  <2>5. CASE EntersBypass
    <3>1. link = "bypass"
      BY <2>5 DEF EntersBypass, Wire, TailInv
    <3> QED BY <2>5, <3>1 DEF EntersBypass, TypeOK, TailPcs, States
  <2> QED BY <2>1, <2>2, <2>3, <2>4, <2>5
<1>4. /\ rpm' \in {"active", "suspended"} /\ rpmError' \in BOOLEAN /\ (rpmError' => rpm' = "suspended")
      /\ (rpmError' => rpmError)
  <2>1. rpm \in {"active", "suspended"} /\ rpmError \in BOOLEAN /\ (rpmError => rpm = "suspended")
    BY DEF TypeOK, Wire, ErrorInv
  <2>2. CASE LeavesBypass
    BY <2>1, <2>2 DEF LeavesBypass
  <2>3. CASE LeftBypass
    <3>1. UNCHANGED <<rpm, rpmError>> \/ (~rpmError /\ rpmError' = rpmError /\ rpm' = "active")
      BY <2>3 DEF LeftBypass
    <3> QED BY <2>1, <3>1
  <2>4. CASE Sleeps \/ DisabledPuts \/ EntersBypass
    BY <2>1, <2>4 DEF Sleeps, DisabledPuts, EntersBypass, power
  <2> QED BY <2>2, <2>3, <2>4
<1>5. usage' = usage + TailRef' - TailRef
  BY <1>3 DEF TailRef, TypeOK
<1>6. state = "HSCLKEN" => state' = "HSCLKEN"
  BY <1>3 DEF Wire, TailInv
<1>7. LockInv' /\ UsageBalanced' /\ usage' \in Nat
  BY <1>1, <1>2, <1>5, <1>6, SendersStay DEF Wire, LockInv
<1>8. TypeOK'
  BY <1>1, <1>3, <1>4, <1>7 DEF TypeOK, callers, queue, hw
<1>9. TailInv'
  BY <1>3 DEF Wire, TailInv
<1>10. SleepInv'
  BY <1>1 DEF SleepInv
<1>11. ErrorInv'
  <2>1. state' = "ULPS" => state = "ULPS"
    BY <1>3
  <2> QED BY <1>1, <1>4, <2>1 DEF Wire, ErrorInv
<1>12. IrqInv'
  <2>1. state' = "HSCLKEN" <=> state = "HSCLKEN"
    BY <1>3, <1>6
  <2> QED BY <1>1, <2>1 DEF Wire, IrqInv
<1> QED BY <1>7, <1>8, <1>9, <1>10, <1>11, <1>12 DEF Wire

(* The link is enabled; its hardware starts empty. *)
LEMMA EnabledWire == ASSUME TypeOK, Wire, Enabled PROVE TypeOK' /\ Wire'
<1>1. /\ tpc = "enable" /\ link = "on" /\ state \in {"SUSPEND", "HANDOVER"} /\ ~asleep
      /\ state' = "HSCLKEN" /\ irqDepth' = irqDepth - 1 /\ irqDepth = 1
      /\ tpc' = "idle" /\ UNCHANGED <<link, asleep, resumes, rpm, rpmError, usage, callers, cmdLock, queue>>
      /\ packetgo' = FALSE /\ ready' = FALSE /\ fifo' = <<>> /\ stuck' = stuck
  BY DEF Enabled, Reset, Wire, TailInv, IrqInv, SleepInv
<1>2. TailRef = 1 /\ TailRef' = 1
  BY <1>1 DEF TailRef
<1>3. pendPh' = pendPh /\ usage' = usage + TailRef' - TailRef
  BY <1>1, <1>2 DEF queue, TypeOK
<1>4. LockInv' /\ UsageBalanced' /\ usage' \in Nat
  BY <1>1, <1>3, SendersStay
<1>5. irqDepth' = 0 /\ state' \in States /\ tpc' \in TailPcs /\ fifo' \in Seq(Packet)
  BY <1>1 DEF States, TailPcs
<1>8. UNCHANGED <<link, asleep, resumes, rpm, rpmError, pc, msg, job, messages, cmdLock, batching, pendPh, pendPl, refused, stuck>>
  BY <1>1 DEF callers, queue
<1>9. packetgo' \in BOOLEAN /\ ready' \in BOOLEAN
  BY <1>1, Zenon
<1>10. irqDepth' \in Nat
  BY <1>5
<1>6. TypeOK'
  BY <1>4, <1>5, <1>8, <1>9, <1>10 DEF TypeOK, Packet
<1>7. TailInv' /\ SleepInv' /\ ErrorInv' /\ IrqInv'
  BY <1>1, <1>5 DEF TailInv, SleepInv, ErrorInv, IrqInv, Wire
<1> QED BY <1>4, <1>6, <1>7 DEF Wire

(* The link stops: pending commands and their reference are given up. *)
LEMMA GivenUp ==
  ASSUME TypeOK, Wire, UNCHANGED <<callers, cmdLock>>, cmdLock = NoSender, TailRef' = TailRef,
         GiveUpPending, usage' = usage - PacketgoRef
  PROVE  /\ LockInv' /\ UsageBalanced' /\ usage' \in Nat
         /\ pendPh' = 0 /\ pendPh' \in 0 .. MaxPh /\ pendPl' \in 0 .. MaxPl
<1>1. UNCHANGED <<pc, msg, job, messages>>
  BY DEF callers
<1>2. LockInv'
  BY <1>1 DEF Wire, LockInv, Holds
<1>3. pendPh' = 0 /\ pendPl' = IF pendPh > 0 THEN 0 ELSE pendPl
  BY DEF GiveUpPending
<1>4. pendPh' \in 0 .. MaxPh /\ pendPl' \in 0 .. MaxPl
  BY <1>3, Numbers
<1>5. Active' = Active /\ PacketgoRef' = 0
  BY <1>1, <1>3 DEF Active, PacketgoRef
<1>6. usage = Cardinality(Active) + PacketgoRef + TailRef
  BY Balanced DEF Wire
<1>7. Cardinality(Active) \in Nat /\ PacketgoRef \in Nat /\ TailRef \in Nat
  BY Counted
<1>8. usage' = Cardinality(Active') + PacketgoRef' + TailRef' /\ usage' \in Nat
  BY <1>5, <1>6, <1>7
<1> QED BY <1>2, <1>3, <1>4, <1>8 DEF UsageBalanced, Active, TailRef

LEMMA DisabledWire == ASSUME TypeOK, Wire, Disabled PROVE TypeOK' /\ Wire'
<1>1. /\ tpc = "disable" /\ cmdLock = NoSender /\ link \in {"off", "bypass"} /\ state = "HSCLKEN" /\ ~asleep
      /\ state' = "SUSPEND" /\ irqDepth' = irqDepth + 1 /\ irqDepth = 0
      /\ GiveUpPending /\ batching' = FALSE /\ usage' = usage - PacketgoRef /\ tpc' = "put"
      /\ UNCHANGED <<link, asleep, resumes, rpm, rpmError, callers, cmdLock, refused>>
      /\ packetgo' = FALSE /\ ready' = FALSE /\ fifo' = <<>> /\ stuck' = stuck
  BY DEF Disabled, Reset, Wire, TailInv, IrqInv, SleepInv
<1>2. TailRef' = TailRef
  BY <1>1 DEF TailRef
<1>3. LockInv' /\ UsageBalanced' /\ usage' \in Nat /\ pendPh' \in 0 .. MaxPh /\ pendPl' \in 0 .. MaxPl
  BY <1>1, <1>2, GivenUp
<1>4. irqDepth' = 1 /\ state' \in States /\ tpc' \in TailPcs /\ fifo' \in Seq(Packet)
  BY <1>1 DEF States, TailPcs
<1>7. UNCHANGED <<link, asleep, resumes, rpm, rpmError, pc, msg, job, messages, cmdLock, refused, stuck>>
  BY <1>1 DEF callers
<1>8. packetgo' \in BOOLEAN /\ ready' \in BOOLEAN /\ batching' \in BOOLEAN
  BY <1>1, Zenon
<1>9. irqDepth' \in Nat
  BY <1>4
<1>5. TypeOK'
  BY <1>3, <1>4, <1>7, <1>8, <1>9 DEF TypeOK, Packet
<1>6. TailInv' /\ SleepInv' /\ ErrorInv' /\ IrqInv'
  BY <1>1, <1>4 DEF TailInv, SleepInv, ErrorInv, IrqInv, Wire
<1> QED BY <1>3, <1>5, <1>6 DEF Wire

-----------------------------------------------------------------------------
(* Runtime PM and system sleep *)

(* ULPS is entered from a running link that nobody uses. *)
LEMMA UlpsEntered ==
  ASSUME TypeOK, Wire, EnterUlps, state = "HSCLKEN", cmdLock = NoSender, tpc = "idle", link = "sleep",
         UNCHANGED <<link, tpc, callers, cmdLock>>, usage' = usage - PacketgoRef
  PROVE  /\ LockInv' /\ UsageBalanced' /\ TailInv' /\ IrqInv' /\ state' = "ULPS"
         /\ usage' \in Nat /\ pendPh' \in 0 .. MaxPh /\ pendPl' \in 0 .. MaxPl
         /\ state' \in States /\ irqDepth' \in Nat /\ fifo' \in Seq(Packet)
         /\ packetgo' = FALSE /\ ready' = FALSE /\ fifo' = <<>> /\ UNCHANGED <<stuck, batching, refused>>
<1>1. /\ state' = "ULPS" /\ irqDepth' = irqDepth + 1 /\ irqDepth = 0 /\ GiveUpPending
      /\ packetgo' = FALSE /\ ready' = FALSE /\ fifo' = <<>> /\ UNCHANGED <<stuck, batching, refused>>
  BY DEF EnterUlps, Reset, Wire, IrqInv
<1>2. TailRef' = TailRef
  BY DEF TailRef
<1>3. LockInv' /\ UsageBalanced' /\ usage' \in Nat /\ pendPh' \in 0 .. MaxPh /\ pendPl' \in 0 .. MaxPl
  BY <1>1, <1>2, GivenUp
<1>4. irqDepth' = 1 /\ state' \in States /\ fifo' \in Seq(Packet)
  BY <1>1 DEF States
<1>5. TailInv' /\ IrqInv'
  BY <1>1, <1>4 DEF TailInv, IrqInv
<1> QED BY <1>1, <1>3, <1>4, <1>5

LEMMA RunningIs ==
  ASSUME TypeOK, Wire, state = "HSCLKEN", usage = 0
  PROVE  tpc = "idle" /\ link = "sleep"
<1>1. tpc \notin {"enable", "disable", "put"} /\ ~(tpc = "idle" /\ link = "on")
  BY Quiet
<1> QED BY <1>1 DEF TypeOK, Wire, TailInv, TailPcs, Links

LEMMA RuntimeSuspendWire == ASSUME TypeOK, Wire, RuntimeSuspend PROVE TypeOK' /\ Wire'
<1>1. /\ ~asleep /\ usage = 0 /\ rpm = "active" /\ rpm' = "suspended" /\ usage' = usage - PacketgoRef
      /\ UNCHANGED <<link, tpc, asleep, resumes, rpmError, callers, cmdLock>>
  BY DEF RuntimeSuspend, drm
<1>2. ~rpmError
  BY <1>1 DEF Wire, ErrorInv
<1>3. SleepInv' /\ ErrorInv'
  BY <1>1, <1>2 DEF SleepInv, ErrorInv
<1>4. CASE state = "HSCLKEN"
  <2>1. EnterUlps /\ cmdLock = NoSender /\ tpc = "idle" /\ link = "sleep"
    BY <1>1, <1>4, RunningIs DEF RuntimeSuspend
  <2>2. /\ LockInv' /\ UsageBalanced' /\ TailInv' /\ IrqInv'
        /\ usage' \in Nat /\ pendPh' \in 0 .. MaxPh /\ pendPl' \in 0 .. MaxPl
        /\ state' \in States /\ irqDepth' \in Nat /\ fifo' \in Seq(Packet)
        /\ packetgo' = FALSE /\ ready' = FALSE /\ UNCHANGED <<stuck, batching, refused>>
    BY <1>1, <1>4, <2>1, UlpsEntered
  <2>3. TypeOK'
    BY <1>1, <2>2 DEF TypeOK, callers, Packet
  <2> QED BY <1>3, <2>2, <2>3 DEF Wire
<1>5. CASE state # "HSCLKEN"
  <2>1. UNCHANGED <<state, irqDepth, queue, hw>>
    BY <1>5 DEF RuntimeSuspend
  <2>2. TailRef' = TailRef /\ pendPh' = pendPh /\ pendPh = 0
    BY <1>1, <2>1, Quiet DEF TailRef, queue
  <2>3. usage' = usage + TailRef' - TailRef
    <3>1. PacketgoRef = 0 /\ TailRef \in Nat
      BY <2>2, Counted DEF PacketgoRef
    <3> QED BY <1>1, <2>2, <3>1
  <2>4. LockInv' /\ UsageBalanced' /\ usage' \in Nat
    BY <1>1, <1>5, <2>2, <2>3, SendersStay DEF Wire, LockInv
  <2>5. TypeOK'
    BY <1>1, <2>1, <2>4 DEF TypeOK, callers, queue, hw
  <2>6. TailInv' /\ IrqInv'
    BY <1>1, <2>1 DEF Wire, TailInv, IrqInv
  <2> QED BY <1>3, <2>4, <2>5, <2>6 DEF Wire
<1> QED BY <1>4, <1>5

LEMMA SystemSuspendWire == ASSUME TypeOK, Wire, SystemSuspend PROVE TypeOK' /\ Wire'
<1>1. /\ ~asleep /\ tpc = "idle" /\ link # "on" /\ usage = 0 /\ asleep' = TRUE /\ resumes' = (state = "HSCLKEN")
      /\ UNCHANGED <<link, tpc, rpm, rpmError, usage, callers, cmdLock>>
  BY DEF SystemSuspend, TailIdle
<1>2. cmdLock = NoSender /\ pendPh = 0 /\ PacketgoRef = 0
  BY <1>1, Quiet DEF PacketgoRef
<1>3. CASE state = "HSCLKEN"
  <2>1. EnterUlps /\ link = "sleep" /\ resumes' = TRUE /\ usage' = usage - PacketgoRef
    <3>1. EnterUlps /\ resumes' = TRUE
      BY <1>1, <1>3 DEF SystemSuspend
    <3>2. usage' = usage - PacketgoRef
      BY <1>1, <1>2
    <3> QED BY <1>1, <1>3, <3>1, <3>2, RunningIs
  <2>2. /\ LockInv' /\ UsageBalanced' /\ TailInv' /\ IrqInv' /\ state' = "ULPS"
        /\ usage' \in Nat /\ pendPh' \in 0 .. MaxPh /\ pendPl' \in 0 .. MaxPl
        /\ state' \in States /\ irqDepth' \in Nat /\ fifo' \in Seq(Packet)
        /\ packetgo' = FALSE /\ ready' = FALSE /\ UNCHANGED <<stuck, batching, refused>>
    BY <1>1, <1>2, <1>3, <2>1, UlpsEntered
  <2>3. TypeOK'
    BY <1>1, <2>1, <2>2 DEF TypeOK, callers, Packet
  <2>4. SleepInv' /\ ErrorInv'
    BY <1>1, <2>1, <2>2 DEF SleepInv, ErrorInv, Wire
  <2> QED BY <2>2, <2>3, <2>4 DEF Wire
<1>4. CASE state # "HSCLKEN"
  <2>1. UNCHANGED <<state, irqDepth, queue, hw>> /\ resumes' = FALSE
    BY <1>1, <1>4 DEF SystemSuspend
  <2>2. TailRef' = TailRef /\ pendPh' = pendPh
    BY <1>1, <2>1 DEF TailRef, queue
  <2>3. usage' = usage + TailRef' - TailRef
    BY <1>1, <2>2, Counted
  <2>4. LockInv' /\ UsageBalanced' /\ usage' \in Nat
    BY <1>1, <1>2, <2>2, <2>3, SendersStay
  <2>5. TypeOK'
    BY <1>1, <2>1, <2>4 DEF TypeOK, callers, queue, hw
  <2>6. TailInv' /\ IrqInv'
    BY <1>1, <2>1 DEF Wire, TailInv, IrqInv
  <2>7. SleepInv' /\ ErrorInv'
    BY <1>1, <1>4, <2>1 DEF SleepInv, ErrorInv, Wire
  <2> QED BY <2>4, <2>5, <2>6, <2>7 DEF Wire
<1> QED BY <1>3, <1>4

LEMMA SystemResumeWire == ASSUME TypeOK, Wire, SystemResume PROVE TypeOK' /\ Wire'
<1>1. /\ asleep /\ asleep' = FALSE /\ tpc = "idle" /\ link # "on" /\ usage = 0 /\ state # "HSCLKEN" /\ irqDepth = 1
      /\ resumes => link = "sleep" /\ state = "ULPS"
      /\ UNCHANGED <<link, tpc, resumes, rpm, rpmError, usage, callers, cmdLock, queue, hw>>
  BY DEF SystemResume, Wire, SleepInv, IrqInv
<1>2. TailRef' = TailRef /\ pendPh' = pendPh /\ cmdLock = NoSender
  BY <1>1, Quiet DEF TailRef, queue
<1>3. usage' = usage + TailRef' - TailRef
  BY <1>1, <1>2, Counted
<1>4. LockInv' /\ UsageBalanced' /\ usage' \in Nat
  BY <1>1, <1>2, <1>3, SendersStay
<1>5. SleepInv'
  BY <1>1 DEF SleepInv
<1>6. CASE resumes
  <2>1. state' = "HSCLKEN" /\ irqDepth' = 0
    BY <1>1, <1>6 DEF SystemResume
  <2>2. TypeOK'
    BY <1>1, <1>4, <2>1 DEF TypeOK, callers, queue, hw, States
  <2>3. TailInv' /\ IrqInv' /\ ErrorInv'
    BY <1>1, <1>6, <2>1 DEF TailInv, IrqInv, ErrorInv, Wire
  <2> QED BY <1>4, <1>5, <2>2, <2>3 DEF Wire
<1>7. CASE ~resumes
  <2>1. UNCHANGED <<state, irqDepth>>
    BY <1>7 DEF SystemResume
  <2>2. TypeOK'
    BY <1>1, <1>4, <2>1 DEF TypeOK, callers, queue, hw
  <2>3. TailInv' /\ IrqInv' /\ ErrorInv'
    BY <1>1, <1>7, <2>1 DEF TailInv, IrqInv, ErrorInv, Wire
  <2> QED BY <1>4, <1>5, <2>2, <2>3 DEF Wire
<1> QED BY <1>6, <1>7

LEMMA HardwareWire == ASSUME TypeOK, Wire, Restart \/ HwSends PROVE TypeOK' /\ Wire'
<1>1. UNCHANGED <<drm, power, usage, callers, cmdLock, queue>> /\ stuck' = stuck
  BY DEF Restart, HwSends, Reset
<1>2. packetgo' \in BOOLEAN /\ ready' \in BOOLEAN /\ fifo' \in Seq(Packet)
  <2>1. CASE Restart
    <3>1. packetgo' = FALSE /\ ready' = FALSE /\ fifo' = <<>>
      BY <2>1 DEF Restart, Reset
    <3>2. fifo' \in Seq(Packet)
      BY <3>1
    <3> QED BY <3>1, <3>2
  <2>2. CASE HwSends
    <3>1. fifo' = Tail(fifo) /\ fifo # <<>> /\ UNCHANGED <<packetgo, ready>>
      BY <2>2 DEF HwSends
    <3>2. fifo \in Seq(Packet)
      BY DEF TypeOK, Packet
    <3>3. fifo' \in Seq(Packet)
      BY <3>1, <3>2
    <3> QED BY <3>1, <3>3 DEF TypeOK
  <2> QED BY <2>1, <2>2
<1>3. UNCHANGED <<link, tpc, asleep, resumes, state, rpm, rpmError, irqDepth, pc, msg, job, messages, batching, pendPh, pendPl, refused>>
  BY <1>1 DEF drm, power, callers, queue
<1>4. TypeOK'
  BY <1>1, <1>2, <1>3 DEF TypeOK, Packet
<1>5. LockInv' /\ TailInv' /\ SleepInv' /\ ErrorInv' /\ IrqInv'
  BY <1>1, <1>3 DEF Wire, LockInv, Holds, TailInv, SleepInv, ErrorInv, IrqInv
<1>6. UsageBalanced'
  BY <1>1, <1>3 DEF Wire, UsageBalanced, PacketgoRef
<1> QED BY <1>4, <1>5, <1>6 DEF Wire

LEMMA NextWire == TypeOK /\ Wire /\ [Next]_vars => TypeOK' /\ Wire'
<1> SUFFICES ASSUME TypeOK, Wire, [Next]_vars PROVE TypeOK' /\ Wire'
  OBVIOUS
<1>1. CASE UNCHANGED vars
  <2>1. UNCHANGED <<link, tpc, asleep, resumes, state, rpm, rpmError, irqDepth, pc, msg, job, messages, batching, pendPh, pendPl,
                    refused, packetgo, ready, fifo, stuck, usage, cmdLock>>
    BY <1>1 DEF vars, drm, power, callers, queue, hw
  <2>2. TypeOK'
    BY <2>1 DEF TypeOK
  <2>3. LockInv' /\ TailInv' /\ SleepInv' /\ ErrorInv' /\ IrqInv'
    BY <2>1 DEF Wire, LockInv, Holds, TailInv, SleepInv, ErrorInv, IrqInv
  <2>4. UsageBalanced'
    BY <2>1 DEF Wire, UsageBalanced, PacketgoRef
  <2> QED BY <2>2, <2>3, <2>4 DEF Wire
<1>2. CASE \E s \in Sender : Step(s) \/ \E m \in Message : Transfer(s, m)
  BY <1>2, StepWire, TransferWire
<1>3. CASE CommitTail
  BY <1>3, TailResumes, TailWalks, EnabledWire, DisabledWire DEF CommitTail
<1>4. CASE RuntimeSuspend \/ SystemSuspend \/ SystemResume \/ Restart \/ HwSends
  BY <1>4, RuntimeSuspendWire, SystemSuspendWire, SystemResumeWire, HardwareWire
<1> QED BY <1>1, <1>2, <1>3, <1>4 DEF Next

LEMMA InitWire == Init => TypeOK /\ Wire
<1> SUFFICES ASSUME Init PROVE TypeOK /\ Wire
  OBVIOUS
<1>1. /\ link = "off" /\ tpc = "idle" /\ ~asleep /\ state = "HANDOVER" /\ rpm = "suspended" /\ ~rpmError
      /\ usage = 0 /\ irqDepth = 1 /\ cmdLock = NoSender /\ pendPh = 0 /\ fifo = <<>>
      /\ \A s \in Sender : pc[s] = "idle"
  BY DEF Init
<1>2. Active = {} /\ PacketgoRef = 0 /\ TailRef = 0
  BY <1>1 DEF Active, PacketgoRef, TailRef
<1>3. UsageBalanced
  BY <1>1, <1>2, FS_EmptySet, Balanced
<1>4. LockInv
  BY <1>1, SenderAssumption DEF LockInv, Holds
<1>5. TailInv /\ SleepInv /\ ErrorInv /\ IrqInv
  BY <1>1 DEF TailInv, SleepInv, ErrorInv, IrqInv
<1>6. TypeOK
  <2>1. NoMessage \in Message
    BY DEF NoMessage, Message, Kinds
  <2>2. msg \in [Sender -> Message] /\ pc \in [Sender -> {"idle", "got", "ready", "flush", "read", "put"}]
        /\ job \in [Sender -> {"none", "set", "batch"}]
    BY <2>1 DEF Init
  <2>3. /\ asleep \in BOOLEAN /\ resumes \in BOOLEAN /\ rpmError \in BOOLEAN /\ batching \in BOOLEAN /\ refused \in BOOLEAN
        /\ packetgo \in BOOLEAN /\ ready \in BOOLEAN /\ stuck \in BOOLEAN
    BY DEF Init
  <2>4. /\ link \in Links /\ tpc \in TailPcs /\ state \in States /\ rpm \in {"active", "suspended"}
        /\ usage \in Nat /\ irqDepth \in Nat /\ cmdLock \in Sender \cup {NoSender} /\ fifo \in Seq(Packet)
    BY <1>1 DEF Links, TailPcs, States
  <2>5. messages \in 0 .. MaxMessages /\ pendPh \in 0 .. MaxPh /\ pendPl \in 0 .. MaxPl
    BY RacesAssumption, FifoAssumption DEF Init
  <2> QED BY <2>2, <2>3, <2>4, <2>5 DEF TypeOK, Packet
<1> QED BY <1>3, <1>4, <1>5, <1>6 DEF Wire

-----------------------------------------------------------------------------
(* Power *)

LEMMA NextPower == TypeOK /\ Wire /\ PowerInv /\ [Next]_vars => PowerInv'
<1> DEFINE On == (state = "HSCLKEN" /\ ~asleep) \/ tpc = "enable" \/ (asleep /\ resumes)
           P == (On => rpm = "active" /\ ~rpmError) /\ (rpmError => state = "BYPASS" /\ tpc = "idle")
<1> SUFFICES ASSUME TypeOK, Wire, [Next]_vars, Without({"bypass_transfer"}), P PROVE P'
  BY DEF PowerInv
<1> HIDE DEF P
<1>1. (On => rpm = "active" /\ ~rpmError) /\ (rpmError => state = "BYPASS" /\ tpc = "idle")
  BY DEF P
<1>2. CASE UNCHANGED <<tpc, asleep, resumes, state, rpm, rpmError>>
  BY <1>1, <1>2 DEF P
<1>3. CASE Resume /\ ~asleep /\ UNCHANGED <<asleep, resumes>> /\ tpc' \in {tpc, "enable", "disable"} /\ tpc \in {"idle", tpc'}
           /\ (state = "BYPASS" => tpc' = "idle") /\ (tpc' # tpc => state # "BYPASS")
  <2>1. /\ state' = IF state = "ULPS" THEN "HSCLKEN" ELSE state
        /\ rpmError' => rpm' = "suspended" /\ (rpmError \/ state = "BYPASS")
        /\ (rpm = "active" \/ ~rpmError) /\ state # "BYPASS" => rpm' = "active" /\ ~rpmError'
        /\ rpm = "active" => rpm' = "active" /\ ~rpmError'
    BY <1>3, ResumeDoes
  <2>2. On' => rpm' = "active" /\ ~rpmError'
    <3>1. CASE state = "BYPASS"
      BY <1>1, <1>3, <2>1, <3>1
    <3>2. CASE state # "BYPASS"
      BY <1>1, <2>1, <3>2
    <3> QED BY <3>1, <3>2
  <2>3. rpmError' => state' = "BYPASS" /\ tpc' = "idle"
    BY <1>1, <1>3, <2>1
  <2> QED BY <2>2, <2>3 DEF P
<1>4. CASE \E s \in Sender : Step(s)
  BY <1>2, <1>4, StepMoves DEF drm, power
<1>5. CASE \E s \in Sender : \E m \in Message : Transfer(s, m)
  <2>1. Resume /\ ~asleep /\ UNCHANGED <<tpc, asleep, resumes>> /\ tpc # "leaveBypass"
    BY <1>5 DEF Transfer, drm, Without
  <2>2. state = "BYPASS" => tpc = "idle"
    BY <2>1 DEF TypeOK, Wire, TailInv, TailPcs
  <2> QED BY <1>3, <2>1, <2>2
<1>6. CASE EnablesFromSleep \/ Enables \/ (Disables /\ link = "sleep")
  <2>1. Resume /\ ~asleep /\ UNCHANGED <<asleep, resumes>> /\ tpc = "idle" /\ tpc' \in {"idle", "enable", "disable"} /\ link \in {"sleep", "off"}
    BY <1>6 DEF EnablesFromSleep, Enables, Disables, TailIdle
  <2>2. state # "BYPASS"
    BY <2>1 DEF Wire, TailInv
  <2> QED BY <1>3, <2>1, <2>2
<1>7. CASE Disables /\ link # "sleep"
  <2>1. UNCHANGED <<asleep, resumes, state, rpm, rpmError>> /\ tpc = "idle" /\ tpc' = "disable" /\ link = "on"
    BY <1>7 DEF Disables, TailIdle, power
  <2>2. state # "BYPASS"
    BY <2>1 DEF Wire, TailInv
  <2> QED BY <1>1, <2>1, <2>2 DEF P
<1>8. CASE LeavesBypass
  <2>1. tpc = "idle" /\ ~asleep /\ link = "bypass" /\ tpc' = "leaveBypass" /\ ~rpmError' /\ UNCHANGED <<state, asleep, resumes>>
    BY <1>8 DEF LeavesBypass, TailIdle
  <2>2. state = "BYPASS"
    BY <2>1 DEF Wire, TailInv
  <2> QED BY <2>1, <2>2 DEF P
<1>9. CASE LeftBypass
  <2>1. tpc = "leaveBypass" /\ ~rpmError /\ state' = "SUSPEND" /\ UNCHANGED <<asleep, resumes>> /\ rpmError' = rpmError
    BY <1>1, <1>9 DEF LeftBypass
  <2>2. ~asleep
    BY <2>1 DEF Wire, SleepInv
  <2>3. tpc' = "enable" => rpm' = "active"
    BY <1>9, <2>1 DEF LeftBypass
  <2> QED BY <2>1, <2>2, <2>3 DEF P
<1>10. CASE Enabled
  <2>1. tpc = "enable" /\ tpc' = "idle" /\ UNCHANGED <<rpm, rpmError, asleep, resumes>>
    BY <1>10 DEF Enabled
  <2> QED BY <1>1, <2>1 DEF P
<1>11. CASE Sleeps \/ DisabledPuts \/ EntersBypass \/ Disabled
  <2>1. UNCHANGED <<rpm, rpmError, asleep, resumes>> /\ tpc' # "enable" /\ ~asleep /\ (state' = "HSCLKEN" => state = "HSCLKEN")
    BY <1>11 DEF Sleeps, DisabledPuts, EntersBypass, Disabled, power, TailIdle, Wire, SleepInv
  <2>2. ~rpmError \/ (Sleeps /\ state' = state /\ tpc' = tpc)
    BY <1>1, <1>11 DEF Sleeps, DisabledPuts, EntersBypass, Disabled, power
  <2> QED BY <1>1, <2>1, <2>2 DEF P
<1>12. CASE RuntimeSuspend
  <2>1. ~asleep /\ usage = 0 /\ rpm = "active" /\ UNCHANGED <<tpc, asleep, resumes, rpmError>>
    BY <1>12 DEF RuntimeSuspend, drm
  <2>2. ~rpmError /\ tpc # "enable"
    BY <2>1, Quiet DEF Wire, ErrorInv
  <2>3. state' # "HSCLKEN"
    BY <1>12 DEF RuntimeSuspend, EnterUlps
  <2> QED BY <2>1, <2>2, <2>3 DEF P
<1>13. CASE SystemSuspend
  <2>1. ~asleep /\ tpc = "idle" /\ asleep' = TRUE /\ resumes' = (state = "HSCLKEN") /\ UNCHANGED <<tpc, rpm, rpmError>>
    BY <1>13 DEF SystemSuspend, TailIdle
  <2>2. state # "HSCLKEN" => state' = state
    BY <1>13 DEF SystemSuspend
  <2> QED BY <1>1, <2>1, <2>2 DEF P
<1>14. CASE SystemResume
  <2>1. asleep /\ asleep' = FALSE /\ UNCHANGED <<tpc, resumes, rpm, rpmError>> /\ state # "HSCLKEN" /\ tpc = "idle"
    BY <1>14 DEF SystemResume, Wire, SleepInv
  <2>2. state' = IF resumes THEN "HSCLKEN" ELSE state
    BY <1>14 DEF SystemResume
  <2> QED BY <1>1, <2>1, <2>2 DEF P
<1>15. CASE Restart \/ HwSends \/ UNCHANGED vars
  BY <1>2, <1>15 DEF Restart, HwSends, vars, drm, power
<1> QED BY <1>4, <1>5, <1>6, <1>7, <1>8, <1>9, <1>10, <1>11, <1>12, <1>13, <1>14, <1>15 DEF Next, CommitTail

-----------------------------------------------------------------------------
(* Room for a command *)

LEMMA LockFree ==
  ASSUME Wire, cmdLock = NoSender
  PROVE  \A s \in Sender : pc[s] \notin {"ready", "flush", "read"}
BY SenderAssumption DEF Wire, LockInv, Holds

LEMMA LockTaken ==
  ASSUME Wire, NEW s \in Sender, pc[s] \in {"ready", "flush", "read"}
  PROVE  /\ cmdLock = s /\ cmdLock # NoSender /\ state = "HSCLKEN"
         /\ \A t \in Sender : t # s => pc[t] \notin {"ready", "flush", "read"}
BY SenderAssumption DEF Wire, LockInv, Holds

LEMMA StepPcs ==
  ASSUME TypeOK, NEW s \in Sender, NEW p, Goto(s, p)
  PROVE  pc'[s] = p /\ \A t \in Sender : t # s => pc'[t] = pc[t]
BY DEF TypeOK, Goto

LEMMA Short ==
  ASSUME TypeOK, ShortCommands
  PROVE  \A s \in Sender : msg[s].pl <= Threshold
<1> SUFFICES ASSUME NEW s \in Sender PROVE msg[s].pl <= Threshold
  OBVIOUS
<1>1. msg[s].pl \in Payload \cup {0}
  BY Numbers
<1>2. CASE msg[s].pl \in Payload
  BY <1>2, Numbers DEF ShortCommands
<1>3. CASE msg[s].pl = 0
  BY <1>3, Numbers
<1> QED BY <1>1, <1>2, <1>3

LEMMA StepRoom ==
  ASSUME TypeOK, Wire, ShortCommands, Room, NEW s \in Sender, Step(s)
  PROVE  Room'
<1>1. CASE pc[s] \notin {"ready", "flush"} /\ UNCHANGED <<pendPh, pendPl>>
  <2>1. (\A t \in Sender : pc'[t] \notin {"ready", "flush"}) => \A t \in Sender : pc[t] \notin {"ready", "flush"}
    <3>1. PICK p : pc' = [pc EXCEPT ![s] = p]
      BY StepMoves
    <3> QED BY <1>1, <3>1 DEF TypeOK
  <2>2. ~refused'
    <3>1. CASE RefusesCommand(s)
      <4>1. TooLong(s) /\ pendPh < MaxPh /\ pendPl <= Threshold
        BY <3>1, LockFree DEF RefusesCommand, Locked, Room
      <4>2. pendPl + msg[s].pl > MaxPl
        BY <4>1, Numbers DEF TooLong, Words
      <4>3. ~(msg[s].pl <= MaxPl - Threshold)
        BY <4>1, <4>2, Numbers
      <4> QED BY <3>1, <4>3 DEF RefusesCommand, Room
    <3>2. CASE ~RefusesCommand(s)
      <4>1. refused' = refused
        BY <3>2 DEF Step, FindsLinkOff, BeginsBatch, EndsBatch, QueuesCommand, QueuesLastCommand, WritesCommand, Queue, MakesReady,
           Flushed, FlushTimesOut, Flush, Reads, ReadEnds, Puts, queue
      <4> QED BY <4>1 DEF Room
    <3> QED BY <3>1, <3>2
  <2> QED BY <1>1, <2>1, <2>2 DEF Room
<1>2. CASE QueuesCommand(s)
  <2>1. ~IsLast(s) /\ ~TooLong(s) /\ Queue(s)
    BY <1>2 DEF QueuesCommand
  <2>2. pendPh' = pendPh + 1 /\ pendPl' = pendPl + msg[s].pl /\ pendPh' > 0 /\ refused' = refused
    BY <2>1, QueueDoes
  <2>3. pendPh' < MaxPh /\ pendPl' <= Threshold
    BY <2>1, <2>2, Numbers DEF IsLast, Words
  <2> QED BY <2>2, <2>3 DEF Room
<1>3. CASE QueuesLastCommand(s)
  <2>1. ~TooLong(s) /\ Queue(s) /\ Goto(s, "ready")
    BY <1>3 DEF QueuesLastCommand
  <2>2. pendPh' > 0 /\ refused' = refused
    BY <2>1, QueueDoes
  <2>3. pc'[s] = "ready"
    BY <2>1, StepPcs
  <2> QED BY <2>2, <2>3 DEF Room
<1>4. CASE WritesCommand(s)
  <2>1. pendPl' = msg[s].pl /\ refused' = refused /\ Goto(s, "flush")
    BY <1>4 DEF WritesCommand
  <2>2. pc'[s] = "flush"
    BY <2>1, StepPcs
  <2> QED BY <2>1, <2>2, Short, Numbers DEF Room
<1>5. CASE MakesReady(s)
  <2>1. UNCHANGED queue /\ Goto(s, "flush")
    BY <1>5 DEF MakesReady
  <2>2. pc'[s] = "flush"
    BY <2>1, StepPcs
  <2> QED BY <2>1, <2>2 DEF Room, queue
<1>6. CASE Flushed(s) \/ FlushTimesOut(s)
  <2>1. Flush(s)
    BY <1>6 DEF Flushed, FlushTimesOut
  <2>2. pendPh' = 0 /\ pendPl' = (IF pendPh > 0 THEN 0 ELSE pendPl) /\ refused' = refused
    BY <2>1, FlushDoes
  <2>3. pendPh' < MaxPh /\ pendPl' <= Threshold
    BY <2>2, Numbers DEF Room
  <2> QED BY <2>2, <2>3 DEF Room
<1>7. CASE FindsLinkOff(s) \/ BeginsBatch(s) \/ EndsBatch(s) \/ RefusesCommand(s) \/ Reads(s) \/ ReadEnds(s) \/ Puts(s)
  <2>1. pc[s] \notin {"ready", "flush"} /\ UNCHANGED <<pendPh, pendPl>>
    BY <1>7 DEF FindsLinkOff, BeginsBatch, EndsBatch, RefusesCommand, Reads, ReadEnds, Puts, Locked, queue
  <2> QED BY <1>1, <2>1
<1> QED BY <1>2, <1>3, <1>4, <1>5, <1>6, <1>7 DEF Step

(* Where the counters are left alone or given up. *)
LEMMA OtherQueue ==
  ASSUME TypeOK, Wire, Next, ~\E s \in Sender : Step(s)
  PROVE  /\ refused' = refused /\ (\A t \in Sender : pc'[t] \notin {"ready", "flush"} => pc[t] \notin {"ready", "flush"})
         /\ UNCHANGED <<pendPh, pendPl>> \/ GiveUpPending
<1>1. CASE \E s \in Sender : \E m \in Message : Transfer(s, m)
  <2>1. PICK s \in Sender, m \in Message : Transfer(s, m)
    BY <1>1
  <2>2. UNCHANGED queue /\ pc[s] = "idle" /\ (pc' = pc \/ Goto(s, "got"))
    BY <2>1 DEF Transfer
  <2>3. \A t \in Sender : pc'[t] \notin {"ready", "flush"} => pc[t] \notin {"ready", "flush"}
    BY <2>2 DEF Goto, TypeOK
  <2> QED BY <2>2, <2>3 DEF queue
<1>2. CASE CommitTail
  <2>1. UNCHANGED callers /\ (UNCHANGED queue \/ (Disabled /\ GiveUpPending /\ refused' = refused))
    BY <1>2 DEF CommitTail, EnablesFromSleep, LeavesBypass, LeftBypass, Enables, Enabled, Sleeps, Disables, Disabled, DisabledPuts,
       EntersBypass
  <2> QED BY <2>1 DEF callers, queue
<1>3. CASE RuntimeSuspend \/ SystemSuspend \/ SystemResume \/ Restart \/ HwSends
  <2>1. UNCHANGED callers /\ (UNCHANGED queue \/ (GiveUpPending /\ refused' = refused))
    BY <1>3 DEF RuntimeSuspend, SystemSuspend, SystemResume, Restart, HwSends, EnterUlps
  <2> QED BY <2>1 DEF callers, queue
<1> QED BY <1>1, <1>2, <1>3 DEF Next

LEMMA NextRoom == TypeOK /\ Wire /\ RoomInv /\ [Next]_vars => RoomInv'
<1> SUFFICES ASSUME TypeOK, Wire, ShortCommands, Room, [Next]_vars PROVE Room'
  BY DEF RoomInv, ShortCommands
<1>1. CASE UNCHANGED vars
  BY <1>1 DEF vars, callers, queue, Room
<1>2. CASE \E s \in Sender : Step(s)
  BY <1>2, StepRoom
<1>3. CASE Next /\ ~\E s \in Sender : Step(s)
  <2>1. CASE UNCHANGED <<pendPh, pendPl>>
    BY <1>3, <2>1, OtherQueue DEF Room
  <2>2. CASE GiveUpPending
    <3>1. pendPh' = 0 /\ pendPl' = (IF pendPh > 0 THEN 0 ELSE pendPl)
      BY <2>2 DEF GiveUpPending
    <3>2. pendPh' < MaxPh /\ pendPl' <= Threshold
      BY <3>1, Numbers DEF Room
    <3>3. ~refused'
      BY <1>3, OtherQueue DEF Room
    <3> QED BY <3>1, <3>2, <3>3 DEF Room
  <2> QED BY <1>3, <2>1, <2>2, OtherQueue
<1> QED BY <1>1, <1>2, <1>3

-----------------------------------------------------------------------------
(* The hardware queue *)

Held ==
  /\ packetgo => pendPh > 0
  /\ \A s \in Sender : pc[s] = "flush" => Released
  /\ ready => \E s \in Sender : pc[s] = "flush"
  /\ state # "HSCLKEN" => fifo = <<>> /\ pendPh = 0
  /\ cmdLock = NoSender /\ pendPh = 0 => fifo = <<>> \/ stuck
  /\ stuck \/ packetgo \/ \A i \in DOMAIN fifo : ~fifo[i].held

LEMMA AppendIs ==
  ASSUME NEW f \in Seq(Packet), NEW p \in Packet
  PROVE  /\ Append(f, p) \in Seq(Packet) /\ Len(Append(f, p)) = Len(f) + 1 /\ Len(f) \in Nat
         /\ \A i \in 1 .. Len(f) : Append(f, p)[i] = f[i]
         /\ Append(f, p)[Len(f) + 1] = p
         /\ DOMAIN f = 1 .. Len(f) /\ DOMAIN Append(f, p) = 1 .. Len(f) + 1
         /\ Append(f, p) # <<>> /\ Append(f, p) # f
<1>1. /\ Append(f, p) \in Seq(Packet) /\ Len(Append(f, p)) = Len(f) + 1 /\ Len(f) \in Nat
      /\ \A i \in 1 .. Len(f) : Append(f, p)[i] = f[i]
      /\ Append(f, p)[Len(f) + 1] = p
  OBVIOUS
<1>2. DOMAIN f = 1 .. Len(f) /\ DOMAIN Append(f, p) = 1 .. Len(f) + 1
  BY <1>1
<1>3. Append(f, p) # <<>> /\ Append(f, p) # f
  BY <1>1
<1> QED BY <1>1, <1>2, <1>3

LEMMA TailOf ==
  ASSUME NEW f \in Seq(Packet), f # <<>>
  PROVE  /\ Tail(f) \in Seq(Packet) /\ Len(Tail(f)) = Len(f) - 1 /\ Len(f) \in Nat \ {0}
         /\ \A i \in 1 .. Len(f) - 1 : Tail(f)[i] = f[i + 1]
         /\ DOMAIN f = 1 .. Len(f) /\ DOMAIN Tail(f) = 1 .. Len(f) - 1
<1>1. Tail(f) \in Seq(Packet) /\ Len(Tail(f)) = Len(f) - 1 /\ Len(f) \in Nat \ {0}
  OBVIOUS
<1>2. \A i \in 1 .. Len(f) - 1 : Tail(f)[i] = f[i + 1]
  OBVIOUS
<1>3. DOMAIN f = 1 .. Len(f) /\ DOMAIN Tail(f) = 1 .. Len(f) - 1
  BY <1>1
<1> QED BY <1>1, <1>2, <1>3

LEMMA ConcatIs ==
  ASSUME NEW f \in Seq(Packet), NEW g \in Seq(Packet)
  PROVE  /\ f \o g \in Seq(Packet) /\ Len(f \o g) = Len(f) + Len(g) /\ Len(f) \in Nat /\ Len(g) \in Nat
         /\ \A i \in 1 .. Len(f) : (f \o g)[i] = f[i]
         /\ \A i \in 1 .. Len(g) : (f \o g)[Len(f) + i] = g[i]
<1>1. f \o g \in Seq(Packet) /\ Len(f) \in Nat /\ Len(g) \in Nat
  OBVIOUS
<1>2. Len(f \o g) = Len(f) + Len(g)
  OBVIOUS
<1>3. \A i \in 1 .. Len(f) : (f \o g)[i] = f[i]
  BY <1>1
<1>4. \A i \in 1 .. Len(g) : (f \o g)[Len(f) + i] = g[i]
  BY <1>1
<1> QED BY <1>1, <1>2, <1>3, <1>4

(* A read adds two headers. *)
LEMMA ReadIs ==
  ASSUME TypeOK, NEW s \in Sender, Reads(s)
  PROVE  /\ fifo' \in Seq(Packet) /\ Len(fifo') = Len(fifo) + 2 /\ Len(fifo) \in Nat
         /\ \A i \in 1 .. Len(fifo) : fifo'[i] = fifo[i]
         /\ \A i \in Len(fifo) + 1 .. Len(fifo) + 2 : fifo'[i].pl = 0 /\ fifo'[i].held = packetgo
<1> DEFINE r == [i \in 1 .. 2 |-> [pl |-> 0, held |-> packetgo]]
<1>1. fifo' = fifo \o r /\ fifo \in Seq(Packet)
  BY DEF Reads, TypeOK, Packet
<1>2. r \in Seq(Packet) /\ Len(r) = 2 /\ \A i \in 1 .. 2 : r[i].pl = 0 /\ r[i].held = packetgo
  <2>1. [pl |-> 0, held |-> packetgo] \in Packet
    BY DEF TypeOK, Packet
  <2>2. r \in [1 .. 2 -> Packet]
    BY <2>1
  <2>3. r \in Seq(Packet)
    BY <2>2
  <2>4. DOMAIN r = 1 .. 2
    OBVIOUS
  <2>5. Len(r) = 2
    BY <2>3, <2>4
  <2>6. \A i \in 1 .. 2 : r[i].pl = 0 /\ r[i].held = packetgo
    OBVIOUS
  <2> QED BY <2>3, <2>5, <2>6
<1> HIDE DEF r
<1>3. /\ fifo' \in Seq(Packet) /\ Len(fifo') = Len(fifo) + Len(r) /\ Len(fifo) \in Nat
      /\ \A i \in 1 .. Len(fifo) : fifo'[i] = fifo[i]
      /\ \A i \in 1 .. Len(r) : fifo'[Len(fifo) + i] = r[i]
  BY <1>1, <1>2, ConcatIs
<1>4. \A i \in Len(fifo) + 1 .. Len(fifo) + 2 : fifo'[i].pl = 0 /\ fifo'[i].held = packetgo
  <2> SUFFICES ASSUME NEW i \in Len(fifo) + 1 .. Len(fifo) + 2 PROVE fifo'[i].pl = 0 /\ fifo'[i].held = packetgo
    OBVIOUS
  <2> DEFINE j == i - Len(fifo)
  <2>1. j \in 1 .. 2 /\ i = Len(fifo) + j
    BY <1>3
  <2> HIDE DEF j
  <2>2. fifo'[i] = r[j]
    BY <1>2, <1>3, <2>1
  <2> QED BY <1>2, <2>1, <2>2
<1> QED BY <1>2, <1>3, <1>4

LEMMA StepHeld ==
  ASSUME TypeOK, Wire, Held, Without({"garbage_last"}), NEW s \in Sender, Step(s)
  PROVE  Held'
<1>1. state' = state
  BY StepMoves DEF power
<1>2. CASE FindsLinkOff(s) \/ RefusesCommand(s) \/ BeginsBatch(s) \/ EndsBatch(s)
  <2>1. /\ cmdLock = NoSender /\ UNCHANGED <<pendPh, packetgo, ready, fifo, stuck>>
    BY <1>2 DEF FindsLinkOff, RefusesCommand, BeginsBatch, EndsBatch, Locked, queue, hw
  <2>2. \/ Goto(s, "put") /\ cmdLock' = cmdLock
        \/ Goto(s, "ready") /\ cmdLock' = s
        \/ Goto(s, "flush") /\ cmdLock' = s /\ pendPh = 0
    <3>1. CASE FindsLinkOff(s) \/ RefusesCommand(s)
      BY <3>1 DEF FindsLinkOff, RefusesCommand
    <3>2. CASE BeginsBatch(s)
      BY <3>2 DEF BeginsBatch, Without
    <3>3. CASE EndsBatch(s)
      <4>1. pendPh > 0 \/ pendPh = 0
        BY Numbers
      <4> QED BY <3>3, <4>1 DEF EndsBatch
    <3> QED BY <1>2, <3>1, <3>2, <3>3
  <2>3. (\A t \in Sender : pc[t] # "flush") /\ ~ready
    BY <2>1, LockFree DEF Held
  <2>4. CASE Goto(s, "put") \/ Goto(s, "ready")
    <3>1. \A t \in Sender : pc'[t] # "flush"
      BY <2>3, <2>4, StepPcs
    <3> QED BY <1>1, <2>1, <2>3, <3>1 DEF Held
  <2>5. CASE Goto(s, "flush") /\ cmdLock' = s /\ pendPh = 0
    <3>1. ~packetgo /\ cmdLock' # NoSender
      BY <2>5, SenderAssumption DEF Held
    <3> QED BY <1>1, <2>1, <2>3, <3>1 DEF Held, Released
  <2> QED BY <2>2, <2>4, <2>5
<1>3. CASE QueuesCommand(s) \/ QueuesLastCommand(s)
  <2>1. ~TooLong(s) /\ Queue(s) /\ cmdLock = NoSender /\ state = "HSCLKEN" /\ (Goto(s, "put") \/ Goto(s, "ready"))
    BY <1>3 DEF QueuesCommand, QueuesLastCommand, Locked
  <2>2. pendPh' > 0 /\ packetgo' = TRUE /\ UNCHANGED <<ready, stuck>>
    BY <2>1, QueueDoes
  <2>3. (\A t \in Sender : pc[t] # "flush") /\ ~ready
    BY <2>1, LockFree DEF Held
  <2>4. \A t \in Sender : pc'[t] # "flush"
    BY <2>1, <2>3, StepPcs
  <2> QED BY <1>1, <2>1, <2>2, <2>3, <2>4 DEF Held
<1>4. CASE WritesCommand(s)
  <2>1. /\ pendPh = 0 /\ pendPh' = 0 /\ cmdLock = NoSender /\ cmdLock' = s /\ state = "HSCLKEN" /\ Goto(s, "flush")
        /\ UNCHANGED <<packetgo, ready, stuck>> /\ fifo' = Append(fifo, [pl |-> msg[s].pl, held |-> FALSE])
    BY <1>4 DEF WritesCommand, Locked
  <2>2. ~packetgo /\ ~ready /\ cmdLock' # NoSender /\ (stuck \/ \A i \in DOMAIN fifo : ~fifo[i].held)
    BY <2>1, LockFree, SenderAssumption DEF Held
  <2>3. [pl |-> msg[s].pl, held |-> FALSE] \in Packet /\ fifo \in Seq(Packet)
    BY Numbers DEF Packet, TypeOK
  <2>4. stuck \/ \A i \in DOMAIN fifo' : ~fifo'[i].held
    <3> DEFINE p == [pl |-> msg[s].pl, held |-> FALSE]
    <3>1. p \in Packet /\ ~p.held /\ fifo' = Append(fifo, p)
      BY <2>1, <2>3
    <3> HIDE DEF p
    <3>2. \A i \in DOMAIN fifo' : (i \in DOMAIN fifo /\ fifo'[i] = fifo[i]) \/ fifo'[i] = p
      BY <2>3, <3>1, AppendIs
    <3> QED BY <2>2, <3>1, <3>2
  <2> QED BY <1>1, <2>1, <2>2, <2>4 DEF Held, Released
<1>5. CASE MakesReady(s)
  <2>1. pc[s] = "ready" /\ ready' = TRUE /\ Goto(s, "flush") /\ UNCHANGED <<pendPh, cmdLock, packetgo, fifo, stuck>>
    BY <1>5 DEF MakesReady, queue
  <2>2. cmdLock # NoSender /\ pc'[s] = "flush"
    BY <2>1, LockTaken, StepPcs
  <2> QED BY <1>1, <2>1, <2>2 DEF Held, Released
<1>6. CASE Flushed(s) \/ FlushTimesOut(s)
  <2>1. pc[s] = "flush" /\ Flush(s) /\ Goto(s, "put") /\ (Flushed(s) \/ FlushTimesOut(s))
    BY <1>6 DEF Flushed, FlushTimesOut, Flush
  <2>2. pendPh' = 0 /\ ~packetgo' /\ ~ready' /\ fifo' = fifo
    BY <2>1, FlushDoes
  <2>3. fifo = <<>> \/ stuck'
    <3>1. Released
      BY <2>1 DEF Held
    <3> QED BY <2>1, <3>1 DEF Flushed, FlushTimesOut
  <2>4. \A t \in Sender : pc'[t] # "flush"
    BY <2>1, LockTaken, StepPcs
  <2>5. state = "HSCLKEN"
    BY <2>1, LockTaken
  <2>6. fifo = <<>> => DOMAIN fifo' = {}
    BY <2>2
  <2> QED BY <1>1, <2>2, <2>3, <2>4, <2>5, <2>6 DEF Held
<1>7. CASE Reads(s)
  <2>1. /\ cmdLock = NoSender /\ cmdLock' = s /\ state = "HSCLKEN" /\ Goto(s, "read")
        /\ UNCHANGED <<pendPh, packetgo, ready, stuck>>
    BY <1>7 DEF Reads, Locked, queue
  <2>2. ~ready /\ (\A t \in Sender : pc'[t] # "flush") /\ cmdLock' # NoSender
    BY <2>1, LockFree, StepPcs, SenderAssumption DEF Held
  <2>3. stuck \/ packetgo \/ \A i \in DOMAIN fifo' : ~fifo'[i].held
    <3> SUFFICES ASSUME ~stuck, ~packetgo, NEW i \in DOMAIN fifo' PROVE ~fifo'[i].held
      OBVIOUS
    <3>1. i \in 1 .. Len(fifo) \/ i \in Len(fifo) + 1 .. Len(fifo) + 2
      BY <1>7, ReadIs
    <3>2. CASE i \in 1 .. Len(fifo)
      <4>1. fifo'[i] = fifo[i] /\ i \in DOMAIN fifo
        BY <1>7, <3>2, ReadIs DEF TypeOK
      <4> QED BY <4>1 DEF Held
    <3>3. CASE i \in Len(fifo) + 1 .. Len(fifo) + 2
      <4>1. fifo'[i].held = packetgo
        BY <1>7, <3>3, ReadIs
      <4> QED BY <4>1
    <3> QED BY <3>1, <3>2, <3>3
  <2> QED BY <1>1, <2>1, <2>2, <2>3 DEF Held
<1>8. CASE ReadEnds(s)
  <2>1. /\ pc[s] = "read" /\ Goto(s, "put") /\ stuck' = (stuck \/ (fifo # <<>> /\ Released))
        /\ UNCHANGED <<pendPh, packetgo, ready, fifo>>
    BY <1>8 DEF ReadEnds, queue
  <2>2. state = "HSCLKEN" /\ (\A t \in Sender : pc[t] # "flush") /\ ~ready
    BY <2>1, LockTaken DEF Held
  <2>3. \A t \in Sender : pc'[t] # "flush"
    BY <2>1, <2>2, StepPcs
  <2>4. pendPh = 0 => Released
    BY Numbers DEF Held, Released
  <2>5. stuck => stuck'
    BY <2>1
  <2> QED BY <1>1, <2>1, <2>2, <2>3, <2>4, <2>5 DEF Held
<1>9. CASE Puts(s)
  <2>1. pc[s] = "put" /\ Goto(s, "idle") /\ UNCHANGED <<pendPh, packetgo, ready, fifo, stuck, cmdLock>>
    BY <1>9 DEF Puts, queue, hw
  <2>2. \A t \in Sender : pc'[t] = "flush" <=> pc[t] = "flush"
    BY <2>1, StepPcs
  <2> QED BY <1>1, <2>1, <2>2 DEF Held, Released
<1> QED BY <1>2, <1>3, <1>4, <1>5, <1>6, <1>7, <1>8, <1>9 DEF Step

(* Steps beside the transfers: they leave the hardware alone, reset it or let *)
(* it send.                                                                   *)
LEMMA OtherHw ==
  ASSUME TypeOK, Wire, Next, ~\E s \in Sender : Step(s)
  PROVE  /\ cmdLock' = cmdLock /\ stuck' = stuck
         /\ \A t \in Sender : pc'[t] = "flush" <=> pc[t] = "flush"
         /\ \/ UNCHANGED <<packetgo, ready, fifo, pendPh>> /\ (state' # "HSCLKEN" => state # "HSCLKEN")
            \/ Reset /\ pendPh' = 0 /\ cmdLock = NoSender
               /\ (Disabled \/ usage = 0) /\ state = "HSCLKEN"
            \/ Reset /\ pendPh' = pendPh /\ state' = "HSCLKEN" /\ cmdLock = NoSender /\ (Restart \/ state # "HSCLKEN")
            \/ HwSends /\ UNCHANGED <<packetgo, ready, pendPh, state>>
<1>1. CASE \E s \in Sender : \E m \in Message : Transfer(s, m)
  <2>1. PICK s \in Sender, m \in Message : Transfer(s, m)
    BY <1>1
  <2>2. UNCHANGED <<cmdLock, queue, hw>> /\ pc[s] = "idle" /\ (pc' = pc \/ Goto(s, "got")) /\ Resume /\ ~asleep
    BY <2>1 DEF Transfer
  <2>3. \A t \in Sender : pc'[t] = "flush" <=> pc[t] = "flush"
    BY <2>2 DEF Goto, TypeOK
  <2>4. state' # "HSCLKEN" => state # "HSCLKEN"
    BY <2>2, ResumeDoes
  <2> QED BY <2>2, <2>3, <2>4 DEF queue, hw
<1>2. CASE CommitTail
  <2>1. UNCHANGED <<callers, cmdLock>>
    BY <1>2 DEF CommitTail, EnablesFromSleep, LeavesBypass, LeftBypass, Enables, Enabled, Sleeps, Disables, Disabled, DisabledPuts,
       EntersBypass
  <2>2. \A t \in Sender : pc'[t] = "flush" <=> pc[t] = "flush"
    BY <2>1 DEF callers
  <2>3. CASE Disabled
    <3>1. state = "HSCLKEN"
      BY <2>3 DEF Disabled, Wire, TailInv
    <3> QED BY <2>1, <2>2, <2>3, <3>1 DEF Disabled, Reset, GiveUpPending
  <2>4. CASE Enabled
    <3>1. state # "HSCLKEN" /\ cmdLock = NoSender
      BY <2>4 DEF Enabled, Wire, TailInv, LockInv
    <3> QED BY <2>1, <2>2, <2>4, <3>1 DEF Enabled, Reset, queue
  <2>5. CASE EnablesFromSleep \/ Enables \/ Disables
    <3>1. UNCHANGED <<queue, hw>>
      BY <2>5 DEF EnablesFromSleep, Enables, Disables
    <3>2. state' # "HSCLKEN" => state # "HSCLKEN"
      <4>1. state' = state \/ (Resume /\ ~asleep)
        BY <2>5 DEF EnablesFromSleep, Enables, Disables, TailIdle, power
      <4> QED BY <4>1, ResumeDoes
    <3> QED BY <2>1, <2>2, <3>1, <3>2 DEF queue, hw
  <2>6. CASE LeavesBypass \/ LeftBypass \/ Sleeps \/ DisabledPuts \/ EntersBypass
    <3>1. UNCHANGED <<queue, hw>> /\ (state' = state \/ tpc \in {"leaveBypass", "enterBypass"})
      BY <2>6 DEF LeavesBypass, LeftBypass, Sleeps, DisabledPuts, EntersBypass, power
    <3>2. state' # "HSCLKEN" => state # "HSCLKEN"
      BY <3>1 DEF Wire, TailInv
    <3> QED BY <2>1, <2>2, <3>1, <3>2 DEF queue, hw
  <2> QED BY <1>2, <2>3, <2>4, <2>5, <2>6 DEF CommitTail
<1>3. CASE RuntimeSuspend \/ SystemSuspend
  <2>1. UNCHANGED <<callers, cmdLock>> /\ usage = 0
    BY <1>3 DEF RuntimeSuspend, SystemSuspend
  <2>2. (\A t \in Sender : pc'[t] = "flush" <=> pc[t] = "flush") /\ cmdLock = NoSender
    BY <2>1, Quiet DEF callers
  <2>3. CASE state = "HSCLKEN"
    <3>1. EnterUlps
      BY <1>3, <2>3 DEF RuntimeSuspend, SystemSuspend
    <3> QED BY <2>1, <2>2, <2>3, <3>1 DEF EnterUlps, Reset, GiveUpPending
  <2>4. CASE state # "HSCLKEN"
    <3>1. UNCHANGED <<state, queue, hw>>
      BY <1>3, <2>4 DEF RuntimeSuspend, SystemSuspend
    <3> QED BY <2>1, <2>2, <3>1 DEF queue, hw
  <2> QED BY <2>3, <2>4
<1>4. CASE SystemResume
  <2>1. UNCHANGED <<callers, cmdLock, queue, hw>> /\ (state' # "HSCLKEN" => state # "HSCLKEN")
    BY <1>4 DEF SystemResume
  <2> QED BY <2>1 DEF callers, queue, hw
<1>5. CASE Restart
  BY <1>5 DEF Restart, Reset, callers, queue, power
<1>6. CASE HwSends
  BY <1>6 DEF HwSends, callers, queue, power
<1> QED BY <1>1, <1>2, <1>3, <1>4, <1>5, <1>6 DEF Next

LEMMA NextHeld == TypeOK /\ Wire /\ HeldInv /\ [Next]_vars => HeldInv'
<1> SUFFICES ASSUME TypeOK, Wire, Held, Without({"garbage_last"}), [Next]_vars PROVE Held'
  BY DEF HeldInv, Held
<1>1. CASE UNCHANGED vars
  <2>1. UNCHANGED <<packetgo, ready, fifo, stuck, pendPh, pc, cmdLock, state>>
    BY <1>1 DEF vars, hw, queue, callers, power
  <2> QED BY <2>1 DEF Held, Released
<1>2. CASE \E s \in Sender : Step(s)
  BY <1>2, StepHeld
<1>3. CASE Next /\ ~\E s \in Sender : Step(s)
  <2>1. cmdLock' = cmdLock /\ stuck' = stuck /\ \A t \in Sender : pc'[t] = "flush" <=> pc[t] = "flush"
    BY <1>3, OtherHw
  <2>2. CASE UNCHANGED <<packetgo, ready, fifo, pendPh>> /\ (state' # "HSCLKEN" => state # "HSCLKEN")
    BY <2>1, <2>2 DEF Held, Released
  <2>3. CASE Reset /\ (pendPh' = 0 \/ (pendPh' = pendPh /\ state' = "HSCLKEN"))
    <3>1. ~packetgo' /\ ~ready' /\ fifo' = <<>> /\ DOMAIN fifo' = {}
      BY <2>3 DEF Reset
    <3> QED BY <2>1, <2>3, <3>1 DEF Held, Released
  <2>4. CASE HwSends /\ UNCHANGED <<packetgo, ready, pendPh, state>>
    <3>1. state = "HSCLKEN" /\ fifo # <<>> /\ fifo' = Tail(fifo) /\ fifo \in Seq(Packet)
      BY <2>4 DEF HwSends, TypeOK, Packet
    <3>2. cmdLock = NoSender /\ pendPh = 0 => stuck
      BY <3>1 DEF Held
    <3>3. stuck \/ packetgo \/ \A i \in DOMAIN fifo' : ~fifo'[i].held
      <4> SUFFICES ASSUME ~stuck, ~packetgo, NEW i \in DOMAIN fifo' PROVE ~fifo'[i].held
        OBVIOUS
      <4>1. i + 1 \in DOMAIN fifo /\ fifo'[i] = fifo[i + 1]
        BY <3>1, TailOf
      <4> QED BY <4>1 DEF Held
    <3> QED BY <2>1, <2>4, <3>1, <3>2, <3>3 DEF Held, Released
  <2> QED BY <1>3, <2>2, <2>3, <2>4, OtherHw
<1> QED BY <1>1, <1>2, <1>3

-----------------------------------------------------------------------------
(* The FIFOs *)

LEMMA EmptyLaid == ASSUME NEW w \in Nat PROVE Layouts(<<>>, w) # {} /\ Len(<<>>) = 0
<1> DEFINE ends == [i \in 0 .. 0 |-> 0]
<1>1. Len(<<>>) = 0 /\ 0 \in 0 .. w
  OBVIOUS
<1>2. ends \in [0 .. Len(<<>>) -> 0 .. w]
  BY <1>1
<1>3. \A i \in 1 .. Len(<<>>) : FALSE
  BY <1>1
<1> QED BY <1>1, <1>2, <1>3 DEF Layouts

(* What fits fits into more words. *)
LEMMA WiderLaid ==
  ASSUME NEW f, NEW v \in Nat, NEW w \in Nat, v <= w, Layouts(f, v) # {}
  PROVE  Layouts(f, w) # {}
<1>1. PICK ends \in [0 .. Len(f) -> 0 .. v] : \A i \in 1 .. Len(f) : ends[i] = ends[i - 1] + f[i].pl
  BY DEF Layouts
<1>2. 0 .. v \subseteq 0 .. w
  OBVIOUS
<1>3. ends \in [0 .. Len(f) -> 0 .. w]
  BY <1>2
<1> QED BY <1>1, <1>3 DEF Layouts

LEMMA AppendLaid ==
  ASSUME NEW f \in Seq(Packet), NEW p \in Packet, NEW v \in Nat, Layouts(f, v) # {}
  PROVE  Layouts(Append(f, p), v + p.pl) # {}
<1> DEFINE g == Append(f, p)
           n == Len(f)
           w == v + p.pl
<1>1. PICK ends \in [0 .. n -> 0 .. v] : \A i \in 1 .. n : ends[i] = ends[i - 1] + f[i].pl
  BY DEF Layouts
<1>2. /\ n \in Nat /\ Len(g) = n + 1 /\ g[n + 1] = p
      /\ \A i \in 1 .. n : g[i] = f[i]
  BY AppendIs
<1>3. p.pl \in Nat /\ w \in Nat
  BY DEF Packet
<1> DEFINE more == [i \in 0 .. n + 1 |-> IF i <= n THEN ends[i] ELSE ends[n] + p.pl]
<1> HIDE DEF g, n
<1>4. more \in [0 .. n + 1 -> 0 .. w]
  <2> SUFFICES ASSUME NEW i \in 0 .. n + 1 PROVE (IF i <= n THEN ends[i] ELSE ends[n] + p.pl) \in 0 .. w
    OBVIOUS
  <2>1. ends[n] \in 0 .. v /\ (i <= n => ends[i] \in 0 .. v)
    BY <1>2
  <2> QED BY <1>3, <2>1
<1>5. ASSUME NEW i \in 1 .. n + 1 PROVE more[i] = more[i - 1] + g[i].pl
  <2>1. i - 1 \in 0 .. n /\ more[i - 1] = ends[i - 1]
    BY <1>2
  <2>2. CASE i <= n
    <3>1. more[i] = ends[i] /\ i \in 1 .. n /\ g[i] = f[i]
      BY <1>2, <2>2
    <3> HIDE DEF more
    <3> QED BY <1>1, <2>1, <3>1
  <2>3. CASE i = n + 1
    <3>1. more[i] = ends[n] + p.pl /\ i - 1 = n
      BY <1>2, <2>3
    <3> HIDE DEF more
    <3> QED BY <1>2, <2>1, <2>3, <3>1
  <2> QED BY <1>2, <2>2, <2>3
<1> HIDE DEF more, w
<1>6. more \in Layouts(g, w)
  BY <1>2, <1>4, <1>5 DEF Layouts
<1> QED BY <1>6 DEF g, w

LEMMA TailLaid ==
  ASSUME NEW f \in Seq(Packet), f # <<>>, NEW v \in Nat, Layouts(f, v) # {}
  PROVE  Layouts(Tail(f), v) # {}
<1> DEFINE g == Tail(f)
           n == Len(f)
<1>1. PICK ends \in [0 .. n -> 0 .. v] : \A i \in 1 .. n : ends[i] = ends[i - 1] + f[i].pl
  BY DEF Layouts
<1>2. /\ n \in Nat \ {0} /\ Len(g) = n - 1
      /\ \A i \in 1 .. n - 1 : g[i] = f[i + 1]
  BY TailOf
<1> HIDE DEF g, n
<1> DEFINE less == [i \in 0 .. n - 1 |-> ends[i + 1]]
<1>3. less \in [0 .. n - 1 -> 0 .. v]
  BY <1>2
<1>4. ASSUME NEW i \in 1 .. n - 1 PROVE less[i] = less[i - 1] + g[i].pl
  <2>1. less[i] = ends[i + 1] /\ less[i - 1] = ends[i] /\ i + 1 \in 1 .. n /\ (i + 1) - 1 = i
    BY <1>2
  <2>2. ends[i + 1] = ends[i] + f[i + 1].pl
    BY <1>1, <2>1
  <2> QED BY <1>2, <2>1, <2>2
<1> HIDE DEF less
<1>5. less \in Layouts(g, v)
  BY <1>2, <1>3, <1>4 DEF Layouts
<1> QED BY <1>5 DEF g

(* The two headers of a read take no words. *)
LEMMA ReadLaid ==
  ASSUME TypeOK, NEW s \in Sender, Reads(s), fifo = <<>>, NEW v \in Nat
  PROVE  Layouts(fifo', v) # {} /\ Len(fifo') = 2
<1>1. Len(fifo') = 2 /\ \A i \in 1 .. 2 : fifo'[i].pl = 0
  <2>1. Len(fifo) = 0
    BY EmptyLaid
  <2> QED BY <2>1, ReadIs
<1> DEFINE ends == [i \in 0 .. 2 |-> 0]
<1>2. ends \in [0 .. 2 -> 0 .. v]
  OBVIOUS
<1>3. \A i \in 1 .. 2 : ends[i] = ends[i - 1] + fifo'[i].pl
  BY <1>1
<1> HIDE DEF ends
<1>4. ends \in Layouts(fifo', v)
  BY <1>1, <1>2, <1>3 DEF Layouts
<1> QED BY <1>1, <1>4

Fit ==
  \/ stuck
  \/ /\ Len(fifo) <= MaxPh /\ Layouts(fifo, MaxPl) # {}
     /\ pendPh > 0 => Len(fifo) <= pendPh /\ Layouts(fifo, pendPl) # {}

LEMMA StepFit ==
  ASSUME TypeOK, Wire, Held, Fit, Without({"garbage_last", "read"}), NEW s \in Sender, Step(s)
  PROVE  Fit'
<1>1. stuck => stuck'
  BY DEF Step, FindsLinkOff, RefusesCommand, BeginsBatch, EndsBatch, QueuesCommand, QueuesLastCommand, WritesCommand, MakesReady,
     Flushed, FlushTimesOut, Reads, ReadEnds, Puts, Queue, hw
<1> SUFFICES ASSUME ~stuck, ~stuck' PROVE Fit'
  BY <1>1 DEF Fit
<1>2. /\ Len(fifo) <= MaxPh /\ Layouts(fifo, MaxPl) # {}
      /\ pendPh > 0 => Len(fifo) <= pendPh /\ Layouts(fifo, pendPl) # {}
  BY DEF Fit
<1>3. fifo \in Seq(Packet) /\ Len(fifo) \in Nat
  BY DEF TypeOK, Packet
<1>4. cmdLock = NoSender /\ pendPh = 0 => fifo = <<>>
  BY DEF Held
<1>5. CASE UNCHANGED <<fifo, pendPh, pendPl>>
  BY <1>2, <1>5 DEF Fit
<1>6. CASE QueuesCommand(s) \/ QueuesLastCommand(s)
  <2> DEFINE p == [pl |-> msg[s].pl, held |-> TRUE]
  <2>1. ~TooLong(s) /\ Queue(s) /\ cmdLock = NoSender
    BY <1>6 DEF QueuesCommand, QueuesLastCommand, Locked
  <2>2. pendPh' = pendPh + 1 /\ pendPh' \in 0 .. MaxPh /\ pendPl' = pendPl + p.pl /\ pendPl' \in 0 .. MaxPl /\ fifo' = Append(fifo, p)
    BY <2>1, QueueDoes
  <2>3. p \in Packet
    BY Numbers DEF Packet
  <2> HIDE DEF p
  <2>4. Len(fifo) <= pendPh /\ Layouts(fifo, pendPl) # {}
    <3>1. CASE pendPh > 0
      BY <1>2, <3>1
    <3>2. CASE pendPh = 0
      BY <1>4, <2>1, <3>2, EmptyLaid, Numbers
    <3> QED BY <3>1, <3>2, Numbers
  <2>5. Len(fifo') = Len(fifo) + 1
    BY <1>3, <2>2, <2>3, AppendIs
  <2>6. Layouts(fifo', pendPl') # {}
    BY <1>3, <2>2, <2>3, <2>4, AppendLaid, Numbers
  <2>7. Layouts(fifo', MaxPl) # {}
    BY <2>2, <2>6, WiderLaid, Numbers
  <2>8. Len(fifo') <= pendPh' /\ Len(fifo') <= MaxPh
    BY <1>3, <2>2, <2>4, <2>5, Numbers
  <2> QED BY <2>6, <2>7, <2>8 DEF Fit
<1>7. CASE WritesCommand(s)
  <2> DEFINE p == [pl |-> msg[s].pl, held |-> FALSE]
  <2>1. pendPh = 0 /\ pendPh' = 0 /\ cmdLock = NoSender /\ fifo' = Append(fifo, p)
    BY <1>7 DEF WritesCommand, Locked
  <2>2. p \in Packet /\ p.pl \in Nat /\ p.pl <= MaxPl
    <3>1. ~TooLong(s)
      BY <1>7 DEF WritesCommand
    <3>2. msg[s].pl <= MaxPl
      BY <3>1, Numbers DEF TooLong, Words
    <3> QED BY <3>2, Numbers DEF Packet
  <2> HIDE DEF p
  <2>3. Len(fifo) = 0 /\ Layouts(fifo, 0) # {}
    BY <1>4, <2>1, EmptyLaid
  <2>4. Len(fifo') = 1
    BY <1>3, <2>1, <2>2, <2>3, AppendIs
  <2>5. Layouts(fifo', 0 + p.pl) # {}
    BY <1>3, <2>1, <2>2, <2>3, AppendLaid
  <2>6. Layouts(fifo', MaxPl) # {}
    BY <2>2, <2>5, WiderLaid, Numbers
  <2> QED BY <2>1, <2>4, <2>6, Numbers DEF Fit
<1>8. CASE Flushed(s) \/ FlushTimesOut(s)
  <2>1. pendPh' = 0 /\ fifo' = fifo
    BY <1>8, FlushDoes DEF Flushed, FlushTimesOut
  <2> QED BY <1>2, <2>1 DEF Fit
<1>9. CASE Reads(s)
  <2>1. pendPh = 0 /\ cmdLock = NoSender /\ pendPh' = pendPh
    BY <1>9 DEF Reads, Locked, Without, queue
  <2>2. Layouts(fifo', MaxPl) # {} /\ Len(fifo') = 2
    BY <1>4, <1>9, <2>1, ReadLaid, Numbers
  <2> QED BY <2>1, <2>2, Numbers DEF Fit
<1>10. CASE FindsLinkOff(s) \/ RefusesCommand(s) \/ BeginsBatch(s) \/ EndsBatch(s) \/ MakesReady(s) \/ ReadEnds(s) \/ Puts(s)
  <2>1. UNCHANGED <<fifo, pendPh, pendPl>>
    BY <1>10 DEF FindsLinkOff, RefusesCommand, BeginsBatch, EndsBatch, MakesReady, ReadEnds, Puts, hw, queue
  <2> QED BY <1>5, <2>1
<1> QED BY <1>6, <1>7, <1>8, <1>9, <1>10 DEF Step

LEMMA NextFit == TypeOK /\ Wire /\ HeldInv /\ FitInv /\ [Next]_vars => FitInv'
<1> SUFFICES ASSUME TypeOK, Wire, Held, Fit, Without({"garbage_last", "read"}), [Next]_vars PROVE Fit'
  BY DEF HeldInv, FitInv, Held, Fit, Without
<1>1. CASE UNCHANGED vars
  BY <1>1 DEF vars, hw, queue, Fit
<1>2. CASE \E s \in Sender : Step(s)
  BY <1>2, StepFit
<1>3. CASE Next /\ ~\E s \in Sender : Step(s)
  <2>1. stuck' = stuck
    BY <1>3, OtherHw
  <2> SUFFICES ASSUME ~stuck, ~stuck' PROVE Fit'
    BY <2>1 DEF Fit
  <2>2. pendPl' \in Nat /\ pendPh' \in Nat /\ pendPh \in Nat
    <3>1. TypeOK'
      BY NextWire
    <3> QED BY <3>1, Numbers, FifoAssumption DEF TypeOK
  <2>3. /\ Len(fifo) <= MaxPh /\ Layouts(fifo, MaxPl) # {}
        /\ pendPh > 0 => Len(fifo) <= pendPh /\ Layouts(fifo, pendPl) # {}
    BY DEF Fit
  <2>4. pendPh' = 0 \/ (pendPh' = pendPh /\ pendPl' = pendPl)
    BY <1>3, OtherQueue DEF GiveUpPending
  <2>5. CASE fifo' = fifo
    BY <2>2, <2>3, <2>4, <2>5 DEF Fit
  <2>6. CASE Reset
    <3>1. fifo' = <<>>
      BY <2>6 DEF Reset
    <3>2. Len(fifo') = 0 /\ Layouts(fifo', MaxPl) # {} /\ Layouts(fifo', pendPl') # {}
      BY <2>2, <3>1, EmptyLaid, Numbers
    <3> QED BY <2>2, <3>2, Numbers DEF Fit
  <2>7. CASE HwSends
    <3>1. fifo \in Seq(Packet) /\ fifo # <<>> /\ fifo' = Tail(fifo)
      BY <2>7 DEF HwSends, TypeOK, Packet
    <3>2. Len(fifo') = Len(fifo) - 1 /\ Len(fifo) \in Nat
      BY <3>1, TailOf
    <3>3. Layouts(fifo', MaxPl) # {}
      BY <2>3, <3>1, TailLaid, Numbers
    <3>4. pendPh' > 0 => pendPh > 0 /\ pendPh' = pendPh /\ pendPl' = pendPl
      BY <2>2, <2>4
    <3>5. pendPh' > 0 => Layouts(fifo', pendPl') # {}
      BY <2>2, <2>3, <3>1, <3>4, TailLaid
    <3>6. Len(fifo') <= MaxPh /\ (pendPh' > 0 => Len(fifo') <= pendPh')
      BY <2>2, <2>3, <3>2, <3>4, Numbers
    <3> QED BY <3>3, <3>5, <3>6 DEF Fit
  <2> QED BY <1>3, <2>5, <2>6, <2>7, OtherHw
<1> QED BY <1>1, <1>2, <1>3

-----------------------------------------------------------------------------
(* The results *)

LEMMA InitInv == Init => IInv
<1> SUFFICES ASSUME Init PROVE IInv
  OBVIOUS
<1>1. /\ tpc = "idle" /\ ~asleep /\ state = "HANDOVER" /\ ~rpmError /\ ~resumes
      /\ cmdLock = NoSender /\ pendPh = 0 /\ pendPl = 0 /\ ~refused
      /\ ~packetgo /\ ~ready /\ fifo = <<>> /\ DOMAIN fifo = {}
      /\ \A s \in Sender : pc[s] = "idle"
  BY DEF Init
<1>2. PowerInv
  BY <1>1 DEF PowerInv
<1>3. RoomInv
  BY <1>1, FifoAssumption DEF RoomInv, Room
<1>4. HeldInv
  BY <1>1 DEF HeldInv
<1>5. FitInv
  <2>1. MaxPh \in Nat /\ MaxPl \in Nat
    BY FifoAssumption
  <2> QED BY <1>1, <2>1, EmptyLaid DEF FitInv
<1> QED BY <1>2, <1>3, <1>4, <1>5, InitWire DEF IInv

LEMMA NextInv == IInv /\ [Next]_vars => IInv'
BY NextWire, NextPower, NextRoom, NextHeld, NextFit DEF IInv

LEMMA Invariant == Spec => []IInv
BY InitInv, NextInv, PTL DEF Spec

(* The type invariant: the two counters of the queue stay within the FIFOs,  *)
(* and no reference is dropped twice.                                        *)
THEOREM TypeCorrect == Spec => []TypeOK
<1>1. IInv => TypeOK
  BY DEF IInv
<1> QED BY <1>1, Invariant, PTL

(* The runtime PM references are those of the enabled link, of the queue and *)
(* of the transfers under way, whichever races happen.                       *)
THEOREM ReferencesBalance == Spec => []UsageBalanced
<1>1. IInv => UsageBalanced
  BY DEF IInv, Wire
<1> QED BY <1>1, Invariant, PTL

(* However many threads queue, a command that fits into what the payload     *)
(* FIFO has above the threshold finds room: the one before it that filled    *)
(* the FIFOs up was sent as if it were the last.                             *)
THEOREM NothingRefused == ASSUME ShortCommands PROVE Spec => []NeverRefuses
<1>1. IInv => NeverRefuses
  BY DEF IInv, RoomInv, Room, NeverRefuses
<1> QED BY <1>1, Invariant, PTL

(* Neither FIFO overflows, for every size of the FIFOs and every payload,    *)
(* long commands included, as long as the panel takes its packets, unless a  *)
(* batch flushes what another thread queued or a read is issued over a queue.*)
THEOREM FifosNeverOverflow ==
  ASSUME "garbage_last" \notin Races, "read" \notin Races
  PROVE  Spec => [](TypeOK /\ FifosFit)
<1>1. Without({"garbage_last", "read"})
  BY DEF Without
<1>2. IInv => TypeOK /\ FifosFit
  BY <1>1 DEF IInv, FitInv, FifosFit
<1> QED BY <1>2, Invariant, PTL

(* The arithmetic of the queue as a whole. *)
THEOREM FifosCorrect ==
  ASSUME ShortCommands, "garbage_last" \notin Races, "read" \notin Races
  PROVE  Spec => []FifosSound
<1>1. Without({"garbage_last", "read"})
  BY DEF Without
<1>2. IInv => FifosSound
  BY <1>1 DEF IInv, RoomInv, Room, FitInv, FifosSound, FifosFit, NeverRefuses
<1> QED BY <1>2, Invariant, PTL

(* The link is powered and has its interrupt on exactly while it runs, and   *)
(* is as the last commit tail left it, unless a transfer comes between the   *)
(* two steps that end the bypass.                                            *)
THEOREM LinkAgreed ==
  ASSUME "bypass_transfer" \notin Races
  PROVE  Spec => []LinkSound
<1>1. Without({"bypass_transfer"})
  BY DEF Without
<1>2. IInv => LinkAgrees
  BY <1>1 DEF IInv, Wire, PowerInv, IrqInv, TailInv, LinkAgrees
<1>3. IInv => LinkSound
  BY <1>2 DEF IInv, Wire, LinkSound
<1> QED BY <1>3, Invariant, PTL

(* What a step of a transfer does to the FIFOs. *)
LEMMA StepAdds ==
  ASSUME TypeOK, NEW s \in Sender, Step(s)
  PROVE  fifo' = fifo \/ (Len(fifo') > Len(fifo) /\ Len(fifo) \in Nat)
<1>1. fifo \in Seq(Packet)
  BY DEF TypeOK, Packet
<1>2. CASE QueuesCommand(s) \/ QueuesLastCommand(s) \/ WritesCommand(s)
  <2>1. PICK b \in BOOLEAN : fifo' = Append(fifo, [pl |-> msg[s].pl, held |-> b])
    BY <1>2 DEF QueuesCommand, QueuesLastCommand, WritesCommand, Queue
  <2>2. [pl |-> msg[s].pl, held |-> b] \in Packet
    BY Numbers DEF Packet
  <2>3. Len(fifo') = Len(fifo) + 1 /\ Len(fifo) \in Nat
    BY <1>1, <2>1, <2>2, AppendIs
  <2> QED BY <2>3
<1>3. CASE Reads(s)
  <2>1. Len(fifo') = Len(fifo) + 2 /\ Len(fifo) \in Nat
    BY <1>3, ReadIs
  <2> QED BY <2>1
<1>4. CASE Flushed(s) \/ FlushTimesOut(s) \/ ReadEnds(s) \/ MakesReady(s)
  BY <1>4 DEF Flushed, FlushTimesOut, Flush, ReadEnds, MakesReady
<1>5. CASE FindsLinkOff(s) \/ RefusesCommand(s) \/ BeginsBatch(s) \/ EndsBatch(s) \/ Puts(s)
  BY <1>5 DEF FindsLinkOff, RefusesCommand, BeginsBatch, EndsBatch, Puts, hw
<1> QED BY <1>2, <1>3, <1>4, <1>5 DEF Step

(* A set goes out as a whole: the link never stops over a queue, and a       *)
(* queued packet is only sent once its set was made ready, unless a batch    *)
(* flushes another thread's queue, the clock is changed or the link disabled *)
(* over one.                                                                 *)
THEOREM SetsKeptWhole ==
  ASSUME "garbage_last" \notin Races, "restart" \notin Races, "disable" \notin Races
  PROVE  Spec => SetsWhole
<1>1. ASSUME IInv, [Next]_vars PROVE [StopsEmpty /\ HeldUntilReady]_vars
  <2>1. TypeOK /\ Wire /\ Held
    BY <1>1 DEF IInv, HeldInv, Held, Without
  <2>2. cmdLock = NoSender /\ pendPh = 0 => fifo = <<>> \/ stuck
    BY <2>1 DEF Held
  <2>3. fifo \in Seq(Packet) /\ (fifo # <<>> => Len(Tail(fifo)) = Len(fifo) - 1 /\ Len(fifo) \in Nat \ {0})
    BY <2>1, TailOf DEF TypeOK, Packet
  <2>4. fifo # <<>> /\ fifo' = Tail(fifo) => fifo' # fifo /\ ~(Len(fifo') > Len(fifo))
    BY <2>3
  <2>5. CASE UNCHANGED vars
    BY <2>5
  <2>6. CASE \E s \in Sender : Step(s)
    <3>1. state' = state
      BY <2>1, <2>6, StepMoves DEF power
    <3>2. ~(fifo # <<>> /\ fifo' = Tail(fifo))
      BY <2>1, <2>4, <2>6, StepAdds
    <3> QED BY <3>1, <3>2 DEF StopsEmpty, HeldUntilReady
  <2>7. CASE Next /\ ~\E s \in Sender : Step(s)
    <3>1. CASE fifo' = fifo /\ (state' # "HSCLKEN" => state # "HSCLKEN")
      BY <2>4, <3>1 DEF StopsEmpty, HeldUntilReady
    <3>2. CASE cmdLock = NoSender /\ (Disabled \/ usage = 0)
      <4>1. pendPh = 0
        <5>1. CASE Disabled
          BY <5>1 DEF Disabled, SetsClosed
        <5>2. CASE usage = 0
          BY <2>1, <5>2, Quiet
        <5> QED BY <3>2, <5>1, <5>2
      <4> QED BY <2>2, <3>2, <4>1 DEF StopsEmpty, HeldUntilReady
    <3>3. CASE state' = "HSCLKEN" /\ cmdLock = NoSender /\ (Restart \/ state # "HSCLKEN")
      <4>1. fifo = <<>> \/ stuck
        <5>1. CASE Restart
          BY <2>2, <3>3, <5>1 DEF Restart
        <5>2. CASE state # "HSCLKEN"
          BY <2>1, <5>2 DEF Held
        <5> QED BY <3>3, <5>1, <5>2
      <4> QED BY <3>3, <4>1 DEF StopsEmpty, HeldUntilReady
    <3>4. CASE HwSends /\ state' = state
      <4>1. fifo # <<>> /\ (~packetgo \/ ready)
        BY <3>4 DEF HwSends, Released
      <4>2. 1 \in DOMAIN fifo /\ Head(fifo) = fifo[1]
        BY <2>3, <4>1
      <4>3. ready \/ stuck \/ ~Head(fifo).held
        BY <2>1, <4>1, <4>2 DEF Held
      <4> QED BY <3>4, <4>3 DEF StopsEmpty, HeldUntilReady
    <3> QED BY <2>1, <2>7, <3>1, <3>2, <3>3, <3>4, OtherHw
  <2> QED BY <1>1, <2>5, <2>6, <2>7
<1> QED BY <1>1, Invariant, PTL DEF Spec, SetsWhole
=============================================================================
