-------------------------------- MODULE Dsim --------------------------------
(* The MIPI DSI link of a command-mode panel: its power states and its       *)
(* command queue (exynos_drm_dsim.c).                                        *)
(*                                                                           *)
(* Commit tails switch the link on and off, let it sleep, and hand it to the *)
(* trusted UI (bypass).  Panel code transfers commands from the commit tail  *)
(* and from other threads; each transfer holds a runtime PM reference, which *)
(* takes the link out of ULPS, and cmd_lock.  Commands flagged "queue", or   *)
(* sent between the begin and the end of a batch, stay in the hardware FIFOs *)
(* (packetgo) until the next last command makes them ready.                  *)
(*                                                                           *)
(* Payloads are counted in FIFO words of four bytes.  Left out: video mode,  *)
(* dual DSI, PLL parameters and device links.                                *)
EXTENDS Integers, FiniteSets, Sequences

CONSTANTS
  Sender,      \* threads that transfer commands
  Committer,   \* the sender that is the commit tail
  NoSender,
  MaxPh,       \* MAX_PH_FIFO: packet headers
  MaxPl,       \* MAX_PL_FIFO: payload words
  Threshold,   \* PL_FIFO_THRESHOLD
  Payload,     \* payload sizes
  MaxMessages, \* bound on messages that do not close a set or a batch
  Races        \* which of RaceNames may happen

RaceNames ==
  {"garbage_last",   \* the start of a batch flushes what another thread queued
   "restart",        \* the HS clock is changed while commands are queued
   "read",           \* a read is issued while commands are queued
   "bypass_transfer",\* a transfer is tried between the two steps that end bypass
   "disable",        \* the link is disabled with a set half queued
   "long_last"}      \* the last command of a set may not fit

ASSUME SenderAssumption == Committer \in Sender /\ NoSender \notin Sender /\ IsFiniteSet(Sender)
ASSUME FifoAssumption ==
  /\ MaxPh \in Nat /\ MaxPl \in Nat /\ Threshold \in 0 .. MaxPl
  /\ MaxPh > 1
ASSUME PayloadAssumption == Payload \subseteq Nat
ASSUME RacesAssumption == Races \subseteq RaceNames /\ MaxMessages \in Nat

Kinds   == {"last", "queue", "begin", "end", "read"}
Message == [kind : Kinds, pl : Payload \cup {0}]
NoMessage == [kind |-> "last", pl |-> 0]
Links   == {"off", "on", "sleep", "bypass"}
TailPcs == {"idle", "leaveBypass", "enable", "disable", "put", "enterBypass"}
States  == {"HANDOVER", "SUSPEND", "HSCLKEN", "ULPS", "BYPASS"}

VARIABLES
  link,      \* the state DRM wants, from the last enable or disable
  tpc,       \* where the commit tail is in an enable or disable
  asleep,    \* system suspend, after its late phase
  state,     \* dsim->state
  resumes,   \* dsim->suspend_state is HSCLKEN
  rpm,       \* runtime PM status
  rpmError,  \* its sticky error
  usage,     \* its usage count
  irqDepth,  \* depth of disable_irq
  pc,        \* where each transfer is
  msg,       \* its message
  job,       \* what each sender has begun: a set or a batch
  messages,
  cmdLock,   \* holder of dsim->cmd_lock between steps
  batching,  \* dsim->force_batching
  pendPh,    \* dsim->total_pend_ph
  pendPl,    \* dsim->total_pend_pl
  refused,   \* history: a small command was refused
  packetgo,  \* hardware: packetgo enabled
  ready,     \* hardware: packetgo ready
  fifo,      \* hardware: the packets in the FIFOs
  stuck      \* history: the panel did not take packets in time

drm    == <<link, tpc, asleep, resumes>>
power  == <<state, rpm, rpmError, irqDepth>>
callers == <<pc, msg, job, messages>>
queue  == <<batching, pendPh, pendPl, refused>>
hw     == <<packetgo, ready, fifo, stuck>>
vars   == <<drm, power, usage, callers, cmdLock, queue, hw>>

TypeOK ==
  /\ link \in Links /\ tpc \in TailPcs /\ asleep \in BOOLEAN /\ resumes \in BOOLEAN
  /\ state \in States /\ rpm \in {"active", "suspended"} /\ rpmError \in BOOLEAN
  /\ usage \in Nat /\ irqDepth \in Nat
  /\ pc \in [Sender -> {"idle", "got", "ready", "flush", "read", "put"}]
  /\ msg \in [Sender -> Message] /\ job \in [Sender -> {"none", "set", "batch"}]
  /\ messages \in 0 .. MaxMessages /\ cmdLock \in Sender \cup {NoSender}
  /\ batching \in BOOLEAN /\ pendPh \in 0 .. MaxPh /\ pendPl \in 0 .. MaxPl
  /\ refused \in BOOLEAN
  /\ packetgo \in BOOLEAN /\ ready \in BOOLEAN /\ stuck \in BOOLEAN
  /\ fifo \in Seq([pl : Nat, held : BOOLEAN])

Init ==
  /\ link = "off" /\ tpc = "idle" /\ asleep = FALSE /\ resumes = FALSE
  /\ state = "HANDOVER" /\ rpm = "suspended" /\ rpmError = FALSE
  /\ usage = 0 /\ irqDepth = 1
  /\ pc = [s \in Sender |-> "idle"] /\ msg = [s \in Sender |-> NoMessage]
  /\ job = [s \in Sender |-> "none"] /\ messages = 0 /\ cmdLock = NoSender
  /\ batching = FALSE /\ pendPh = 0 /\ pendPl = 0 /\ refused = FALSE
  /\ packetgo = FALSE /\ ready = FALSE /\ fifo = <<>> /\ stuck = FALSE

-----------------------------------------------------------------------------
(* Runtime PM. *)
CanResume == rpm = "active" \/ (~rpmError /\ state # "BYPASS")

(* pm_runtime_get_sync with dsim_runtime_resume: out of ULPS, and a sticky   *)
(* error in bypass.                                                          *)
Resume ==
  IF CanResume
  THEN /\ rpm' = "active" /\ UNCHANGED rpmError
       /\ IF state = "ULPS" THEN state' = "HSCLKEN" /\ irqDepth' = irqDepth - 1
          ELSE UNCHANGED <<state, irqDepth>>
  ELSE rpmError' = TRUE /\ UNCHANGED <<state, rpm, irqDepth>>

(* The hardware is reset when the link stops. *)
Reset == packetgo' = FALSE /\ ready' = FALSE /\ fifo' = <<>> /\ UNCHANGED stuck

(* __dsim_check_pend_cmd_locked gives pending commands up. *)
GiveUpPending == pendPh' = 0 /\ pendPl' = IF pendPh > 0 THEN 0 ELSE pendPl

PacketgoRef == IF pendPh > 0 THEN 1 ELSE 0

EnterUlps ==
  /\ state' = "ULPS" /\ irqDepth' = irqDepth + 1
  /\ GiveUpPending /\ Reset
  /\ UNCHANGED <<batching, refused>>

RuntimeSuspend ==
  /\ ~asleep /\ usage = 0 /\ rpm = "active"
  /\ rpm' = "suspended"
  /\ IF state = "HSCLKEN" THEN cmdLock = NoSender /\ EnterUlps
     ELSE UNCHANGED <<state, irqDepth, queue, hw>>
  /\ usage' = usage - PacketgoRef
  /\ UNCHANGED <<drm, rpmError, callers, cmdLock>>

-----------------------------------------------------------------------------
(* Commit tails: dsim_encoder_enable and dsim_encoder_disable. *)
TailIdle == tpc = "idle" /\ ~asleep /\ pc[Committer] = "idle" /\ job[Committer] = "none"

(* Mutant: the resume is not waited for. *)
EnablesUnresumed ==
  /\ TailIdle /\ link = "sleep"
  /\ usage' = usage + 1 /\ link' = "on"
  /\ UNCHANGED <<tpc, asleep, resumes, power, callers, cmdLock, queue, hw>>

EnablesFromSleep ==
  /\ TailIdle /\ link = "sleep"
  /\ Resume /\ usage' = usage + 1
  /\ link' = "on"
  /\ UNCHANGED <<tpc, asleep, resumes, callers, cmdLock, queue, hw>>

(* pm_runtime_set_suspended only clears a sticky error. *)
LeavesBypass ==
  /\ TailIdle /\ link = "bypass"
  /\ link' \in {"on", "off"} /\ tpc' = "leaveBypass"
  /\ IF rpmError THEN rpmError' = FALSE /\ rpm' = "suspended" ELSE UNCHANGED <<rpmError, rpm>>
  /\ UNCHANGED <<state, irqDepth, asleep, resumes, usage, callers, cmdLock, queue, hw>>

(* Enabled again, or disabled though it is suspended already. *)
LeftBypass ==
  /\ tpc = "leaveBypass"
  /\ IF link = "off" THEN state' = "SUSPEND" /\ tpc' = "idle" /\ UNCHANGED <<usage, rpm, rpmError>>
     ELSE /\ tpc' = "enable" /\ state' = "SUSPEND" /\ usage' = usage + 1
          /\ IF rpmError THEN UNCHANGED <<rpm, rpmError>> ELSE rpm' = "active" /\ UNCHANGED rpmError
  /\ UNCHANGED <<irqDepth, link, asleep, resumes, callers, cmdLock, queue, hw>>

Enables ==
  /\ TailIdle /\ link = "off"
  /\ Resume /\ usage' = usage + 1
  /\ link' = "on" /\ tpc' = "enable"
  /\ UNCHANGED <<asleep, resumes, callers, cmdLock, queue, hw>>

(* The locked part of _dsim_enable. *)
Enabled ==
  /\ tpc = "enable"
  /\ state' = "HSCLKEN" /\ irqDepth' = irqDepth - 1
  /\ Reset
  /\ tpc' = "idle"
  /\ UNCHANGED <<link, asleep, resumes, rpm, rpmError, usage, callers, cmdLock, queue>>

Sleeps ==
  /\ TailIdle /\ link = "on"
  /\ link' = "sleep" /\ usage' = usage - 1
  /\ UNCHANGED <<tpc, asleep, resumes, power, callers, cmdLock, queue, hw>>

(* Panel code ends the sets it has begun before the link goes off. *)
SetsClosed == pendPh = 0 /\ \A s \in Sender : job[s] = "none"

(* Mutant: the reference of self refresh is not taken again. *)
DisablesWithoutRef ==
  /\ TailIdle /\ (SetsClosed \/ "disable" \in Races)
  /\ tpc' = "disable"
  /\ \/ link = "on" /\ link' \in {"off", "bypass"}
     \/ link = "sleep" /\ link' = "off"
  /\ UNCHANGED <<power, usage, asleep, resumes, callers, cmdLock, queue, hw>>

Disables ==
  /\ TailIdle /\ (SetsClosed \/ "disable" \in Races)
  /\ tpc' = "disable"
  /\ \/ link = "on" /\ link' \in {"off", "bypass"} /\ UNCHANGED <<power, usage>>
     \/ link = "sleep" /\ link' = "off" /\ Resume /\ usage' = usage + 1
  /\ UNCHANGED <<asleep, resumes, callers, cmdLock, queue, hw>>

(* Mutant: a command that is being sent is not waited for. *)
DisabledUnlocked ==
  /\ tpc = "disable" /\ (SetsClosed \/ "disable" \in Races)
  /\ state' = "SUSPEND" /\ irqDepth' = irqDepth + 1
  /\ GiveUpPending /\ Reset /\ batching' = FALSE
  /\ usage' = usage - PacketgoRef
  /\ tpc' = "put"
  /\ UNCHANGED <<link, asleep, resumes, rpm, rpmError, callers, cmdLock, refused>>

(* The locked part of _dsim_disable. *)
Disabled ==
  /\ tpc = "disable" /\ cmdLock = NoSender /\ (SetsClosed \/ "disable" \in Races)
  /\ state' = "SUSPEND" /\ irqDepth' = irqDepth + 1
  /\ GiveUpPending /\ Reset /\ batching' = FALSE
  /\ usage' = usage - PacketgoRef
  /\ tpc' = "put"
  /\ UNCHANGED <<link, asleep, resumes, rpm, rpmError, callers, cmdLock, refused>>

DisabledPuts ==
  /\ tpc = "put"
  /\ usage' = usage - 1
  /\ tpc' = IF link = "bypass" THEN "enterBypass" ELSE "idle"
  /\ UNCHANGED <<link, asleep, resumes, power, callers, cmdLock, queue, hw>>

EntersBypass ==
  /\ tpc = "enterBypass"
  /\ state' = "BYPASS" /\ tpc' = "idle"
  /\ UNCHANGED <<link, asleep, resumes, rpm, rpmError, irqDepth, usage, callers, cmdLock, queue, hw>>

(* System suspend, late phase: runtime PM is off, the threads are frozen. *)
SystemSuspend ==
  /\ TailIdle /\ link # "on" /\ usage = 0
  /\ asleep' = TRUE /\ resumes' = (state = "HSCLKEN")
  /\ IF state = "HSCLKEN" THEN EnterUlps ELSE UNCHANGED <<state, irqDepth, queue, hw>>
  /\ UNCHANGED <<link, tpc, rpm, rpmError, usage, callers, cmdLock>>

SystemResume ==
  /\ asleep
  /\ asleep' = FALSE
  /\ IF resumes THEN state' = "HSCLKEN" /\ irqDepth' = irqDepth - 1
     ELSE UNCHANGED <<state, irqDepth>>
  /\ UNCHANGED <<link, tpc, resumes, rpm, rpmError, usage, callers, cmdLock, queue, hw>>

-----------------------------------------------------------------------------
(* Transfers: dsim_host_transfer. *)
Goto(s, p) == pc' = [pc EXCEPT ![s] = p]

Closes(s, m) == (job[s] = "set" /\ m.kind = "last") \/ (job[s] = "batch" /\ m.kind = "end")

(* What panel code sends: sets end with a last command, a commit ends the    *)
(* batch it began.                                                           *)
Allowed(s, m) ==
  /\ m.kind \in {"begin", "end", "read"} => m.pl = 0
  /\ m.kind = "begin" => s = Committer /\ job[s] = "none" /\ link = "on" /\ tpc = "idle"
  /\ m.kind = "end"   => job[s] = "batch"
  /\ m.kind = "read"  => job[s] = "none" \/ "read" \in Races
  /\ Closes(s, m) => m.pl <= MaxPl - Threshold \/ "long_last" \in Races
  /\ s = Committer => tpc = "idle"

NextJob(j, m) ==
  CASE m.kind = "begin" -> "batch"
    [] m.kind = "end"   -> "none"
    [] m.kind = "queue" -> IF j = "batch" THEN j ELSE "set"
    [] m.kind = "last"  -> IF j = "set" THEN "none" ELSE j
    [] m.kind = "read"  -> j

(* pm_runtime_resume_and_get; without it the message is dropped. *)
Transfer(s, m) ==
  /\ ~asleep /\ pc[s] = "idle" /\ Allowed(s, m)
  /\ "bypass_transfer" \in Races \/ tpc # "leaveBypass"
  /\ Closes(s, m) \/ messages < MaxMessages
  /\ messages' = messages + IF Closes(s, m) THEN 0 ELSE 1
  /\ job' = [job EXCEPT ![s] = NextJob(job[s], m)]
  /\ Resume
  /\ IF CanResume THEN Goto(s, "got") /\ msg' = [msg EXCEPT ![s] = m] /\ usage' = usage + 1
     ELSE UNCHANGED <<pc, msg, usage>>
  /\ UNCHANGED <<drm, cmdLock, queue, hw>>

Locked(s, kinds) == pc[s] = "got" /\ cmdLock = NoSender /\ state = "HSCLKEN" /\ msg[s].kind \in kinds

(* -EPERM *)
FindsLinkOff(s) ==
  /\ pc[s] = "got" /\ cmdLock = NoSender /\ state # "HSCLKEN"
  /\ Goto(s, "put")
  /\ UNCHANGED <<drm, power, usage, msg, job, messages, cmdLock, queue, hw>>

writeRest == <<drm, power, msg, job, messages>>

(* FORCE_BATCH.  is_last is not assigned on this path: the caller may flush. *)
BeginsBatch(s) ==
  /\ Locked(s, {"begin"})
  /\ batching' = TRUE
  /\ \/ Goto(s, "put") /\ UNCHANGED cmdLock
     \/ /\ pendPh = 0 \/ "garbage_last" \in Races
        /\ Goto(s, "flush") /\ cmdLock' = s
  /\ UNCHANGED <<writeRest, usage, pendPh, pendPl, refused, hw>>

Words(s) == pendPl + msg[s].pl

(* Mutant: only the headers are counted. *)
TooLongByHeaders(s) == pendPh >= MaxPh

TooLong(s) == Words(s) > MaxPl \/ pendPh >= MaxPh

(* Mutant: the threshold is not looked at. *)
IsLastIgnoresThreshold(s) ==
  \/ msg[s].kind = "last" /\ ~batching
  \/ pendPh + 1 >= MaxPh

(* Not yet the last command, unless the FIFOs fill up. *)
IsLast(s) ==
  \/ msg[s].kind = "last" /\ ~batching
  \/ pendPh + 1 >= MaxPh
  \/ Words(s) > Threshold

RefusesCommand(s) ==
  /\ Locked(s, {"last", "queue"}) /\ TooLong(s)
  /\ refused' = (refused \/ msg[s].pl <= MaxPl - Threshold)
  /\ Goto(s, "put")
  /\ UNCHANGED <<writeRest, usage, cmdLock, batching, pendPh, pendPl, hw>>

(* Mutant: every packet takes a reference. *)
QueueTakesRefs(s) ==
  /\ pendPh' = pendPh + 1 /\ pendPl' = Words(s)
  /\ packetgo' = TRUE /\ fifo' = Append(fifo, [pl |-> msg[s].pl, held |-> TRUE])
  /\ usage' = usage + 1
  /\ UNCHANGED <<ready, stuck, batching, refused>>

(* dsim_cmd_packetgo_queue_locked: the first packet enables packetgo, which  *)
(* holds a reference.                                                        *)
Queue(s) ==
  /\ pendPh' = pendPh + 1 /\ pendPl' = Words(s)
  /\ packetgo' = TRUE /\ fifo' = Append(fifo, [pl |-> msg[s].pl, held |-> TRUE])
  /\ usage' = usage + IF pendPh = 0 THEN 1 ELSE 0
  /\ UNCHANGED <<ready, stuck, batching, refused>>

QueuesCommand(s) ==
  /\ Locked(s, {"last", "queue"}) /\ ~TooLong(s) /\ ~IsLast(s)
  /\ Queue(s)
  /\ Goto(s, "put")
  /\ UNCHANGED <<writeRest, cmdLock>>

QueuesLastCommand(s) ==
  /\ Locked(s, {"last", "queue"}) /\ ~TooLong(s) /\ IsLast(s) /\ pendPh > 0
  /\ Queue(s)
  /\ Goto(s, "ready") /\ cmdLock' = s
  /\ UNCHANGED writeRest

WritesCommand(s) ==
  /\ Locked(s, {"last", "queue"}) /\ ~TooLong(s) /\ IsLast(s) /\ pendPh = 0
  /\ pendPl' = msg[s].pl
  /\ fifo' = Append(fifo, [pl |-> msg[s].pl, held |-> FALSE])
  /\ Goto(s, "flush") /\ cmdLock' = s
  /\ UNCHANGED <<writeRest, usage, batching, pendPh, refused, packetgo, ready, stuck>>

(* Mutant: a message without packet does not flush. *)
EndsBatchWithoutFlush(s) ==
  /\ Locked(s, {"end"})
  /\ batching' = FALSE
  /\ Goto(s, "put")
  /\ UNCHANGED <<writeRest, usage, cmdLock, pendPh, pendPl, refused, hw>>

(* Mutant: the queue is flushed but never made ready. *)
EndsBatchUnready(s) ==
  /\ Locked(s, {"end"})
  /\ batching' = FALSE
  /\ Goto(s, "flush") /\ cmdLock' = s
  /\ UNCHANGED <<writeRest, usage, pendPh, pendPl, refused, hw>>

(* FORCE_FLUSH. *)
EndsBatch(s) ==
  /\ Locked(s, {"end"})
  /\ batching' = FALSE
  /\ Goto(s, IF pendPh > 0 THEN "ready" ELSE "flush") /\ cmdLock' = s
  /\ UNCHANGED <<writeRest, usage, pendPh, pendPl, refused, hw>>

(* need_wait_vblank and dsim_cmd_packetgo_ready_locked, under cmd_lock. *)
MakesReady(s) ==
  /\ pc[s] = "ready"
  /\ ready' = TRUE
  /\ Goto(s, "flush")
  /\ UNCHANGED <<writeRest, usage, cmdLock, queue, packetgo, fifo, stuck>>

(* The packets the hardware is free to send. *)
Released == ~packetgo \/ ready

(* dsim_cmd_flush_locked, when the FIFOs are empty or after 80 ms; packetgo  *)
(* is switched off either way.                                               *)
Flush(s) ==
  /\ packetgo' = FALSE /\ ready' = FALSE
  /\ usage' = usage - PacketgoRef
  /\ GiveUpPending
  /\ Goto(s, "put") /\ cmdLock' = NoSender
  /\ UNCHANGED <<writeRest, batching, refused, fifo>>

Flushed(s) ==
  /\ pc[s] = "flush" /\ fifo = <<>>
  /\ Flush(s) /\ UNCHANGED stuck

FlushTimesOut(s) ==
  /\ pc[s] = "flush" /\ fifo # <<>>
  /\ Flush(s)
  /\ stuck' = (stuck \/ Released)

(* dsim_read_data: two headers, with cmd_lock until they are answered. *)
Reads(s) ==
  /\ Locked(s, {"read"}) /\ (pendPh = 0 \/ "read" \in Races)
  /\ fifo' = fifo \o [i \in 1 .. 2 |-> [pl |-> 0, held |-> packetgo]]
  /\ Goto(s, "read") /\ cmdLock' = s
  /\ UNCHANGED <<writeRest, usage, queue, packetgo, ready, stuck>>

ReadEnds(s) ==
  /\ pc[s] = "read"
  /\ stuck' = (stuck \/ (fifo # <<>> /\ Released))
  /\ Goto(s, "put") /\ cmdLock' = NoSender
  /\ UNCHANGED <<writeRest, usage, queue, packetgo, ready, fifo>>

(* Autosuspend: the reference is dropped, ULPS follows later. *)
Puts(s) ==
  /\ pc[s] = "put"
  /\ usage' = usage - 1
  /\ Goto(s, "idle") /\ msg' = [msg EXCEPT ![s] = NoMessage]
  /\ UNCHANGED <<drm, power, job, messages, cmdLock, queue, hw>>

-----------------------------------------------------------------------------
(* dsim_restart: a new HS clock from sysfs. *)
Restart ==
  /\ ~asleep /\ state = "HSCLKEN" /\ cmdLock = NoSender
  /\ pendPh = 0 \/ "restart" \in Races
  /\ Reset
  /\ UNCHANGED <<drm, power, usage, callers, cmdLock, queue>>

(* The hardware sends the oldest packet. *)
HwSends ==
  /\ state = "HSCLKEN" /\ fifo # <<>> /\ Released
  /\ fifo' = Tail(fifo)
  /\ UNCHANGED <<drm, power, usage, callers, cmdLock, queue, packetgo, ready, stuck>>

Step(s) ==
  \/ FindsLinkOff(s) \/ BeginsBatch(s) \/ EndsBatch(s) \/ RefusesCommand(s)
  \/ QueuesCommand(s) \/ QueuesLastCommand(s) \/ WritesCommand(s)
  \/ MakesReady(s) \/ Flushed(s) \/ FlushTimesOut(s)
  \/ Reads(s) \/ ReadEnds(s) \/ Puts(s)

CommitTail ==
  \/ EnablesFromSleep \/ LeavesBypass \/ LeftBypass \/ Enables \/ Enabled
  \/ Sleeps \/ Disables \/ Disabled \/ DisabledPuts \/ EntersBypass

Next ==
  \/ \E s \in Sender : Step(s) \/ \E m \in Message : Transfer(s, m)
  \/ CommitTail
  \/ RuntimeSuspend \/ SystemSuspend \/ SystemResume
  \/ Restart \/ HwSends

Spec == Init /\ [][Next]_vars

(* Transfers run, and panel code sends what closes a set or a batch.  A      *)
(* transfer waits for cmd_lock, whose holder lets go after a time limit.     *)
FairSpec ==
  /\ Spec
  /\ \A s \in Sender :
       /\ SF_vars(Step(s))
       /\ WF_vars(\E m \in Message : Closes(s, m) /\ Transfer(s, m))

-----------------------------------------------------------------------------
(* Where the payloads of packets end, laid one after another into some words *)
(* of a FIFO.                                                                *)
Layouts(packets, words) ==
  {ends \in [0 .. Len(packets) -> 0 .. words] :
     \A i \in 1 .. Len(packets) : ends[i] = ends[i - 1] + packets[i].pl}

(* The two FIFOs never overflow, whatever two threads queue: a command that  *)
(* fills them up is sent as if it were the last.                             *)
FifosFit ==
  stuck \/ (Len(fifo) <= MaxPh /\ Layouts(fifo, MaxPl) # {})

(* A command that fits above the threshold is never refused for lack of room *)
(* in the FIFOs, however much is queued before it.                           *)
NeverRefuses == ~refused

(* The arithmetic of the queue, over two threads and every set they send.    *)
FifosSound == TypeOK /\ FifosFit /\ NeverRefuses

(* The runtime PM references are those of the enabled link, of the queue and *)
(* of the transfers under way.                                               *)
UsageBalanced ==
  usage = Cardinality({s \in Sender : pc[s] # "idle"})
          + PacketgoRef
          + IF tpc \in {"enable", "disable", "put"} \/ (tpc = "idle" /\ link = "on") THEN 1 ELSE 0

(* DRM, dsim->state, runtime PM and the interrupt agree: a link that DRM has *)
(* enabled is not suspended, one it has disabled does not run, and a link    *)
(* that runs is powered and has its interrupt on.                            *)
LinkAgrees ==
  /\ state = "HSCLKEN" /\ ~asleep => rpm = "active" /\ ~rpmError
  /\ irqDepth = IF state = "HSCLKEN" THEN 0 ELSE 1
  /\ tpc = "idle" =>
       CASE link = "on"     -> state = "HSCLKEN"
         [] link = "sleep"  -> state \in {"HSCLKEN", "ULPS"}
         [] link = "bypass" -> state = "BYPASS"
         [] link = "off"    -> state \in {"SUSPEND", "HANDOVER"}

(* DRM, the link, runtime PM and its references agree on what is on.         *)
LinkSound == UsageBalanced /\ LinkAgrees

(* A set goes out as a whole: the link never stops, for ULPS or for good,    *)
(* with commands in its queue, and a queued packet is only sent after its    *)
(* set was made ready.                                                       *)
StopsEmpty     == state = "HSCLKEN" /\ state' # "HSCLKEN" => pendPh = 0 /\ (fifo = <<>> \/ stuck)
HeldUntilReady == fifo # <<>> /\ fifo' = Tail(fifo) /\ Head(fifo).held => ready \/ stuck
SetsWhole      == [][StopsEmpty /\ HeldUntilReady]_vars

(* What is queued is sent or given up, never left behind in the FIFOs.       *)
QueueDrains == pendPh > 0 ~> pendPh = 0
=============================================================================
