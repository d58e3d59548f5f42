------------------------ MODULE IoProxyServiceProofs ------------------------
(***************************************************************************)
(* The request path implements AccessService: every step of IoProxy is a   *)
(* step of one client's access, or leaves all accesses as they are.        *)
(***************************************************************************)
EXTENDS IoProxyInvariance

-----------------------------------------------------------------------------
(* Steps of the abstract specification.                                    *)
LEMMA AccessStep ==
  ASSUME NEW c \in Clients, NEW from, NEW to, AccessState(c) \in from, AccessState(c)' = to,
         \A d \in Clients \ {c} : AccessState(d)' = AccessState(d)
  PROVE  Service!Step(c, from, to)
  BY DEF Service!Step

LEMMA AccessStutter ==
  ASSUME \A d \in Clients : AccessState(d)' = AccessState(d)
  PROVE  UNCHANGED [c \in Clients |-> AccessState(c)]
  OBVIOUS

AccessSteps == [Service!Next]_([c \in Clients |-> AccessState(c)])

LEMMA AccessNext ==
  ASSUME NEW c \in Clients,
         \/ Service!Ask(c) \/ Service!Serve(c) \/ Service!Resume(c) \/ Service!Refuse(c)
  PROVE  AccessSteps
  BY DEF AccessSteps, Service!Next

-----------------------------------------------------------------------------
(* Clients have slots of their own; 0 is no slot of a native thread.       *)
HasSlot(c) == c \in VCpus \/ thread[Vmm].nativeSlot # 0

LEMMA SlotsApart ==
  ASSUME OneRequester, Inv, NEW c \in Clients, NEW d \in Clients, HasSlot(c), HasSlot(d),
         SlotOf(c) = SlotOf(d)
  PROVE  c = d
  <1>1. \A v \in VCpus : v # NativeBase
    BY SlotsAssumption
  <1>2. thread[Vmm].nativeSlot # 0 => thread[Vmm].nativeSlot = NativeBase
    BY DEF Inv, NativeSlot
  <1> QED
    BY <1>1, <1>2, VmmFacts DEF HasSlot, SlotOf

LEMMA WaitsHasSlot ==
  ASSUME OneRequester, Inv, NEW c \in Clients, Waits(c)
  PROVE  HasSlot(c)
  BY VmmFacts DEF Waits, HasSlot, Inv, ThreadShape, Starting

(* A message in flight is of a client that waits. *)
LEMMA MessageOf ==
  ASSUME OneRequester, Inv, NEW b \in Live, NEW c \in Clients, HasSlot(c),
         buffer[b].slot = SlotOf(c)
  PROVE  Waits(c) /\ ioacks[buffer[b].slot] = c
  <1>1. PICK d \in Clients : d = ioacks[buffer[b].slot] /\ buffer[b].slot = SlotOf(d) /\ Waits(d)
    BY DEF Inv, Messages, LiveMessage
  <1>2. d = c
    BY <1>1, SlotsApart, WaitsHasSlot
  <1> QED
    BY <1>1, <1>2

(* An answer is that of a message in flight, or the native call has it. *)
LEMMA AnsweredFacts ==
  ASSUME OneRequester, Inv, NEW c \in Clients, Answered(c)
  PROVE  \/ \E b \in Live : b \in Part.response \cup Acking /\ buffer[b].slot = SlotOf(c)
         \/ c = Vmm /\ handoff[Vmm] # 0
  <1>1. CASE \E b \in ToSet(queue.response) : buffer[b].slot = SlotOf(c)
    BY <1>1 DEF Live, Part
  <1>2. CASE ntfn.pc = "ack" /\ ntfn.slot = SlotOf(c)
    <2>1. ntfn.id \in Live /\ ntfn.id \in Acking /\ ntfn.slot = buffer[ntfn.id].slot
      BY <1>2 DEF Live, Acking, Inv, ActorShape
    <2> QED
      BY <1>2, <2>1
  <1>3. CASE c \in NativeThreads /\ handoff[c] > 0
    BY <1>3, VmmFacts
  <1> QED
    BY <1>1, <1>2, <1>3 DEF Answered

LEMMA NotAnswered ==
  ASSUME OneRequester, Inv, NEW c \in Clients, HasSlot(c),
         ~Waits(c) \/ \A b \in Live : buffer[b].slot # SlotOf(c),
         c = Vmm => handoff[Vmm] = 0
  PROVE  ~Answered(c)
  BY AnsweredFacts, MessageOf

-----------------------------------------------------------------------------
(* When an access is what it was.                                          *)
LEMMA AnsweredFrame ==
  ASSUME NEW c, SlotOf(c)' = SlotOf(c), queue'.response = queue.response,
         \A b \in ToSet(queue.response) : buffer'[b].slot = buffer[b].slot,
         UNCHANGED <<ntfn, handoff>>
  PROVE  Answered(c)' <=> Answered(c)
  BY DEF Answered

LEMMA VCpuSame ==
  ASSUME NEW v \in VCpus, vcpu'[v] = vcpu[v], Answered(v)' <=> Answered(v)
  PROVE  AccessState(v)' = AccessState(v)
  BY DEF AccessState, VCpuAccess, Pending

LEMMA NativeSame ==
  ASSUME OneRequester, thread'[Vmm].job = Vmm <=> thread[Vmm].job = Vmm,
         thread[Vmm].job # Vmm => (LeftBehind(Vmm)' <=> LeftBehind(Vmm)),
         thread[Vmm].job = Vmm => (thread'[Vmm].pc \in {"alloc", "allocated"}
                                       <=> thread[Vmm].pc \in {"alloc", "allocated"}),
         thread[Vmm].job = Vmm /\ thread[Vmm].pc \notin {"alloc", "allocated"}
             => (Answered(Vmm)' <=> Answered(Vmm))
  PROVE  AccessState(Vmm)' = AccessState(Vmm)
  BY VmmFacts DEF AccessState, NativeAccess, Pending

LEMMA LeftBehindFrame ==
  ASSUME SlotOf(Vmm)' = SlotOf(Vmm), UNCHANGED <<ioacks, ntfn>>
  PROVE  LeftBehind(Vmm)' <=> LeftBehind(Vmm)
  BY DEF LeftBehind

(* No client is affected when what its access depends on stays. *)
LEMMA AllSame ==
  ASSUME OneRequester, UNCHANGED <<vcpu, ntfn, ioacks, handoff>>,
         queue'.response = queue.response,
         \A b \in ToSet(queue.response) : buffer'[b].slot = buffer[b].slot,
         thread'[Vmm].nativeSlot = thread[Vmm].nativeSlot,
         thread'[Vmm].job = Vmm <=> thread[Vmm].job = Vmm,
         thread[Vmm].job = Vmm => (thread'[Vmm].pc \in {"alloc", "allocated"}
                                       <=> thread[Vmm].pc \in {"alloc", "allocated"})
  PROVE  \A c \in Clients : AccessState(c)' = AccessState(c)
  <1>1. \A c \in Clients : SlotOf(c)' = SlotOf(c)
    BY VmmFacts DEF SlotOf
  <1>2. \A c \in Clients : Answered(c)' <=> Answered(c)
    BY <1>1, AnsweredFrame
  <1>3. \A v \in VCpus : AccessState(v)' = AccessState(v)
    BY <1>2, VCpuSame, VmmFacts
  <1>4. LeftBehind(Vmm)' <=> LeftBehind(Vmm)
    BY <1>1, LeftBehindFrame, VmmFacts
  <1>5. AccessState(Vmm)' = AccessState(Vmm)
    BY <1>2, <1>4, NativeSame, VmmFacts
  <1> QED
    BY <1>3, <1>5, VmmFacts

-----------------------------------------------------------------------------
(* The accesses of the guest and of the VMM thread.                        *)
LEMMA FaultAsks ==
  ASSUME OneRequester, Inv, NEW v \in VCpus, Fault(v)
  PROVE  Service!Ask(v)
  <1> USE VmmFacts
  <1>1. /\ vcpu[v] = "running" /\ vcpu'[v] = "faulted"
        /\ \A w \in VCpus \ {v} : vcpu'[w] = vcpu[w]
        /\ UNCHANGED <<thread, ioacks, buffer, queue, ntfn, handoff>>
    BY DEF Fault, sharedVars, actorVars, deviceVars, Inv, TypeOK, ClientTypes
  <1>2. \A c \in Clients : SlotOf(c)' = SlotOf(c)
    BY <1>1 DEF SlotOf
  <1>3. \A c \in Clients : Answered(c)' <=> Answered(c)
    BY <1>1, <1>2, AnsweredFrame
  <1>4. ~Answered(v)
    <2>1. HasSlot(v) /\ ~Waits(v)
      BY <1>1 DEF HasSlot, Waits
    <2> QED
      BY <2>1, NotAnswered
  <1>5. AccessState(v) = "idle"
    BY <1>1 DEF AccessState, VCpuAccess
  <1>6. AccessState(v)' = "asked"
    BY <1>1, <1>3, <1>4 DEF AccessState, VCpuAccess, Pending
  <1>7. \A w \in VCpus \ {v} : AccessState(w)' = AccessState(w)
    BY <1>1, <1>3, VCpuSame
  <1>8. AccessState(Vmm)' = AccessState(Vmm)
    <2>1. LeftBehind(Vmm)' <=> LeftBehind(Vmm)
      BY <1>1, <1>2, LeftBehindFrame
    <2> QED
      BY <1>1, <1>3, <2>1, NativeSame
  <1>9. \A d \in Clients \ {v} : AccessState(d)' = AccessState(d)
    BY <1>7, <1>8
  <1> QED
    BY <1>5, <1>6, <1>9, AccessStep DEF Service!Ask

LEMMA mmio_fault_handlerStutters ==
  ASSUME OneRequester, Inv, NEW v \in VCpus, mmio_fault_handler(v)
  PROVE  \A c \in Clients : AccessState(c)' = AccessState(c)
  <1> USE VmmFacts
  <1>1. /\ vcpu[v] = "faulted" /\ vcpu'[v] = "waiting"
        /\ \A w \in VCpus \ {v} : vcpu'[w] = vcpu[w]
        /\ UNCHANGED <<ioacks, buffer, queue, ntfn, handoff>>
    BY DEF mmio_fault_handler, sharedVars, actorVars, deviceVars, Inv, TypeOK, ClientTypes
  <1>2. /\ thread[Vmm].job # Vmm /\ thread'[Vmm].job # Vmm
        /\ thread'[Vmm].nativeSlot = thread[Vmm].nativeSlot
    BY DEF mmio_fault_handler, At, Inv, TypeOK, ThreadTypes, ThreadState, ThreadShape
  <1>3. \A c \in Clients : SlotOf(c)' = SlotOf(c)
    BY <1>2 DEF SlotOf
  <1>4. \A c \in Clients : Answered(c)' <=> Answered(c)
    BY <1>1, <1>3, AnsweredFrame
  <1>5. AccessState(v)' = AccessState(v)
    BY <1>1, <1>4 DEF AccessState, VCpuAccess, Pending
  <1>6. \A w \in VCpus \ {v} : AccessState(w)' = AccessState(w)
    BY <1>1, <1>4, VCpuSame
  <1>7. AccessState(Vmm)' = AccessState(Vmm)
    <2>1. LeftBehind(Vmm)' <=> LeftBehind(Vmm)
      BY <1>1, <1>3, LeftBehindFrame
    <2> QED
      BY <1>2, <2>1, NativeSame
  <1> QED
    BY <1>5, <1>6, <1>7

(* The VMM thread goes on in its call; the vCPUs are not affected. *)
LEMMA VCpusSame ==
  ASSUME OneRequester, UNCHANGED <<vcpu, ntfn>>, queue'.response = queue.response,
         \A b \in ToSet(queue.response) : buffer'[b].slot = buffer[b].slot
  PROVE  \A v \in VCpus : AccessState(v)' = AccessState(v)
  <1>1. \A v \in VCpus : Answered(v)' <=> Answered(v)
    BY VmmFacts DEF Answered, SlotOf
  <1> QED
    BY <1>1, VCpuSame

LEMMA ioreq_nativeAsks ==
  ASSUME OneRequester, Inv, ioreq_native(Vmm)
  PROVE  Service!Ask(Vmm) \/ \A c \in Clients : AccessState(c)' = AccessState(c)
  <1> USE VmmFacts
  <1>1. UNCHANGED <<vcpu, ntfn, ioacks, queue, buffer, handoff>>
    BY DEF ioreq_native, sharedVars, actorVars, clientVars
  <1>2. /\ thread[Vmm].pc = "idle" /\ thread[Vmm].job # Vmm /\ thread'[Vmm].job = Vmm
        /\ thread'[Vmm].nativeSlot = thread[Vmm].nativeSlot
        /\ thread'[Vmm].pc = IF thread[Vmm].nativeSlot = 0 THEN "alloc" ELSE "check"
    BY DEF ioreq_native, At, Inv, TypeOK, ThreadTypes, ThreadState, ThreadShape
  <1>3. \A v \in VCpus : AccessState(v)' = AccessState(v)
    BY <1>1, VCpusSame
  <1>4. CASE thread[Vmm].nativeSlot = 0
    <2>1. ~LeftBehind(Vmm)
      BY <1>4 DEF LeftBehind, SlotOf
    <2>2. AccessState(Vmm) = "idle" /\ AccessState(Vmm)' = "idle"
      BY <1>2, <1>4, <2>1 DEF AccessState, NativeAccess
    <2> QED
      BY <1>3, <2>2
  <1>5. CASE thread[Vmm].nativeSlot # 0
    <2>1. HasSlot(Vmm) /\ ~Waits(Vmm) /\ handoff[Vmm] = 0
      BY <1>2, <1>5 DEF HasSlot, Waits, Inv, Handoff
    <2>2. ~Answered(Vmm)
      BY <2>1, NotAnswered
    <2>3. ~Answered(Vmm)'
      BY <1>1, <1>2, <2>2 DEF Answered, SlotOf
    <2>4. AccessState(Vmm) \in {"idle", "refused"} /\ AccessState(Vmm)' = "asked"
      BY <1>2, <1>5, <2>3 DEF AccessState, NativeAccess, Pending
    <2> QED
      BY <1>3, <2>4, AccessStep DEF Service!Ask
  <1> QED
    BY <1>4, <1>5

LEMMA LoadFreeSlotStutters ==
  ASSUME OneRequester, Inv, LoadFreeSlot(Vmm)
  PROVE  \A c \in Clients : AccessState(c)' = AccessState(c)
  <1> USE VmmFacts
  <1>1. UNCHANGED <<vcpu, ntfn, ioacks, queue, buffer, handoff>>
    BY DEF LoadFreeSlot, sharedVars, actorVars, clientVars
  <1>2. thread[Vmm].pc = "alloc" /\ thread[Vmm].job = Vmm /\ thread[Vmm].nativeSlot = 0
    BY DEF LoadFreeSlot, At, Inv, ThreadShape
  <1>3. /\ thread'[Vmm].nativeSlot = 0
        /\ thread'[Vmm].job # Vmm \/ thread'[Vmm].pc = "allocated"
    <2>1. thread[Vmm] \in ThreadState /\ thread \in [NativeThreads -> ThreadState]
      BY DEF Inv, TypeOK, ThreadTypes
    <2>2. CASE freeSlot \in Slots
      BY <1>2, <2>1, <2>2 DEF LoadFreeSlot, ThreadState
    <2>3. CASE freeSlot \notin Slots
      <3>1. thread'[Vmm] = Idle(0)
        BY <1>2, <2>1, <2>3 DEF LoadFreeSlot, Finish
      <3> QED
        BY <3>1 DEF Idle
    <2> QED
      BY <2>2, <2>3
  <1>4. AccessState(Vmm) = "idle" /\ AccessState(Vmm)' = "idle"
    BY <1>2, <1>3 DEF AccessState, NativeAccess, LeftBehind, SlotOf
  <1>5. \A v \in VCpus : AccessState(v)' = AccessState(v)
    BY <1>1, VCpusSame
  <1> QED
    BY <1>4, <1>5

LEMMA StoreFreeSlotAsks ==
  ASSUME OneRequester, Inv, StoreFreeSlot(Vmm)
  PROVE  Service!Ask(Vmm)
  <1> USE VmmFacts
  <1>1. UNCHANGED <<vcpu, ntfn, ioacks, queue, buffer, handoff>>
    BY DEF StoreFreeSlot, sharedVars, actorVars, clientVars
  <1>2. /\ thread[Vmm].pc = "allocated" /\ thread[Vmm].job = Vmm /\ thread[Vmm].slot = NativeBase
    BY SlotsAssumption DEF StoreFreeSlot, At, Inv, ThreadShape, NativeSlot
  <1>3. /\ thread'[Vmm].job = Vmm /\ thread'[Vmm].pc = "check"
        /\ thread'[Vmm].nativeSlot = NativeBase
    <2>1. thread[Vmm] \in ThreadState /\ thread \in [NativeThreads -> ThreadState]
      BY DEF Inv, TypeOK, ThreadTypes
    <2>2. thread' = [thread EXCEPT ![Vmm].pc = "check", ![Vmm].nativeSlot = thread[Vmm].slot]
      BY DEF StoreFreeSlot
    <2>3. thread'[Vmm] = [thread[Vmm] EXCEPT !.pc = "check", !.nativeSlot = NativeBase]
      BY <2>1, <2>2, <1>2
    <2> QED
      BY <2>1, <2>3, <1>2 DEF ThreadState
  <1>4. \A b \in Live : buffer[b].slot # NativeBase
    <2> SUFFICES ASSUME NEW b \in Live PROVE buffer[b].slot # NativeBase
      OBVIOUS
    <2>1. PICK c \in Clients : buffer[b].slot = SlotOf(c) /\ Waits(c)
      BY DEF Inv, Messages, LiveMessage
    <2>2. c # Vmm
      BY <1>2, <2>1 DEF Waits
    <2> QED
      BY <2>1, <2>2, SlotsAssumption DEF SlotOf
  <1>5. ~Answered(Vmm)'
    <2>1. \A b \in ToSet(queue.response) : buffer[b].slot # NativeBase
      BY <1>4 DEF Live, Part
    <2>2. ntfn.pc = "ack" => ntfn.slot # NativeBase
      BY <1>4 DEF Live, Acking, Inv, ActorShape
    <2>3. handoff[Vmm] = 0
      BY <1>2 DEF Inv, Handoff
    <2> QED
      BY <1>1, <1>3, <2>1, <2>2, <2>3 DEF Answered, SlotOf
  <1>6. AccessState(Vmm) = "idle" /\ AccessState(Vmm)' = "asked"
    BY <1>2, <1>3, <1>5 DEF AccessState, NativeAccess, Pending
  <1>7. \A v \in VCpus : AccessState(v)' = AccessState(v)
    BY <1>1, VCpusSame
  <1> QED
    BY <1>6, <1>7, AccessStep DEF Service!Ask

(* The steps of ioreq_start that do not end it. *)
LEMMA ioreq_startStutters ==
  ASSUME OneRequester, Inv,
         \/ SlotIsFree(Vmm) \/ FindBuffer(Vmm) \/ LendBuffer(Vmm) \/ FillMessage(Vmm)
         \/ SendRequest(Vmm) \/ RingDevice(Vmm)
  PROVE  \A c \in Clients : AccessState(c)' = AccessState(c)
  <1> USE VmmFacts
  <1>1. UNCHANGED <<vcpu, ntfn, ioacks, handoff>>
    BY DEF SlotIsFree, FindBuffer, LendBuffer, FillMessage, SendRequest, RingDevice,
       sharedVars, actorVars, clientVars
  <1>2. thread[Vmm] \in ThreadState /\ thread \in [NativeThreads -> ThreadState]
    BY DEF Inv, TypeOK, ThreadTypes
  <1>3. queue'.response = queue.response
    <2>1. queue \in [Queues -> Seq(Buffers)]
      BY DEF Inv, TypeOK, SharedTypes
    <2> QED
      BY <2>1 DEF SlotIsFree, FindBuffer, LendBuffer, FillMessage, SendRequest, RingDevice,
         sharedVars, Queues
  <1>4. \A b \in ToSet(queue.response) : buffer'[b].slot = buffer[b].slot
    <2>1. CASE FillMessage(Vmm)
      <3>1. \A b \in Live : b # thread[Vmm].id /\ b \in Buffers
        BY <2>1, LiveFacts DEF FillMessage, At
      <3>2. \A b \in Buffers : b # thread[Vmm].id => buffer'[b] = buffer[b]
        BY <2>1 DEF FillMessage, Inv, TypeOK, SharedTypes
      <3> QED
        BY <3>1, <3>2 DEF Live, Part
    <2>2. CASE ~FillMessage(Vmm)
      BY <2>2 DEF SlotIsFree, FindBuffer, LendBuffer, SendRequest, RingDevice, sharedVars
    <2> QED
      BY <2>1, <2>2
  <1>5. /\ thread[Vmm].pc \in Starting \cup {"ring"}
        /\ thread'[Vmm].nativeSlot = thread[Vmm].nativeSlot
        /\ thread'[Vmm].job = Vmm <=> thread[Vmm].job = Vmm
        /\ thread'[Vmm].pc \notin {"alloc", "allocated"}
    <2>1. CASE SlotIsFree(Vmm) \/ LendBuffer(Vmm) \/ FillMessage(Vmm)
      BY <1>2, <2>1 DEF SlotIsFree, LendBuffer, FillMessage, At, Goto, ThreadState,
         Starting, Registered
    <2>2. CASE FindBuffer(Vmm) \/ SendRequest(Vmm)
      BY <1>2, <2>2 DEF FindBuffer, SendRequest, At, ThreadState, Starting, Registered
    <2>3. CASE RingDevice(Vmm)
      <3>1. CASE thread[Vmm].job \in VCpus
        <4>1. thread'[Vmm] = Idle(thread[Vmm].nativeSlot) /\ thread[Vmm].pc = "ring"
          BY <1>2, <2>3, <3>1 DEF RingDevice, Finish, At
        <4>2. /\ thread'[Vmm].nativeSlot = thread[Vmm].nativeSlot
              /\ thread'[Vmm].job = None /\ thread'[Vmm].pc = "idle"
          BY <4>1 DEF Idle
        <4> QED
          BY <3>1, <4>1, <4>2
      <3>2. CASE thread[Vmm].job \notin VCpus
        BY <1>2, <2>3, <3>2 DEF RingDevice, Goto, At, ThreadState
      <3> QED
        BY <3>1, <3>2
    <2> QED
      BY <2>1, <2>2, <2>3
  <1>6. thread[Vmm].pc \notin {"alloc", "allocated"}
    BY <1>5 DEF Starting, Registered
  <1> QED
    BY <1>1, <1>3, <1>4, <1>5, <1>6, AllSame

LEMMA RegisterCallbackStutters ==
  ASSUME OneRequester, Inv, RegisterCallback(Vmm)
  PROVE  \A c \in Clients : AccessState(c)' = AccessState(c)
  <1> USE VmmFacts
  <1>1. UNCHANGED <<vcpu, ntfn, handoff, queue, buffer>>
    BY DEF RegisterCallback, actorVars
  <1>2. /\ thread[Vmm].pc = "register" /\ thread'[Vmm].pc = "find"
        /\ thread'[Vmm].nativeSlot = thread[Vmm].nativeSlot
        /\ thread'[Vmm].job = thread[Vmm].job
    BY DEF RegisterCallback, At, Goto, Inv, TypeOK, ThreadTypes, ThreadState
  <1>3. /\ thread[Vmm].job \in Clients /\ thread[Vmm].slot = SlotOf(thread[Vmm].job)
        /\ \A s \in Slots : s # thread[Vmm].slot => ioacks'[s] = ioacks[s]
    BY <1>2 DEF RegisterCallback, Inv, ThreadShape, Starting, TypeOK, SharedTypes
  <1>4. SlotOf(Vmm)' = SlotOf(Vmm)
    BY <1>2 DEF SlotOf
  <1>5. thread[Vmm].job # Vmm => (LeftBehind(Vmm)' <=> LeftBehind(Vmm))
    <2> SUFFICES ASSUME thread[Vmm].job # Vmm PROVE LeftBehind(Vmm)' <=> LeftBehind(Vmm)
      OBVIOUS
    <2>1. CASE SlotOf(Vmm) = 0
      BY <1>4, <2>1 DEF LeftBehind
    <2>2. CASE SlotOf(Vmm) # 0
      <3>1. HasSlot(Vmm) /\ HasSlot(thread[Vmm].job)
        BY <1>3, <2>2 DEF HasSlot, SlotOf
      <3>2. SlotOf(Vmm) # thread[Vmm].slot
        BY <1>3, <3>1, SlotsApart
      <3>3. SlotOf(Vmm) \in Slots
        BY <2>2 DEF SlotOf, Inv, TypeOK, ThreadTypes, ThreadState
      <3>4. ioacks'[SlotOf(Vmm)] = ioacks[SlotOf(Vmm)]
        BY <1>3, <3>2, <3>3
      <3> QED
        BY <1>1, <1>4, <3>4 DEF LeftBehind
    <2> QED
      BY <2>1, <2>2
  <1>6. Answered(Vmm)' <=> Answered(Vmm)
    BY <1>1, <1>4, AnsweredFrame
  <1>7. AccessState(Vmm)' = AccessState(Vmm)
    BY <1>2, <1>5, <1>6, NativeSame
  <1>8. \A v \in VCpus : AccessState(v)' = AccessState(v)
    BY <1>1, VCpusSame
  <1> QED
    BY <1>7, <1>8

LEMMA RequestRefusedRefuses ==
  ASSUME OneRequester, Inv, RequestRefused(Vmm)
  PROVE  \E c \in Clients : Service!Refuse(c)
  <1> USE VmmFacts
  <1>1. PICK c \in Clients : c = thread[Vmm].job
    BY DEF RequestRefused, At, Inv, ThreadShape, Starting, Registered
  <1>2. /\ thread[Vmm].pc = "enqueue" /\ thread[Vmm].slot = SlotOf(c)
        /\ ioacks[SlotOf(c)] = c /\ ~(ntfn.pc = "clear" /\ ntfn.slot = SlotOf(c))
        /\ \A b \in Live : buffer[b].slot # SlotOf(c)
        /\ c = Vmm => thread[Vmm].nativeSlot # 0
        /\ c \in VCpus => vcpu[c] = "waiting"
        /\ handoff[Vmm] = 0
    BY <1>1 DEF RequestRefused, At, Inv, ThreadShape, Request, Handoff, Starting, Registered
  <1>3. UNCHANGED <<ntfn, ioacks, handoff, queue>>
    BY DEF RequestRefused, actorVars
  <1>4. \A b \in ToSet(queue.response) : buffer'[b].slot = buffer[b].slot
    <2>1. \A b \in Live : b # thread[Vmm].id /\ b \in Buffers
      BY <1>2, LiveFacts
    <2>2. \A b \in Buffers : b # thread[Vmm].id => buffer'[b] = buffer[b]
      BY DEF RequestRefused, Reclaim, Inv, TypeOK, SharedTypes
    <2> QED
      BY <2>1, <2>2 DEF Live, Part
  <1>5. /\ thread'[Vmm].nativeSlot = thread[Vmm].nativeSlot /\ thread'[Vmm].job = None
    <2>1. thread'[Vmm] = Idle(thread[Vmm].nativeSlot)
      BY DEF RequestRefused, Finish, Inv, TypeOK, ThreadTypes
    <2> QED
      BY <2>1 DEF Idle
  <1>6. \A d \in Clients : SlotOf(d)' = SlotOf(d)
    BY <1>5 DEF SlotOf
  <1>7. \A d \in Clients : Answered(d)' <=> Answered(d)
    BY <1>3, <1>4, <1>6, AnsweredFrame
  <1>8. ~Answered(c)
    <2>1. HasSlot(c)
      BY <1>2 DEF HasSlot
    <2> QED
      BY <1>2, <2>1, NotAnswered
  <1>9. LeftBehind(Vmm)' <=> LeftBehind(Vmm)
    BY <1>3, <1>6, LeftBehindFrame
  <1>10. CASE c \in VCpus
    <2>1. vcpu' = [vcpu EXCEPT ![c] = "error"] /\ vcpu \in [VCpus -> {"running", "faulted", "waiting", "error"}]
      BY <1>1, <1>10 DEF RequestRefused, Inv, TypeOK, ClientTypes
    <2>2. AccessState(c) = "asked" /\ AccessState(c)' = "refused"
      BY <1>2, <1>8, <1>10, <2>1 DEF AccessState, VCpuAccess, Pending
    <2>3. \A v \in VCpus \ {c} : AccessState(v)' = AccessState(v)
      BY <1>7, <2>1, VCpuSame
    <2>4. AccessState(Vmm)' = AccessState(Vmm)
      BY <1>1, <1>5, <1>9, <1>10, NativeSame
    <2>5. \A d \in Clients \ {c} : AccessState(d)' = AccessState(d)
      BY <2>3, <2>4
    <2> QED
      BY <2>2, <2>5, AccessStep DEF Service!Refuse
  <1>11. CASE c = Vmm
    <2>1. vcpu' = vcpu
      BY <1>1, <1>11 DEF RequestRefused
    <2>2. LeftBehind(Vmm)
      BY <1>2, <1>11 DEF LeftBehind, SlotOf
    <2>3. AccessState(Vmm) = "asked" /\ AccessState(Vmm)' = "refused"
      BY <1>1, <1>2, <1>5, <1>8, <1>9, <1>11, <2>2 DEF AccessState, NativeAccess, Pending
    <2>4. \A v \in VCpus : AccessState(v)' = AccessState(v)
      BY <1>7, <2>1, VCpuSame
    <2> QED
      BY <1>11, <2>3, <2>4, AccessStep DEF Service!Refuse
  <1> QED
    BY <1>10, <1>11

LEMMA ioreq_native_waitResumes ==
  ASSUME OneRequester, Inv, ioreq_native_wait(Vmm)
  PROVE  Service!Resume(Vmm)
  <1> USE VmmFacts
  <1>1. UNCHANGED <<vcpu, ntfn, ioacks, queue, buffer>> /\ handoff[Vmm] > 0
    BY DEF ioreq_native_wait, sharedVars, actorVars
  <1>2. thread[Vmm].pc = "await" /\ thread[Vmm].job = Vmm /\ ~LeftBehind(Vmm)
    BY <1>1 DEF ioreq_native_wait, At, Inv, ThreadShape, Handoff
  <1>3. thread'[Vmm].nativeSlot = thread[Vmm].nativeSlot /\ thread'[Vmm].job = None
    <2>1. thread'[Vmm] = Idle(thread[Vmm].nativeSlot)
      BY DEF ioreq_native_wait, Finish, Inv, TypeOK, ThreadTypes
    <2> QED
      BY <2>1 DEF Idle
  <1>4. ~LeftBehind(Vmm)'
    BY <1>1, <1>2, <1>3 DEF LeftBehind, SlotOf
  <1>5. AccessState(Vmm) = "served" /\ AccessState(Vmm)' = "idle"
    BY <1>1, <1>2, <1>3, <1>4 DEF AccessState, NativeAccess, Pending, Answered
  <1>6. \A v \in VCpus : AccessState(v)' = AccessState(v)
    BY <1>1, VCpusSame
  <1> QED
    BY <1>5, <1>6, AccessStep DEF Service!Resume

-----------------------------------------------------------------------------
(* The notification thread.                                                *)
LEMMA rpcmsg_receive_responseStutters ==
  ASSUME OneRequester, Inv, rpcmsg_receive_response
  PROVE  \A c \in Clients : AccessState(c)' = AccessState(c)
  <1> USE VmmFacts
  <1> DEFINE b == Head(queue["response"])
  <1>1. /\ UNCHANGED <<thread, ioacks, buffer, vcpu, handoff>>
        /\ ntfn.pc = "receive" /\ ntfn'.pc = "ack" /\ ntfn'.slot = buffer[b].slot
    BY DEF rpcmsg_receive_response, NtfnAt, clientVars
  <1>2. b \in ToSet(queue.response) /\ ToSet(queue'.response) = ToSet(queue.response) \ {b}
    <2>1. /\ queue' = [queue EXCEPT !["response"] = Tail(queue["response"])]
          /\ queue["response"] # <<>> /\ "response" \in Queues
      BY DEF rpcmsg_receive_response, Queues
    <2> QED
      BY <2>1, TakeFromQueue DEF Inv, TypeOK, Ownership
  <1> HIDE DEF b
  <1>3. \A c \in Clients : Answered(c)' <=> Answered(c)
    BY <1>1, <1>2 DEF Answered, SlotOf
  <1>4. LeftBehind(Vmm)' <=> LeftBehind(Vmm)
    BY <1>1 DEF LeftBehind, SlotOf
  <1>5. AccessState(Vmm)' = AccessState(Vmm)
    BY <1>1, <1>3, <1>4, NativeSame
  <1>6. \A v \in VCpus : AccessState(v)' = AccessState(v)
    BY <1>1, <1>3, VCpuSame
  <1> QED
    BY <1>5, <1>6

(* A step of the notification thread on which no access depends. *)
LEMMA NtfnStutters ==
  ASSUME OneRequester, Inv,
         \/ ntfn_callback \/ NoResponse \/ ClearCallback \/ rpcmsg_reclaim_buffer
  PROVE  \A c \in Clients : AccessState(c)' = AccessState(c)
  <1> USE VmmFacts
  <1>1. /\ UNCHANGED <<thread, queue, vcpu, handoff>>
        /\ ntfn.pc # "ack" /\ ntfn'.pc \notin {"ack", "clear"}
    <2>1. UNCHANGED <<thread, queue, vcpu, handoff>> /\ ntfn.pc # "ack"
      BY DEF ntfn_callback, NoResponse, ClearCallback, rpcmsg_reclaim_buffer, NtfnAt,
         sharedVars, clientVars
    <2>2. ntfn'.pc \notin {"ack", "clear"}
      <3>1. ntfn \in [pc : {"wait", "receive", "ack", "clear", "reclaim"},
                     id : Buffers \cup {None}, slot : Slots \cup {None}]
        BY DEF Inv, TypeOK, ActorTypes
      <3>2. CASE rpcmsg_reclaim_buffer
        BY <3>2 DEF rpcmsg_reclaim_buffer
      <3>3. CASE ntfn_callback \/ NoResponse \/ ClearCallback
        BY <3>1, <3>3 DEF ntfn_callback, NoResponse, ClearCallback
      <3> QED
        BY <3>2, <3>3
    <2> QED
      BY <2>1, <2>2
  <1>2. \A b \in ToSet(queue.response) : buffer'[b] = buffer[b]
    <2>1. CASE rpcmsg_reclaim_buffer
      <3>1. \A b \in Live : b # ntfn.id /\ b \in Buffers
        BY <2>1, LiveFacts DEF rpcmsg_reclaim_buffer, NtfnAt
      <3>2. \A b \in Buffers : b # ntfn.id => buffer'[b] = buffer[b]
        BY <2>1 DEF rpcmsg_reclaim_buffer, Reclaim, Inv, TypeOK, SharedTypes
      <3> QED
        BY <3>1, <3>2 DEF Live, Part
    <2>2. CASE ~rpcmsg_reclaim_buffer
      BY <2>2 DEF ntfn_callback, NoResponse, ClearCallback, sharedVars
    <2> QED
      BY <2>1, <2>2
  <1>3. \A c \in Clients : Answered(c)' <=> Answered(c)
    BY <1>1, <1>2 DEF Answered, SlotOf
  <1>4. LeftBehind(Vmm)' <=> LeftBehind(Vmm)
    <2>1. SlotOf(Vmm)' = SlotOf(Vmm)
      BY <1>1 DEF SlotOf
    <2>2. CASE ClearCallback
      <3>1. SlotOf(Vmm) # 0 => SlotOf(Vmm) \in Slots
        BY DEF SlotOf, Inv, TypeOK, ThreadTypes, ThreadState
      <3>2. /\ ntfn.pc = "clear" /\ ntfn.slot \in Slots /\ ioacks'[ntfn.slot] = None
            /\ \A s \in Slots : s # ntfn.slot => ioacks'[s] = ioacks[s]
        BY <2>2 DEF ClearCallback, NtfnAt, Inv, ActorShape, TypeOK, SharedTypes
      <3> QED
        BY <1>1, <2>1, <3>1, <3>2 DEF LeftBehind
    <2>3. CASE ~ClearCallback
      <3>1. ioacks' = ioacks /\ ntfn.pc # "clear"
        BY <2>3 DEF ntfn_callback, NoResponse, rpcmsg_reclaim_buffer, NtfnAt, sharedVars
      <3> QED
        BY <1>1, <2>1, <3>1 DEF LeftBehind
    <2> QED
      BY <2>2, <2>3
  <1>5. AccessState(Vmm)' = AccessState(Vmm)
    BY <1>1, <1>3, <1>4, NativeSame
  <1>6. \A v \in VCpus : AccessState(v)' = AccessState(v)
    BY <1>1, <1>3, VCpuSame
  <1> QED
    BY <1>5, <1>6

LEMMA ioreq_finishResumes ==
  ASSUME OneRequester, Inv, ioreq_finish
  PROVE  \/ \E c \in Clients : Service!Resume(c)
         \/ \A c \in Clients : AccessState(c)' = AccessState(c)
  <1> USE VmmFacts
  <1>1. PICK b \in Live : b = ntfn.id
    BY DEF ioreq_finish, NtfnAt, Live, Acking
  <1>2. LiveMessage(b) /\ ntfn.pc = "ack" /\ ntfn.slot = buffer[b].slot
    BY <1>1 DEF ioreq_finish, NtfnAt, Inv, Messages, ActorShape
  <1>3. PICK c \in Clients : c = ioacks[ntfn.slot]
    BY <1>2 DEF LiveMessage
  <1>4. ntfn.slot = SlotOf(c) /\ Waits(c) /\ HasSlot(c)
    BY <1>2, <1>3, WaitsHasSlot DEF LiveMessage
  <1>5. /\ UNCHANGED <<thread, ioacks, buffer, queue>> /\ ioack(c)
        /\ ntfn'.pc = "clear" /\ ntfn'.slot = ntfn.slot
    <2>1. ioacks[ntfn.slot] # None
      BY <1>3
    <2>2. UNCHANGED <<thread, ioacks, buffer, queue>> /\ ioack(c) /\ ntfn' = [ntfn EXCEPT !.pc = "clear"]
      BY <1>3, <2>1 DEF ioreq_finish, sharedVars
    <2> QED
      BY <2>2 DEF Inv, TypeOK, ActorTypes
  <1>6. \A d \in Clients : SlotOf(d)' = SlotOf(d)
    BY <1>5 DEF SlotOf
  <1>7. \A d \in Clients : d # c /\ HasSlot(d) => SlotOf(d) # ntfn.slot
    BY <1>4, SlotsApart
  <1>8. CASE c \in VCpus
    <2>1. /\ handoff' = handoff /\ vcpu'[c] = "running" /\ vcpu[c] = "waiting"
          /\ \A v \in VCpus \ {c} : vcpu'[v] = vcpu[v]
      BY <1>4, <1>5, <1>8 DEF ioack, Waits, Inv, TypeOK, ClientTypes
    <2>2. Answered(c)
      BY <1>2, <1>4 DEF Answered
    <2>3. AccessState(c) = "served" /\ AccessState(c)' = "idle"
      BY <1>8, <2>1, <2>2 DEF AccessState, VCpuAccess, Pending
    <2>4. \A d \in Clients : d # c /\ HasSlot(d) => (Answered(d)' <=> Answered(d))
      BY <1>2, <1>5, <1>6, <1>7, <2>1 DEF Answered
    <2>5. \A v \in VCpus \ {c} : AccessState(v)' = AccessState(v)
      <3>1. \A v \in VCpus : HasSlot(v)
        BY DEF HasSlot
      <3> QED
        BY <2>1, <2>4, <3>1, VCpuSame
    <2>6. AccessState(Vmm)' = AccessState(Vmm)
      <3>1. LeftBehind(Vmm)' <=> LeftBehind(Vmm)
        <4>1. SlotOf(Vmm) # 0 => SlotOf(Vmm) # ntfn.slot
          BY <1>7, <1>8 DEF HasSlot, SlotOf
        <4> QED
          BY <1>2, <1>5, <1>6, <4>1 DEF LeftBehind
      <3>2. thread[Vmm].job = Vmm /\ thread[Vmm].pc \notin {"alloc", "allocated"} => HasSlot(Vmm)
        <4>1. thread[Vmm].pc \in Pcs
          BY DEF Inv, TypeOK, ThreadTypes, ThreadState
        <4>2. thread[Vmm].job = Vmm => thread[Vmm].pc # "idle"
          BY DEF Inv, ThreadShape
        <4> QED
          BY <4>1, <4>2 DEF HasSlot, Inv, ThreadShape, Pcs, Starting, Registered
      <3> QED
        BY <1>5, <1>8, <2>4, <3>1, <3>2, NativeSame
    <2>7. \A d \in Clients \ {c} : AccessState(d)' = AccessState(d)
      BY <2>5, <2>6
    <2> QED
      BY <2>3, <2>7, AccessStep DEF Service!Resume
  <1>9. CASE c = Vmm
    <2>1. vcpu' = vcpu /\ handoff'[Vmm] = handoff[Vmm] + 1 /\ handoff[Vmm] = 0
      BY <1>4, <1>5, <1>9 DEF ioack, Waits, Inv, TypeOK, ClientTypes
    <2>2. Answered(Vmm) /\ Answered(Vmm)'
      BY <1>2, <1>4, <1>9, <2>1 DEF Answered
    <2>3. thread[Vmm].job = Vmm
      BY <1>4, <1>9 DEF Waits
    <2>4. AccessState(Vmm)' = AccessState(Vmm)
      BY <1>5, <2>2, <2>3, NativeSame
    <2>5. \A v \in VCpus : Answered(v)' <=> Answered(v)
      <3>1. \A v \in VCpus : HasSlot(v) /\ v \notin NativeThreads
        BY DEF HasSlot
      <3> QED
        BY <1>2, <1>5, <1>6, <1>7, <1>9, <3>1 DEF Answered
    <2>6. \A v \in VCpus : AccessState(v)' = AccessState(v)
      BY <2>1, <2>5, VCpuSame
    <2> QED
      BY <2>4, <2>6
  <1> QED
    BY <1>8, <1>9

-----------------------------------------------------------------------------
(* The device VM.                                                          *)
LEMMA DeviceStutters ==
  ASSUME OneRequester, Inv,
         \/ consume_callback \/ NoRequest \/ KernelRings \/ UserRings
         \/ rpcmsg_receive \/ driver_rpc_request_fwd \/ UserReceive
  PROVE  \A c \in Clients : AccessState(c)' = AccessState(c)
  <1>1. UNCHANGED <<thread, ioacks, buffer, ntfn, vcpu, handoff>>
    BY DEF consume_callback, NoRequest, KernelRings, UserRings, RingDriver, rpcmsg_receive,
       driver_rpc_request_fwd, UserReceive, sharedVars, clientVars
  <1>2. queue'.response = queue.response
    <2>1. queue \in [Queues -> Seq(Buffers)]
      BY DEF Inv, TypeOK, SharedTypes
    <2> QED
      BY <2>1 DEF consume_callback, NoRequest, KernelRings, UserRings, RingDriver,
         rpcmsg_receive, driver_rpc_request_fwd, UserReceive, sharedVars, Queues
  <1> QED
    BY <1>1, <1>2, AllSame

LEMMA AnswerServes ==
  ASSUME OneRequester, Inv, NEW b \in Part.km \cup Part.user, driver_rpc_ack_mmio_finish(b),
         UNCHANGED <<thread, ioacks, ntfn, vcpu, handoff>>
  PROVE  \E c \in Clients : Service!Serve(c)
  <1> USE VmmFacts
  <1>1. b \in Live /\ b \in Buffers /\ LiveMessage(b) /\ b \notin Part.response \cup Acking
    <2>1. b \in Live /\ b \in Buffers
      BY LiveFacts DEF Live
    <2>2. \A p \in Places \ {"km", "user"} : b \notin Part[p]
      BY <2>1 DEF Inv, Ownership, PartsDisjoint, Places
    <2>3. b \notin Part.response /\ b \notin Part.ntfn
      BY <2>2 DEF Places
    <2>4. Acking \subseteq Part.ntfn
      BY DEF Acking, Part, Inv, ActorShape
    <2> QED
      BY <2>1, <2>3, <2>4 DEF Inv, Messages
  <1>2. PICK c \in Clients : c = ioacks[buffer[b].slot] /\ buffer[b].slot = SlotOf(c) /\ Waits(c)
    BY <1>1 DEF LiveMessage
  <1>3. HasSlot(c)
    BY <1>2, WaitsHasSlot
  <1>4. /\ ToSet(queue'.response) = ToSet(queue.response) \cup {b}
        /\ \A a \in Live : a \in Buffers /\ buffer'[a].slot = buffer[a].slot
    <2>1. queue["response"] \in Seq(Buffers) /\ queue \in [Queues -> Seq(Buffers)]
      BY DEF Inv, TypeOK, SharedTypes, Queues
    <2>2. queue'["response"] = Append(queue["response"], b)
      BY <2>1 DEF driver_rpc_ack_mmio_finish, Queues
    <2>3. ToSet(queue'["response"]) = ToSet(queue["response"]) \cup {b}
      BY <1>1, <2>1, <2>2, ToSetAppend
    <2>4. ASSUME NEW a \in Live PROVE a \in Buffers /\ buffer'[a].slot = buffer[a].slot
      <3>1. a \in Buffers /\ buffer[a] \in Message
        BY LiveFacts DEF Inv, Messages, LiveMessage
      <3>2. buffer'[a] = IF a = b THEN [buffer[b] EXCEPT !.data = buffer[b].req] ELSE buffer[a]
        BY <1>1, <3>1 DEF driver_rpc_ack_mmio_finish, Inv, TypeOK, SharedTypes
      <3> QED
        BY <3>1, <3>2 DEF Message
    <2> QED
      BY <2>3, <2>4
  <1>5. \A d \in Clients : SlotOf(d)' = SlotOf(d)
    BY DEF SlotOf
  <1>6. \A a \in ToSet(queue.response) : a \in Live
    BY DEF Live, Part
  <1>7. \A d \in Clients : Answered(d)' <=> Answered(d) \/ buffer[b].slot = SlotOf(d)
    BY <1>1, <1>4, <1>5, <1>6 DEF Answered
  <1>8. ~Answered(c)
    <2>1. c = Vmm => handoff[Vmm] = 0
      BY <1>2 DEF Waits
    <2>2. \A a \in Live : buffer[a].slot = buffer[b].slot => a = b
      BY <1>1 DEF Inv, Messages
    <2> QED
      BY <1>1, <1>2, <2>1, <2>2, AnsweredFacts
  <1>9. Answered(c)'
    BY <1>2, <1>7
  <1>10. AccessState(c) = "asked" /\ AccessState(c)' = "served"
    <2>1. CASE c \in VCpus
      BY <1>2, <1>8, <1>9, <2>1 DEF Waits, AccessState, VCpuAccess, Pending
    <2>2. CASE c = Vmm
      BY <1>2, <1>8, <1>9, <2>2 DEF Waits, AccessState, NativeAccess, Pending
    <2> QED
      BY <2>1, <2>2
  <1>11. \A d \in Clients : d # c /\ HasSlot(d) => (Answered(d)' <=> Answered(d))
    BY <1>2, <1>3, <1>7, SlotsApart
  <1>12. \A v \in VCpus \ {c} : AccessState(v)' = AccessState(v)
    <2>1. \A v \in VCpus : HasSlot(v)
      BY DEF HasSlot
    <2> QED
      BY <1>11, <2>1, VCpuSame
  <1>13. c # Vmm => AccessState(Vmm)' = AccessState(Vmm)
    <2>1. thread[Vmm].job = Vmm /\ thread[Vmm].pc \notin {"alloc", "allocated"} => HasSlot(Vmm)
      <3>1. thread[Vmm].pc \in Pcs
        BY DEF Inv, TypeOK, ThreadTypes, ThreadState
      <3>2. thread[Vmm].job = Vmm => thread[Vmm].pc # "idle"
        BY DEF Inv, ThreadShape
      <3> QED
        BY <3>1, <3>2 DEF HasSlot, Inv, ThreadShape, Pcs, Starting, Registered
    <2>2. LeftBehind(Vmm)' <=> LeftBehind(Vmm)
      BY <1>5, LeftBehindFrame
    <2> QED
      BY <1>11, <2>1, <2>2, NativeSame
  <1>14. \A d \in Clients \ {c} : AccessState(d)' = AccessState(d)
    BY <1>12, <1>13
  <1> QED
    BY <1>10, <1>14, AccessStep DEF Service!Serve

-----------------------------------------------------------------------------
LEMMA InitService == ASSUME OneRequester PROVE Init => Service!Init
  <1> SUFFICES ASSUME Init PROVE \A c \in Clients : AccessState(c) = "idle"
    BY DEF Service!Init
  <1>1. \A v \in VCpus : AccessState(v) = "idle"
    BY DEF Init, AccessState, VCpuAccess
  <1>2. thread[Vmm].job # Vmm /\ thread[Vmm].nativeSlot = 0
    BY VmmFacts DEF Init, Idle
  <1>3. AccessState(Vmm) = "idle"
    BY <1>2, VmmFacts DEF AccessState, NativeAccess, LeftBehind, SlotOf
  <1> QED
    BY <1>1, <1>3, VmmFacts

LEMMA NextService == ASSUME OneRequester, Inv, [Next]_vars PROVE AccessSteps
  <1> USE VmmFacts
  <1>0. ASSUME \A c \in Clients : AccessState(c)' = AccessState(c) PROVE AccessSteps
    BY <1>0, AccessStutter DEF AccessSteps
  <1>1. ASSUME NEW v \in VCpus, Fault(v) \/ mmio_fault_handler(v) PROVE AccessSteps
    BY <1>0, <1>1, FaultAsks, mmio_fault_handlerStutters, AccessNext
  <1>2. ASSUME SlotIsTaken(Vmm) \/ NoBuffer(Vmm) \/ UNCHANGED vars PROVE AccessSteps
    <2>1. UNCHANGED <<thread, ioacks, buffer, queue, ntfn, vcpu, handoff>>
      BY <1>2 DEF SlotIsTaken, NoBuffer, Abort, vars, sharedVars, actorVars, clientVars
    <2> QED
      BY <1>0, <2>1, AllSame
  <1>3. ASSUME NEW t \in NativeThreads, ioreq_native(t) \/ Requester(t) PROVE AccessSteps
    <2>1. t = Vmm
      OBVIOUS
    <2>2. CASE ioreq_native(t) \/ LoadFreeSlot(t) \/ StoreFreeSlot(t) \/ ioreq_native_wait(t)
      BY <1>0, <2>1, <2>2, ioreq_nativeAsks, LoadFreeSlotStutters, StoreFreeSlotAsks,
         ioreq_native_waitResumes, AccessNext
    <2>3. CASE ioreq_start(t)
      BY <1>0, <1>2, <2>1, <2>3, ioreq_startStutters, RegisterCallbackStutters,
         RequestRefusedRefuses, AccessNext DEF ioreq_start
    <2> QED
      BY <1>3, <2>2, <2>3 DEF Requester
  <1>4. ASSUME ntfn_callback \/ rpc_run PROVE AccessSteps
    BY <1>0, <1>4, NtfnStutters, rpcmsg_receive_responseStutters, ioreq_finishResumes, AccessNext
       DEF rpc_run, handle_mmio
  <1>5. ASSUME KernelModule PROVE AccessSteps
    <2>1. CASE KernelAnswers
      <3>1. km.id \in Part.km
        BY <2>1 DEF KernelAnswers, Part, Inv, ActorShape
      <3>2. UNCHANGED <<thread, ioacks, ntfn, vcpu, handoff>> /\ driver_rpc_ack_mmio_finish(km.id)
        BY <2>1 DEF KernelAnswers, clientVars
      <3> QED
        BY <3>1, <3>2, AnswerServes, AccessNext
    <2>2. CASE ~KernelAnswers
      BY <1>0, <1>5, <2>2, DeviceStutters DEF KernelModule
    <2> QED
      BY <2>1, <2>2
  <1>6. ASSUME UserSpace PROVE AccessSteps
    <2>1. ASSUME NEW b \in Buffers, UserAnswers(b) PROVE AccessSteps
      <3>1. b \in Part.user
        BY <2>1 DEF UserAnswers, Part
      <3>2. UNCHANGED <<thread, ioacks, ntfn, vcpu, handoff>> /\ driver_rpc_ack_mmio_finish(b)
        BY <2>1 DEF UserAnswers, clientVars
      <3> QED
        BY <3>1, <3>2, AnswerServes, AccessNext
    <2> QED
      BY <1>0, <1>6, <2>1, DeviceStutters DEF UserSpace
  <1> QED
    BY <1>1, <1>2, <1>3, <1>4, <1>5, <1>6 DEF Next, Halted

(* ImplementsService: whatever the threads, the device and the refusals do, *)
(* each access goes from its fault or its call of ioreq_native through one  *)
(* answer of the device to the callback that lets its client go on, or it   *)
(* is refused by a full request queue; no answer is given twice, and no     *)
(* client goes on without one.                                              *)
THEOREM PathImplementsService == ASSUME OneRequester PROVE Spec => ImplementsService
  <1>1. Init => Service!Init
    BY InitService
  <1>2. Inv /\ [Next]_vars => [Service!Next]_([c \in Clients |-> AccessState(c)])
    BY NextService DEF AccessSteps
  <1> QED
    BY <1>1, <1>2, Invariance, PTL DEF Spec, ImplementsService, Service!Spec

=============================================================================
