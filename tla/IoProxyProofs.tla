--------------------------- MODULE IoProxyProofs ---------------------------
(***************************************************************************)
(* What the inductive invariant of IoProxyInvariance says of the request   *)
(* path, for every number of vCPUs, buffers and queue entries.             *)
(***************************************************************************)
EXTENDS IoProxyInvariance

(* TypeOK: the variables have their types, and the semaphore of            *)
(* ioreq_native_wait never has a count above one.                          *)
THEOREM TypeCorrect == ASSUME OneRequester PROVE Spec => []TypeOK
  <1>1. Inv => TypeOK
    BY DEF Inv
  <1> QED
    BY <1>1, Invariance, PTL

-----------------------------------------------------------------------------
(* Ownership of the message buffers.                                       *)
LEMMA OwnersAre ==
  ASSUME OneRequester, NEW b \in Buffers, NEW x
  PROVE  x \in Owners(b) <=>
            \/ x = <<"thread", Vmm>> /\ b \in Part.thread
            \/ \E q \in Queues : \E i \in DOMAIN queue[q] : queue[q][i] = b /\ x = <<q, i>>
            \/ x = <<"km", 0>> /\ b \in Part.km
            \/ x = <<"user", 0>> /\ b \in Part.user
            \/ x = <<"ntfn", 0>> /\ b \in Part.ntfn
  <1> DEFINE T == {<<"thread", t>> : t \in {u \in NativeThreads :
                     thread[u].pc \in {"fill", "enqueue"} /\ thread[u].id = b}}
             Q == UNION {{<<q, i>> : i \in {j \in DOMAIN queue[q] : queue[q][j] = b}} : q \in Queues}
             K == {<<"km", 0>> : y \in {b} \cap {km.id}}
             U == {<<"user", 0>> : y \in {b} \cap user.held}
             N == {<<"ntfn", 0>> : y \in {b} \cap {ntfn.id}}
  <1>1. x \in T <=> x = <<"thread", Vmm>> /\ b \in Part.thread
    BY VmmFacts DEF Part
  <1>2. x \in Q <=> \E q \in Queues : \E i \in DOMAIN queue[q] : queue[q][i] = b /\ x = <<q, i>>
    OBVIOUS
  <1>3. x \in K <=> x = <<"km", 0>> /\ b \in Part.km
    BY DEF Part
  <1>4. x \in U <=> x = <<"user", 0>> /\ b \in Part.user
    BY DEF Part
  <1>5. x \in N <=> x = <<"ntfn", 0>> /\ b \in Part.ntfn
    BY DEF Part
  <1>6. Owners(b) = T \cup Q \cup K \cup U \cup N
    BY Zenon DEF Owners
  <1> HIDE DEF T, Q, K, U, N
  <1> QED
    BY <1>1, <1>2, <1>3, <1>4, <1>5, <1>6

LEMMA QueuePart ==
  ASSUME NEW b, NEW q \in Queues
  PROVE  b \in Part[q] <=> \E i \in DOMAIN queue[q] : queue[q][i] = b
  BY DEF Part, ToSet, Queues

LEMMA InvOneOwner == ASSUME OneRequester, Inv PROVE OneOwner
  <1> SUFFICES ASSUME NEW b \in Buffers
               PROVE  Cardinality(Owners(b)) = IF b \in lent THEN 1 ELSE 0
    BY DEF OneOwner
  <1>1. /\ Places = {"thread", "km", "user", "ntfn"} \cup Queues
        /\ \A p \in {"thread", "km", "user", "ntfn"} : p \notin Queues
    BY DEF Places, Queues
  <1>2. \A p, q \in Places : b \in Part[p] /\ b \in Part[q] => p = q
    BY DEF Inv, Ownership, PartsDisjoint
  <1>3. b \in lent <=> \E p \in Places : b \in Part[p]
    BY DEF Inv, Ownership, LentIsOwned
  <1>4. CASE b \notin lent
    <2>1. \A p \in Places : b \notin Part[p]
      BY <1>3, <1>4
    <2>2. \A x : x \notin Owners(b)
      BY <1>1, <2>1, OwnersAre, QueuePart
    <2>3. Owners(b) = {}
      BY <2>2
    <2> QED
      BY <1>4, <2>3, FS_EmptySet
  <1>5. CASE b \in lent
    <2>1. PICK p \in Places : b \in Part[p]
      BY <1>3, <1>5
    <2>2. \A q \in Places : b \in Part[q] => q = p
      BY <1>2, <2>1
    <2>3. \E x : Owners(b) = {x}
      <3>1. CASE p \in Queues
        <4>1. PICK i \in DOMAIN queue[p] : queue[p][i] = b
          BY <2>1, <3>1, QueuePart
        <4>2. \A q \in Queues : \A j \in DOMAIN queue[q] : queue[q][j] = b => q = p /\ j = i
          BY <1>1, <2>2, <3>1, <4>1, QueuePart DEF Inv, Ownership, QueuedOnce
        <4>3. /\ b \notin Part.thread /\ b \notin Part.km /\ b \notin Part.user
              /\ b \notin Part.ntfn
          BY <1>1, <2>2, <3>1
        <4>4. ASSUME NEW x PROVE x \in Owners(b) <=> x = <<p, i>>
          BY <3>1, <4>1, <4>2, <4>3, OwnersAre
        <4>5. Owners(b) = {<<p, i>>}
          BY <4>4
        <4> QED
          BY <4>5
      <3>2. CASE p \notin Queues
        <4>1. p \in {"thread", "km", "user", "ntfn"}
          BY <1>1, <3>2
        <4>2. \A q \in Queues : \A j \in DOMAIN queue[q] : queue[q][j] # b
          BY <1>1, <2>2, <3>2, QueuePart
        <4>3. CASE p = "thread"
          <5>1. \A x : x \in Owners(b) <=> x = <<"thread", Vmm>>
            BY <1>1, <2>1, <2>2, <4>2, <4>3, OwnersAre
          <5>2. Owners(b) = {<<"thread", Vmm>>}
            BY <5>1
          <5> QED
            BY <5>2
        <4>4. CASE p = "km"
          <5>1. \A x : x \in Owners(b) <=> x = <<"km", 0>>
            BY <1>1, <2>1, <2>2, <4>2, <4>4, OwnersAre
          <5>2. Owners(b) = {<<"km", 0>>}
            BY <5>1
          <5> QED
            BY <5>2
        <4>5. CASE p = "user"
          <5>1. \A x : x \in Owners(b) <=> x = <<"user", 0>>
            BY <1>1, <2>1, <2>2, <4>2, <4>5, OwnersAre
          <5>2. Owners(b) = {<<"user", 0>>}
            BY <5>1
          <5> QED
            BY <5>2
        <4>6. CASE p = "ntfn"
          <5>1. \A x : x \in Owners(b) <=> x = <<"ntfn", 0>>
            BY <1>1, <2>1, <2>2, <4>2, <4>6, OwnersAre
          <5>2. Owners(b) = {<<"ntfn", 0>>}
            BY <5>1
          <5> QED
            BY <5>2
        <4> QED
          BY <4>1, <4>3, <4>4, <4>5, <4>6
      <3> QED
        BY <3>1, <3>2
    <2> QED
      BY <1>5, <2>3, FS_Singleton
  <1> QED
    BY <1>4, <1>5

(* OneOwner: a buffer of the message table that is lent is with the thread *)
(* that fills it, in one entry of one queue, with the kernel module, with  *)
(* user space or with the notification thread, and with one of them only;  *)
(* one that is not lent is with none.                                      *)
THEOREM BuffersHaveOneOwner == ASSUME OneRequester PROVE Spec => []OneOwner
  <1>1. Inv => OneOwner
    BY InvOneOwner
  <1> QED
    BY <1>1, Invariance, PTL

-----------------------------------------------------------------------------
(* Replies and their clients.                                              *)
LEMMA InFlightIsLive == InFlight \subseteq Live
  <1>1. UNION {ToSet(queue[q]) : q \in Queues}
            = ToSet(queue.request) \cup ToSet(queue.forward) \cup ToSet(queue.response)
    BY DEF Queues
  <1> QED
    BY <1>1 DEF InFlight, Live, Part

(* ReplyFindsCallback: the assertion on ioack->callback in ioreq_finish    *)
(* never fails, and the callback is there from the time the request is in  *)
(* the queue until its reply is taken.                                     *)
THEOREM RepliesFindCallbacks == ASSUME OneRequester PROVE Spec => []ReplyFindsCallback
  <1>1. Inv => ReplyFindsCallback
    BY InFlightIsLive, VmmFacts DEF Inv, Messages, LiveMessage, ReplyFindsCallback
  <1> QED
    BY <1>1, Invariance, PTL

(* ClientWaits: no vCPU runs, and no native call returns, while a message  *)
(* of its access is with the device or in a queue.                         *)
THEOREM ClientsWait == ASSUME OneRequester PROVE Spec => []ClientWaits
  <1>1. Inv => ClientWaits
    <2> SUFFICES ASSUME Inv, NEW b \in InFlight
                 PROVE  LET c == ioacks[buffer[b].slot]
                        IN  IF c \in VCpus THEN vcpu[c] = "waiting"
                            ELSE thread[c].pc \in {"ring", "await"} /\ handoff[c] = 0
      BY DEF ClientWaits
    <2>1. LiveMessage(b)
      BY InFlightIsLive DEF Inv, Messages
    <2> QED
      BY <2>1 DEF LiveMessage, Waits
  <1> QED
    BY <1>1, Invariance, PTL

-----------------------------------------------------------------------------
(* Buffers and queue entries, in the numbers of include/sel4/rpc_queue.h:  *)
(* RPCMSG_BUFFER_SIZE is the size of a ring and of the message table, and  *)
(* it exceeds SEL4_MMIO_NATIVE_BASE vCPUs and the VMM thread.              *)
EntryPerBuffer == QueueSize >= Cardinality(Buffers)
BuffersToSpare == IsFiniteSet(VCpus) /\ Cardinality(VCpus) + 1 < Cardinality(Buffers)

(* A queue without some buffer is not full. *)
LEMMA QueueHasRoom ==
  ASSUME Inv, EntryPerBuffer, NEW q \in Queues, NEW b \in Buffers, b \notin Part[q]
  PROVE  Len(queue[q]) < QueueSize
  <1>1. queue[q] \in Seq(Buffers)
    BY DEF Inv, TypeOK, SharedTypes
  <1>2. /\ Len(queue[q]) \in Nat /\ DOMAIN queue[q] = 1 .. Len(queue[q])
        /\ \A i \in 1 .. Len(queue[q]) : queue[q][i] \in Buffers \ {b}
    BY <1>1, QueuePart
  <1>3. queue[q] = [i \in 1 .. Len(queue[q]) |-> queue[q][i]]
    BY <1>1
  <1>4. queue[q] \in Injection(1 .. Len(queue[q]), Buffers \ {b})
    BY <1>2, <1>3 DEF Injection, IsInjective, Inv, Ownership, QueuedOnce
  <1>5. /\ IsFiniteSet(Buffers) /\ IsFiniteSet(Buffers \ {b}) /\ Cardinality(Buffers) \in Nat
        /\ Cardinality(Buffers \ {b}) = Cardinality(Buffers) - 1
    BY SlotsAssumption, FS_RemoveElement, FS_CardinalityType
  <1>6. Cardinality(1 .. Len(queue[q])) <= Cardinality(Buffers \ {b})
    BY <1>4, <1>5, FS_Injection
  <1>7. Cardinality(1 .. Len(queue[q])) = Len(queue[q])
    BY <1>2, FS_Interval
  <1>8. QueueSize \in Nat
    BY SlotsAssumption
  <1> QED
    BY <1>2, <1>5, <1>6, <1>7, <1>8 DEF EntryPerBuffer

(* The message of the thread, of the module and of user space has room. *)
LEMMA QueuesHaveRoom ==
  ASSUME OneRequester, Inv, EntryPerBuffer
  PROVE  /\ \A t \in NativeThreads : At(t, "enqueue") => Len(queue.request) < QueueSize
         /\ km.pc = "handle" => Len(queue.forward) < QueueSize
         /\ km.pc = "handle" \/ user.held # {} => Len(queue.response) < QueueSize
  <1>1. \A p \in Places, q \in Queues, b \in Buffers :
            b \in Part[p] /\ p # q => Len(queue[q]) < QueueSize
    <2>1. Queues \subseteq Places
      BY DEF Queues, Places
    <2> QED
      BY <2>1, QueueHasRoom DEF Inv, Ownership, PartsDisjoint
  <1>2. "request" \in Queues /\ "forward" \in Queues /\ "response" \in Queues
    BY DEF Queues
  <1>3. "thread" \in Places /\ "km" \in Places /\ "user" \in Places
    BY DEF Places
  <1>4. ASSUME NEW t \in NativeThreads, At(t, "enqueue") PROVE Len(queue.request) < QueueSize
    <2>1. thread[Vmm].pc = "enqueue"
      BY <1>4, VmmFacts DEF At
    <2>2. thread[Vmm].id \in Buffers /\ thread[Vmm].id \in Part["thread"]
      BY <2>1 DEF Inv, ThreadShape, Part
    <2> QED
      BY <1>1, <1>2, <1>3, <2>2
  <1>5. ASSUME km.pc = "handle"
        PROVE  Len(queue.forward) < QueueSize /\ Len(queue.response) < QueueSize
    <2>1. km.id \in Buffers /\ km.id \in Part["km"]
      BY <1>5 DEF Inv, ActorShape, Part
    <2> QED
      BY <1>1, <1>2, <1>3, <2>1
  <1>6. ASSUME user.held # {} PROVE Len(queue.response) < QueueSize
    <2>1. PICK b : b \in user.held
      BY <1>6
    <2>2. b \in Buffers /\ b \in Part["user"]
      BY <2>1 DEF Inv, TypeOK, ActorTypes, Part
    <2> QED
      BY <1>1, <1>2, <1>3, <2>2
  <1> QED
    BY <1>4, <1>5, <1>6

(* rpcmsg_lend_buffer finds a buffer: each message in flight is of another *)
(* client than the one that asks, and one reply may still be reclaimed.    *)
LEMMA BufferIsFree ==
  ASSUME OneRequester, Inv, BuffersToSpare, At(Vmm, "find")
  PROVE  ~(Buffers \subseteq lent)
  <1> SUFFICES ASSUME Buffers \subseteq lent PROVE FALSE
    OBVIOUS
  <1> DEFINE S == Buffers \ {ntfn.id}
             j == thread[Vmm].job
             T == Clients \ {j}
             f == [b \in S |-> ioacks[buffer[b].slot]]
  <1>1. S \subseteq Live
    <2> SUFFICES ASSUME NEW b \in S PROVE b \in Live
      OBVIOUS
    <2>1. PICK p \in Places : b \in Part[p]
      BY DEF Inv, Ownership, LentIsOwned
    <2>2. b \notin Part["thread"] /\ b \notin Part["ntfn"]
      BY DEF At, Part
    <2>3. p \in {"request", "km", "forward", "user", "response"}
      BY <2>1, <2>2 DEF Places
    <2> QED
      BY <2>1, <2>3 DEF Live
  <1>2. \A b \in S : LiveMessage(b)
    BY <1>1 DEF Inv, Messages
  <1>3. j \in Clients /\ ioacks[thread[Vmm].slot] = j /\ thread[Vmm].slot = SlotOf(j)
        /\ \A b \in Live : buffer[b].slot # thread[Vmm].slot
    BY DEF At, Inv, Request, ThreadShape, Starting, Registered
  <1>4. \A b \in S : f[b] \in T
    <2> SUFFICES ASSUME NEW b \in S PROVE ioacks[buffer[b].slot] \in T
      OBVIOUS
    <2>1. /\ ioacks[buffer[b].slot] \in Clients
          /\ buffer[b].slot = SlotOf(ioacks[buffer[b].slot])
      BY <1>2 DEF LiveMessage
    <2> QED
      BY <1>1, <1>3, <2>1
  <1>5. \A a, b \in S : f[a] = f[b] => a = b
    <2> SUFFICES ASSUME NEW a \in S, NEW b \in S, ioacks[buffer[a].slot] = ioacks[buffer[b].slot]
                 PROVE  a = b
      OBVIOUS
    <2>1. /\ buffer[a].slot = SlotOf(ioacks[buffer[a].slot])
          /\ buffer[b].slot = SlotOf(ioacks[buffer[b].slot])
      BY <1>2 DEF LiveMessage
    <2>2. buffer[a].slot = buffer[b].slot
      BY <2>1
    <2> QED
      BY <1>1, <2>2 DEF Inv, Messages
  <1>6. f \in Injection(S, T)
    <2>1. f \in [S -> T] /\ DOMAIN f = S
      BY <1>4
    <2> HIDE DEF f, S, T
    <2> QED
      BY <1>5, <2>1 DEF Injection, IsInjective
  <1>7. /\ IsFiniteSet(Clients) /\ Cardinality(Clients) = Cardinality(VCpus) + 1
        /\ Cardinality(VCpus) \in Nat
    BY VmmFacts, FS_AddElement, FS_CardinalityType DEF BuffersToSpare
  <1>8. IsFiniteSet(T) /\ Cardinality(T) = Cardinality(VCpus)
    <2>1. IsFiniteSet(T) /\ Cardinality(T) = Cardinality(Clients) - 1
      BY <1>3, <1>7, FS_RemoveElement
    <2> HIDE DEF T
    <2> QED
      BY <1>7, <2>1
  <1>9. /\ Cardinality(Buffers) \in Nat /\ Cardinality(S) \in Nat
        /\ Cardinality(S) >= Cardinality(Buffers) - 1
    <2>1. IsFiniteSet(Buffers) /\ IsFiniteSet(S)
      BY SlotsAssumption, FS_RemoveElement
    <2>2. Cardinality(Buffers) \in Nat /\ Cardinality(S) \in Nat
      BY <2>1, FS_CardinalityType
    <2> QED
      BY <2>1, <2>2, FS_RemoveElement
  <1>10. Cardinality(S) <= Cardinality(T)
    <2> HIDE DEF f, S, T
    <2> QED
      BY <1>6, <1>8, FS_Injection
  <1> HIDE DEF S, T
  <1> QED
    BY <1>7, <1>8, <1>9, <1>10 DEF BuffersToSpare

(* ResourcesSuffice: rpcmsg_request finds a free buffer whenever it needs  *)
(* one, and no request, forwarded request or reply meets a full queue.     *)
THEOREM ResourcesAreSufficient ==
  ASSUME OneRequester, EntryPerBuffer, BuffersToSpare
  PROVE  Spec => []ResourcesSuffice
  <1> DEFINE J == Inv /\ aborted # "no buffer"
  <1>1. Init => J
    BY InitInv DEF Init
  <1>2. J /\ [Next]_vars => J'
    <2> SUFFICES ASSUME J, [Next]_vars PROVE aborted' # "no buffer"
      BY NextInv
    <2>1. CASE \E t \in NativeThreads : NoBuffer(t)
      BY <2>1, VmmFacts, BufferIsFree DEF NoBuffer
    <2>2. CASE \E t \in NativeThreads : SlotIsTaken(t)
      BY <2>2 DEF SlotIsTaken, Abort
    <2>3. CASE ioreq_finish
      BY <2>3 DEF ioreq_finish, Abort
    <2>4. CASE aborted' = aborted
      BY <2>4
    <2>5. \/ \E t \in NativeThreads : NoBuffer(t) \/ SlotIsTaken(t)
          \/ ioreq_finish \/ aborted' = aborted
      <3>1. ASSUME NEW v \in VCpus, Fault(v) \/ mmio_fault_handler(v) PROVE aborted' = aborted
        BY <3>1 DEF Fault, mmio_fault_handler
      <3>2. ASSUME NEW t \in NativeThreads, ioreq_native(t) \/ Requester(t)
            PROVE  NoBuffer(t) \/ SlotIsTaken(t) \/ aborted' = aborted
        BY <3>2 DEF ioreq_native, Requester, ioreq_start, LoadFreeSlot, StoreFreeSlot,
           ioreq_native_wait, SlotIsFree, RegisterCallback, FindBuffer, LendBuffer, FillMessage,
           SendRequest, RequestRefused, RingDevice
      <3>3. ASSUME ntfn_callback \/ rpc_run PROVE ioreq_finish \/ aborted' = aborted
        BY <3>3 DEF ntfn_callback, rpc_run, handle_mmio, rpcmsg_receive_response, NoResponse,
           ClearCallback, rpcmsg_reclaim_buffer
      <3>4. ASSUME KernelModule \/ UserSpace PROVE aborted' = aborted
        BY <3>4 DEF KernelModule, UserSpace, consume_callback, rpcmsg_receive, NoRequest,
           driver_rpc_request_fwd, KernelAnswers, KernelRings, UserReceive, UserRings,
           UserAnswers, RingDriver
      <3> QED
        BY <3>1, <3>2, <3>3, <3>4 DEF Next, Halted, vars
    <2> QED
      BY <2>1, <2>2, <2>3, <2>4, <2>5
  <1>3. J => ResourcesSuffice
    BY QueuesHaveRoom DEF ResourcesSuffice
  <1> HIDE DEF J
  <1> QED
    BY <1>1, <1>2, <1>3, PTL DEF Spec

-----------------------------------------------------------------------------
(* The native call's value is the answer to its latest request, except     *)
(* between the registration of the request and the callback.               *)
NativeValue ==
    \/ thread[Vmm].job # Vmm
    \/ thread[Vmm].pc \in {"alloc", "allocated", "check", "register"}
    \/ handoff[Vmm] # 0
    => value[Vmm] = token[Vmm]

LEMMA InitNativeValue == ASSUME OneRequester PROVE Init => NativeValue
  BY VmmFacts DEF Init, NativeValue

(* A step of another thread, or of the VMM thread outside the steps below. *)
LEMMA NativeValueSame ==
  ASSUME NativeValue, UNCHANGED <<thread, handoff, value, token>>
  PROVE  NativeValue'
  BY DEF NativeValue

LEMMA NextNativeValue ==
  ASSUME OneRequester, EntryPerBuffer, Inv, NativeValue, [Next]_vars
  PROVE  NativeValue'
  <1> USE VmmFacts
  <1>0. thread[Vmm] \in ThreadState /\ thread \in [NativeThreads -> ThreadState]
    BY DEF Inv, TypeOK, ThreadTypes
  <1>1. ASSUME NEW v \in VCpus, Fault(v) \/ mmio_fault_handler(v) PROVE NativeValue'
    <2>1. UNCHANGED <<handoff, value, token>>
      BY <1>1 DEF Fault, mmio_fault_handler
    <2>2. CASE Fault(v)
      BY <2>1, <2>2, NativeValueSame DEF Fault
    <2>3. CASE mmio_fault_handler(v)
      <3>1. thread[Vmm].job # Vmm
        BY <2>3 DEF mmio_fault_handler, At, Inv, ThreadShape
      <3> QED
        BY <2>1, <3>1 DEF NativeValue
    <2> QED
      BY <1>1, <2>2, <2>3
  <1>2. ASSUME ioreq_native(Vmm) \/ LoadFreeSlot(Vmm) \/ StoreFreeSlot(Vmm) \/ SlotIsFree(Vmm)
        PROVE  NativeValue'
    <2>1. UNCHANGED <<handoff, value, token>>
      BY <1>2 DEF ioreq_native, LoadFreeSlot, StoreFreeSlot, SlotIsFree, clientVars
    <2>2. thread[Vmm].job # Vmm \/ thread[Vmm].pc \in {"alloc", "allocated", "check", "register"}
      BY <1>2 DEF ioreq_native, LoadFreeSlot, StoreFreeSlot, SlotIsFree, At, Inv, ThreadShape
    <2> QED
      BY <2>1, <2>2 DEF NativeValue
  <1>3. ASSUME RegisterCallback(Vmm) PROVE NativeValue'
    <2>1. /\ thread[Vmm].pc = "register" /\ thread[Vmm].job \in Clients
          /\ thread'[Vmm].pc = "find" /\ thread'[Vmm].job = thread[Vmm].job
          /\ handoff' = handoff /\ handoff[Vmm] = 0 /\ value' = value
          /\ token' = [token EXCEPT ![thread[Vmm].job] = 1 - token[thread[Vmm].job]]
      BY <1>0, <1>3 DEF RegisterCallback, At, Goto, ThreadState, Inv, Handoff, ThreadShape, Starting
    <2>2. thread[Vmm].job # Vmm => token'[Vmm] = token[Vmm]
      BY <2>1 DEF Inv, TypeOK, ClientTypes
    <2> QED
      BY <2>1, <2>2 DEF NativeValue
  <1>4. ASSUME FindBuffer(Vmm) \/ LendBuffer(Vmm) \/ FillMessage(Vmm) \/ SendRequest(Vmm)
        PROVE  NativeValue'
    <2>1. UNCHANGED <<handoff, value, token>>
      BY <1>4 DEF FindBuffer, LendBuffer, FillMessage, SendRequest, clientVars
    <2>2. /\ thread'[Vmm].job = thread[Vmm].job
          /\ thread'[Vmm].pc \in {"lend", "fill", "enqueue", "ring"}
      BY <1>0, <1>4 DEF FindBuffer, LendBuffer, FillMessage, SendRequest, Goto, ThreadState
    <2> QED
      BY <2>1, <2>2 DEF NativeValue
  <1>5. ~RequestRefused(Vmm)
    <2>1. At(Vmm, "enqueue") => Len(queue.request) < QueueSize
      BY QueuesHaveRoom
    <2>2. Len(queue.request) \in Nat /\ QueueSize \in Nat
      <3>1. queue["request"] \in Seq(Buffers)
        BY DEF Inv, TypeOK, SharedTypes, Queues
      <3> QED
        BY <3>1, SlotsAssumption
    <2> QED
      BY <2>1, <2>2 DEF RequestRefused
  <1>6. ASSUME RingDevice(Vmm) PROVE NativeValue'
    <2>1. UNCHANGED <<handoff, value, token>>
      BY <1>6 DEF RingDevice, clientVars
    <2>2. CASE thread[Vmm].job \in VCpus
      BY <2>1, <2>2 DEF NativeValue
    <2>3. CASE thread[Vmm].job \notin VCpus
      <3>1. thread'[Vmm].job = thread[Vmm].job /\ thread'[Vmm].pc = "await"
        BY <1>0, <1>6, <2>3 DEF RingDevice, Goto, ThreadState
      <3> QED
        BY <2>1, <3>1 DEF NativeValue
    <2> QED
      BY <2>2, <2>3
  <1>7. ASSUME ioreq_native_wait(Vmm) PROVE NativeValue'
    <2>1. UNCHANGED <<value, token>> /\ handoff[Vmm] > 0
      BY <1>7 DEF ioreq_native_wait
    <2> QED
      BY <2>1 DEF NativeValue
  <1>8. ASSUME ioreq_finish PROVE NativeValue'
    <2>1. PICK b \in Live : b = ntfn.id
      BY <1>8 DEF ioreq_finish, NtfnAt, Live, Acking
    <2>2. LiveMessage(b) /\ ntfn.pc = "ack" /\ ntfn.slot = buffer[b].slot
      BY <1>8, <2>1 DEF ioreq_finish, NtfnAt, Inv, Messages, ActorShape
    <2>3. PICK c \in Clients : c = ioacks[ntfn.slot]
      BY <2>2 DEF LiveMessage
    <2>4. buffer[ntfn.id].data = token[c]
      BY <2>1, <2>2, <2>3 DEF LiveMessage, Acking
    <2>5. UNCHANGED <<thread, token>> /\ ioack(c)
      BY <1>8, <2>3 DEF ioreq_finish
    <2>6. value' = [value EXCEPT ![c] = token[c]] /\ (c # Vmm => handoff' = handoff)
      BY <2>4, <2>5 DEF ioack
    <2>7. value \in [Clients -> {0, 1, None}]
      BY DEF Inv, TypeOK, ClientTypes
    <2>8. CASE c = Vmm
      <3>1. value'[Vmm] = token[Vmm]
        BY <2>6, <2>7, <2>8
      <3> QED
        BY <2>5, <3>1 DEF NativeValue
    <2>9. CASE c # Vmm
      <3>1. value'[Vmm] = value[Vmm] /\ handoff' = handoff
        BY <2>6, <2>7, <2>9
      <3> QED
        BY <2>5, <3>1 DEF NativeValue
    <2> QED
      BY <2>8, <2>9
  <1>9. ASSUME \/ SlotIsTaken(Vmm) \/ NoBuffer(Vmm) \/ ntfn_callback
               \/ rpcmsg_receive_response \/ NoResponse \/ ClearCallback \/ rpcmsg_reclaim_buffer
               \/ KernelModule \/ UserSpace \/ UNCHANGED vars
        PROVE  UNCHANGED <<thread, handoff, value, token>>
    BY <1>9 DEF SlotIsTaken, NoBuffer, Abort, ntfn_callback, rpcmsg_receive_response, NoResponse,
       ClearCallback, rpcmsg_reclaim_buffer, KernelModule, UserSpace, consume_callback,
       rpcmsg_receive, NoRequest, driver_rpc_request_fwd, KernelAnswers, KernelRings,
       UserReceive, UserRings, UserAnswers, RingDriver, clientVars, vars
  <1>10. ASSUME NEW t \in NativeThreads, ioreq_native(t) \/ Requester(t) PROVE NativeValue'
    <2>1. t = Vmm
      OBVIOUS
    <2> QED
      BY <1>10, <2>1, <1>2, <1>3, <1>4, <1>5, <1>6, <1>7, <1>9, NativeValueSame
         DEF Requester, ioreq_start
  <1> QED
    BY <1>1, <1>8, <1>9, <1>10, NativeValueSame DEF Next, Halted, rpc_run, handle_mmio

(* OwnReply: a vCPU runs on, and a native call returns, with the answer to *)
(* the latest request of that client, never to an earlier request and      *)
(* never to another client's.                                              *)
THEOREM RepliesAreOwn ==
  ASSUME OneRequester, EntryPerBuffer PROVE Spec => []OwnReply
  <1> DEFINE J == Inv /\ NativeValue
  <1>1. Init => J
    BY InitInv, InitNativeValue
  <1>2. J /\ [Next]_vars => J'
    BY NextInv, NextNativeValue
  <1>3. J => OwnReply
    BY VmmFacts DEF Inv, VCpuValue, ThreadShape, NativeValue, OwnReply, At
  <1> HIDE DEF J
  <1> QED
    BY <1>1, <1>2, <1>3, PTL DEF Spec

=============================================================================
