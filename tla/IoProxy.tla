------------------------------ MODULE IoProxy ------------------------------
(***************************************************************************)
(* The I/O request path of a driver VM: src/io_proxy.c, the driver side of *)
(* include/sel4/rpc.h and the request/reply half of                        *)
(* include/sel4/rpc_queue.h, and the fault handler and rpc_run of          *)
(* src/libsel4vm_glue.c.                                                   *)
(*                                                                         *)
(* The VMM thread turns a guest's MMIO fault into a request and goes on; a *)
(* native thread (the VMM thread itself, when it reads PCI configuration   *)
(* space) waits for the answer.  In the device VM a kernel module takes    *)
(* the requests; it answers one itself or forwards it to user space, which *)
(* answers in any order.  The notification thread runs rpc_run: it takes   *)
(* the replies and calls back whoever registered in the reply's slot.      *)
(* Each action is one access to state that another thread uses.            *)
(*                                                                         *)
(* A queue is a sequence here: what the lock-free ring promises is the     *)
(* subject of RpcQueue and MsgFifo.  A request carries one bit that        *)
(* alternates from one request of a client to the next, so that an answer  *)
(* to an older request is told from the answer to this one.                *)
(***************************************************************************)
EXTENDS Integers, Sequences, FiniteSets, SequencesExt

CONSTANTS
    VCpus,         \* ids of the guest's vCPUs: their ioack slots
    NativeThreads, \* threads that call ioreq_native; the VMM thread is one
    Vmm,           \* the VMM thread
    NativeBase,    \* SEL4_MMIO_NATIVE_BASE
    Slots,         \* indices of io_proxy->ioacks
    Buffers,       \* indices of the message buffer table
    QueueSize,     \* entries of a queue that the other side has room for
    None           \* no client, no buffer, no data

ASSUME SlotsAssumption ==
    /\ Vmm \in NativeThreads
    /\ Slots \subseteq Nat /\ VCpus \subseteq Slots
    /\ NativeBase \in Nat \ {0} /\ \A v \in VCpus : v < NativeBase
    /\ Buffers \subseteq Nat /\ IsFiniteSet(Buffers)
    /\ VCpus \cap NativeThreads = {} /\ QueueSize \in Nat
    /\ None \notin VCpus \cup NativeThreads \cup Buffers \cup {0, 1}

Clients == VCpus \cup NativeThreads

VARIABLES
    thread,   \* per requesting thread: pc, job, slot, id, and nativeSlot (TLS)
    freeSlot, \* free_native_slot
    ioacks,   \* per slot, the client whose callback is registered
    lent,     \* buffer_state: the buffers lent
    buffer,   \* per buffer, the message: slot, request, answer
    queue,    \* the request, the forwarding and the reply queue, of buffer ids
    bell,     \* pending notifications, to the device and to the driver
    ntfn,     \* the notification thread: pc, the reply's id and slot
    km,       \* the device's kernel module: pc and the buffer it works on
    user,     \* the device's user space: the buffers it holds, has it to ring?
    handoff,  \* per native thread, the count of its semaphore
    vcpu,     \* per vCPU: running, faulted, waiting for an answer, or error
    value,    \* the answer handed to each client
    token,    \* history: the bit of each client's latest request
    aborted   \* why the VMM component has died, or "no"

clientVars == <<handoff, vcpu, value, token>>
sharedVars == <<ioacks, lent, buffer, queue, bell>>
deviceVars == <<km, user>>
actorVars  == <<ntfn, deviceVars>>
vars == <<thread, freeSlot, sharedVars, actorVars, clientVars, aborted>>

Queues == {"request", "forward", "response"}

(* vso_driver_rpc_init of the driver resets the queues it uses; the        *)
(* forwarding queue is in shared memory that is zero.                      *)
EmptyQueues == [q \in Queues |-> <<>>]

(* A thread that is not in a call; the slot it got earlier is thread-local. *)
Idle(nativeSlot) ==
    [pc |-> "idle", job |-> None, slot |-> None, id |-> None, nativeSlot |-> nativeSlot]

Init ==
    /\ thread = [t \in NativeThreads |-> Idle(0)]
    /\ freeSlot = NativeBase
    /\ ioacks = [s \in Slots |-> None]
    /\ lent = {}
    /\ buffer = [b \in Buffers |-> None]
    /\ queue = EmptyQueues
    /\ bell = [device |-> FALSE, driver |-> FALSE]
    /\ ntfn = [pc |-> "wait", id |-> None, slot |-> None]
    /\ km = [pc |-> "wait", id |-> None]
    /\ user = [held |-> {}, ringing |-> FALSE]
    /\ handoff = [t \in NativeThreads |-> 0]
    /\ vcpu = [v \in VCpus |-> "running"]
    /\ value = [c \in Clients |-> 0]
    /\ token = [c \in Clients |-> 0]
    /\ aborted = "no"

(* A thread is at a label, in a component that is still alive. *)
At(t, label) == aborted = "no" /\ thread[t].pc = label

NtfnAt(label) == aborted = "no" /\ ntfn.pc = label

Goto(t, label) == thread' = [thread EXCEPT ![t].pc = label]

(* The call ends and the thread's locals go out of scope. *)
Finish(t) == thread' = [thread EXCEPT ![t] = Idle(thread[t].nativeSlot)]

Abort(why) ==
    /\ aborted' = why
    /\ UNCHANGED <<thread, freeSlot, sharedVars, actorVars, clientVars>>

-----------------------------------------------------------------------------
(* The guest touches an emulated register. *)
Fault(v) ==
    /\ aborted = "no"
    /\ vcpu[v] = "running"
    /\ vcpu' = [vcpu EXCEPT ![v] = "faulted"]
    /\ UNCHANGED <<thread, freeSlot, sharedVars, actorVars, handoff, value, token, aborted>>

(* mmio_fault_handler, called from the VMM's event loop. *)
mmio_fault_handler(v) ==
    /\ At(Vmm, "idle")
    /\ vcpu[v] = "faulted"
    /\ vcpu' = [vcpu EXCEPT ![v] = "waiting"]
    /\ thread' = [thread EXCEPT ![Vmm].pc = "check", ![Vmm].job = v, ![Vmm].slot = v]
    /\ UNCHANGED <<freeSlot, sharedVars, actorVars, handoff, value, token, aborted>>

(* ioreq_native, with the slot an earlier call got or without one. *)
ioreq_native(t) ==
    /\ At(t, "idle")
    /\ thread' = [thread EXCEPT ![t].job = t,
                                ![t].slot = thread[t].nativeSlot,
                                ![t].pc = IF thread[t].nativeSlot = 0 THEN "alloc" ELSE "check"]
    /\ UNCHANGED <<freeSlot, sharedVars, actorVars, clientVars, aborted>>

(* ioreq_native_slot: the test and the read of free_native_slot (with too  *)
(* many native threads, ioreq_native returns -1) ...                       *)
LoadFreeSlot(t) ==
    /\ At(t, "alloc")
    /\ IF freeSlot \in Slots
       THEN thread' = [thread EXCEPT ![t].pc = "allocated", ![t].slot = freeSlot]
       ELSE Finish(t)
    /\ UNCHANGED <<freeSlot, sharedVars, actorVars, clientVars, aborted>>

(* ... and the write of the incremented value. *)
StoreFreeSlot(t) ==
    /\ At(t, "allocated")
    /\ freeSlot' = thread[t].slot + 1
    /\ thread' = [thread EXCEPT ![t].pc = "check", ![t].nativeSlot = thread[t].slot]
    /\ UNCHANGED <<sharedVars, actorVars, clientVars, aborted>>

(* ioreq_start: rpc_assert(ioack->callback == NULL) ... *)
SlotIsFree(t) ==
    /\ At(t, "check")
    /\ ioacks[thread[t].slot] = None
    /\ Goto(t, "register")
    /\ UNCHANGED <<freeSlot, sharedVars, actorVars, clientVars, aborted>>

SlotIsTaken(t) ==
    /\ At(t, "check")
    /\ ioacks[thread[t].slot] # None
    /\ Abort("slot taken")

(* Mutant: the callback is not registered with the request. *)
RegisterCallback_NotYet(t) ==
    /\ At(t, "register")
    /\ token' = [token EXCEPT ![thread[t].job] = 1 - @]
    /\ Goto(t, "find")
    /\ UNCHANGED <<freeSlot, sharedVars, actorVars, handoff, vcpu, value, aborted>>

(* ... and then the callback and its cookie. *)
RegisterCallback(t) ==
    /\ At(t, "register")
    /\ ioacks' = [ioacks EXCEPT ![thread[t].slot] = thread[t].job]
    /\ token' = [token EXCEPT ![thread[t].job] = 1 - @]
    /\ Goto(t, "find")
    /\ UNCHANGED <<freeSlot, lent, buffer, queue, bell, actorVars, handoff, vcpu, value, aborted>>

(* rpcmsg_lend_buffer: find_first_zero_bit ... *)
FindBuffer(t) ==
    /\ At(t, "find")
    /\ \E b \in Buffers \ lent :
          /\ \A c \in Buffers \ lent : b <= c
          /\ thread' = [thread EXCEPT ![t].pc = "lend", ![t].id = b]
    /\ UNCHANGED <<freeSlot, sharedVars, actorVars, clientVars, aborted>>

(* ... with all of them lent, rpcmsg_request writes through the NULL it is *)
(* given ...                                                               *)
NoBuffer(t) ==
    /\ At(t, "find")
    /\ Buffers \subseteq lent
    /\ Abort("no buffer")

(* ... and set_bit. *)
LendBuffer(t) ==
    /\ At(t, "lend")
    /\ lent' = lent \cup {thread[t].id}
    /\ Goto(t, "fill")
    /\ UNCHANGED <<freeSlot, ioacks, buffer, queue, bell, actorVars, clientVars, aborted>>

(* rpcmsg_request fills the message, ... *)
FillMessage(t) ==
    /\ At(t, "fill")
    /\ buffer' = [buffer EXCEPT ![thread[t].id] =
          [slot |-> thread[t].slot, req |-> token[thread[t].job], data |-> None]]
    /\ Goto(t, "enqueue")
    /\ UNCHANGED <<freeSlot, ioacks, lent, queue, bell, actorVars, clientVars, aborted>>

(* ... enqueues its id, ... *)
SendRequest(t) ==
    /\ At(t, "enqueue")
    /\ Len(queue.request) < QueueSize
    /\ queue' = [queue EXCEPT !.request = Append(@, thread[t].id)]
    /\ thread' = [thread EXCEPT ![t].pc = "ring", ![t].id = None]
    /\ UNCHANGED <<freeSlot, ioacks, lent, buffer, bell, actorVars, clientVars, aborted>>

(* clear_bit.  What a buffer that is not lent holds is read by nobody, so  *)
(* the model forgets it.                                                   *)
Reclaim(b) ==
    /\ lent' = lent \ {b}
    /\ buffer' = [buffer EXCEPT ![b] = None]

(* Mutant: the refused request keeps its buffer. *)
RequestRefused_Leaks(t) ==
    /\ At(t, "enqueue")
    /\ Len(queue.request) >= QueueSize
    /\ vcpu' = IF thread[t].job \in VCpus
               THEN [vcpu EXCEPT ![thread[t].job] = "error"] ELSE vcpu
    /\ Finish(t)
    /\ UNCHANGED <<freeSlot, ioacks, lent, buffer, queue, bell, actorVars,
                   handoff, value, token, aborted>>

(* ... or, refused, reclaims the buffer and returns -1: the callback stays *)
(* registered, and the VMM is told FAULT_ERROR.                            *)
RequestRefused(t) ==
    /\ At(t, "enqueue")
    /\ Len(queue.request) >= QueueSize
    /\ Reclaim(thread[t].id)
    /\ vcpu' = IF thread[t].job \in VCpus
               THEN [vcpu EXCEPT ![thread[t].job] = "error"] ELSE vcpu
    /\ Finish(t)
    /\ UNCHANGED <<freeSlot, ioacks, queue, bell, actorVars,
                   handoff, value, token, aborted>>

(* Mutant: the fault is advanced when the request is sent. *)
RingDevice_Advances(t) ==
    /\ At(t, "ring")
    /\ bell' = [bell EXCEPT !.device = TRUE]
    /\ vcpu' = IF thread[t].job \in VCpus
               THEN [vcpu EXCEPT ![thread[t].job] = "running"] ELSE vcpu
    /\ IF thread[t].job \in VCpus THEN Finish(t) ELSE Goto(t, "await")
    /\ UNCHANGED <<freeSlot, ioacks, lent, buffer, queue, actorVars,
                   handoff, value, token, aborted>>

(* Mutant: the request is sent and the doorbell is forgotten. *)
RingDevice_Silent(t) ==
    /\ At(t, "ring")
    /\ IF thread[t].job \in VCpus THEN Finish(t) ELSE Goto(t, "await")
    /\ UNCHANGED <<freeSlot, sharedVars, actorVars, clientVars, aborted>>

(* vso_doorbell; a fault is then handled, a native caller waits. *)
RingDevice(t) ==
    /\ At(t, "ring")
    /\ bell' = [bell EXCEPT !.device = TRUE]
    /\ IF thread[t].job \in VCpus THEN Finish(t) ELSE Goto(t, "await")
    /\ UNCHANGED <<freeSlot, ioacks, lent, buffer, queue, actorVars, clientVars, aborted>>

(* Mutant: the call returns without waiting. *)
ioreq_native_wait_Skipped(t) ==
    /\ At(t, "await")
    /\ Finish(t)
    /\ UNCHANGED <<freeSlot, sharedVars, actorVars, clientVars, aborted>>

ioreq_native_wait(t) ==
    /\ At(t, "await")
    /\ handoff[t] > 0
    /\ handoff' = [handoff EXCEPT ![t] = @ - 1]
    /\ Finish(t)
    /\ UNCHANGED <<freeSlot, sharedVars, actorVars, vcpu, value, token, aborted>>

-----------------------------------------------------------------------------
(* The notification thread: rpc_run drains the replies.                    *)

(* The registered callback runs; it registers itself again first. *)
ntfn_callback ==
    /\ NtfnAt("wait")
    /\ bell.driver
    /\ bell' = [bell EXCEPT !.driver = FALSE]
    /\ ntfn' = [ntfn EXCEPT !.pc = "receive"]
    /\ UNCHANGED <<thread, freeSlot, ioacks, lent, buffer, queue, deviceVars, clientVars, aborted>>

(* Mutant: the buffer is reclaimed before the reply has been handled. *)
rpcmsg_receive_response_Reclaims ==
    /\ NtfnAt("receive")
    /\ queue.response # <<>>
    /\ LET b == Head(queue.response)
       IN  /\ ntfn' = [pc |-> "ack", id |-> b, slot |-> buffer[b].slot]
           /\ lent' = lent \ {b}
    /\ queue' = [queue EXCEPT !.response = Tail(@)]
    /\ UNCHANGED <<thread, freeSlot, ioacks, buffer, bell, deviceVars, clientVars, aborted>>

rpcmsg_receive_response ==
    /\ NtfnAt("receive")
    /\ queue.response # <<>>
    /\ LET b == Head(queue.response)
       IN  ntfn' = [pc |-> "ack", id |-> b, slot |-> buffer[b].slot]
    /\ queue' = [queue EXCEPT !.response = Tail(@)]
    /\ UNCHANGED <<thread, freeSlot, ioacks, lent, buffer, bell, deviceVars, clientVars, aborted>>

NoResponse ==
    /\ NtfnAt("receive")
    /\ queue.response = <<>>
    /\ ntfn' = [ntfn EXCEPT !.pc = "wait"]
    /\ UNCHANGED <<thread, freeSlot, sharedVars, deviceVars, clientVars, aborted>>

(* Mutant: the semaphore of a native thread is posted twice. *)
ioack_PostsTwice(c) ==
    /\ value' = [value EXCEPT ![c] = buffer[ntfn.id].data]
    /\ \/ c \in VCpus /\ vcpu' = [vcpu EXCEPT ![c] = "running"] /\ UNCHANGED handoff
       \/ c \in NativeThreads /\ handoff' = [handoff EXCEPT ![c] = @ + 2] /\ UNCHANGED vcpu

(* Mutant: the callback of a native request does not post. *)
ioack_NoPost(c) ==
    /\ value' = [value EXCEPT ![c] = buffer[ntfn.id].data]
    /\ vcpu' = IF c \in VCpus THEN [vcpu EXCEPT ![c] = "running"] ELSE vcpu
    /\ UNCHANGED handoff

(* ioack_vcpu_read lets the vCPU go on, ioack_native_read wakes its thread. *)
ioack(c) ==
    /\ value' = [value EXCEPT ![c] = buffer[ntfn.id].data]
    /\ \/ c \in VCpus /\ vcpu' = [vcpu EXCEPT ![c] = "running"] /\ UNCHANGED handoff
       \/ c \in NativeThreads /\ handoff' = [handoff EXCEPT ![c] = @ + 1] /\ UNCHANGED vcpu

(* ioreq_finish: rpc_assert(ioack->callback), the call ... *)
ioreq_finish ==
    /\ NtfnAt("ack")
    /\ IF ioacks[ntfn.slot] = None
       THEN Abort("no callback")
       ELSE /\ ioack(ioacks[ntfn.slot])
            /\ ntfn' = [ntfn EXCEPT !.pc = "clear"]
            /\ UNCHANGED <<thread, freeSlot, sharedVars, deviceVars, token, aborted>>

(* ... and only then the callback is cleared, ... *)
ClearCallback ==
    /\ NtfnAt("clear")
    /\ ioacks' = [ioacks EXCEPT ![ntfn.slot] = None]
    /\ ntfn' = [ntfn EXCEPT !.pc = "reclaim"]
    /\ UNCHANGED <<thread, freeSlot, lent, buffer, queue, bell, deviceVars, clientVars, aborted>>

(* Mutant: a break in the loop, which leaves the step of the loop out. *)
rpcmsg_reclaim_buffer_Skipped ==
    /\ NtfnAt("reclaim")
    /\ ntfn' = [pc |-> "receive", id |-> None, slot |-> None]
    /\ UNCHANGED <<thread, freeSlot, sharedVars, deviceVars, clientVars, aborted>>

(* ... and the loop step of for_each_driver_rpc_resp reclaims the buffer. *)
rpcmsg_reclaim_buffer ==
    /\ NtfnAt("reclaim")
    /\ Reclaim(ntfn.id)
    /\ ntfn' = [pc |-> "receive", id |-> None, slot |-> None]
    /\ UNCHANGED <<thread, freeSlot, ioacks, queue, bell, deviceVars, clientVars, aborted>>

-----------------------------------------------------------------------------
(* The device VM.  Its doorbell is an interrupt of the cross-VM connection *)
(* that the kernel module handles.                                         *)
consume_callback ==
    /\ km.pc = "wait"
    /\ bell.device
    /\ bell' = [bell EXCEPT !.device = FALSE]
    /\ km' = [km EXCEPT !.pc = "receive"]
    /\ UNCHANGED <<thread, freeSlot, ioacks, lent, buffer, queue, ntfn, user, clientVars, aborted>>

(* for_each_driver_rpc_req in the kernel module: a request ... *)
rpcmsg_receive ==
    /\ km.pc = "receive"
    /\ queue.request # <<>>
    /\ km' = [pc |-> "handle", id |-> Head(queue.request)]
    /\ queue' = [queue EXCEPT !.request = Tail(@)]
    /\ UNCHANGED <<thread, freeSlot, ioacks, lent, buffer, bell, ntfn, user, clientVars, aborted>>

(* ... or none. *)
NoRequest ==
    /\ km.pc = "receive"
    /\ queue.request = <<>>
    /\ km' = [km EXCEPT !.pc = "wait"]
    /\ UNCHANGED <<thread, freeSlot, sharedVars, ntfn, user, clientVars, aborted>>

(* Mutant: the kernel module forwards a request and answers it as well. *)
driver_rpc_request_fwd_Keeps ==
    /\ km.pc = "handle"
    /\ Len(queue.forward) < QueueSize
    /\ queue' = [queue EXCEPT !.forward = Append(@, km.id)]
    /\ UNCHANGED <<thread, freeSlot, ioacks, lent, buffer, bell, ntfn, deviceVars, clientVars, aborted>>

(* rpcmsg_forward: the message goes on to user space in the same buffer;   *)
(* refused, the kernel module still has it.                                *)
driver_rpc_request_fwd ==
    /\ km.pc = "handle"
    /\ Len(queue.forward) < QueueSize
    /\ queue' = [queue EXCEPT !.forward = Append(@, km.id)]
    /\ km' = [pc |-> "receive", id |-> None]
    /\ UNCHANGED <<thread, freeSlot, ioacks, lent, buffer, bell, ntfn, user, clientVars, aborted>>

(* for_each_driver_rpc_req in user space, which is woken by the module. *)
UserReceive ==
    /\ ~user.ringing
    /\ queue.forward # <<>>
    /\ user' = [user EXCEPT !.held = @ \cup {Head(queue.forward)}]
    /\ queue' = [queue EXCEPT !.forward = Tail(@)]
    /\ UNCHANGED <<thread, freeSlot, ioacks, lent, buffer, bell, ntfn, km, clientVars, aborted>>

(* driver_rpc_ack_mmio_finish: the answer goes into the request's buffer   *)
(* and its id into the reply queue.                                        *)
driver_rpc_ack_mmio_finish(b) ==
    /\ Len(queue.response) < QueueSize
    /\ buffer' = [buffer EXCEPT ![b].data = buffer[b].req]
    /\ queue' = [queue EXCEPT !.response = Append(@, b)]

KernelAnswers ==
    /\ km.pc = "handle"
    /\ driver_rpc_ack_mmio_finish(km.id)
    /\ km' = [pc |-> "ring", id |-> None]
    /\ UNCHANGED <<thread, freeSlot, ioacks, lent, bell, ntfn, user, clientVars, aborted>>

UserAnswers(b) ==
    /\ ~user.ringing
    /\ b \in user.held
    /\ driver_rpc_ack_mmio_finish(b)
    /\ user' = [held |-> user.held \ {b}, ringing |-> TRUE]
    /\ UNCHANGED <<thread, freeSlot, ioacks, lent, bell, ntfn, km, clientVars, aborted>>

(* driver_rpc_reply ends with the doorbell. *)
RingDriver ==
    /\ bell' = [bell EXCEPT !.driver = TRUE]
    /\ UNCHANGED <<thread, freeSlot, ioacks, lent, buffer, queue, ntfn, clientVars, aborted>>

KernelRings ==
    /\ km.pc = "ring"
    /\ km' = [km EXCEPT !.pc = "receive"]
    /\ RingDriver /\ UNCHANGED user

UserRings ==
    /\ user.ringing
    /\ user' = [user EXCEPT !.ringing = FALSE]
    /\ RingDriver /\ UNCHANGED km

-----------------------------------------------------------------------------
ioreq_start(t) ==
    \/ SlotIsFree(t) \/ SlotIsTaken(t) \/ RegisterCallback(t)
    \/ FindBuffer(t) \/ NoBuffer(t) \/ LendBuffer(t) \/ FillMessage(t)
    \/ SendRequest(t) \/ RequestRefused(t) \/ RingDevice(t)

Requester(t) ==
    \/ LoadFreeSlot(t) \/ StoreFreeSlot(t)
    \/ ioreq_start(t)
    \/ ioreq_native_wait(t)

handle_mmio == ioreq_finish \/ ClearCallback

rpc_run ==
    \/ rpcmsg_receive_response \/ NoResponse
    \/ handle_mmio \/ rpcmsg_reclaim_buffer

KernelModule ==
    \/ consume_callback \/ rpcmsg_receive \/ NoRequest
    \/ driver_rpc_request_fwd \/ KernelAnswers \/ KernelRings

UserSpace == UserReceive \/ UserRings \/ \E b \in Buffers : UserAnswers(b)

(* A component that has died takes no step; the other VM goes on waiting. *)
Halted == aborted # "no" /\ UNCHANGED vars

Next ==
    \/ \E v \in VCpus : Fault(v) \/ mmio_fault_handler(v)
    \/ \E t \in NativeThreads : ioreq_native(t) \/ Requester(t)
    \/ ntfn_callback \/ rpc_run
    \/ KernelModule \/ UserSpace
    \/ Halted

Spec == Init /\ [][Next]_vars

(* Every thread is scheduled and the device answers what it holds.  The    *)
(* VMM takes faults from a first-come, first-served endpoint, so a fault   *)
(* that it could take again and again is taken.  Nobody has to fault or to *)
(* call.                                                                   *)
Fairness ==
    /\ \A v \in VCpus : SF_vars(mmio_fault_handler(v))
    /\ \A t \in NativeThreads : WF_vars(Requester(t))
    /\ WF_vars(ntfn_callback \/ rpc_run)
    /\ WF_vars(KernelModule) /\ SF_vars(driver_rpc_request_fwd \/ KernelAnswers)
    /\ WF_vars(UserReceive \/ UserRings) /\ \A b \in Buffers : SF_vars(UserAnswers(b))

FairSpec == Spec /\ Fairness

-----------------------------------------------------------------------------
Pcs == {"idle", "alloc", "allocated", "check", "register", "find", "lend",
        "fill", "enqueue", "ring", "await"}

ThreadState ==
    [pc : Pcs, job : Clients \cup {None}, slot : Slots \cup {None, 0},
     id : Buffers \cup {None}, nativeSlot : Slots \cup {0}]

Message == [slot : Slots, req : {0, 1}, data : {0, 1, None}]

ThreadTypes == thread \in [NativeThreads -> ThreadState] /\ freeSlot \in Nat

SharedTypes ==
    /\ ioacks \in [Slots -> Clients \cup {None}]
    /\ lent \subseteq Buffers
    /\ buffer \in [Buffers -> {None} \cup Message]
    /\ queue \in [Queues -> Seq(Buffers)]
    /\ bell \in [device : BOOLEAN, driver : BOOLEAN]

ActorTypes ==
    /\ ntfn \in [pc : {"wait", "receive", "ack", "clear", "reclaim"},
                 id : Buffers \cup {None}, slot : Slots \cup {None}]
    /\ km \in [pc : {"wait", "receive", "handle", "ring"}, id : Buffers \cup {None}]
    /\ user \in [held : SUBSET Buffers, ringing : BOOLEAN]

ClientTypes ==
    /\ handoff \in [NativeThreads -> {0, 1}]
    /\ vcpu \in [VCpus -> {"running", "faulted", "waiting", "error"}]
    /\ value \in [Clients -> {0, 1, None}] /\ token \in [Clients -> {0, 1}]

(* The variables have their types; a semaphore is posted at most once      *)
(* before its thread takes the count (ioack_native_read).                  *)
TypeOK ==
    /\ ThreadTypes /\ SharedTypes /\ ActorTypes /\ ClientTypes
    /\ aborted \in {"no", "slot taken", "no buffer", "no callback"}

(* What the callback hands over is the answer to the client's latest       *)
(* request, never to an earlier one or to another client's: a vCPU resumes *)
(* (ioack_vcpu_read) and a native call returns (ioreq_native_wait) with it.*)
OwnReply ==
    /\ \A v \in VCpus : vcpu[v] \in {"running", "faulted"} => value[v] = token[v]
    /\ \A t \in NativeThreads : At(t, "idle") => value[t] = token[t]

(* Where a message buffer is in its request-reply sequence. *)
Owners(b) ==
    {<<"thread", t>> : t \in {u \in NativeThreads :
        thread[u].pc \in {"fill", "enqueue"} /\ thread[u].id = b}}
    \cup (UNION {{<<q, i>> : i \in {j \in DOMAIN queue[q] : queue[q][j] = b}} : q \in Queues})
    \cup {<<"km", 0>> : x \in {b} \cap {km.id}}
    \cup {<<"user", 0>> : x \in {b} \cap user.held}
    \cup {<<"ntfn", 0>> : x \in {b} \cap {ntfn.id}}

(* A buffer that is lent has exactly one owner in the request-reply        *)
(* sequence (the ownership rule above rpcmsg_rpc_queue_t), the forwarding  *)
(* queue included, and one that is not lent has none: no message is        *)
(* written by two, none is lost from buffer_state.                         *)
OneOwner ==
    \A b \in Buffers : Cardinality(Owners(b)) = IF b \in lent THEN 1 ELSE 0

(* The buffers whose request has been sent and whose reply is not taken. *)
InFlight == (Buffers \cap {km.id}) \cup user.held \cup UNION {ToSet(queue[q]) : q \in Queues}

(* rpc_assert(ioack->callback == NULL) in ioreq_start holds. *)
SlotFreeWhenUsed == aborted # "slot taken"

(* A reply finds the callback that its request registered: the assertion   *)
(* on ioack->callback in ioreq_finish holds.                               *)
ReplyFindsCallback ==
    /\ aborted # "no callback"
    /\ \A b \in InFlight : ioacks[buffer[b].slot] # None

(* One buffer more than there are clients is enough for rpcmsg_request     *)
(* never to meet an exhausted table, and a queue with an entry for every   *)
(* buffer is never full for a request, a forwarded one or a reply.         *)
ResourcesSuffice ==
    /\ aborted # "no buffer"
    /\ \A t \in NativeThreads : At(t, "enqueue") => Len(queue.request) < QueueSize
    /\ km.pc = "handle" => Len(queue.forward) < QueueSize
    /\ km.pc = "handle" \/ user.held # {} => Len(queue.response) < QueueSize

(* What is in flight at the device has its client waiting for it: no vCPU  *)
(* runs with an access of its own outstanding (mmio_fault_handler leaves   *)
(* the fault for the reply to advance).                                    *)
ClientWaits ==
    \A b \in InFlight :
        LET c == ioacks[buffer[b].slot]
        IN  IF c \in VCpus THEN vcpu[c] = "waiting"
            ELSE thread[c].pc \in {"ring", "await"} /\ handoff[c] = 0

(* Where each client's access is, seen from outside: a call has been made, *)
(* the device has answered it, or the request was refused and its callback *)
(* has stayed in ioacks.                                                   *)
SlotOf(c) == IF c \in VCpus THEN c ELSE thread[c].nativeSlot

Answered(c) ==
    \/ \E b \in ToSet(queue.response) : buffer[b].slot = SlotOf(c)
    \/ ntfn.pc = "ack" /\ ntfn.slot = SlotOf(c)
    \/ c \in NativeThreads /\ handoff[c] > 0

LeftBehind(t) ==
    /\ SlotOf(t) # 0 /\ ioacks[SlotOf(t)] = t
    /\ ~(ntfn.pc = "clear" /\ ntfn.slot = SlotOf(t))

Pending(c) == IF Answered(c) THEN "served" ELSE "asked"

VCpuAccess(v) ==
    IF vcpu[v] = "running" THEN "idle"
    ELSE IF vcpu[v] = "error" THEN "refused" ELSE Pending(v)

NativeAccess(t) ==
    IF thread[t].job # t THEN IF LeftBehind(t) THEN "refused" ELSE "idle"
    ELSE IF thread[t].pc \in {"alloc", "allocated"} THEN "idle" ELSE Pending(t)

AccessState(c) == IF c \in VCpus THEN VCpuAccess(c) ELSE NativeAccess(c)

Service == INSTANCE AccessService WITH access <- [c \in Clients |-> AccessState(c)]

(* Each access to an emulated register or to PCI configuration space is    *)
(* performed by the device exactly once before its client goes on, or it   *)
(* is refused: the whole path from mmio_fault_handler and ioreq_native to  *)
(* the callback of ioreq_finish implements AccessService.                  *)
ImplementsService == Service!Spec

(* A fault on an emulated register is answered and the vCPU runs again, or *)
(* its request was refused and the VMM has been told: no doorbell is lost  *)
(* between the re-registration of ntfn_callback, the drain of rpc_run and  *)
(* a reply that arrives meanwhile.                                         *)
FaultsAreAnswered ==
    \A v \in VCpus :
        vcpu[v] = "faulted" ~> vcpu[v] \in {"running", "error"} \/ aborted # "no"

(* ioreq_native returns. *)
NativeCallsReturn ==
    \A t \in NativeThreads : At(t, "await") ~> At(t, "idle") \/ aborted # "no"

=============================================================================
