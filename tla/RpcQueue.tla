------------------------------ MODULE RpcQueue ------------------------------
(***************************************************************************)
(* The lock-free multi-producer multi-consumer ring of                     *)
(* include/sel4/rpc_queue.h, which carries every request, reply and event  *)
(* between a driver VM and its device backend.                             *)
(*                                                                         *)
(* Each side of the ring has two markers.  A thread claims the entry at    *)
(* tail with a compare-and-swap, works on the ring slot it has claimed,    *)
(* and then commits: it counts itself done in head and, when everybody who *)
(* claimed has been counted, moves the head position up to the tail.  Each *)
(* action is one access to shared memory, so every interleaving of threads *)
(* that the code allows is a behaviour of this specification.              *)
(*                                                                         *)
(* Marker positions and counts are 32-bit unsigned in the code.  Here they *)
(* are kept unwrapped, and every comparison the code makes on them is made *)
(* modulo Width.                                                           *)
(***************************************************************************)
EXTENDS Integers, Sequences, FiniteSets

CONSTANTS
    Producers,      \* threads that call rpcmsg_enqueue on this queue
    Consumers,      \* threads that call rpcmsg_dequeue on this queue
    KernelThreads,  \* threads running the __KERNEL__ build of the header
    RelaxedThreads, \* producers whose commit does not order earlier stores
    Size,           \* RPCMSG_BUFFER_SIZE
    HtdMax,         \* RPCMSG_HTD_MAX
    Width,          \* 2^32, the range of a marker's position and count
    Start,          \* the position at which the quiet queue starts
    MaxOps          \* bound: calls of rpcmsg_enqueue in a behaviour

Threads == Producers \cup Consumers

ASSUME ThreadsAssumption ==
    /\ IsFiniteSet(Threads)
    /\ Producers \cap Consumers = {}
    /\ KernelThreads \subseteq Threads
    /\ RelaxedThreads \subseteq Producers

ASSUME SizeAssumption ==
    /\ Size \in Nat \ {0}
    /\ Width \in Nat /\ Width % Size = 0
    /\ HtdMax \in Nat
    /\ Start \in Nat
    /\ MaxOps \in Nat /\ MaxOps + Size < Width

VARIABLES
    tail,     \* per side, the marker that claims move
    head,     \* per side, the marker that commits move
    ring,     \* the ring slots (for an event queue, the message they name)
    pc,       \* where each thread is in its call
    ot,       \* local of the acquire functions: the tail it works from
    oh,       \* local of rpcmsg_commit_update: the head it works from
    tt,       \* local of rpcmsg_commit_update: the tail it compares with
    msg,      \* the message a thread is enqueueing or has dequeued
    stores,   \* slot writes of a thread that other cores do not see yet
    attempts, \* history: calls of rpcmsg_enqueue so far
    sent      \* history: the messages accepted, in the order of their entries

vars == <<tail, head, ring, pc, ot, oh, tt, msg, stores, attempts, sent>>

Sides == {"prod", "cons"}

Side(t) == IF t \in Producers THEN "prod" ELSE "cons"

Marker == [pos : Nat, count : Nat]

Unset == [pos |-> 0, count |-> 0]

NoMsg == 0

Claiming == {"wait", "reload", "check", "cas"}

Committing == {"loadhead", "loadtail", "commit"}

InProgress == {"slot"} \cup Committing

-----------------------------------------------------------------------------
(* Arithmetic and comparisons on 32-bit markers.                           *)

U32(x) == x % Width

SameMarker(a, b) == U32(a.pos) = U32(b.pos) /\ U32(a.count) = U32(b.count)

(* Mutant: masks one bit too many. *)
RingIndex_HalfMask(entry) == entry % (Size \div 2)

RingIndex(entry) == entry % Size

Advance(m) == [pos |-> m.pos + 1, count |-> m.count + 1]

(* Mutants: one entry too many, one entry too few. *)
FreeEntries_OneMore(t) == U32(Size + 1 + head["cons"].pos - ot[t].pos)

FreeEntries_OneLess(t) == U32(Size - 1 + head["cons"].pos - ot[t].pos)

FreeEntries(t) == U32(Size + head["cons"].pos - ot[t].pos)

(* Mutant: counts the entries that producers have claimed. *)
FilledEntries_Claimed(t) == U32(tail["prod"].pos - ot[t].pos)

FilledEntries(t) == U32(head["prod"].pos - ot[t].pos)

(* Mutants: always publishes; compares the count before it is incremented. *)
NextHead_Always(o, t) == [count |-> o.count + 1, pos |-> t.pos]

NextHead_PostIncrement(o, t) ==
    [count |-> o.count + 1,
     pos   |-> IF U32(o.count) = U32(t.count) THEN t.pos ELSE o.pos]

NextHead(o, t) ==
    [count |-> o.count + 1,
     pos   |-> IF U32(o.count + 1) = U32(t.count) THEN t.pos ELSE o.pos]

-----------------------------------------------------------------------------
(* rpcmsg_queue_init zeroes the markers and the ring; a queue that has      *)
(* moved Start messages and is quiet again looks the same from Start on.    *)
Init ==
    /\ tail = [s \in Sides |-> [pos |-> Start, count |-> Start]]
    /\ head = tail
    /\ ring = [i \in 0..(Size - 1) |-> NoMsg]
    /\ pc = [t \in Threads |-> "idle"]
    /\ ot = [t \in Threads |-> Unset]
    /\ oh = [t \in Threads |-> Unset]
    /\ tt = [t \in Threads |-> Unset]
    /\ msg = [t \in Threads |-> NoMsg]
    /\ stores = [t \in Threads |-> {}]
    /\ attempts = 0
    /\ sent = <<>>

Goto(t, label) == pc' = [pc EXCEPT ![t] = label]

(* Mutant: reads .val, the 32-bit position, in place of .raw. *)
LoadTail_Val(t) == ot' = [ot EXCEPT ![t] = [pos |-> tail[Side(t)].pos]]

LoadTail(t) == ot' = [ot EXCEPT ![t] = tail[Side(t)]]

(* The call returns: its locals go out of scope. *)
Return(t) ==
    /\ Goto(t, "idle")
    /\ ot' = [ot EXCEPT ![t] = Unset]
    /\ oh' = [oh EXCEPT ![t] = Unset]
    /\ tt' = [tt EXCEPT ![t] = Unset]
    /\ msg' = [msg EXCEPT ![t] = NoMsg]

(* rpcmsg_enqueue is called with a new message; a caller gets here again   *)
(* only after the system call that rang the doorbell of its last message.  *)
BeginEnqueue(t) ==
    /\ pc[t] = "idle"
    /\ stores[t] = {}
    /\ attempts < MaxOps
    /\ attempts' = attempts + 1
    /\ msg' = [msg EXCEPT ![t] = attempts + 1]
    /\ LoadTail(t)
    /\ Goto(t, "wait")
    /\ UNCHANGED <<tail, head, ring, oh, tt, stores, sent>>

BeginDequeue(t) ==
    /\ pc[t] = "idle"
    /\ LoadTail(t)
    /\ Goto(t, "wait")
    /\ UNCHANGED <<tail, head, ring, oh, tt, msg, stores, attempts, sent>>

(* Mutant: lets one claim more through. *)
TooFarAhead_OneMore(t) == U32(ot[t].pos - head[Side(t)].pos) > HtdMax + 1

(* rpcmsg_tail_wait: the loop test reads head. *)
TooFarAhead(t) == U32(ot[t].pos - head[Side(t)].pos) > HtdMax

TailWait(t) ==
    /\ pc[t] = "wait"
    /\ Goto(t, IF TooFarAhead(t) THEN "reload" ELSE "check")
    /\ UNCHANGED <<tail, head, ring, ot, oh, tt, msg, stores, attempts, sent>>

ReloadTail(t) ==
    /\ pc[t] = "reload"
    /\ LoadTail(t)
    /\ Goto(t, "wait")
    /\ UNCHANGED <<tail, head, ring, oh, tt, msg, stores, attempts, sent>>

Entries(t) == IF t \in Producers THEN FreeEntries(t) ELSE FilledEntries(t)

CheckEntries(t) ==
    /\ pc[t] = "check"
    /\ Entries(t) # 0
    /\ Goto(t, "cas")
    /\ UNCHANGED <<tail, head, ring, ot, oh, tt, msg, stores, attempts, sent>>

(* No entries: the queue is full (for a producer) or empty, return -1.     *)
ReturnNoEntries(t) ==
    /\ pc[t] = "check"
    /\ Entries(t) = 0
    /\ Return(t)
    /\ UNCHANGED <<tail, head, ring, stores, attempts, sent>>

(* The compare-and-swap on tail that claims an entry. *)
ClaimEntry(t) ==
    /\ pc[t] = "cas"
    /\ SameMarker(tail[Side(t)], ot[t])
    /\ tail' = [tail EXCEPT ![Side(t)] = Advance(ot[t])]
    /\ sent' = IF t \in Producers THEN Append(sent, msg[t]) ELSE sent
    /\ Goto(t, "slot")
    /\ UNCHANGED <<head, ring, ot, oh, tt, msg, stores, attempts>>

(* Mutant: no thread learns the marker its compare-and-swap found. *)
FoundMarker_Forgotten(t, expected, found) == expected

(* It fails: __atomic_compare_exchange_n writes the marker it found into   *)
(* the expected value, the arch_cmpxchg form leaves it as it was.          *)
FoundMarker(t, expected, found) ==
    IF t \in KernelThreads THEN expected ELSE found

LoseClaim(t) ==
    /\ pc[t] = "cas"
    /\ ~SameMarker(tail[Side(t)], ot[t])
    /\ ot' = [ot EXCEPT ![t] = FoundMarker(t, @, tail[Side(t)])]
    /\ Goto(t, "wait")
    /\ UNCHANGED <<tail, head, ring, oh, tt, msg, stores, attempts, sent>>

(* enqueue_fn writes the claimed slot.  A relaxed producer's write may      *)
(* become visible to the other cores at any later time.                     *)
EnqueueFn(t) ==
    /\ pc[t] = "slot"
    /\ IF t \in RelaxedThreads
       THEN /\ stores' = [stores EXCEPT ![t] = {<<RingIndex(ot[t].pos), msg[t]>>}]
            /\ UNCHANGED ring
       ELSE /\ ring' = [ring EXCEPT ![RingIndex(ot[t].pos)] = msg[t]]
            /\ UNCHANGED stores
    /\ Goto(t, "loadhead")
    /\ UNCHANGED <<tail, head, ot, oh, tt, msg, attempts, sent>>

DrainStore(t) ==
    \E w \in stores[t] :
        /\ ring' = [ring EXCEPT ![w[1]] = w[2]]
        /\ stores' = [stores EXCEPT ![t] = {}]
        /\ UNCHANGED <<tail, head, pc, ot, oh, tt, msg, attempts, sent>>

(* dequeue_fn reads the claimed slot. *)
DequeueFn(t) ==
    /\ pc[t] = "slot"
    /\ msg' = [msg EXCEPT ![t] = ring[RingIndex(ot[t].pos)]]
    /\ Goto(t, "loadhead")
    /\ UNCHANGED <<tail, head, ring, ot, oh, tt, stores, attempts, sent>>

(* rpcmsg_commit_update *)
CommitLoadHead(t) ==
    /\ pc[t] = "loadhead"
    /\ oh' = [oh EXCEPT ![t] = head[Side(t)]]
    /\ Goto(t, "loadtail")
    /\ UNCHANGED <<tail, head, ring, ot, tt, msg, stores, attempts, sent>>

CommitLoadTail(t) ==
    /\ pc[t] = "loadtail"
    /\ tt' = [tt EXCEPT ![t] = tail[Side(t)]]
    /\ Goto(t, "commit")
    /\ UNCHANGED <<tail, head, ring, ot, oh, msg, stores, attempts, sent>>

Commit(t) ==
    /\ pc[t] = "commit"
    /\ SameMarker(head[Side(t)], oh[t])
    /\ head' = [head EXCEPT ![Side(t)] = NextHead(oh[t], tt[t])]
    /\ Return(t)
    /\ UNCHANGED <<tail, ring, stores, attempts, sent>>

LoseCommit(t) ==
    /\ pc[t] = "commit"
    /\ ~SameMarker(head[Side(t)], oh[t])
    /\ oh' = [oh EXCEPT ![t] = FoundMarker(t, @, head[Side(t)])]
    /\ Goto(t, "loadtail")
    /\ UNCHANGED <<tail, head, ring, ot, tt, msg, stores, attempts, sent>>

-----------------------------------------------------------------------------
(* The steps of a call that has begun, the same text on both sides. *)
CallStep(t) ==
    \/ TailWait(t) \/ ReloadTail(t) \/ CheckEntries(t) \/ ReturnNoEntries(t)
    \/ ClaimEntry(t) \/ LoseClaim(t)
    \/ CommitLoadHead(t) \/ CommitLoadTail(t) \/ Commit(t) \/ LoseCommit(t)

rpcmsg_enqueue(t) == CallStep(t) \/ EnqueueFn(t)

rpcmsg_dequeue(t) == CallStep(t) \/ DequeueFn(t)

Next ==
    \/ \E t \in Producers : BeginEnqueue(t) \/ rpcmsg_enqueue(t) \/ DrainStore(t)
    \/ \E t \in Consumers : BeginDequeue(t) \/ rpcmsg_dequeue(t)

(* Every thread is scheduled while it is inside a call, stores reach memory, *)
(* and a consumer polls again; nobody is obliged to enqueue anything.        *)
Fairness ==
    /\ \A t \in Producers : WF_vars(rpcmsg_enqueue(t)) /\ WF_vars(DrainStore(t))
    /\ \A t \in Consumers : WF_vars(BeginDequeue(t) \/ rpcmsg_dequeue(t))

Spec == Init /\ [][Next]_vars

FairSpec == Spec /\ Fairness

-----------------------------------------------------------------------------
(* The variables have their types; in particular a thread's copy of a      *)
(* marker is a whole marker (.raw), position and count together.           *)
TypeOK ==
    /\ tail \in [Sides -> Marker]
    /\ head \in [Sides -> Marker]
    /\ ring \in [0..(Size - 1) -> Nat]
    /\ pc \in [Threads -> {"idle"} \cup Claiming \cup InProgress]
    /\ ot \in [Threads -> Marker]
    /\ oh \in [Threads -> Marker]
    /\ tt \in [Threads -> Marker]
    /\ msg \in [Threads -> Nat]
    /\ stores \in [Threads -> SUBSET ((0..(Size - 1)) \X Nat)]
    /\ attempts \in 0..MaxOps
    /\ sent \in Seq(Nat)

Working(s) == {t \in Threads : Side(t) = s /\ pc[t] \in InProgress}

SentAt(p) == sent[p - Start + 1]

(***************************************************************************)
(* A dequeue hands its caller the message that was accepted at the entry   *)
(* it claimed: never an older message of the slot, never one that is still *)
(* being written.                                                          *)
(***************************************************************************)
ReadsWhatWasSent ==
    \A c \in Consumers :
        pc[c] \in Committing => msg[c] = SentAt(ot[c].pos)

(***************************************************************************)
(* No two threads work on the same ring slot at the same time, neither two *)
(* of one side nor a producer and a consumer.                              *)
(***************************************************************************)
ExclusiveSlots ==
    \A t, u \in Threads :
        /\ t # u
        /\ pc[t] \in InProgress /\ pc[u] \in InProgress
        => RingIndex(ot[t].pos) # RingIndex(ot[u].pos)

(***************************************************************************)
(* The four positions stay in order and span at most one turn of the ring, *)
(* although every one is moved on the strength of values read earlier.     *)
(***************************************************************************)
WindowOrder ==
    /\ head["cons"].pos <= tail["cons"].pos
    /\ tail["cons"].pos <= head["prod"].pos
    /\ head["prod"].pos <= tail["prod"].pos
    /\ tail["prod"].pos <= head["cons"].pos + Size

(***************************************************************************)
(* When nobody of a side is between its claim and its commit, the head of  *)
(* that side has caught up with its tail: whoever commits last publishes   *)
(* the entries of all who committed before and left the position alone.    *)
(***************************************************************************)
LastCommitPublishes ==
    \A s \in Sides : Working(s) = {} => head[s] = tail[s]

(***************************************************************************)
(* rpcmsg_tail_wait keeps the claims of one side within RPCMSG_HTD_MAX + 1 *)
(* entries of its head.                                                    *)
(***************************************************************************)
DistanceBounded ==
    \A s \in Sides : tail[s].pos - head[s].pos <= HtdMax + 1

(***************************************************************************)
(* An enqueue that reports "full" and a dequeue that reports "empty" are   *)
(* right at the moment they decide, although they decide on a tail they    *)
(* may have read long before.                                              *)
(***************************************************************************)
NoFalseRefusal ==
    [][\A t \in Threads :
        pc[t] = "check" /\ pc'[t] = "idle" =>
            IF t \in Producers
            THEN tail["prod"].pos = head["cons"].pos + Size
            ELSE tail["cons"].pos = head["prod"].pos]_vars

(***************************************************************************)
(* Every call of rpcmsg_enqueue and rpcmsg_dequeue returns.                *)
(***************************************************************************)
CallsReturn ==
    \A t \in Threads : pc[t] # "idle" ~> pc[t] = "idle"

(***************************************************************************)
(* Every accepted message is eventually claimed by some consumer: none is  *)
(* stranded behind a head that nobody moves any more.                      *)
(***************************************************************************)
AcceptedIsDelivered ==
    \A n \in 1..MaxOps : Len(sent) >= n ~> tail["cons"].pos - Start >= n

-----------------------------------------------------------------------------
(* The promise of MsgFifo: messages are numbered by the entry they occupy. *)
Number(p) == p - Start + 1

Fifo == INSTANCE MsgFifo WITH
    Messages <- 1..MaxOps,
    Capacity <- Size,
    log      <- sent,
    writing  <- {Number(ot[t].pos) : t \in Working("prod")},
    visible  <- head["prod"].pos - Start,
    taken    <- tail["cons"].pos - Start,
    reading  <- {Number(ot[t].pos) : t \in {c \in Consumers : pc[c] = "slot"}},
    inhand   <- {<<Number(ot[t].pos), msg[t]>> :
                    t \in {c \in Consumers : pc[c] \in Committing}},
    freed    <- head["cons"].pos - Start

(***************************************************************************)
(* The ring keeps that promise: every access to a marker or a slot is an   *)
(* abstract accept, write, take, delivery or release, or changes nothing   *)
(* a user can see.                                                         *)
(***************************************************************************)
ImplementsFifo == Fifo!Spec

=============================================================================
