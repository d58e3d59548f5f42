--------------------------- MODULE IoProxyInvariance ---------------------------
(***************************************************************************)
(* The inductive invariant of IoProxy, for every number of vCPUs, buffers  *)
(* and queue entries, and the lemmas that every action preserves it.  It   *)
(* holds for a component in which one thread sends requests                *)
(* (OneRequester), as the VMM of a driver VM does: the two steps of        *)
(* rpcmsg_lend_buffer and of ioreq_native_slot are not safe otherwise.     *)
(***************************************************************************)
EXTENDS IoProxy, FiniteSetTheorems, SequenceTheorems, TLAPS

OneRequester == NativeThreads = {Vmm}

-----------------------------------------------------------------------------
(* The inductive invariant.                                                *)

(* Who can have a buffer, and the buffers each of them has. *)
Places == {"thread", "request", "km", "forward", "user", "response", "ntfn"}

Part == [
    thread   |-> IF thread[Vmm].pc \in {"fill", "enqueue"} THEN {thread[Vmm].id} ELSE {},
    request  |-> ToSet(queue.request),
    km       |-> Buffers \cap {km.id},
    forward  |-> ToSet(queue.forward),
    user     |-> user.held,
    response |-> ToSet(queue.response),
    ntfn     |-> Buffers \cap {ntfn.id}]

(* A queue has a buffer once, *)
QueuedOnce ==
    \A q \in Queues : \A i, j \in DOMAIN queue[q] : queue[q][i] = queue[q][j] => i = j

(* two places have no buffer in common, and the places have all that is lent. *)
PartsDisjoint ==
    \A p, q \in Places : \A b \in Buffers : b \in Part[p] /\ b \in Part[q] => p = q

LentIsOwned ==
    \A b \in Buffers : b \in lent <=> \E p \in Places : b \in Part[p]

Ownership == QueuedOnce /\ PartsDisjoint /\ LentIsOwned

(* The slot allocator has been used by the one thread, once at most. *)
NativeSlot ==
    \/ thread[Vmm].nativeSlot = 0 /\ freeSlot = NativeBase
    \/ /\ thread[Vmm].nativeSlot = NativeBase /\ freeSlot = NativeBase + 1
       /\ NativeBase \in Slots

(* Where the thread is in ioreq_start before the request is sent, *)
Registered == {"find", "lend", "fill", "enqueue"}
Starting   == {"check", "register"} \cup Registered

(* and what its locals are there. *)
ThreadShape ==
    LET t == thread[Vmm] IN
    /\ t.pc = "idle" => t.job = None
    /\ t.pc \in {"alloc", "allocated"} => t.job = Vmm /\ t.nativeSlot = 0
    /\ t.pc = "allocated" => t.slot = freeSlot /\ t.slot \in Slots
    /\ t.pc \in Starting \cup {"ring", "await"} =>
          /\ t.job \in Clients
          /\ t.slot = SlotOf(t.job) /\ t.slot \in Slots
          /\ t.job = Vmm => t.nativeSlot # 0
    /\ t.pc = "lend" => t.id \in Buffers /\ t.id \notin lent
    /\ t.pc \in {"fill", "enqueue"} => t.id \in Buffers
    /\ t.pc = "await" => t.job = Vmm

ActorShape ==
    /\ ntfn.pc \in {"wait", "receive"} => ntfn.id = None
    /\ ntfn.pc \in {"ack", "clear", "reclaim"} => ntfn.id \in Buffers /\ ntfn.slot \in Slots
    /\ ntfn.pc = "ack" => ntfn.slot = buffer[ntfn.id].slot
    /\ ntfn.pc = "clear" => ioacks[ntfn.slot] \in Clients
    /\ km.id # None => km.pc = "handle"
    /\ km.pc = "handle" => km.id \in Buffers

(* The messages whose client has not been called back. *)
Acking == IF ntfn.pc = "ack" THEN {ntfn.id} ELSE {}

Live == Part.request \cup Part.km \cup Part.forward \cup Part.user
        \cup Part.response \cup Acking

Waits(c) ==
    IF c \in VCpus THEN vcpu[c] = "waiting"
    ELSE /\ thread[c].pc \in {"ring", "await"} /\ thread[c].job = c
         /\ handoff[c] = 0

(* Such a message belongs to the client in its slot, which waits for it,   *)
(* and carries the client's latest request.                                *)
LiveMessage(b) ==
    LET s == buffer[b].slot
        c == ioacks[s]
    IN  /\ buffer[b] \in Message
        /\ c \in Clients /\ s = SlotOf(c) /\ Waits(c)
        /\ buffer[b].req = token[c]
        /\ b \in Part.response \cup Acking => buffer[b].data = buffer[b].req
        /\ ~(ntfn.pc = "clear" /\ ntfn.slot = s)

Messages ==
    /\ \A b \in Live : LiveMessage(b)
    /\ \A a, b \in Live : buffer[a].slot = buffer[b].slot => a = b

(* While a request is being made, the client waits, no message has its     *)
(* slot, and from the registration on the callback is in place.            *)
Request ==
    LET t == thread[Vmm] IN
    /\ t.pc \in Starting =>
          /\ t.job \in VCpus => vcpu[t.job] = "waiting"
          /\ \A b \in Live : buffer[b].slot # t.slot
    /\ t.pc = "register" => ioacks[t.slot] = None
    /\ t.pc \in Registered =>
          /\ ioacks[t.slot] = t.job
          /\ ~(ntfn.pc = "clear" /\ ntfn.slot = t.slot)
    /\ t.pc = "enqueue" =>
          buffer[t.id] = [slot |-> t.slot, req |-> token[t.job], data |-> None]

(* The semaphore has a count only for the call under way, whose callback   *)
(* is cleared or about to be.                                              *)
Handoff ==
    handoff[Vmm] # 0 =>
        /\ thread[Vmm].pc \in {"ring", "await"} /\ thread[Vmm].job = Vmm
        /\ ~LeftBehind(Vmm)

(* A vCPU that runs has the answer to its latest request. *)
VCpuValue == \A v \in VCpus : vcpu[v] \in {"running", "faulted"} => value[v] = token[v]

Inv ==
    /\ TypeOK
    /\ NativeSlot /\ ThreadShape /\ ActorShape
    /\ Ownership
    /\ Messages /\ Request /\ Handoff
    /\ VCpuValue
    /\ aborted # "no callback"

-----------------------------------------------------------------------------
(* Queues as sets.                                                         *)

LEMMA ToSetAppend ==
  ASSUME NEW S, NEW q \in Seq(S), NEW x \in S
  PROVE  /\ Append(q, x) \in Seq(S)
         /\ ToSet(Append(q, x)) = ToSet(q) \cup {x}
  <1>1. /\ Append(q, x) \in Seq(S) /\ Len(q) \in Nat
        /\ DOMAIN Append(q, x) = 1 .. Len(q) + 1 /\ DOMAIN q = 1 .. Len(q)
        /\ \A i \in 1 .. Len(q) : Append(q, x)[i] = q[i]
        /\ Append(q, x)[Len(q) + 1] = x
    OBVIOUS
  <1>2. ASSUME NEW y PROVE y \in ToSet(Append(q, x)) <=> y \in ToSet(q) \cup {x}
    BY <1>1 DEF ToSet
  <1> QED
    BY <1>1, <1>2

LEMMA ToSetTail ==
  ASSUME NEW S, NEW q \in Seq(S), q # <<>>,
         \A i, j \in DOMAIN q : q[i] = q[j] => i = j
  PROVE  /\ Tail(q) \in Seq(S) /\ Head(q) \in S /\ Head(q) \in ToSet(q)
         /\ ToSet(Tail(q)) = ToSet(q) \ {Head(q)}
         /\ \A i, j \in DOMAIN Tail(q) : Tail(q)[i] = Tail(q)[j] => i = j
  <1>1. /\ Tail(q) \in Seq(S) /\ Len(q) \in Nat \ {0} /\ Head(q) = q[1] /\ Head(q) \in S
        /\ DOMAIN q = 1 .. Len(q) /\ DOMAIN Tail(q) = 1 .. Len(q) - 1
        /\ \A i \in 1 .. Len(q) - 1 : Tail(q)[i] = q[i + 1]
    OBVIOUS
  <1>2. ASSUME NEW y PROVE y \in ToSet(Tail(q)) <=> y \in ToSet(q) \ {Head(q)}
    <2>1. ASSUME NEW i \in 1 .. Len(q), q[i] = y, y # Head(q)
          PROVE  i - 1 \in 1 .. Len(q) - 1 /\ Tail(q)[i - 1] = y
      BY <1>1, <2>1
    <2>2. ASSUME y \in ToSet(q), y # Head(q) PROVE y \in ToSet(Tail(q))
      <3>1. PICK i \in 1 .. Len(q) : q[i] = y
        BY <1>1, <2>2 DEF ToSet
      <3>2. i - 1 \in DOMAIN Tail(q) /\ Tail(q)[i - 1] = y
        BY <3>1, <2>1, <2>2, <1>1
      <3> QED
        BY <3>2 DEF ToSet
    <2>3. ASSUME NEW i \in 1 .. Len(q) - 1, Tail(q)[i] = y
          PROVE  i + 1 \in 1 .. Len(q) /\ q[i + 1] = y /\ y # Head(q)
      BY <1>1, <2>3
    <2>4. y \in ToSet(Tail(q)) => y \in ToSet(q) \ {Head(q)}
      BY <1>1, <2>3 DEF ToSet
    <2> QED
      BY <2>2, <2>4
  <1>3. Head(q) \in ToSet(q)
    BY <1>1 DEF ToSet
  <1>4. ASSUME NEW i \in DOMAIN Tail(q), NEW j \in DOMAIN Tail(q), Tail(q)[i] = Tail(q)[j]
        PROVE  i = j
    <2>1. i \in Nat /\ j \in Nat /\ i + 1 \in DOMAIN q /\ j + 1 \in DOMAIN q
      BY <1>1
    <2>2. q[i + 1] = q[j + 1]
      BY <1>1, <1>4
    <2> QED
      BY <2>1, <2>2
  <1> QED
    BY <1>1, <1>2, <1>3, <1>4

LEMMA AppendOnce ==
  ASSUME NEW S, NEW q \in Seq(S), NEW x \in S, x \notin ToSet(q),
         \A i, j \in DOMAIN q : q[i] = q[j] => i = j
  PROVE  \A i, j \in DOMAIN Append(q, x) : Append(q, x)[i] = Append(q, x)[j] => i = j
  <1>1. /\ Len(q) \in Nat
        /\ DOMAIN Append(q, x) = 1 .. Len(q) + 1 /\ DOMAIN q = 1 .. Len(q)
        /\ \A i \in 1 .. Len(q) : Append(q, x)[i] = q[i]
        /\ Append(q, x)[Len(q) + 1] = x
    OBVIOUS
  <1>2. \A i \in 1 .. Len(q) : q[i] # x
    BY <1>1 DEF ToSet
  <1> QED
    BY <1>1, <1>2

-----------------------------------------------------------------------------
(* Initially.                                                              *)
LEMMA InitTypeOK == Init => TypeOK
  <1> SUFFICES ASSUME Init PROVE TypeOK
    OBVIOUS
  <1>1. Idle(0) \in ThreadState
    BY DEF Idle, ThreadState, Pcs
  <1>2. ThreadTypes
    BY <1>1, SlotsAssumption DEF Init, ThreadTypes
  <1>3. SharedTypes
    BY DEF Init, SharedTypes, EmptyQueues, Queues
  <1>4. ActorTypes
    BY DEF Init, ActorTypes
  <1>5. ClientTypes
    BY DEF Init, ClientTypes
  <1> QED
    BY <1>2, <1>3, <1>4, <1>5 DEF Init, TypeOK

LEMMA InitInv == ASSUME OneRequester PROVE Init => Inv
  <1> SUFFICES ASSUME Init PROVE Inv
    OBVIOUS
  <1>1. TypeOK
    BY InitTypeOK
  <1>2. /\ thread[Vmm] = Idle(0) /\ thread[Vmm].pc = "idle" /\ thread[Vmm].nativeSlot = 0
        /\ thread[Vmm].job = None /\ freeSlot = NativeBase
    BY SlotsAssumption DEF Init, Idle
  <1>3. /\ \A p \in Places : Part[p] = {}
        /\ Acking = {}
    BY <1>2, SlotsAssumption DEF Init, Places, Part, Acking, EmptyQueues, Queues, ToSet
  <1>4. Live = {}
    BY <1>3 DEF Live, Places
  <1>5. NativeSlot /\ ThreadShape /\ ActorShape
    BY <1>2 DEF Init, NativeSlot, ThreadShape, ActorShape, Starting, Registered
  <1>6. Ownership
    BY <1>3 DEF Ownership, QueuedOnce, PartsDisjoint, LentIsOwned, Init, EmptyQueues, Queues
  <1>7. Messages /\ Request /\ Handoff /\ VCpuValue
    BY <1>2, <1>4, SlotsAssumption DEF Init, Messages, Request, Handoff, VCpuValue, Starting, Registered, Clients
  <1> QED
    BY <1>1, <1>5, <1>6, <1>7 DEF Inv, Init

-----------------------------------------------------------------------------
(* Types of variables that a step leaves alone or changes in the usual way. *)
LEMMA SharedSame == ASSUME SharedTypes, UNCHANGED sharedVars PROVE SharedTypes'
  BY DEF SharedTypes, sharedVars

LEMMA ActorSame == ASSUME ActorTypes, UNCHANGED actorVars PROVE ActorTypes'
  BY DEF ActorTypes, actorVars, deviceVars

LEMMA ClientSame == ASSUME ClientTypes, UNCHANGED clientVars PROVE ClientTypes'
  BY DEF ClientTypes, clientVars

LEMMA ThreadSame == ASSUME ThreadTypes, UNCHANGED <<thread, freeSlot>> PROVE ThreadTypes'
  BY DEF ThreadTypes

LEMMA GotoType ==
  ASSUME ThreadTypes, NEW t \in NativeThreads, NEW l \in Pcs, Goto(t, l), freeSlot' = freeSlot
  PROVE  ThreadTypes'
  <1>1. thread[t] \in ThreadState
    BY DEF ThreadTypes
  <1>2. [thread[t] EXCEPT !.pc = l] \in ThreadState
    BY <1>1 DEF ThreadState
  <1> QED
    BY <1>2 DEF Goto, ThreadTypes

LEMMA GotoFields ==
  ASSUME ThreadTypes, NEW t \in NativeThreads, NEW l, Goto(t, l)
  PROVE  /\ thread'[t] = [thread[t] EXCEPT !.pc = l]
         /\ thread'[t].pc = l /\ thread'[t].job = thread[t].job /\ thread'[t].slot = thread[t].slot
         /\ thread'[t].nativeSlot = thread[t].nativeSlot /\ thread'[t].id = thread[t].id
  <1>1. thread[t] \in ThreadState /\ thread \in [NativeThreads -> ThreadState]
    BY DEF ThreadTypes
  <1>2. thread'[t] = [thread[t] EXCEPT !.pc = l]
    BY <1>1 DEF Goto
  <1> QED
    BY <1>1, <1>2 DEF ThreadState

LEMMA FinishType ==
  ASSUME ThreadTypes, NEW t \in NativeThreads, Finish(t), freeSlot' = freeSlot
  PROVE  ThreadTypes'
  <1>1. thread[t] \in ThreadState
    BY DEF ThreadTypes
  <1>2. Idle(thread[t].nativeSlot) \in ThreadState
    BY <1>1 DEF ThreadState, Idle, Pcs
  <1> QED
    BY <1>2 DEF Finish, ThreadTypes

(* The one thread, and the clients. *)
LEMMA VmmFacts ==
  ASSUME OneRequester
  PROVE  /\ Vmm \in NativeThreads /\ Vmm \in Clients /\ Vmm \notin VCpus
         /\ \A t \in NativeThreads : t = Vmm
         /\ VCpus \subseteq Clients /\ Clients = VCpus \cup {Vmm}
         /\ None \notin Clients /\ None \notin Buffers
  BY SlotsAssumption DEF OneRequester, Clients

-----------------------------------------------------------------------------
(* The queues and the parts they are of the ownership.                     *)
LEMMA TakeFromQueue ==
  ASSUME SharedTypes, QueuedOnce, NEW q \in Queues, queue[q] # <<>>,
         queue' = [queue EXCEPT ![q] = Tail(queue[q])]
  PROVE  /\ queue' \in [Queues -> Seq(Buffers)]
         /\ Head(queue[q]) \in Buffers /\ Head(queue[q]) \in ToSet(queue[q])
         /\ ToSet(queue'[q]) = ToSet(queue[q]) \ {Head(queue[q])}
         /\ \A r \in Queues \ {q} : queue'[r] = queue[r]
         /\ QueuedOnce'
  <1>1. /\ queue[q] \in Seq(Buffers) /\ queue'[q] = Tail(queue[q])
        /\ \A r \in Queues \ {q} : queue'[r] = queue[r]
        /\ \A i, j \in DOMAIN queue[q] : queue[q][i] = queue[q][j] => i = j
    BY DEF SharedTypes, QueuedOnce
  <1>2. /\ Tail(queue[q]) \in Seq(Buffers)
        /\ Head(queue[q]) \in Buffers /\ Head(queue[q]) \in ToSet(queue[q])
        /\ ToSet(Tail(queue[q])) = ToSet(queue[q]) \ {Head(queue[q])}
        /\ \A i, j \in DOMAIN Tail(queue[q]) : Tail(queue[q])[i] = Tail(queue[q])[j] => i = j
    BY <1>1, ToSetTail
  <1>3. queue' \in [Queues -> Seq(Buffers)]
    BY <1>2 DEF SharedTypes
  <1>4. QueuedOnce'
    BY <1>1, <1>2 DEF QueuedOnce
  <1> QED
    BY <1>1, <1>2, <1>3, <1>4

LEMMA PutInQueue ==
  ASSUME SharedTypes, QueuedOnce, NEW q \in Queues, NEW b \in Buffers, b \notin ToSet(queue[q]),
         queue' = [queue EXCEPT ![q] = Append(queue[q], b)]
  PROVE  /\ queue' \in [Queues -> Seq(Buffers)]
         /\ ToSet(queue'[q]) = ToSet(queue[q]) \cup {b}
         /\ \A r \in Queues \ {q} : queue'[r] = queue[r]
         /\ QueuedOnce'
  <1>1. /\ queue[q] \in Seq(Buffers) /\ queue'[q] = Append(queue[q], b)
        /\ \A r \in Queues \ {q} : queue'[r] = queue[r]
        /\ \A i, j \in DOMAIN queue[q] : queue[q][i] = queue[q][j] => i = j
    BY DEF SharedTypes, QueuedOnce
  <1>2. /\ Append(queue[q], b) \in Seq(Buffers)
        /\ ToSet(Append(queue[q], b)) = ToSet(queue[q]) \cup {b}
    BY <1>1, ToSetAppend
  <1>3. \A i, j \in DOMAIN Append(queue[q], b) :
            Append(queue[q], b)[i] = Append(queue[q], b)[j] => i = j
    BY <1>1, AppendOnce
  <1>4. queue' \in [Queues -> Seq(Buffers)]
    BY <1>2 DEF SharedTypes
  <1>5. QueuedOnce'
    BY <1>1, <1>3 DEF QueuedOnce
  <1> QED
    BY <1>1, <1>2, <1>4, <1>5

(* A step of the thread that does not touch its buffer leaves all where    *)
(* they are.                                                               *)
LEMMA PartsSame ==
  ASSUME UNCHANGED <<ntfn, km, user, queue>>,
         thread[Vmm].pc \notin {"fill", "enqueue"}, thread'[Vmm].pc \notin {"fill", "enqueue"}
  PROVE  Part' = Part /\ Acking' = Acking /\ Live' = Live
  <1>1. Part' = Part
    BY DEF Part
  <1>2. Acking' = Acking
    BY DEF Acking
  <1> QED
    BY <1>1, <1>2 DEF Live

LEMMA PartsUnchanged ==
  ASSUME UNCHANGED <<thread, ntfn, km, user, queue>>
  PROVE  Part' = Part /\ Acking' = Acking /\ Live' = Live
  <1>1. Part' = Part
    BY DEF Part
  <1>2. Acking' = Acking
    BY DEF Acking
  <1> QED
    BY <1>1, <1>2 DEF Live

(* No buffer changes hands, *)
LEMMA PartsStay ==
  ASSUME Ownership, queue' = queue, lent' = lent, Part' = Part
  PROVE  Ownership'
  BY DEF Ownership, QueuedOnce, PartsDisjoint, LentIsOwned

(* one is passed on, *)
LEMMA PartsMove ==
  ASSUME Ownership, QueuedOnce', lent' = lent,
         NEW from \in Places, NEW to \in Places, from # to,
         NEW b \in Buffers, b \in Part[from],
         Part'[from] = Part[from] \ {b}, Part'[to] = Part[to] \cup {b},
         \A p \in Places \ {from, to} : Part'[p] = Part[p]
  PROVE  Ownership'
  <1>1. \A p \in Places, a \in Buffers : a # b => (a \in Part'[p] <=> a \in Part[p])
    OBVIOUS
  <1>2. \A p \in Places : b \in Part'[p] => p = to
    BY DEF Ownership, PartsDisjoint
  <1>3. b \in lent /\ b \in Part'[to]
    BY DEF Ownership, LentIsOwned
  <1>4. PartsDisjoint'
    BY <1>1, <1>2 DEF Ownership, PartsDisjoint
  <1>5. LentIsOwned'
    BY <1>1, <1>3 DEF Ownership, LentIsOwned
  <1> QED
    BY <1>4, <1>5 DEF Ownership

(* one is lent, *)
LEMMA PartsGain ==
  ASSUME Ownership, queue' = queue, NEW to \in Places,
         NEW b \in Buffers, b \notin lent, lent' = lent \cup {b},
         Part'[to] = Part[to] \cup {b}, \A p \in Places \ {to} : Part'[p] = Part[p]
  PROVE  Ownership'
  <1>1. \A p \in Places, a \in Buffers : a # b => (a \in Part'[p] <=> a \in Part[p])
    OBVIOUS
  <1>2. \A p \in Places : b \in Part'[p] <=> p = to
    BY DEF Ownership, LentIsOwned
  <1>3. PartsDisjoint'
    BY <1>1, <1>2 DEF Ownership, PartsDisjoint
  <1>4. LentIsOwned'
    BY <1>1, <1>2 DEF Ownership, LentIsOwned
  <1>5. QueuedOnce'
    BY DEF Ownership, QueuedOnce
  <1> QED
    BY <1>3, <1>4, <1>5 DEF Ownership

(* or one is reclaimed. *)
LEMMA PartsLose ==
  ASSUME Ownership, queue' = queue, NEW from \in Places,
         NEW b \in Buffers, b \in Part[from], lent' = lent \ {b},
         Part'[from] = Part[from] \ {b}, \A p \in Places \ {from} : Part'[p] = Part[p]
  PROVE  Ownership'
  <1>1. \A p \in Places, a \in Buffers : a # b => (a \in Part'[p] <=> a \in Part[p])
    OBVIOUS
  <1>2. \A p \in Places : b \notin Part'[p]
    BY DEF Ownership, PartsDisjoint
  <1>3. PartsDisjoint'
    BY <1>1, <1>2 DEF Ownership, PartsDisjoint
  <1>4. LentIsOwned'
    BY <1>1, <1>2 DEF Ownership, LentIsOwned
  <1>5. QueuedOnce'
    BY DEF Ownership, QueuedOnce
  <1> QED
    BY <1>3, <1>4, <1>5 DEF Ownership

(* A message that is still to be answered has its own buffer. *)
LEMMA LiveFacts ==
  ASSUME Inv
  PROVE  /\ Live \subseteq Buffers
         /\ \A b \in Live : b \in lent
         /\ \A b \in Live : thread[Vmm].pc \in {"fill", "enqueue"} => b # thread[Vmm].id
         /\ \A b \in Live : ntfn.pc = "reclaim" => b # ntfn.id
  <1>1. \A q \in Queues : ToSet(queue[q]) \subseteq Buffers
    <2> SUFFICES ASSUME NEW q \in Queues PROVE ToSet(queue[q]) \subseteq Buffers
      OBVIOUS
    <2>1. queue[q] \in Seq(Buffers)
      BY DEF Inv, TypeOK, SharedTypes
    <2> QED
      BY <2>1 DEF ToSet
  <1>2. /\ Part.request \subseteq Buffers /\ Part.forward \subseteq Buffers
        /\ Part.response \subseteq Buffers
    BY <1>1 DEF Part, Queues
  <1>3. Part.user \subseteq Buffers /\ Part.km \subseteq Buffers /\ Part.ntfn \subseteq Buffers
    BY DEF Inv, TypeOK, ActorTypes, Part
  <1>4. Acking \subseteq Part.ntfn
    BY DEF Acking, Part, Inv, ActorShape
  <1>5. Live \subseteq Buffers
    BY <1>2, <1>3, <1>4 DEF Live
  <1>6. \A b \in Live : \E p \in Places \ {"thread"} : b \in Part[p]
    BY <1>4 DEF Live, Places
  <1>7. \A b \in Live : b \in lent
    BY <1>5, <1>6 DEF Inv, Ownership, LentIsOwned
  <1>8. ASSUME NEW b \in Live, thread[Vmm].pc \in {"fill", "enqueue"} PROVE b # thread[Vmm].id
    <2>1. thread[Vmm].id \in Part["thread"] /\ "thread" \in Places
      BY <1>8 DEF Part, Places
    <2> QED
      BY <2>1, <1>5, <1>6 DEF Inv, Ownership, PartsDisjoint
  <1>9. ASSUME NEW b \in Live, ntfn.pc = "reclaim" PROVE b # ntfn.id
    <2>1. ntfn.id \in Part["ntfn"] /\ "ntfn" \in Places
      BY <1>9 DEF Part, Places, Inv, ActorShape
    <2>2. \E p \in Places \ {"thread", "ntfn"} : b \in Part[p]
      BY <1>9 DEF Live, Places, Acking
    <2> QED
      BY <2>1, <2>2, <1>5 DEF Inv, Ownership, PartsDisjoint
  <1> QED
    BY <1>5, <1>7, <1>8, <1>9

(* The messages in flight, and all that their invariant is about, stay. *)
LEMMA MessagesFrame ==
  ASSUME Messages, Live' \subseteq Live, token' = token,
         \A b \in Live' : buffer'[b] = buffer[b],
         \A b \in Live' : ioacks'[buffer[b].slot] = ioacks[buffer[b].slot],
         \A c \in Clients : SlotOf(c)' = SlotOf(c),
         \A b \in Live' : \A c \in Clients :
             c = ioacks[buffer[b].slot] /\ Waits(c) => Waits(c)',
         \A b \in Live' : b \in Part'.response \cup Acking' => b \in Part.response \cup Acking,
         \A b \in Live' : ~(ntfn'.pc = "clear" /\ ntfn'.slot = buffer[b].slot)
  PROVE  Messages'
  <1>1. ASSUME NEW b \in Live' PROVE LiveMessage(b)'
    <2>1. LiveMessage(b)
      BY <1>1 DEF Messages
    <2>2. PICK c \in Clients : c = ioacks[buffer[b].slot]
      BY <2>1 DEF LiveMessage
    <2>3. Waits(c)' /\ SlotOf(c)' = SlotOf(c) /\ ioacks'[buffer'[b].slot] = c
      BY <1>1, <2>1, <2>2 DEF LiveMessage
    <2> QED
      BY <1>1, <2>1, <2>2, <2>3 DEF LiveMessage
  <1> QED
    BY <1>1 DEF Messages

(* The thread moves on and the messages stay as they are. *)
LEMMA MessagesStay ==
  ASSUME Messages, Live' = Live, Part' = Part, UNCHANGED <<ntfn, token, ioacks>>,
         \A b \in Live : buffer'[b] = buffer[b],
         \A c \in Clients : SlotOf(c)' = SlotOf(c) /\ (Waits(c) => Waits(c)')
  PROVE  Messages'
  <1>1. Acking' = Acking
    BY DEF Acking
  <1>2. \A b \in Live : ~(ntfn.pc = "clear" /\ ntfn.slot = buffer[b].slot)
    BY DEF Messages, LiveMessage
  <1> QED
    BY <1>1, <1>2, MessagesFrame

-----------------------------------------------------------------------------
(* The guest and the requesting thread.                                    *)
USE DEF deviceVars

LEMMA FaultInv ==
  ASSUME OneRequester, Inv, NEW v \in VCpus, Fault(v)
  PROVE  Inv'
  <1> USE VmmFacts DEF Inv, Fault, sharedVars, actorVars
  <1>1. TypeOK'
    <2>1. ClientTypes'
      BY DEF TypeOK, ClientTypes
    <2> QED
      BY <2>1, ThreadSame, SharedSame, ActorSame DEF TypeOK
  <1>2. NativeSlot' /\ ThreadShape' /\ ActorShape'
    BY DEF NativeSlot, ThreadShape, ActorShape, SlotOf
  <1>3. Part' = Part /\ Acking' = Acking /\ Live' = Live
    BY DEF Part, Acking, Live
  <1>4. Ownership'
    BY <1>3, PartsStay
  <1>5. Messages'
    BY <1>3 DEF Messages, LiveMessage, Waits, SlotOf, TypeOK, ClientTypes
  <1>6. Request'
    BY <1>3 DEF Request, TypeOK, ClientTypes
  <1>7. Handoff' /\ VCpuValue'
    BY DEF Handoff, LeftBehind, SlotOf, VCpuValue, TypeOK, ClientTypes
  <1> QED
    BY <1>1, <1>2, <1>4, <1>5, <1>6, <1>7

LEMMA mmio_fault_handlerInv ==
  ASSUME OneRequester, Inv, NEW v \in VCpus, mmio_fault_handler(v)
  PROVE  Inv'
  <1> USE VmmFacts DEF Inv, mmio_fault_handler, sharedVars, actorVars
  <1>1. TypeOK'
    <2>1. v \in Slots /\ v \in Clients
      BY SlotsAssumption
    <2>2. thread[Vmm] \in ThreadState
      BY DEF TypeOK, ThreadTypes
    <2>3. [thread[Vmm] EXCEPT !.pc = "check", !.job = v, !.slot = v] \in ThreadState
      BY <2>1, <2>2 DEF ThreadState, Pcs
    <2>4. ThreadTypes'
      BY <2>3 DEF TypeOK, ThreadTypes
    <2>5. ClientTypes'
      BY DEF TypeOK, ClientTypes
    <2> QED
      BY <2>4, <2>5, SharedSame, ActorSame DEF TypeOK
  <1>2. NativeSlot' /\ ThreadShape' /\ ActorShape'
    BY SlotsAssumption DEF At, TypeOK, ThreadTypes, ThreadState, NativeSlot, ThreadShape,
       ActorShape, Starting, Registered, SlotOf
  <1>3. Part' = Part /\ Acking' = Acking /\ Live' = Live
    <2>1. thread[Vmm].pc = "idle" /\ thread'[Vmm].pc \in {"check"}
      BY DEF At, TypeOK, ThreadTypes, ThreadState
    <2> QED
      BY <2>1, PartsSame
  <1>4. Ownership'
    BY <1>3, PartsStay
  <1>5. Messages'
    BY <1>3 DEF Messages, LiveMessage, Waits, SlotOf, At, TypeOK, ThreadTypes, ThreadState,
       ClientTypes
  <1>6. Request'
    BY <1>3, SlotsAssumption DEF Request, Starting, Registered, At, TypeOK, ThreadTypes,
       ThreadState, ClientTypes, Messages, LiveMessage, Waits, SlotOf, ThreadShape, NativeSlot
  <1>7. Handoff' /\ VCpuValue'
    BY DEF Handoff, LeftBehind, SlotOf, VCpuValue, At, TypeOK, ThreadTypes, ThreadState,
       ClientTypes
  <1> QED
    BY <1>1, <1>2, <1>4, <1>5, <1>6, <1>7

LEMMA ioreq_nativeInv ==
  ASSUME OneRequester, Inv, ioreq_native(Vmm)
  PROVE  Inv'
  <1> USE VmmFacts DEF Inv, ioreq_native, sharedVars, actorVars, clientVars
  <1>1. TypeOK'
    <2>1. thread[Vmm] \in ThreadState
      BY DEF TypeOK, ThreadTypes
    <2>2. [thread[Vmm] EXCEPT !.job = Vmm, !.slot = thread[Vmm].nativeSlot,
             !.pc = IF thread[Vmm].nativeSlot = 0 THEN "alloc" ELSE "check"] \in ThreadState
      BY <2>1 DEF ThreadState, Pcs
    <2>3. ThreadTypes'
      BY <2>2 DEF TypeOK, ThreadTypes
    <2> QED
      BY <2>3, SharedSame, ActorSame, ClientSame DEF TypeOK
  <1>2. NativeSlot' /\ ThreadShape' /\ ActorShape'
    BY SlotsAssumption DEF At, TypeOK, ThreadTypes, ThreadState, NativeSlot, ThreadShape,
       ActorShape, Starting, Registered, SlotOf
  <1>3. Part' = Part /\ Acking' = Acking /\ Live' = Live
    <2>1. thread[Vmm].pc = "idle" /\ thread'[Vmm].pc \in {"alloc", "check"}
      BY DEF At, TypeOK, ThreadTypes, ThreadState
    <2> QED
      BY <2>1, PartsSame
  <1>4. Ownership'
    BY <1>3, PartsStay
  <1>5. Messages'
    BY <1>3 DEF Messages, LiveMessage, Waits, SlotOf, At, TypeOK, ThreadTypes, ThreadState
  <1>6. Request'
    BY <1>3, SlotsAssumption DEF Request, Starting, Registered, At, TypeOK, ThreadTypes,
       ThreadState, Messages, LiveMessage, Waits, SlotOf, ThreadShape, NativeSlot
  <1>7. Handoff' /\ VCpuValue'
    BY DEF Handoff, LeftBehind, SlotOf, VCpuValue, At, TypeOK, ThreadTypes, ThreadState
  <1> QED
    BY <1>1, <1>2, <1>4, <1>5, <1>6, <1>7

LEMMA LoadFreeSlotInv ==
  ASSUME OneRequester, Inv, LoadFreeSlot(Vmm)
  PROVE  Inv'
  <1> USE VmmFacts DEF Inv, LoadFreeSlot, sharedVars, actorVars, clientVars
  <1>1. TypeOK'
    <2>1. thread[Vmm] \in ThreadState
      BY DEF TypeOK, ThreadTypes
    <2>2. ThreadTypes'
      <3>1. CASE freeSlot \in Slots
        <4>1. [thread[Vmm] EXCEPT !.pc = "allocated", !.slot = freeSlot] \in ThreadState
          BY <2>1, <3>1 DEF ThreadState, Pcs
        <4> QED
          BY <3>1, <4>1 DEF TypeOK, ThreadTypes
      <3>2. CASE freeSlot \notin Slots
        BY <3>2, FinishType DEF TypeOK
      <3> QED
        BY <3>1, <3>2
    <2> QED
      BY <2>2, SharedSame, ActorSame, ClientSame DEF TypeOK
  <1>2. NativeSlot' /\ ThreadShape' /\ ActorShape'
    BY SlotsAssumption DEF At, Finish, Idle, TypeOK, ThreadTypes, ThreadState, NativeSlot,
       ThreadShape, ActorShape, Starting, Registered, SlotOf
  <1>3. Part' = Part /\ Acking' = Acking /\ Live' = Live
    <2>1. thread[Vmm].pc = "alloc" /\ thread'[Vmm].pc \in {"allocated", "idle"}
      BY DEF At, Finish, Idle, TypeOK, ThreadTypes, ThreadState
    <2> QED
      BY <2>1, PartsSame
  <1>4. Ownership'
    BY <1>3, PartsStay
  <1>5. Messages'
    BY <1>3 DEF Messages, LiveMessage, Waits, SlotOf, At, Finish, Idle, TypeOK, ThreadTypes,
       ThreadState
  <1>6. Request'
    BY DEF Request, Starting, Registered, At, Finish, Idle, TypeOK, ThreadTypes, ThreadState
  <1>7. Handoff' /\ VCpuValue'
    BY DEF Handoff, LeftBehind, SlotOf, VCpuValue, At, Finish, Idle, TypeOK, ThreadTypes,
       ThreadState
  <1> QED
    BY <1>1, <1>2, <1>4, <1>5, <1>6, <1>7

LEMMA StoreFreeSlotInv ==
  ASSUME OneRequester, Inv, StoreFreeSlot(Vmm)
  PROVE  Inv'
  <1> USE VmmFacts DEF Inv, StoreFreeSlot, sharedVars, actorVars, clientVars
  <1>1. TypeOK'
    <2>1. thread[Vmm] \in ThreadState /\ thread[Vmm].slot \in Slots /\ freeSlot' \in Nat
      BY SlotsAssumption DEF At, TypeOK, ThreadTypes, ThreadShape
    <2>2. [thread[Vmm] EXCEPT !.pc = "check", !.nativeSlot = thread[Vmm].slot] \in ThreadState
      BY <2>1 DEF ThreadState, Pcs
    <2>3. ThreadTypes'
      BY <2>1, <2>2 DEF TypeOK, ThreadTypes
    <2> QED
      BY <2>3, SharedSame, ActorSame, ClientSame DEF TypeOK
  <1>2. NativeSlot' /\ ThreadShape' /\ ActorShape'
    BY SlotsAssumption DEF At, TypeOK, ThreadTypes, ThreadState, NativeSlot, ThreadShape,
       ActorShape, Starting, Registered, SlotOf
  <1>3. Part' = Part /\ Acking' = Acking /\ Live' = Live
    BY DEF At, TypeOK, ThreadTypes, ThreadState, Part, Acking, Live
  <1>4. Ownership'
    BY <1>3, PartsStay
  <1>5. Messages'
    BY <1>3 DEF Messages, LiveMessage, Waits, SlotOf, At, TypeOK, ThreadTypes, ThreadState
  <1>6. Request'
    BY <1>3, SlotsAssumption DEF Request, Starting, Registered, At, TypeOK, ThreadTypes,
       ThreadState, Messages, LiveMessage, Waits, SlotOf, ThreadShape, NativeSlot
  <1>7. Handoff' /\ VCpuValue'
    BY DEF Handoff, LeftBehind, SlotOf, VCpuValue, At, TypeOK, ThreadTypes, ThreadState
  <1> QED
    BY <1>1, <1>2, <1>4, <1>5, <1>6, <1>7

LEMMA SlotIsFreeInv ==
  ASSUME OneRequester, Inv, SlotIsFree(Vmm)
  PROVE  Inv'
  <1> USE VmmFacts DEF Inv, SlotIsFree, sharedVars, actorVars, clientVars
  <1>1. TypeOK'
    <2>1. "register" \in Pcs
      BY DEF Pcs
    <2> QED
      BY <2>1, GotoType, SharedSame, ActorSame, ClientSame DEF TypeOK
  <1>2. NativeSlot' /\ ThreadShape' /\ ActorShape'
    BY DEF At, Goto, TypeOK, ThreadTypes, ThreadState, NativeSlot, ThreadShape, ActorShape,
       Starting, Registered, SlotOf
  <1>3. Part' = Part /\ Acking' = Acking /\ Live' = Live
    BY DEF At, Goto, TypeOK, ThreadTypes, ThreadState, Part, Acking, Live
  <1>4. Ownership'
    BY <1>3, PartsStay
  <1>5. Messages'
    BY <1>3 DEF Messages, LiveMessage, Waits, SlotOf, At, Goto, TypeOK, ThreadTypes, ThreadState
  <1>6. Request'
    BY <1>3 DEF Request, Starting, Registered, At, Goto, TypeOK, ThreadTypes, ThreadState
  <1>7. Handoff' /\ VCpuValue'
    BY DEF Handoff, LeftBehind, SlotOf, VCpuValue, At, Goto, TypeOK, ThreadTypes, ThreadState
  <1> QED
    BY <1>1, <1>2, <1>4, <1>5, <1>6, <1>7

LEMMA FlipType == \A x \in {0, 1} : 1 - x \in {0, 1}
  OBVIOUS

LEMMA RegisterCallbackInv ==
  ASSUME OneRequester, Inv, RegisterCallback(Vmm)
  PROVE  Inv'
  <1> USE VmmFacts DEF Inv, RegisterCallback, actorVars
  <1> DEFINE s == thread[Vmm].slot
             j == thread[Vmm].job
  <1>1. /\ thread[Vmm].pc = "register" /\ thread[Vmm] \in ThreadState
        /\ s \in Slots /\ j \in Clients /\ s = SlotOf(j)
        /\ ioacks[s] = None /\ ioacks' = [ioacks EXCEPT ![s] = j]
        /\ token' = [token EXCEPT ![j] = 1 - token[j]]
        /\ ioacks \in [Slots -> Clients \cup {None}] /\ token \in [Clients -> {0, 1}]
    BY DEF At, TypeOK, ThreadTypes, SharedTypes, ClientTypes, ThreadShape, Request, Starting
  <1>2. /\ thread'[Vmm] = [thread[Vmm] EXCEPT !.pc = "find"]
        /\ thread'[Vmm].pc = "find" /\ thread'[Vmm].job = j /\ thread'[Vmm].slot = s
        /\ thread'[Vmm].nativeSlot = thread[Vmm].nativeSlot /\ thread'[Vmm].id = thread[Vmm].id
    <2> HIDE DEF Inv, RegisterCallback
    <2>1. ThreadTypes /\ Goto(Vmm, "find")
      BY DEF Inv, TypeOK, RegisterCallback
    <2> QED
      BY <2>1, GotoFields
  <1>3. TypeOK'
    <2>1. "find" \in Pcs
      BY DEF Pcs
    <2>2. ThreadTypes'
      BY <2>1, GotoType DEF TypeOK
    <2>3. SharedTypes'
      BY <1>1 DEF TypeOK, SharedTypes
    <2>4. ClientTypes'
      <3>1. token[j] \in {0, 1}
        BY <1>1
      <3>2. 1 - token[j] \in {0, 1}
        BY <3>1, FlipType, Zenon
      <3> HIDE DEF Inv, RegisterCallback, j
      <3>3. token' \in [Clients -> {0, 1}]
        BY <3>2, <1>1
      <3>4. UNCHANGED <<handoff, vcpu, value>>
        BY DEF RegisterCallback
      <3> QED
        BY <3>3, <3>4 DEF Inv, TypeOK, ClientTypes
    <2> QED
      BY <2>2, <2>3, <2>4, ActorSame DEF TypeOK
  <1>4. NativeSlot' /\ ThreadShape'
    <2>1. NativeSlot /\ ThreadShape /\ UNCHANGED <<freeSlot, lent>>
      OBVIOUS
    <2> HIDE DEF Inv, RegisterCallback
    <2>2. NativeSlot'
      BY <2>1, <1>2 DEF NativeSlot
    <2>3. j = Vmm => thread[Vmm].nativeSlot # 0
      BY <2>1, <1>1 DEF ThreadShape, Starting
    <2>4. \A c \in Clients : SlotOf(c)' = SlotOf(c)
      BY <1>2 DEF SlotOf
    <2>5. ThreadShape'
      BY <1>1, <1>2, <2>3, <2>4 DEF ThreadShape
    <2> QED
      BY <2>2, <2>5
  <1>5. ActorShape'
    BY <1>1 DEF ActorShape
  <1>6. Part' = Part /\ Acking' = Acking /\ Live' = Live
    BY <1>1, <1>2, PartsSame
  <1>7. Ownership'
    BY <1>6, PartsStay
  <1>8. Messages'
    <2>1. ASSUME NEW b \in Live PROVE LiveMessage(b)'
      <3>1. LiveMessage(b) /\ buffer[b].slot # s
        BY <1>1 DEF Messages, Request, Starting
      <3>2. ioacks'[buffer[b].slot] = ioacks[buffer[b].slot] /\ ioacks[buffer[b].slot] # j
        BY <3>1, <1>1 DEF LiveMessage, Message
      <3>3. token'[ioacks[buffer[b].slot]] = token[ioacks[buffer[b].slot]]
        <4>1. ioacks[buffer[b].slot] \in Clients
          BY <3>1 DEF LiveMessage
        <4> HIDE DEF Inv, RegisterCallback, j
        <4> QED
          BY <3>2, <4>1, <1>1
      <3>4. \A c \in Clients : SlotOf(c)' = SlotOf(c) /\ (Waits(c) => Waits(c)')
        BY <1>1, <1>2 DEF SlotOf, Waits
      <3> QED
        BY <3>1, <3>2, <3>3, <3>4, <1>6 DEF LiveMessage
    <2> QED
      BY <2>1, <1>6 DEF Messages
  <1>9. Request'
    <2>1. Request /\ ActorShape /\ UNCHANGED <<vcpu, buffer, ntfn>>
      OBVIOUS
    <2> HIDE DEF Inv, RegisterCallback
    <2>2. /\ j \in VCpus => vcpu[j] = "waiting"
          /\ \A b \in Live : buffer[b].slot # s
      BY <1>1, <2>1 DEF Request, Starting
    <2>3. ioacks'[s] = j /\ ~(ntfn.pc = "clear" /\ ntfn.slot = s)
      BY <1>1, <2>1 DEF ActorShape
    <2> QED
      BY <1>2, <1>6, <2>1, <2>2, <2>3 DEF Request
  <1>10. Handoff'
    BY <1>1, <1>2 DEF Handoff
  <1>11. VCpuValue'
    <2>1. j \in VCpus => vcpu[j] = "waiting"
      BY <1>1 DEF Request, Starting
    <2>2. \A v \in VCpus : v # j => token'[v] = token[v]
      BY <1>1
    <2> QED
      BY <2>1, <2>2 DEF VCpuValue
  <1> QED
    BY <1>3, <1>4, <1>5, <1>7, <1>8, <1>9, <1>10, <1>11

LEMMA FindBufferInv ==
  ASSUME OneRequester, Inv, FindBuffer(Vmm)
  PROVE  Inv'
  <1> USE VmmFacts DEF Inv, FindBuffer, sharedVars, actorVars, clientVars
  <1>1. TypeOK'
    <2>1. PICK b \in Buffers \ lent : thread' = [thread EXCEPT ![Vmm].pc = "lend", ![Vmm].id = b]
      OBVIOUS
    <2>2. thread[Vmm] \in ThreadState
      BY DEF TypeOK, ThreadTypes
    <2>3. [thread[Vmm] EXCEPT !.pc = "lend", !.id = b] \in ThreadState
      BY <2>2 DEF ThreadState, Pcs
    <2>4. ThreadTypes'
      BY <2>1, <2>3 DEF TypeOK, ThreadTypes
    <2> QED
      BY <2>4, SharedSame, ActorSame, ClientSame DEF TypeOK
  <1>2. NativeSlot' /\ ThreadShape' /\ ActorShape'
    BY DEF At, TypeOK, ThreadTypes, ThreadState, NativeSlot, ThreadShape, ActorShape,
       Starting, Registered, SlotOf
  <1>3. Part' = Part /\ Acking' = Acking /\ Live' = Live
    BY DEF At, TypeOK, ThreadTypes, ThreadState, Part, Acking, Live
  <1>4. Ownership'
    BY <1>3, PartsStay
  <1>5. Messages'
    BY <1>3 DEF Messages, LiveMessage, Waits, SlotOf, At, TypeOK, ThreadTypes, ThreadState
  <1>6. Request'
    BY <1>3 DEF Request, Starting, Registered, At, TypeOK, ThreadTypes, ThreadState
  <1>7. Handoff' /\ VCpuValue'
    BY DEF Handoff, LeftBehind, SlotOf, VCpuValue, At, TypeOK, ThreadTypes, ThreadState
  <1> QED
    BY <1>1, <1>2, <1>4, <1>5, <1>6, <1>7

LEMMA LendBufferInv ==
  ASSUME OneRequester, Inv, LendBuffer(Vmm)
  PROVE  Inv'
  <1> USE VmmFacts DEF Inv, LendBuffer, actorVars, clientVars
  <1>1. /\ thread[Vmm].pc = "lend" /\ thread[Vmm].id \in Buffers /\ thread[Vmm].id \notin lent
        /\ thread'[Vmm].pc = "fill" /\ thread'[Vmm].id = thread[Vmm].id
    BY DEF At, Goto, TypeOK, ThreadTypes, ThreadState, ThreadShape
  <1>2. TypeOK'
    <2>1. "fill" \in Pcs
      BY DEF Pcs
    <2>2. SharedTypes'
      BY <1>1 DEF TypeOK, SharedTypes
    <2> QED
      BY <2>1, <2>2, GotoType, ActorSame, ClientSame DEF TypeOK
  <1>3. NativeSlot' /\ ThreadShape' /\ ActorShape'
    BY DEF At, Goto, TypeOK, ThreadTypes, ThreadState, NativeSlot, ThreadShape, ActorShape,
       Starting, Registered, SlotOf
  <1>4. /\ Part'["thread"] = Part["thread"] \cup {thread[Vmm].id}
        /\ \A p \in Places \ {"thread"} : Part'[p] = Part[p]
        /\ "thread" \in Places
    <2>1. /\ Part'.request = Part.request /\ Part'.km = Part.km /\ Part'.forward = Part.forward
          /\ Part'.user = Part.user /\ Part'.response = Part.response /\ Part'.ntfn = Part.ntfn
      BY DEF Part
    <2>2. Part'.thread = Part.thread \cup {thread[Vmm].id}
      BY <1>1 DEF Part
    <2> QED
      BY <2>1, <2>2 DEF Places
  <1>5. Acking' = Acking /\ Live' = Live
    BY <1>4 DEF Acking, Live, Places
  <1>6. Ownership'
    BY <1>1, <1>4, PartsGain
  <1>7. Messages'
    BY <1>4, <1>5 DEF Messages, LiveMessage, Waits, SlotOf, At, Goto, TypeOK, ThreadTypes,
       ThreadState, Places
  <1>8. Request'
    BY <1>5 DEF Request, Starting, Registered, At, Goto, TypeOK, ThreadTypes, ThreadState
  <1>9. Handoff' /\ VCpuValue'
    BY DEF Handoff, LeftBehind, SlotOf, VCpuValue, At, Goto, TypeOK, ThreadTypes, ThreadState
  <1> QED
    BY <1>2, <1>3, <1>6, <1>7, <1>8, <1>9

LEMMA FillMessageInv ==
  ASSUME OneRequester, Inv, FillMessage(Vmm)
  PROVE  Inv'
  <1> USE VmmFacts DEF Inv, FillMessage, actorVars, clientVars
  <1> DEFINE t == thread[Vmm]
             m == [slot |-> t.slot, req |-> token[t.job], data |-> None]
  <1>1. /\ t.pc = "fill" /\ t.id \in Buffers /\ t.job \in Clients /\ t.slot \in Slots
        /\ t \in ThreadState
    BY DEF At, TypeOK, ThreadTypes, ThreadShape, Starting, Registered
  <1>2. /\ thread'[Vmm].pc = "enqueue" /\ thread'[Vmm].job = t.job /\ thread'[Vmm].slot = t.slot
        /\ thread'[Vmm].nativeSlot = t.nativeSlot /\ thread'[Vmm].id = t.id
    BY <1>1 DEF Goto, TypeOK, ThreadTypes, ThreadState
  <1>3. /\ buffer'[t.id] = m
        /\ \A b \in Buffers \ {t.id} : buffer'[b] = buffer[b]
    BY <1>1 DEF TypeOK, SharedTypes
  <1>4. TypeOK'
    <2>1. "enqueue" \in Pcs
      BY DEF Pcs
    <2>2. m \in Message
      BY <1>1 DEF Message, TypeOK, ClientTypes
    <2>3. buffer' \in [Buffers -> {None} \cup Message]
      BY <2>2, <1>1 DEF TypeOK, SharedTypes
    <2>4. SharedTypes'
      BY <2>3 DEF TypeOK, SharedTypes
    <2> QED
      BY <2>1, <2>4, GotoType, ActorSame, ClientSame DEF TypeOK
  <1>5. NativeSlot' /\ ThreadShape'
    BY <1>1, <1>2 DEF NativeSlot, ThreadShape, Starting, Registered, SlotOf
  <1>6. Part' = Part /\ Acking' = Acking /\ Live' = Live
    BY <1>1, <1>2 DEF Part, Acking, Live
  <1>7. \A b \in Live : buffer'[b] = buffer[b]
    BY <1>1, <1>3, LiveFacts
  <1>8. ActorShape'
    <2>1. ntfn.pc = "ack" => ntfn.id \in Live
      BY DEF Live, Acking
    <2> QED
      BY <2>1, <1>7 DEF ActorShape
  <1>9. Ownership'
    BY <1>6, PartsStay
  <1>10. Messages'
    <2>1. \A c \in Clients : SlotOf(c)' = SlotOf(c) /\ (Waits(c) => Waits(c)')
      BY <1>1, <1>2 DEF SlotOf, Waits
    <2> QED
      BY <2>1, <1>6, <1>7, MessagesStay
  <1>11. Request'
    BY <1>1, <1>2, <1>3, <1>6, <1>7 DEF Request, Starting, Registered
  <1>12. Handoff' /\ VCpuValue'
    BY <1>1, <1>2 DEF Handoff, VCpuValue
  <1> QED
    BY <1>4, <1>5, <1>8, <1>9, <1>10, <1>11, <1>12

LEMMA SendRequestInv ==
  ASSUME OneRequester, Inv, SendRequest(Vmm)
  PROVE  Inv'
  <1> USE VmmFacts DEF Inv, SendRequest, actorVars, clientVars
  <1> DEFINE t == thread[Vmm]
  <1>1. /\ t.pc = "enqueue" /\ t.id \in Buffers /\ t.job \in Clients /\ t.slot \in Slots
        /\ t \in ThreadState /\ t.slot = SlotOf(t.job)
        /\ buffer[t.id] = [slot |-> t.slot, req |-> token[t.job], data |-> None]
        /\ ioacks[t.slot] = t.job /\ ~(ntfn.pc = "clear" /\ ntfn.slot = t.slot)
        /\ \A b \in Live : buffer[b].slot # t.slot
    BY DEF At, TypeOK, ThreadTypes, ThreadShape, Request, Starting, Registered
  <1>0. buffer[t.id] \in Message /\ buffer[t.id].slot = t.slot /\ buffer[t.id].req = token[t.job]
    <2> HIDE DEF Inv, SendRequest
    <2>1. token[t.job] \in {0, 1}
      BY <1>1 DEF Inv, TypeOK, ClientTypes
    <2>2. [slot |-> t.slot, req |-> token[t.job], data |-> None] \in Message
      BY <1>1, <2>1 DEF Message
    <2> HIDE DEF t
    <2> QED
      BY <1>1, <2>2
  <1>2. /\ thread'[Vmm].pc = "ring" /\ thread'[Vmm].job = t.job /\ thread'[Vmm].slot = t.slot
        /\ thread'[Vmm].nativeSlot = t.nativeSlot /\ thread'[Vmm].id = None
    BY <1>1 DEF TypeOK, ThreadTypes, ThreadState
  <1>3. t.id \notin Live /\ t.id \in Part["thread"] /\ t.id \notin Part["request"]
    <2>1. t.id \notin Live
      BY <1>1, LiveFacts
    <2> QED
      BY <2>1, <1>1 DEF Live, Part
  <1>4. /\ queue' \in [Queues -> Seq(Buffers)]
        /\ ToSet(queue'["request"]) = ToSet(queue["request"]) \cup {t.id}
        /\ \A r \in Queues \ {"request"} : queue'[r] = queue[r]
        /\ QueuedOnce'
    <2>1. t.id \notin ToSet(queue["request"]) /\ "request" \in Queues
      BY <1>3 DEF Part, Queues
    <2>2. queue' = [queue EXCEPT !["request"] = Append(queue["request"], t.id)]
      OBVIOUS
    <2> QED
      BY <1>1, <2>1, <2>2, PutInQueue DEF TypeOK, Ownership
  <1>5. TypeOK'
    <2>1. [t EXCEPT !.pc = "ring", !.id = None] \in ThreadState
      BY <1>1 DEF ThreadState, Pcs
    <2>2. ThreadTypes'
      BY <2>1 DEF TypeOK, ThreadTypes
    <2>3. SharedTypes'
      BY <1>4 DEF TypeOK, SharedTypes
    <2> QED
      BY <2>2, <2>3, ActorSame, ClientSame DEF TypeOK
  <1>6. NativeSlot' /\ ThreadShape'
    BY <1>1, <1>2 DEF NativeSlot, ThreadShape, Starting, Registered, SlotOf
  <1>7. ActorShape'
    BY DEF ActorShape
  <1>8. /\ Part'["thread"] = Part["thread"] \ {t.id}
        /\ Part'["request"] = Part["request"] \cup {t.id}
        /\ \A p \in Places \ {"thread", "request"} : Part'[p] = Part[p]
        /\ "thread" \in Places /\ "request" \in Places
    <2>1. /\ Part'.km = Part.km /\ Part'.forward = Part.forward
          /\ Part'.user = Part.user /\ Part'.response = Part.response /\ Part'.ntfn = Part.ntfn
      BY <1>4 DEF Part, Queues
    <2>2. Part'.thread = Part.thread \ {t.id}
      BY <1>1, <1>2 DEF Part
    <2>3. Part'.request = Part.request \cup {t.id}
      BY <1>4 DEF Part
    <2> QED
      BY <2>1, <2>2, <2>3 DEF Places
  <1>9. Ownership'
    BY <1>1, <1>3, <1>4, <1>8, PartsMove
  <1>10. Acking' = Acking /\ Live' = Live \cup {t.id}
    <2>1. Acking' = Acking
      BY DEF Acking
    <2> HIDE DEF Inv, t
    <2>2. /\ Part'["km"] = Part["km"] /\ Part'["forward"] = Part["forward"]
          /\ Part'["user"] = Part["user"] /\ Part'["response"] = Part["response"]
      BY <1>8 DEF Places
    <2> QED
      BY <1>8, <2>1, <2>2 DEF Live
  <1>11. Messages'
    <2>1. \A c \in Clients : SlotOf(c)' = SlotOf(c)
      BY <1>2 DEF SlotOf
    <2>2. \A c \in Clients : c = t.job \/ Waits(c) => Waits(c)'
      <3>1. t.job \in VCpus => vcpu[t.job] = "waiting"
        BY <1>1 DEF Request, Starting, Registered
      <3>2. handoff[Vmm] = 0
        BY <1>1 DEF Handoff, TypeOK, ClientTypes
      <3>3. \A v \in VCpus : v = t.job \/ Waits(v) => Waits(v)'
        BY <3>1 DEF Waits
      <3>4. Vmm = t.job \/ Waits(Vmm) => Waits(Vmm)'
        BY <1>1, <1>2, <3>2 DEF Waits
      <3> QED
        BY <3>3, <3>4
    <2>3. ASSUME NEW b \in Buffers, b = t.id PROVE LiveMessage(b)'
      <3>1. b \notin Part'["response"] /\ b \notin Acking'
        BY <1>3, <1>8, <1>10, <2>3 DEF Live, Places
      <3>2. PICK c \in Clients : c = t.job
        BY <1>1
      <3>3. /\ ioacks'[buffer'[b].slot] = c /\ buffer'[b] \in Message /\ buffer'[b].slot = t.slot
            /\ buffer'[b].req = token'[c]
        BY <1>0, <1>1, <2>3, <3>2
      <3>4. SlotOf(c)' = t.slot /\ Waits(c)'
        BY <1>1, <1>2, <2>1, <2>2, <3>2
      <3>5. ~(ntfn'.pc = "clear" /\ ntfn'.slot = t.slot)
        BY <1>1
      <3> HIDE DEF Inv, SendRequest, t
      <3> QED
        BY <3>1, <3>3, <3>4, <3>5 DEF LiveMessage
    <2>4. ASSUME NEW b \in Live PROVE LiveMessage(b)'
      <3>1. LiveMessage(b)
        BY DEF Messages
      <3>2. Part'["response"] = Part["response"]
        BY <1>8 DEF Places
      <3> QED
        BY <1>10, <2>1, <2>2, <3>1, <3>2 DEF LiveMessage
    <2>5. \A b \in Live : buffer[b].slot # buffer[t.id].slot
      BY <1>0, <1>1
    <2>6. \A b \in Live' : LiveMessage(b)'
      BY <1>1, <1>10, <2>3, <2>4
    <2>7. \A a, b \in Live' : buffer'[a].slot = buffer'[b].slot => a = b
      BY <1>10, <2>5 DEF Messages
    <2> HIDE DEF Inv, SendRequest
    <2> QED
      BY <2>6, <2>7 DEF Messages
  <1>12. Request'
    BY <1>2 DEF Request, Starting, Registered
  <1>13. Handoff' /\ VCpuValue'
    BY <1>1, <1>2 DEF Handoff, VCpuValue
  <1> QED
    BY <1>5, <1>6, <1>7, <1>9, <1>11, <1>12, <1>13

LEMMA RequestRefusedInv ==
  ASSUME OneRequester, Inv, RequestRefused(Vmm)
  PROVE  Inv'
  <1> USE VmmFacts DEF Inv, RequestRefused, Reclaim, actorVars
  <1> DEFINE t == thread[Vmm]
  <1>1. /\ t.pc = "enqueue" /\ t.id \in Buffers /\ t.job \in Clients /\ t.slot \in Slots
        /\ t \in ThreadState /\ t.slot = SlotOf(t.job)
        /\ ioacks[t.slot] = t.job
        /\ \A b \in Live : buffer[b].slot # t.slot
    BY DEF At, TypeOK, ThreadTypes, ThreadShape, Request, Starting, Registered
  <1>2. /\ thread'[Vmm].pc = "idle" /\ thread'[Vmm].job = None
        /\ thread'[Vmm].nativeSlot = t.nativeSlot /\ thread'[Vmm].id = None
    BY <1>1 DEF Finish, Idle, TypeOK, ThreadTypes
  <1>3. \A b \in Buffers \ {t.id} : buffer'[b] = buffer[b]
    BY DEF TypeOK, SharedTypes
  <1>4. TypeOK'
    <2>1. SharedTypes'
      <3>1. buffer' \in [Buffers -> {None} \cup Message]
        BY DEF TypeOK, SharedTypes
      <3> QED
        BY <3>1 DEF TypeOK, SharedTypes
    <2>2. ClientTypes'
      BY DEF TypeOK, ClientTypes
    <2> QED
      BY <2>1, <2>2, FinishType, ActorSame DEF TypeOK
  <1>5. NativeSlot' /\ ThreadShape'
    BY <1>2 DEF NativeSlot, ThreadShape, Starting, Registered
  <1>6. \A b \in Live : buffer'[b] = buffer[b]
    BY <1>1, <1>3, LiveFacts
  <1>7. ActorShape'
    <2>1. ntfn.pc = "ack" => ntfn.id \in Live
      BY DEF Live, Acking
    <2> QED
      BY <2>1, <1>6 DEF ActorShape
  <1>8. /\ t.id \in Part["thread"] /\ Part'["thread"] = Part["thread"] \ {t.id}
        /\ \A p \in Places \ {"thread"} : Part'[p] = Part[p]
        /\ "thread" \in Places
    <2>1. /\ Part'.request = Part.request /\ Part'.km = Part.km /\ Part'.forward = Part.forward
          /\ Part'.user = Part.user /\ Part'.response = Part.response /\ Part'.ntfn = Part.ntfn
      BY DEF Part
    <2>2. t.id \in Part.thread /\ Part'.thread = Part.thread \ {t.id}
      BY <1>1, <1>2 DEF Part
    <2> QED
      BY <2>1, <2>2 DEF Places
  <1>9. Ownership'
    BY <1>1, <1>8, PartsLose
  <1>10. Acking' = Acking /\ Live' = Live /\ Part'["response"] = Part["response"]
    BY <1>8 DEF Acking, Live, Places
  <1>11. Messages'
    <2>1. \A b \in Live : LiveMessage(b) /\ ioacks[buffer[b].slot] # t.job
      <3>1. \A b \in Live : LiveMessage(b) /\ buffer[b].slot # t.slot
        BY <1>1 DEF Messages
      <3>2. ASSUME NEW b \in Live, LiveMessage(b), ioacks[buffer[b].slot] = t.job
            PROVE  buffer[b].slot = t.slot
        <4>1. buffer[b].slot = SlotOf(ioacks[buffer[b].slot])
          BY <3>2 DEF LiveMessage
        <4> HIDE DEF Inv
        <4> QED
          BY <4>1, <3>2, <1>1
      <3> HIDE DEF Inv
      <3> QED
        BY <3>1, <3>2
    <2>2. \A c \in Clients : SlotOf(c)' = SlotOf(c) /\ (c # t.job /\ Waits(c) => Waits(c)')
      <3>1. \A c \in Clients : SlotOf(c)' = SlotOf(c)
        BY <1>1, <1>2 DEF SlotOf
      <3>2. \A v \in VCpus : v # t.job /\ Waits(v) => Waits(v)'
        BY <1>1 DEF Waits, TypeOK, ClientTypes
      <3>3. Vmm # t.job => ~Waits(Vmm)
        BY <1>1 DEF Waits
      <3> QED
        BY <3>1, <3>2, <3>3
    <2> QED
      BY <2>1, <2>2, <1>6, <1>10, MessagesFrame DEF LiveMessage
  <1>12. Request'
    BY <1>2 DEF Request, Starting, Registered
  <1>13. Handoff' /\ VCpuValue'
    BY <1>1, <1>2 DEF Handoff, VCpuValue, TypeOK, ClientTypes
  <1> QED
    BY <1>4, <1>5, <1>7, <1>9, <1>11, <1>12, <1>13

LEMMA RingDeviceInv ==
  ASSUME OneRequester, Inv, RingDevice(Vmm)
  PROVE  Inv'
  <1> USE VmmFacts DEF Inv, RingDevice, actorVars, clientVars
  <1> DEFINE t == thread[Vmm]
  <1>1. /\ t.pc = "ring" /\ t.job \in Clients /\ t \in ThreadState
    BY DEF At, TypeOK, ThreadTypes, ThreadShape, Starting
  <1>2. /\ thread'[Vmm].pc \in {"idle", "await"} /\ thread'[Vmm].nativeSlot = t.nativeSlot
        /\ thread'[Vmm].pc = "idle" => thread'[Vmm].job = None /\ t.job # Vmm
        /\ thread'[Vmm].pc = "await" =>
              t.job = Vmm /\ thread'[Vmm].job = Vmm /\ thread'[Vmm].slot = t.slot
    <2>1. CASE t.job \in VCpus
      <3>1. thread'[Vmm] = Idle(t.nativeSlot)
        BY <2>1 DEF Finish, TypeOK, ThreadTypes
      <3>2. /\ thread'[Vmm].pc = "idle" /\ thread'[Vmm].job = None
            /\ thread'[Vmm].nativeSlot = t.nativeSlot
        <4> HIDE DEF Inv, RingDevice, t
        <4> QED
          BY <3>1 DEF Idle
      <3>3. t.job # Vmm
        BY <2>1
      <3> QED
        BY <3>2, <3>3
    <2>2. CASE t.job \notin VCpus
      <3>1. thread'[Vmm] = [t EXCEPT !.pc = "await"] /\ t.job = Vmm
        BY <1>1, <2>2 DEF Goto, TypeOK, ThreadTypes
      <3> QED
        BY <3>1, <1>1 DEF ThreadState
    <2> QED
      BY <2>1, <2>2
  <1>3. TypeOK'
    <2>1. "await" \in Pcs
      BY DEF Pcs
    <2>2. ThreadTypes'
      BY <2>1, GotoType, FinishType DEF TypeOK
    <2>3. SharedTypes'
      BY DEF TypeOK, SharedTypes
    <2> QED
      BY <2>2, <2>3, ActorSame, ClientSame DEF TypeOK
  <1>4. NativeSlot' /\ ThreadShape' /\ ActorShape'
    BY <1>1, <1>2 DEF NativeSlot, ThreadShape, ActorShape, Starting, Registered, SlotOf
  <1>5. Part' = Part /\ Acking' = Acking /\ Live' = Live
    BY <1>1, <1>2 DEF Part, Acking, Live
  <1>6. Ownership'
    BY <1>5, PartsStay
  <1>7. Messages'
    <2>1. \A c \in Clients : SlotOf(c)' = SlotOf(c) /\ (Waits(c) => Waits(c)')
      BY <1>1, <1>2 DEF SlotOf, Waits
    <2> QED
      BY <2>1, <1>5, MessagesStay
  <1>8. Request'
    BY <1>2 DEF Request, Starting, Registered
  <1>9. Handoff' /\ VCpuValue'
    BY <1>1, <1>2 DEF Handoff, LeftBehind, SlotOf, VCpuValue
  <1> QED
    BY <1>3, <1>4, <1>6, <1>7, <1>8, <1>9

LEMMA ioreq_native_waitInv ==
  ASSUME OneRequester, Inv, ioreq_native_wait(Vmm)
  PROVE  Inv'
  <1> USE VmmFacts DEF Inv, ioreq_native_wait, sharedVars, actorVars
  <1>1. /\ thread[Vmm].pc = "await" /\ handoff[Vmm] = 1 /\ handoff'[Vmm] = 0
        /\ thread'[Vmm].pc = "idle" /\ thread'[Vmm].job = None
        /\ thread'[Vmm].nativeSlot = thread[Vmm].nativeSlot
    BY DEF At, Finish, Idle, TypeOK, ThreadTypes, ClientTypes
  <1>2. TypeOK'
    <2>1. ClientTypes'
      BY <1>1 DEF TypeOK, ClientTypes
    <2> QED
      BY <2>1, FinishType, SharedSame, ActorSame DEF TypeOK
  <1>3. NativeSlot' /\ ThreadShape' /\ ActorShape'
    BY <1>1 DEF NativeSlot, ThreadShape, ActorShape, Starting, Registered
  <1>4. Part' = Part /\ Acking' = Acking /\ Live' = Live
    BY <1>1 DEF Part, Acking, Live
  <1>5. Ownership'
    BY <1>4, PartsStay
  <1>6. Messages'
    <2>1. ~Waits(Vmm)
      <3> HIDE DEF Inv, ioreq_native_wait
      <3> QED
        BY <1>1 DEF Waits
    <2>0. vcpu' = vcpu
      OBVIOUS
    <2>2. \A v \in VCpus : Waits(v)' = Waits(v)
      BY <2>0 DEF Waits
    <2>3. \A c \in Clients : SlotOf(c)' = SlotOf(c) /\ (Waits(c) => Waits(c)')
      BY <1>1, <2>1, <2>2 DEF SlotOf
    <2> QED
      BY <2>3, <1>4, MessagesStay
  <1>7. Request'
    BY <1>1 DEF Request, Starting, Registered
  <1>8. Handoff' /\ VCpuValue'
    BY <1>1 DEF Handoff, VCpuValue
  <1> QED
    BY <1>2, <1>3, <1>5, <1>6, <1>7, <1>8

LEMMA AbortInv ==
  ASSUME OneRequester, Inv, NEW why \in {"slot taken", "no buffer"}, Abort(why)
  PROVE  Inv'
  <1> USE VmmFacts DEF Inv, Abort, sharedVars, actorVars, clientVars
  <1>1. TypeOK'
    BY ThreadSame, SharedSame, ActorSame, ClientSame DEF TypeOK
  <1>2. NativeSlot' /\ ThreadShape' /\ ActorShape'
    <2>1. NativeSlot'
      BY DEF NativeSlot
    <2>2. ThreadShape'
      BY DEF ThreadShape, SlotOf
    <2>3. ActorShape'
      BY DEF ActorShape
    <2> QED
      BY <2>1, <2>2, <2>3
  <1>3. Part' = Part /\ Acking' = Acking /\ Live' = Live
    BY PartsUnchanged
  <1>4. Ownership'
    BY <1>3, PartsStay
  <1>5. Messages'
    <2>1. \A c \in Clients : SlotOf(c)' = SlotOf(c) /\ (Waits(c) => Waits(c)')
      BY DEF SlotOf, Waits
    <2> QED
      BY <2>1, <1>3, MessagesStay
  <1>6. Request'
    BY <1>3 DEF Request
  <1>7. Handoff' /\ VCpuValue'
    BY DEF Handoff, LeftBehind, SlotOf, VCpuValue
  <1> QED
    BY <1>1, <1>2, <1>4, <1>5, <1>6, <1>7

-----------------------------------------------------------------------------
(* The notification thread.                                                *)

(* It goes on without a reply. *)
LEMMA ntfn_callbackInv ==
  ASSUME OneRequester, Inv, ntfn_callback \/ NoResponse
  PROVE  Inv'
  <1> USE VmmFacts DEF Inv, ntfn_callback, NoResponse, sharedVars, clientVars
  <1>1. /\ ntfn.pc \in {"wait", "receive"} /\ ntfn.id = None
        /\ ntfn'.pc \in {"wait", "receive"} /\ ntfn'.id = None /\ ntfn'.slot = ntfn.slot
    <2>1. ntfn.pc \in {"wait", "receive"}
      BY DEF NtfnAt
    <2>2. ntfn.id = None
      BY <2>1 DEF ActorShape
    <2>3. \E l \in {"wait", "receive"} : ntfn' = [ntfn EXCEPT !.pc = l]
      OBVIOUS
    <2>4. ntfn \in [pc : {"wait", "receive", "ack", "clear", "reclaim"},
                    id : Buffers \cup {None}, slot : Slots \cup {None}]
      BY DEF TypeOK, ActorTypes
    <2> HIDE DEF Inv, ntfn_callback, NoResponse
    <2> QED
      BY <2>1, <2>2, <2>3, <2>4
  <1>2. UNCHANGED <<thread, freeSlot, ioacks, lent, buffer, queue, km, user, clientVars, aborted>>
    OBVIOUS
  <1>3. TypeOK'
    <2>1. SharedTypes'
      BY DEF TypeOK, SharedTypes
    <2>2. ActorTypes'
      BY DEF TypeOK, ActorTypes
    <2> QED
      BY <1>2, <2>1, <2>2, ThreadSame, ClientSame DEF TypeOK
  <1> HIDE DEF ntfn_callback, NoResponse
  <1>4. NativeSlot' /\ ThreadShape' /\ ActorShape'
    BY <1>1, <1>2 DEF NativeSlot, ThreadShape, ActorShape, SlotOf
  <1>5. Part' = Part /\ Acking' = Acking /\ Live' = Live
    BY <1>1, <1>2 DEF Part, Acking, Live
  <1>6. Ownership'
    BY <1>2, <1>5, PartsStay
  <1>7. Messages'
    <2>1. \A c \in Clients : SlotOf(c)' = SlotOf(c) /\ (Waits(c) => Waits(c)')
      BY <1>2 DEF SlotOf, Waits
    <2> QED
      BY <1>1, <1>2, <1>5, <2>1, MessagesFrame
  <1>8. Request'
    BY <1>1, <1>2, <1>5 DEF Request
  <1>9. Handoff' /\ VCpuValue'
    BY <1>1, <1>2 DEF Handoff, LeftBehind, SlotOf, VCpuValue
  <1> QED
    BY <1>2, <1>3, <1>4, <1>6, <1>7, <1>8, <1>9

LEMMA rpcmsg_receive_responseInv ==
  ASSUME OneRequester, Inv, rpcmsg_receive_response
  PROVE  Inv'
  <1> USE VmmFacts DEF Inv, rpcmsg_receive_response, clientVars
  <1> DEFINE b == Head(queue["response"])
  <1>1. ntfn.pc = "receive" /\ ntfn.id = None /\ "response" \in Queues
    BY DEF NtfnAt, ActorShape, Queues
  <1>2. /\ queue' \in [Queues -> Seq(Buffers)]
        /\ b \in Buffers /\ b \in ToSet(queue["response"])
        /\ ToSet(queue'["response"]) = ToSet(queue["response"]) \ {b}
        /\ \A r \in Queues \ {"response"} : queue'[r] = queue[r]
        /\ QueuedOnce'
    <2>1. queue' = [queue EXCEPT !["response"] = Tail(queue["response"])]
      OBVIOUS
    <2>2. queue["response"] # <<>>
      OBVIOUS
    <2> QED
      BY <1>1, <2>1, <2>2, TakeFromQueue DEF TypeOK, Ownership
  <1>3. /\ b \in Live /\ LiveMessage(b)
    BY <1>2 DEF Live, Part, Messages
  <1>4. buffer[b].slot \in Slots
    BY <1>3 DEF LiveMessage, Message
  <1>5. /\ ntfn' = [pc |-> "ack", id |-> b, slot |-> buffer[b].slot]
        /\ ntfn'.pc = "ack" /\ ntfn'.id = b /\ ntfn'.slot = buffer[b].slot
        /\ UNCHANGED <<thread, freeSlot, ioacks, lent, buffer, bell, km, user, clientVars, aborted>>
    OBVIOUS
  <1> HIDE DEF rpcmsg_receive_response, b
  <1>6. TypeOK'
    <2>1. SharedTypes'
      BY <1>2, <1>5 DEF TypeOK, SharedTypes
    <2>2. ActorTypes'
      BY <1>2, <1>4, <1>5 DEF TypeOK, ActorTypes
    <2> QED
      BY <1>5, <2>1, <2>2, ThreadSame, ClientSame DEF TypeOK
  <1>7. NativeSlot' /\ ThreadShape' /\ ActorShape'
    BY <1>2, <1>4, <1>5 DEF NativeSlot, ThreadShape, ActorShape, SlotOf
  <1>8. /\ Part'["response"] = Part["response"] \ {b} /\ Part'["ntfn"] = Part["ntfn"] \cup {b}
        /\ \A p \in Places \ {"response", "ntfn"} : Part'[p] = Part[p]
        /\ "response" \in Places /\ "ntfn" \in Places /\ b \in Part["response"]
    <2>1. /\ Part'.km = Part.km /\ Part'.user = Part.user /\ Part'.thread = Part.thread
          /\ Part'.request = Part.request /\ Part'.forward = Part.forward
      BY <1>2, <1>5 DEF Part, Queues
    <2>2. Part'.response = Part.response \ {b} /\ b \in Part.response
      BY <1>2 DEF Part
    <2>3. Part'.ntfn = Part.ntfn \cup {b}
      BY <1>1, <1>2, <1>5 DEF Part
    <2> QED
      BY <2>1, <2>2, <2>3 DEF Places
  <1>9. Ownership'
    BY <1>2, <1>5, <1>8, PartsMove
  <1>10. Acking = {} /\ Acking' = {b}
    BY <1>1, <1>5 DEF Acking
  <1>11. Part'.response \cup Acking' = Part.response \cup Acking /\ Live' = Live
    <2>1. /\ Part'.response = Part.response \ {b} /\ b \in Part.response
          /\ Part'.request = Part.request /\ Part'.km = Part.km
          /\ Part'.forward = Part.forward /\ Part'.user = Part.user
      BY <1>8 DEF Places
    <2> HIDE DEF Inv
    <2> QED
      BY <1>10, <2>1 DEF Live
  <1>12. Messages'
    <2>1. \A c \in Clients : SlotOf(c)' = SlotOf(c) /\ (Waits(c) => Waits(c)')
      BY <1>5 DEF SlotOf, Waits
    <2> QED
      BY <1>5, <1>11, <2>1, MessagesFrame
  <1>13. Request'
    BY <1>5, <1>11 DEF Request
  <1>14. Handoff' /\ VCpuValue'
    BY <1>1, <1>5 DEF Handoff, LeftBehind, SlotOf, VCpuValue
  <1> QED
    BY <1>5, <1>6, <1>7, <1>9, <1>12, <1>13, <1>14

LEMMA ioreq_finishInv ==
  ASSUME OneRequester, Inv, ioreq_finish
  PROVE  Inv'
  <1> USE VmmFacts DEF Inv, ioreq_finish, sharedVars, clientVars
  <1>1. PICK b \in Live : b = ntfn.id
    BY DEF NtfnAt, Live, Acking
  <1>2. PICK c \in Clients : c = ioacks[ntfn.slot]
    BY <1>1 DEF Messages, LiveMessage, ActorShape, NtfnAt
  <1>3. /\ ntfn.pc = "ack" /\ ntfn.slot = buffer[b].slot /\ ntfn.slot \in Slots
        /\ ntfn.slot = SlotOf(c) /\ Waits(c) /\ buffer[b].data = token[c]
        /\ b \in Part["ntfn"] /\ b \in Buffers
    BY <1>1, <1>2, LiveFacts DEF NtfnAt, ActorShape, Messages, LiveMessage, Acking, Part
  <1>4. /\ ioack(c) /\ ntfn' = [ntfn EXCEPT !.pc = "clear"]
        /\ UNCHANGED <<thread, freeSlot, ioacks, lent, buffer, queue, bell, km, user, token, aborted>>
    BY <1>2
  <1> HIDE DEF ioreq_finish
  <1>5. ntfn'.pc = "clear" /\ ntfn'.id = ntfn.id /\ ntfn'.slot = ntfn.slot
    BY <1>4 DEF TypeOK, ActorTypes
  <1>6. /\ value' = [value EXCEPT ![c] = token[c]]
        /\ \/ c \in VCpus /\ vcpu' = [vcpu EXCEPT ![c] = "running"] /\ handoff' = handoff
           \/ c = Vmm /\ handoff' = [handoff EXCEPT ![c] = 1] /\ vcpu' = vcpu
    <2>1. c \in NativeThreads => c = Vmm /\ handoff[c] + 1 = 1
      <3> HIDE DEF Inv
      <3>1. c \in NativeThreads => c = Vmm /\ c \notin VCpus
        OBVIOUS
      <3>2. c \in NativeThreads => handoff[c] = 0
        BY <1>3, <3>1 DEF Waits
      <3> QED
        BY <3>1, <3>2
    <2>2. value' = [value EXCEPT ![c] = token[c]]
      BY <1>1, <1>3, <1>4 DEF ioack
    <2> HIDE DEF Inv
    <2> QED
      BY <1>4, <2>1, <2>2 DEF ioack
  <1>7. TypeOK'
    <2>1. ActorTypes'
      BY <1>4 DEF TypeOK, ActorTypes
    <2>2. value' \in [Clients -> {0, 1, None}]
      BY <1>6 DEF TypeOK, ClientTypes
    <2>3. handoff' \in [NativeThreads -> {0, 1}]
      BY <1>6 DEF TypeOK, ClientTypes
    <2>4. vcpu' \in [VCpus -> {"running", "faulted", "waiting", "error"}]
      BY <1>6 DEF TypeOK, ClientTypes
    <2>5. ClientTypes'
      BY <1>4, <2>2, <2>3, <2>4 DEF TypeOK, ClientTypes
    <2> QED
      BY <1>4, <2>1, <2>5, ThreadSame, SharedSame DEF TypeOK
  <1>8. NativeSlot' /\ ThreadShape'
    BY <1>4 DEF NativeSlot, ThreadShape, SlotOf
  <1>9. ActorShape'
    BY <1>2, <1>3, <1>4, <1>5 DEF ActorShape
  <1>10. Part' = Part
    BY <1>4, <1>5 DEF Part
  <1>11. Ownership'
    BY <1>4, <1>10, PartsStay
  <1>12. Live' = Live \ {b} /\ Acking' = {}
    <2>1. \A p \in Places \ {"ntfn"} : b \notin Part[p]
      BY <1>3 DEF Ownership, PartsDisjoint, Places
    <2>2. Acking' = {} /\ Acking = {b}
      BY <1>1, <1>3, <1>5 DEF Acking
    <2>3. /\ b \notin Part.request /\ b \notin Part.km /\ b \notin Part.forward
          /\ b \notin Part.user /\ b \notin Part.response
      BY <2>1 DEF Places
    <2> HIDE DEF Inv
    <2> QED
      BY <1>10, <2>2, <2>3 DEF Live
  <1>13. \A d \in Clients : /\ SlotOf(d)' = SlotOf(d)
                            /\ d # c /\ Waits(d) => Waits(d)'
    <2>1. \A d \in Clients : SlotOf(d)' = SlotOf(d)
      BY <1>4 DEF SlotOf
    <2>2. \A v \in VCpus : v # c /\ Waits(v) => Waits(v)'
      BY <1>6 DEF Waits, TypeOK, ClientTypes
    <2>3. Vmm # c /\ Waits(Vmm) => Waits(Vmm)'
      BY <1>4, <1>6 DEF Waits
    <2> QED
      BY <2>1, <2>2, <2>3
  <1>14. Messages'
    <2>1. \A a \in Live' : LiveMessage(a) /\ buffer[a].slot # ntfn.slot
      BY <1>3, <1>12 DEF Messages
    <2>2. \A a \in Live' : ioacks[buffer[a].slot] # c
      <3>1. \A a \in Live' : buffer[a].slot = SlotOf(ioacks[buffer[a].slot])
        BY <2>1 DEF LiveMessage
      <3> HIDE DEF Inv
      <3> QED
        BY <1>3, <2>1, <3>1
    <2> HIDE DEF Inv
    <2>3. Messages
      BY DEF Inv
    <2> QED
      BY <1>4, <1>5, <1>10, <1>12, <1>13, <2>1, <2>2, <2>3, MessagesFrame
  <1>15. Request'
    <2>1. thread[Vmm].pc \in Starting => thread[Vmm].slot # ntfn.slot /\ thread[Vmm].job # c
      BY <1>3 DEF Request, ThreadShape
    <2>2. \A v \in VCpus : v # c => vcpu'[v] = vcpu[v]
      BY <1>6 DEF TypeOK, ClientTypes
    <2>3. Registered \subseteq Starting
      BY DEF Starting
    <2> QED
      BY <1>4, <1>5, <1>12, <2>1, <2>2, <2>3 DEF Request
  <1>16. Handoff'
    <2>1. CASE c = Vmm
      <3>1. ~LeftBehind(Vmm)'
        BY <1>3, <1>4, <1>5, <1>13, <2>1 DEF LeftBehind
      <3>2. thread[Vmm].pc \in {"ring", "await"} /\ thread[Vmm].job = Vmm
        BY <1>3, <2>1 DEF Waits
      <3> QED
        BY <1>4, <3>1, <3>2 DEF Handoff
    <2>2. CASE c # Vmm
      BY <1>3, <1>4, <1>5, <1>6, <1>13, <2>2 DEF Handoff, LeftBehind
    <2> QED
      BY <2>1, <2>2
  <1>17. VCpuValue'
    <2>1. \A v \in VCpus : v # c => value'[v] = value[v] /\ vcpu'[v] = vcpu[v]
      BY <1>6 DEF TypeOK, ClientTypes
    <2>2. value'[c] = token[c]
      BY <1>6 DEF TypeOK, ClientTypes
    <2> QED
      BY <1>4, <2>1, <2>2 DEF VCpuValue
  <1> QED
    BY <1>4, <1>7, <1>8, <1>9, <1>11, <1>14, <1>15, <1>16, <1>17

LEMMA ClearCallbackInv ==
  ASSUME OneRequester, Inv, ClearCallback
  PROVE  Inv'
  <1> USE VmmFacts DEF Inv, ClearCallback, clientVars
  <1>1. /\ ntfn.pc = "clear" /\ ntfn.slot \in Slots /\ ntfn.id \in Buffers
        /\ ioacks' = [ioacks EXCEPT ![ntfn.slot] = None]
        /\ \A s \in Slots : s # ntfn.slot => ioacks'[s] = ioacks[s]
        /\ ioacks'[ntfn.slot] = None
    BY DEF NtfnAt, ActorShape, TypeOK, SharedTypes
  <1>2. ntfn'.pc = "reclaim" /\ ntfn'.id = ntfn.id /\ ntfn'.slot = ntfn.slot
    BY DEF TypeOK, ActorTypes
  <1>3. UNCHANGED <<thread, freeSlot, lent, buffer, queue, bell, km, user, clientVars, aborted>>
    OBVIOUS
  <1>4. TypeOK'
    <2>1. SharedTypes'
      BY <1>1 DEF TypeOK, SharedTypes
    <2>2. ActorTypes'
      BY DEF TypeOK, ActorTypes
    <2> QED
      BY <1>3, <2>1, <2>2, ThreadSame, ClientSame DEF TypeOK
  <1> HIDE DEF ClearCallback
  <1>5. NativeSlot' /\ ThreadShape' /\ ActorShape'
    BY <1>1, <1>2, <1>3 DEF NativeSlot, ThreadShape, ActorShape, SlotOf
  <1>6. Part' = Part /\ Acking' = Acking /\ Live' = Live
    BY <1>1, <1>2, <1>3 DEF Part, Acking, Live
  <1>7. Ownership'
    BY <1>3, <1>6, PartsStay
  <1>8. Messages'
    <2>1. \A c \in Clients : SlotOf(c)' = SlotOf(c) /\ (Waits(c) => Waits(c)')
      BY <1>3 DEF SlotOf, Waits
    <2>2. \A b \in Live : buffer[b].slot # ntfn.slot /\ buffer[b].slot \in Slots
      BY <1>1 DEF Messages, LiveMessage, Message
    <2>3. \A b \in Live' : ioacks'[buffer[b].slot] = ioacks[buffer[b].slot]
      BY <1>1, <1>6, <2>2
    <2> QED
      BY <1>2, <1>3, <1>6, <2>1, <2>3, MessagesFrame
  <1>9. Request'
    <2>1. thread[Vmm].pc \in Starting => thread[Vmm].slot \in Slots
      BY DEF ThreadShape
    <2>2. "register" \in Starting /\ Registered \subseteq Starting
      BY DEF Starting
    <2> QED
      BY <1>1, <1>2, <1>3, <1>6, <2>1, <2>2 DEF Request
  <1>10. Handoff'
    <2>1. SlotOf(Vmm) # 0 => SlotOf(Vmm) \in Slots
      BY DEF TypeOK, ThreadTypes, ThreadState, SlotOf
    <2>2. SlotOf(Vmm)' = SlotOf(Vmm)
      BY <1>3 DEF SlotOf
    <2>3. LeftBehind(Vmm)' => LeftBehind(Vmm)
      BY <1>1, <2>1, <2>2 DEF LeftBehind
    <2> QED
      BY <1>3, <2>3 DEF Handoff
  <1>11. VCpuValue'
    BY <1>3 DEF VCpuValue
  <1> QED
    BY <1>3, <1>4, <1>5, <1>7, <1>8, <1>9, <1>10, <1>11

LEMMA rpcmsg_reclaim_bufferInv ==
  ASSUME OneRequester, Inv, rpcmsg_reclaim_buffer
  PROVE  Inv'
  <1> USE VmmFacts DEF Inv, rpcmsg_reclaim_buffer, Reclaim, clientVars
  <1>1. PICK b \in Buffers : b = ntfn.id
    BY DEF NtfnAt, ActorShape
  <1>2. /\ ntfn.pc = "reclaim" /\ lent' = lent \ {b}
        /\ ntfn'.pc = "receive" /\ ntfn'.id = None
        /\ \A a \in Buffers \ {b} : buffer'[a] = buffer[a]
    BY <1>1 DEF NtfnAt, TypeOK, SharedTypes
  <1>3. UNCHANGED <<thread, freeSlot, ioacks, queue, bell, km, user, clientVars, aborted>>
    OBVIOUS
  <1>4. TypeOK'
    <2>1. buffer' \in [Buffers -> {None} \cup Message]
      BY DEF TypeOK, SharedTypes
    <2>2. SharedTypes'
      BY <1>2, <2>1 DEF TypeOK, SharedTypes
    <2>3. ActorTypes'
      BY DEF TypeOK, ActorTypes
    <2> QED
      BY <1>3, <2>2, <2>3, ThreadSame, ClientSame DEF TypeOK
  <1> HIDE DEF rpcmsg_reclaim_buffer
  <1>5. NativeSlot' /\ ThreadShape' /\ ActorShape'
    BY <1>2, <1>3 DEF NativeSlot, ThreadShape, ActorShape, SlotOf
  <1>6. /\ b \in Part["ntfn"] /\ Part'["ntfn"] = Part["ntfn"] \ {b}
        /\ \A p \in Places \ {"ntfn"} : Part'[p] = Part[p]
        /\ "ntfn" \in Places
    <2>1. /\ Part'.request = Part.request /\ Part'.km = Part.km /\ Part'.forward = Part.forward
          /\ Part'.user = Part.user /\ Part'.response = Part.response /\ Part'.thread = Part.thread
      BY <1>3 DEF Part
    <2>2. b \in Part.ntfn /\ Part'.ntfn = Part.ntfn \ {b}
      BY <1>1, <1>2 DEF Part
    <2> QED
      BY <2>1, <2>2 DEF Places
  <1>7. Ownership'
    BY <1>2, <1>3, <1>6, PartsLose
  <1>8. Acking' = {} /\ Acking = {}
    BY <1>2 DEF Acking
  <1>9. Live' = Live /\ Part'.response = Part.response
    <2>1. /\ Part'.request = Part.request /\ Part'.km = Part.km /\ Part'.forward = Part.forward
          /\ Part'.user = Part.user /\ Part'.response = Part.response
      BY <1>6 DEF Places
    <2> HIDE DEF Inv
    <2> QED
      BY <1>8, <2>1 DEF Live
  <1>10. \A a \in Live : buffer'[a] = buffer[a]
    BY <1>1, <1>2, LiveFacts
  <1>11. Messages'
    <2>1. \A c \in Clients : SlotOf(c)' = SlotOf(c) /\ (Waits(c) => Waits(c)')
      BY <1>3 DEF SlotOf, Waits
    <2> QED
      BY <1>2, <1>3, <1>8, <1>9, <1>10, <2>1, MessagesFrame
  <1>12. Request'
    <2>1. thread[Vmm].pc = "enqueue" => thread[Vmm].id # b /\ thread[Vmm].id \in Buffers
      <3>1. thread[Vmm].pc = "enqueue" => thread[Vmm].id \in Part["thread"] /\ thread[Vmm].id \in Buffers
        BY DEF Part, ThreadShape
      <3> QED
        BY <1>6, <3>1 DEF Ownership, PartsDisjoint, Places
    <2>2. thread[Vmm].pc = "enqueue" => buffer'[thread[Vmm].id] = buffer[thread[Vmm].id]
      BY <1>2, <2>1
    <2> QED
      BY <1>2, <1>3, <1>9, <1>10, <2>2 DEF Request
  <1>13. Handoff' /\ VCpuValue'
    BY <1>2, <1>3 DEF Handoff, LeftBehind, SlotOf, VCpuValue
  <1> QED
    BY <1>3, <1>4, <1>5, <1>7, <1>11, <1>12, <1>13

-----------------------------------------------------------------------------
(* The device VM.  None of its steps adds a message or takes one away, and *)
(* all that it changes in a message is the answer.                         *)
LEMMA DeviceStepInv ==
  ASSUME OneRequester, Inv,
         UNCHANGED <<thread, freeSlot, ioacks, lent, ntfn, clientVars, aborted>>,
         SharedTypes', ActorTypes', Ownership', Live' = Live,
         km'.id # None => km'.pc = "handle",
         km'.pc = "handle" => km'.id \in Buffers,
         \A b \in Live : /\ buffer'[b] \in Message
                         /\ buffer'[b].slot = buffer[b].slot
                         /\ buffer'[b].req = buffer[b].req,
         \A b \in Live : b \in Part'.response \cup Acking => buffer'[b].data = buffer[b].req,
         \A b \in Buffers \ Live : buffer'[b] = buffer[b]
  PROVE  Inv'
  <1> USE VmmFacts DEF clientVars
  <1>1. TypeOK'
    BY ThreadSame, ClientSame DEF Inv, TypeOK
  <1>2. NativeSlot' /\ ThreadShape'
    BY DEF Inv, NativeSlot, ThreadShape, SlotOf
  <1>3. ActorShape'
    <2>1. ntfn.pc = "ack" => ntfn.id \in Live
      BY DEF Live, Acking
    <2> QED
      BY <2>1 DEF Inv, ActorShape
  <1>4. Acking' = Acking
    BY DEF Acking
  <1>5. Messages'
    <2>1. ASSUME NEW b \in Live PROVE LiveMessage(b)'
      <3>1. LiveMessage(b)
        BY DEF Inv, Messages
      <3>2. PICK c \in Clients : c = ioacks[buffer[b].slot]
        BY <3>1 DEF LiveMessage
      <3>3. Waits(c)' = Waits(c) /\ SlotOf(c)' = SlotOf(c)
        BY DEF Waits, SlotOf
      <3>4. ioacks'[buffer'[b].slot] = c
        BY <3>2
      <3> QED
        BY <1>4, <3>1, <3>2, <3>3, <3>4 DEF LiveMessage
    <2>2. ASSUME NEW a \in Live, NEW b \in Live, buffer'[a].slot = buffer'[b].slot PROVE a = b
      <3>1. buffer[a].slot = buffer[b].slot
        BY <2>2
      <3> QED
        BY <3>1 DEF Inv, Messages
    <2> QED
      BY <2>1, <2>2 DEF Messages
  <1>6. Request'
    <2>1. thread[Vmm].pc = "enqueue" => buffer'[thread[Vmm].id] = buffer[thread[Vmm].id]
      BY LiveFacts DEF Inv, ThreadShape
    <2> QED
      BY <2>1 DEF Inv, Request
  <1>7. Handoff' /\ VCpuValue'
    BY DEF Inv, Handoff, LeftBehind, SlotOf, VCpuValue
  <1> QED
    BY <1>1, <1>2, <1>3, <1>5, <1>6, <1>7 DEF Inv

(* A step that passes no message on. *)
LEMMA DeviceIdleInv ==
  ASSUME OneRequester, Inv, consume_callback \/ NoRequest \/ KernelRings \/ UserRings
  PROVE  Inv'
  <1> USE VmmFacts DEF consume_callback, NoRequest, KernelRings, UserRings, RingDriver,
          sharedVars, clientVars
  <1>1. UNCHANGED <<thread, freeSlot, ioacks, lent, buffer, queue, ntfn, clientVars, aborted>>
    OBVIOUS
  <1>2. SharedTypes'
    BY DEF Inv, TypeOK, SharedTypes
  <1>3. ActorTypes'
    <2>1. km' \in [pc : {"wait", "receive", "handle", "ring"}, id : Buffers \cup {None}]
      BY DEF Inv, TypeOK, ActorTypes
    <2>2. user' \in [held : SUBSET Buffers, ringing : BOOLEAN]
      BY DEF Inv, TypeOK, ActorTypes
    <2> QED
      BY <1>1, <2>1, <2>2 DEF Inv, TypeOK, ActorTypes
  <1>4. /\ (km.id = None /\ km'.id = None) \/ km' = km
        /\ km'.pc = "handle" => km' = km
        /\ km'.id = km.id /\ user'.held = user.held
    BY DEF Inv, TypeOK, ActorTypes, ActorShape
  <1> HIDE DEF consume_callback, NoRequest, KernelRings, UserRings, RingDriver
  <1>5. Part' = Part /\ Acking' = Acking /\ Live' = Live
    BY <1>1, <1>4 DEF Part, Acking, Live
  <1>6. Ownership'
    BY <1>1, <1>5, PartsStay DEF Inv
  <1>7. \A b \in Live : LiveMessage(b)
    BY DEF Inv, Messages
  <1>8. /\ \A b \in Live : buffer[b] \in Message
        /\ \A b \in Live : b \in Part.response \cup Acking => buffer[b].data = buffer[b].req
    BY <1>7 DEF LiveMessage
  <1>9. /\ km'.id # None => km'.pc = "handle"
        /\ km'.pc = "handle" => km'.id \in Buffers
    BY <1>4 DEF Inv, ActorShape
  <1> QED
    BY <1>1, <1>2, <1>3, <1>5, <1>6, <1>8, <1>9, DeviceStepInv

(* A message is passed on as it is. *)
LEMMA DevicePassInv ==
  ASSUME OneRequester, Inv,
         UNCHANGED <<thread, freeSlot, ioacks, lent, buffer, ntfn, clientVars, aborted>>,
         SharedTypes', ActorTypes', Ownership',
         km'.id # None => km'.pc = "handle",
         km'.pc = "handle" => km'.id \in Buffers,
         Part'.response = Part.response,
         Part'.request \cup Part'.km \cup Part'.forward \cup Part'.user =
             Part.request \cup Part.km \cup Part.forward \cup Part.user
  PROVE  Inv'
  <1>1. Acking' = Acking
    BY DEF Acking
  <1>2. Live' = Live
    BY <1>1 DEF Live
  <1>3. \A b \in Live : LiveMessage(b)
    BY DEF Inv, Messages
  <1>4. /\ \A b \in Live : buffer[b] \in Message
        /\ \A b \in Live : b \in Part.response \cup Acking => buffer[b].data = buffer[b].req
    BY <1>3 DEF LiveMessage
  <1> QED
    BY <1>1, <1>2, <1>4, DeviceStepInv

LEMMA rpcmsg_receiveInv ==
  ASSUME OneRequester, Inv, rpcmsg_receive
  PROVE  Inv'
  <1> USE VmmFacts DEF rpcmsg_receive, clientVars
  <1> DEFINE b == Head(queue["request"])
  <1>1. /\ km.pc = "receive" /\ km.id = None /\ "request" \in Queues
    BY DEF Inv, ActorShape, Queues
  <1>2. /\ queue' \in [Queues -> Seq(Buffers)]
        /\ b \in Buffers /\ b \in ToSet(queue["request"])
        /\ ToSet(queue'["request"]) = ToSet(queue["request"]) \ {b}
        /\ \A r \in Queues \ {"request"} : queue'[r] = queue[r]
        /\ QueuedOnce'
    <2>1. queue' = [queue EXCEPT !["request"] = Tail(queue["request"])]
      OBVIOUS
    <2>2. queue["request"] # <<>>
      OBVIOUS
    <2> QED
      BY <1>1, <2>1, <2>2, TakeFromQueue DEF Inv, TypeOK, Ownership
  <1>3. /\ km' = [pc |-> "handle", id |-> b] /\ km'.pc = "handle" /\ km'.id = b
        /\ UNCHANGED <<thread, freeSlot, ioacks, lent, buffer, bell, ntfn, user, clientVars, aborted>>
    OBVIOUS
  <1> HIDE DEF rpcmsg_receive, b
  <1>4. SharedTypes' /\ ActorTypes'
    BY <1>2, <1>3 DEF Inv, TypeOK, SharedTypes, ActorTypes
  <1>5. /\ Part'.thread = Part.thread /\ Part'.forward = Part.forward
        /\ Part'.user = Part.user /\ Part'.response = Part.response /\ Part'.ntfn = Part.ntfn
        /\ Part'.request = Part.request \ {b} /\ b \in Part.request
        /\ Part'.km = Part.km \cup {b}
    <2>1. /\ Part'.thread = Part.thread /\ Part'.forward = Part.forward
          /\ Part'.user = Part.user /\ Part'.response = Part.response /\ Part'.ntfn = Part.ntfn
      BY <1>2, <1>3 DEF Part, Queues
    <2>2. Part'.request = Part.request \ {b} /\ b \in Part.request
      BY <1>2 DEF Part
    <2>3. Part'.km = Part.km \cup {b}
      BY <1>1, <1>2, <1>3 DEF Part
    <2> QED
      BY <2>1, <2>2, <2>3
  <1>6. Ownership'
    <2>1. /\ "request" \in Places /\ "km" \in Places
          /\ \A p \in Places \ {"request", "km"} : Part'[p] = Part[p]
      BY <1>5 DEF Places
    <2> QED
      BY <1>2, <1>3, <1>5, <2>1, PartsMove DEF Inv
  <1>7. Part'.request \cup Part'.km \cup Part'.forward \cup Part'.user =
            Part.request \cup Part.km \cup Part.forward \cup Part.user
    BY <1>5
  <1> QED
    BY <1>2, <1>3, <1>4, <1>5, <1>6, <1>7, DevicePassInv

LEMMA driver_rpc_request_fwdInv ==
  ASSUME OneRequester, Inv, driver_rpc_request_fwd
  PROVE  Inv'
  <1> USE VmmFacts DEF driver_rpc_request_fwd, clientVars
  <1>1. PICK b \in Buffers : b = km.id
    BY DEF Inv, ActorShape
  <1>2. b \in Part["km"] /\ b \notin ToSet(queue["forward"]) /\ "forward" \in Queues
    <2>1. b \in Part["km"]
      BY <1>1 DEF Part
    <2>2. b \notin Part["forward"]
      BY <2>1 DEF Inv, Ownership, PartsDisjoint, Places
    <2> QED
      BY <2>1, <2>2 DEF Part, Queues
  <1>3. /\ queue' \in [Queues -> Seq(Buffers)]
        /\ ToSet(queue'["forward"]) = ToSet(queue["forward"]) \cup {b}
        /\ \A r \in Queues \ {"forward"} : queue'[r] = queue[r]
        /\ QueuedOnce'
    <2>1. queue' = [queue EXCEPT !["forward"] = Append(queue["forward"], b)]
      BY <1>1
    <2> QED
      BY <1>2, <2>1, PutInQueue DEF Inv, TypeOK, Ownership
  <1>4. /\ km' = [pc |-> "receive", id |-> None] /\ km'.pc = "receive" /\ km'.id = None
        /\ UNCHANGED <<thread, freeSlot, ioacks, lent, buffer, bell, ntfn, user, clientVars, aborted>>
    OBVIOUS
  <1> HIDE DEF driver_rpc_request_fwd
  <1>5. SharedTypes' /\ ActorTypes'
    BY <1>3, <1>4 DEF Inv, TypeOK, SharedTypes, ActorTypes
  <1>6. /\ Part'.thread = Part.thread /\ Part'.request = Part.request
        /\ Part'.user = Part.user /\ Part'.response = Part.response /\ Part'.ntfn = Part.ntfn
        /\ Part'.km = Part.km \ {b} /\ Part'.forward = Part.forward \cup {b}
    <2>1. /\ Part'.thread = Part.thread /\ Part'.request = Part.request
          /\ Part'.user = Part.user /\ Part'.response = Part.response /\ Part'.ntfn = Part.ntfn
      BY <1>3, <1>4 DEF Part, Queues
    <2>2. Part'.forward = Part.forward \cup {b}
      BY <1>3 DEF Part
    <2>3. Part'.km = Part.km \ {b}
      BY <1>1, <1>4 DEF Part
    <2> QED
      BY <2>1, <2>2, <2>3
  <1>7. Ownership'
    <2>1. /\ "km" \in Places /\ "forward" \in Places
          /\ \A p \in Places \ {"km", "forward"} : Part'[p] = Part[p]
      BY <1>6 DEF Places
    <2> QED
      BY <1>2, <1>3, <1>4, <1>6, <2>1, PartsMove DEF Inv
  <1>8. Part'.request \cup Part'.km \cup Part'.forward \cup Part'.user =
            Part.request \cup Part.km \cup Part.forward \cup Part.user
    BY <1>2, <1>6
  <1> QED
    BY <1>4, <1>5, <1>6, <1>7, <1>8, DevicePassInv

LEMMA UserReceiveInv ==
  ASSUME OneRequester, Inv, UserReceive
  PROVE  Inv'
  <1> USE VmmFacts DEF UserReceive, clientVars
  <1> DEFINE b == Head(queue["forward"])
  <1>1. "forward" \in Queues
    BY DEF Queues
  <1>2. /\ queue' \in [Queues -> Seq(Buffers)]
        /\ b \in Buffers /\ b \in ToSet(queue["forward"])
        /\ ToSet(queue'["forward"]) = ToSet(queue["forward"]) \ {b}
        /\ \A r \in Queues \ {"forward"} : queue'[r] = queue[r]
        /\ QueuedOnce'
    <2>1. queue' = [queue EXCEPT !["forward"] = Tail(queue["forward"])]
      OBVIOUS
    <2>2. queue["forward"] # <<>>
      OBVIOUS
    <2> QED
      BY <1>1, <2>1, <2>2, TakeFromQueue DEF Inv, TypeOK, Ownership
  <1>3. /\ user' = [user EXCEPT !.held = user.held \cup {b}]
        /\ user'.held = user.held \cup {b}
        /\ UNCHANGED <<thread, freeSlot, ioacks, lent, buffer, bell, ntfn, km, clientVars, aborted>>
    BY DEF Inv, TypeOK, ActorTypes
  <1> HIDE DEF UserReceive, b
  <1>4. SharedTypes' /\ ActorTypes'
    BY <1>2, <1>3 DEF Inv, TypeOK, SharedTypes, ActorTypes
  <1>5. /\ Part'.thread = Part.thread /\ Part'.request = Part.request
        /\ Part'.km = Part.km /\ Part'.response = Part.response /\ Part'.ntfn = Part.ntfn
        /\ Part'.forward = Part.forward \ {b} /\ b \in Part.forward
        /\ Part'.user = Part.user \cup {b}
    <2>1. /\ Part'.thread = Part.thread /\ Part'.request = Part.request
          /\ Part'.km = Part.km /\ Part'.response = Part.response /\ Part'.ntfn = Part.ntfn
      BY <1>2, <1>3 DEF Part, Queues
    <2>2. Part'.forward = Part.forward \ {b} /\ b \in Part.forward
      BY <1>2 DEF Part
    <2>3. Part'.user = Part.user \cup {b}
      BY <1>3 DEF Part
    <2> QED
      BY <2>1, <2>2, <2>3
  <1>6. Ownership'
    <2>1. /\ "forward" \in Places /\ "user" \in Places
          /\ \A p \in Places \ {"forward", "user"} : Part'[p] = Part[p]
      BY <1>5 DEF Places
    <2> QED
      BY <1>2, <1>3, <1>5, <2>1, PartsMove DEF Inv
  <1>7. Part'.request \cup Part'.km \cup Part'.forward \cup Part'.user =
            Part.request \cup Part.km \cup Part.forward \cup Part.user
    BY <1>5
  <1> QED
    BY <1>3, <1>4, <1>5, <1>6, <1>7, DevicePassInv DEF Inv, ActorShape

(* A message is answered. *)
LEMMA AnswerInv ==
  ASSUME OneRequester, Inv, NEW b \in Buffers, NEW from \in {"km", "user"}, b \in Part[from],
         driver_rpc_ack_mmio_finish(b),
         UNCHANGED <<thread, freeSlot, ioacks, lent, bell, ntfn, clientVars, aborted>>,
         ActorTypes', km'.id # None => km'.pc = "handle",
         km'.pc = "handle" => km'.id \in Buffers,
         Part'[from] = Part[from] \ {b},
         \A p \in {"km", "user"} \ {from} : Part'[p] = Part[p]
  PROVE  Inv'
  <1> USE VmmFacts DEF clientVars
  <1>1. from \in Places /\ "response" \in Places /\ from # "response" /\ "response" \in Queues
    BY DEF Places, Queues
  <1>2. b \notin Part["response"]
    BY <1>1 DEF Inv, Ownership, PartsDisjoint
  <1>3. /\ queue' \in [Queues -> Seq(Buffers)]
        /\ ToSet(queue'["response"]) = ToSet(queue["response"]) \cup {b}
        /\ \A r \in Queues \ {"response"} : queue'[r] = queue[r]
        /\ QueuedOnce'
    <2>1. queue' = [queue EXCEPT !["response"] = Append(queue["response"], b)]
      BY DEF driver_rpc_ack_mmio_finish
    <2>2. b \notin ToSet(queue["response"])
      BY <1>2 DEF Part
    <2> QED
      BY <1>1, <2>1, <2>2, PutInQueue DEF Inv, TypeOK, Ownership
  <1>4. /\ Part'.thread = Part.thread /\ Part'.request = Part.request
        /\ Part'.forward = Part.forward /\ Part'.ntfn = Part.ntfn
        /\ Part'.response = Part.response \cup {b}
    <2>1. /\ Part'.thread = Part.thread /\ Part'.request = Part.request
          /\ Part'.forward = Part.forward /\ Part'.ntfn = Part.ntfn
      BY <1>3 DEF Part, Queues
    <2>2. Part'.response = Part.response \cup {b}
      BY <1>3 DEF Part
    <2> QED
      BY <2>1, <2>2
  <1>5. Ownership'
    <2>1. \A p \in Places \ {from, "response"} : Part'[p] = Part[p]
      BY <1>4 DEF Places
    <2> QED
      BY <1>1, <1>3, <1>4, <2>1, PartsMove DEF Inv
  <1>6. Acking' = Acking
    BY DEF Acking
  <1>7. Live' = Live
    <2>1. Part'.km \cup Part'.user \cup {b} = Part.km \cup Part.user
      <3>1. CASE from = "km"
        BY <3>1
      <3>2. CASE from = "user"
        BY <3>2
      <3> QED
        BY <3>1, <3>2
    <2>2. b \in Live
      <3>1. CASE from = "km"
        BY <3>1 DEF Live
      <3>2. CASE from = "user"
        BY <3>2 DEF Live
      <3> QED
        BY <3>1, <3>2
    <2> QED
      BY <1>4, <1>6, <2>1, <2>2 DEF Live
  <1>8. b \in Live /\ LiveMessage(b) /\ buffer[b] \in Message
    <2>1. b \in Live
      BY <1>4, <1>7 DEF Live
    <2> QED
      BY <2>1 DEF Inv, Messages, LiveMessage
  <1>9. /\ buffer'[b] = [buffer[b] EXCEPT !.data = buffer[b].req]
        /\ \A a \in Buffers \ {b} : buffer'[a] = buffer[a]
        /\ buffer' = [buffer EXCEPT ![b] = [buffer[b] EXCEPT !.data = buffer[b].req]]
    BY DEF driver_rpc_ack_mmio_finish, Inv, TypeOK, SharedTypes
  <1>10. /\ buffer'[b] \in Message /\ buffer'[b].slot = buffer[b].slot
         /\ buffer'[b].req = buffer[b].req /\ buffer'[b].data = buffer[b].req
    BY <1>8, <1>9 DEF Message
  <1>11. SharedTypes'
    <2>1. buffer' \in [Buffers -> {None} \cup Message]
      BY <1>9, <1>10 DEF Inv, TypeOK, SharedTypes
    <2> QED
      BY <1>3, <2>1 DEF Inv, TypeOK, SharedTypes
  <1>12. \A a \in Live : /\ buffer'[a] \in Message
                         /\ buffer'[a].slot = buffer[a].slot
                         /\ buffer'[a].req = buffer[a].req
    <2>1. \A a \in Live : a \in Buffers /\ buffer[a] \in Message
      BY LiveFacts DEF Inv, Messages, LiveMessage
    <2> QED
      BY <1>9, <1>10, <2>1
  <1>13. \A a \in Live : a \in Part'.response \cup Acking => buffer'[a].data = buffer[a].req
    <2>1. \A a \in Live : a \in Buffers
                          /\ (a \in Part.response \cup Acking => buffer[a].data = buffer[a].req)
      BY LiveFacts DEF Inv, Messages, LiveMessage
    <2> QED
      BY <1>4, <1>9, <1>10, <2>1
  <1>14. \A a \in Buffers \ Live : buffer'[a] = buffer[a]
    BY <1>8, <1>9
  <1> QED
    BY <1>5, <1>7, <1>11, <1>12, <1>13, <1>14, DeviceStepInv

LEMMA KernelAnswersInv ==
  ASSUME OneRequester, Inv, KernelAnswers
  PROVE  Inv'
  <1> USE DEF KernelAnswers
  <1>1. PICK b \in Buffers : b = km.id
    BY DEF Inv, ActorShape
  <1>2. /\ km' = [pc |-> "ring", id |-> None] /\ km'.pc = "ring" /\ km'.id = None
        /\ UNCHANGED <<thread, freeSlot, ioacks, lent, bell, ntfn, user, clientVars, aborted>>
        /\ driver_rpc_ack_mmio_finish(b)
    BY <1>1
  <1> HIDE DEF KernelAnswers
  <1>3. ActorTypes'
    BY <1>2 DEF Inv, TypeOK, ActorTypes
  <1>4. b \in Part["km"] /\ Part'["km"] = Part["km"] \ {b} /\ Part'["user"] = Part["user"]
    BY <1>1, <1>2, VmmFacts DEF Part
  <1> QED
    BY <1>2, <1>3, <1>4, AnswerInv

LEMMA UserAnswersInv ==
  ASSUME OneRequester, Inv, NEW b \in Buffers, UserAnswers(b)
  PROVE  Inv'
  <1> USE DEF UserAnswers
  <1>1. /\ user' = [held |-> user.held \ {b}, ringing |-> TRUE] /\ user'.held = user.held \ {b}
        /\ UNCHANGED <<thread, freeSlot, ioacks, lent, bell, ntfn, km, clientVars, aborted>>
        /\ driver_rpc_ack_mmio_finish(b) /\ b \in user.held
    OBVIOUS
  <1> HIDE DEF UserAnswers
  <1>2. ActorTypes'
    BY <1>1 DEF Inv, TypeOK, ActorTypes
  <1>3. b \in Part["user"] /\ Part'["user"] = Part["user"] \ {b} /\ Part'["km"] = Part["km"]
    BY <1>1 DEF Part
  <1>4. (km'.id # None => km'.pc = "handle") /\ (km'.pc = "handle" => km'.id \in Buffers)
    BY <1>1 DEF Inv, ActorShape
  <1> QED
    BY <1>1, <1>2, <1>3, <1>4, AnswerInv

-----------------------------------------------------------------------------
LEMMA StutterInv == ASSUME OneRequester, Inv, UNCHANGED vars PROVE Inv'
  <1> USE VmmFacts DEF Inv, vars, sharedVars, actorVars, clientVars
  <1>1. TypeOK'
    BY ThreadSame, SharedSame, ActorSame, ClientSame DEF TypeOK
  <1>2. NativeSlot' /\ ThreadShape' /\ ActorShape'
    <2>1. NativeSlot'
      BY DEF NativeSlot
    <2>2. ThreadShape'
      BY DEF ThreadShape, SlotOf
    <2>3. ActorShape'
      BY DEF ActorShape
    <2> QED
      BY <2>1, <2>2, <2>3
  <1>3. Part' = Part /\ Acking' = Acking /\ Live' = Live
    BY PartsUnchanged
  <1>4. Ownership'
    BY <1>3, PartsStay
  <1>5. Messages'
    <2>1. \A c \in Clients : SlotOf(c)' = SlotOf(c) /\ (Waits(c) => Waits(c)')
      BY DEF SlotOf, Waits
    <2> QED
      BY <2>1, <1>3, MessagesStay
  <1>6. Request'
    BY <1>3 DEF Request
  <1>7. Handoff' /\ VCpuValue'
    BY DEF Handoff, LeftBehind, SlotOf, VCpuValue
  <1> QED
    BY <1>1, <1>2, <1>4, <1>5, <1>6, <1>7

(* Every step preserves the invariant. *)
LEMMA NextInv == ASSUME OneRequester, Inv, [Next]_vars PROVE Inv'
  <1>1. ASSUME NEW v \in VCpus, Fault(v) \/ mmio_fault_handler(v) PROVE Inv'
    BY <1>1, FaultInv, mmio_fault_handlerInv
  <1>2. ASSUME NEW t \in NativeThreads, ioreq_native(t) \/ Requester(t) PROVE Inv'
    <2>1. t = Vmm
      BY VmmFacts
    <2>2. CASE ioreq_native(t) \/ LoadFreeSlot(t) \/ StoreFreeSlot(t) \/ ioreq_native_wait(t)
      BY <2>1, <2>2, ioreq_nativeInv, LoadFreeSlotInv, StoreFreeSlotInv, ioreq_native_waitInv
    <2>3. CASE SlotIsTaken(t) \/ NoBuffer(t)
      BY <2>3, AbortInv DEF SlotIsTaken, NoBuffer
    <2>4. CASE SlotIsFree(t) \/ RegisterCallback(t) \/ FindBuffer(t) \/ LendBuffer(t)
      BY <2>1, <2>4, SlotIsFreeInv, RegisterCallbackInv, FindBufferInv, LendBufferInv
    <2>5. CASE FillMessage(t) \/ SendRequest(t) \/ RequestRefused(t) \/ RingDevice(t)
      BY <2>1, <2>5, FillMessageInv, SendRequestInv, RequestRefusedInv, RingDeviceInv
    <2> QED
      BY <1>2, <2>2, <2>3, <2>4, <2>5 DEF Requester, ioreq_start
  <1>3. ASSUME ntfn_callback \/ rpc_run PROVE Inv'
    BY <1>3, ntfn_callbackInv, rpcmsg_receive_responseInv, ioreq_finishInv, ClearCallbackInv,
       rpcmsg_reclaim_bufferInv DEF rpc_run, handle_mmio
  <1>4. ASSUME KernelModule PROVE Inv'
    BY <1>4, DeviceIdleInv, rpcmsg_receiveInv, driver_rpc_request_fwdInv, KernelAnswersInv
       DEF KernelModule
  <1>5. ASSUME UserSpace PROVE Inv'
    BY <1>5, DeviceIdleInv, UserReceiveInv, UserAnswersInv DEF UserSpace
  <1>6. ASSUME UNCHANGED vars PROVE Inv'
    BY <1>6, StutterInv
  <1> QED
    BY <1>1, <1>2, <1>3, <1>4, <1>5, <1>6 DEF Next, Halted

LEMMA Invariance == ASSUME OneRequester PROVE Spec => []Inv
  <1>1. Init => Inv
    BY InitInv
  <1>2. Inv /\ [Next]_vars => Inv'
    BY NextInv
  <1> QED
    BY <1>1, <1>2, PTL DEF Spec

=============================================================================
