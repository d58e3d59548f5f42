--------------------------- MODULE RpcQueueProofs ---------------------------
(***************************************************************************)
(* Theorems about RpcQueue, for every number of threads and every ring     *)
(* size, and the lemmas they rest on.                                      *)
(***************************************************************************)
EXTENDS RpcQueue, FiniteSetTheorems, SequenceTheorems, TLAPS

USE DEF Sides, Claiming, Committing, InProgress

-----------------------------------------------------------------------------
(* Types.                                                                  *)

LEMMA InitTypeOK == Init => TypeOK
  BY SizeAssumption DEF Init, TypeOK, Marker, Unset, NoMsg

LEMMA SideType == \A t \in Threads : Side(t) \in Sides
  BY DEF Side

LEMMA AdvanceType ==
  ASSUME NEW m \in Marker
  PROVE  Advance(m) \in Marker
  BY DEF Advance, Marker

LEMMA NextHeadType ==
  ASSUME NEW o \in Marker, NEW t \in Marker
  PROVE  NextHead(o, t) \in Marker
  BY DEF NextHead, Marker

LEMMA ReturnType ==
  ASSUME TypeOK, NEW t \in Threads, Return(t)
  PROVE  /\ pc' \in [Threads -> {"idle"} \cup Claiming \cup InProgress]
         /\ ot' \in [Threads -> Marker]
         /\ oh' \in [Threads -> Marker]
         /\ tt' \in [Threads -> Marker]
         /\ msg' \in [Threads -> Nat]
  BY DEF TypeOK, Return, Goto, Unset, Marker, NoMsg

LEMMA RingIndexType ==
  ASSUME NEW p \in Nat
  PROVE  RingIndex(p) \in 0..(Size - 1)
  BY SizeAssumption DEF RingIndex

LEMMA NextTypeOK == TypeOK /\ [Next]_vars => TypeOK'
  <1> SUFFICES ASSUME TypeOK, [Next]_vars PROVE TypeOK'
    OBVIOUS
  <1>1. ASSUME NEW t \in Producers, BeginEnqueue(t) PROVE TypeOK'
    BY <1>1, SizeAssumption, SideType DEF BeginEnqueue, LoadTail, Goto, TypeOK, Threads
  <1>2. ASSUME NEW t \in Consumers, BeginDequeue(t) PROVE TypeOK'
    BY <1>2, SideType DEF BeginDequeue, LoadTail, Goto, TypeOK, Threads
  <1>3. ASSUME NEW t \in Threads, CallStep(t) PROVE TypeOK'
    <2> Side(t) \in Sides
      BY SideType
    <2>1. CASE TailWait(t)
      BY <2>1 DEF TailWait, Goto, TypeOK
    <2>2. CASE ReloadTail(t)
      BY <2>2 DEF ReloadTail, LoadTail, Goto, TypeOK
    <2>3. CASE CheckEntries(t)
      BY <2>3 DEF CheckEntries, Goto, TypeOK
    <2>4. CASE ReturnNoEntries(t)
      BY <2>4, ReturnType DEF ReturnNoEntries, TypeOK
    <2>5. CASE ClaimEntry(t)
      <3>1. Advance(ot[t]) \in Marker /\ msg[t] \in Nat
        BY AdvanceType DEF TypeOK
      <3>2. sent' \in Seq(Nat)
        <4>1. sent \in Seq(Nat) /\ Append(sent, msg[t]) \in Seq(Nat)
          BY <3>1, AppendProperties DEF TypeOK
        <4> QED
          BY <2>5, <4>1 DEF ClaimEntry
      <3> QED
        BY <2>5, <3>1, <3>2 DEF ClaimEntry, Goto, TypeOK
    <2>6. CASE LoseClaim(t)
      BY <2>6 DEF LoseClaim, FoundMarker, Goto, TypeOK
    <2>7. CASE CommitLoadHead(t)
      BY <2>7 DEF CommitLoadHead, Goto, TypeOK
    <2>8. CASE CommitLoadTail(t)
      BY <2>8 DEF CommitLoadTail, Goto, TypeOK
    <2>9. CASE Commit(t)
      <3>1. NextHead(oh[t], tt[t]) \in Marker
        BY NextHeadType DEF TypeOK
      <3> QED
        BY <2>9, <3>1, ReturnType DEF Commit, TypeOK
    <2>10. CASE LoseCommit(t)
      BY <2>10 DEF LoseCommit, FoundMarker, Goto, TypeOK
    <2> QED
      BY <1>3, <2>1, <2>2, <2>3, <2>4, <2>5, <2>6, <2>7, <2>8, <2>9, <2>10
      DEF CallStep
  <1>4. ASSUME NEW t \in Producers, EnqueueFn(t) PROVE TypeOK'
    <2>1. t \in Threads /\ ot[t].pos \in Nat /\ msg[t] \in Nat
      BY DEF Threads, TypeOK, Marker
    <2>2. RingIndex(ot[t].pos) \in 0..(Size - 1)
      BY <2>1, RingIndexType
    <2>3. {<<RingIndex(ot[t].pos), msg[t]>>} \in SUBSET ((0..(Size - 1)) \X Nat)
      BY <2>1, <2>2
    <2>4. stores' \in [Threads -> SUBSET ((0..(Size - 1)) \X Nat)]
      BY <1>4, <2>1, <2>3 DEF EnqueueFn, TypeOK
    <2> QED
      BY <1>4, <2>1, <2>2, <2>4 DEF EnqueueFn, Goto, TypeOK
  <1>5. ASSUME NEW t \in Producers, DrainStore(t) PROVE TypeOK'
    BY <1>5 DEF DrainStore, TypeOK, Threads
  <1>6. ASSUME NEW t \in Consumers, DequeueFn(t) PROVE TypeOK'
    <2>1. t \in Threads /\ ot[t].pos \in Nat
      BY DEF Threads, TypeOK, Marker
    <2>2. RingIndex(ot[t].pos) \in 0..(Size - 1)
      BY <2>1, RingIndexType
    <2> QED
      BY <1>6, <2>1, <2>2 DEF DequeueFn, Goto, TypeOK
  <1>7. CASE UNCHANGED vars
    BY <1>7 DEF vars, TypeOK
  <1> QED
    BY <1>1, <1>2, <1>3, <1>4, <1>5, <1>6, <1>7
    DEF Next, rpcmsg_enqueue, rpcmsg_dequeue, Threads

(***************************************************************************)
(* Every variable keeps its type, whatever the threads do.                 *)
(***************************************************************************)
THEOREM TypeCorrect == Spec => []TypeOK
  <1>1. TypeOK /\ [Next]_vars => TypeOK'
    BY NextTypeOK
  <1> QED
    BY InitTypeOK, <1>1, PTL DEF Spec

-----------------------------------------------------------------------------
(* Arithmetic on positions.                                                *)

LEMMA DivMod ==
  ASSUME NEW W \in Nat \ {0}, NEW a \in Int
  PROVE  /\ a % W \in 0..(W - 1)
         /\ a \div W \in Int
         /\ a = W * (a \div W) + (a % W)
  OBVIOUS

LEMMA NextMultiple ==
  ASSUME NEW W \in Nat \ {0}, NEW q \in Int, NEW r \in Int, q < r
  PROVE  W * q + W <= W * r
  OBVIOUS

(* Two numbers less than W apart that agree modulo W are equal. *)
LEMMA ModInjective ==
  ASSUME NEW W \in Nat \ {0}, NEW a \in Int, NEW b \in Int,
         a % W = b % W, a - b < W, b - a < W
  PROVE  a = b
  <1> DEFINE q == a \div W
             r == b \div W
  <1>1. /\ q \in Int /\ r \in Int /\ a % W \in Int
        /\ a = W * q + (a % W) /\ b = W * r + (b % W)
    BY DivMod
  <1>2. W * q \in Int /\ W * r \in Int
    BY <1>1
  <1>3. CASE q < r
    <2>1. W * q + W <= W * r
      BY <1>1, <1>3, NextMultiple
    <2> QED
      BY <2>1, <1>1, <1>2
  <1>4. CASE r < q
    <2>1. W * r + W <= W * q
      BY <1>1, <1>4, NextMultiple
    <2> QED
      BY <2>1, <1>1, <1>2
  <1>5. CASE q = r
    BY <1>1, <1>5
  <1> QED
    BY <1>1, <1>3, <1>4, <1>5

(* A difference that is not negative and less than Width does not wrap. *)
LEMMA NoWrap ==
  ASSUME NEW a \in 0..(Width - 1)
  PROVE  U32(a) = a
  BY SizeAssumption DEF U32

LEMMA MarkerFacts ==
  ASSUME NEW m \in Marker
  PROVE  m.pos \in Nat /\ m.count \in Nat /\ m = [pos |-> m.pos, count |-> m.count]
  BY DEF Marker

-----------------------------------------------------------------------------
(* The inductive invariant.  Its parts say what each marker counts, what a *)
(* thread may still conclude from a marker it has read earlier, and when   *)
(* two reads of a marker that agree modulo Width must agree.               *)

Claimers == {t \in Producers : pc[t] \in Claiming}

(* Tails move in position and count together; a head's count runs ahead of *)
(* its position while an older call is still at work.                      *)
MarkerOrder ==
    \A s \in Sides :
        /\ tail[s].count = tail[s].pos
        /\ Start <= head[s].pos
        /\ head[s].pos <= head[s].count
        /\ head[s].count <= tail[s].count
        /\ head[s].count = tail[s].count => head[s].pos = tail[s].pos

(* Every entry claimed was asked for by a call of rpcmsg_enqueue. *)
ClaimsBounded ==
    /\ tail["prod"].pos = Start + Len(sent)
    /\ Len(sent) + Cardinality(Claimers) <= attempts

(* The counts of a side differ by the number of calls between claim and commit. *)
CountsWorking ==
    \A s \in Sides : Cardinality(Working(s)) = tail[s].count - head[s].count

(* A tail once read is not ahead of the tail. *)
TailSnapshot(t) ==
    pc[t] # "idle" => /\ ot[t].count = ot[t].pos
                      /\ Start <= ot[t].pos
                      /\ ot[t].pos <= tail[Side(t)].pos

(* What was checked about a tail still holds if the tail has not moved. *)
CheckHolds(t) ==
    ot[t].pos = tail[Side(t)].pos =>
        /\ pc[t] \in {"check", "cas"} => ot[t].pos - head[Side(t)].pos <= HtdMax
        /\ pc[t] = "cas" => IF t \in Producers
                            THEN ot[t].pos < head["cons"].pos + Size
                            ELSE ot[t].pos < head["prod"].pos

(* The entries at work lie between head and tail and are all different. *)
WorkingEntry(t) ==
    pc[t] \in InProgress =>
        /\ head[Side(t)].pos <= ot[t].pos
        /\ ot[t].pos < tail[Side(t)].pos
        /\ \A u \in Working(Side(t)) : u # t => ot[u].pos # ot[t].pos

(* A head once read is the head if the count has not moved. *)
HeadSnapshot(t) ==
    pc[t] \in {"loadtail", "commit"} =>
        /\ Start <= oh[t].pos
        /\ oh[t].pos <= oh[t].count
        /\ oh[t].count <= head[Side(t)].count
        /\ oh[t].count = head[Side(t)].count => oh[t] = head[Side(t)]

(* While the head read is still the head, the tail read tells whether      *)
(* anybody is at work on an entry below it or beyond it.                   *)
CommitKnows(t) ==
    pc[t] = "commit" =>
        /\ tt[t].count = tt[t].pos
        /\ ot[t].pos < tt[t].pos
        /\ tt[t].pos <= tail[Side(t)].pos
        /\ oh[t].count = head[Side(t)].count =>
            /\ oh[t].count + 1 = tt[t].count =>
                  \A u \in Working(Side(t)) : u # t => tt[t].pos <= ot[u].pos
            /\ tt[t].pos < tail[Side(t)].pos =>
                  \E u \in Working(Side(t)) : u # t

ThreadInv(t) ==
    /\ TailSnapshot(t)
    /\ CheckHolds(t)
    /\ WorkingEntry(t)
    /\ HeadSnapshot(t)
    /\ CommitKnows(t)

Inv ==
    /\ TypeOK
    /\ MarkerOrder
    /\ ClaimsBounded
    /\ WindowOrder
    /\ DistanceBounded
    /\ CountsWorking
    /\ \A t \in Threads : ThreadInv(t)

LEMMA InitInv == Init => Inv
  <1> SUFFICES ASSUME Init PROVE Inv
    OBVIOUS
  <1>1. TypeOK
    BY InitTypeOK
  <1>2. \A s \in Sides : tail[s].pos = Start /\ tail[s].count = Start /\ head[s] = tail[s]
    BY DEF Init
  <1>3. \A t \in Threads : pc[t] = "idle"
    BY DEF Init
  <1>4. \A s \in Sides : Working(s) = {}
    BY <1>3 DEF Working
  <1>5. Claimers = {}
    BY <1>3 DEF Claimers, Threads
  <1>6. Cardinality({}) = 0
    BY FS_EmptySet
  <1>7. MarkerOrder /\ WindowOrder /\ DistanceBounded
    BY <1>2, SizeAssumption DEF MarkerOrder, WindowOrder, DistanceBounded
  <1>8. CountsWorking
    BY <1>2, <1>4, <1>6, SizeAssumption DEF CountsWorking
  <1>9. ClaimsBounded
    <2>1. Len(sent) = 0 /\ attempts = 0
      BY DEF Init
    <2> QED
      BY <1>2, <1>5, <1>6, <2>1, SizeAssumption DEF ClaimsBounded
  <1>10. \A t \in Threads : ThreadInv(t)
    BY <1>3 DEF ThreadInv, TailSnapshot, CheckHolds, WorkingEntry, HeadSnapshot, CommitKnows
  <1> QED
    BY <1>1, <1>7, <1>8, <1>9, <1>10 DEF Inv

(* The markers and their ranges, under the invariant. *)
LEMMA Ranges ==
  ASSUME Inv
  PROVE  \A s \in Sides :
            /\ tail[s] \in Marker /\ head[s] \in Marker
            /\ tail[s].pos \in Start..(Start + MaxOps)
            /\ tail[s].count = tail[s].pos
            /\ head[s].pos \in Start..tail[s].pos
            /\ head[s].count \in Start..tail[s].pos
  <1>1. \A s \in Sides : tail[s] \in Marker /\ head[s] \in Marker
    BY DEF Inv, TypeOK
  <1>2. \A s \in Sides : /\ tail[s].pos \in Nat /\ tail[s].count \in Nat
                         /\ head[s].pos \in Nat /\ head[s].count \in Nat
    BY <1>1, MarkerFacts
  <1>3. IsFiniteSet(Claimers)
    BY ThreadsAssumption, FS_Subset DEF Claimers, Threads
  <1>4. Cardinality(Claimers) \in Nat /\ Len(sent) \in Nat /\ attempts \in 0..MaxOps
    BY <1>3, FS_CardinalityType DEF Inv, TypeOK
  <1>5. tail["prod"].pos <= Start + MaxOps
    BY <1>2, <1>4, SizeAssumption DEF Inv, ClaimsBounded
  <1>6. tail["cons"].pos <= tail["prod"].pos
    BY <1>2 DEF Inv, WindowOrder
  <1> QED
    BY <1>1, <1>2, <1>5, <1>6, SizeAssumption DEF Inv, MarkerOrder

(* A compare-and-swap that succeeds found the very marker it expected: the *)
(* markers a call can have read are less than Width apart.                 *)
LEMMA SameIsEqual ==
  ASSUME NEW a \in Marker, NEW b \in Marker, SameMarker(a, b),
         a.pos \in Start..(Start + MaxOps), a.count \in Start..(Start + MaxOps),
         b.pos \in Start..(Start + MaxOps), b.count \in Start..(Start + MaxOps)
  PROVE  a = b
  <1>1. Width \in Nat \ {0} /\ MaxOps < Width
    BY SizeAssumption
  <1>2. a.pos = b.pos
    BY <1>1, ModInjective, SizeAssumption DEF SameMarker, U32
  <1>3. a.count = b.count
    BY <1>1, ModInjective, SizeAssumption DEF SameMarker, U32
  <1> QED
    BY <1>2, <1>3, MarkerFacts

LEMMA ClaimIsExact ==
  ASSUME Inv, NEW t \in Threads, pc[t] = "cas", SameMarker(tail[Side(t)], ot[t])
  PROVE  tail[Side(t)] = ot[t]
  <1>1. ot[t] \in Marker /\ Side(t) \in Sides
    BY SideType DEF Inv, TypeOK
  <1>2. ot[t].pos \in Nat /\ ot[t].count = ot[t].pos /\ Start <= ot[t].pos /\ ot[t].pos <= tail[Side(t)].pos
    BY <1>1, MarkerFacts DEF Inv, ThreadInv, TailSnapshot
  <1> QED
    BY <1>1, <1>2, Ranges, SameIsEqual, SizeAssumption

LEMMA CommitIsExact ==
  ASSUME Inv, NEW t \in Threads, pc[t] = "commit", SameMarker(head[Side(t)], oh[t])
  PROVE  /\ head[Side(t)] = oh[t]
         /\ NextHead(oh[t], tt[t]).count = oh[t].count + 1
         /\ NextHead(oh[t], tt[t]).pos = IF oh[t].count + 1 = tt[t].count
                                        THEN tt[t].pos ELSE oh[t].pos
  <1>1. oh[t] \in Marker /\ tt[t] \in Marker /\ ot[t] \in Marker /\ Side(t) \in Sides
    BY SideType DEF Inv, TypeOK
  <1>2. /\ oh[t].pos \in Nat /\ oh[t].count \in Nat
        /\ tt[t].pos \in Nat /\ tt[t].count \in Nat /\ ot[t].pos \in Nat
    BY <1>1, MarkerFacts
  <1>3. /\ Start <= oh[t].pos /\ oh[t].pos <= oh[t].count
        /\ oh[t].count <= head[Side(t)].count
    BY DEF Inv, ThreadInv, HeadSnapshot
  <1>4. head[Side(t)] = oh[t]
    BY <1>1, <1>2, <1>3, Ranges, SameIsEqual, SizeAssumption
  <1>5. /\ tt[t].count = tt[t].pos /\ ot[t].pos < tt[t].pos
        /\ tt[t].pos <= tail[Side(t)].pos /\ Start <= ot[t].pos
    BY DEF Inv, ThreadInv, CommitKnows, TailSnapshot
  <1>6. /\ oh[t].count + 1 \in Start..(Start + MaxOps + 1)
        /\ tt[t].count \in Start..(Start + MaxOps)
    BY <1>1, <1>2, <1>3, <1>5, Ranges, SizeAssumption
  <1>7. U32(oh[t].count + 1) = U32(tt[t].count) <=> oh[t].count + 1 = tt[t].count
    <2>1. Width \in Nat \ {0} /\ MaxOps + 1 < Width
      BY SizeAssumption
    <2> DEFINE a == oh[t].count + 1
               b == tt[t].count
    <2>2. a \in Int /\ b \in Int /\ a - b < Width /\ b - a < Width
      BY <1>6, <2>1, SizeAssumption
    <2> HIDE DEF a, b
    <2>3. a % Width = b % Width => a = b
      BY <2>1, <2>2, ModInjective
    <2> QED
      BY <2>3 DEF U32, a, b
  <1> QED
    BY <1>4, <1>7 DEF NextHead

(* A step of thread t that moves no marker and claims or commits nothing   *)
(* keeps the invariant if what t then holds in its locals is sound.        *)
LEMMA QuietStep ==
  ASSUME Inv, TypeOK', NEW t \in Threads,
         UNCHANGED <<tail, head, sent>>,
         \A u \in Threads \ {t} : /\ pc'[u] = pc[u] /\ ot'[u] = ot[u]
                                  /\ oh'[u] = oh[u] /\ tt'[u] = tt[u],
         pc[t] \in InProgress <=> pc'[t] \in InProgress,
         pc[t] \in InProgress => ot'[t] = ot[t],
         Len(sent) + Cardinality(Claimers') <= attempts',
         TailSnapshot(t)', CheckHolds(t)', HeadSnapshot(t)', CommitKnows(t)'
  PROVE  Inv'
  <1>1. \A s \in Sides : Working(s)' = Working(s)
    BY DEF Working, Side
  <1>2. MarkerOrder' /\ WindowOrder' /\ DistanceBounded'
    BY DEF Inv, MarkerOrder, WindowOrder, DistanceBounded
  <1>3. CountsWorking'
    BY <1>1 DEF Inv, CountsWorking
  <1>4. ClaimsBounded'
    BY DEF Inv, ClaimsBounded
  <1>5. \A u \in Threads : Side(u)' = Side(u) /\ Side(u) \in Sides
    BY DEF Side
  <1>6. \A u \in Threads : pc[u] \in InProgress => ot'[u] = ot[u]
    OBVIOUS
  <1>7. WorkingEntry(t)'
    BY <1>1, <1>5, <1>6 DEF Inv, ThreadInv, WorkingEntry, Working
  <1>8. ASSUME NEW u \in Threads \ {t} PROVE ThreadInv(u)'
    <2>1. TailSnapshot(u)'
      BY <1>5 DEF Inv, ThreadInv, TailSnapshot
    <2>2. CheckHolds(u)'
      BY <1>5 DEF Inv, ThreadInv, CheckHolds
    <2>3. WorkingEntry(u)'
      BY <1>1, <1>5, <1>6 DEF Inv, ThreadInv, WorkingEntry, Working
    <2>4. HeadSnapshot(u)'
      BY <1>5 DEF Inv, ThreadInv, HeadSnapshot
    <2>5. CommitKnows(u)'
      BY <1>1, <1>5, <1>6 DEF Inv, ThreadInv, CommitKnows, Working
    <2> QED
      BY <2>1, <2>2, <2>3, <2>4, <2>5 DEF ThreadInv
  <1> QED
    BY <1>2, <1>3, <1>4, <1>7, <1>8 DEF Inv, ThreadInv

-----------------------------------------------------------------------------
(* Each action keeps the invariant: first the quiet ones.                  *)

LEMMA ClaimersFinite == IsFiniteSet(Claimers) /\ Cardinality(Claimers) \in Nat
  BY ThreadsAssumption, FS_Subset, FS_CardinalityType DEF Claimers, Threads

LEMMA BeginEnqueueInv ==
  ASSUME Inv, TypeOK', NEW t \in Producers, BeginEnqueue(t)
  PROVE  Inv'
  <1>1. t \in Threads /\ Side(t) \in Sides
    BY SideType DEF Threads
  <1>2. /\ pc' = [pc EXCEPT ![t] = "wait"] /\ ot' = [ot EXCEPT ![t] = tail[Side(t)]]
        /\ pc'[t] = "wait" /\ ot'[t] = tail[Side(t)] /\ pc[t] = "idle"
    BY <1>1 DEF BeginEnqueue, Goto, LoadTail, Inv, TypeOK
  <1>3. Claimers' = Claimers \cup {t} /\ t \notin Claimers
    BY <1>1, <1>2 DEF Claimers, Inv, TypeOK, Threads
  <1>4. Cardinality(Claimers') = Cardinality(Claimers) + 1
    BY <1>3, ClaimersFinite, FS_AddElement
  <1>5. Len(sent) + Cardinality(Claimers') <= attempts'
    BY <1>4, ClaimersFinite DEF BeginEnqueue, Inv, ClaimsBounded, TypeOK
  <1>6. TailSnapshot(t)' /\ CheckHolds(t)' /\ HeadSnapshot(t)' /\ CommitKnows(t)'
    BY <1>1, <1>2, Ranges DEF BeginEnqueue, TailSnapshot, CheckHolds, HeadSnapshot, CommitKnows, Side
  <1> QED
    BY <1>1, <1>2, <1>5, <1>6, QuietStep DEF BeginEnqueue, Inv, TypeOK

(* The same threads of a side are between call and claim. *)
LEMMA SameClaimers ==
  ASSUME Inv, Claimers' \subseteq Claimers, attempts' = attempts
  PROVE  Len(sent) + Cardinality(Claimers') <= attempts'
  <1>1. Cardinality(Claimers') <= Cardinality(Claimers) /\ Cardinality(Claimers') \in Nat
    BY ClaimersFinite, FS_Subset, FS_CardinalityType
  <1> QED
    BY <1>1, ClaimersFinite DEF Inv, ClaimsBounded, TypeOK

LEMMA BeginDequeueInv ==
  ASSUME Inv, TypeOK', NEW t \in Consumers, BeginDequeue(t)
  PROVE  Inv'
  <1>1. t \in Threads /\ t \notin Producers /\ Side(t) \in Sides
    BY SideType, ThreadsAssumption DEF Threads
  <1>2. /\ pc' = [pc EXCEPT ![t] = "wait"] /\ ot' = [ot EXCEPT ![t] = tail[Side(t)]]
        /\ pc'[t] = "wait" /\ ot'[t] = tail[Side(t)] /\ pc[t] = "idle"
    BY <1>1 DEF BeginDequeue, Goto, LoadTail, Inv, TypeOK
  <1>3. Claimers' \subseteq Claimers
    BY <1>1, <1>2 DEF Claimers, Inv, TypeOK, Threads
  <1>4. Len(sent) + Cardinality(Claimers') <= attempts'
    BY <1>3, SameClaimers DEF BeginDequeue
  <1>5. TailSnapshot(t)' /\ CheckHolds(t)' /\ HeadSnapshot(t)' /\ CommitKnows(t)'
    BY <1>1, <1>2, Ranges DEF BeginDequeue, TailSnapshot, CheckHolds, HeadSnapshot, CommitKnows, Side
  <1> QED
    BY <1>1, <1>2, <1>4, <1>5, QuietStep DEF BeginDequeue, Inv, TypeOK

LEMMA TailWaitInv ==
  ASSUME Inv, TypeOK', NEW t \in Threads, TailWait(t)
  PROVE  Inv'
  <1>1. Side(t) \in Sides /\ ot[t] \in Marker /\ ot[t].pos \in Nat
    BY SideType, MarkerFacts DEF Inv, TypeOK
  <1>2. /\ pc[t] = "wait"
        /\ pc' = [pc EXCEPT ![t] = IF TooFarAhead(t) THEN "reload" ELSE "check"]
        /\ pc'[t] = IF TooFarAhead(t) THEN "reload" ELSE "check"
    BY DEF TailWait, Goto, Inv, TypeOK
  <1>3. Claimers' \subseteq Claimers
    BY <1>2 DEF Claimers, Inv, TypeOK, Threads
  <1>4. Len(sent) + Cardinality(Claimers') <= attempts'
    BY <1>3, SameClaimers DEF TailWait
  <1>5. TailSnapshot(t)' /\ HeadSnapshot(t)' /\ CommitKnows(t)'
    BY <1>2 DEF TailWait, Inv, ThreadInv, TailSnapshot, HeadSnapshot, CommitKnows, Side
  <1>6. CheckHolds(t)'
    <2> SUFFICES ASSUME ~TooFarAhead(t), ot[t].pos = tail[Side(t)].pos
                 PROVE  ot[t].pos - head[Side(t)].pos <= HtdMax
      BY <1>2 DEF TailWait, CheckHolds, Side
    <2>1. ot[t].pos - head[Side(t)].pos \in 0..(Width - 1)
      BY <1>1, Ranges, SizeAssumption
    <2> QED
      BY <1>1, <2>1, NoWrap, SizeAssumption DEF TooFarAhead
  <1> QED
    BY <1>2, <1>4, <1>5, <1>6, QuietStep DEF TailWait, Inv, TypeOK

LEMMA ReloadTailInv ==
  ASSUME Inv, TypeOK', NEW t \in Threads, ReloadTail(t)
  PROVE  Inv'
  <1>1. Side(t) \in Sides
    BY SideType
  <1>2. /\ pc[t] = "reload" /\ pc' = [pc EXCEPT ![t] = "wait"] /\ pc'[t] = "wait"
        /\ ot' = [ot EXCEPT ![t] = tail[Side(t)]] /\ ot'[t] = tail[Side(t)]
    BY DEF ReloadTail, LoadTail, Goto, Inv, TypeOK
  <1>3. Claimers' \subseteq Claimers
    BY <1>2 DEF Claimers, Inv, TypeOK, Threads
  <1>4. Len(sent) + Cardinality(Claimers') <= attempts'
    BY <1>3, SameClaimers DEF ReloadTail
  <1>5. TailSnapshot(t)' /\ CheckHolds(t)' /\ HeadSnapshot(t)' /\ CommitKnows(t)'
    BY <1>1, <1>2, Ranges DEF ReloadTail, TailSnapshot, CheckHolds, HeadSnapshot, CommitKnows, Side
  <1> QED
    BY <1>2, <1>4, <1>5, QuietStep DEF ReloadTail, Inv, TypeOK

LEMMA CheckEntriesInv ==
  ASSUME Inv, TypeOK', NEW t \in Threads, CheckEntries(t)
  PROVE  Inv'
  <1>1. Side(t) \in Sides /\ ot[t] \in Marker /\ ot[t].pos \in Nat
    BY SideType, MarkerFacts DEF Inv, TypeOK
  <1>2. /\ pc[t] = "check" /\ pc' = [pc EXCEPT ![t] = "cas"] /\ pc'[t] = "cas"
    BY DEF CheckEntries, Goto, Inv, TypeOK
  <1>3. Claimers' \subseteq Claimers
    BY <1>2 DEF Claimers, Inv, TypeOK, Threads
  <1>4. Len(sent) + Cardinality(Claimers') <= attempts'
    BY <1>3, SameClaimers DEF CheckEntries
  <1>5. TailSnapshot(t)' /\ HeadSnapshot(t)' /\ CommitKnows(t)'
    BY <1>2 DEF CheckEntries, Inv, ThreadInv, TailSnapshot, HeadSnapshot, CommitKnows, Side
  <1>6. CheckHolds(t)'
    <2> SUFFICES ASSUME ot[t].pos = tail[Side(t)].pos
                 PROVE  IF t \in Producers THEN ot[t].pos < head["cons"].pos + Size
                                           ELSE ot[t].pos < head["prod"].pos
      BY <1>2 DEF CheckEntries, CheckHolds, Side, Inv, ThreadInv
    <2>1. U32(0) = 0
      BY NoWrap, SizeAssumption
    <2>2. CASE t \in Producers
      <3>1. U32(Size + head["cons"].pos - ot[t].pos) # 0
        BY <2>2 DEF CheckEntries, Entries, FreeEntries
      <3>2. ot[t].pos <= head["cons"].pos + Size
        BY <2>2 DEF Side, Inv, WindowOrder
      <3>3. Size + head["cons"].pos - ot[t].pos # 0
        BY <2>1, <3>1
      <3> QED
        BY <1>1, <2>2, <3>2, <3>3, Ranges, SizeAssumption
    <2>3. CASE t \notin Producers
      <3>1. U32(head["prod"].pos - ot[t].pos) # 0
        BY <2>3 DEF CheckEntries, Entries, FilledEntries
      <3>2. ot[t].pos <= head["prod"].pos
        BY <2>3 DEF Side, Inv, WindowOrder
      <3>3. head["prod"].pos - ot[t].pos # 0
        BY <2>1, <3>1
      <3> QED
        BY <1>1, <2>3, <3>2, <3>3, Ranges, SizeAssumption
    <2> QED
      BY <2>2, <2>3
  <1> QED
    BY <1>2, <1>4, <1>5, <1>6, QuietStep DEF CheckEntries, Inv, TypeOK

LEMMA ReturnNoEntriesInv ==
  ASSUME Inv, TypeOK', NEW t \in Threads, ReturnNoEntries(t)
  PROVE  Inv'
  <1>1. /\ pc[t] = "check" /\ pc' = [pc EXCEPT ![t] = "idle"] /\ pc'[t] = "idle"
        /\ ot' = [ot EXCEPT ![t] = Unset] /\ oh' = [oh EXCEPT ![t] = Unset]
        /\ tt' = [tt EXCEPT ![t] = Unset]
    BY DEF ReturnNoEntries, Return, Goto, Inv, TypeOK
  <1>2. Claimers' \subseteq Claimers
    BY <1>1 DEF Claimers, Inv, TypeOK, Threads
  <1>3. Len(sent) + Cardinality(Claimers') <= attempts'
    BY <1>2, SameClaimers DEF ReturnNoEntries
  <1>4. TailSnapshot(t)' /\ CheckHolds(t)' /\ HeadSnapshot(t)' /\ CommitKnows(t)'
    BY <1>1 DEF TailSnapshot, CheckHolds, HeadSnapshot, CommitKnows
  <1> QED
    BY <1>1, <1>3, <1>4, QuietStep DEF ReturnNoEntries, Inv, TypeOK

LEMMA LoseClaimInv ==
  ASSUME Inv, TypeOK', NEW t \in Threads, LoseClaim(t)
  PROVE  Inv'
  <1>1. Side(t) \in Sides
    BY SideType
  <1>2. /\ pc[t] = "cas" /\ pc' = [pc EXCEPT ![t] = "wait"] /\ pc'[t] = "wait"
        /\ ot' = [ot EXCEPT ![t] = FoundMarker(t, ot[t], tail[Side(t)])]
        /\ ot'[t] \in {ot[t], tail[Side(t)]}
    BY DEF LoseClaim, FoundMarker, Goto, Inv, TypeOK
  <1>3. Claimers' \subseteq Claimers
    BY <1>2 DEF Claimers, Inv, TypeOK, Threads
  <1>4. Len(sent) + Cardinality(Claimers') <= attempts'
    BY <1>3, SameClaimers DEF LoseClaim
  <1>5. TailSnapshot(t)'
    BY <1>1, <1>2, Ranges DEF LoseClaim, Inv, ThreadInv, TailSnapshot, Side
  <1>6. CheckHolds(t)' /\ HeadSnapshot(t)' /\ CommitKnows(t)'
    BY <1>2 DEF CheckHolds, HeadSnapshot, CommitKnows
  <1> QED
    BY <1>2, <1>4, <1>5, <1>6, QuietStep DEF LoseClaim, Inv, TypeOK

LEMMA WorkingFinite == \A s \in Sides : IsFiniteSet(Working(s)) /\ Cardinality(Working(s)) \in Nat
  BY ThreadsAssumption, FS_Subset, FS_CardinalityType DEF Working

LEMMA TwoMembers ==
  ASSUME NEW S, IsFiniteSet(S), NEW t \in S, NEW u \in S, t # u
  PROVE  Cardinality(S) >= 2
  <1>1. IsFiniteSet(S \ {t}) /\ Cardinality(S \ {t}) = Cardinality(S) - 1
    BY FS_RemoveElement
  <1>2. IsFiniteSet((S \ {t}) \ {u}) /\ Cardinality((S \ {t}) \ {u}) = Cardinality(S \ {t}) - 1
    BY <1>1, FS_RemoveElement
  <1>3. Cardinality(S) \in Nat /\ Cardinality((S \ {t}) \ {u}) \in Nat
    BY <1>2, FS_CardinalityType
  <1> QED
    BY <1>1, <1>2, <1>3

LEMMA OneMember ==
  ASSUME NEW S, IsFiniteSet(S), NEW t \in S
  PROVE  Cardinality(S) >= 1
  <1>1. IsFiniteSet(S \ {t}) /\ Cardinality(S \ {t}) = Cardinality(S) - 1
    BY FS_RemoveElement
  <1> QED
    BY <1>1, FS_CardinalityType

LEMMA SlotWorkInv ==
  ASSUME Inv, TypeOK', NEW t \in Threads, EnqueueFn(t) \/ DequeueFn(t)
  PROVE  Inv'
  <1>1. /\ pc[t] = "slot" /\ pc' = [pc EXCEPT ![t] = "loadhead"] /\ pc'[t] = "loadhead"
        /\ UNCHANGED <<tail, head, ot, oh, tt, attempts, sent>>
    BY DEF EnqueueFn, DequeueFn, Goto, Inv, TypeOK
  <1>2. Claimers' \subseteq Claimers
    BY <1>1 DEF Claimers, Inv, TypeOK, Threads
  <1>3. Len(sent) + Cardinality(Claimers') <= attempts'
    BY <1>1, <1>2, SameClaimers
  <1>4. TailSnapshot(t)' /\ CheckHolds(t)' /\ HeadSnapshot(t)' /\ CommitKnows(t)'
    BY <1>1 DEF Inv, ThreadInv, TailSnapshot, CheckHolds, HeadSnapshot, CommitKnows, Side
  <1> QED
    BY <1>1, <1>3, <1>4, QuietStep DEF Inv, TypeOK

LEMMA DrainStoreInv ==
  ASSUME Inv, TypeOK', NEW t \in Producers, DrainStore(t)
  PROVE  Inv'
  <1>1. t \in Threads /\ UNCHANGED <<tail, head, pc, ot, oh, tt, attempts, sent>>
    BY DEF DrainStore, Threads
  <1>2. Claimers' \subseteq Claimers
    BY <1>1 DEF Claimers
  <1>3. Len(sent) + Cardinality(Claimers') <= attempts'
    BY <1>1, <1>2, SameClaimers
  <1>4. Working(Side(t))' = Working(Side(t))
    BY <1>1 DEF Working, Side
  <1>5. TailSnapshot(t)' /\ CheckHolds(t)' /\ HeadSnapshot(t)' /\ CommitKnows(t)'
    BY <1>1, <1>4 DEF Inv, ThreadInv, TailSnapshot, CheckHolds, HeadSnapshot, CommitKnows, Side
  <1> QED
    BY <1>1, <1>3, <1>5, QuietStep

LEMMA CommitLoadHeadInv ==
  ASSUME Inv, TypeOK', NEW t \in Threads, CommitLoadHead(t)
  PROVE  Inv'
  <1>1. Side(t) \in Sides
    BY SideType
  <1>2. /\ pc[t] = "loadhead" /\ pc' = [pc EXCEPT ![t] = "loadtail"] /\ pc'[t] = "loadtail"
        /\ oh' = [oh EXCEPT ![t] = head[Side(t)]] /\ oh'[t] = head[Side(t)]
    BY DEF CommitLoadHead, Goto, Inv, TypeOK
  <1>3. Claimers' \subseteq Claimers
    BY <1>2 DEF Claimers, Inv, TypeOK, Threads
  <1>4. Len(sent) + Cardinality(Claimers') <= attempts'
    BY <1>3, SameClaimers DEF CommitLoadHead
  <1>5. TailSnapshot(t)' /\ CheckHolds(t)' /\ CommitKnows(t)'
    BY <1>2 DEF CommitLoadHead, Inv, ThreadInv, TailSnapshot, CheckHolds, CommitKnows, Side
  <1>6. HeadSnapshot(t)'
    BY <1>1, <1>2, Ranges DEF CommitLoadHead, Inv, MarkerOrder, HeadSnapshot, Side
  <1> QED
    BY <1>2, <1>4, <1>5, <1>6, QuietStep DEF CommitLoadHead, Inv, TypeOK

LEMMA CommitLoadTailInv ==
  ASSUME Inv, TypeOK', NEW t \in Threads, CommitLoadTail(t)
  PROVE  Inv'
  <1>1. Side(t) \in Sides
    BY SideType
  <1>2. /\ pc[t] = "loadtail" /\ pc' = [pc EXCEPT ![t] = "commit"] /\ pc'[t] = "commit"
        /\ tt' = [tt EXCEPT ![t] = tail[Side(t)]] /\ tt'[t] = tail[Side(t)]
    BY DEF CommitLoadTail, Goto, Inv, TypeOK
  <1>3. Claimers' \subseteq Claimers
    BY <1>2 DEF Claimers, Inv, TypeOK, Threads
  <1>4. Len(sent) + Cardinality(Claimers') <= attempts'
    BY <1>3, SameClaimers DEF CommitLoadTail
  <1>5. TailSnapshot(t)' /\ CheckHolds(t)' /\ HeadSnapshot(t)'
    BY <1>2 DEF CommitLoadTail, Inv, ThreadInv, TailSnapshot, CheckHolds, HeadSnapshot, Side
  <1>6. CommitKnows(t)'
    <2>1. t \in Working(Side(t)) /\ Working(Side(t))' = Working(Side(t))
      BY <1>2 DEF CommitLoadTail, Working, Side, Inv, TypeOK
    <2>2. ASSUME head[Side(t)].count + 1 = tail[Side(t)].count,
                 NEW u \in Working(Side(t)), u # t
          PROVE  FALSE
      <3>1. Cardinality(Working(Side(t))) >= 2
        BY <1>1, <2>1, <2>2, TwoMembers, WorkingFinite
      <3> QED
        BY <1>1, <2>2, <3>1, Ranges, WorkingFinite, SizeAssumption DEF Inv, CountsWorking
    <2>3. tail[Side(t)].count = tail[Side(t)].pos /\ tail[Side(t)].pos \in Nat
      BY <1>1, Ranges, SizeAssumption
    <2>4. ot[t].pos < tail[Side(t)].pos
      BY <1>2 DEF Inv, ThreadInv, WorkingEntry
    <2> QED
      BY <1>2, <2>1, <2>2, <2>3, <2>4 DEF CommitLoadTail, CommitKnows, Side
  <1> QED
    BY <1>2, <1>4, <1>5, <1>6, QuietStep DEF CommitLoadTail, Inv, TypeOK

LEMMA LoseCommitInv ==
  ASSUME Inv, TypeOK', NEW t \in Threads, LoseCommit(t)
  PROVE  Inv'
  <1>1. Side(t) \in Sides
    BY SideType
  <1>2. /\ pc[t] = "commit" /\ pc' = [pc EXCEPT ![t] = "loadtail"] /\ pc'[t] = "loadtail"
        /\ oh' = [oh EXCEPT ![t] = FoundMarker(t, oh[t], head[Side(t)])]
        /\ oh'[t] \in {oh[t], head[Side(t)]}
    BY DEF LoseCommit, FoundMarker, Goto, Inv, TypeOK
  <1>3. Claimers' \subseteq Claimers
    BY <1>2 DEF Claimers, Inv, TypeOK, Threads
  <1>4. Len(sent) + Cardinality(Claimers') <= attempts'
    BY <1>3, SameClaimers DEF LoseCommit
  <1>5. TailSnapshot(t)' /\ CheckHolds(t)' /\ CommitKnows(t)'
    BY <1>2 DEF LoseCommit, Inv, ThreadInv, TailSnapshot, CheckHolds, CommitKnows, Side
  <1>6. HeadSnapshot(t)'
    BY <1>1, <1>2, Ranges DEF LoseCommit, Inv, ThreadInv, MarkerOrder, HeadSnapshot, Side
  <1> QED
    BY <1>2, <1>4, <1>5, <1>6, QuietStep DEF LoseCommit, Inv, TypeOK

-----------------------------------------------------------------------------
(* The two actions that move a marker.                                     *)

LEMMA ClaimEntryInv ==
  ASSUME Inv, TypeOK', NEW t \in Threads, ClaimEntry(t)
  PROVE  Inv'
  <1> DEFINE s == Side(t)
  <1>1. s \in Sides /\ ot[t] = tail[s] /\ pc[t] = "cas"
    BY SideType, ClaimIsExact DEF ClaimEntry
  <1>2. /\ pc' = [pc EXCEPT ![t] = "slot"] /\ pc'[t] = "slot"
        /\ \A u \in Threads : u # t => pc'[u] = pc[u]
        /\ UNCHANGED <<head, ot, oh, tt, attempts>>
    BY DEF ClaimEntry, Goto, Inv, TypeOK
  <1>3. /\ tail'[s].pos = tail[s].pos + 1 /\ tail'[s].count = tail[s].count + 1
        /\ \A r \in Sides : r # s => tail'[r] = tail[r]
    BY <1>1 DEF ClaimEntry, Advance, Inv, TypeOK
  <1>4. \A r \in Sides : /\ tail[r].pos \in Nat /\ tail[r].count = tail[r].pos
                         /\ head[r].pos \in Nat /\ head[r].count \in Nat
    BY Ranges, SizeAssumption
  <1>5. \A u \in Threads : /\ ot[u].pos \in Nat /\ ot[u].count \in Nat
                           /\ oh[u].pos \in Nat /\ oh[u].count \in Nat
                           /\ tt[u].pos \in Nat /\ tt[u].count \in Nat
    BY MarkerFacts DEF Inv, TypeOK
  <1>6. \A u \in Threads : Side(u)' = Side(u) /\ Side(u) \in Sides
    BY DEF Side
  <1>7. /\ Working(s)' = Working(s) \cup {t} /\ t \notin Working(s)
        /\ \A r \in Sides : r # s => Working(r)' = Working(r)
    BY <1>1, <1>2 DEF Working, Side
  <1> HIDE DEF s
  <1>8. MarkerOrder'
    BY <1>1, <1>2, <1>3, <1>4 DEF Inv, MarkerOrder
  <1>9. WindowOrder'
    <2>1. CheckHolds(t)
      BY DEF Inv, ThreadInv
    <2>2. CASE t \in Producers
      <3>1. s = "prod"
        BY <2>2 DEF s, Side
      <3>2. tail[s].pos < head["cons"].pos + Size
        BY <1>1, <2>1, <2>2 DEF CheckHolds, s
      <3> QED
        BY <1>2, <1>3, <1>4, <3>1, <3>2, SizeAssumption DEF Inv, WindowOrder
    <2>3. CASE t \notin Producers
      <3>1. s = "cons"
        BY <2>3 DEF s, Side
      <3>2. tail[s].pos < head["prod"].pos
        BY <1>1, <2>1, <2>3 DEF CheckHolds, s
      <3> QED
        BY <1>2, <1>3, <1>4, <3>1, <3>2, SizeAssumption DEF Inv, WindowOrder
    <2> QED
      BY <2>2, <2>3
  <1>10. ClaimsBounded'
    <2>1. CASE t \in Producers
      <3>1. s = "prod" /\ sent' = Append(sent, msg[t])
        BY <2>1 DEF s, Side, ClaimEntry
      <3>2. sent \in Seq(Nat) /\ msg[t] \in Nat
        BY DEF Inv, TypeOK
      <3>3. Len(sent') = Len(sent) + 1 /\ Len(sent) \in Nat
        BY <3>1, <3>2, AppendProperties
      <3>4. Claimers' = Claimers \ {t} /\ t \in Claimers
        BY <1>1, <1>2, <2>1 DEF Claimers, Threads
      <3>5. Cardinality(Claimers') = Cardinality(Claimers) - 1
        BY <3>4, ClaimersFinite, FS_RemoveElement
      <3>6. tail'["prod"].pos = Start + Len(sent')
        BY <1>3, <3>1, <3>3, SizeAssumption DEF Inv, ClaimsBounded
      <3>7. Len(sent') + Cardinality(Claimers') <= attempts'
        <4>1. Len(sent) + Cardinality(Claimers) <= attempts /\ attempts' = attempts
          BY <1>2 DEF Inv, ClaimsBounded
        <4>2. attempts \in Nat /\ Cardinality(Claimers) \in Nat
          BY ClaimersFinite DEF Inv, TypeOK
        <4> QED
          BY <4>1, <4>2, <3>3, <3>5
      <3> QED
        BY <3>6, <3>7 DEF ClaimsBounded
    <2>2. CASE t \notin Producers
      <3>1. s = "cons" /\ sent' = sent
        BY <2>2 DEF s, Side, ClaimEntry
      <3>2. Claimers' = Claimers
        BY <1>2, <2>2 DEF Claimers, Threads
      <3> QED
        BY <1>2, <1>3, <3>1, <3>2 DEF Inv, ClaimsBounded
    <2> QED
      BY <2>1, <2>2
  <1>11. CountsWorking'
    <2>1. Cardinality(Working(s)') = Cardinality(Working(s)) + 1
      BY <1>1, <1>7, WorkingFinite, FS_AddElement
    <2>2. \A r \in Sides : Cardinality(Working(r)) = tail[r].count - head[r].count
      BY DEF Inv, CountsWorking
    <2>3. Cardinality(Working(s)') = tail'[s].count - head'[s].count
      BY <1>1, <1>2, <1>3, <1>4, <2>1, <2>2
    <2>4. \A r \in Sides : r # s => Cardinality(Working(r)') = tail'[r].count - head'[r].count
      BY <1>2, <1>3, <1>7, <2>2
    <2> QED
      BY <2>3, <2>4 DEF CountsWorking
  <1>12. ASSUME NEW u \in Threads PROVE ThreadInv(u)'
    <2>1. TailSnapshot(u)'
      <3>1. pc[u] # "idle" => ot[u].pos <= tail'[Side(u)].pos
        BY <1>3, <1>4, <1>5, <1>6 DEF Inv, ThreadInv, TailSnapshot
      <3> QED
        BY <1>1, <1>2, <1>6, <3>1 DEF Inv, ThreadInv, TailSnapshot
    <2>2. CheckHolds(u)'
      <3>1. CASE u = t
        BY <1>2, <3>1 DEF CheckHolds
      <3>2. CASE u # t /\ Side(u) = s
        <4>1. pc[u] # "idle" => ot[u].pos # tail'[s].pos
          BY <1>1, <1>3, <1>4, <1>5, <3>2 DEF Inv, ThreadInv, TailSnapshot
        <4> QED
          BY <1>2, <1>6, <3>2, <4>1 DEF CheckHolds
      <3>3. CASE u # t /\ Side(u) # s
        BY <1>2, <1>3, <1>6, <3>3 DEF Inv, ThreadInv, CheckHolds
      <3> QED
        BY <3>1, <3>2, <3>3
    <2>3. WorkingEntry(u)'
      <3>1. \A v \in Working(s) : ot[v].pos < tail[s].pos
        BY <1>1 DEF Inv, ThreadInv, WorkingEntry, Working
      <3>2. CASE u = t
        <4>1. \A v \in Working(s)' : v # t => ot[v].pos # ot[t].pos
          BY <1>1, <1>4, <1>5, <1>7, <3>1 DEF Working
        <4> QED
          BY <1>1, <1>2, <1>3, <1>4, <1>6, <3>2, <4>1 DEF WorkingEntry, s, Inv, MarkerOrder
      <3>3. CASE u # t /\ Side(u) = s
        <4>1. pc[u] \in InProgress => u \in Working(s)
          BY <3>3 DEF Working
        <4> QED
          BY <1>1, <1>2, <1>3, <1>4, <1>5, <1>6, <1>7, <3>1, <3>3, <4>1
          DEF Inv, ThreadInv, WorkingEntry
      <3>4. CASE u # t /\ Side(u) # s
        BY <1>2, <1>3, <1>6, <1>7, <3>4 DEF Inv, ThreadInv, WorkingEntry
      <3> QED
        BY <3>2, <3>3, <3>4
    <2>4. HeadSnapshot(u)'
      BY <1>2, <1>6 DEF Inv, ThreadInv, HeadSnapshot
    <2>5. CommitKnows(u)'
      <3>1. CASE u = t
        BY <1>2, <3>1 DEF CommitKnows
      <3>2. CASE u # t /\ Side(u) = s
        <4> SUFFICES ASSUME pc[u] = "commit" PROVE CommitKnows(u)'
          BY <1>2, <3>2 DEF CommitKnows
        <4>1. CommitKnows(u)
          BY DEF Inv, ThreadInv
        <4>2. tt[u].pos <= ot[t].pos /\ tt[u].pos <= tail'[s].pos
          BY <1>1, <1>3, <1>4, <1>5, <3>2, <4>1 DEF CommitKnows
        <4>3. t \in Working(s)' /\ t # u
          BY <1>7, <3>2
        <4> QED
          BY <1>2, <1>6, <1>7, <3>2, <4>1, <4>2, <4>3 DEF CommitKnows
      <3>3. CASE u # t /\ Side(u) # s
        <4>1. CommitKnows(u) /\ Working(Side(u))' = Working(Side(u))
          BY <1>6, <1>7, <3>3 DEF Inv, ThreadInv
        <4> QED
          BY <1>2, <1>3, <1>6, <3>3, <4>1 DEF CommitKnows
      <3> QED
        BY <3>1, <3>2, <3>3
    <2> QED
      BY <2>1, <2>2, <2>3, <2>4, <2>5 DEF ThreadInv
  <1>13. DistanceBounded'
    <2>1. tail[s].pos - head[s].pos <= HtdMax
      BY <1>1 DEF Inv, ThreadInv, CheckHolds, s
    <2> QED
      BY <1>1, <1>2, <1>3, <1>4, <2>1, SizeAssumption DEF Inv, DistanceBounded
  <1> QED
    BY <1>8, <1>9, <1>10, <1>11, <1>12, <1>13 DEF Inv

LEMMA CommitInv ==
  ASSUME Inv, TypeOK', NEW t \in Threads, Commit(t)
  PROVE  Inv'
  <1> DEFINE s == Side(t)
             n == NextHead(oh[t], tt[t])
  <1>1. /\ s \in Sides /\ pc[t] = "commit" /\ oh[t] = head[s]
        /\ n.count = head[s].count + 1
        /\ n.pos = IF head[s].count + 1 = tt[t].count THEN tt[t].pos ELSE head[s].pos
    BY SideType, CommitIsExact DEF Commit
  <1>2. /\ pc' = [pc EXCEPT ![t] = "idle"] /\ pc'[t] = "idle"
        /\ \A u \in Threads : u # t => /\ pc'[u] = pc[u] /\ ot'[u] = ot[u]
                                       /\ oh'[u] = oh[u] /\ tt'[u] = tt[u]
        /\ UNCHANGED <<tail, attempts, sent>>
    BY DEF Commit, Return, Goto, Inv, TypeOK
  <1>3. head'[s] = n /\ \A r \in Sides : r # s => head'[r] = head[r]
    BY <1>1 DEF Commit, Inv, TypeOK
  <1>4. \A r \in Sides : /\ tail[r].pos \in Nat /\ tail[r].count = tail[r].pos
                         /\ head[r].pos \in Nat /\ head[r].count \in Nat
    BY Ranges, SizeAssumption
  <1>5. \A u \in Threads : /\ ot[u].pos \in Nat /\ ot[u].count \in Nat
                           /\ oh[u].pos \in Nat /\ oh[u].count \in Nat
                           /\ tt[u].pos \in Nat /\ tt[u].count \in Nat
    BY MarkerFacts DEF Inv, TypeOK
  <1>6. \A u \in Threads : Side(u)' = Side(u) /\ Side(u) \in Sides
    BY DEF Side
  <1>7. /\ Working(s)' = Working(s) \ {t} /\ t \in Working(s)
        /\ \A r \in Sides : r # s => Working(r)' = Working(r)
    BY <1>1, <1>2 DEF Working, Side
  <1>8. /\ head[s].pos <= ot[t].pos /\ ot[t].pos < tt[t].pos
        /\ tt[t].count = tt[t].pos /\ tt[t].pos <= tail[s].pos
        /\ head[s].count + 1 = tt[t].count =>
              \A u \in Working(s) : u # t => tt[t].pos <= ot[u].pos
        /\ tt[t].pos < tail[s].pos => \E u \in Working(s) : u # t
    BY <1>1 DEF Inv, ThreadInv, WorkingEntry, CommitKnows
  <1> HIDE DEF s, n
  <1>9. Cardinality(Working(s)) = tail[s].count - head[s].count
    BY <1>1 DEF Inv, CountsWorking
  <1>10. head[s].count + 1 <= tail[s].count
    BY <1>1, <1>4, <1>7, <1>9, OneMember, WorkingFinite
  <1>11. head[s].pos <= n.pos /\ n.pos <= tail[s].pos /\ n.pos \in Nat
    BY <1>1, <1>4, <1>5, <1>8, <1>10 DEF Inv, MarkerOrder
  <1>12. n.count = tail[s].count => n.pos = tail[s].pos
    <2> SUFFICES ASSUME head[s].count + 1 = tail[s].count PROVE tt[t].pos = tail[s].pos
      BY <1>1, <1>4, <1>5, <1>8
    <2>1. ~ \E u \in Working(s) : u # t
      BY <1>1, <1>4, <1>7, <1>9, TwoMembers, WorkingFinite
    <2> QED
      BY <1>1, <1>4, <1>5, <1>8, <2>1
  <1>13. MarkerOrder'
    <2>1. n.pos <= n.count /\ n.count <= tail[s].count
      BY <1>1, <1>4, <1>5, <1>8, <1>10 DEF Inv, MarkerOrder
    <2>2. Start <= n.pos
      BY <1>1, <1>4, <1>11, SizeAssumption DEF Inv, MarkerOrder
    <2> QED
      BY <1>2, <1>3, <1>12, <2>1, <2>2 DEF Inv, MarkerOrder
  <1>14. WindowOrder'
    <2>1. CASE s = "prod"
      BY <1>2, <1>3, <1>4, <1>11, <2>1 DEF Inv, WindowOrder
    <2>2. CASE s = "cons"
      BY <1>2, <1>3, <1>4, <1>11, <2>2, SizeAssumption DEF Inv, WindowOrder
    <2> QED
      BY <1>1, <2>1, <2>2
  <1>15. ClaimsBounded'
    <2>1. Claimers' = Claimers
      BY <1>1, <1>2 DEF Claimers, Threads
    <2> QED
      BY <1>2, <2>1 DEF Inv, ClaimsBounded
  <1>16. CountsWorking'
    <2>1. Cardinality(Working(s)') = Cardinality(Working(s)) - 1
      BY <1>1, <1>7, WorkingFinite, FS_RemoveElement
    <2>2. Cardinality(Working(s)') = tail'[s].count - head'[s].count
      BY <1>1, <1>2, <1>3, <1>4, <1>9, <2>1
    <2>3. \A r \in Sides : r # s => Cardinality(Working(r)') = tail'[r].count - head'[r].count
      BY <1>2, <1>3, <1>7 DEF Inv, CountsWorking
    <2> QED
      BY <2>2, <2>3 DEF CountsWorking
  <1>17. ThreadInv(t)'
    BY <1>2 DEF ThreadInv, TailSnapshot, CheckHolds, WorkingEntry, HeadSnapshot, CommitKnows
  <1>18. ASSUME NEW u \in Threads, u # t PROVE ThreadInv(u)'
    <2>1. TailSnapshot(u)'
      BY <1>2, <1>6, <1>18 DEF Inv, ThreadInv, TailSnapshot
    <2>2. CheckHolds(u)'
      <3>1. \A r \in Sides : head[r].pos <= head'[r].pos /\ head'[r].pos \in Nat
        BY <1>1, <1>3, <1>4, <1>11
      <3>2. CheckHolds(u)
        BY DEF Inv, ThreadInv
      <3> QED
        BY <1>2, <1>4, <1>5, <1>6, <1>18, <3>1, <3>2, SizeAssumption DEF CheckHolds
    <2>3. WorkingEntry(u)'
      <3>1. \A v \in Working(Side(u))' : v \in Working(Side(u)) /\ ot'[v] = ot[v]
        BY <1>1, <1>2, <1>6, <1>7 DEF Working, s
      <3>2. WorkingEntry(u)
        BY DEF Inv, ThreadInv
      <3>3. CASE Side(u) = s
        <4> SUFFICES ASSUME pc[u] \in InProgress PROVE WorkingEntry(u)'
          BY <1>2, <1>18 DEF WorkingEntry
        <4>1. u \in Working(s)
          BY <3>3 DEF Working
        <4>2. n.pos <= ot[u].pos
          BY <1>1, <1>8, <1>18, <3>2, <3>3, <4>1 DEF WorkingEntry
        <4> QED
          BY <1>2, <1>3, <1>6, <1>18, <3>1, <3>2, <3>3, <4>2 DEF WorkingEntry
      <3>4. CASE Side(u) # s
        BY <1>2, <1>3, <1>6, <1>18, <3>1, <3>2, <3>4 DEF WorkingEntry
      <3> QED
        BY <3>3, <3>4
    <2>4. pc[u] \in {"loadtail", "commit"} /\ Side(u) = s =>
             oh[u].count <= head[s].count /\ oh[u].count # head'[s].count
      BY <1>1, <1>3, <1>4, <1>5 DEF Inv, ThreadInv, HeadSnapshot
    <2>5. HeadSnapshot(u)'
      <3>1. HeadSnapshot(u)
        BY DEF Inv, ThreadInv
      <3>2. CASE Side(u) = s
        BY <1>1, <1>2, <1>3, <1>4, <1>5, <1>6, <1>18, <2>4, <3>1, <3>2 DEF HeadSnapshot
      <3>3. CASE Side(u) # s
        BY <1>2, <1>3, <1>6, <1>18, <3>1, <3>3 DEF HeadSnapshot
      <3> QED
        BY <3>2, <3>3
    <2>6. CommitKnows(u)'
      <3>1. CommitKnows(u)
        BY DEF Inv, ThreadInv
      <3>2. CASE Side(u) = s
        BY <1>2, <1>6, <1>18, <2>4, <3>1, <3>2 DEF CommitKnows
      <3>3. CASE Side(u) # s
        <4>1. Working(Side(u))' = Working(Side(u)) /\ \A v \in Working(Side(u)) : ot'[v] = ot[v]
          BY <1>2, <1>6, <1>7, <3>3 DEF Working, s
        <4> QED
          BY <1>2, <1>3, <1>6, <1>18, <3>1, <3>3, <4>1 DEF CommitKnows
      <3> QED
        BY <3>2, <3>3
    <2> QED
      BY <2>1, <2>2, <2>3, <2>5, <2>6 DEF ThreadInv
  <1>19. DistanceBounded'
    BY <1>1, <1>2, <1>3, <1>4, <1>11, SizeAssumption DEF Inv, DistanceBounded
  <1> QED
    BY <1>13, <1>14, <1>15, <1>16, <1>17, <1>18, <1>19 DEF Inv

-----------------------------------------------------------------------------
(* The theorems about positions.                                           *)

LEMMA NextInv == Inv /\ [Next]_vars => Inv'
  <1> SUFFICES ASSUME Inv, [Next]_vars PROVE Inv'
    OBVIOUS
  <1>1. TypeOK'
    BY NextTypeOK DEF Inv
  <1>2. ASSUME NEW t \in Threads, CallStep(t) PROVE Inv'
    BY <1>1, <1>2, TailWaitInv, ReloadTailInv, CheckEntriesInv, ReturnNoEntriesInv,
       ClaimEntryInv, LoseClaimInv, CommitLoadHeadInv, CommitLoadTailInv,
       CommitInv, LoseCommitInv
    DEF CallStep
  <1>3. ASSUME NEW t \in Producers,
               BeginEnqueue(t) \/ rpcmsg_enqueue(t) \/ DrainStore(t)
        PROVE  Inv'
    BY <1>1, <1>2, <1>3, BeginEnqueueInv, SlotWorkInv, DrainStoreInv
    DEF rpcmsg_enqueue, Threads
  <1>4. ASSUME NEW t \in Consumers, BeginDequeue(t) \/ rpcmsg_dequeue(t)
        PROVE  Inv'
    BY <1>1, <1>2, <1>4, BeginDequeueInv, SlotWorkInv DEF rpcmsg_dequeue, Threads
  <1>5. CASE UNCHANGED vars
    BY <1>5 DEF vars, Inv, TypeOK, MarkerOrder, ClaimsBounded, Claimers, WindowOrder,
                CountsWorking, Working, ThreadInv, TailSnapshot, CheckHolds,
                WorkingEntry, HeadSnapshot, CommitKnows, Side, DistanceBounded
  <1> QED
    BY <1>3, <1>4, <1>5 DEF Next

(***************************************************************************)
(* The inductive invariant: what each thread of rpcmsg_enqueue and         *)
(* rpcmsg_dequeue holds in its locals stays true of the shared markers     *)
(* until its next access to them.                                          *)
(***************************************************************************)
THEOREM Invariance == Spec => []Inv
  BY InitInv, NextInv, PTL DEF Spec

(***************************************************************************)
(* head.cons <= tail.cons <= head.prod <= tail.prod <= head.cons + Size,   *)
(* for any number of threads of either build, any ring size and any place  *)
(* in the range of the 32-bit markers.                                     *)
(***************************************************************************)
THEOREM WindowIsOrdered == Spec => []WindowOrder
  <1>1. Inv => WindowOrder
    BY DEF Inv
  <1> QED
    BY <1>1, Invariance, PTL

(***************************************************************************)
(* No two calls between claim and commit work on the same ring slot.       *)
(***************************************************************************)
THEOREM SlotsAreExclusive == Spec => []ExclusiveSlots
  <1>1. Inv => ExclusiveSlots
    <2> SUFFICES ASSUME Inv, NEW t \in Threads, NEW u \in Threads, t # u,
                        pc[t] \in InProgress, pc[u] \in InProgress,
                        RingIndex(ot[t].pos) = RingIndex(ot[u].pos)
                 PROVE  FALSE
      BY DEF ExclusiveSlots
    <2>1. ot[t].pos \in Nat /\ ot[u].pos \in Nat
      BY MarkerFacts DEF Inv, TypeOK
    <2>2. \A v \in {t, u} : /\ Side(v) \in Sides
                            /\ head[Side(v)].pos <= ot[v].pos
                            /\ ot[v].pos < tail[Side(v)].pos
      BY SideType DEF Inv, ThreadInv, WorkingEntry
    <2>3. \A r \in Sides : tail[r].pos \in Nat /\ head[r].pos \in Nat
      BY Ranges, SizeAssumption
    <2>4. \A v \in {t, u} : head["cons"].pos <= ot[v].pos /\ ot[v].pos < head["cons"].pos + Size
      BY <2>1, <2>2, <2>3, SizeAssumption DEF Inv, WindowOrder
    <2>5. ot[t].pos = ot[u].pos
      BY <2>1, <2>3, <2>4, ModInjective, SizeAssumption DEF RingIndex
    <2>6. CASE Side(t) = Side(u)
      BY <2>5, <2>6 DEF Inv, ThreadInv, WorkingEntry, Working
    <2>7. CASE Side(t) # Side(u)
      BY <2>1, <2>2, <2>3, <2>5, <2>7 DEF Inv, WindowOrder
    <2> QED
      BY <2>6, <2>7
  <1> QED
    BY <1>1, Invariance, PTL

(***************************************************************************)
(* Once every call that claimed has committed, head and tail are equal: no *)
(* message is left behind by the calls that only counted themselves.       *)
(***************************************************************************)
THEOREM LastCommitterPublishes == Spec => []LastCommitPublishes
  <1>1. Inv => LastCommitPublishes
    <2> SUFFICES ASSUME Inv, NEW s \in Sides, Working(s) = {} PROVE head[s] = tail[s]
      BY DEF LastCommitPublishes
    <2>1. tail[s].count = head[s].count
      <3>1. tail[s].count - head[s].count = 0
        BY FS_EmptySet DEF Inv, CountsWorking
      <3>2. tail[s].count \in Nat /\ head[s].count \in Nat
        BY Ranges, SizeAssumption
      <3> QED
        BY <3>1, <3>2
    <2>2. tail[s].pos = head[s].pos
      BY <2>1 DEF Inv, MarkerOrder
    <2> QED
      BY <2>1, <2>2, Ranges, MarkerFacts
  <1> QED
    BY <1>1, Invariance, PTL

(***************************************************************************)
(* rpcmsg_tail_wait keeps the claims of a side within HtdMax + 1 entries   *)
(* of its head.                                                            *)
(***************************************************************************)
THEOREM DistanceIsBounded == Spec => []DistanceBounded
  <1>1. Inv => DistanceBounded
    BY DEF Inv
  <1> QED
    BY <1>1, Invariance, PTL

(***************************************************************************)
(* A refusal, "full" or "empty", is right when it is decided.              *)
(***************************************************************************)
THEOREM RefusalsAreRight == Spec => NoFalseRefusal
  <1> DEFINE Right == \A t \in Threads :
                pc[t] = "check" /\ pc'[t] = "idle" =>
                    IF t \in Producers
                    THEN tail["prod"].pos = head["cons"].pos + Size
                    ELSE tail["cons"].pos = head["prod"].pos
  <1>1. Inv /\ [Next]_vars => [Right]_vars
    <2> SUFFICES ASSUME Inv, Next, NEW t \in Threads, pc[t] = "check", pc'[t] = "idle"
                 PROVE  IF t \in Producers
                        THEN tail["prod"].pos = head["cons"].pos + Size
                        ELSE tail["cons"].pos = head["prod"].pos
      OBVIOUS
    <2>1. ReturnNoEntries(t)
      BY DEF Next, rpcmsg_enqueue, rpcmsg_dequeue, CallStep, BeginEnqueue, BeginDequeue,
             TailWait, ReloadTail, CheckEntries, ReturnNoEntries, ClaimEntry, LoseClaim,
             CommitLoadHead, CommitLoadTail, Commit, LoseCommit, EnqueueFn, DequeueFn,
             DrainStore, Return, Goto, Inv, TypeOK, Threads
    <2>2. \A r \in Sides : /\ tail[r].pos \in Nat /\ head[r].pos \in Nat
                           /\ Start <= head[r].pos /\ tail[r].pos <= Start + MaxOps
      BY Ranges, SizeAssumption
    <2>3. ot[t].pos \in Nat /\ Start <= ot[t].pos /\ ot[t].pos <= tail[Side(t)].pos
      BY MarkerFacts DEF Inv, TypeOK, ThreadInv, TailSnapshot
    <2>4. CASE t \in Producers
      <3> DEFINE e == Size + head["cons"].pos - ot[t].pos
      <3>1. U32(e) = 0
        BY <2>1, <2>4 DEF ReturnNoEntries, Entries, FreeEntries
      <3>2. e \in 0..(Width - 1)
        BY <2>2, <2>3, <2>4, SizeAssumption DEF Side, Inv, WindowOrder
      <3>3. e = 0
        BY <3>1, <3>2, NoWrap
      <3> QED
        BY <2>2, <2>3, <2>4, <3>3, SizeAssumption DEF Side, Inv, WindowOrder
    <2>5. CASE t \notin Producers
      <3> DEFINE e == head["prod"].pos - ot[t].pos
      <3>1. U32(e) = 0
        BY <2>1, <2>5 DEF ReturnNoEntries, Entries, FilledEntries
      <3>2. e \in 0..(Width - 1)
        BY <2>2, <2>3, <2>5, SizeAssumption DEF Side, Inv, WindowOrder
      <3>3. e = 0
        BY <3>1, <3>2, NoWrap
      <3> QED
        BY <2>2, <2>3, <2>5, <3>3 DEF Side, Inv, WindowOrder
    <2> QED
      BY <2>4, <2>5
  <1>2. Spec => [][Right]_vars
    BY <1>1, Invariance, PTL DEF Spec
  <1> QED
    BY <1>2 DEF NoFalseRefusal

-----------------------------------------------------------------------------
(* What the ring holds, when a commit orders the slot write before it.     *)

(* Every entry in the window that nobody is about to write holds the       *)
(* message accepted for it.                                                *)
RingHolds ==
    \A p \in head["cons"].pos..(tail["prod"].pos - 1) :
        (\A t \in Producers : pc[t] = "slot" => ot[t].pos # p) =>
            ring[RingIndex(p)] = SentAt(p)

DataInv ==
    /\ \A t \in Threads : stores[t] = {}
    /\ \A t \in Producers : pc[t] \in InProgress => msg[t] = SentAt(ot[t].pos)
    /\ RingHolds
    /\ ReadsWhatWasSent

LEMMA InitData == Init => DataInv
  <1> SUFFICES ASSUME Init PROVE DataInv
    OBVIOUS
  <1>1. head["cons"].pos = Start /\ tail["prod"].pos = Start
    BY DEF Init
  <1>2. RingHolds
    BY <1>1, SizeAssumption DEF RingHolds
  <1> QED
    BY <1>2 DEF Init, DataInv, ReadsWhatWasSent, Threads

(* A step that accepts, writes and reads no message. *)
LEMMA NoDataStep ==
  ASSUME Inv, Inv', DataInv,
         UNCHANGED <<ring, sent, stores>>,
         tail'["prod"] = tail["prod"],
         head["cons"].pos <= head'["cons"].pos,
         \A u \in Threads :
            /\ pc[u] = "slot" => pc'[u] = "slot" /\ ot'[u] = ot[u]
            /\ pc'[u] \in InProgress => /\ pc[u] \in InProgress
                                        /\ ot'[u] = ot[u] /\ msg'[u] = msg[u]
            /\ pc'[u] \in Committing => pc[u] \in Committing
  PROVE  DataInv'
  <1>1. /\ head["cons"].pos \in Nat /\ tail["prod"].pos \in Nat
        /\ head'["cons"].pos \in Nat
    BY Ranges, SizeAssumption, MarkerFacts DEF Inv, TypeOK
  <1>2. ASSUME NEW p \in head'["cons"].pos..(tail'["prod"].pos - 1),
               \A t \in Producers : pc'[t] = "slot" => ot'[t].pos # p
        PROVE  ring'[RingIndex(p)] = SentAt(p)'
    <2>1. p \in head["cons"].pos..(tail["prod"].pos - 1)
      BY <1>1
    <2>2. \A t \in Producers : pc[t] = "slot" => ot[t].pos # p
      BY <1>2 DEF Threads
    <2> QED
      BY <2>1, <2>2 DEF DataInv, RingHolds, SentAt
  <1>3. RingHolds'
    BY <1>2 DEF RingHolds, RingIndex
  <1> QED
    BY <1>3 DEF DataInv, ReadsWhatWasSent, SentAt, Threads

LEMMA EnqueueFnData ==
  ASSUME RelaxedThreads = {}, Inv, Inv', DataInv, NEW t \in Producers, EnqueueFn(t)
  PROVE  DataInv'
  <1>1. /\ t \in Threads /\ pc[t] = "slot" /\ pc' = [pc EXCEPT ![t] = "loadhead"]
        /\ ring' = [ring EXCEPT ![RingIndex(ot[t].pos)] = msg[t]]
        /\ UNCHANGED <<tail, head, ot, msg, stores, sent>>
    BY DEF EnqueueFn, Goto, Threads
  <1>2. /\ head["cons"].pos \in Nat /\ tail["prod"].pos \in Nat /\ ot[t].pos \in Nat
        /\ tail["prod"].pos <= head["cons"].pos + Size
    BY <1>1, Ranges, SizeAssumption, MarkerFacts DEF Inv, TypeOK, WindowOrder
  <1>3. head["cons"].pos <= ot[t].pos /\ ot[t].pos < tail["prod"].pos
    <2>1. head["prod"].pos <= ot[t].pos /\ ot[t].pos < tail["prod"].pos
      BY <1>1 DEF Inv, ThreadInv, WorkingEntry, Side
    <2>2. /\ head["cons"].pos <= tail["cons"].pos /\ tail["cons"].pos <= head["prod"].pos
          /\ tail["cons"].pos \in Nat /\ head["prod"].pos \in Nat
      BY Ranges, SizeAssumption DEF Inv, WindowOrder
    <2> QED
      BY <1>2, <2>1, <2>2
  <1>4. ASSUME NEW p \in head["cons"].pos..(tail["prod"].pos - 1),
               \A u \in Producers : pc'[u] = "slot" => ot[u].pos # p
        PROVE  ring'[RingIndex(p)] = SentAt(p)
    <2>1. RingIndex(p) \in 0..(Size - 1) /\ RingIndex(ot[t].pos) \in 0..(Size - 1)
      BY <1>2, RingIndexType
    <2>2. CASE p = ot[t].pos
      BY <1>1, <2>1, <2>2 DEF DataInv, Inv, TypeOK
    <2>3. CASE p # ot[t].pos
      <3>1. RingIndex(p) # RingIndex(ot[t].pos)
        <4> DEFINE q == ot[t].pos
        <4>1. /\ p \in Int /\ q \in Int /\ p - q < Size /\ q - p < Size
              /\ Size \in Nat \ {0}
          BY <1>2, <1>3, SizeAssumption
        <4> HIDE DEF q
        <4>2. p % Size = q % Size => p = q
          BY <4>1, ModInjective
        <4> QED
          BY <2>3, <4>2 DEF RingIndex, q
      <3>2. \A u \in Producers : pc[u] = "slot" => ot[u].pos # p
        BY <1>1, <1>4, <2>3 DEF Inv, TypeOK, Threads
      <3>3. ring[RingIndex(p)] = SentAt(p)
        BY <3>2 DEF DataInv, RingHolds
      <3> QED
        BY <1>1, <2>1, <3>1, <3>3 DEF Inv, TypeOK
    <2> QED
      BY <2>2, <2>3
  <1>5. RingHolds'
    BY <1>1, <1>4 DEF RingHolds, RingIndex, SentAt
  <1>6. ReadsWhatWasSent'
    BY <1>1, ThreadsAssumption DEF DataInv, ReadsWhatWasSent, SentAt, Inv, TypeOK, Threads
  <1> QED
    BY <1>1, <1>5, <1>6 DEF DataInv, SentAt, Inv, TypeOK, Threads

LEMMA DequeueFnData ==
  ASSUME Inv, Inv', DataInv, NEW t \in Consumers, DequeueFn(t)
  PROVE  DataInv'
  <1>1. /\ t \in Threads /\ t \notin Producers /\ pc[t] = "slot"
        /\ pc' = [pc EXCEPT ![t] = "loadhead"]
        /\ msg' = [msg EXCEPT ![t] = ring[RingIndex(ot[t].pos)]]
        /\ UNCHANGED <<tail, head, ring, ot, stores, sent>>
    BY ThreadsAssumption DEF DequeueFn, Goto, Threads
  <1>2. \A r \in Sides : head[r].pos \in Nat /\ tail[r].pos \in Nat
    BY Ranges, SizeAssumption
  <1>3. \A u \in Threads : ot[u].pos \in Nat
    BY MarkerFacts DEF Inv, TypeOK
  <1>4. head["cons"].pos <= ot[t].pos /\ ot[t].pos < tail["cons"].pos
    BY <1>1 DEF Inv, ThreadInv, WorkingEntry, Side
  <1>5. ot[t].pos \in head["cons"].pos..(tail["prod"].pos - 1)
    BY <1>1, <1>2, <1>3, <1>4 DEF Inv, WindowOrder
  <1>6. \A u \in Producers : pc[u] = "slot" => head["prod"].pos <= ot[u].pos
    BY DEF Inv, ThreadInv, WorkingEntry, Side, Threads
  <1>7. \A u \in Producers : pc[u] = "slot" => ot[u].pos # ot[t].pos
    BY <1>1, <1>2, <1>3, <1>4, <1>6 DEF Inv, WindowOrder, Threads
  <1>8. ring[RingIndex(ot[t].pos)] = SentAt(ot[t].pos)
    BY <1>5, <1>7 DEF DataInv, RingHolds
  <1>9. RingHolds'
    BY <1>1 DEF DataInv, RingHolds, SentAt, RingIndex, Inv, TypeOK, Threads
  <1>10. ReadsWhatWasSent'
    BY <1>1, <1>8 DEF DataInv, ReadsWhatWasSent, SentAt, Inv, TypeOK, Threads
  <1> QED
    BY <1>1, <1>9, <1>10 DEF DataInv, SentAt, Inv, TypeOK, Threads

LEMMA ClaimEntryData ==
  ASSUME Inv, Inv', DataInv, NEW t \in Threads, ClaimEntry(t)
  PROVE  DataInv'
  <1>1. /\ pc[t] = "cas" /\ pc' = [pc EXCEPT ![t] = "slot"] /\ ot[t] = tail[Side(t)]
        /\ UNCHANGED <<head, ring, ot, msg, stores>>
    BY ClaimIsExact DEF ClaimEntry, Goto
  <1>2. \A u \in Threads : u # t => pc'[u] = pc[u]
    BY <1>1 DEF Inv, TypeOK
  <1>3. pc'[t] = "slot"
    BY <1>1 DEF Inv, TypeOK
  <1>4. \A r \in Sides : head[r].pos \in Nat /\ tail[r].pos \in Nat /\ Start <= head[r].pos
    BY Ranges, SizeAssumption
  <1>5. CASE t \in Producers
    <2>1. sent' = Append(sent, msg[t]) /\ tail'["prod"].pos = tail["prod"].pos + 1 /\ ot[t] = tail["prod"]
      BY <1>1, <1>5 DEF ClaimEntry, Advance, Side, Inv, TypeOK
    <2>2. sent \in Seq(Nat) /\ msg[t] \in Nat /\ Len(sent) \in Nat
          /\ tail["prod"].pos = Start + Len(sent)
      BY DEF Inv, TypeOK, ClaimsBounded
    <2>3. /\ \A i \in 1..Len(sent) : sent'[i] = sent[i]
          /\ sent'[Len(sent) + 1] = msg[t]
      BY <2>1, <2>2, AppendProperties
    <2>4. \A p \in Start..(tail["prod"].pos - 1) : sent'[p - Start + 1] = SentAt(p)
      <3> SUFFICES ASSUME NEW p \in Start..(tail["prod"].pos - 1)
                   PROVE  sent'[p - Start + 1] = sent[p - Start + 1]
        BY DEF SentAt
      <3>1. p - Start + 1 \in 1..Len(sent)
        BY <2>2, SizeAssumption
      <3> QED
        BY <2>3, <3>1
    <2>5. sent'[ot[t].pos - Start + 1] = msg[t]
      <3>1. ot[t].pos - Start + 1 = Len(sent) + 1
        BY <2>1, <2>2, SizeAssumption
      <3> QED
        BY <2>3, <3>1
    <2>6. \A u \in Threads : pc[u] \in InProgress => ot[u].pos \in Start..(tail["prod"].pos - 1)
      <3> SUFFICES ASSUME NEW u \in Threads, pc[u] \in InProgress
                   PROVE  ot[u].pos \in Start..(tail["prod"].pos - 1)
        OBVIOUS
      <3>1. /\ ot[u].pos \in Nat /\ Start <= ot[u].pos /\ Side(u) \in Sides
            /\ ot[u].pos < tail[Side(u)].pos
        BY MarkerFacts, SideType DEF Inv, TypeOK, ThreadInv, TailSnapshot, WorkingEntry
      <3> QED
        BY <1>4, <3>1, SizeAssumption DEF Inv, WindowOrder
    <2>7. ASSUME NEW p \in head["cons"].pos..tail["prod"].pos,
                 \A u \in Producers : pc'[u] = "slot" => ot[u].pos # p
          PROVE  ring[RingIndex(p)] = sent'[p - Start + 1]
      <3>1. p # tail["prod"].pos
        BY <1>3, <1>5, <2>1, <2>7
      <3>2. \A u \in Producers : pc[u] = "slot" => ot[u].pos # p
        BY <1>1, <1>2, <2>7 DEF Threads
      <3>3. p \in head["cons"].pos..(tail["prod"].pos - 1) /\ p \in Start..(tail["prod"].pos - 1)
        BY <1>4, <3>1, SizeAssumption
      <3> QED
        BY <2>4, <3>2, <3>3 DEF DataInv, RingHolds
    <2>8. RingHolds'
      <3>1. tail'["prod"].pos - 1 = tail["prod"].pos
        BY <1>4, <2>1
      <3> QED
        BY <1>1, <2>7, <3>1 DEF RingHolds, RingIndex, SentAt
    <2>9. ReadsWhatWasSent'
      <3> SUFFICES ASSUME NEW c \in Consumers, pc'[c] \in Committing
                   PROVE  msg[c] = sent'[ot[c].pos - Start + 1]
        BY <1>1 DEF ReadsWhatWasSent, SentAt
      <3>1. c \in Threads /\ pc[c] \in Committing /\ pc[c] \in InProgress
        BY <1>2, <1>3 DEF Threads
      <3> QED
        BY <2>4, <2>6, <3>1 DEF DataInv, ReadsWhatWasSent
    <2>10. ASSUME NEW u \in Producers, pc'[u] \in InProgress
           PROVE  msg[u] = sent'[ot[u].pos - Start + 1]
      <3>1. CASE u = t
        BY <2>5, <3>1
      <3>2. CASE u # t
        <4>1. u \in Threads /\ pc[u] \in InProgress
          BY <1>2, <2>10, <3>2 DEF Threads
        <4> QED
          BY <2>4, <2>6, <4>1 DEF DataInv
      <3> QED
        BY <3>1, <3>2
    <2> QED
      BY <1>1, <2>8, <2>9, <2>10 DEF DataInv, SentAt
  <1>6. CASE t \notin Producers
    <2>1. UNCHANGED sent /\ tail'["prod"] = tail["prod"]
      BY <1>6 DEF ClaimEntry, Side, Inv, TypeOK
    <2>2. RingHolds'
      <3>1. \A u \in Producers : pc'[u] = pc[u]
        BY <1>2, <1>6 DEF Threads
      <3> QED
        BY <1>1, <2>1, <3>1 DEF DataInv, RingHolds, SentAt, RingIndex
    <2>3. ReadsWhatWasSent'
      BY <1>1, <1>2, <1>3, <2>1 DEF DataInv, ReadsWhatWasSent, SentAt, Threads
    <2> QED
      BY <1>1, <1>2, <1>6, <2>1, <2>2, <2>3 DEF DataInv, SentAt, Threads
  <1> QED
    BY <1>5, <1>6

LEMMA NextData ==
  ASSUME RelaxedThreads = {}, Inv, Inv', DataInv, [Next]_vars
  PROVE  DataInv'
  <1>1. \A r \in Sides : head[r].pos \in Nat /\ tail[r].pos \in Nat
    BY Ranges, SizeAssumption
  <1>2. ASSUME NEW t \in Threads, CallStep(t) PROVE DataInv'
    <2>1. CASE ClaimEntry(t)
      BY <2>1, ClaimEntryData
    <2>2. CASE Commit(t)
      <3>1. /\ pc[t] = "commit" /\ pc' = [pc EXCEPT ![t] = "idle"]
            /\ ot' = [ot EXCEPT ![t] = Unset] /\ msg' = [msg EXCEPT ![t] = NoMsg]
            /\ UNCHANGED <<tail, ring, stores, sent>>
        BY <2>2 DEF Commit, Return, Goto
      <3>2. head["cons"].pos <= head'["cons"].pos
        <4>1. /\ head[Side(t)] = oh[t] /\ Side(t) \in Sides
              /\ NextHead(oh[t], tt[t]).pos \in {oh[t].pos, tt[t].pos}
          BY <2>2, CommitIsExact, SideType DEF Commit
        <4>2. /\ head[Side(t)].pos <= ot[t].pos /\ ot[t].pos < tt[t].pos
              /\ ot[t].pos \in Nat /\ tt[t].pos \in Nat
          BY <3>1, MarkerFacts DEF Inv, TypeOK, ThreadInv, WorkingEntry, CommitKnows
        <4>3. head[Side(t)].pos <= NextHead(oh[t], tt[t]).pos
          BY <1>1, <4>1, <4>2
        <4> QED
          BY <1>1, <2>2, <4>1, <4>3 DEF Commit, Inv, TypeOK
      <3> QED
        BY <3>1, <3>2, NoDataStep DEF Inv, TypeOK
    <2>3. CASE ~ClaimEntry(t) /\ ~Commit(t)
      <3>1. /\ UNCHANGED <<tail, head, ring, stores, sent>>
            /\ \A u \in Threads \ {t} : pc'[u] = pc[u] /\ ot'[u] = ot[u] /\ msg'[u] = msg[u]
        BY <1>2, <2>3
        DEF CallStep, TailWait, ReloadTail, CheckEntries, ReturnNoEntries, Return, LoseClaim,
            CommitLoadHead, CommitLoadTail, LoseCommit, LoadTail, Goto, Inv, TypeOK
      <3>2. \/ pc[t] \in Claiming /\ pc'[t] \in Claiming \cup {"idle"}
            \/ pc[t] \in Committing /\ pc'[t] \in Committing /\ UNCHANGED <<ot, msg>>
        BY <1>2, <2>3
        DEF CallStep, TailWait, ReloadTail, CheckEntries, ReturnNoEntries, Return, LoseClaim,
            CommitLoadHead, CommitLoadTail, LoseCommit, Goto, Inv, TypeOK
      <3> QED
        BY <1>1, <3>1, <3>2, NoDataStep
    <2> QED
      BY <2>1, <2>2, <2>3
  <1>3. ASSUME NEW t \in Threads, BeginEnqueue(t) \/ BeginDequeue(t) PROVE DataInv'
    <2>1. /\ UNCHANGED <<tail, head, ring, stores, sent>> /\ pc[t] = "idle" /\ pc'[t] = "wait"
          /\ \A u \in Threads \ {t} : pc'[u] = pc[u] /\ ot'[u] = ot[u] /\ msg'[u] = msg[u]
      BY <1>3 DEF BeginEnqueue, BeginDequeue, LoadTail, Goto, Inv, TypeOK
    <2> QED
      BY <1>1, <2>1, NoDataStep
  <1>4. ASSUME NEW t \in Producers, DrainStore(t) PROVE DataInv'
    BY <1>4 DEF DrainStore, DataInv, Threads
  <1>5. CASE UNCHANGED vars
    BY <1>1, <1>5, NoDataStep DEF vars
  <1> QED
    BY <1>2, <1>3, <1>4, <1>5, EnqueueFnData, DequeueFnData
    DEF Next, rpcmsg_enqueue, rpcmsg_dequeue, Threads

(***************************************************************************)
(* When every commit makes the slot written before it visible first, each  *)
(* dequeue returns the message that was accepted at its entry.             *)
(***************************************************************************)
THEOREM ReadersGetWhatWasSent ==
  ASSUME RelaxedThreads = {}
  PROVE  Spec => []ReadsWhatWasSent
  <1>1. Inv /\ Inv' /\ DataInv /\ [Next]_vars => DataInv'
    BY NextData
  <1>2. DataInv => ReadsWhatWasSent
    BY DEF DataInv
  <1> QED
    BY <1>1, <1>2, InitData, Invariance, PTL DEF Spec

=============================================================================
