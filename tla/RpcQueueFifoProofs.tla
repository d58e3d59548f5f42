------------------------- MODULE RpcQueueFifoProofs -------------------------
(***************************************************************************)
(* The ring implements MsgFifo: every access to a marker or a slot is a    *)
(* step of the abstract queue, or changes nothing that its users can see.  *)
(* The commits have to order the slot's store before them.                 *)
(***************************************************************************)
EXTENDS RpcQueueProofs

USE DEF Sides, Claiming, Committing, InProgress

-----------------------------------------------------------------------------
(* The state of the abstract queue.                                        *)
Readers == {c \in Consumers : pc[c] = "slot"}
Holders == {c \in Consumers : pc[c] \in Committing}

Entry(t) == Number(ot[t].pos)

Writing == {Entry(t) : t \in Working("prod")}
Visible == head["prod"].pos - Start
Taken   == tail["cons"].pos - Start
Reading == {Entry(t) : t \in Readers}
InHand  == {<<Entry(t), msg[t]>> : t \in Holders}
Freed   == head["cons"].pos - Start

abstract == <<sent, Writing, Visible, Taken, Reading, InHand, Freed>>

FifoSteps == [Fifo!Next]_abstract

LEMMA AbstractState == (Fifo!Spec) <=> (Fifo!Init /\ [][Fifo!Next]_abstract)
  BY DEF Fifo!Spec, Fifo!fifoVars, abstract, Writing, Visible, Taken, Reading, InHand, Freed,
         Readers, Holders, Entry

LEMMA IsAccept ==
  ASSUME Len(sent) < Freed + Size, NEW m \in 1..MaxOps, sent' = Append(sent, m),
         Writing' = Writing \cup {Len(sent) + 1},
         UNCHANGED <<Visible, Taken, Reading, InHand, Freed>>
  PROVE  FifoSteps
  <1>1. Fifo!Accept
    BY DEF Fifo!Accept, Writing, Visible, Taken, Reading, InHand, Freed, Readers, Holders, Entry
  <1> QED
    BY <1>1 DEF FifoSteps, Fifo!Next

LEMMA IsWritten ==
  ASSUME NEW i \in Writing, Writing' = Writing \ {i}, NEW n \in Visible..Len(sent),
         Visible' = n, n # Visible => \A j \in Writing' : n < j,
         UNCHANGED <<sent, Taken, Reading, InHand, Freed>>
  PROVE  FifoSteps
  <1>1. Fifo!Written(i)
    BY DEF Fifo!Written, Writing, Visible, Taken, Reading, InHand, Freed, Readers, Holders, Entry
  <1>2. i \in {Number(ot[t].pos) : t \in Working("prod")}
    BY DEF Writing, Entry
  <1> QED
    BY <1>1, <1>2 DEF FifoSteps, Fifo!Next

LEMMA IsTake ==
  ASSUME Taken < Visible, Taken' = Taken + 1, Reading' = Reading \cup {Taken + 1},
         UNCHANGED <<sent, Writing, Visible, InHand, Freed>>
  PROVE  FifoSteps
  <1>1. Fifo!Take
    BY DEF Fifo!Take, Writing, Visible, Taken, Reading, InHand, Freed, Readers, Holders, Entry
  <1> QED
    BY <1>1 DEF FifoSteps, Fifo!Next

LEMMA IsDeliver ==
  ASSUME NEW i \in Reading, Reading' = Reading \ {i}, InHand' = InHand \cup {<<i, sent[i]>>},
         UNCHANGED <<sent, Writing, Visible, Taken, Freed>>
  PROVE  FifoSteps
  <1>1. Fifo!Deliver(i)
    BY DEF Fifo!Deliver, Writing, Visible, Taken, Reading, InHand, Freed, Readers, Holders, Entry
  <1>2. i \in {Number(ot[t].pos) : t \in {c \in Consumers : pc[c] = "slot"}}
    BY DEF Reading, Readers, Entry
  <1> QED
    BY <1>1, <1>2 DEF FifoSteps, Fifo!Next

LEMMA IsDone ==
  ASSUME NEW d \in InHand, InHand' = InHand \ {d}, NEW n \in Freed..Taken, Freed' = n,
         n # Freed => (\A j \in Reading : n < j) /\ (\A e \in InHand' : n < e[1]),
         UNCHANGED <<sent, Writing, Visible, Taken, Reading>>
  PROVE  FifoSteps
  <1>1. Fifo!Done(d)
    BY DEF Fifo!Done, Writing, Visible, Taken, Reading, InHand, Freed, Readers, Holders, Entry
  <1>2. d \in {<<Number(ot[t].pos), msg[t]>> : t \in {c \in Consumers : pc[c] \in Committing}}
    BY DEF InHand, Holders, Entry
  <1> QED
    BY <1>1, <1>2 DEF FifoSteps, Fifo!Next

LEMMA IsStutter ==
  ASSUME UNCHANGED <<sent, Writing, Visible, Taken, Reading, InHand, Freed>>
  PROVE  FifoSteps
  BY DEF FifoSteps, abstract
-----------------------------------------------------------------------------
(* Threads at work on one side have entries of their own, inside the window. *)
LEMMA EntryFacts ==
  ASSUME Inv, NEW t \in Threads, pc[t] \in InProgress
  PROVE  /\ ot[t].pos \in Nat /\ Entry(t) = ot[t].pos - Start + 1 /\ Start \in Nat
         /\ head[Side(t)].pos <= ot[t].pos /\ ot[t].pos < tail[Side(t)].pos
         /\ \A u \in Threads : u # t /\ Side(u) = Side(t) /\ pc[u] \in InProgress =>
               ot[u].pos # ot[t].pos
  <1>1. WorkingEntry(t) /\ ot[t] \in Marker
    BY DEF Inv, ThreadInv, TypeOK
  <1>2. \A u \in Threads : Side(u) = Side(t) /\ pc[u] \in InProgress => u \in Working(Side(t))
    BY DEF Working
  <1> QED
    BY <1>1, <1>2, MarkerFacts, SizeAssumption DEF WorkingEntry, Entry, Number

LEMMA EntriesDiffer ==
  ASSUME Inv, NEW t \in Threads, NEW u \in Threads, pc[t] \in InProgress, pc[u] \in InProgress,
         Side(t) = Side(u), Entry(t) = Entry(u)
  PROVE  t = u
  <1>1. /\ ot[t].pos \in Nat /\ Entry(t) = ot[t].pos - Start + 1
        /\ ot[u].pos \in Nat /\ Entry(u) = ot[u].pos - Start + 1 /\ Start \in Nat
        /\ u # t => ot[u].pos # ot[t].pos
    BY EntryFacts
  <1>2. ot[t].pos = ot[u].pos
    <2>1. PICK a \in Nat, b \in Nat : a = ot[t].pos /\ b = ot[u].pos
      BY <1>1
    <2>2. a - Start + 1 = b - Start + 1
      BY <1>1, <2>1
    <2>3. a = b
      BY <1>1, <2>2
    <2> QED
      BY <2>1, <2>3
  <1> QED
    BY <1>1, <1>2

LEMMA Sets ==
  /\ Working("prod") = {t \in Producers : pc[t] \in InProgress}
  /\ \A t \in Producers : Side(t) = "prod" /\ t \in Threads /\ t \notin Consumers
  /\ \A t \in Consumers : Side(t) = "cons" /\ t \in Threads /\ t \notin Producers
  BY ThreadsAssumption DEF Working, Side, Threads

(* A message that a producer is about to enqueue is one of the messages of *)
(* the abstract queue.                                                     *)
Numbered == \A t \in Producers : pc[t] \in Claiming => msg[t] \in 1..MaxOps

LEMMA InitNumbered == Init => Numbered
  BY DEF Init, Numbered, Threads

LEMMA NextNumbered ==
  ASSUME TypeOK, Numbered, [Next]_vars
  PROVE  Numbered'
  <1> SUFFICES ASSUME NEW t \in Producers, pc'[t] \in Claiming PROVE msg'[t] \in 1..MaxOps
    BY DEF Numbered
  <1> t \in Threads
    BY DEF Threads
  <1>1. CASE UNCHANGED vars
    BY <1>1 DEF vars, Numbered
  <1>2. ASSUME NEW u \in Producers, BeginEnqueue(u) PROVE msg'[t] \in 1..MaxOps
    <2>1. attempts + 1 \in 1..MaxOps
      BY <1>2, SizeAssumption DEF BeginEnqueue, TypeOK
    <2>2. CASE u = t
      BY <1>2, <2>1, <2>2 DEF BeginEnqueue, TypeOK
    <2>3. CASE u # t
      BY <1>2, <2>3 DEF BeginEnqueue, Goto, TypeOK, Numbered
    <2> QED
      BY <2>2, <2>3
  <1>3. ASSUME NEW u \in Threads, CallStep(u) PROVE msg'[t] \in 1..MaxOps
    <2>1. CASE ReturnNoEntries(u) \/ Commit(u)
      <3>1. pc' = [pc EXCEPT ![u] = "idle"] /\ msg' = [msg EXCEPT ![u] = NoMsg]
        BY <2>1 DEF ReturnNoEntries, Commit, Return, Goto
      <3> QED
        BY <3>1 DEF TypeOK, Numbered
    <2>2. CASE ~ReturnNoEntries(u) /\ ~Commit(u)
      <3>1. /\ msg' = msg /\ \E l : pc' = [pc EXCEPT ![u] = l]
            /\ pc[u] \in Claiming \/ pc'[u] \notin Claiming
        BY <1>3, <2>2 DEF CallStep, TailWait, ReloadTail, CheckEntries, ClaimEntry, LoseClaim,
              CommitLoadHead, CommitLoadTail, LoseCommit, Goto, TypeOK
      <3> QED
        BY <3>1 DEF TypeOK, Numbered
    <2> QED
      BY <2>1, <2>2
  <1>4. ASSUME NEW u \in Producers, EnqueueFn(u) \/ DrainStore(u) PROVE msg'[t] \in 1..MaxOps
    BY <1>4 DEF EnqueueFn, DrainStore, Goto, TypeOK, Numbered, Threads
  <1>5. ASSUME NEW u \in Consumers, BeginDequeue(u) \/ DequeueFn(u) PROVE msg'[t] \in 1..MaxOps
    <2>1. u # t
      BY ThreadsAssumption
    <2> QED
      BY <1>5, <2>1 DEF BeginDequeue, DequeueFn, Goto, TypeOK, Numbered
  <1> QED
    BY <1>1, <1>2, <1>3, <1>4, <1>5 DEF Next, rpcmsg_enqueue, rpcmsg_dequeue, Threads

-----------------------------------------------------------------------------
(* Steps that the users of the queue do not see.                           *)
LEMMA QuietFifo ==
  ASSUME UNCHANGED <<tail, head, sent>>,
         \A u \in Threads : /\ pc[u] \in InProgress <=> pc'[u] \in InProgress
                            /\ pc[u] \in InProgress => ot'[u] = ot[u],
         \A u \in Consumers : /\ pc[u] = "slot" <=> pc'[u] = "slot"
                              /\ pc[u] \in Committing <=> pc'[u] \in Committing
                              /\ pc[u] \in Committing => msg'[u] = msg[u]
  PROVE  FifoSteps
  <1>1. Working("prod")' = Working("prod") /\ Readers' = Readers /\ Holders' = Holders
    BY DEF Working, Side, Readers, Holders
  <1>2. /\ \A t \in Working("prod") : Entry(t)' = Entry(t)
        /\ \A t \in Readers : Entry(t)' = Entry(t)
        /\ \A t \in Holders : Entry(t)' = Entry(t) /\ msg'[t] = msg[t]
    BY DEF Working, Readers, Holders, Entry, Threads
  <1>3. Writing' = Writing
    BY <1>1, <1>2 DEF Writing
  <1>4. Reading' = Reading
    BY <1>1, <1>2 DEF Reading
  <1>5. InHand' = InHand
    BY <1>1, <1>2 DEF InHand
  <1>6. UNCHANGED <<sent, Visible, Taken, Freed>>
    BY DEF Visible, Taken, Freed
  <1> QED
    BY <1>3, <1>4, <1>5, <1>6, IsStutter

LEMMA QuietCall ==
  ASSUME TypeOK, NEW t \in Threads, CallStep(t), ~ClaimEntry(t), ~Commit(t)
  PROVE  FifoSteps
  <1>1. /\ UNCHANGED <<tail, head, sent>>
        /\ \A u \in Threads \ {t} : pc'[u] = pc[u] /\ ot'[u] = ot[u] /\ msg'[u] = msg[u]
    BY DEF CallStep, TailWait, ReloadTail, CheckEntries, ReturnNoEntries, Return, LoseClaim,
           CommitLoadHead, CommitLoadTail, LoseCommit, LoadTail, Goto, TypeOK
  <1>2. \/ pc[t] \in Claiming /\ pc'[t] \in Claiming \cup {"idle"}
        \/ pc[t] \in Committing /\ pc'[t] \in Committing /\ UNCHANGED <<ot, msg>>
    BY DEF CallStep, TailWait, ReloadTail, CheckEntries, ReturnNoEntries, Return, LoseClaim,
           CommitLoadHead, CommitLoadTail, LoseCommit, Goto, TypeOK
  <1> QED
    BY <1>1, <1>2, QuietFifo DEF Threads

LEMMA QuietBegin ==
  ASSUME TypeOK, NEW t \in Threads, BeginEnqueue(t) \/ BeginDequeue(t)
  PROVE  FifoSteps
  <1>1. /\ UNCHANGED <<tail, head, sent>> /\ pc[t] = "idle" /\ pc'[t] = "wait"
        /\ \A u \in Threads \ {t} : pc'[u] = pc[u] /\ ot'[u] = ot[u] /\ msg'[u] = msg[u]
    BY DEF BeginEnqueue, BeginDequeue, LoadTail, Goto, TypeOK
  <1> QED
    BY <1>1, QuietFifo DEF Threads

LEMMA QuietWrite ==
  ASSUME TypeOK, NEW t \in Producers, EnqueueFn(t) \/ DrainStore(t)
  PROVE  FifoSteps
  <1>1. /\ UNCHANGED <<tail, head, ot, msg, sent>> /\ t \in Threads /\ t \notin Consumers
        /\ \A u \in Threads \ {t} : pc'[u] = pc[u]
        /\ pc'[t] = pc[t] \/ (pc[t] = "slot" /\ pc'[t] = "loadhead")
    BY ThreadsAssumption DEF EnqueueFn, DrainStore, Goto, TypeOK, Threads
  <1> QED
    BY <1>1, QuietFifo DEF Threads

-----------------------------------------------------------------------------
(* Steps of the abstract queue.                                            *)
LEMMA ClaimRefines ==
  ASSUME Inv, Numbered, NEW t \in Threads, ClaimEntry(t)
  PROVE  FifoSteps
  <1>1. /\ pc[t] = "cas" /\ pc' = [pc EXCEPT ![t] = "slot"] /\ tail[Side(t)] = ot[t]
        /\ tail' = [tail EXCEPT ![Side(t)] = Advance(ot[t])]
        /\ UNCHANGED <<head, ot, msg>> /\ Side(t) \in Sides
    BY ClaimIsExact, SideType DEF ClaimEntry, Goto
  <1>2. /\ pc \in [Threads -> {"idle"} \cup Claiming \cup InProgress]
        /\ tail \in [Sides -> Marker] /\ ot[t] \in Marker /\ ot[t].pos \in Nat
        /\ Advance(ot[t]).pos = ot[t].pos + 1
    BY MarkerFacts DEF Inv, TypeOK, Advance
  <1>3. \A s \in Sides : head[s].pos \in Nat /\ tail[s].pos \in Nat
    BY Ranges, SizeAssumption
  <1>4. \A u \in Threads : Entry(u)' = Entry(u)
    BY <1>1 DEF Entry
  <1>5. Start \in Nat /\ Size \in Nat /\ Len(sent) \in Nat
    BY SizeAssumption, LenProperties DEF Inv, TypeOK
  <1>6. CheckHolds(t)
    BY DEF Inv, ThreadInv
  <1>7. Entry(t) = ot[t].pos - Start + 1
    BY DEF Entry, Number
  <1>8. CASE t \in Producers
    <2>1. Side(t) = "prod" /\ t \notin Consumers
      BY <1>8, Sets
    <2>2. /\ Working("prod")' = Working("prod") \cup {t} /\ Readers' = Readers /\ Holders' = Holders
      BY <1>1, <1>2, <1>8, <2>1 DEF Working, Side, Readers, Holders, Threads
    <2>3. Writing' = Writing \cup {Entry(t)} /\ Reading' = Reading
      BY <1>4, <2>2 DEF Writing, Reading, Working, Readers, Threads
    <2>4. InHand' = InHand
      BY <1>1, <1>4, <2>2 DEF InHand, Holders, Threads
    <2>5. /\ tail'["cons"] = tail["cons"] /\ UNCHANGED <<Visible, Taken, Freed>>
      BY <1>1, <1>2, <2>1 DEF Visible, Taken, Freed
    <2>6. tail["prod"].pos = Start + Len(sent) /\ ot[t].pos = tail["prod"].pos
      BY <1>1, <2>1 DEF Inv, ClaimsBounded
    <2>7. Len(sent) < Freed + Size
      <3>1. ot[t].pos < head["cons"].pos + Size
        BY <1>1, <1>6, <1>8, <2>1 DEF CheckHolds
      <3> QED
        BY <3>1, <2>6, <1>3, <1>5 DEF Freed
    <2>8. Entry(t) = Len(sent) + 1
      BY <1>7, <2>6, <1>5
    <2>9. msg[t] \in 1..MaxOps /\ sent' = Append(sent, msg[t])
      BY <1>1, <1>8 DEF Numbered, ClaimEntry
    <2> QED
      BY <2>3, <2>4, <2>5, <2>7, <2>8, <2>9, IsAccept
  <1>9. CASE t \in Consumers
    <2>1. Side(t) = "cons" /\ t \notin Producers
      BY <1>9, Sets
    <2>2. /\ Working("prod")' = Working("prod") /\ Readers' = Readers \cup {t} /\ Holders' = Holders
      BY <1>1, <1>2, <1>9, <2>1 DEF Working, Side, Readers, Holders, Threads
    <2>3. Writing' = Writing /\ Reading' = Reading \cup {Entry(t)}
      BY <1>4, <2>2 DEF Writing, Reading, Working, Readers, Threads
    <2>4. InHand' = InHand
      BY <1>1, <1>4, <2>2 DEF InHand, Holders, Threads
    <2>5. /\ UNCHANGED <<Visible, Freed>> /\ tail'["cons"].pos = ot[t].pos + 1
      BY <1>1, <1>2, <2>1 DEF Visible, Freed
    <2>6. ot[t].pos = tail["cons"].pos
      BY <1>1, <2>1
    <2>7. Taken' = Taken + 1 /\ Entry(t) = Taken + 1
      BY <1>5, <1>7, <1>2, <2>5, <2>6 DEF Taken
    <2>8. Taken < Visible
      <3>1. ot[t].pos < head["prod"].pos
        BY <1>1, <1>6, <2>1 DEF CheckHolds
      <3> QED
        BY <3>1, <2>6, <1>2, <1>3, <1>5 DEF Taken, Visible
    <2>9. sent' = sent
      BY <2>1 DEF ClaimEntry
    <2> QED
      BY <2>3, <2>4, <2>5, <2>7, <2>8, <2>9, IsTake
  <1> QED
    BY <1>8, <1>9 DEF Threads

LEMMA DequeueRefines ==
  ASSUME Inv, DataInv', NEW t \in Consumers, DequeueFn(t)
  PROVE  FifoSteps
  <1>1. /\ pc[t] = "slot" /\ pc' = [pc EXCEPT ![t] = "loadhead"]
        /\ \A u \in Threads : u # t => msg'[u] = msg[u]
        /\ UNCHANGED <<tail, head, ot, sent>> /\ t \in Threads /\ t \notin Producers
    BY Sets DEF DequeueFn, Goto, Inv, TypeOK
  <1>2. pc \in [Threads -> {"idle"} \cup Claiming \cup InProgress]
    BY DEF Inv, TypeOK
  <1>3. \A u \in Threads : Entry(u)' = Entry(u)
    BY <1>1 DEF Entry
  <1>4. /\ Working("prod")' = Working("prod") /\ Readers' = Readers \ {t} /\ Holders' = Holders \cup {t}
        /\ t \in Readers /\ t \notin Holders
    BY <1>1, <1>2 DEF Working, Side, Readers, Holders, Threads
  <1>5. Writing' = Writing
    BY <1>3, <1>4 DEF Writing, Working
  <1>6. Reading' = Reading \ {Entry(t)} /\ Entry(t) \in Reading
    <2>1. \A u \in Readers : Entry(u) = Entry(t) => u = t
      BY <1>4, Sets, EntriesDiffer DEF Readers
    <2>2. \A u \in Readers : u \in Threads
      BY DEF Readers, Threads
    <2> QED
      BY <1>3, <1>4, <2>1, <2>2 DEF Reading
  <1>7. msg'[t] = sent[Entry(t)]
    <2>1. pc'[t] \in Committing
      BY <1>1, <1>2
    <2>2. msg'[t] = SentAt(ot[t].pos)'
      BY <2>1, <1>1 DEF DataInv, ReadsWhatWasSent
    <2> QED
      BY <2>2, <1>1 DEF SentAt, Entry, Number
  <1>8. InHand' = InHand \cup {<<Entry(t), sent[Entry(t)]>>}
    <2>1. \A u \in Holders : u \in Threads /\ u # t
      BY <1>4 DEF Holders, Threads
    <2> QED
      BY <1>1, <1>3, <1>4, <1>7, <2>1 DEF InHand
  <1>9. UNCHANGED <<sent, Visible, Taken, Freed>>
    BY <1>1 DEF Visible, Taken, Freed
  <1> QED
    BY <1>5, <1>6, <1>8, <1>9, IsDeliver

LEMMA CommitRefines ==
  ASSUME Inv, NEW t \in Threads, Commit(t)
  PROVE  FifoSteps
  <1> DEFINE s == Side(t)
             p == NextHead(oh[t], tt[t]).pos
  <1>1. /\ pc[t] = "commit" /\ pc' = [pc EXCEPT ![t] = "idle"] /\ ot' = [ot EXCEPT ![t] = Unset]
        /\ msg' = [msg EXCEPT ![t] = NoMsg] /\ head[s] = oh[t]
        /\ head' = [head EXCEPT ![s] = NextHead(oh[t], tt[t])]
        /\ UNCHANGED <<tail, sent>> /\ s \in Sides
    BY CommitIsExact, SideType DEF Commit, Return, Goto
  <1>2. /\ pc \in [Threads -> {"idle"} \cup Claiming \cup InProgress] /\ head \in [Sides -> Marker]
        /\ tt[t].pos \in Nat /\ ot \in [Threads -> Marker] /\ msg \in [Threads -> Nat]
    BY MarkerFacts DEF Inv, TypeOK
  <1>3. \A r \in Sides : head[r].pos \in Nat /\ tail[r].pos \in Nat
    BY Ranges, SizeAssumption
  <1>4. Start \in Nat /\ Len(sent) \in Nat
    BY SizeAssumption, LenProperties DEF Inv, TypeOK
  <1>5. /\ ot[t].pos \in Nat /\ head[s].pos <= ot[t].pos /\ ot[t].pos < tt[t].pos
        /\ tt[t].pos <= tail[s].pos
        /\ oh[t].count + 1 = tt[t].count => \A u \in Working(s) : u # t => tt[t].pos <= ot[u].pos
    BY <1>1, EntryFacts DEF Inv, ThreadInv, CommitKnows
  <1>6. p = IF oh[t].count + 1 = tt[t].count THEN tt[t].pos ELSE head[s].pos
    BY <1>1, CommitIsExact DEF Commit
  <1>7. /\ head'[s].pos = p /\ \A r \in Sides : r # s => head'[r] = head[r]
    BY <1>1, <1>2
  <1>8. p \in Nat /\ head[s].pos <= p /\ p <= tail[s].pos
    BY <1>1, <1>2, <1>3, <1>5, <1>6
  <1>9. p # head[s].pos => \A u \in Threads : u # t /\ Side(u) = s /\ pc[u] \in InProgress =>
                              p - Start < Entry(u)
    <2> SUFFICES ASSUME p # head[s].pos, NEW u \in Threads, u # t, Side(u) = s, pc[u] \in InProgress
                 PROVE  p - Start < Entry(u)
      OBVIOUS
    <2>1. p = tt[t].pos /\ tt[t].pos <= ot[u].pos
      BY <1>5, <1>6 DEF Working
    <2>2. ot[u].pos \in Nat /\ Entry(u) = ot[u].pos - Start + 1
      BY EntryFacts
    <2> QED
      BY <2>1, <2>2, <1>2, <1>4
  <1>10. \A u \in Threads : u # t => Entry(u)' = Entry(u) /\ msg'[u] = msg[u] /\ pc'[u] = pc[u]
    BY <1>1, <1>2 DEF Entry
  <1>11. \A u \in Threads : Side(u) = s /\ pc[u] \in InProgress /\ Entry(u) = Entry(t) => u = t
    BY <1>1, EntriesDiffer
  <1> HIDE DEF p, s
  <1>12. CASE t \in Producers
    <2>1. s = "prod" /\ t \notin Consumers
      BY <1>12, Sets DEF s
    <2>2. /\ Working("prod")' = Working("prod") \ {t} /\ t \in Working("prod")
          /\ Readers' = Readers /\ Holders' = Holders
      BY <1>1, <1>2, <1>12, <2>1 DEF Working, Side, Readers, Holders, Threads
    <2>3. \A u \in Working("prod") : u \in Threads /\ Side(u) = s /\ pc[u] \in InProgress
      BY <2>1 DEF Working
    <2>4. Writing' = Writing \ {Entry(t)} /\ Entry(t) \in Writing
      BY <1>10, <1>11, <2>2, <2>3 DEF Writing
    <2>5. \A u \in Readers \cup Holders : u \in Threads /\ u # t
      BY <2>1 DEF Readers, Holders, Threads
    <2>6. Reading' = Reading
      BY <1>10, <2>2, <2>5 DEF Reading
    <2>7. InHand' = InHand
      BY <1>10, <2>2, <2>5 DEF InHand
    <2>8. UNCHANGED <<sent, Taken, Freed>> /\ Visible' = p - Start
      BY <1>1, <1>7, <2>1 DEF Taken, Freed, Visible
    <2>9. p - Start \in Visible..Len(sent)
      <3>1. tail["prod"].pos = Start + Len(sent)
        BY DEF Inv, ClaimsBounded
      <3> QED
        BY <3>1, <1>3, <1>4, <1>8, <2>1 DEF Visible
    <2>10. p - Start # Visible => \A j \in Writing' : p - Start < j
      <3>1. p - Start # Visible => p # head[s].pos
        BY <2>1 DEF Visible
      <3> QED
        BY <3>1, <1>9, <1>10, <2>2, <2>3 DEF Writing
    <2> QED
      BY <2>4, <2>6, <2>7, <2>8, <2>9, <2>10, IsWritten
  <1>13. CASE t \in Consumers
    <2>1. s = "cons" /\ t \notin Producers
      BY <1>13, Sets DEF s
    <2>2. /\ Working("prod")' = Working("prod") /\ t \notin Working("prod")
          /\ Readers' = Readers /\ t \notin Readers
          /\ Holders' = Holders \ {t} /\ t \in Holders
      BY <1>1, <1>2, <1>13, <2>1 DEF Working, Side, Readers, Holders, Threads
    <2>3. \A u \in Readers \cup Holders : u \in Threads /\ Side(u) = s /\ pc[u] \in InProgress
      BY <2>1, Sets DEF Readers, Holders
    <2>4. Writing' = Writing
      BY <1>10, <2>2 DEF Writing, Working
    <2>5. Reading' = Reading
      BY <1>10, <2>2, <2>3 DEF Reading
    <2> DEFINE d == <<Entry(t), msg[t]>>
    <2>6. InHand' = InHand \ {d} /\ d \in InHand
      <3>1. \A u \in Holders : <<Entry(u), msg[u]>> = d => u = t
        BY <1>11, <2>3
      <3> QED
        BY <1>10, <2>2, <2>3, <3>1 DEF InHand
    <2>7. UNCHANGED <<sent, Visible, Taken>> /\ Freed' = p - Start
      BY <1>1, <1>7, <2>1 DEF Taken, Freed, Visible
    <2>8. p - Start \in Freed..Taken
      BY <1>3, <1>4, <1>8, <2>1 DEF Freed, Taken
    <2>9. p - Start # Freed => /\ \A j \in Reading : p - Start < j
                               /\ \A e \in InHand' : p - Start < e[1]
      <3>1. p - Start # Freed => p # head[s].pos
        BY <2>1 DEF Freed
      <3>2. p # head[s].pos => \A j \in Reading : p - Start < j
        BY <1>9, <2>2, <2>3 DEF Reading
      <3>3. p # head[s].pos => \A e \in InHand' : p - Start < e[1]
        BY <1>9, <1>10, <2>2, <2>3 DEF InHand
      <3> QED
        BY <3>1, <3>2, <3>3
    <2> HIDE DEF d
    <2> QED
      BY <2>4, <2>5, <2>6, <2>7, <2>8, <2>9, IsDone
  <1> QED
    BY <1>12, <1>13 DEF Threads

-----------------------------------------------------------------------------
LEMMA NextRefines ==
  ASSUME Inv, Numbered, DataInv', [Next]_vars
  PROVE  FifoSteps
  <1>1. TypeOK
    BY DEF Inv
  <1>2. ASSUME NEW t \in Threads, CallStep(t) PROVE FifoSteps
    BY <1>1, <1>2, ClaimRefines, CommitRefines, QuietCall
  <1>3. CASE UNCHANGED vars
    BY <1>3, QuietFifo DEF vars
  <1>4. CASE Next
    BY <1>1, <1>2, <1>4, QuietBegin, QuietWrite, DequeueRefines
    DEF Next, rpcmsg_enqueue, rpcmsg_dequeue, Threads
  <1> QED
    BY <1>3, <1>4

LEMMA InitRefines == Init => Fifo!Init
  <1> SUFFICES ASSUME Init PROVE Fifo!Init
    OBVIOUS
  <1>1. \A t \in Threads : pc[t] = "idle"
    BY DEF Init
  <1>2. Working("prod") = {} /\ Readers = {} /\ Holders = {}
    BY <1>1 DEF Working, Readers, Holders, Threads
  <1>3. head["prod"].pos - Start = 0 /\ tail["cons"].pos - Start = 0 /\ head["cons"].pos - Start = 0
    BY SizeAssumption DEF Init
  <1>4. sent = <<>>
    BY DEF Init
  <1> QED
    BY <1>2, <1>3, <1>4 DEF Fifo!Init, Readers, Holders

(***************************************************************************)
(* With commits that order the slot's store before them, the ring is a     *)
(* bounded queue that hands out every accepted message once, unchanged and *)
(* in order, for any number of threads of either build: rpcmsg_enqueue     *)
(* and rpcmsg_dequeue implement MsgFifo.                                   *)
(***************************************************************************)
THEOREM RingImplementsFifo ==
  ASSUME RelaxedThreads = {}
  PROVE  Spec => ImplementsFifo
  <1>1. Inv /\ Inv' /\ DataInv /\ [Next]_vars => DataInv'
    BY NextData
  <1>2. Inv /\ Numbered /\ [Next]_vars => Numbered'
    BY NextNumbered DEF Inv
  <1>3. Inv /\ Numbered /\ DataInv' /\ [Next]_vars => [Fifo!Next]_abstract
    BY NextRefines DEF FifoSteps
  <1>4. Init => Fifo!Init
    BY InitRefines
  <1> QED
    BY <1>1, <1>2, <1>3, <1>4, InitData, InitNumbered, Invariance, AbstractState, PTL
    DEF Spec, ImplementsFifo
=============================================================================
