------------------------------- MODULE MsgFifo -------------------------------
(***************************************************************************)
(* What the message ring of include/sel4/rpc_queue.h promises its users:   *)
(* at most Capacity messages are under way, every accepted message is      *)
(* handed out once, unchanged, in the order of acceptance, and neither a   *)
(* message still being written nor an entry still being read is passed on. *)
(*                                                                         *)
(* Messages are numbered from 1 in the order in which they are accepted.   *)
(* visible and freed move in jumps: a writer that finishes while an older  *)
(* one is still at work leaves its message to be published by the other.   *)
(***************************************************************************)
EXTENDS Integers, Sequences

CONSTANTS
    Messages,  \* what may be sent
    Capacity   \* how many messages the ring holds

VARIABLES
    log,      \* every message accepted so far
    writing,  \* numbers of the messages accepted but not written yet
    visible,  \* messages 1..visible may be taken
    taken,    \* messages 1..taken have been taken
    reading,  \* numbers of the messages taken but not read yet
    inhand,   \* <<number, message>> read by a consumer that is not done
    freed     \* the room of messages 1..freed may be used again

fifoVars == <<log, writing, visible, taken, reading, inhand, freed>>

Init ==
    /\ log = <<>>
    /\ writing = {} /\ reading = {} /\ inhand = {}
    /\ visible = 0 /\ taken = 0 /\ freed = 0

Accept ==
    /\ Len(log) < freed + Capacity
    /\ \E m \in Messages : log' = Append(log, m)
    /\ writing' = writing \cup {Len(log) + 1}
    /\ UNCHANGED <<visible, taken, reading, inhand, freed>>

(* A writer is done; everything written by then may become visible. *)
Written(i) ==
    /\ i \in writing
    /\ writing' = writing \ {i}
    /\ \E n \in visible..Len(log) :
          /\ n # visible => \A j \in writing' : n < j
          /\ visible' = n
    /\ UNCHANGED <<log, taken, reading, inhand, freed>>

Take ==
    /\ taken < visible
    /\ taken' = taken + 1
    /\ reading' = reading \cup {taken + 1}
    /\ UNCHANGED <<log, writing, visible, inhand, freed>>

Deliver(i) ==
    /\ i \in reading
    /\ reading' = reading \ {i}
    /\ inhand' = inhand \cup {<<i, log[i]>>}
    /\ UNCHANGED <<log, writing, visible, taken, freed>>

(* A reader is done; the room of everything read by then may be reused. *)
Done(d) ==
    /\ d \in inhand
    /\ inhand' = inhand \ {d}
    /\ \E n \in freed..taken :
          /\ n # freed => /\ \A j \in reading : n < j
                          /\ \A e \in inhand' : n < e[1]
          /\ freed' = n
    /\ UNCHANGED <<log, writing, visible, taken, reading>>

Next ==
    \/ Accept \/ Take
    \/ \E i \in writing : Written(i)
    \/ \E i \in reading : Deliver(i)
    \/ \E d \in inhand : Done(d)

Spec == Init /\ [][Next]_fifoVars

==============================================================================
