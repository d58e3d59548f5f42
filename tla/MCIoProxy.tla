----------------------------- MODULE MCIoProxy -----------------------------
(* Instances of IoProxy: vCPUs are their ids, native threads model values. *)
EXTENDS IoProxy

(* What a buffer holds that is not lent, or that its new owner is about to *)
(* fill, is read by nobody (OneOwner, checked in the same run), so states  *)
(* that differ only there are one.                                         *)
LiveBuffers == lent \ {thread[t].id : t \in {u \in NativeThreads : thread[u].pc = "fill"}}

(* The client of a slot. *)
ClientOf(s) ==
    IF s \in VCpus THEN s ELSE CHOOSE t \in NativeThreads : thread[t].nativeSlot = s

(* Flipping every bit of one client's requests and answers gives a state   *)
(* that behaves alike: what counts is whether a bit is that of the latest  *)
(* request.                                                                *)
Latest(c, bit) == IF bit = None THEN None ELSE bit = token[c]

LiveMessage(b) ==
    LET m == buffer[b]
        c == ClientOf(m.slot)
    IN  <<m.slot, Latest(c, m.req), Latest(c, m.data)>>

LiveState == <<thread, freeSlot, ioacks, lent, [b \in LiveBuffers |-> LiveMessage(b)],
               queue, bell, actorVars, handoff, vcpu,
               [c \in Clients |-> Latest(c, value[c])], aborted>>
=============================================================================
