--------------------------- MODULE SharedIrqLine ---------------------------
(***************************************************************************)
(* A level-triggered interrupt line shared by several sources:             *)
(* src/shared_irq_line.c.  The line keeps one bit per source in a 64-bit   *)
(* word and tells the interrupt controller when the wired OR changes.      *)
(*                                                                         *)
(* The word is a set of bit numbers.  The code shifts an int: 1 << source  *)
(* has IntBits bits, its top bit is the sign and is extended to the width  *)
(* of the word, and the processor takes the shift count modulo IntBits (a  *)
(* larger count is undefined in C).  A change is a load of the word, a     *)
(* store, and a call of vm_set_irq_level; two threads that run rpc_run, as *)
(* happens during boot, may do that at the same time.                      *)
(***************************************************************************)
EXTENDS Integers

CONSTANTS
    Threads,   \* threads that change the line
    SourcesOf, \* per thread, the sources it changes: devices of a backend
    IntBits,   \* width of an int
    WordBits   \* width of line->sources

ASSUME LineAssumption ==
    /\ IntBits \in Nat \ {0} /\ WordBits \in Nat /\ IntBits <= WordBits
    /\ SourcesOf \in [Threads -> SUBSET Nat]
    /\ \A t, u \in Threads : t # u => SourcesOf[t] \cap SourcesOf[u] = {}

VARIABLES
    sources, \* line->sources
    level,   \* the line's level at the interrupt controller
    thread,  \* per thread: pc and the locals source, active, saved, new
    active   \* history: the sources whose latest change made them active

vars == <<sources, level, thread, active>>

(* The bits of (uint64_t) (1 << source). *)
Bit(source) ==
    LET k == source % IntBits
    IN  IF k = IntBits - 1 THEN k .. WordBits - 1 ELSE {k}

Idle == [pc |-> "idle", source |-> 0, active |-> FALSE, saved |-> {}, new |-> {}]

Init ==
    /\ sources = {}
    /\ level = FALSE
    /\ thread = [t \in Threads |-> Idle]
    /\ active = {}

(* Mutant: a clear forgets every source. *)
Changed_ClearsAll(word, source, on) == IF on THEN word \cup Bit(source) ELSE {}

(* line->sources |= 1 << source, or &= ~(1 << source). *)
Changed(word, source, on) == IF on THEN word \cup Bit(source) ELSE word \ Bit(source)

(* shared_irq_line_change refuses a source beyond the word, reads the word *)
(* ...                                                                     *)
LoadSources(t) ==
    /\ thread[t].pc = "idle"
    /\ \E s \in SourcesOf[t], on \in BOOLEAN :
          /\ s < WordBits
          /\ thread' = [thread EXCEPT ![t] =
                [pc |-> "loaded", source |-> s, active |-> on,
                 saved |-> sources, new |-> Changed(sources, s, on)]]
          /\ active' = IF on THEN active \cup {s} ELSE active \ {s}
    /\ UNCHANGED <<sources, level>>

(* Mutant: the interrupt controller is told of every change. *)
StoreSources_Always(t) ==
    /\ thread[t].pc = "loaded"
    /\ sources' = thread[t].new
    /\ thread' = [thread EXCEPT ![t].pc = "stored"]
    /\ UNCHANGED <<level, active>>

(* ... writes it, and is done if the wired OR has not changed ... *)
StoreSources(t) ==
    /\ thread[t].pc = "loaded"
    /\ sources' = thread[t].new
    /\ thread' = [thread EXCEPT ![t] =
          IF (thread[t].saved = {}) = (thread[t].new = {})
          THEN Idle ELSE [thread[t] EXCEPT !.pc = "stored"]]
    /\ UNCHANGED <<level, active>>

(* ... or tells the interrupt controller. *)
vm_set_irq_level(t) ==
    /\ thread[t].pc = "stored"
    /\ level' = (thread[t].new # {})
    /\ thread' = [thread EXCEPT ![t] = Idle]
    /\ UNCHANGED <<sources, active>>

Next == \E t \in Threads : LoadSources(t) \/ StoreSources(t) \/ vm_set_irq_level(t)

Spec == Init /\ [][Next]_vars

-----------------------------------------------------------------------------
AtRest == \A t \in Threads : thread[t].pc = "idle"

(* The sources are wire-ORed together: with no change under way, the line  *)
(* is high at the interrupt controller exactly if some source is active.   *)
WiredOr == AtRest => (level <=> active # {})

(* shared_irq_line_change calls the interrupt controller only to change    *)
(* the level: no edge is injected twice.                                   *)
EdgesOnly == [][\A t \in Threads :
    thread[t].pc = "stored" /\ thread'[t].pc = "idle" => level' # level]_vars

=============================================================================
