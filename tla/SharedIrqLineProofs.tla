------------------------ MODULE SharedIrqLineProofs ------------------------
(***************************************************************************)
(* One thread that changes sources an int has a bit for keeps the line at  *)
(* the wired OR of its sources, for every width.                           *)
(*                                                                         *)
(* The word holds the bits of the active sources; while a change is under  *)
(* way, the thread's copy does, and the level is that of the word before.  *)
(***************************************************************************)
EXTENDS SharedIrqLine, TLAPS

Bits    == 0 .. WordBits - 1
Sources == UNION {SourcesOf[t] : t \in Threads}

(* What the variables hold. *)
Types ==
    /\ sources \subseteq Bits
    /\ level \in BOOLEAN
    /\ thread \in [Threads -> [pc : {"idle", "loaded", "stored"}, source : Sources \cup {0},
                              active : BOOLEAN, saved : SUBSET Bits, new : SUBSET Bits]]
    /\ active \subseteq Sources

(* The word that stands for a set of sources. *)
Word(A) == UNION {Bit(s) : s \in A}

LineInv ==
    \A t \in Threads :
        LET l == thread[t]
        IN  /\ l.pc = "idle" => sources = Word(active) /\ (level <=> sources # {})
            /\ l.pc = "loaded" => /\ l.saved = sources /\ l.new = Word(active)
                                  /\ level <=> l.saved # {}
            /\ l.pc = "stored" => /\ sources = l.new /\ l.new = Word(active)
                                  /\ level <=> l.saved # {}
                                  /\ (l.saved = {}) # (l.new = {})

(* A source has bits of the word, at least one of them its own. *)
LEMMA BitFacts ==
    \A s \in Nat : s < IntBits => s \in Bit(s) /\ Bit(s) \subseteq Bits
<1> SUFFICES ASSUME NEW s \in Nat, s < IntBits
             PROVE  s \in Bit(s) /\ Bit(s) \subseteq Bits
  OBVIOUS
<1>1. s % IntBits = s
  BY LineAssumption
<1> QED
  BY <1>1, LineAssumption DEF Bit, Bits

(* Two sources below the width of an int share no bit. *)
LEMMA BitsDisjoint ==
    \A s, u \in Nat : s < IntBits /\ u < IntBits /\ s # u => Bit(s) \cap Bit(u) = {}
<1> SUFFICES ASSUME NEW s \in Nat, NEW u \in Nat, s < IntBits, u < IntBits, s # u
             PROVE  Bit(s) \cap Bit(u) = {}
  OBVIOUS
<1>1. s % IntBits = s /\ u % IntBits = u
  BY LineAssumption
<1> QED
  BY <1>1, LineAssumption DEF Bit

(* A change of the word stands for the change of the set. *)
LEMMA WordOfChange ==
    ASSUME NEW A \in SUBSET (0 .. IntBits - 1), NEW s \in 0 .. IntBits - 1
    PROVE  /\ Changed(Word(A), s, TRUE) = Word(A \cup {s})
           /\ Changed(Word(A), s, FALSE) = Word(A \ {s})
           /\ Word(A) = {} <=> A = {}
<1>1. \A u \in A : u # s => Bit(u) \cap Bit(s) = {}
  BY BitsDisjoint, LineAssumption
<1>2. \A u \in A : u \in Bit(u)
  BY BitFacts, LineAssumption
<1>3. Changed(Word(A), s, TRUE) = Word(A \cup {s})
  BY DEF Changed, Word
<1>4. Changed(Word(A), s, FALSE) = Word(A \ {s})
  BY <1>1 DEF Changed, Word
<1>5. Word(A) = {} <=> A = {}
  BY <1>2 DEF Word
<1> QED
  BY <1>3, <1>4, <1>5

-----------------------------------------------------------------------------
(* Every step keeps the types. *)
LEMMA BitsOfWord == \A s \in Nat : Bit(s) \subseteq Bits
<1> SUFFICES ASSUME NEW s \in Nat
             PROVE  Bit(s) \subseteq Bits
  OBVIOUS
<1>1. s % IntBits \in 0 .. IntBits - 1
  BY LineAssumption
<1> QED
  BY <1>1, LineAssumption DEF Bit, Bits

LEMMA TypeStep == Types /\ [Next]_vars => Types'
<1> SUFFICES ASSUME Types, [Next]_vars
             PROVE  Types'
  OBVIOUS
<1> USE DEF Types
<1>1. ASSUME NEW t \in Threads, LoadSources(t)
      PROVE  Types'
  <2>1. PICK s \in SourcesOf[t], on \in BOOLEAN :
            /\ thread' = [thread EXCEPT ![t] =
                 [pc |-> "loaded", source |-> s, active |-> on,
                  saved |-> sources, new |-> Changed(sources, s, on)]]
            /\ active' = IF on THEN active \cup {s} ELSE active \ {s}
    BY <1>1 DEF LoadSources
  <2>2. s \in Nat /\ s \in Sources
    BY LineAssumption DEF Sources
  <2>3. Changed(sources, s, on) \subseteq Bits
    BY <2>2, BitsOfWord DEF Changed
  <2> QED
    BY <1>1, <2>1, <2>2, <2>3 DEF LoadSources
<1>2. ASSUME NEW t \in Threads, StoreSources(t)
      PROVE  Types'
  BY <1>2 DEF StoreSources, Idle
<1>3. ASSUME NEW t \in Threads, vm_set_irq_level(t)
      PROVE  Types'
  BY <1>3 DEF vm_set_irq_level, Idle
<1>4. CASE UNCHANGED vars
  BY <1>4 DEF vars
<1> QED
  BY <1>1, <1>2, <1>3, <1>4 DEF Next

LEMMA TypesInvariance == Spec => []Types
<1>1. Init => Types
  <2>1. Idle \in [pc : {"idle", "loaded", "stored"}, source : Sources \cup {0},
                  active : BOOLEAN, saved : SUBSET Bits, new : SUBSET Bits]
    BY DEF Idle
  <2> QED
    BY <2>1 DEF Init, Types
<1> QED
  BY <1>1, TypeStep, PTL DEF Spec

(* With one thread, and sources that an int has bits for, a step keeps the *)
(* word, the thread's copies and the level together.                       *)
LEMMA LineStep ==
    ASSUME NEW t0, Threads = {t0}, SourcesOf[t0] \subseteq 0 .. IntBits - 1,
           Types, LineInv, [Next]_vars
    PROVE  LineInv'
<1> DEFINE l == thread[t0]
<1>0. /\ t0 \in Threads /\ \A t \in Threads : t = t0
      /\ active \subseteq 0 .. IntBits - 1
      /\ level \in BOOLEAN
      /\ thread = [t \in Threads |-> thread[t]]
  BY DEF Types, Sources
<1>1. CASE LoadSources(t0)
  <2>1. PICK s \in SourcesOf[t0], on \in BOOLEAN :
            /\ thread' = [thread EXCEPT ![t0] =
                 [pc |-> "loaded", source |-> s, active |-> on,
                  saved |-> sources, new |-> Changed(sources, s, on)]]
            /\ active' = IF on THEN active \cup {s} ELSE active \ {s}
    BY <1>1 DEF LoadSources
  <2>2. sources = Word(active) /\ (level <=> sources # {})
    BY <1>0, <1>1 DEF LoadSources, LineInv
  <2>3. Changed(sources, s, on) = Word(active')
    <3>1. s \in 0 .. IntBits - 1
      BY <2>1
    <3>2. active \in SUBSET (0 .. IntBits - 1)
      BY <1>0
    <3>3. /\ Changed(Word(active), s, TRUE) = Word(active \cup {s})
          /\ Changed(Word(active), s, FALSE) = Word(active \ {s})
      BY <3>1, <3>2, WordOfChange
    <3>4. CASE on = TRUE
      <4>1. active' = active \cup {s}
        BY <2>1, <3>4
      <4> QED
        BY <2>2, <3>3, <3>4, <4>1
    <3>5. CASE on = FALSE
      <4>1. active' = active \ {s}
        BY <2>1, <3>5
      <4> QED
        BY <2>2, <3>3, <3>5, <4>1
    <3> QED
      BY <3>4, <3>5
  <2>4. /\ thread'[t0].pc = "loaded" /\ thread'[t0].saved = sources
        /\ thread'[t0].new = Changed(sources, s, on)
    BY <1>0, <2>1
  <2> QED
    BY <1>0, <1>1, <2>2, <2>3, <2>4 DEF LoadSources, LineInv
<1>2. CASE StoreSources(t0)
  <2>1. /\ l.saved = sources /\ l.new = Word(active)
        /\ level <=> l.saved # {}
    BY <1>0, <1>2 DEF StoreSources, LineInv
  <2>2. /\ sources' = l.new /\ UNCHANGED <<level, active>>
        /\ thread'[t0] = IF (l.saved = {}) = (l.new = {})
                         THEN Idle ELSE [l EXCEPT !.pc = "stored"]
    BY <1>0, <1>2 DEF StoreSources
  <2>3. CASE (l.saved = {}) = (l.new = {})
    BY <1>0, <2>1, <2>2, <2>3 DEF LineInv, Idle
  <2>4. CASE (l.saved = {}) # (l.new = {})
    <3>1. /\ thread'[t0].pc = "stored" /\ thread'[t0].saved = l.saved
          /\ thread'[t0].new = l.new
      BY <1>0, <2>2, <2>4 DEF Types
    <3> QED
      BY <1>0, <2>1, <2>2, <2>4, <3>1 DEF LineInv
  <2> QED
    BY <2>3, <2>4
<1>3. CASE vm_set_irq_level(t0)
  <2>1. sources = l.new /\ l.new = Word(active)
    BY <1>0, <1>3 DEF vm_set_irq_level, LineInv
  <2>2. /\ level' = (l.new # {}) /\ UNCHANGED <<sources, active>>
        /\ thread'[t0] = Idle
    BY <1>0, <1>3 DEF vm_set_irq_level
  <2>3. thread'[t0].pc = "idle"
    BY <2>2 DEF Idle
  <2>4. sources' = Word(active') /\ (level' <=> sources' # {})
    BY <2>1, <2>2
  <2> QED
    BY <1>0, <2>3, <2>4 DEF LineInv
<1>4. CASE UNCHANGED vars
  BY <1>4 DEF vars, LineInv
<1> QED
  BY <1>0, <1>1, <1>2, <1>3, <1>4 DEF Next

(* With one thread, and sources that an int has bits for (the slots of a   *)
(* PCI bus are), the line at rest is high exactly if a source is active:   *)
(* the sign extension of 1 << 31 does no harm.                             *)
THEOREM LineIsWiredOr ==
    ASSUME NEW t0, Threads = {t0}, SourcesOf[t0] \subseteq 0 .. IntBits - 1
    PROVE  Spec => []WiredOr
<1>1. Init => LineInv
  BY DEF Init, LineInv, Idle, Word
<1>2. Types /\ LineInv /\ [Next]_vars => LineInv'
  BY LineStep
<1>3. Types /\ LineInv => WiredOr
  <2> SUFFICES ASSUME Types, LineInv, AtRest
               PROVE  level <=> active # {}
    BY DEF WiredOr
  <2>1. sources = Word(active) /\ (level <=> sources # {})
    BY DEF AtRest, LineInv
  <2>2. active \subseteq 0 .. IntBits - 1
    BY DEF Types, Sources
  <2>3. 0 \in 0 .. IntBits - 1
    BY LineAssumption
  <2>4. Word(active) = {} <=> active = {}
    BY <2>2, <2>3, WordOfChange
  <2> QED
    BY <2>1, <2>4
<1> QED
  BY <1>1, <1>2, <1>3, TypesInvariance, PTL DEF Spec

(* With one thread, and sources that an int has bits for, every call of    *)
(* vm_set_irq_level changes the level.                                     *)
THEOREM LineInjectsEdges ==
    ASSUME NEW t0, Threads = {t0}, SourcesOf[t0] \subseteq 0 .. IntBits - 1
    PROVE  Spec => EdgesOnly
<1>1. Init => LineInv
  BY DEF Init, LineInv, Idle, Word
<1>2. Types /\ LineInv /\ [Next]_vars => LineInv'
  BY LineStep
<1>3. Types /\ LineInv /\ [Next]_vars =>
        [\A t \in Threads :
            thread[t].pc = "stored" /\ thread'[t].pc = "idle" => level' # level]_vars
  <2> SUFFICES ASSUME Types, LineInv, Next,
                      thread[t0].pc = "stored", thread'[t0].pc = "idle"
               PROVE  level' # level
    OBVIOUS
  <2>1. vm_set_irq_level(t0)
    BY DEF Next, LoadSources, StoreSources
  <2>2. level' = (thread[t0].new # {})
    BY <2>1 DEF vm_set_irq_level
  <2>3. /\ level <=> thread[t0].saved # {}
        /\ (thread[t0].saved = {}) # (thread[t0].new = {})
    BY DEF LineInv
  <2> QED
    BY <2>2, <2>3 DEF Types
<1> QED
  BY <1>1, <1>2, <1>3, TypesInvariance, PTL DEF Spec, EdgesOnly

=============================================================================
