------------------------- MODULE DeviceEventsProofs -------------------------
(***************************************************************************)
(* Proofs about DeviceEvents, for a device that keeps quiet until the main *)
(* thread waits for START_VM: only the notification thread then takes      *)
(* events from the queue.                                                  *)
(*                                                                         *)
(* The device runs ahead of the driver VM by the events that are in the    *)
(* queue or being handled.  The inductive invariant says so: there is      *)
(* something w the device has asked for, at an earlier time, that the      *)
(* registry, the lines and the boot state agree with, and the event being  *)
(* handled and then the queue lead from w to what is asked for now.        *)
(***************************************************************************)
EXTENDS DeviceEvents, SequenceTheorems, WellFoundedInduction, TLAPS

(* The device keeps quiet until the main thread is past its rpc_run. *)
LateDevice == ~EarlyDevice

(* What the device can have asked for. *)
WantType ==
    [level : [Irqs -> BOOLEAN], devs : Nat, mmio : SUBSET Regions, atStart : Nat \cup {-1},
     sent : Nat]

(* The events q, one after the other, lead from a to b, and only the first *)
(* start among them and before them counts.                                *)
Path(q, a, b) ==
    \E f \in [0 .. Len(q) -> WantType] :
        /\ f[0] = a /\ f[Len(q)] = b
        /\ \A i \in 1 .. Len(q) : /\ f[i] = Wanted(f[i - 1], q[i])
                                  /\ q[i].op = "start" => f[i - 1].atStart = -1
        /\ \A i \in 0 .. Len(q) : f[i].atStart \in {-1, b.atStart} /\ f[i].devs <= b.devs

(* pcidev_find in the table d. *)
FoundIn(d, slot) == {i \in DOMAIN d : d[i].slot = slot}

FindIn(d, slot) == d[CHOOSE i \in FoundIn(d, slot) : \A j \in FoundIn(d, slot) : i <= j]

PinOf(d, slot) == FindIn(d, slot).guest % NumPins

DevTables == Seq([slot : Slots, guest : Nat])

(* With the devices d, of which the ones in the slots A hold their pins    *)
(* active, the pins have the sources src and the levels lv.                *)
Wired(d, A, src, lv) ==
    /\ \A s \in A : FoundIn(d, s) # {}
    /\ \A p \in Pins :
          /\ src[p] = {FindIn(d, s).guest : s \in {t \in A : FindIn(d, t).guest % NumPins = p}}
          /\ lv[<<"intx", p>>] = (src[p] # {})

PinTypes(src, lv) == src \in [Pins -> SUBSET Nat] /\ lv \in [Lines -> BOOLEAN]

(* No two devices have one number on the guest's bus. *)
DistinctNumbers(d) == \A i, j \in DOMAIN d : d[i].guest = d[j].guest => i = j

(* The device g of the slot s is added to the sources of its pin, or taken *)
(* from them.                                                              *)
SourceChanges(A, B, s, old, new, g) ==
    \/ B = A \cup {s} /\ new = old \cup {g}
    \/ B = A \ {s} /\ new = old \ {g}

(* shared_irq_line_change takes the sources of the pin p from src to tsrc, *)
(* with new for p, and the levels from lv to tlv.                          *)
PinChanges(p, new, src, lv, tsrc, tlv) ==
    /\ tsrc = [src EXCEPT ![p] = new]
    /\ tlv = IF (src[p] = {}) = (new = {}) THEN lv
             ELSE [lv EXCEPT ![<<"intx", p>>] = new # {}]

-----------------------------------------------------------------------------
(* What an event carries. *)
LEMMA EventFields ==
    ASSUME NEW e \in Events
    PROVE  /\ e # NoEvent /\ e.op \in {"irq", "register", "assign", "free", "start", "unknown"}
           /\ e.op = "irq" => e.irq \in Irqs /\ e.arg \in IrqOps
           /\ e.op = "register" => e.slot \in Slots
           /\ e.op \in {"assign", "free"} => e.region \in Regions
BY DEF Events, NoEvent

(* What Wanted changes. *)
LEMMA WantedFields ==
    ASSUME NEW w \in WantType, NEW e \in Events
    PROVE  /\ Wanted(w, e) \in WantType
           /\ Wanted(w, e).level =
                 IF e.op = "irq"
                 THEN [w.level EXCEPT ![e.irq] = e.arg = "set" /\ e.irq \notin MsiIrqs]
                 ELSE w.level
           /\ Wanted(w, e).devs = IF e.op = "register" THEN w.devs + 1 ELSE w.devs
           /\ Wanted(w, e).mmio = IF e.op = "assign" THEN w.mmio \cup {e.region}
                                  ELSE IF e.op = "free" THEN w.mmio \ {e.region} ELSE w.mmio
           /\ Wanted(w, e).atStart = IF e.op = "start" THEN w.devs ELSE w.atStart
<1>1. /\ w.level \in [Irqs -> BOOLEAN] /\ w.devs \in Nat /\ w.mmio \in SUBSET Regions
      /\ w.atStart \in Nat \cup {-1} /\ w.sent \in Nat
    BY DEF WantType
<1> DEFINE lv == IF e.op = "irq"
                 THEN [w.level EXCEPT ![e.irq] = e.arg = "set" /\ e.irq \notin MsiIrqs]
                 ELSE w.level
           dv == IF e.op = "register" THEN w.devs + 1 ELSE w.devs
           mm == IF e.op = "assign" THEN w.mmio \cup {e.region}
                 ELSE IF e.op = "free" THEN w.mmio \ {e.region} ELSE w.mmio
           st == IF e.op = "start" THEN w.devs ELSE w.atStart
<1>2. Wanted(w, e) = [level |-> lv, devs |-> dv, mmio |-> mm, atStart |-> st,
                      sent |-> w.sent + 1]
    BY DEF Wanted
<1>3. lv \in [Irqs -> BOOLEAN]
    BY <1>1
<1>4. dv \in Nat /\ st \in Nat \cup {-1} /\ w.sent + 1 \in Nat
    BY <1>1
<1>5. mm \in SUBSET Regions
    BY <1>1, EventFields
<1> HIDE DEF lv, dv, mm, st
<1>6. Wanted(w, e) \in WantType
    BY <1>2, <1>3, <1>4, <1>5 DEF WantType
<1>7. /\ Wanted(w, e).level = lv /\ Wanted(w, e).devs = dv /\ Wanted(w, e).mmio = mm
      /\ Wanted(w, e).atStart = st
    BY <1>2
<1> QED BY <1>6, <1>7 DEF lv, dv, mm, st

-----------------------------------------------------------------------------
(* Paths.                                                                  *)

(* No event leads nowhere. *)
LEMMA PathNil ==
    ASSUME NEW a \in WantType
    PROVE  Path(<<>>, a, a)
<1> DEFINE f == [i \in 0 .. 0 |-> a]
<1>1. f \in [0 .. Len(<<>>) -> WantType] /\ f[0] = a /\ f[Len(<<>>)] = a
    OBVIOUS
<1>2. \A i \in 0 .. Len(<<>>) : f[i].atStart \in {-1, a.atStart} /\ f[i].devs <= a.devs
    BY DEF WantType
<1> HIDE DEF f
<1>3. \A i \in 1 .. Len(<<>>) : FALSE
    OBVIOUS
<1> QED BY <1>1, <1>2, <1>3 DEF Path

LEMMA PathEmpty ==
    ASSUME NEW a, NEW b, Path(<<>>, a, b)
    PROVE  a = b
BY DEF Path

(* The ends of a path, and its starts. *)
LEMMA PathEnds ==
    ASSUME NEW q \in Seq(Events), NEW a, NEW b, Path(q, a, b)
    PROVE  /\ a \in WantType /\ b \in WantType /\ a.atStart \in {-1, b.atStart}
           /\ a.devs <= b.devs
<1>1. Len(q) \in Nat
    BY LenProperties
<1>2. 0 \in 0 .. Len(q) /\ Len(q) \in 0 .. Len(q)
    BY <1>1
<1> QED BY <1>2 DEF Path

(* An event more is sent. *)
LEMMA PathAppend ==
    ASSUME NEW q \in Seq(Events), NEW a, NEW b, NEW e \in Events,
           Path(q, a, b), e.op = "start" => b.atStart = -1
    PROVE  Path(Append(q, e), a, Wanted(b, e))
<1>1. PICK f \in [0 .. Len(q) -> WantType] :
        /\ f[0] = a /\ f[Len(q)] = b
        /\ \A i \in 1 .. Len(q) : /\ f[i] = Wanted(f[i - 1], q[i])
                                  /\ q[i].op = "start" => f[i - 1].atStart = -1
        /\ \A i \in 0 .. Len(q) : f[i].atStart \in {-1, b.atStart} /\ f[i].devs <= b.devs
    BY DEF Path
<1> DEFINE n == Len(q)
           p == Append(q, e)
           c == Wanted(b, e)
           g == [i \in 0 .. n + 1 |-> IF i = n + 1 THEN c ELSE f[i]]
<1>2. n \in Nat /\ Len(p) = n + 1 /\ p[n + 1] = e /\ \A i \in 1 .. n : p[i] = q[i]
    BY AppendProperties, LenProperties
<1>3. b \in WantType /\ c \in WantType
    BY PathEnds, WantedFields
<1>4. /\ c.atStart = IF e.op = "start" THEN b.devs ELSE b.atStart
      /\ b.devs \in Nat /\ c.devs \in Nat /\ b.devs <= c.devs
  <2>1. /\ c.atStart = IF e.op = "start" THEN b.devs ELSE b.atStart
        /\ c.devs = IF e.op = "register" THEN b.devs + 1 ELSE b.devs
      BY <1>3, WantedFields
  <2>2. b.devs \in Nat
      BY <1>3 DEF WantType
  <2> HIDE DEF c
  <2> QED BY <2>1, <2>2
<1> HIDE DEF p, c
<1>5. g \in [0 .. Len(p) -> WantType] /\ g[0] = a /\ g[Len(p)] = c
    BY <1>1, <1>2, <1>3
<1>6. \A i \in 1 .. n : g[i] = f[i] /\ g[i - 1] = f[i - 1]
    BY <1>2
<1>7. g[n + 1] = c /\ g[n] = b
    BY <1>1, <1>2
<1> HIDE DEF g
<1>8. \A i \in 1 .. Len(p) : /\ g[i] = Wanted(g[i - 1], p[i])
                             /\ p[i].op = "start" => g[i - 1].atStart = -1
  <2> SUFFICES ASSUME NEW i \in 1 .. Len(p)
               PROVE  /\ g[i] = Wanted(g[i - 1], p[i])
                      /\ p[i].op = "start" => g[i - 1].atStart = -1
      OBVIOUS
  <2>1. CASE i \in 1 .. n
      BY <2>1, <1>1, <1>2, <1>6
  <2>2. CASE i = n + 1
    <3>1. i - 1 = n
        BY <2>2, <1>2
    <3> QED BY <3>1, <2>2, <1>2, <1>7 DEF c
  <2> QED BY <2>1, <2>2, <1>2
<1>9. \A i \in 0 .. Len(p) : g[i].atStart \in {-1, c.atStart} /\ g[i].devs <= c.devs
  <2> SUFFICES ASSUME NEW i \in 0 .. Len(p)
               PROVE  g[i].atStart \in {-1, c.atStart} /\ g[i].devs <= c.devs
      OBVIOUS
  <2>1. CASE i = n + 1
      BY <2>1, <1>4, <1>7
  <2>2. CASE i \in 0 .. n
    <3>1. g[i] = f[i]
        BY <2>2, <1>2 DEF g
    <3>2. f[i].devs \in Nat /\ f[i].devs <= b.devs
        BY <2>2, <1>1 DEF WantType
    <3>3. g[i].devs <= c.devs
        BY <3>1, <3>2, <1>4
    <3> QED BY <3>1, <3>3, <2>2, <1>1, <1>4
  <2> QED BY <2>1, <2>2, <1>2
<1> QED BY <1>5, <1>8, <1>9 DEF Path, p, c

(* The first event is taken. *)
LEMMA PathTail ==
    ASSUME NEW q \in Seq(Events), NEW a, NEW b, Path(q, a, b), q # <<>>
    PROVE  /\ Path(Tail(q), Wanted(a, Head(q)), b)
           /\ Head(q).op = "start" => a.atStart = -1
<1>1. PICK f \in [0 .. Len(q) -> WantType] :
        /\ f[0] = a /\ f[Len(q)] = b
        /\ \A i \in 1 .. Len(q) : /\ f[i] = Wanted(f[i - 1], q[i])
                                  /\ q[i].op = "start" => f[i - 1].atStart = -1
        /\ \A i \in 0 .. Len(q) : f[i].atStart \in {-1, b.atStart} /\ f[i].devs <= b.devs
    BY DEF Path
<1> DEFINE n == Len(q)
           p == Tail(q)
           g == [i \in 0 .. n - 1 |-> f[i + 1]]
<1>2. n \in Nat /\ n >= 1 /\ Len(p) = n - 1 /\ Head(q) = q[1]
      /\ \A i \in 1 .. n - 1 : p[i] = q[i + 1]
    BY HeadTailProperties, LenProperties, EmptySeq
<1> HIDE DEF p
<1>3. f[1] = Wanted(a, q[1]) /\ (q[1].op = "start" => a.atStart = -1)
    BY <1>1, <1>2
<1>4. g \in [0 .. Len(p) -> WantType] /\ g[0] = Wanted(a, q[1]) /\ g[Len(p)] = b
    BY <1>1, <1>2, <1>3
<1>5. \A i \in 0 .. n - 1 : g[i] = f[i + 1]
    OBVIOUS
<1> HIDE DEF g
<1>6. \A i \in 1 .. Len(p) : /\ g[i] = Wanted(g[i - 1], p[i])
                             /\ p[i].op = "start" => g[i - 1].atStart = -1
  <2> SUFFICES ASSUME NEW i \in 1 .. Len(p)
               PROVE  /\ g[i] = Wanted(g[i - 1], p[i])
                      /\ p[i].op = "start" => g[i - 1].atStart = -1
      OBVIOUS
  <2>1. i + 1 \in 1 .. n /\ (i + 1) - 1 = i /\ g[i] = f[i + 1] /\ g[i - 1] = f[i] /\ p[i] = q[i + 1]
      BY <1>2, <1>5
  <2> QED BY <2>1, <1>1
<1>7. \A i \in 0 .. Len(p) : g[i].atStart \in {-1, b.atStart} /\ g[i].devs <= b.devs
    BY <1>1, <1>2, <1>5
<1> QED BY <1>2, <1>3, <1>4, <1>6, <1>7 DEF Path, p

-----------------------------------------------------------------------------
(* pcidev_find.                                                            *)

(* pcidev_find finds the first device of the slot. *)
LEMMA FindFirst ==
    ASSUME NEW d \in DevTables, NEW s, FoundIn(d, s) # {}
    PROVE  \E i \in DOMAIN d : /\ FindIn(d, s) = d[i] /\ d[i].slot = s
                               /\ \A j \in FoundIn(d, s) : i <= j
<1> DEFINE T == FoundIn(d, s)
<1>1. T \subseteq DOMAIN d /\ DOMAIN d \subseteq Nat
    BY LenProperties DEF FoundIn, DevTables
<1>2. PICK i \in T : \A y \in T : ~(<<y, i>> \in OpToRel(<, Nat))
    BY <1>1, NatLessThanWellFounded, WFMin, Zenon
<1>3. \A j \in T : i <= j
  <2>1. \A y \in T : y < i => <<y, i>> \in OpToRel(<, Nat)
      BY <1>1, Zenon DEF OpToRel
  <2>2. \A y \in T : ~(y < i)
      BY <2>1, <1>2, Zenon
  <2> QED BY <2>2, <1>1
<1> DEFINE k == CHOOSE m \in T : \A j \in T : m <= j
<1>4. k \in T /\ \A j \in T : k <= j
    BY <1>3, Zenon
<1>5. FindIn(d, s) = d[k]
    BY DEF FindIn
<1> QED BY <1>1, <1>4, <1>5 DEF FoundIn

(* The device found, as a record. *)
LEMMA FindType ==
    ASSUME NEW d \in DevTables, NEW s, FoundIn(d, s) # {}
    PROVE  FindIn(d, s).guest \in Nat /\ FindIn(d, s).guest % NumPins \in Pins
<1>1. PICK i \in DOMAIN d : FindIn(d, s) = d[i]
    BY FindFirst
<1>2. d[i] \in [slot : Slots, guest : Nat]
    BY ElementOfSeq, LenProperties DEF DevTables
<1>3. FindIn(d, s).guest \in Nat
    BY <1>1, <1>2
<1> QED BY <1>3, EventsAssumption DEF Pins

(* Devices found in two slots have different numbers in the guest. *)
LEMMA FindInjective ==
    ASSUME NEW d \in DevTables, NEW s, NEW t, FoundIn(d, s) # {}, FoundIn(d, t) # {},
           \A i, j \in DOMAIN d : d[i].guest = d[j].guest => i = j,
           FindIn(d, s).guest = FindIn(d, t).guest
    PROVE  s = t
<1>1. PICK i \in DOMAIN d : FindIn(d, s) = d[i] /\ d[i].slot = s
    BY FindFirst
<1>2. PICK j \in DOMAIN d : FindIn(d, t) = d[j] /\ d[j].slot = t
    BY FindFirst
<1> QED BY <1>1, <1>2

(* A device more does not change what is found in the slots that had one. *)
LEMMA FindStable ==
    ASSUME NEW d \in DevTables, NEW x \in [slot : Slots, guest : Nat], NEW s,
           FoundIn(d, s) # {}
    PROVE  FoundIn(Append(d, x), s) # {} /\ FindIn(Append(d, x), s) = FindIn(d, s)
<1> DEFINE c == Append(d, x)
<1>1. /\ c \in DevTables /\ Len(d) \in Nat /\ DOMAIN d = 1 .. Len(d)
      /\ DOMAIN c = 1 .. Len(d) + 1 /\ \A i \in DOMAIN d : c[i] = d[i]
    BY AppendProperties, LenProperties DEF DevTables
<1> HIDE DEF c
<1>2. PICK i \in DOMAIN d : /\ FindIn(d, s) = d[i] /\ d[i].slot = s
                            /\ \A j \in FoundIn(d, s) : i <= j
    BY FindFirst
<1>3. i \in FoundIn(c, s)
    BY <1>1, <1>2 DEF FoundIn
<1>4. PICK k \in DOMAIN c : /\ FindIn(c, s) = c[k] /\ c[k].slot = s
                            /\ \A j \in FoundIn(c, s) : k <= j
    BY <1>1, <1>3, FindFirst
<1>5. k <= i
    BY <1>3, <1>4
<1>6. k \in DOMAIN d
    BY <1>1, <1>5
<1>7. k \in FoundIn(d, s)
    BY <1>1, <1>4, <1>6 DEF FoundIn
<1>8. i <= k
    BY <1>2, <1>7
<1>9. i = k
    BY <1>1, <1>5, <1>6, <1>8
<1> QED BY <1>1, <1>2, <1>3, <1>4, <1>9 DEF c

-----------------------------------------------------------------------------
(* Pins.                                                                   *)

(* Only the levels of the pins matter. *)
LEMMA WiredLevels ==
    ASSUME NEW d, NEW A, NEW src, NEW lv, NEW lw, Wired(d, A, src, lv),
           \A p \in Pins : lw[<<"intx", p>>] = lv[<<"intx", p>>]
    PROVE  Wired(d, A, src, lw)
BY DEF Wired

(* A device more leaves the pins alone. *)
LEMMA WiredAppend ==
    ASSUME NEW d \in DevTables, NEW x \in [slot : Slots, guest : Nat], NEW A, NEW src, NEW lv,
           Wired(d, A, src, lv)
    PROVE  Wired(Append(d, x), A, src, lv)
<1> DEFINE c == Append(d, x)
<1>1. \A s \in A : FoundIn(d, s) # {}
    BY DEF Wired
<1>2. \A s \in A : FoundIn(c, s) # {} /\ FindIn(c, s) = FindIn(d, s)
    BY <1>1, FindStable
<1> HIDE DEF c
<1>3. ASSUME NEW p \in Pins
      PROVE  {FindIn(c, s).guest : s \in {t \in A : FindIn(c, t).guest % NumPins = p}}
                = {FindIn(d, s).guest : s \in {t \in A : FindIn(d, t).guest % NumPins = p}}
    BY <1>2
<1> QED BY <1>2, <1>3 DEF Wired, c

(* shared_irq_line_change makes the source of a device active or not, and  *)
(* the level of its pin follows.                                           *)
LEMMA WiredChange ==
    ASSUME NEW d \in DevTables, DistinctNumbers(d),
           NEW A, NEW src, NEW lv, PinTypes(src, lv), Wired(d, A, src, lv),
           NEW s, FoundIn(d, s) # {},
           NEW p, p = PinOf(d, s),
           NEW new, NEW B, SourceChanges(A, B, s, src[p], new, FindIn(d, s).guest),
           NEW tsrc, NEW tlv, PinChanges(p, new, src, lv, tsrc, tlv)
    PROVE  /\ Wired(d, B, tsrc, tlv) /\ PinTypes(tsrc, tlv)
           /\ \A i \in MsiIrqs \cup EmuIrqs : tlv[<<"spi", i>>] = lv[<<"spi", i>>]
<1> DEFINE g == FindIn(d, s).guest
           On(C, q) == {FindIn(d, u).guest : u \in {t \in C : FindIn(d, t).guest % NumPins = q}}
<1>0. src \in [Pins -> SUBSET Nat] /\ lv \in [Lines -> BOOLEAN]
    BY DEF PinTypes
<1>1. /\ tsrc = [src EXCEPT ![p] = new]
      /\ tlv = IF (src[p] = {}) = (new = {}) THEN lv ELSE [lv EXCEPT ![<<"intx", p>>] = new # {}]
    BY DEF PinChanges
<1>2. g \in Nat /\ p \in Pins
    BY FindType DEF PinOf
<1>3. /\ \A t \in A : FoundIn(d, t) # {}
      /\ \A q \in Pins : src[q] = On(A, q) /\ lv[<<"intx", q>>] = (src[q] # {})
    BY DEF Wired
<1>4. \A t \in A : FindIn(d, t).guest = g => t = s
    BY <1>3, FindInjective DEF DistinctNumbers
<1>5. On(B, p) = new
  <2>1. src[p] = On(A, p)
      BY <1>2, <1>3
  <2>2. CASE B = A \cup {s} /\ new = src[p] \cup {g}
      BY <2>1, <2>2 DEF PinOf
  <2>3. CASE B = A \ {s} /\ new = src[p] \ {g}
      BY <2>1, <2>3, <1>4 DEF PinOf
  <2> QED BY <2>2, <2>3 DEF SourceChanges
<1>6. \A q \in Pins : q # p => On(B, q) = On(A, q)
    BY DEF SourceChanges, PinOf
<1> HIDE DEF On
<1>7. new \subseteq Nat
    BY <1>0, <1>2 DEF SourceChanges
<1>8. tsrc \in [Pins -> SUBSET Nat] /\ tsrc[p] = new /\ \A q \in Pins : q # p => tsrc[q] = src[q]
    BY <1>0, <1>1, <1>2, <1>7
<1>9. <<"intx", p>> \in Lines /\ \A q \in Pins : <<"intx", q>> \in Lines
    BY <1>2 DEF Lines, PinLines
<1>10. tlv[<<"intx", p>>] = (new # {})
  <2>1. lv[<<"intx", p>>] = (src[p] # {})
      BY <1>2, <1>3
  <2> QED BY <2>1, <1>0, <1>1, <1>9
<1>11. \A q \in Pins : q # p => tlv[<<"intx", q>>] = lv[<<"intx", q>>]
    BY <1>0, <1>1, <1>9
<1>12. tlv \in [Lines -> BOOLEAN]
    BY <1>0, <1>1
<1>13. \A i \in MsiIrqs \cup EmuIrqs : tlv[<<"spi", i>>] = lv[<<"spi", i>>]
    BY <1>0, <1>1 DEF Lines, FrameLines
<1>14. \A t \in B : FoundIn(d, t) # {}
    BY <1>3 DEF SourceChanges
<1>15. \A q \in Pins : tsrc[q] = On(B, q) /\ tlv[<<"intx", q>>] = (tsrc[q] # {})
  <2>1. tsrc[p] = On(B, p) /\ tlv[<<"intx", p>>] = (tsrc[p] # {})
      BY <1>5, <1>8, <1>10
  <2>2. ASSUME NEW q \in Pins, q # p
        PROVE  tsrc[q] = On(B, q) /\ tlv[<<"intx", q>>] = (tsrc[q] # {})
      BY <2>2, <1>3, <1>6, <1>8, <1>11
  <2>3. ASSUME NEW q \in Pins
        PROVE  tsrc[q] = On(B, q) /\ tlv[<<"intx", q>>] = (tsrc[q] # {})
    <3>1. CASE q = p
        BY <3>1, <2>1, Zenon
    <3>2. CASE q # p
        BY <3>2, <2>2
    <3> QED BY <3>1, <3>2
  <2> QED BY <2>3
<1>16. Wired(d, B, tsrc, tlv)
    BY <1>14, <1>15 DEF Wired, On
<1>17. PinTypes(tsrc, tlv)
    BY <1>8, <1>12 DEF PinTypes
<1> QED BY <1>13, <1>16, <1>17

-----------------------------------------------------------------------------
(* The inductive invariant.                                                *)

Main == runner["main"]
Ntfn == runner["ntfn"]

(* The notification thread has taken an event and is handling it. *)
Busy == Ntfn.pc \notin {"wait", "receive"}

(* How many devices are in the table: between the two writes of            *)
(* pcidev_register one is counted, or set, and is not yet one of them.     *)
Known == IF Ntfn.pc = "counted" THEN pci_dev_count - 1 ELSE pci_dev_count

devs == [i \in 1 .. Known |-> pci_devs[i]]

(* Behind them nothing is set but the one that is being registered. *)
TableShape ==
    /\ Known \in 0 .. NumAvail
    /\ \A i \in 1 .. Known : pci_devs[i] \in [slot : Slots, guest : Nat]
    /\ \A i \in TableIndices : i > Known =>
          pci_devs[i] = NoDev \/ (Ntfn.pc = "written" /\ i = Known + 1)

(* The main thread finds no event: it never handles one. *)
MainShape ==
    /\ Main.pc \in {"receive", "await", "sem wait", "booted", "pulsing"}
    /\ Main.pc = "receive" => events = <<>>
    /\ Main.pc = "pulsing" => Main.ev \in Events /\ Main.ev.op = "irq" /\ Main.ev.irq \in MsiIrqs
    /\ Main.pc \in {"booted", "pulsing"} => okToRun

(* A device is on the guest's bus and not yet in the table. *)
Registering == Ntfn.pc \in {"count", "store", "counted", "written"}

(* What the notification thread knows at each label. *)
NtfnShape ==
    /\ Ntfn.pc \in {"wait", "receive", "process", "lower", "count", "store", "counted",
                    "written", "assign", "post"}
    /\ Busy => Ntfn.ev \in Events
    /\ Ntfn.pc = "lower" => /\ Ntfn.ev.op = "irq"
                            /\ Ntfn.ev.irq \notin MsiIrqs => Ntfn.ev.arg = "pulse"
                            /\ Ntfn.ev.irq \in Slots => FoundIn(devs, Ntfn.ev.irq) # {}
    /\ Registering => Ntfn.ev.op = "register" /\ Known < NumAvail
    /\ Ntfn.pc \in {"store", "counted", "written"} => Ntfn.index = Known
    /\ Ntfn.pc = "written" =>
          pci_devs[Known + 1] = [slot |-> Ntfn.ev.slot, guest |-> Ntfn.dev]
    /\ Ntfn.pc = "post" => Ntfn.ev.op = "start"
    /\ Ntfn.pc = "assign" => /\ Ntfn.ev.op = "irq" /\ Ntfn.ev.irq \in EmuIrqs
                             /\ \A i \in DOMAIN irqs : irqs[i] # Ntfn.ev.irq

(* No two devices have one number on the guest's bus, the device that is   *)
(* being registered included.                                              *)
BusNumbers ==
    /\ \A i, j \in DOMAIN devs : devs[i].guest = devs[j].guest => i = j
    /\ \A i \in DOMAIN devs : devs[i].guest < nextDev
    /\ Registering =>
          Ntfn.dev < nextDev /\ \A i \in DOMAIN devs : devs[i].guest # Ntfn.dev

(* The interrupt has been asked for in w, or is in the middle of a pulse. *)
Raised(w, i) == w.level[i] \/ (Ntfn.pc = "lower" /\ Ntfn.ev.irq = i)

Up(w) == {s \in Slots : Raised(w, s)}

PinsMatch(w) == Wired(devs, Up(w), sources, level)

SpisMatch(w) ==
    /\ \A i \in EmuIrqs : level[<<"spi", i>>] = Raised(w, i)
    /\ \A i \in MsiIrqs : /\ ~w.level[i]
                          /\ level[<<"spi", i>>] => \/ Ntfn.pc = "lower" /\ Ntfn.ev.irq = i
                                                    \/ Main.pc = "pulsing" /\ Main.ev.irq = i

RegistryMatches(w) == Known = w.devs /\ mmio = w.mmio /\ reserved = w.mmio

BootMatches(w) ==
    /\ okToRun = (w.atStart # -1 \/ Ntfn.pc = "post")
    /\ w.atStart \in {-1, want.atStart} /\ w.atStart <= w.devs
    /\ started > 0 => w.atStart # -1
    /\ Busy /\ Ntfn.ev.op = "start" => w.atStart = -1

(* The event being handled and the queue lead from w to what is wanted. *)
Behind(w) == Path(events, IF Busy THEN Wanted(w, Ntfn.ev) ELSE w, want)

(* What the device had asked for with w is in place. *)
Done(w) == PinsMatch(w) /\ SpisMatch(w) /\ RegistryMatches(w) /\ BootMatches(w) /\ Behind(w)

Shape == TypeOK /\ want \in WantType /\ MainShape /\ NtfnShape /\ TableShape /\ BusNumbers

Inv == Shape /\ \E w \in WantType : Done(w)

-----------------------------------------------------------------------------
(* The table of devices.                                                   *)

LEMMA TableSeq ==
    ASSUME NEW f, NEW n \in Nat, \A i \in 1 .. n : f[i] \in [slot : Slots, guest : Nat],
           NEW d, d = [i \in 1 .. n |-> f[i]]
    PROVE  /\ d \in DevTables /\ Len(d) = n /\ DOMAIN d = 1 .. n
           /\ \A i \in 1 .. n : d[i] = f[i] /\ d[i] \in [slot : Slots, guest : Nat]
<1> DEFINE R == [slot : Slots, guest : Nat]
<1>1. \A i \in 1 .. n : f[i] \in R
    OBVIOUS
<1> HIDE DEF R
<1>2. d \in [1 .. n -> R]
    BY <1>1
<1>3. d \in Seq(R)
    BY <1>2, SeqDef
<1>4. DOMAIN d = 1 .. n /\ DOMAIN d = 1 .. Len(d) /\ Len(d) \in Nat
    BY <1>2, <1>3, LenProperties
<1>5. Len(d) = n
    BY <1>4
<1> QED BY <1>1, <1>3, <1>4, <1>5 DEF R, DevTables

LEMMA TableFacts ==
    ASSUME TableShape
    PROVE  /\ devs \in DevTables /\ Len(devs) = Known /\ Known \in Nat
           /\ DOMAIN devs = 1 .. Known
           /\ \A i \in 1 .. Known : devs[i] = pci_devs[i] /\ devs[i] \in [slot : Slots, guest : Nat]
<1>1. Known \in Nat /\ \A i \in 1 .. Known : pci_devs[i] \in [slot : Slots, guest : Nat]
    BY EventsAssumption DEF TableShape
<1>2. devs = [i \in 1 .. Known |-> pci_devs[i]]
    BY DEF devs
<1> QED BY <1>1, <1>2, TableSeq

(* A step that does not come to pcidev_register leaves the table alone. *)
LEMMA TableStays ==
    ASSUME TableShape, UNCHANGED table,
           Ntfn'.pc = "counted" <=> Ntfn.pc = "counted",
           Ntfn'.pc = "written" <=> Ntfn.pc = "written"
    PROVE  /\ pci_devs' = pci_devs /\ pci_dev_count' = pci_dev_count
           /\ devs' = devs /\ Known' = Known /\ TableShape'
<1>1. pci_devs' = pci_devs /\ pci_dev_count' = pci_dev_count
    BY DEF table
<1>2. Known' = Known
    BY <1>1 DEF Known
<1>3. devs' = devs
    BY <1>1, <1>2 DEF devs
<1>4. TableShape'
    BY <1>1, <1>2 DEF TableShape
<1> QED BY <1>1, <1>2, <1>3, <1>4

(* The same when the notification thread does not move. *)
LEMMA TableRests ==
    ASSUME Shape, UNCHANGED table, Ntfn' = Ntfn
    PROVE  /\ pci_devs' = pci_devs /\ pci_dev_count' = pci_dev_count
           /\ devs' = devs /\ Known' = Known /\ TableShape'
BY TableStays DEF Shape

(* pcidev_find sees the table. *)
LEMMA FindsIn ==
    ASSUME TableShape, Ntfn.pc # "counted"
    PROVE  /\ \A t : Found(t) = FoundIn(devs, t)
           /\ \A t : Finds(t) => FoundIn(devs, t) # {}
           /\ \A t : FoundIn(devs, t) # {} => pcidev_find(t) = FindIn(devs, t)
<1>1. /\ Known = pci_dev_count /\ DOMAIN devs = 1 .. Known /\ devs \in DevTables
      /\ \A i \in 1 .. Known : devs[i] = pci_devs[i]
    BY TableFacts DEF Known
<1>2. \A t : Found(t) = FoundIn(devs, t)
    BY <1>1 DEF Found, FoundIn
<1>3. \A t : Finds(t) => FoundIn(devs, t) # {}
    BY <1>2 DEF Finds
<1>4. ASSUME NEW t, FoundIn(devs, t) # {}
      PROVE  pcidev_find(t) = FindIn(devs, t)
  <2>1. PICK i \in DOMAIN devs : devs[i].slot = t /\ \A j \in FoundIn(devs, t) : i <= j
      BY <1>1, <1>4, FindFirst
  <2>2. i \in FoundIn(devs, t)
      BY <2>1 DEF FoundIn
  <2> DEFINE k == CHOOSE m \in FoundIn(devs, t) : \A j \in FoundIn(devs, t) : m <= j
  <2>3. k \in FoundIn(devs, t)
      BY <2>1, <2>2, Zenon
  <2>4. FindIn(devs, t) = devs[k] /\ pcidev_find(t) = pci_devs[k]
      BY <1>2 DEF FindIn, pcidev_find
  <2> HIDE DEF k
  <2> QED BY <2>3, <2>4, <1>1 DEF FoundIn
<1> QED BY <1>2, <1>3, <1>4

-----------------------------------------------------------------------------
(* The program counters.                                                   *)

LEMMA NtfnGoto ==
    ASSUME runner \in [Runners -> RunnerState], NEW label \in RunnerPcs, Goto("ntfn", label)
    PROVE  /\ runner' \in [Runners -> RunnerState] /\ Main' = Main
           /\ Ntfn'.pc = label /\ Ntfn'.ev = Ntfn.ev /\ Ntfn'.index = Ntfn.index
           /\ Ntfn'.dev = Ntfn.dev
BY DEF Goto, Runners, RunnerState, Main, Ntfn

LEMMA MainGoesTo ==
    ASSUME runner \in [Runners -> RunnerState], NEW label \in RunnerPcs, Goto("main", label)
    PROVE  /\ runner' \in [Runners -> RunnerState] /\ Ntfn' = Ntfn
           /\ Main'.pc = label /\ Main'.ev = Main.ev
BY DEF Goto, Runners, RunnerState, Main, Ntfn

LEMMA NtfnHandled ==
    ASSUME runner \in [Runners -> RunnerState], Handled("ntfn")
    PROVE  runner' \in [Runners -> RunnerState] /\ Main' = Main /\ Ntfn'.pc = "receive"
<1> DEFINE idle == [pc |-> "receive", ev |-> NoEvent, index |-> 0, dev |-> 0]
<1>1. idle \in RunnerState
  <2>1. 0 \in 0 .. NumAvail - 1
      BY EventsAssumption
  <2> QED BY <2>1 DEF RunnerState, RunnerPcs
<1>2. runner' = [runner EXCEPT !["ntfn"] = idle] /\ idle.pc = "receive"
    BY DEF Handled
<1> HIDE DEF idle
<1> QED BY <1>1, <1>2 DEF Runners, Main, Ntfn

(* The lines of the interrupts are registered. *)
LEMMA SpiLines ==
    /\ \A i \in MsiIrqs \cup EmuIrqs : <<"spi", i>> \in Lines
    /\ \A p \in Pins : <<"intx", p>> \in Lines
    /\ \A i, j : <<"spi", i>> # <<"intx", j>>
    /\ \A i, j : <<"spi", i>> = <<"spi", j>> => i = j
    /\ Slots \cap (MsiIrqs \cup EmuIrqs) = {} /\ MsiIrqs \cap EmuIrqs = {}
    /\ Irqs = Slots \cup MsiIrqs \cup EmuIrqs
BY EventsAssumption DEF Lines, FrameLines, PinLines, Irqs

(* The level of an interrupt changes and no pin does. *)
LEMMA SpiChange ==
    ASSUME level \in [Lines -> BOOLEAN], NEW i \in MsiIrqs \cup EmuIrqs, NEW b \in BOOLEAN,
           level' = [level EXCEPT ![<<"spi", i>>] = b]
    PROVE  /\ level' \in [Lines -> BOOLEAN] /\ level'[<<"spi", i>>] = b
           /\ \A j \in MsiIrqs \cup EmuIrqs :
                 j # i => level'[<<"spi", j>>] = level[<<"spi", j>>]
           /\ \A p \in Pins : level'[<<"intx", p>>] = level[<<"intx", p>>]
BY SpiLines

(* An event has been handled: the thread is at the next one, and what was  *)
(* asked for with the event is what the rest of the queue starts from.     *)
LEMMA EventHandled ==
    ASSUME Shape, Busy, NEW w \in WantType, BootMatches(w), Behind(w),
           Handled("ntfn"), UNCHANGED <<events, want>>,
           NEW v, v = Wanted(w, Ntfn.ev)
    PROVE  /\ runner' \in [Runners -> RunnerState] /\ Main' = Main /\ Ntfn'.pc = "receive"
           /\ NtfnShape' /\ ~Busy'
           /\ v \in WantType /\ Behind(v)' /\ v.atStart \in {-1, want.atStart}
           /\ Up(v)' = {s \in Slots : v.level[s]}
           /\ Ntfn.ev \in Events
<1>1. /\ runner' \in [Runners -> RunnerState] /\ Main' = Main /\ Ntfn'.pc = "receive"
    BY NtfnHandled DEF Shape, TypeOK
<1>2. NtfnShape' /\ ~Busy'
    BY <1>1 DEF NtfnShape, Busy, Registering
<1>3. Ntfn.ev \in Events
    BY DEF Shape, NtfnShape
<1>4. Path(events, v, want)
    BY DEF Behind
<1>5. v \in WantType /\ v.atStart \in {-1, want.atStart}
    BY <1>4, PathEnds DEF Shape, TypeOK, QueueTypes
<1>6. Behind(v)'
    BY <1>2, <1>4 DEF Behind
<1>7. Up(v)' = {s \in Slots : v.level[s]}
    BY <1>1 DEF Up, Raised
<1> QED BY <1>1, <1>2, <1>3, <1>5, <1>6, <1>7

(* The thread goes on with the event it handles. *)
LEMMA EventGoesOn ==
    ASSUME Shape, Busy, NEW w \in WantType, BootMatches(w), Behind(w),
           NEW label \in {"process", "lower", "count", "store", "counted", "written",
                          "assign"},
           Ntfn.pc # "post", Ntfn'.pc = label, Ntfn'.ev = Ntfn.ev,
           UNCHANGED <<events, want, boot>>
    PROVE  Busy' /\ Behind(w)' /\ BootMatches(w)' /\ Ntfn.ev \in Events
<1>1. Busy'
    BY DEF Busy
<1>2. Behind(w)'
    BY <1>1 DEF Behind
<1>3. BootMatches(w)'
    BY DEF BootMatches, boot
<1> QED BY <1>1, <1>2, <1>3 DEF Shape, NtfnShape

-----------------------------------------------------------------------------
(* The invariant holds at first.                                           *)
LEMMA InitInv ==
    ASSUME Init
    PROVE  Inv
<1> USE DEF Init
<1>1. /\ Main.pc = "receive" /\ Main.ev = NoEvent /\ Main.index = 0 /\ Main.dev = 0
      /\ Ntfn.pc = "wait" /\ Ntfn.ev = NoEvent /\ Ntfn.index = 0 /\ Ntfn.dev = 0
    BY DEF Main, Ntfn, Runners
<1>2. runner \in [Runners -> RunnerState]
  <2>1. 0 \in 0 .. NumAvail - 1
      BY EventsAssumption
  <2> QED BY <2>1 DEF RunnerState, RunnerPcs, Runners
<1>3. TypeOK
  <2>1. QueueTypes
    <3>1. events \in Seq(Events) /\ Len(events) <= QueueSize
        BY EventsAssumption
    <3> QED BY <3>1, Zenon DEF QueueTypes
  <2>2. DeviceTypes
      BY EventsAssumption DEF DeviceTypes, NoDev
  <2>3. ReservationTypes
      BY DEF ReservationTypes
  <2>4. started \in 0 .. 1
      OBVIOUS
  <2> QED BY <1>2, <2>1, <2>2, <2>3, <2>4, Zenon DEF TypeOK
<1>4. want \in WantType
    BY DEF WantType
<1>5. Known = 0 /\ TableShape
    BY <1>1, EventsAssumption DEF Known, TableShape
<1>6. MainShape /\ NtfnShape /\ BusNumbers
  <2>1. DOMAIN devs = {}
      BY <1>5, TableFacts
  <2> QED BY <1>1, <2>1 DEF MainShape, NtfnShape, BusNumbers, Busy, Registering
<1>7. Done(want)
  <2>1. Up(want) = {}
      BY <1>1 DEF Up, Raised, Irqs
  <2>2. PinsMatch(want)
    <3>1. \A p \in Pins : sources[p] = {} /\ level[<<"intx", p>>] = FALSE
        BY SpiLines
    <3>2. \A p \in Pins : {FindIn(devs, s).guest :
              s \in {t \in Up(want) : FindIn(devs, t).guest % NumPins = p}} = {}
        BY <2>1
    <3> QED BY <2>1, <3>1, <3>2 DEF PinsMatch, Wired
  <2>3. SpisMatch(want)
      BY <1>1, SpiLines DEF SpisMatch, Raised
  <2>4. RegistryMatches(want)
      BY <1>5 DEF RegistryMatches
  <2>5. BootMatches(want)
    <3>1. want.atStart = -1 /\ want.devs = 0 /\ ~(started > 0)
        OBVIOUS
    <3>2. ~Busy
        BY <1>1 DEF Busy
    <3> HIDE DEF Init
    <3>3. ~okToRun /\ okToRun \in BOOLEAN
        BY DEF Init
    <3> QED BY <3>1, <3>2, <3>3, <1>1 DEF BootMatches
  <2>6. Behind(want)
      BY <1>1, <1>4, PathNil DEF Behind, Busy
  <2> QED BY <2>2, <2>3, <2>4, <2>5, <2>6 DEF Done
<1> QED BY <1>3, <1>4, <1>5, <1>6, <1>7 DEF Inv, Shape

(* Steps that change nothing but the bells leave the rest alone. *)
LEMMA BellInv ==
    ASSUME Inv, UNCHANGED <<events, runner, registry, boot, want>>,
           bell' \in BOOLEAN, ringing' \in BOOLEAN, aborted' \in BOOLEAN
    PROVE  Inv'
<1>0. /\ pci_devs' = pci_devs /\ pci_dev_count' = pci_dev_count
      /\ devs' = devs /\ Known' = Known /\ TableShape'
  <2>1. UNCHANGED table /\ Ntfn' = Ntfn
      BY DEF registry, Ntfn
  <2> QED BY <2>1, TableRests DEF Inv
<1> USE <1>0
<1>1. PICK w \in WantType : Done(w)
    BY DEF Inv
<1>2. TypeOK'
    BY DEF Inv, Shape, TypeOK, QueueTypes, DeviceTypes, ReservationTypes, registry, boot
<1>3. MainShape' /\ NtfnShape' /\ BusNumbers'
    BY DEF Inv, Shape, MainShape, NtfnShape, BusNumbers, Registering, Main, Ntfn, Busy, registry, boot
<1>4. PinsMatch(w)' /\ SpisMatch(w)' /\ RegistryMatches(w)'
    BY <1>1 DEF Done, PinsMatch, SpisMatch, RegistryMatches, Up, Raised, Main, Ntfn, registry
<1>5. BootMatches(w)' /\ Behind(w)'
    BY <1>1 DEF Done, BootMatches, Behind, Ntfn, Busy, boot
<1> QED BY <1>2, <1>3, <1>4, <1>5 DEF Inv, Shape, Done

LEMMA DeviceEventTxInv ==
    ASSUME Inv, MainWaits, NEW e \in Events, device_event_tx(e)
    PROVE  Inv'
<1> USE DEF device_event_tx
<1>0. /\ pci_devs' = pci_devs /\ pci_dev_count' = pci_dev_count
      /\ devs' = devs /\ Known' = Known /\ TableShape'
  <2>1. UNCHANGED table /\ Ntfn' = Ntfn
      BY DEF registry, Ntfn
  <2> QED BY <2>1, TableRests DEF Inv
<1> USE <1>0
<1>1. PICK w \in WantType : Done(w)
    BY DEF Inv
<1>2. events \in Seq(Events) /\ Len(events) \in Nat /\ Len(events) <= QueueSize
    BY LenProperties DEF Inv, Shape, TypeOK, QueueTypes
<1>3. /\ events' \in Seq(Events) /\ Len(events') = Len(events) + 1
    BY <1>2, AppendProperties
<1>4. QueueTypes'
    BY <1>2, <1>3, EventsAssumption DEF Inv, Shape, TypeOK, QueueTypes
<1>5. TypeOK'
    BY <1>4 DEF Inv, Shape, TypeOK, DeviceTypes, ReservationTypes, registry, boot
<1>6. want \in WantType /\ want' \in WantType
    BY WantedFields DEF Inv, Shape
<1>7. Main' = Main /\ Ntfn' = Ntfn /\ Main.pc # "receive" /\ (Busy' <=> Busy)
    BY DEF Main, Ntfn, MainWaits, Busy
<1>8. MainShape' /\ NtfnShape' /\ BusNumbers'
    BY <1>7 DEF Inv, Shape, MainShape, NtfnShape, BusNumbers, Registering, registry, boot
<1>9. PinsMatch(w)' /\ SpisMatch(w)' /\ RegistryMatches(w)'
    BY <1>1, <1>7 DEF Done, PinsMatch, SpisMatch, RegistryMatches, Up, Raised, registry
<1>10. BootMatches(w)'
  <2>1. want'.atStart = IF e.op = "start" THEN want.devs ELSE want.atStart
      BY <1>6, WantedFields
  <2>2. w.atStart \in {-1, want'.atStart}
      BY <1>1, <2>1 DEF Done, BootMatches
  <2> QED BY <1>1, <1>7, <2>2 DEF Done, BootMatches, boot
<1>11. Behind(w)'
  <2> DEFINE a == IF Busy THEN Wanted(w, Ntfn.ev) ELSE w
  <2>1. PICK b : b = a
      OBVIOUS
  <2>2. Path(events, b, want)
      BY <1>1, <2>1 DEF Done, Behind
  <2>3. Path(events', b, want')
      BY <1>2, <2>2, PathAppend
  <2>4. b = IF Busy' THEN Wanted(w, Ntfn'.ev) ELSE w
      BY <2>1, <1>7
  <2> QED BY <2>3, <2>4 DEF Behind
<1> QED BY <1>1, <1>5, <1>6, <1>8, <1>9, <1>10, <1>11 DEF Inv, Shape, Done

LEMMA DoorbellInv ==
    ASSUME Inv, vso_doorbell
    PROVE  Inv'
<1>1. aborted \in BOOLEAN
    BY DEF Inv, Shape, TypeOK
<1> QED BY <1>1, BellInv DEF vso_doorbell

LEMMA FailedInv ==
    ASSUME Inv, Failed
    PROVE  Inv'
<1>1. bell \in BOOLEAN /\ ringing \in BOOLEAN
    BY DEF Inv, Shape, TypeOK, QueueTypes
<1> QED BY <1>1, BellInv DEF Failed

LEMMA StutterInv ==
    ASSUME Inv, UNCHANGED vars
    PROVE  Inv'
<1>1. bell \in BOOLEAN /\ ringing \in BOOLEAN /\ aborted \in BOOLEAN
    BY DEF Inv, Shape, TypeOK, QueueTypes
<1> QED BY <1>1, BellInv DEF vars

(* The notification thread moves between waiting and receiving. *)
LEMMA NtfnIdleInv ==
    ASSUME Inv, ~Busy, NEW label \in {"wait", "receive"}, Goto("ntfn", label),
           UNCHANGED <<events, registry, boot, want>>,
           bell' \in BOOLEAN, ringing' \in BOOLEAN, aborted' \in BOOLEAN
    PROVE  Inv'
<1>0. /\ pci_devs' = pci_devs /\ pci_dev_count' = pci_dev_count
      /\ devs' = devs /\ Known' = Known /\ TableShape'
  <2>1. UNCHANGED table /\ TableShape
      BY DEF registry, Inv, Shape
  <2>2. runner \in [Runners -> RunnerState] /\ label \in RunnerPcs /\ Goto("ntfn", label)
      BY DEF Inv, Shape, TypeOK, RunnerPcs
  <2>3. Ntfn'.pc = label
      BY <2>2, NtfnGoto
  <2> QED BY <2>1, <2>3, TableStays DEF Busy
<1> USE <1>0
<1>1. PICK w \in WantType : Done(w)
    BY DEF Inv
<1>2. runner' \in [Runners -> RunnerState] /\ Main' = Main /\ Ntfn'.pc = label
    BY NtfnGoto DEF Inv, Shape, TypeOK, RunnerPcs
<1>3. TypeOK'
    BY <1>2 DEF Inv, Shape, TypeOK, QueueTypes, DeviceTypes, ReservationTypes, registry, boot
<1>4. MainShape'
    BY <1>2 DEF Inv, Shape, MainShape, boot
<1>5. NtfnShape' /\ ~Busy'
    BY <1>2 DEF NtfnShape, Busy, Registering
<1>6. BusNumbers'
    BY <1>2 DEF Inv, Shape, BusNumbers, Registering, registry
<1>7. Up(w)' = Up(w) /\ \A i : Raised(w, i)' = Raised(w, i)
    BY <1>2 DEF Up, Raised, Busy
<1>8. PinsMatch(w)'
    BY <1>1, <1>7 DEF Done, PinsMatch, registry
<1>9. SpisMatch(w)'
    BY <1>1, <1>2, <1>7 DEF Done, SpisMatch, Busy, registry
<1>10. RegistryMatches(w)' /\ BootMatches(w)' /\ Behind(w)'
    BY <1>1, <1>2, <1>5 DEF Done, RegistryMatches, BootMatches, Behind, Busy, registry, boot
<1> QED BY <1>1, <1>3, <1>4, <1>5, <1>6, <1>8, <1>9, <1>10 DEF Inv, Shape, Done

LEMMA NtfnCallbackInv ==
    ASSUME Inv, ntfn_callback
    PROVE  Inv'
<1>1. ~Busy
    BY DEF ntfn_callback, At, Busy, Ntfn
<1>2. bell \in BOOLEAN /\ ringing \in BOOLEAN /\ aborted \in BOOLEAN
    BY DEF Inv, Shape, TypeOK, QueueTypes
<1> QED BY <1>1, <1>2, NtfnIdleInv DEF ntfn_callback

LEMMA StartedType ==
    ASSUME Inv
    PROVE  started \in 0 .. 1
BY DEF Inv, Shape, TypeOK

(* The main thread moves on, but not into its event loop. *)
LEMMA MainMovesInv ==
    ASSUME Inv, Main.pc # "pulsing", NEW label \in {"await", "sem wait", "booted"},
           label = "booted" => okToRun, Goto("main", label),
           started' \in 0 .. 1, (started' > 0 => started > 0),
           UNCHANGED <<events, bell, ringing, registry, okToRun, aborted, want>>
    PROVE  Inv'
<1>0. /\ pci_devs' = pci_devs /\ pci_dev_count' = pci_dev_count
      /\ devs' = devs /\ Known' = Known /\ TableShape'
  <2>1. UNCHANGED table /\ Ntfn' = Ntfn
      BY MainGoesTo DEF registry, Inv, Shape, TypeOK, RunnerPcs
  <2> QED BY <2>1, TableRests DEF Inv
<1> USE <1>0
<1>1. PICK w \in WantType : Done(w)
    BY DEF Inv
<1>2. /\ runner' \in [Runners -> RunnerState] /\ Ntfn' = Ntfn /\ Main'.pc = label
    BY MainGoesTo DEF Inv, Shape, TypeOK, RunnerPcs
<1>3. TypeOK'
    BY <1>2 DEF Inv, Shape, TypeOK, QueueTypes, DeviceTypes, ReservationTypes, registry
<1>4. MainShape'
    BY <1>2 DEF MainShape
<1>5. NtfnShape' /\ BusNumbers' /\ (Busy' <=> Busy)
    BY <1>2 DEF Inv, Shape, NtfnShape, BusNumbers, Registering, Busy, registry
<1>6. Up(w)' = Up(w) /\ \A i : Raised(w, i)' = Raised(w, i)
    BY <1>2 DEF Up, Raised
<1>7. PinsMatch(w)'
    BY <1>1, <1>6 DEF Done, PinsMatch, registry
<1>8. SpisMatch(w)'
    BY <1>1, <1>2, <1>6 DEF Done, SpisMatch, registry
<1>9. RegistryMatches(w)' /\ Behind(w)'
    BY <1>1, <1>2, <1>5 DEF Done, RegistryMatches, Behind, registry
<1>10. BootMatches(w)'
    BY <1>1, <1>2, <1>5, Zenon DEF Done, BootMatches
<1> QED BY <1>1, <1>3, <1>4, <1>5, <1>7, <1>8, <1>9, <1>10 DEF Inv, Shape, Done

LEMMA NoMoreEventsInv ==
    ASSUME Inv, NEW r \in Runners, NoMoreEvents(r)
    PROVE  Inv'
<1>1. /\ bell \in BOOLEAN /\ ringing \in BOOLEAN /\ aborted \in BOOLEAN
    BY DEF Inv, Shape, TypeOK, QueueTypes
<1>2. CASE r = "ntfn"
  <2>1. ~Busy /\ Goto("ntfn", "wait")
      BY <1>2 DEF NoMoreEvents, At, Busy, Ntfn
  <2> QED BY <2>1, <1>1, NtfnIdleInv DEF NoMoreEvents
<1>3. CASE r = "main"
  <2>1. Main.pc # "pulsing" /\ Goto("main", "await")
      BY <1>3 DEF NoMoreEvents, At, Main
  <2>2. started' = started
      BY DEF NoMoreEvents, boot
  <2>3. started' \in 0 .. 1 /\ (started' > 0 => started > 0)
      BY <2>2, StartedType
  <2> QED BY <2>1, <2>3, MainMovesInv DEF NoMoreEvents, boot
<1> QED BY <1>2, <1>3 DEF Runners

LEMMA OkToRunInv ==
    ASSUME Inv, OkToRun
    PROVE  Inv'
<1>1. started' \in 0 .. 1 /\ (started' > 0 => started > 0)
  <2>1. started' = started
      BY DEF OkToRun, boot
  <2> QED BY <2>1, StartedType
<1>2. PICK label : label = IF okToRun THEN "booted" ELSE "sem wait"
    OBVIOUS
<1>3. Main.pc # "pulsing" /\ Goto("main", label)
    BY <1>2 DEF OkToRun, At, Main
<1> QED BY <1>1, <1>2, <1>3, MainMovesInv DEF OkToRun, boot

LEMMA SyncSemWaitInv ==
    ASSUME Inv, sync_sem_wait
    PROVE  Inv'
<1>1. started \in 0 .. 1 /\ started' \in 0 .. 1 /\ (started' > 0 => started > 0)
  <2>1. started \in 0 .. 1 /\ started > 0 /\ started' = started - 1
      BY StartedType DEF sync_sem_wait
  <2> QED BY <2>1
<1>2. Main.pc # "pulsing"
    BY DEF sync_sem_wait, At, Main
<1> QED BY <1>1, <1>2, MainMovesInv DEF sync_sem_wait

-----------------------------------------------------------------------------
(* Taking events.                                                          *)

(* The main thread finds no event and handles none. *)
LEMMA MainIdle ==
    ASSUME Inv
    PROVE  ~rpcmsg_event_rx("main") /\ ~rpc_process("main")
<1>1. /\ Main.pc \in {"receive", "await", "sem wait", "booted", "pulsing"}
      /\ Main.pc = "receive" => events = <<>>
    BY DEF Inv, Shape, MainShape
<1>2. ~rpcmsg_event_rx("main")
    BY <1>1 DEF rpcmsg_event_rx, At, Main
<1>3. ASSUME NEW label \in {"process", "lower", "count", "store", "counted", "written",
                            "assign", "post"}
      PROVE  ~At("main", label) /\ runner["main"].pc # label
    BY <1>1, <1>3 DEF At, Main
<1>4. \A op : ~Processing("main", op)
    BY <1>3 DEF Processing
<1>5. /\ ~At("main", "lower") /\ ~At("main", "count") /\ ~At("main", "assign")
      /\ ~At("main", "post")
      /\ runner["main"].pc \notin {"process", "lower", "store", "counted", "written"}
    BY <1>3
<1>6. ~rpc_process("main")
    BY <1>4, <1>5
    DEF rpc_process, handle_msi, handle_pci_intx, NoSuchDevice, Lower, BusFull,
        vmm_pci_add_entry, LoadDevCount, StoreDevCount, StoreDev, emudev_irq_set, IrqIsNew,
        irq_res_assign, mmio_res_assign, mmio_res_free, BadRegion, handle_control,
        sync_sem_post, UnknownMessage
<1> QED BY <1>2, <1>6

LEMMA EventRxInv ==
    ASSUME Inv, rpcmsg_event_rx("ntfn")
    PROVE  Inv'
<1> USE DEF rpcmsg_event_rx
<1>1. PICK w \in WantType : Done(w)
    BY DEF Inv
<1>2. events \in Seq(Events) /\ Len(events) \in Nat /\ Len(events) <= QueueSize /\ events # <<>>
    BY LenProperties DEF Inv, Shape, TypeOK, QueueTypes
<1>3. /\ Head(events) \in Events /\ events' \in Seq(Events)
      /\ Len(events') = Len(events) - 1
    BY <1>2, HeadTailProperties
<1>4. /\ runner' \in [Runners -> RunnerState] /\ Main' = Main
      /\ Ntfn'.pc = "process" /\ Ntfn'.ev = Head(events)
  <2>1. runner \in [Runners -> RunnerState]
      BY DEF Inv, Shape, TypeOK
  <2>2. Head(events) \in Events \cup {NoEvent} /\ "process" \in RunnerPcs
      BY <1>3 DEF RunnerPcs
  <2>3. runner' = [runner EXCEPT !["ntfn"] = [@ EXCEPT !.pc = "process", !.ev = Head(events)]]
      OBVIOUS
  <2> QED BY <2>1, <2>2, <2>3 DEF Runners, RunnerState, Main, Ntfn
<1>0. /\ pci_devs' = pci_devs /\ pci_dev_count' = pci_dev_count
      /\ devs' = devs /\ Known' = Known /\ TableShape'
  <2>1. UNCHANGED table /\ TableShape /\ Ntfn.pc = "receive"
      BY DEF registry, Inv, Shape, At, Ntfn
  <2> QED BY <2>1, <1>4, TableStays
<1> USE <1>0
<1>5. TypeOK'
  <2>1. Len(events') <= QueueSize
      BY <1>2, <1>3, EventsAssumption
  <2>2. QueueTypes'
      BY <1>3, <2>1 DEF Inv, Shape, TypeOK, QueueTypes
  <2> QED BY <1>4, <2>2 DEF Inv, Shape, TypeOK, DeviceTypes, ReservationTypes, registry, boot
<1>6. ~Busy /\ Busy'
    BY <1>4 DEF At, Busy, Ntfn
<1>7. MainShape'
    BY <1>2, <1>4 DEF Inv, Shape, MainShape, boot
<1>8. NtfnShape'
    BY <1>3, <1>4 DEF NtfnShape, Registering
<1>9. BusNumbers'
    BY <1>4 DEF Inv, Shape, BusNumbers, Registering, registry
<1>10. Up(w)' = Up(w) /\ \A i : Raised(w, i)' = Raised(w, i)
    BY <1>4, <1>6 DEF Up, Raised, Busy
<1>11. PinsMatch(w)'
    BY <1>1, <1>10 DEF Done, PinsMatch, registry
<1>12. SpisMatch(w)'
    BY <1>1, <1>4, <1>6, <1>10 DEF Done, SpisMatch, Busy, registry
<1>13. RegistryMatches(w)'
    BY <1>1 DEF Done, RegistryMatches, registry
<1>14. Path(events, w, want)
    BY <1>1, <1>6 DEF Done, Behind
<1>15. /\ Path(Tail(events), Wanted(w, Head(events)), want)
       /\ Head(events).op = "start" => w.atStart = -1
    BY <1>2, <1>14, PathTail
<1>16. Behind(w)'
    BY <1>4, <1>6, <1>15 DEF Behind
<1>17. BootMatches(w)'
    BY <1>1, <1>4, <1>6, <1>15 DEF Done, BootMatches, Busy, boot
<1> QED
    BY <1>1, <1>5, <1>7, <1>8, <1>9, <1>11, <1>12, <1>13, <1>16, <1>17 DEF Inv, Shape, Done

-----------------------------------------------------------------------------
(* The guest's own writes to the MSI frame.                                *)

LEMMA FrameIrq ==
    ASSUME NEW data, NEW spi \in FrameIndex(data)
    PROVE  MsiBase + spi \in MsiIrqs
BY EventsAssumption DEF FrameIndex, MsiIrqs

(* The main thread raises or lowers the line of an MSI. *)
LEMMA MainPulseInv ==
    ASSUME Inv, NEW i \in MsiIrqs, NEW b \in BOOLEAN,
           level' = [level EXCEPT ![<<"spi", i>>] = b],
           runner' \in [Runners -> RunnerState], Ntfn' = Ntfn,
           IF b THEN Main.pc = "booted" /\ Main'.pc = "pulsing" /\ Main'.ev \in Events
                     /\ Main'.ev.op = "irq" /\ Main'.ev.irq = i
           ELSE Main.pc = "pulsing" /\ Main'.pc = "booted" /\ Main.ev.irq = i,
           UNCHANGED <<events, bell, ringing, table, nextDev, sources, irqs, mmio, reserved,
                       boot, aborted, want>>
    PROVE  Inv'
<1>0. /\ pci_devs' = pci_devs /\ pci_dev_count' = pci_dev_count
      /\ devs' = devs /\ Known' = Known /\ TableShape'
    BY TableRests DEF Inv
<1> USE <1>0
<1>1. PICK w \in WantType : Done(w)
    BY DEF Inv
<1>2. level \in [Lines -> BOOLEAN]
    BY DEF Inv, Shape, TypeOK, DeviceTypes
<1>3. /\ level' \in [Lines -> BOOLEAN] /\ level'[<<"spi", i>>] = b
      /\ \A j \in MsiIrqs \cup EmuIrqs : j # i => level'[<<"spi", j>>] = level[<<"spi", j>>]
      /\ \A p \in Pins : level'[<<"intx", p>>] = level[<<"intx", p>>]
    BY <1>2, SpiChange
<1>4. TypeOK'
    BY <1>3 DEF Inv, Shape, TypeOK, QueueTypes, DeviceTypes, ReservationTypes, boot
<1>5. MainShape'
    BY DEF Inv, Shape, MainShape, boot
<1>6. NtfnShape' /\ BusNumbers' /\ (Busy' <=> Busy)
    BY DEF Inv, Shape, NtfnShape, BusNumbers, Registering, Busy
<1>7. Up(w)' = Up(w) /\ \A j : Raised(w, j)' = Raised(w, j)
    BY DEF Up, Raised
<1>8. PinsMatch(w)'
  <2>1. Wired(devs, Up(w), sources, level)
      BY <1>1 DEF Done, PinsMatch
  <2>2. Wired(devs, Up(w), sources, level')
      BY <2>1, <1>3, WiredLevels
  <2> QED BY <2>2, <1>7 DEF PinsMatch
<1>9. SpisMatch(w)'
  <2>1. \A j \in EmuIrqs : level'[<<"spi", j>>] = Raised(w, j)'
    <3>1. \A j \in EmuIrqs : j # i
        BY SpiLines
    <3> QED BY <3>1, <1>1, <1>3, <1>7 DEF Done, SpisMatch
  <2>2. ASSUME NEW j \in MsiIrqs
        PROVE  /\ ~w.level[j]
               /\ level'[<<"spi", j>>] => \/ Ntfn'.pc = "lower" /\ Ntfn'.ev.irq = j
                                          \/ Main'.pc = "pulsing" /\ Main'.ev.irq = j
      BY <1>1, <1>3 DEF Done, SpisMatch
  <2> QED BY <2>1, <2>2 DEF SpisMatch
<1>10. RegistryMatches(w)' /\ Behind(w)' /\ BootMatches(w)'
    BY <1>1, <1>6 DEF Done, RegistryMatches, Behind, BootMatches, boot
<1> QED BY <1>1, <1>4, <1>5, <1>6, <1>8, <1>9, <1>10 DEF Inv, Shape, Done

LEMMA WriteFaultInv ==
    ASSUME Inv, NEW data \in GuestData, v2m_write_fault(data)
    PROVE  Inv'
<1> USE DEF v2m_write_fault
<1>1. PICK spi \in FrameIndex(data) :
          /\ v2m_inject_irq(MsiBase + spi)
          /\ runner' = [runner EXCEPT !["main"].pc = "pulsing",
                !["main"].ev = [op |-> "irq", irq |-> MsiBase + spi, arg |-> "pulse"]]
    OBVIOUS
<1>2. PICK i \in MsiIrqs : i = MsiBase + spi
    BY FrameIrq
<1>3. PICK e : e = [op |-> "irq", irq |-> i, arg |-> "pulse"]
    OBVIOUS
<1>4. e \in Events /\ e.op = "irq" /\ e.irq = i
    BY <1>3, SpiLines DEF Events, IrqOps
<1>5. /\ runner' \in [Runners -> RunnerState] /\ Ntfn' = Ntfn
      /\ Main'.pc = "pulsing" /\ Main'.ev = e
  <2>1. runner \in [Runners -> RunnerState]
      BY DEF Inv, Shape, TypeOK
  <2>2. e \in Events \cup {NoEvent} /\ "pulsing" \in RunnerPcs
      BY <1>4 DEF RunnerPcs
  <2>3. runner' = [runner EXCEPT !["main"] = [@ EXCEPT !.pc = "pulsing", !.ev = e]]
      BY <1>1, <1>2, <1>3
  <2> HIDE DEF v2m_write_fault
  <2>4. Main \in RunnerState /\ Ntfn' = Ntfn
      BY <2>1, <2>3 DEF Runners, Main, Ntfn
  <2>5. Main' = [Main EXCEPT !.pc = "pulsing", !.ev = e]
      BY <2>1, <2>3 DEF Runners, Main
  <2>6. Main' \in RunnerState /\ Main'.pc = "pulsing" /\ Main'.ev = e
      BY <2>2, <2>4, <2>5 DEF RunnerState
  <2>7. runner' = [runner EXCEPT !["main"] = Main']
      BY <2>3, <2>5 DEF Main
  <2>8. runner' \in [Runners -> RunnerState]
      BY <2>1, <2>6, <2>7
  <2> QED BY <2>4, <2>6, <2>8
<1>6. level' = [level EXCEPT ![<<"spi", i>>] = TRUE] /\ Main.pc = "booted"
    BY <1>1, <1>2 DEF v2m_inject_irq, At, Main
<1> QED BY <1>4, <1>5, <1>6, MainPulseInv

LEMMA FaultHandlerInv ==
    ASSUME Inv, v2m_fault_handler
    PROVE  Inv'
<1> USE DEF v2m_fault_handler
<1>1. Main.pc = "pulsing" /\ Main.ev.irq \in MsiIrqs
    BY DEF At, Main, Inv, Shape, MainShape
<1>2. PICK i \in MsiIrqs : i = Main.ev.irq
    BY <1>1
<1>3. runner' \in [Runners -> RunnerState] /\ Ntfn' = Ntfn /\ Main'.pc = "booted"
  <2>1. runner \in [Runners -> RunnerState]
      BY DEF Inv, Shape, TypeOK
  <2>2. NoEvent \in Events \cup {NoEvent} /\ "booted" \in RunnerPcs
      BY DEF RunnerPcs
  <2>3. runner' = [runner EXCEPT !["main"] = [@ EXCEPT !.pc = "booted", !.ev = NoEvent]]
      OBVIOUS
  <2> QED BY <2>1, <2>2, <2>3 DEF Runners, RunnerState, Main, Ntfn
<1>4. level' = [level EXCEPT ![<<"spi", i>>] = FALSE]
    BY <1>2 DEF Event, Main
<1> QED BY <1>1, <1>2, <1>3, <1>4, MainPulseInv

-----------------------------------------------------------------------------
(* Interrupts.                                                             *)

(* An interrupt has been handled, and the lines are at their new levels. *)
LEMMA IrqHandled ==
    ASSUME Inv, Busy, Ntfn.ev.op = "irq", NEW w \in WantType, Done(w),
           Handled("ntfn"), NEW v, v = Wanted(w, Ntfn.ev),
           sources' \in [Pins -> SUBSET Nat], level' \in [Lines -> BOOLEAN],
           Wired(devs, {s \in Slots : v.level[s]}, sources', level'),
           \A i \in EmuIrqs : level'[<<"spi", i>>] = v.level[i],
           \A i \in MsiIrqs : level'[<<"spi", i>>] => Main.pc = "pulsing" /\ Main.ev.irq = i,
           UNCHANGED <<events, bell, ringing, table, nextDev, irqs, mmio, reserved, boot, aborted,
                       want>>
    PROVE  Inv'
<1>0. /\ pci_devs' = pci_devs /\ pci_dev_count' = pci_dev_count
      /\ devs' = devs /\ Known' = Known /\ TableShape'
  <2>1. UNCHANGED table /\ TableShape
      BY DEF registry, Inv, Shape
  <2>2. Ntfn'.pc = "receive" /\ ~(Ntfn.pc \in {"counted", "written"})
      BY NtfnHandled DEF Inv, Shape, TypeOK, NtfnShape, Registering
  <2> QED BY <2>1, <2>2, TableStays
<1> USE <1>0
<1>1. /\ runner' \in [Runners -> RunnerState] /\ Main' = Main /\ Ntfn'.pc = "receive"
      /\ NtfnShape' /\ ~Busy'
      /\ v \in WantType /\ Behind(v)' /\ v.atStart \in {-1, want.atStart}
      /\ Up(v)' = {s \in Slots : v.level[s]} /\ Ntfn.ev \in Events
    BY EventHandled DEF Inv, Done
<1>2. /\ v.level = [w.level EXCEPT ![Ntfn.ev.irq] =
                       Ntfn.ev.arg = "set" /\ Ntfn.ev.irq \notin MsiIrqs]
      /\ v.devs = w.devs /\ v.mmio = w.mmio /\ v.atStart = w.atStart
  <2>1. PICK e \in Events : e = Ntfn.ev
      BY <1>1
  <2>2. v = Wanted(w, e) /\ e.op = "irq"
      BY <2>1
  <2>3. /\ Wanted(w, e).level =
             IF e.op = "irq"
             THEN [w.level EXCEPT ![e.irq] = e.arg = "set" /\ e.irq \notin MsiIrqs]
             ELSE w.level
        /\ Wanted(w, e).devs = IF e.op = "register" THEN w.devs + 1 ELSE w.devs
        /\ Wanted(w, e).mmio = IF e.op = "assign" THEN w.mmio \cup {e.region}
                               ELSE IF e.op = "free" THEN w.mmio \ {e.region} ELSE w.mmio
        /\ Wanted(w, e).atStart = IF e.op = "start" THEN w.devs ELSE w.atStart
      BY WantedFields, Zenon
  <2>4. v.level = [w.level EXCEPT ![e.irq] = e.arg = "set" /\ e.irq \notin MsiIrqs]
      BY <2>2, <2>3
  <2>5. v.devs = w.devs /\ v.mmio = w.mmio /\ v.atStart = w.atStart
      BY <2>2, <2>3
  <2> QED BY <2>1, <2>4, <2>5
<1>3. TypeOK'
    BY <1>1 DEF Inv, Shape, TypeOK, QueueTypes, DeviceTypes, ReservationTypes, boot
<1>4. MainShape' /\ BusNumbers'
    BY <1>1 DEF Inv, Shape, MainShape, BusNumbers, Registering, boot
<1>5. PinsMatch(v)'
    BY <1>1 DEF PinsMatch
<1>6. SpisMatch(v)'
  <2>1. \A i \in MsiIrqs : ~v.level[i]
    <3>1. w.level \in [Irqs -> BOOLEAN] /\ \A i \in MsiIrqs : ~w.level[i] /\ i \in Irqs
        BY SpiLines DEF WantType, Done, SpisMatch
    <3> QED BY <3>1, <1>2
  <2>2. \A i \in EmuIrqs : Raised(v, i)' = v.level[i]
    <3>1. v.level \in [Irqs -> BOOLEAN] /\ \A i \in EmuIrqs : i \in Irqs
        BY <1>1, SpiLines DEF WantType
    <3> QED BY <1>1, <3>1 DEF Raised
  <2> QED BY <2>1, <2>2, <1>1 DEF SpisMatch
<1>7. RegistryMatches(v)'
    BY <1>2 DEF Done, RegistryMatches
<1>8. BootMatches(v)'
    BY <1>1, <1>2 DEF Done, BootMatches, boot, Inv, Shape, NtfnShape
<1> QED BY <1>1, <1>3, <1>4, <1>5, <1>6, <1>7, <1>8 DEF Inv, Shape, Done

(* A pulse has raised the line. *)
LEMMA PulseRaised ==
    ASSUME Inv, Busy, Ntfn.ev.op = "irq", NEW w \in WantType, Done(w), Ntfn.pc = "process",
           Goto("ntfn", "lower"),
           Ntfn.ev.irq \notin MsiIrqs => Ntfn.ev.arg = "pulse",
           Ntfn.ev.irq \in Slots => FoundIn(devs, Ntfn.ev.irq) # {},
           sources' \in [Pins -> SUBSET Nat], level' \in [Lines -> BOOLEAN],
           Wired(devs, Up(w) \cup ({Ntfn.ev.irq} \cap Slots), sources', level'),
           \A i \in EmuIrqs : level'[<<"spi", i>>] = (w.level[i] \/ Ntfn.ev.irq = i),
           \A i \in MsiIrqs : i # Ntfn.ev.irq => level'[<<"spi", i>>] = level[<<"spi", i>>],
           UNCHANGED <<events, bell, ringing, table, nextDev, irqs, mmio, reserved, boot, aborted,
                       want>>
    PROVE  Inv'
<1>0. /\ pci_devs' = pci_devs /\ pci_dev_count' = pci_dev_count
      /\ devs' = devs /\ Known' = Known /\ TableShape'
  <2>1. UNCHANGED table /\ TableShape
      BY DEF registry, Inv, Shape
  <2>2. Ntfn'.pc = "lower"
      BY NtfnGoto DEF Inv, Shape, TypeOK, RunnerPcs
  <2> QED BY <2>1, <2>2, TableStays
<1> USE <1>0
<1>1. /\ runner' \in [Runners -> RunnerState] /\ Main' = Main
      /\ Ntfn'.pc = "lower" /\ Ntfn'.ev = Ntfn.ev
    BY NtfnGoto DEF Inv, Shape, TypeOK, RunnerPcs
<1>2. Busy' /\ Behind(w)' /\ BootMatches(w)' /\ Ntfn.ev \in Events
    BY <1>1, EventGoesOn DEF Inv, Done
<1>3. TypeOK'
    BY <1>1 DEF Inv, Shape, TypeOK, QueueTypes, DeviceTypes, ReservationTypes, boot
<1>4. MainShape' /\ BusNumbers'
    BY <1>1 DEF Inv, Shape, MainShape, BusNumbers, Registering, boot
<1>5. NtfnShape'
    BY <1>1, <1>2 DEF NtfnShape, Registering
<1>6. Up(w)' = Up(w) \cup ({Ntfn.ev.irq} \cap Slots)
    BY <1>1 DEF Up, Raised
<1>7. PinsMatch(w)'
    BY <1>6 DEF PinsMatch
<1>8. SpisMatch(w)'
  <2>1. \A i \in EmuIrqs : Raised(w, i)' = (w.level[i] \/ Ntfn.ev.irq = i)
      BY <1>1 DEF Raised
  <2>2. ASSUME NEW i \in MsiIrqs
        PROVE  /\ ~w.level[i]
               /\ level'[<<"spi", i>>] => \/ Ntfn'.pc = "lower" /\ Ntfn'.ev.irq = i
                                          \/ Main'.pc = "pulsing" /\ Main'.ev.irq = i
      BY <1>1 DEF Done, SpisMatch
  <2> QED BY <2>1, <2>2 DEF SpisMatch
<1>9. RegistryMatches(w)'
    BY DEF Done, RegistryMatches
<1> QED BY <1>2, <1>3, <1>4, <1>5, <1>7, <1>8, <1>9 DEF Inv, Shape, Done

(* The facts about an interrupt event that is being handled. *)
LEMMA IrqFacts ==
    ASSUME Inv, Busy, Ntfn.ev.op = "irq", NEW w \in WantType, Done(w),
           NEW v, v = Wanted(w, Ntfn.ev)
    PROVE  /\ Ntfn.ev.irq \in Irqs /\ Ntfn.ev.arg \in IrqOps
           /\ w.level \in [Irqs -> BOOLEAN]
           /\ v.level = [w.level EXCEPT ![Ntfn.ev.irq] =
                            Ntfn.ev.arg = "set" /\ Ntfn.ev.irq \notin MsiIrqs]
           /\ sources \in [Pins -> SUBSET Nat] /\ level \in [Lines -> BOOLEAN]
           /\ devs \in DevTables
           /\ \A i, j \in DOMAIN devs : devs[i].guest = devs[j].guest => i = j
           /\ Wired(devs, Up(w), sources, level)
           /\ \A i \in EmuIrqs : level[<<"spi", i>>] = Raised(w, i)
           /\ \A i \in MsiIrqs : /\ ~w.level[i]
                                 /\ level[<<"spi", i>>] => \/ Ntfn.pc = "lower" /\ Ntfn.ev.irq = i
                                                           \/ Main.pc = "pulsing" /\ Main.ev.irq = i
<1>1. Ntfn.ev \in Events
    BY DEF Inv, Shape, NtfnShape
<1>2. Ntfn.ev.irq \in Irqs /\ Ntfn.ev.arg \in IrqOps
    BY <1>1, EventFields
<1>3. v.level = [w.level EXCEPT ![Ntfn.ev.irq] =
                    Ntfn.ev.arg = "set" /\ Ntfn.ev.irq \notin MsiIrqs]
    BY <1>1, WantedFields
<1>4. w.level \in [Irqs -> BOOLEAN]
    BY DEF WantType
<1>5. /\ sources \in [Pins -> SUBSET Nat] /\ level \in [Lines -> BOOLEAN]
      /\ devs \in DevTables
    BY TableFacts DEF Inv, Shape, TypeOK, DeviceTypes
<1>6. \A i, j \in DOMAIN devs : devs[i].guest = devs[j].guest => i = j
    BY DEF Inv, Shape, BusNumbers
<1>7. PinsMatch(w) /\ SpisMatch(w)
    BY DEF Done
<1> QED BY <1>2, <1>3, <1>4, <1>5, <1>6, <1>7 DEF PinsMatch, SpisMatch

LEMMA HandleMsiInv ==
    ASSUME Inv, handle_msi("ntfn")
    PROVE  Inv'
<1> USE DEF handle_msi
<1>1. PICK w \in WantType : Done(w)
    BY DEF Inv
<1>2. PICK v : v = Wanted(w, Ntfn.ev)
    OBVIOUS
<1>3. Ntfn.pc = "process" /\ Busy /\ Ntfn.ev.op = "irq" /\ Ntfn.ev.irq \in MsiIrqs
    BY DEF Processing, At, Event, Busy, Ntfn
<1>4. /\ w.level \in [Irqs -> BOOLEAN]
      /\ v.level = [w.level EXCEPT ![Ntfn.ev.irq] =
                       Ntfn.ev.arg = "set" /\ Ntfn.ev.irq \notin MsiIrqs]
      /\ sources \in [Pins -> SUBSET Nat] /\ level \in [Lines -> BOOLEAN]
      /\ Wired(devs, Up(w), sources, level)
      /\ \A i \in EmuIrqs : level[<<"spi", i>>] = Raised(w, i)
      /\ \A i \in MsiIrqs : level[<<"spi", i>>] => Main.pc = "pulsing" /\ Main.ev.irq = i
    BY <1>1, <1>2, <1>3, IrqFacts
<1>5. \A i \in Slots \cup EmuIrqs : /\ i # Ntfn.ev.irq /\ v.level[i] = w.level[i]
                                    /\ Raised(w, i) = w.level[i]
    BY <1>3, <1>4, SpiLines DEF Raised
<1>6. Up(w) = {s \in Slots : v.level[s]} /\ Up(w) = Up(w) \cup ({Ntfn.ev.irq} \cap Slots)
    BY <1>3, <1>5, SpiLines DEF Up
<1>7. CASE Ntfn.ev.arg = "clr"
  <2>1. Handled("ntfn") /\ UNCHANGED <<sources, level>>
      BY <1>7 DEF Event, Ntfn
  <2>2. \A i \in EmuIrqs : level'[<<"spi", i>>] = v.level[i]
      BY <2>1, <1>4, <1>5
  <2>3. Wired(devs, {s \in Slots : v.level[s]}, sources', level')
      BY <2>1, <1>4, <1>6
  <2>4. /\ sources' \in [Pins -> SUBSET Nat] /\ level' \in [Lines -> BOOLEAN]
        /\ \A i \in MsiIrqs : level'[<<"spi", i>>] => Main.pc = "pulsing" /\ Main.ev.irq = i
      BY <2>1, <1>4
  <2> QED BY <1>1, <1>2, <1>3, <2>1, <2>2, <2>3, <2>4, IrqHandled
<1>8. CASE Ntfn.ev.arg # "clr"
  <2>1. /\ Goto("ntfn", "lower") /\ sources' = sources
        /\ level' = [level EXCEPT ![<<"spi", Ntfn.ev.irq>>] = TRUE]
      BY <1>8 DEF Event, Ntfn, v2m_inject_irq
  <2>2. /\ level' \in [Lines -> BOOLEAN]
        /\ \A j \in MsiIrqs \cup EmuIrqs :
              j # Ntfn.ev.irq => level'[<<"spi", j>>] = level[<<"spi", j>>]
        /\ \A p \in Pins : level'[<<"intx", p>>] = level[<<"intx", p>>]
      BY <1>3, <1>4, <2>1, SpiChange
  <2>3. Wired(devs, Up(w) \cup ({Ntfn.ev.irq} \cap Slots), sources', level')
    <3>1. Wired(devs, Up(w), sources', level)
        BY <2>1, <1>4
    <3>2. Wired(devs, Up(w), sources', level')
        BY <2>2, <3>1, WiredLevels
    <3> QED BY <3>2, <1>6
  <2>4. \A i \in EmuIrqs : level'[<<"spi", i>>] = (w.level[i] \/ Ntfn.ev.irq = i)
    <3>1. ASSUME NEW i \in EmuIrqs
          PROVE  level'[<<"spi", i>>] = w.level[i] /\ w.level[i] \in BOOLEAN /\ Ntfn.ev.irq # i
        BY <2>2, <1>4, <1>5, SpiLines
    <3> QED BY <3>1
  <2>5. Ntfn.ev.irq \notin Slots
      BY <1>3, SpiLines
  <2> QED BY <1>1, <1>3, <1>4, <2>1, <2>2, <2>3, <2>4, <2>5, PulseRaised
<1> QED BY <1>7, <1>8

(* shared_irq_line_change on the device of a slot. *)
LEMMA PinChange ==
    ASSUME devs \in DevTables, \A i, j \in DOMAIN devs : devs[i].guest = devs[j].guest => i = j,
           sources \in [Pins -> SUBSET Nat], level \in [Lines -> BOOLEAN],
           NEW A, Wired(devs, A, sources, level), NEW s, FoundIn(devs, s) # {},
           NEW active \in BOOLEAN, shared_irq_line_change(FindIn(devs, s), active)
    PROVE  /\ Wired(devs, IF active THEN A \cup {s} ELSE A \ {s}, sources', level')
           /\ sources' \in [Pins -> SUBSET Nat] /\ level' \in [Lines -> BOOLEAN]
           /\ \A i \in MsiIrqs \cup EmuIrqs : level'[<<"spi", i>>] = level[<<"spi", i>>]
<1>1. PICK p : p = PinOf(devs, s)
    OBVIOUS
<1>2. PICK B : B = IF active THEN A \cup {s} ELSE A \ {s}
    OBVIOUS
<1>3. PICK new : new = IF active THEN sources[p] \cup {FindIn(devs, s).guest}
                       ELSE sources[p] \ {FindIn(devs, s).guest}
    OBVIOUS
<1>4. SourceChanges(A, B, s, sources[p], new, FindIn(devs, s).guest)
    BY <1>2, <1>3 DEF SourceChanges
<1>5. DistinctNumbers(devs)
    BY DEF DistinctNumbers
<1>6. PinChanges(p, new, sources, level, sources', level')
    BY <1>1, <1>3 DEF PinOf, PinChanges, shared_irq_line_change, pci_map_irq
<1>7. PinTypes(sources, level)
    BY DEF PinTypes
<1>8. /\ Wired(devs, B, sources', level') /\ PinTypes(sources', level')
      /\ \A i \in MsiIrqs \cup EmuIrqs : level'[<<"spi", i>>] = level[<<"spi", i>>]
    BY <1>1, <1>4, <1>5, <1>6, <1>7, WiredChange
<1> QED BY <1>2, <1>8 DEF PinTypes

LEMMA HandlePciIntxInv ==
    ASSUME Inv, handle_pci_intx("ntfn")
    PROVE  Inv'
<1> USE DEF handle_pci_intx
<1>1. PICK w \in WantType : Done(w)
    BY DEF Inv
<1>2. PICK v : v = Wanted(w, Ntfn.ev)
    OBVIOUS
<1>3. PICK s : s = Ntfn.ev.irq
    OBVIOUS
<1>4. PICK active \in BOOLEAN : active = (Ntfn.ev.arg # "clr")
    OBVIOUS
<1>5. /\ Ntfn.pc = "process" /\ Busy /\ Ntfn.ev.op = "irq" /\ s \in Slots
      /\ FoundIn(devs, s) # {} /\ shared_irq_line_change(FindIn(devs, s), active)
  <2>1. /\ Ntfn.pc = "process" /\ Busy /\ Ntfn.ev.op = "irq" /\ s \in Slots
        /\ Finds(s) /\ shared_irq_line_change(pcidev_find(s), active)
      BY <1>3, <1>4 DEF Processing, At, Event, Busy, Ntfn
  <2>2. TableShape
      BY DEF Inv, Shape
  <2>3. FoundIn(devs, s) # {} /\ pcidev_find(s) = FindIn(devs, s)
      BY <2>1, <2>2, FindsIn
  <2> QED BY <2>1, <2>3
<1>6. /\ Ntfn.ev.arg \in IrqOps /\ w.level \in [Irqs -> BOOLEAN]
      /\ v.level = [w.level EXCEPT ![s] = Ntfn.ev.arg = "set" /\ s \notin MsiIrqs]
      /\ sources \in [Pins -> SUBSET Nat] /\ level \in [Lines -> BOOLEAN] /\ devs \in DevTables
      /\ \A i, j \in DOMAIN devs : devs[i].guest = devs[j].guest => i = j
      /\ Wired(devs, Up(w), sources, level)
      /\ \A i \in EmuIrqs : level[<<"spi", i>>] = Raised(w, i)
      /\ \A i \in MsiIrqs : level[<<"spi", i>>] => Main.pc = "pulsing" /\ Main.ev.irq = i
    BY <1>1, <1>2, <1>3, <1>5, IrqFacts
<1>7. /\ Wired(devs, IF active THEN Up(w) \cup {s} ELSE Up(w) \ {s}, sources', level')
      /\ sources' \in [Pins -> SUBSET Nat] /\ level' \in [Lines -> BOOLEAN]
      /\ \A i \in MsiIrqs \cup EmuIrqs : level'[<<"spi", i>>] = level[<<"spi", i>>]
  <2> HIDE DEF handle_pci_intx
  <2>1. /\ FoundIn(devs, s) # {} /\ shared_irq_line_change(FindIn(devs, s), active)
        /\ devs \in DevTables /\ Wired(devs, Up(w), sources, level)
        /\ \A i, j \in DOMAIN devs : devs[i].guest = devs[j].guest => i = j
        /\ sources \in [Pins -> SUBSET Nat] /\ level \in [Lines -> BOOLEAN]
      BY <1>5, <1>6
  <2> QED BY <2>1, PinChange
<1>8. \A i \in Irqs : Raised(w, i) = w.level[i]
    BY <1>5, <1>6 DEF Raised
<1>9. \A i \in EmuIrqs : /\ i # s /\ w.level[i] \in BOOLEAN /\ v.level[i] = w.level[i]
                         /\ level'[<<"spi", i>>] = w.level[i]
  <2> SUFFICES ASSUME NEW i \in EmuIrqs
               PROVE  /\ i # s /\ w.level[i] \in BOOLEAN /\ v.level[i] = w.level[i]
                      /\ level'[<<"spi", i>>] = w.level[i]
      OBVIOUS
  <2>1. i # s /\ i \in Irqs
      BY <1>5, SpiLines
  <2>2. w.level[i] \in BOOLEAN /\ v.level[i] = w.level[i]
      BY <2>1, <1>6
  <2>3. level'[<<"spi", i>>] = Raised(w, i)
      BY <1>6, <1>7, Zenon
  <2>4. Raised(w, i) = w.level[i]
      BY <2>1, <1>8
  <2> QED BY <2>1, <2>2, <2>3, <2>4
<1>10. \A i \in MsiIrqs : level'[<<"spi", i>>] => Main.pc = "pulsing" /\ Main.ev.irq = i
    BY <1>6, <1>7
<1>11. CASE Ntfn.ev.arg = "pulse"
  <2>1. Goto("ntfn", "lower")
      BY <1>11 DEF Event, Ntfn
  <2>2. Up(w) \cup {s} = Up(w) \cup ({Ntfn.ev.irq} \cap Slots)
      BY <1>3, <1>5
  <2>3. Wired(devs, Up(w) \cup ({Ntfn.ev.irq} \cap Slots), sources', level')
      BY <2>2, <1>4, <1>7, <1>11
  <2>4. FoundIn(devs, s) # {} /\ s \notin MsiIrqs
      BY <1>5, SpiLines
  <2>5. \A i \in EmuIrqs : level'[<<"spi", i>>] = (w.level[i] \/ Ntfn.ev.irq = i)
      BY <1>3, <1>9
  <2>6. \A i \in MsiIrqs : i # Ntfn.ev.irq => level'[<<"spi", i>>] = level[<<"spi", i>>]
      BY <1>7
  <2> QED BY <1>1, <1>3, <1>5, <1>7, <1>11, <2>1, <2>3, <2>4, <2>5, <2>6, PulseRaised
<1>12. CASE Ntfn.ev.arg # "pulse"
  <2>1. Handled("ntfn")
      BY <1>12 DEF Event, Ntfn
  <2>2. {t \in Slots : v.level[t]} = IF active THEN Up(w) \cup {s} ELSE Up(w) \ {s}
    <3>1. active = (Ntfn.ev.arg = "set") /\ s \notin MsiIrqs /\ s \in Irqs /\ Slots \subseteq Irqs
        BY <1>4, <1>5, <1>6, <1>12, SpiLines DEF IrqOps
    <3>2. v.level[s] = active /\ \A t \in Slots : t # s => v.level[t] = w.level[t]
        BY <3>1, <1>6
    <3>3. \A t \in Slots : t \in Up(w) <=> w.level[t]
        BY <3>1, <1>8 DEF Up
    <3>4. Up(w) \subseteq Slots
        BY DEF Up
    <3> QED BY <3>2, <3>3, <3>4, <1>5
  <2>3. Wired(devs, {t \in Slots : v.level[t]}, sources', level')
      BY <2>2, <1>7
  <2>4. \A i \in EmuIrqs : level'[<<"spi", i>>] = v.level[i]
      BY <1>9
  <2> QED BY <1>1, <1>2, <1>5, <1>7, <1>10, <2>1, <2>3, <2>4, IrqHandled
<1> QED BY <1>11, <1>12

LEMMA LowerInv ==
    ASSUME Inv, Lower("ntfn")
    PROVE  Inv'
<1> USE DEF Lower
<1>1. PICK w \in WantType : Done(w)
    BY DEF Inv
<1>2. PICK v : v = Wanted(w, Ntfn.ev)
    OBVIOUS
<1>3. PICK k : k = Ntfn.ev.irq
    OBVIOUS
<1>4. Ntfn.pc = "lower" /\ Busy /\ Handled("ntfn")
    BY DEF At, Busy, Ntfn
<1>5. /\ Ntfn.ev.op = "irq" /\ (k \notin MsiIrqs => Ntfn.ev.arg = "pulse")
      /\ k \in Slots => FoundIn(devs, k) # {}
    BY <1>3, <1>4 DEF Inv, Shape, NtfnShape
<1>6. /\ k \in Irqs /\ w.level \in [Irqs -> BOOLEAN]
      /\ v.level = [w.level EXCEPT ![k] = Ntfn.ev.arg = "set" /\ k \notin MsiIrqs]
      /\ sources \in [Pins -> SUBSET Nat] /\ level \in [Lines -> BOOLEAN] /\ devs \in DevTables
      /\ \A i, j \in DOMAIN devs : devs[i].guest = devs[j].guest => i = j
      /\ Wired(devs, Up(w), sources, level)
      /\ \A i \in EmuIrqs : level[<<"spi", i>>] = Raised(w, i)
      /\ \A i \in MsiIrqs : level[<<"spi", i>>] => k = i \/ (Main.pc = "pulsing" /\ Main.ev.irq = i)
    BY <1>1, <1>2, <1>3, <1>4, <1>5, IrqFacts
<1>7. v.level[k] = FALSE /\ \A i \in Irqs : i # k => v.level[i] = w.level[i]
    BY <1>5, <1>6
<1>8. \A i \in Irqs : i # k => Raised(w, i) = w.level[i]
    BY <1>3, <1>6 DEF Raised
<1>9. {t \in Slots : v.level[t]} = Up(w) \ {k}
    BY <1>7, <1>8, SpiLines DEF Up
<1>10. CASE k \in Slots
  <2>1. FoundIn(devs, k) # {} /\ shared_irq_line_change(FindIn(devs, k), FALSE)
    <3>1. shared_irq_line_change(pcidev_find(k), FALSE)
        BY <1>3, <1>10 DEF Event, Ntfn
    <3>2. TableShape
        BY DEF Inv, Shape
    <3> QED BY <3>1, <3>2, <1>4, <1>5, <1>10, FindsIn
  <2>2. /\ Wired(devs, Up(w) \ {k}, sources', level')
        /\ sources' \in [Pins -> SUBSET Nat] /\ level' \in [Lines -> BOOLEAN]
        /\ \A i \in MsiIrqs \cup EmuIrqs : level'[<<"spi", i>>] = level[<<"spi", i>>]
      BY <2>1, <1>6, PinChange
  <2>3. \A i \in MsiIrqs \cup EmuIrqs : i # k /\ i \in Irqs
      BY <1>10, SpiLines
  <2>4. \A i \in EmuIrqs : level'[<<"spi", i>>] = v.level[i]
    <3> SUFFICES ASSUME NEW i \in EmuIrqs
                 PROVE  level'[<<"spi", i>>] = v.level[i]
        OBVIOUS
    <3>1. i # k /\ i \in Irqs
        BY <2>3
    <3>2. level'[<<"spi", i>>] = Raised(w, i)
        BY <2>2, <1>6, Zenon
    <3> QED BY <3>1, <3>2, <1>7, <1>8
  <2>5. \A i \in MsiIrqs : level'[<<"spi", i>>] => Main.pc = "pulsing" /\ Main.ev.irq = i
      BY <2>2, <2>3, <1>6
  <2>6. Wired(devs, {t \in Slots : v.level[t]}, sources', level')
      BY <2>2, <1>9
  <2> QED BY <1>1, <1>2, <1>4, <1>5, <2>2, <2>4, <2>5, <2>6, IrqHandled
<1>11. CASE k \notin Slots
  <2>1. k \in MsiIrqs \cup EmuIrqs
      BY <1>6, <1>11, SpiLines
  <2>2. level' = [level EXCEPT ![<<"spi", k>>] = FALSE] /\ sources' = sources
      BY <1>3, <1>11 DEF Event, Ntfn
  <2>3. /\ level' \in [Lines -> BOOLEAN] /\ level'[<<"spi", k>>] = FALSE
        /\ \A j \in MsiIrqs \cup EmuIrqs : j # k => level'[<<"spi", j>>] = level[<<"spi", j>>]
        /\ \A p \in Pins : level'[<<"intx", p>>] = level[<<"intx", p>>]
      BY <1>6, <2>1, <2>2, SpiChange
  <2>4. Wired(devs, Up(w), sources, level')
      BY <1>6, <2>3, WiredLevels
  <2>5. Up(w) \ {k} = Up(w)
      BY <1>11 DEF Up
  <2>6. Wired(devs, {t \in Slots : v.level[t]}, sources', level')
      BY <2>2, <2>4, <2>5, <1>9
  <2>7. \A i \in MsiIrqs \cup EmuIrqs : i \in Irqs
      BY SpiLines
  <2>8. \A i \in EmuIrqs : level'[<<"spi", i>>] = v.level[i]
    <3> SUFFICES ASSUME NEW i \in EmuIrqs
                 PROVE  level'[<<"spi", i>>] = v.level[i]
        OBVIOUS
    <3>1. CASE i = k
        BY <3>1, <2>3, <1>7
    <3>2. CASE i # k
        BY <3>2, <2>3, <2>7, <1>6, <1>7, <1>8
    <3> QED BY <3>1, <3>2
  <2>9. \A i \in MsiIrqs : level'[<<"spi", i>>] => Main.pc = "pulsing" /\ Main.ev.irq = i
      BY <2>3, <1>6
  <2>10. sources' \in [Pins -> SUBSET Nat]
      BY <2>2, <1>6
  <2> QED BY <1>1, <1>2, <1>4, <1>5, <2>3, <2>6, <2>8, <2>9, <2>10, IrqHandled
<1> QED BY <1>10, <1>11

LEMMA EmudevIrqSetInv ==
    ASSUME Inv, emudev_irq_set("ntfn")
    PROVE  Inv'
<1> USE DEF emudev_irq_set
<1>1. PICK w \in WantType : Done(w)
    BY DEF Inv
<1>2. PICK v : v = Wanted(w, Ntfn.ev)
    OBVIOUS
<1>3. PICK k : k = Ntfn.ev.irq
    OBVIOUS
<1>4. PICK active \in BOOLEAN : active = (Ntfn.ev.arg # "clr")
    OBVIOUS
<1>5. /\ Ntfn.pc = "process" /\ Busy /\ Ntfn.ev.op = "irq" /\ k \in EmuIrqs
      /\ level' = [level EXCEPT ![<<"spi", k>>] = active] /\ sources' = sources
    BY <1>3, <1>4 DEF Processing, At, Event, Busy, Ntfn
<1>6. /\ k \notin Slots /\ k \notin MsiIrqs /\ k \in Irqs
      /\ \A i \in MsiIrqs \cup EmuIrqs : i \in Irqs
    BY <1>5, SpiLines
<1>7. /\ Ntfn.ev.arg \in IrqOps /\ w.level \in [Irqs -> BOOLEAN]
      /\ v.level = [w.level EXCEPT ![k] = Ntfn.ev.arg = "set" /\ k \notin MsiIrqs]
      /\ sources \in [Pins -> SUBSET Nat] /\ level \in [Lines -> BOOLEAN]
      /\ Wired(devs, Up(w), sources, level)
      /\ \A i \in EmuIrqs : level[<<"spi", i>>] = Raised(w, i)
      /\ \A i \in MsiIrqs : level[<<"spi", i>>] => Main.pc = "pulsing" /\ Main.ev.irq = i
    BY <1>1, <1>2, <1>3, <1>5, IrqFacts
<1>8. /\ level' \in [Lines -> BOOLEAN] /\ level'[<<"spi", k>>] = active
      /\ \A j \in MsiIrqs \cup EmuIrqs : j # k => level'[<<"spi", j>>] = level[<<"spi", j>>]
      /\ \A p \in Pins : level'[<<"intx", p>>] = level[<<"intx", p>>]
  <2>1. CASE active
    <3>1. level' = [level EXCEPT ![<<"spi", k>>] = TRUE]
        BY <2>1, <1>5
    <3> QED BY <2>1, <3>1, <1>5, <1>7, SpiChange
  <2>2. CASE ~active
    <3>1. level' = [level EXCEPT ![<<"spi", k>>] = FALSE]
        BY <2>2, <1>5
    <3>2. /\ level' \in [Lines -> BOOLEAN] /\ level'[<<"spi", k>>] = FALSE
          /\ \A j \in MsiIrqs \cup EmuIrqs : j # k => level'[<<"spi", j>>] = level[<<"spi", j>>]
          /\ \A p \in Pins : level'[<<"intx", p>>] = level[<<"intx", p>>]
        BY <3>1, <1>5, <1>7, SpiChange
    <3>3. active = FALSE
        BY <2>2
    <3> QED BY <3>2, <3>3
  <2> QED BY <2>1, <2>2
<1>9. \A i \in Irqs : Raised(w, i) = w.level[i]
    BY <1>5, <1>7 DEF Raised
<1>10. Wired(devs, Up(w), sources, level')
  <2>1. Wired(devs, Up(w), sources, level)
      BY <1>7
  <2>2. \A p \in Pins : level'[<<"intx", p>>] = level[<<"intx", p>>]
      BY <1>8
  <2> QED BY <2>1, <2>2, WiredLevels
<1>11. sources' \in [Pins -> SUBSET Nat]
    BY <1>5, <1>7
<1>12. \A i \in MsiIrqs : i # k /\ level'[<<"spi", i>>] = level[<<"spi", i>>]
    BY <1>6, <1>8
<1>13. CASE Ntfn.ev.arg = "pulse"
  <2>1. Goto("ntfn", "lower")
      BY <1>13 DEF Event, Ntfn
  <2>2. Up(w) = Up(w) \cup ({Ntfn.ev.irq} \cap Slots) /\ Ntfn.ev.irq \notin Slots
      BY <1>3, <1>6
  <2>3. Wired(devs, Up(w) \cup ({Ntfn.ev.irq} \cap Slots), sources', level')
      BY <2>2, <1>5, <1>10
  <2>4. \A i \in EmuIrqs : level'[<<"spi", i>>] = (w.level[i] \/ Ntfn.ev.irq = i)
    <3> SUFFICES ASSUME NEW i \in EmuIrqs
                 PROVE  level'[<<"spi", i>>] = (w.level[i] \/ Ntfn.ev.irq = i)
        OBVIOUS
    <3>1. CASE i = k
      <4>1. level'[<<"spi", i>>] = TRUE
          BY <3>1, <1>4, <1>8, <1>13
      <4> QED BY <4>1, <3>1, <1>3
    <3>2. CASE i # k
      <4>1. level'[<<"spi", i>>] = w.level[i] /\ w.level[i] \in BOOLEAN
          BY <3>2, <1>6, <1>7, <1>8, <1>9
      <4> QED BY <4>1, <3>2, <1>3
    <3> QED BY <3>1, <3>2
  <2> QED BY <1>1, <1>5, <1>8, <1>11, <1>12, <1>13, <2>1, <2>2, <2>3, <2>4, PulseRaised
<1>14. CASE Ntfn.ev.arg # "pulse"
  <2>1. Handled("ntfn")
      BY <1>14 DEF Event, Ntfn
  <2>2. v.level[k] = active /\ \A i \in Irqs : i # k => v.level[i] = w.level[i]
    <3>1. active = (Ntfn.ev.arg = "set")
        BY <1>4, <1>7, <1>14 DEF IrqOps
    <3> QED BY <3>1, <1>6, <1>7
  <2>3. {t \in Slots : v.level[t]} = Up(w)
      BY <2>2, <1>6, <1>9, SpiLines DEF Up
  <2>4. Wired(devs, {t \in Slots : v.level[t]}, sources', level')
      BY <2>3, <1>5, <1>10
  <2>5. \A i \in EmuIrqs : level'[<<"spi", i>>] = v.level[i]
    <3> SUFFICES ASSUME NEW i \in EmuIrqs
                 PROVE  level'[<<"spi", i>>] = v.level[i]
        OBVIOUS
    <3>1. CASE i = k
        BY <3>1, <2>2, <1>8
    <3>2. CASE i # k
        BY <3>2, <2>2, <1>6, <1>7, <1>8, <1>9
    <3> QED BY <3>1, <3>2
  <2>6. \A i \in MsiIrqs : level'[<<"spi", i>>] => Main.pc = "pulsing" /\ Main.ev.irq = i
      BY <1>7, <1>12
  <2>7. level' \in [Lines -> BOOLEAN]
      BY <1>8
  <2>8. UNCHANGED <<events, bell, ringing, table, nextDev, irqs, mmio, reserved, boot, aborted,
                    want>>
      OBVIOUS
  <2> HIDE DEF emudev_irq_set
  <2>9. Busy /\ Ntfn.ev.op = "irq"
      BY <1>5
  <2> QED BY <1>1, <1>2, <1>11, <2>1, <2>4, <2>5, <2>6, <2>7, <2>8, <2>9, IrqHandled
<1> QED BY <1>13, <1>14

-----------------------------------------------------------------------------
(* The other events.                                                       *)

(* The lines stay as they are while another event is handled. *)
LEMMA LinesStay ==
    ASSUME NEW w \in WantType, NEW v, PinsMatch(w), SpisMatch(w),
           Ntfn.pc # "lower", Ntfn'.pc # "lower", v.level = w.level, Main' = Main,
           UNCHANGED <<devs, sources, level>>
    PROVE  PinsMatch(v)' /\ SpisMatch(v)'
<1>1. \A i : Raised(w, i) = (w.level[i] \/ FALSE) /\ Raised(v, i)' = (w.level[i] \/ FALSE)
    BY DEF Raised
<1>2. Up(v)' = Up(w)
    BY <1>1 DEF Up
<1>3. PinsMatch(v)'
    BY <1>2 DEF PinsMatch
<1>4. SpisMatch(v)'
    BY <1>1 DEF SpisMatch
<1> QED BY <1>3, <1>4

(* Steps of pcidev_register and of irq_res_assign that leave the lines     *)
(* and the devices alone.                                                  *)
LEMMA GoesOnInv ==
    ASSUME Inv, Busy,
           NEW label \in {"process", "count", "store", "counted", "written", "assign"},
           Ntfn.pc \notin {"lower", "post"}, Ntfn'.pc = label, Ntfn'.ev = Ntfn.ev, Main' = Main,
           runner' \in [Runners -> RunnerState],
           ReservationTypes', DeviceTypes', NtfnShape', TableShape', BusNumbers',
           UNCHANGED <<events, bell, ringing, devs, Known, sources, level, mmio, reserved, boot,
                       aborted, want>>
    PROVE  Inv'
<1>1. PICK w \in WantType : Done(w)
    BY DEF Inv
<1>2. Busy' /\ Behind(w)' /\ BootMatches(w)'
    BY <1>1, EventGoesOn DEF Inv, Done
<1>3. TypeOK'
    BY DEF Inv, Shape, TypeOK, QueueTypes, boot
<1>4. MainShape'
    BY DEF Inv, Shape, MainShape, boot
<1>5. PinsMatch(w)' /\ SpisMatch(w)'
    BY <1>1, LinesStay DEF Done
<1>6. RegistryMatches(w)'
    BY <1>1 DEF Done, RegistryMatches
<1> QED BY <1>1, <1>2, <1>3, <1>4, <1>5, <1>6 DEF Inv, Shape, Done

LEMMA AddEntryInv ==
    ASSUME Inv, vmm_pci_add_entry("ntfn")
    PROVE  Inv'
<1> USE DEF vmm_pci_add_entry
<1>1. /\ Ntfn.pc = "process" /\ Busy /\ Ntfn.ev.op = "register" /\ Known < NumAvail
    BY DEF Processing, At, Event, Busy, Ntfn, Known
<1>2. nextDev \in Nat /\ nextDev' = nextDev + 1
    BY DEF Inv, Shape, TypeOK, DeviceTypes
<1>3. /\ runner' \in [Runners -> RunnerState] /\ Main' = Main
      /\ Ntfn'.pc = "count" /\ Ntfn'.ev = Ntfn.ev /\ Ntfn'.dev = nextDev
  <2>1. runner \in [Runners -> RunnerState] /\ "count" \in RunnerPcs
      BY DEF Inv, Shape, TypeOK, RunnerPcs
  <2>2. runner' = [runner EXCEPT !["ntfn"] = [@ EXCEPT !.pc = "count", !.dev = nextDev]]
      OBVIOUS
  <2> QED BY <1>2, <2>1, <2>2 DEF Runners, RunnerState, Main, Ntfn
<1>0. /\ pci_devs' = pci_devs /\ pci_dev_count' = pci_dev_count
      /\ devs' = devs /\ Known' = Known /\ TableShape'
    BY <1>1, <1>3, TableStays DEF Inv, Shape
<1> USE <1>0
<1>4. ReservationTypes' /\ DeviceTypes'
    BY <1>2 DEF Inv, Shape, TypeOK, ReservationTypes, DeviceTypes
<1>5. NtfnShape'
    BY <1>1, <1>3 DEF Inv, Shape, NtfnShape, Busy, Registering
<1>6. BusNumbers'
  <2>1. \A i \in DOMAIN devs : devs[i].guest \in Nat /\ devs[i].guest < nextDev
    <3>1. \A i \in DOMAIN devs : devs[i] \in [slot : Slots, guest : Nat]
        BY TableFacts DEF Inv, Shape
    <3> QED BY <3>1 DEF Inv, Shape, BusNumbers
  <2>2. \A i \in DOMAIN devs : devs[i].guest < nextDev + 1 /\ devs[i].guest # nextDev
      BY <2>1, <1>2
  <2>3. nextDev < nextDev + 1
      BY <1>2
  <2> QED BY <2>2, <2>3, <1>2, <1>3 DEF Inv, Shape, BusNumbers
<1> QED BY <1>1, <1>3, <1>4, <1>5, <1>6, GoesOnInv

LEMMA LoadDevCountInv ==
    ASSUME Inv, LoadDevCount("ntfn")
    PROVE  Inv'
<1> USE DEF LoadDevCount
<1>1. Ntfn.pc = "count" /\ Busy /\ Ntfn.ev.op = "register" /\ Known < NumAvail
    BY DEF At, Busy, Ntfn, Inv, Shape, NtfnShape, Registering
<1>2. Known = pci_dev_count /\ Known \in 0 .. NumAvail - 1
    BY <1>1, EventsAssumption DEF Inv, Shape, TableShape, Known
<1>3. /\ runner' \in [Runners -> RunnerState] /\ Main' = Main
      /\ Ntfn'.pc = "store" /\ Ntfn'.ev = Ntfn.ev /\ Ntfn'.dev = Ntfn.dev
      /\ Ntfn'.index = Known
  <2>1. runner \in [Runners -> RunnerState] /\ "store" \in RunnerPcs
      BY DEF Inv, Shape, TypeOK, RunnerPcs
  <2>2. runner' = [runner EXCEPT !["ntfn"] = [@ EXCEPT !.pc = "store", !.index = Known]]
      BY <1>2
  <2> QED BY <1>2, <2>1, <2>2 DEF Runners, RunnerState, Main, Ntfn
<1>4. /\ pci_devs' = pci_devs /\ pci_dev_count' = pci_dev_count
      /\ devs' = devs /\ Known' = Known /\ TableShape'
    BY <1>1, <1>3, TableStays DEF Inv, Shape, registry
<1> USE <1>4
<1>5. ReservationTypes' /\ DeviceTypes'
    BY DEF Inv, Shape, TypeOK, ReservationTypes, DeviceTypes, registry
<1>6. NtfnShape'
    BY <1>1, <1>3 DEF Inv, Shape, NtfnShape, Busy, Registering, registry
<1>7. BusNumbers'
    BY <1>1, <1>3 DEF Inv, Shape, BusNumbers, Registering, registry
<1> QED BY <1>1, <1>3, <1>5, <1>6, <1>7, GoesOnInv DEF registry

(* What pcidev_register writes, and where: behind the devices there are. *)
LEMMA RegisterFacts ==
    ASSUME Inv, Ntfn.pc \in {"store", "counted", "written"}
    PROVE  /\ Busy /\ Registering /\ Ntfn.ev \in Events /\ Ntfn.ev.op = "register"
           /\ Ntfn.index = Known /\ Known \in Nat /\ Known < NumAvail /\ NumAvail \in Nat
           /\ [slot |-> Ntfn.ev.slot, guest |-> Ntfn.dev] \in [slot : Slots, guest : Nat]
           /\ pci_devs \in [TableIndices -> [slot : Slots \cup {-1}, guest : Nat]]
           /\ Known + 1 \in TableIndices
<1>1. /\ Busy /\ Registering /\ Ntfn.ev \in Events /\ Ntfn.ev.op = "register"
      /\ Ntfn.index = Known /\ Known < NumAvail
    BY DEF Busy, Registering, Inv, Shape, NtfnShape
<1>2. Ntfn.ev.slot \in Slots
    BY <1>1, EventFields
<1>3. Ntfn.dev \in Nat
    BY DEF Inv, Shape, TypeOK, Runners, RunnerState, Ntfn
<1>4. Known \in Nat /\ NumAvail \in Nat
    BY EventsAssumption DEF Inv, Shape, TableShape
<1>5. Known + 1 \in TableIndices
    BY <1>1, <1>4 DEF TableIndices
<1>6. pci_devs \in [TableIndices -> [slot : Slots \cup {-1}, guest : Nat]]
    BY DEF Inv, Shape, TypeOK, DeviceTypes
<1> QED BY <1>1, <1>2, <1>3, <1>4, <1>5, <1>6

(* The first of the two writes. *)
LEMMA FirstWriteInv ==
    ASSUME Inv, Ntfn.pc = "store", NEW label \in {"counted", "written"},
           Goto("ntfn", label), DeviceTypes', Known' = Known,
           \A i \in 1 .. Known : pci_devs'[i] = pci_devs[i],
           label = "counted" => pci_devs' = pci_devs,
           label = "written" =>
              /\ pci_devs'[Known + 1] = [slot |-> Ntfn.ev.slot, guest |-> Ntfn.dev]
              /\ \A i \in TableIndices : i # Known + 1 => pci_devs'[i] = pci_devs[i],
           UNCHANGED <<events, bell, ringing, nextDev, sources, level, irqs, mmio, reserved,
                       boot, aborted, want>>
    PROVE  Inv'
<1>1. /\ Busy /\ Registering /\ Ntfn.ev \in Events /\ Ntfn.ev.op = "register"
      /\ Ntfn.index = Known /\ Known \in Nat /\ Known < NumAvail
    BY RegisterFacts
<1>2. /\ runner' \in [Runners -> RunnerState] /\ Main' = Main
      /\ Ntfn'.pc = label /\ Ntfn'.ev = Ntfn.ev /\ Ntfn'.index = Ntfn.index
      /\ Ntfn'.dev = Ntfn.dev
    BY NtfnGoto DEF Inv, Shape, TypeOK, RunnerPcs
<1>3. devs' = devs
    BY DEF devs
<1>4. TableShape'
  <2>1. \A i \in TableIndices : i > Known => pci_devs[i] = NoDev
      BY DEF Inv, Shape, TableShape
  <2>2. Known' \in 0 .. NumAvail
      BY DEF Inv, Shape, TableShape
  <2>3. \A i \in 1 .. Known' : pci_devs'[i] \in [slot : Slots, guest : Nat]
      BY DEF Inv, Shape, TableShape
  <2>4. ASSUME NEW i \in TableIndices, i > Known
        PROVE  pci_devs'[i] = NoDev \/ (Ntfn'.pc = "written" /\ i = Known + 1)
      BY <2>1, <2>4, <1>2
  <2> QED BY <2>2, <2>3, <2>4 DEF TableShape
<1>5. NtfnShape'
    BY <1>1, <1>2 DEF NtfnShape, Busy, Registering
<1>6. BusNumbers'
    BY <1>1, <1>2, <1>3 DEF Inv, Shape, BusNumbers, Registering
<1>7. ReservationTypes'
    BY DEF Inv, Shape, TypeOK, ReservationTypes
<1> QED BY <1>1, <1>2, <1>3, <1>4, <1>5, <1>6, <1>7, GoesOnInv

(* The second: the device is the next in the table. *)
LEMMA RegisteredInv ==
    ASSUME Inv, Ntfn.pc \in {"counted", "written"}, Handled("ntfn"), DeviceTypes',
           Known' = Known + 1,
           NEW x, x = [slot |-> Ntfn.ev.slot, guest |-> Ntfn.dev], pci_devs'[Known + 1] = x,
           \A i \in TableIndices : i # Known + 1 => pci_devs'[i] = pci_devs[i],
           UNCHANGED <<events, bell, ringing, nextDev, sources, level, irqs, mmio, reserved,
                       boot, aborted, want>>
    PROVE  Inv'
<1>1. PICK w \in WantType : Done(w)
    BY DEF Inv
<1>2. PICK v : v = Wanted(w, Ntfn.ev)
    OBVIOUS
<1>3. /\ Busy /\ Registering /\ Ntfn.ev.op = "register"
      /\ Known \in Nat /\ Known < NumAvail /\ NumAvail \in Nat
      /\ x \in [slot : Slots, guest : Nat] /\ x.guest = Ntfn.dev
    BY RegisterFacts
<1>4. /\ runner' \in [Runners -> RunnerState] /\ Main' = Main /\ Ntfn'.pc = "receive"
      /\ NtfnShape' /\ ~Busy'
      /\ v \in WantType /\ Behind(v)' /\ v.atStart \in {-1, want.atStart}
      /\ Ntfn.ev \in Events
    BY <1>1, <1>2, <1>3, EventHandled DEF Inv, Done
<1>5. TableShape'
  <2>1. /\ \A i \in 1 .. Known : pci_devs[i] \in [slot : Slots, guest : Nat]
        /\ \A i \in TableIndices : i > Known + 1 => pci_devs[i] = NoDev
    <3>1. \A i \in TableIndices : i > Known => pci_devs[i] = NoDev \/ i = Known + 1
        BY DEF Inv, Shape, TableShape
    <3>2. \A i \in TableIndices : i > Known + 1 => i > Known /\ i # Known + 1
        BY <1>3 DEF TableIndices
    <3> QED BY <3>1, <3>2 DEF Inv, Shape, TableShape
  <2>2. Known' \in 0 .. NumAvail
      BY <1>3
  <2>3. ASSUME NEW i \in 1 .. Known'
        PROVE  pci_devs'[i] \in [slot : Slots, guest : Nat]
    <3>1. CASE i = Known + 1
        BY <3>1, <1>3
    <3>2. CASE i # Known + 1
      <4>1. i \in 1 .. Known /\ i \in TableIndices
          BY <3>2, <2>3, <1>3 DEF TableIndices
      <4> QED BY <4>1, <3>2, <2>1
    <3> QED BY <3>1, <3>2
  <2>4. ASSUME NEW i \in TableIndices, i > Known'
        PROVE  pci_devs'[i] = NoDev
    <3>1. i > Known + 1 /\ i # Known + 1
        BY <2>4, <1>3 DEF TableIndices
    <3> QED BY <3>1, <2>1
  <2> QED BY <2>2, <2>3, <2>4 DEF TableShape
<1>6. /\ devs \in DevTables /\ Len(devs) = Known /\ DOMAIN devs = 1 .. Known
      /\ \A i \in 1 .. Known : devs[i] = pci_devs[i]
    BY TableFacts DEF Inv, Shape
<1>7. /\ devs' \in DevTables /\ Len(devs') = Known + 1 /\ DOMAIN devs' = 1 .. Known + 1
      /\ \A i \in 1 .. Known + 1 : devs'[i] = pci_devs'[i]
  <2>1. /\ Known' \in Nat /\ \A i \in 1 .. Known' : pci_devs'[i] \in [slot : Slots, guest : Nat]
        /\ devs' = [i \in 1 .. Known' |-> pci_devs'[i]]
      BY <1>3, <1>5 DEF TableShape, devs
  <2>2. PICK n, f, d : n \in Nat /\ n = Known' /\ f = pci_devs' /\ d = devs'
      BY <2>1, Zenon
  <2> HIDE DEF devs
  <2>3. /\ n \in Nat /\ \A i \in 1 .. n : f[i] \in [slot : Slots, guest : Nat]
        /\ d = [i \in 1 .. n |-> f[i]]
      BY <2>1, <2>2, Zenon
  <2>4. d \in DevTables /\ Len(d) = n /\ DOMAIN d = 1 .. n /\ \A i \in 1 .. n : d[i] = f[i]
      BY <2>3, TableSeq, SMTT(30)
  <2>5. n = Known + 1
      BY <1>3, <2>2
  <2> QED BY <2>2, <2>4, <2>5, Zenon
<1>8. devs'[Known + 1] = x /\ \A i \in 1 .. Known : devs'[i] = devs[i]
  <2>1. Known + 1 \in 1 .. Known + 1
      BY <1>3
  <2>2. ASSUME NEW i \in 1 .. Known
        PROVE  devs'[i] = devs[i]
    <3>1. i \in TableIndices /\ i # Known + 1 /\ i \in 1 .. Known + 1
        BY <1>3 DEF TableIndices
    <3> QED BY <3>1, <1>6, <1>7
  <2> QED BY <2>1, <2>2, <1>7
<1>9. devs' = Append(devs, x)
  <2> DEFINE R == [slot : Slots, guest : Nat]
             c == Append(devs, x)
  <2>1. devs \in Seq(R) /\ x \in R /\ devs' \in Seq(R)
      BY <1>3, <1>6, <1>7 DEF DevTables
  <2> HIDE DEF R
  <2>2. /\ c \in Seq(R) /\ Len(c) = Known + 1
        /\ c[Known + 1] = x /\ \A i \in 1 .. Known : c[i] = devs[i]
      BY <2>1, <1>6, AppendProperties
  <2> HIDE DEF c
  <2>3. \A i \in 1 .. Known + 1 : c[i] = devs'[i]
      BY <2>2, <1>3, <1>8
  <2>4. Len(c) = Len(devs')
      BY <2>2, <1>7
  <2>5. c = devs'
      BY <2>1, <2>2, <2>3, <2>4, SeqEqual
  <2> QED BY <2>5 DEF c
<1>10. TypeOK'
    BY <1>4 DEF Inv, Shape, TypeOK, QueueTypes, ReservationTypes, boot
<1>11. MainShape'
  <2>1. UNCHANGED <<events, okToRun>>
      BY DEF boot
  <2>2. MainShape
      BY Zenon DEF Inv, Shape
  <2> QED BY <2>1, <2>2, <1>4 DEF MainShape
<1>12. BusNumbers'
  <2>1. /\ \A i, j \in 1 .. Known : devs[i].guest = devs[j].guest => i = j
        /\ \A i \in 1 .. Known : devs[i].guest < nextDev /\ devs[i].guest # Ntfn.dev
        /\ Ntfn.dev < nextDev
      BY <1>3, <1>6 DEF Inv, Shape, BusNumbers
  <2>2. \A i \in 1 .. Known + 1 : i \in 1 .. Known \/ i = Known + 1
      BY <1>3
  <2>3. ASSUME NEW i \in 1 .. Known + 1, NEW j \in 1 .. Known + 1,
               devs'[i].guest = devs'[j].guest
        PROVE  i = j
    <3>1. CASE i \in 1 .. Known /\ j \in 1 .. Known
        BY <3>1, <2>1, <2>3, <1>8
    <3>2. CASE i \in 1 .. Known /\ j = Known + 1
        BY <3>2, <2>1, <2>3, <1>3, <1>8
    <3>3. CASE i = Known + 1 /\ j \in 1 .. Known
        BY <3>3, <2>1, <2>3, <1>3, <1>8
    <3>4. CASE i = Known + 1 /\ j = Known + 1
        BY <3>4
    <3> QED BY <3>1, <3>2, <3>3, <3>4, <2>2
  <2>4. \A i \in 1 .. Known + 1 : devs'[i].guest < nextDev'
      BY <2>1, <2>2, <1>3, <1>8
  <2> QED BY <2>3, <2>4, <1>4, <1>7 DEF BusNumbers, Registering
<1>13. /\ v.level = w.level /\ v.devs = w.devs + 1 /\ v.mmio = w.mmio /\ v.atStart = w.atStart
    BY <1>2, <1>3, <1>4, WantedFields
<1>14. PinsMatch(v)' /\ SpisMatch(v)'
  <2>1. \A i : Raised(w, i) = (w.level[i] \/ FALSE) /\ Raised(v, i)' = (w.level[i] \/ FALSE)
      BY <1>4, <1>13 DEF Raised
  <2>2. Up(v)' = Up(w)
      BY <2>1 DEF Up
  <2>3. Wired(devs, Up(w), sources, level)
      BY <1>1 DEF Done, PinsMatch
  <2>4. Wired(devs', Up(w), sources, level)
      BY <2>3, <1>3, <1>6, <1>9, WiredAppend
  <2>5. PinsMatch(v)'
      BY <2>2, <2>4 DEF PinsMatch
  <2>6. SpisMatch(v)'
      BY <2>1, <1>1, <1>4, <1>13 DEF Done, SpisMatch
  <2> QED BY <2>5, <2>6
<1>15. RegistryMatches(v)'
    BY <1>1, <1>13 DEF Done, RegistryMatches
<1>16. BootMatches(v)'
  <2>1. w.atStart <= w.devs /\ w.devs \in Nat /\ w.atStart \in Nat \cup {-1}
      BY <1>1 DEF Done, BootMatches, WantType
  <2>2. v.atStart <= v.devs
      BY <2>1, <1>13
  <2> QED BY <2>2, <1>1, <1>4, <1>13 DEF Done, BootMatches, boot
<1> QED BY <1>4, <1>5, <1>10, <1>11, <1>12, <1>14, <1>15, <1>16 DEF Inv, Shape, Done

LEMMA StoreDevCountInv ==
    ASSUME Inv, StoreDevCount("ntfn")
    PROVE  Inv'
<1> USE DEF StoreDevCount
<1>1. Ntfn.pc \in {"store", "written"} /\ pci_dev_count' = Ntfn.index + 1 /\ pci_devs' = pci_devs
    BY DEF Ntfn
<1>2. /\ Ntfn.index = Known /\ Known \in Nat /\ Known < NumAvail /\ NumAvail \in Nat
    BY <1>1, RegisterFacts
<1>3. DeviceTypes'
  <2>1. pci_dev_count' \in 0 .. NumAvail
      BY <1>1, <1>2
  <2> QED BY <2>1 DEF Inv, Shape, TypeOK, DeviceTypes
<1>4. CASE Ntfn.pc = "store"
  <2>1. Goto("ntfn", "counted")
      BY <1>4 DEF Ntfn
  <2>2. Ntfn'.pc = "counted"
      BY <2>1, NtfnGoto DEF Inv, Shape, TypeOK, RunnerPcs
  <2>3. Known' = Known
      BY <2>2, <1>1, <1>2 DEF Known
  <2> QED BY <1>1, <1>3, <1>4, <2>1, <2>3, FirstWriteInv
<1>5. CASE Ntfn.pc = "written"
  <2>1. Handled("ntfn")
      BY <1>5 DEF Ntfn
  <2>2. Ntfn'.pc = "receive"
      BY <2>1, NtfnHandled DEF Inv, Shape, TypeOK
  <2>3. Known' = Known + 1
      BY <2>2, <1>1, <1>2 DEF Known
  <2>4. pci_devs'[Known + 1] = [slot |-> Ntfn.ev.slot, guest |-> Ntfn.dev]
      BY <1>1, <1>5 DEF Inv, Shape, NtfnShape
  <2> QED BY <1>1, <1>3, <1>5, <2>1, <2>3, <2>4, RegisteredInv
<1> QED BY <1>1, <1>4, <1>5

LEMMA StoreDevInv ==
    ASSUME Inv, StoreDev("ntfn")
    PROVE  Inv'
<1> USE DEF StoreDev
<1>1. PICK x : x = [slot |-> Ntfn.ev.slot, guest |-> Ntfn.dev]
    OBVIOUS
<1>2. /\ Ntfn.pc \in {"store", "counted"} /\ pci_dev_count' = pci_dev_count
      /\ pci_devs' = [pci_devs EXCEPT ![Ntfn.index + 1] = x]
    BY <1>1 DEF Ntfn, Event
<1>3. /\ Ntfn.index = Known /\ Known \in Nat /\ x \in [slot : Slots, guest : Nat]
      /\ pci_devs \in [TableIndices -> [slot : Slots \cup {-1}, guest : Nat]]
      /\ Known + 1 \in TableIndices /\ Known < NumAvail /\ NumAvail \in Nat
    BY <1>1, <1>2, RegisterFacts
<1>4. /\ pci_devs' \in [TableIndices -> [slot : Slots \cup {-1}, guest : Nat]]
      /\ pci_devs'[Known + 1] = x
      /\ \A i \in TableIndices : i # Known + 1 => pci_devs'[i] = pci_devs[i]
    BY <1>2, <1>3
<1>5. DeviceTypes'
    BY <1>2, <1>4 DEF Inv, Shape, TypeOK, DeviceTypes
<1>6. CASE Ntfn.pc = "store"
  <2>1. Goto("ntfn", "written")
      BY <1>6 DEF Ntfn
  <2>2. Ntfn'.pc = "written"
      BY <2>1, NtfnGoto DEF Inv, Shape, TypeOK, RunnerPcs
  <2>3. Known' = Known
      BY <2>2, <1>2, <1>6 DEF Known
  <2>4. \A i \in 1 .. Known : pci_devs'[i] = pci_devs[i]
    <3>1. \A i \in 1 .. Known : i \in TableIndices /\ i # Known + 1
        BY <1>3 DEF TableIndices
    <3> QED BY <3>1, <1>4
  <2> QED BY <1>1, <1>4, <1>5, <1>6, <2>1, <2>3, <2>4, FirstWriteInv
<1>7. CASE Ntfn.pc = "counted"
  <2>1. Handled("ntfn")
      BY <1>7 DEF Ntfn
  <2>2. Ntfn'.pc = "receive"
      BY <2>1, NtfnHandled DEF Inv, Shape, TypeOK
  <2>3. Known' = Known + 1
    <3>1. pci_dev_count \in 0 .. NumAvail
        BY DEF Inv, Shape, TypeOK, DeviceTypes
    <3> QED BY <3>1, <2>2, <1>2, <1>3, <1>7 DEF Known
  <2> QED BY <1>1, <1>4, <1>5, <1>7, <2>1, <2>3, RegisteredInv
<1> QED BY <1>2, <1>6, <1>7

LEMMA IrqIsNewInv ==
    ASSUME Inv, IrqIsNew("ntfn")
    PROVE  Inv'
<1> USE DEF IrqIsNew
<1>1. /\ Ntfn.pc = "process" /\ Busy /\ Ntfn.ev.op = "irq" /\ Ntfn.ev.irq \in EmuIrqs
      /\ \A i \in DOMAIN irqs : irqs[i] # Ntfn.ev.irq
    BY DEF Processing, At, Event, Busy, Ntfn
<1>2. /\ runner' \in [Runners -> RunnerState] /\ Main' = Main
      /\ Ntfn'.pc = "assign" /\ Ntfn'.ev = Ntfn.ev
    BY NtfnGoto DEF Inv, Shape, TypeOK, RunnerPcs
<1>0. /\ pci_devs' = pci_devs /\ pci_dev_count' = pci_dev_count
      /\ devs' = devs /\ Known' = Known /\ TableShape'
    BY <1>1, <1>2, TableStays DEF Inv, Shape, registry
<1> USE <1>0
<1>3. ReservationTypes' /\ DeviceTypes'
    BY DEF Inv, Shape, TypeOK, ReservationTypes, DeviceTypes, registry
<1>4. NtfnShape'
    BY <1>1, <1>2 DEF Inv, Shape, NtfnShape, Busy, Registering, registry
<1>5. BusNumbers'
    BY <1>1, <1>2 DEF Inv, Shape, BusNumbers, Registering, registry
<1> QED BY <1>1, <1>2, <1>3, <1>4, <1>5, GoesOnInv DEF registry

LEMMA IrqResAssignInv ==
    ASSUME Inv, irq_res_assign("ntfn")
    PROVE  Inv'
<1> USE DEF irq_res_assign
<1>1. /\ Ntfn.pc = "assign" /\ Busy /\ Ntfn.ev.op = "irq" /\ Ntfn.ev.irq \in EmuIrqs
      /\ \A i \in DOMAIN irqs : irqs[i] # Ntfn.ev.irq
    BY DEF At, Busy, Ntfn, Inv, Shape, NtfnShape
<1>2. /\ runner' \in [Runners -> RunnerState] /\ Main' = Main
      /\ Ntfn'.pc = "process" /\ Ntfn'.ev = Ntfn.ev
    BY NtfnGoto DEF Inv, Shape, TypeOK, RunnerPcs
<1>3. irqs \in Seq(EmuIrqs) /\ \A i, j \in DOMAIN irqs : irqs[i] = irqs[j] => i = j
    BY DEF Inv, Shape, TypeOK, ReservationTypes
<1>4. PICK k \in EmuIrqs : k = Ntfn.ev.irq /\ irqs' = Append(irqs, k)
    BY <1>1 DEF Event, Ntfn
<1>5. /\ irqs' \in Seq(EmuIrqs) /\ Len(irqs) \in Nat /\ DOMAIN irqs = 1 .. Len(irqs)
      /\ DOMAIN irqs' = 1 .. Len(irqs) + 1 /\ irqs'[Len(irqs) + 1] = k
      /\ \A i \in DOMAIN irqs : irqs'[i] = irqs[i]
    BY <1>3, <1>4, AppendProperties, LenProperties
<1>6. \A i, j \in DOMAIN irqs' : irqs'[i] = irqs'[j] => i = j
  <2> SUFFICES ASSUME NEW i \in DOMAIN irqs', NEW j \in DOMAIN irqs', irqs'[i] = irqs'[j]
               PROVE  i = j
      OBVIOUS
  <2>1. \A n \in DOMAIN irqs' : n \in DOMAIN irqs \/ n = Len(irqs) + 1
      BY <1>5
  <2>2. CASE i \in DOMAIN irqs /\ j \in DOMAIN irqs
      BY <2>2, <1>3, <1>5
  <2>3. CASE i \in DOMAIN irqs /\ j = Len(irqs) + 1
      BY <2>3, <1>1, <1>4, <1>5
  <2>4. CASE i = Len(irqs) + 1 /\ j \in DOMAIN irqs
      BY <2>4, <1>1, <1>4, <1>5
  <2> QED BY <2>1, <2>2, <2>3, <2>4
<1>7. ReservationTypes'
    BY <1>5, <1>6 DEF Inv, Shape, TypeOK, ReservationTypes
<1>0. /\ pci_devs' = pci_devs /\ pci_dev_count' = pci_dev_count
      /\ devs' = devs /\ Known' = Known /\ TableShape'
    BY <1>1, <1>2, TableStays DEF Inv, Shape
<1> USE <1>0
<1>8. NtfnShape'
    BY <1>1, <1>2 DEF Inv, Shape, NtfnShape, Busy, Registering
<1>9. BusNumbers' /\ DeviceTypes'
    BY <1>1, <1>2 DEF Inv, Shape, BusNumbers, Registering, TypeOK, DeviceTypes
<1> QED BY <1>1, <1>2, <1>7, <1>8, <1>9, GoesOnInv

(* An event other than an interrupt and a registration has been handled. *)
LEMMA OtherHandled ==
    ASSUME Inv, Ntfn.pc \in {"process", "post"}, Ntfn.ev.op \notin {"irq", "register"},
           NEW w \in WantType, Done(w), NEW v, v = Wanted(w, Ntfn.ev), Handled("ntfn"),
           mmio' = v.mmio, reserved' = v.mmio, okToRun' = (v.atStart # -1),
           started' \in 0 .. 1, started' > 0 => okToRun',
           UNCHANGED <<events, bell, ringing, table, nextDev, sources, level, irqs, aborted, want>>
    PROVE  Inv'
<1>0. /\ pci_devs' = pci_devs /\ pci_dev_count' = pci_dev_count
      /\ devs' = devs /\ Known' = Known /\ TableShape'
  <2>1. UNCHANGED table /\ TableShape
      BY DEF registry, Inv, Shape
  <2>2. Ntfn'.pc = "receive" /\ ~(Ntfn.pc \in {"counted", "written"})
      BY NtfnHandled DEF Inv, Shape, TypeOK, NtfnShape, Registering
  <2> QED BY <2>1, <2>2, TableStays
<1> USE <1>0
<1>1. Busy
    BY DEF Busy
<1>2. /\ runner' \in [Runners -> RunnerState] /\ Main' = Main /\ Ntfn'.pc = "receive"
      /\ NtfnShape' /\ ~Busy'
      /\ v \in WantType /\ Behind(v)' /\ v.atStart \in {-1, want.atStart}
      /\ Ntfn.ev \in Events
    BY <1>1, EventHandled DEF Inv, Done
<1>3. /\ v.level = w.level /\ v.devs = w.devs
      /\ v.atStart = IF Ntfn.ev.op = "start" THEN w.devs ELSE w.atStart
    BY <1>2, WantedFields
<1>4. w.devs \in Nat /\ w.atStart \in Nat \cup {-1} /\ v.mmio \subseteq Regions
    BY <1>2 DEF WantType
<1>5. w.atStart <= w.devs /\ okToRun = (w.atStart # -1 \/ Ntfn.pc = "post")
    BY DEF Done, BootMatches
<1>6. TypeOK'
  <2>1. ReservationTypes'
      BY <1>4 DEF Inv, Shape, TypeOK, ReservationTypes
  <2>2. QueueTypes' /\ DeviceTypes' /\ aborted' \in BOOLEAN
      BY DEF Inv, Shape, TypeOK, QueueTypes, DeviceTypes
  <2>3. okToRun' \in BOOLEAN
      OBVIOUS
  <2> QED BY <1>2, <2>1, <2>2, <2>3 DEF TypeOK
<1>7. MainShape'
  <2>1. okToRun => okToRun'
    <3>1. w.atStart # -1 => v.atStart # -1
        BY <1>3, <1>4
    <3>2. Ntfn.pc = "post" => v.atStart # -1
        BY <1>3, <1>4 DEF Inv, Shape, NtfnShape
    <3> QED BY <3>1, <3>2, <1>5
  <2> QED BY <2>1, <1>2 DEF Inv, Shape, MainShape
<1>8. BusNumbers'
    BY <1>2 DEF Inv, Shape, BusNumbers, Registering
<1>9. PinsMatch(v)' /\ SpisMatch(v)'
    BY <1>2, <1>3, LinesStay DEF Done
<1>10. RegistryMatches(v)'
    BY <1>3 DEF Done, RegistryMatches
<1>11. BootMatches(v)'
  <2>1. v.atStart <= v.devs
      BY <1>3, <1>4, <1>5
  <2> QED BY <2>1, <1>2, Zenon DEF BootMatches
<1> QED BY <1>2, <1>6, <1>7, <1>8, <1>9, <1>10, <1>11 DEF Inv, Shape, Done

(* What a region's event and its state mean. *)
LEMMA RegionFacts ==
    ASSUME Inv, Ntfn.pc = "process", Ntfn.ev.op \in {"assign", "free"},
           NEW w \in WantType, Done(w), NEW v, v = Wanted(w, Ntfn.ev), UNCHANGED boot
    PROVE  /\ mmio = w.mmio /\ reserved = w.mmio
           /\ v.mmio = IF Ntfn.ev.op = "assign" THEN w.mmio \cup {Ntfn.ev.region}
                       ELSE w.mmio \ {Ntfn.ev.region}
           /\ okToRun' = (v.atStart # -1) /\ started' \in 0 .. 1 /\ (started' > 0 => okToRun')
<1>1. Ntfn.ev \in Events
    BY DEF Inv, Shape, NtfnShape, Busy
<1>2. mmio = w.mmio /\ reserved = w.mmio
    BY DEF Done, RegistryMatches
<1>3. /\ v.mmio = IF Ntfn.ev.op = "assign" THEN w.mmio \cup {Ntfn.ev.region}
                  ELSE w.mmio \ {Ntfn.ev.region}
      /\ v.atStart = w.atStart
    BY <1>1, WantedFields
<1>4. okToRun = (w.atStart # -1) /\ (started > 0 => okToRun)
  <2>1. okToRun = (w.atStart # -1 \/ FALSE) /\ (started > 0 => w.atStart # -1)
      BY DEF Done, BootMatches
  <2> QED BY <2>1
<1>5. okToRun' = okToRun /\ started' = started
    BY DEF boot
<1>6. started' \in 0 .. 1
    BY <1>5, StartedType
<1> QED BY <1>2, <1>3, <1>4, <1>5, <1>6

LEMMA MmioResAssignInv ==
    ASSUME Inv, mmio_res_assign("ntfn")
    PROVE  Inv'
<1> USE DEF mmio_res_assign
<1>1. PICK w \in WantType : Done(w)
    BY DEF Inv
<1>2. PICK v : v = Wanted(w, Ntfn.ev)
    OBVIOUS
<1>3. Ntfn.pc = "process" /\ Ntfn.ev.op = "assign"
    BY DEF Processing, At, Event, Ntfn
<1>4. /\ mmio = w.mmio /\ reserved = w.mmio /\ v.mmio = w.mmio \cup {Ntfn.ev.region}
      /\ okToRun' = (v.atStart # -1) /\ started' \in 0 .. 1 /\ (started' > 0 => okToRun')
    BY <1>1, <1>2, <1>3, RegionFacts
<1>5. mmio' = v.mmio /\ reserved' = v.mmio
    BY <1>4 DEF Event, Ntfn
<1> QED BY <1>1, <1>2, <1>3, <1>4, <1>5, OtherHandled

LEMMA MmioResFreeInv ==
    ASSUME Inv, mmio_res_free("ntfn")
    PROVE  Inv'
<1> USE DEF mmio_res_free
<1>1. PICK w \in WantType : Done(w)
    BY DEF Inv
<1>2. PICK v : v = Wanted(w, Ntfn.ev)
    OBVIOUS
<1>3. Ntfn.pc = "process" /\ Ntfn.ev.op = "free"
    BY DEF Processing, At, Event, Ntfn
<1>4. /\ mmio = w.mmio /\ reserved = w.mmio /\ v.mmio = w.mmio \ {Ntfn.ev.region}
      /\ okToRun' = (v.atStart # -1) /\ started' \in 0 .. 1 /\ (started' > 0 => okToRun')
    BY <1>1, <1>2, <1>3, RegionFacts
<1>5. mmio' = v.mmio /\ reserved' = v.mmio
    BY <1>4 DEF Event, Ntfn
<1> QED BY <1>1, <1>2, <1>3, <1>4, <1>5, OtherHandled

LEMMA HandleControlInv ==
    ASSUME Inv, handle_control("ntfn")
    PROVE  Inv'
<1> USE DEF handle_control
<1>1. PICK w \in WantType : Done(w)
    BY DEF Inv
<1>2. Ntfn.pc = "process" /\ Ntfn.ev.op = "start" /\ Busy /\ Ntfn.ev \in Events
    BY DEF Processing, At, Event, Ntfn, Busy, Inv, Shape, NtfnShape
<1>3. /\ runner' \in [Runners -> RunnerState] /\ Main' = Main
      /\ Ntfn'.pc = "post" /\ Ntfn'.ev = Ntfn.ev
    BY NtfnGoto DEF Inv, Shape, TypeOK, RunnerPcs
<1>4. /\ pci_devs' = pci_devs /\ pci_dev_count' = pci_dev_count
      /\ devs' = devs /\ Known' = Known /\ TableShape'
    BY <1>2, <1>3, TableStays DEF Inv, Shape, registry
<1> USE <1>4
<1>5. TypeOK'
    BY <1>3 DEF Inv, Shape, TypeOK, QueueTypes, DeviceTypes, ReservationTypes, registry
<1>6. MainShape'
    BY <1>3 DEF Inv, Shape, MainShape
<1>7. NtfnShape' /\ Busy'
    BY <1>2, <1>3 DEF NtfnShape, Busy, Registering
<1>8. BusNumbers'
    BY <1>3 DEF Inv, Shape, BusNumbers, Registering, registry
<1>9. PinsMatch(w)' /\ SpisMatch(w)'
    BY <1>1, <1>2, <1>3, LinesStay DEF Done, registry
<1>10. RegistryMatches(w)' /\ Behind(w)'
    BY <1>1, <1>2, <1>3, <1>7 DEF Done, RegistryMatches, Behind, registry
<1>11. BootMatches(w)'
    BY <1>1, <1>2, <1>3 DEF Done, BootMatches
<1> QED BY <1>5, <1>6, <1>7, <1>8, <1>9, <1>10, <1>11 DEF Inv, Shape, Done

LEMMA SyncSemPostInv ==
    ASSUME Inv, sync_sem_post("ntfn")
    PROVE  Inv'
<1> USE DEF sync_sem_post
<1>1. PICK w \in WantType : Done(w)
    BY DEF Inv
<1>2. PICK v : v = Wanted(w, Ntfn.ev)
    OBVIOUS
<1>3. Ntfn.pc = "post" /\ Ntfn.ev.op = "start" /\ Busy /\ Ntfn.ev \in Events
    BY DEF At, Ntfn, Busy, Inv, Shape, NtfnShape
<1>4. v.mmio = w.mmio /\ v.atStart = w.devs /\ w.devs \in Nat
    BY <1>2, <1>3, WantedFields DEF WantType
<1>5. mmio' = v.mmio /\ reserved' = v.mmio
    BY <1>1, <1>4 DEF Done, RegistryMatches, registry
<1>6. okToRun /\ ~(started > 0)
    BY <1>1, <1>3 DEF Done, BootMatches
<1>7. started' \in 0 .. 1
  <2>1. started \in 0 .. 1 /\ ~(started > 0)
      BY <1>6, StartedType
  <2>2. started = 0
      BY <2>1
  <2> QED BY <2>2
<1>8. okToRun' = (v.atStart # -1) /\ okToRun'
  <2>1. v.atStart # -1
      BY <1>4
  <2>2. okToRun' \in BOOLEAN /\ okToRun'
      BY <1>6 DEF Inv, Shape, TypeOK
  <2> QED BY <2>1, <2>2
<1> QED BY <1>1, <1>2, <1>3, <1>5, <1>7, <1>8, OtherHandled DEF registry

-----------------------------------------------------------------------------
(* The invariant is inductive. *)
LEMMA RpcProcessInv ==
    ASSUME Inv, rpc_process("ntfn")
    PROVE  Inv'
<1>1. CASE NoSuchDevice("ntfn") \/ BusFull("ntfn") \/ BadRegion("ntfn") \/ UnknownMessage("ntfn")
  <2>1. Failed
      BY <1>1 DEF NoSuchDevice, BusFull, BadRegion, UnknownMessage
  <2> QED BY <2>1, FailedInv
<1>2. CASE handle_msi("ntfn") \/ handle_pci_intx("ntfn") \/ Lower("ntfn") \/ emudev_irq_set("ntfn")
    BY <1>2, HandleMsiInv, HandlePciIntxInv, LowerInv, EmudevIrqSetInv
<1>3. CASE \/ vmm_pci_add_entry("ntfn") \/ LoadDevCount("ntfn")
           \/ StoreDevCount("ntfn") \/ StoreDev("ntfn")
    BY <1>3, AddEntryInv, LoadDevCountInv, StoreDevCountInv, StoreDevInv
<1>4. CASE IrqIsNew("ntfn") \/ irq_res_assign("ntfn") \/ mmio_res_assign("ntfn")
           \/ mmio_res_free("ntfn")
    BY <1>4, IrqIsNewInv, IrqResAssignInv, MmioResAssignInv, MmioResFreeInv
<1>5. CASE handle_control("ntfn") \/ sync_sem_post("ntfn")
    BY <1>5, HandleControlInv, SyncSemPostInv
<1> QED BY <1>1, <1>2, <1>3, <1>4, <1>5 DEF rpc_process

LEMMA RpcRunInv ==
    ASSUME Inv, NEW r \in Runners, rpc_run(r)
    PROVE  Inv'
<1>1. CASE NoMoreEvents(r)
    BY <1>1, NoMoreEventsInv
<1>2. CASE rpcmsg_event_rx(r) \/ rpc_process(r)
  <2>1. r = "ntfn"
      BY <1>2, MainIdle DEF Runners
  <2> QED BY <2>1, <1>2, EventRxInv, RpcProcessInv
<1> QED BY <1>1, <1>2 DEF rpc_run

LEMMA NextInv ==
    ASSUME Inv, LateDevice, [Next]_vars
    PROVE  Inv'
<1>1. CASE \E e \in Events : device_event_tx(e)
    BY <1>1, DeviceEventTxInv DEF device_event_tx, LateDevice
<1>2. CASE vso_doorbell
    BY <1>2, DoorbellInv
<1>3. CASE ntfn_callback
    BY <1>3, NtfnCallbackInv
<1>4. CASE \E r \in Runners : rpc_run(r)
    BY <1>4, RpcRunInv
<1>5. CASE OkToRun
    BY <1>5, OkToRunInv
<1>6. CASE sync_sem_wait
    BY <1>6, SyncSemWaitInv
<1>7. CASE \E data \in GuestData : v2m_write_fault(data)
    BY <1>7, WriteFaultInv
<1>8. CASE v2m_fault_handler
    BY <1>8, FaultHandlerInv
<1>9. CASE Halted \/ UNCHANGED vars
    BY <1>9, StutterInv DEF Halted
<1> QED BY <1>1, <1>2, <1>3, <1>4, <1>5, <1>6, <1>7, <1>8, <1>9 DEF Next

LEMMA Invariance ==
    ASSUME LateDevice
    PROVE  Spec => []Inv
<1>1. Init => Inv
    BY InitInv
<1>2. Inv /\ [Next]_vars => Inv'
    BY NextInv
<1> QED BY <1>1, <1>2, PTL DEF Spec

-----------------------------------------------------------------------------
(* What follows from it.                                                   *)

(* With nothing in the queue and nothing being handled, what is in place   *)
(* is all that was asked for.                                              *)
LEMMA QuietIsDone ==
    ASSUME Inv, Quiet
    PROVE  Done(want) /\ Ntfn.pc = "wait" /\ Main.pc # "pulsing" /\ want \in WantType
<1>1. PICK w \in WantType : Done(w)
    BY DEF Inv
<1>2. events = <<>> /\ Ntfn.pc = "wait" /\ Main.pc # "pulsing" /\ ~Busy
    BY DEF Quiet, Ntfn, Main, Busy
<1>3. Path(<<>>, w, want)
    BY <1>1, <1>2 DEF Done, Behind
<1>4. w = want
    BY <1>3, PathEmpty
<1> QED BY <1>1, <1>2, <1>4

(* An entry that counts is not NULL. *)
LEMMA EntriesAreSet ==
    ASSUME TableShape
    PROVE  \A i \in 1 .. Known : pci_devs[i] # NoDev
<1>1. NoDev \notin [slot : Slots, guest : Nat]
    BY EventsAssumption DEF NoDev
<1> QED BY <1>1 DEF TableShape

(* The variables have their types: pci_dev_count never leaves pci_devs, no *)
(* interrupt is registered twice and the semaphore is posted once.         *)
THEOREM EventTypes ==
    ASSUME LateDevice
    PROVE  Spec => []TypeOK
<1>1. Inv => TypeOK
    BY DEF Inv, Shape
<1> QED BY <1>1, Invariance, PTL

(* Once its events are handled, the PCI devices and the MMIO regions of    *)
(* the VM are the ones the device has asked for: pcidev_register,          *)
(* mmio_res_assign and mmio_res_free lose none, whatever was sent.         *)
THEOREM RegistryIsAsked ==
    ASSUME LateDevice
    PROVE  Spec => []RegistryFollows
<1>1. ASSUME Inv
      PROVE  RegistryFollows
  <2> SUFFICES ASSUME Quiet
               PROVE  /\ pci_dev_count = want.devs
                      /\ \A i, j \in 1 .. pci_dev_count :
                            /\ pci_devs[i] # NoDev
                            /\ pci_devs[i].guest = pci_devs[j].guest => i = j
                      /\ mmio = want.mmio /\ reserved = want.mmio
      BY DEF RegistryFollows
  <2>1. RegistryMatches(want) /\ Ntfn.pc = "wait"
      BY <1>1, QuietIsDone DEF Done
  <2>2. Known = pci_dev_count
      BY <2>1 DEF Known
  <2>3. /\ DOMAIN devs = 1 .. pci_dev_count
        /\ \A i \in 1 .. pci_dev_count : devs[i] = pci_devs[i] /\ pci_devs[i] # NoDev
      BY <1>1, <2>2, TableFacts, EntriesAreSet DEF Inv, Shape
  <2>4. \A i, j \in DOMAIN devs : devs[i].guest = devs[j].guest => i = j
      BY <1>1 DEF Inv, Shape, BusNumbers
  <2> QED BY <2>1, <2>2, <2>3, <2>4 DEF RegistryMatches
<1> QED BY <1>1, Invariance, PTL

(* ok_to_run is set with the event START_VM, and by then the events before *)
(* it have been handled.                                                   *)
LEMMA BootedHasDevices ==
    ASSUME Inv, Main.pc = "booted"
    PROVE  want.atStart # -1 /\ want.atStart \in Nat /\ want.atStart <= Known
<1>1. PICK w \in WantType : Done(w)
    BY DEF Inv
<1>2. okToRun
    BY DEF Inv, Shape, MainShape
<1>3. Known = w.devs /\ w.devs \in Nat /\ w.atStart \in Nat \cup {-1}
    BY <1>1 DEF Done, RegistryMatches, WantType
<1>4. CASE w.atStart # -1
    BY <1>4, <1>1, <1>3 DEF Done, BootMatches
<1>5. CASE w.atStart = -1
  <2>1. Ntfn.pc = "post"
      BY <1>5, <1>1, <1>2 DEF Done, BootMatches
  <2>2. Busy /\ Ntfn.ev.op = "start" /\ Ntfn.ev \in Events
      BY <2>1 DEF Busy, Inv, Shape, NtfnShape
  <2>3. PICK v : v = Wanted(w, Ntfn.ev)
      OBVIOUS
  <2>4. Path(events, v, want)
      BY <2>2, <2>3, <1>1 DEF Done, Behind
  <2>5. v.atStart \in {-1, want.atStart}
      BY <2>4, PathEnds DEF Inv, Shape, TypeOK, QueueTypes
  <2>6. v.atStart = w.devs
      BY <2>2, <2>3, WantedFields
  <2> QED BY <2>5, <2>6, <1>3
<1> QED BY <1>4, <1>5

(* An entry of the table is counted. *)
LEMMA KnownAreCounted ==
    ASSUME Shape
    PROVE  Known \in Nat /\ pci_dev_count \in Nat /\ Known <= pci_dev_count
<1>1. pci_dev_count \in 0 .. NumAvail /\ Known \in 0 .. NumAvail
    BY DEF Shape, TypeOK, DeviceTypes, TableShape
<1> QED BY <1>1, EventsAssumption DEF Known

(* With all the devices that were sent in the table, none is being         *)
(* registered.                                                             *)
LEMMA NoneRegistering ==
    ASSUME Inv, want.devs <= Known
    PROVE  ~Registering
<1> SUFFICES ASSUME Registering
             PROVE  FALSE
    OBVIOUS
<1>1. PICK w \in WantType : Done(w)
    BY DEF Inv
<1>2. Busy /\ Ntfn.ev \in Events /\ Ntfn.ev.op = "register"
    BY DEF Registering, Busy, Inv, Shape, NtfnShape
<1>3. PICK v : v = Wanted(w, Ntfn.ev)
    OBVIOUS
<1>4. v.devs = Known + 1 /\ Known \in Nat
    BY <1>1, <1>2, <1>3, WantedFields DEF Done, RegistryMatches, WantType
<1>5. Path(events, v, want)
    BY <1>1, <1>2, <1>3 DEF Done, Behind
<1>6. v.devs <= want.devs /\ want.devs \in Nat
    BY <1>5, PathEnds DEF Inv, Shape, TypeOK, QueueTypes, WantType
<1> QED BY <1>4, <1>6

(* The main thread leaves io_proxy_wait_for_backend only after START_VM,   *)
(* and every device registered before it is then in pci_devs.              *)
THEOREM BootSeesDevices ==
    ASSUME LateDevice
    PROVE  Spec => []DevicesBeforeBoot
<1>1. ASSUME Inv
      PROVE  DevicesBeforeBoot
  <2>1. Shape /\ TableShape
      BY <1>1 DEF Inv, Shape
  <2> SUFFICES ASSUME Main.pc = "booted"
               PROVE  /\ want.atStart # -1 /\ want.atStart <= pci_dev_count
                      /\ \A i \in 1 .. want.atStart : pci_devs[i] # NoDev
      BY DEF DevicesBeforeBoot, Main
  <2>2. want.atStart # -1 /\ want.atStart \in Nat /\ want.atStart <= Known
      BY <1>1, BootedHasDevices
  <2>3. Known \in Nat /\ pci_dev_count \in Nat /\ Known <= pci_dev_count
      BY <2>1, KnownAreCounted
  <2>4. \A i \in 1 .. Known : pci_devs[i] # NoDev
      BY <2>1, EntriesAreSet
  <2> QED BY <2>2, <2>3, <2>4
<1> QED BY <1>1, Invariance, PTL

(* Once its events are handled, every line is where the device has put it: *)
(* an INTx pin that devices share is high exactly if one of them holds it  *)
(* (shared_irq_line_change), an MSI has been lowered again, and the guest  *)
(* pulsing the same MSI on the main thread changes nothing about it.       *)
THEOREM LinesAreAsked ==
    ASSUME LateDevice
    PROVE  Spec => []LinesFollow
<1>1. ASSUME Inv
      PROVE  LinesFollow
  <2> SUFFICES ASSUME Quiet
               PROVE  /\ \A p \in Pins : level[<<"intx", p>>] =
                            \E s \in Slots : want.level[s] /\ pci_map_irq(pcidev_find(s)) = p
                      /\ \A i \in MsiIrqs \cup EmuIrqs : level[<<"spi", i>>] = want.level[i]
      BY DEF LinesFollow
  <2>1. /\ PinsMatch(want) /\ SpisMatch(want) /\ Ntfn.pc = "wait" /\ Main.pc # "pulsing"
        /\ want.level \in [Irqs -> BOOLEAN]
      BY <1>1, QuietIsDone DEF Done, WantType
  <2>2. \A i \in Irqs : Raised(want, i) = want.level[i]
      BY <2>1 DEF Raised
  <2>3. level \in [Lines -> BOOLEAN]
      BY <1>1 DEF Inv, Shape, TypeOK, DeviceTypes
  <2>4. ASSUME NEW i \in MsiIrqs \cup EmuIrqs
        PROVE  level[<<"spi", i>>] = want.level[i]
    <3>1. i \in Irqs /\ level[<<"spi", i>>] \in BOOLEAN /\ want.level[i] \in BOOLEAN
        BY <2>1, <2>3, <2>4, SpiLines
    <3>2. CASE i \in EmuIrqs
        BY <3>1, <3>2, <2>1, <2>2 DEF SpisMatch
    <3>3. CASE i \in MsiIrqs
        BY <3>1, <3>3, <2>1 DEF SpisMatch
    <3> QED BY <3>2, <3>3
  <2>5. ASSUME NEW p \in Pins
        PROVE  level[<<"intx", p>>] =
                  \E s \in Slots : want.level[s] /\ pci_map_irq(pcidev_find(s)) = p
    <3>1. \A s \in Slots : s \in Up(want) <=> want.level[s]
        BY <2>2, SpiLines DEF Up
    <3>2. \A s \in Up(want) : pci_map_irq(pcidev_find(s)) = FindIn(devs, s).guest % NumPins
      <4>1. \A s \in Up(want) : FoundIn(devs, s) # {}
          BY <2>1 DEF PinsMatch, Wired
      <4>2. TableShape
          BY <1>1 DEF Inv, Shape
      <4> QED BY <4>1, <4>2, <2>1, FindsIn DEF pci_map_irq
    <3>3. /\ level[<<"intx", p>>] = (sources[p] # {})
          /\ sources[p] = {FindIn(devs, s).guest :
                             s \in {t \in Up(want) : FindIn(devs, t).guest % NumPins = p}}
        BY <2>1 DEF PinsMatch, Wired
    <3>4. sources[p] # {} <=> \E s \in Up(want) : FindIn(devs, s).guest % NumPins = p
        BY <3>3
    <3>5. Up(want) \subseteq Slots
        BY DEF Up
    <3>6. sources[p] # {} <=>
             \E s \in Slots : want.level[s] /\ pci_map_irq(pcidev_find(s)) = p
        BY <3>1, <3>2, <3>4, <3>5
    <3> QED BY <3>3, <3>6
  <2> QED BY <2>4, <2>5
<1> QED BY <1>1, Invariance, PTL
=============================================================================
