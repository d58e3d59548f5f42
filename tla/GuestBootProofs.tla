-------------------------- MODULE GuestBootProofs --------------------------
(***************************************************************************)
(* Proofs about GuestBoot.  What the modules of the VMM leave in the       *)
(* device tree and in the guest's memory needs no assumption about the     *)
(* backend: the inductive invariant BootInv is about the main thread only. *)
(* That the tree has every device rests on the invariant of                *)
(* DeviceEventsProofs, for a backend that keeps quiet until the main       *)
(* thread waits.                                                           *)
(***************************************************************************)
EXTENDS GuestBoot, DeviceEventsProofs, FiniteSetTheorems

Traces == ToSet(TraceRegions)

(* The reserved-memory nodes the VMM makes. *)
Nodes == [prefix : {"swiotlb"} \cup Traces, base : {"ram", "pool"} \cup Traces,
          phandle : 0 .. NoPhandle]

IsTree(t) ==
    /\ t = [reserved |-> t.reserved, pci |-> t.pci]
    /\ t.reserved \subseteq Nodes
    /\ \E S : t.pci \in Seq(S)

(* The phandle p is new to the tree t. *)
NewPhandle(t, p) ==
    p \in config.phandle + 1 .. NoPhandle - 1 /\ \A n \in t.reserved : n.phandle < p

Node(prefix, base, p) == [prefix |-> prefix, base |-> base, phandle |-> p]

-----------------------------------------------------------------------------
(* libfdt's operations on the tree.                                        *)

(* Numbers that are bounded have a greatest one. *)
LEMMA Greatest ==
    ASSUME NEW T, NEW b \in Nat, T \subseteq 0 .. b, T # {}
    PROVE  \E p \in T : \A q \in T : q <= p
<1> DEFINE D == {b - q : q \in T}
<1>1. D \subseteq Nat /\ D # {}
  <2>1. \A q \in T : b - q \in Nat
      OBVIOUS
  <2> QED BY <2>1
<1>2. PICK d \in D : \A e \in D : ~(<<e, d>> \in OpToRel(<, Nat))
    BY <1>1, NatLessThanWellFounded, WFMin, Zenon
<1>3. \A e \in D : e < d => <<e, d>> \in OpToRel(<, Nat)
    BY <1>1, Zenon DEF OpToRel
<1>4. \A e \in D : ~(e < d)
    BY <1>2, <1>3, Zenon
<1>5. PICK p \in T : d = b - p
    OBVIOUS
<1>6. ASSUME NEW q \in T
      PROVE  q <= p
  <2>1. ~(b - q < b - p)
      BY <1>4, <1>5
  <2> QED BY <2>1
<1> QED BY <1>6

(* fdt_get_max_phandle is not exceeded by any phandle of the tree. *)
LEMMA MaxPhandle ==
    ASSUME NEW t, IsTree(t), config.phandle \in 0 .. NoPhandle
    PROVE  /\ fdt_get_max_phandle(t) \in 0 .. NoPhandle
           /\ config.phandle <= fdt_get_max_phandle(t)
           /\ \A n \in t.reserved : n.phandle <= fdt_get_max_phandle(t)
<1> DEFINE T == {config.phandle} \cup {n.phandle : n \in t.reserved}
<1>1. \A n \in t.reserved : n.phandle \in 0 .. NoPhandle
    BY DEF IsTree, Nodes
<1>2. T \subseteq 0 .. NoPhandle /\ T # {} /\ NoPhandle \in Nat
    BY <1>1, BootAssumption
<1>3. PICK p \in T : \A q \in T : q <= p
    BY <1>2, Greatest
<1>4. \A n \in t.reserved : config.phandle <= p /\ n.phandle <= p
    BY <1>3
<1> DEFINE m == fdt_get_max_phandle(t)
<1>5. m \in T /\ \A n \in t.reserved : config.phandle <= m /\ n.phandle <= m
  <2>1. \E q \in T : \A n \in t.reserved : config.phandle <= q /\ n.phandle <= q
      BY <1>4
  <2>2. m = CHOOSE q \in T : \A n \in t.reserved : config.phandle <= q /\ n.phandle <= q
      BY DEF fdt_get_max_phandle
  <2> QED BY <2>1, <2>2, Zenon
<1> HIDE DEF m
<1>6. config.phandle <= m
    BY <1>5, <1>2
<1>7. m \in 0 .. NoPhandle
    BY <1>5, <1>2
<1> QED BY <1>5, <1>6, <1>7 DEF m

(* fdt_generate_reserved_node fails and leaves the tree as it was, or adds *)
(* one node, whose phandle, if it has one, is new.                         *)
LEMMA ReservedNode ==
    ASSUME NEW t, IsTree(t), config.phandle \in 0 .. NoPhandle,
           NEW prefix \in {"swiotlb"} \cup Traces, NEW base \in {"ram", "pool"} \cup Traces,
           NEW r \in fdt_generate_reserved_node(t, prefix, base)
    PROVE  /\ IsTree(r.tree) /\ r.tree.pci = t.pci
           /\ \/ r.tree = t /\ ~r.ok
              \/ \E p \in 0 .. NoPhandle :
                    /\ r.tree.reserved = t.reserved \cup {Node(prefix, base, p)}
                    /\ p = 0 => ~r.ok
                    /\ p # 0 => NewPhandle(t, p)
<1> DEFINE With(p) == [t EXCEPT !.reserved = @ \cup {[prefix |-> prefix, base |-> base, phandle |-> p]}]
           m == fdt_get_max_phandle(t)
           phandle == fdt_assign_phandle(m)
<1>1. /\ m \in 0 .. NoPhandle /\ config.phandle <= m /\ \A n \in t.reserved : n.phandle <= m
    BY MaxPhandle
<1> HIDE DEF m
<1>2. /\ phandle \in 0 .. NoPhandle
      /\ phandle # 0 => phandle = m + 1 /\ phandle < NoPhandle
    BY <1>1, BootAssumption DEF fdt_assign_phandle
<1> HIDE DEF phandle
<1>3. phandle # 0 => NewPhandle(t, phandle)
  <2>1. \A n \in t.reserved : n.phandle \in 0 .. NoPhandle
      BY DEF IsTree, Nodes
  <2>2. phandle # 0 => \A n \in t.reserved : n.phandle < phandle
      BY <2>1, <1>1, <1>2
  <2>3. phandle # 0 => phandle \in config.phandle + 1 .. NoPhandle - 1
      BY <1>1, <1>2, BootAssumption
  <2> QED BY <2>2, <2>3 DEF NewPhandle
<1>4. ASSUME NEW p \in 0 .. NoPhandle
      PROVE  /\ IsTree(With(p)) /\ With(p).pci = t.pci
             /\ With(p).reserved = t.reserved \cup {Node(prefix, base, p)}
  <2>1. With(p) = [reserved |-> t.reserved \cup {Node(prefix, base, p)}, pci |-> t.pci]
    <3>1. PICK R, q : t = [reserved |-> R, pci |-> q]
        BY DEF IsTree
    <3> QED BY <3>1 DEF Node
  <2>2. Node(prefix, base, p) \in Nodes
      BY DEF Node, Nodes
  <2> QED BY <2>1, <2>2 DEF IsTree
<1>5. \/ r = [tree |-> t, ok |-> FALSE]
      \/ r = [tree |-> With(0), ok |-> FALSE]
      \/ phandle # 0 /\ r \in [tree : {With(phandle)}, ok : BOOLEAN]
    BY DEF fdt_generate_reserved_node, phandle, m
<1> HIDE DEF With
<1>6. CASE r = [tree |-> t, ok |-> FALSE]
    BY <1>6
<1>7. CASE r = [tree |-> With(0), ok |-> FALSE]
  <2>1. 0 \in 0 .. NoPhandle
      BY BootAssumption
  <2>2. r.tree = With(0) /\ ~r.ok
      BY <1>7
  <2> QED BY <2>1, <2>2, <1>4
<1>8. CASE phandle # 0 /\ r \in [tree : {With(phandle)}, ok : BOOLEAN]
  <2>1. r.tree = With(phandle)
      BY <1>8
  <2> QED BY <2>1, <1>2, <1>3, <1>4, <1>8
<1> QED BY <1>5, <1>6, <1>7, <1>8

(* The device of a node, and its memory-region. *)
Device(dev, p) == [dev |-> dev, region |-> p]

(* fdt_generate_pci_node and fdt_assign_reserved_memory leave the tree as  *)
(* it was or add one node, with the pool as its memory-region if there is  *)
(* one to be found and all went well.                                      *)
LEMMA PciDevice ==
    ASSUME NEW t, IsTree(t), NEW dev, NEW r \in GeneratePciDevice(t, dev)
    PROVE  /\ IsTree(r.tree) /\ r.tree.reserved = t.reserved
           /\ \/ ~r.ok /\ r.tree.pci = t.pci
              \/ \E p \in {0} \cup fdt_reserved_memory_phandle(t) :
                    /\ r.tree.pci = Append(t.pci, Device(dev, p))
                    /\ r.ok /\ fdt_reserved_memory_phandle(t) # {} =>
                          p \in fdt_reserved_memory_phandle(t)
<1> DEFINE With == [t EXCEPT !.pci = Append(@, [dev |-> dev, region |-> 0])]
           pools == fdt_reserved_memory_phandle(t)
<1>1. PICK R, q, S : t = [reserved |-> R, pci |-> q] /\ q \in Seq(S) /\ R \subseteq Nodes
  <2>1. PICK R, q : t = [reserved |-> R, pci |-> q] /\ R = t.reserved /\ q = t.pci
      BY DEF IsTree
  <2> QED BY <2>1 DEF IsTree
<1>2. t.reserved = R /\ t.pci = q
    BY <1>1
<1>3. With = [reserved |-> R, pci |-> Append(q, Device(dev, 0))]
    BY <1>1 DEF Device
<1>4. \A p : Append(q, Device(dev, p)) \in Seq(S \cup {Device(dev, p)})
  <2>1. q \in Seq(S)
      BY <1>1
  <2> TAKE p
  <2>2. q \in Seq(S \cup {Device(dev, p)})
      BY <2>1, SeqMonotonic
  <2> QED BY <2>2, AppendProperties
<1>5. \A p : IsTree([reserved |-> R, pci |-> Append(q, Device(dev, p))])
    BY <1>1, <1>4 DEF IsTree
<1>6. fdt_reserved_memory_phandle(With) = pools
    BY <1>2, <1>3 DEF fdt_reserved_memory_phandle
<1>7. PICK s \in fdt_generate_pci_node(t, dev) :
          r \in IF s.ok THEN fdt_assign_reserved_memory(s.tree) ELSE {s}
    BY DEF GeneratePciDevice
<1>8. s = [tree |-> t, ok |-> FALSE] \/ s \in [tree : {With}, ok : BOOLEAN]
    BY <1>7 DEF fdt_generate_pci_node
<1> HIDE DEF With, pools
<1>9. CASE ~s.ok
  <2>1. r = s
      BY <1>7, <1>9
  <2>2. CASE s = [tree |-> t, ok |-> FALSE]
      BY <2>1, <2>2
  <2>3. CASE s \in [tree : {With}, ok : BOOLEAN]
    <3>1. r.tree = With /\ ~r.ok
        BY <2>1, <2>3, <1>9
    <3> QED BY <3>1, <1>2, <1>3, <1>5
  <2> QED BY <2>2, <2>3, <1>8
<1>10. CASE s.ok
  <2>1. s.tree = With /\ r \in fdt_assign_reserved_memory(With)
      BY <1>7, <1>8, <1>10
  <2>2. CASE pools = {}
    <3>1. r = [tree |-> With, ok |-> TRUE]
        BY <2>1, <2>2, <1>6 DEF fdt_assign_reserved_memory
    <3>2. r.tree = With
        BY <3>1
    <3> QED BY <3>2, <2>2, <1>2, <1>3, <1>5 DEF pools
  <2>3. CASE pools # {}
    <3>1. \/ r = [tree |-> With, ok |-> FALSE]
          \/ \E p \in pools :
                r = [tree |-> [With EXCEPT !.pci[Len(With.pci)].region = p], ok |-> TRUE]
        BY <2>1, <2>3, <1>6 DEF fdt_assign_reserved_memory
    <3>2. CASE r = [tree |-> With, ok |-> FALSE]
      <4>1. r.tree = With /\ ~r.ok
          BY <3>2
      <4> QED BY <4>1, <1>2, <1>3, <1>5
    <3>3. CASE \E p \in pools :
                r = [tree |-> [With EXCEPT !.pci[Len(With.pci)].region = p], ok |-> TRUE]
      <4>1. PICK p \in pools :
                r = [tree |-> [With EXCEPT !.pci[Len(With.pci)].region = p], ok |-> TRUE]
          BY <3>3
      <4>2. r.tree = [With EXCEPT !.pci[Len(With.pci)].region = p]
          BY <4>1
      <4> DEFINE a == Append(q, Device(dev, 0))
                 b == Append(q, Device(dev, p))
                 n == Len(a)
      <4>3. [a EXCEPT ![n].region = p] = b
        <5>1. /\ Len(q) \in Nat /\ n = Len(q) + 1 /\ Len(b) = n
              /\ a[n] = Device(dev, 0) /\ b[n] = Device(dev, p)
              /\ \A i \in 1 .. Len(q) : a[i] = q[i] /\ b[i] = q[i]
              /\ a = [i \in 1 .. n |-> a[i]] /\ b = [i \in 1 .. n |-> b[i]]
          <6>1. PICK T : T = S \cup {Device(dev, 0), Device(dev, p)}
              OBVIOUS
          <6>2. q \in Seq(T) /\ Device(dev, 0) \in T /\ Device(dev, p) \in T
              BY <1>1, <6>1, SeqMonotonic
          <6>3. PICK c, d \in T : c = Device(dev, 0) /\ d = Device(dev, p)
              BY <6>2
          <6>4. /\ Len(q) \in Nat /\ a \in Seq(T) /\ b \in Seq(T)
                /\ Len(a) = Len(q) + 1 /\ Len(b) = Len(q) + 1
                /\ a[Len(q) + 1] = c /\ b[Len(q) + 1] = d
                /\ \A i \in 1 .. Len(q) : a[i] = q[i] /\ b[i] = q[i]
            <7>1. a = Append(q, c) /\ b = Append(q, d)
                BY <6>3
            <7> HIDE DEF a, b
            <7> QED BY <7>1, <6>2, AppendProperties, LenProperties
          <6> HIDE DEF a, b
          <6>5. a = [i \in 1 .. Len(a) |-> a[i]] /\ b = [i \in 1 .. Len(b) |-> b[i]]
              BY <6>4, LenProperties
          <6> QED BY <6>3, <6>4, <6>5
        <5> HIDE DEF a, b, n
        <5>2. [Device(dev, 0) EXCEPT !.region = p] = Device(dev, p)
            BY DEF Device
        <5>3. [a EXCEPT ![n].region = p] = [a EXCEPT ![n] = Device(dev, p)]
            BY <5>1, <5>2
        <5>4. \A i \in 1 .. n : [a EXCEPT ![n] = Device(dev, p)][i] = b[i]
          <6> SUFFICES ASSUME NEW i \in 1 .. n
                       PROVE  [a EXCEPT ![n] = Device(dev, p)][i] = b[i]
              OBVIOUS
          <6>1. CASE i = n
              BY <6>1, <5>1
          <6>2. CASE i # n
            <7>1. i \in 1 .. Len(q)
                BY <6>2, <5>1
            <7>2. a[i] = b[i] /\ i \in DOMAIN a
                BY <7>1, <5>1
            <7> QED BY <7>2, <6>2
          <6> QED BY <6>1, <6>2
        <5>5. [a EXCEPT ![n] = Device(dev, p)] = [i \in 1 .. n |-> [a EXCEPT ![n] = Device(dev, p)][i]]
            BY <5>1
        <5> QED BY <5>1, <5>3, <5>4, <5>5
      <4> HIDE DEF a, b, n
      <4>4. With = [reserved |-> R, pci |-> a] /\ Len(With.pci) = n
          BY <1>3 DEF a, n
      <4>5. r.tree = [reserved |-> R, pci |-> [a EXCEPT ![n].region = p]]
          BY <4>2, <4>4
      <4>6. r.tree = [reserved |-> R, pci |-> b]
          BY <4>3, <4>5
      <4>7. IsTree(r.tree)
          BY <4>6, <1>5 DEF b
      <4>8. r.tree.reserved = t.reserved /\ r.tree.pci = Append(t.pci, Device(dev, p))
          BY <4>6, <1>2 DEF b
      <4> QED BY <4>7, <4>8 DEF pools
    <3> QED BY <3>1, <3>2, <3>3
  <2> QED BY <2>2, <2>3
<1> QED BY <1>9, <1>10

-----------------------------------------------------------------------------
(* The inductive invariant of the main thread.                             *)

Labels == {"modules", "trace", "install", "configure", "pci", "device", "started"}

BootTypes ==
    /\ config \in Configs /\ todo \subseteq Modules
    /\ main \in [pc : Labels, i : Nat]
    /\ guestRam \in {"none", "ram"}
    /\ mapped \subseteq {"ram", "pool"} \cup Traces
    /\ IsTree(tree)
    /\ result \in {"none", "ok", "failed"}

(* guest_configure runs once, and on a bus that is up. *)
Order ==
    /\ main.pc = "trace" => "trace" \notin todo /\ main.i <= Len(TraceRegions)
    /\ main.pc \in {"install", "configure", "pci", "device"} =>
          guestRam = "ram" /\ "vpci_install" \notin todo
    /\ "vpci_install" \in todo => "guest_config" \in todo
    /\ "vpci_install" \notin todo => guestRam = "ram"
    /\ main.pc \in {"configure", "pci", "device"} => "guest_config" \notin todo /\ result = "none"
    /\ result # "none" => "guest_config" \notin todo /\ main.pc \in {"modules", "trace", "started"}
    /\ main.pc = "started" => todo = {}

(* What a module that has run has mapped. *)
Mapped ==
    /\ "init_ram" \notin todo => "ram" \in mapped /\ DataRegion \in mapped
    /\ "trace" \notin todo => config.traced \subseteq mapped

(* A reserved-memory node is for the pool or for a trace. *)
Bases ==
    \A n \in tree.reserved : \/ n.base = "pool" /\ ~config.poolIsRam
                             \/ n.base \in config.traced /\ "trace" \notin todo

(* From the moment fdt_generate_pci_config begins there is a pool to find, *)
(* and the devices that have a node found it.                              *)
Pool ==
    /\ main.pc \in {"pci", "device"} => config.poolIsRam \/ fdt_reserved_memory_phandle(tree) # {}
    /\ result # "failed" /\ ~config.poolIsRam =>
          \A n \in DOMAIN tree.pci : Node("swiotlb", "pool", tree.pci[n].region) \in tree.reserved

BootInv == BootTypes /\ Order /\ Mapped /\ Bases /\ Pool /\ PhandlesDistinct

LEMMA ConfigFacts ==
    ASSUME config \in Configs
    PROVE  /\ config.generate \in BOOLEAN /\ config.poolIsRam \in BOOLEAN
           /\ config.patient \in BOOLEAN /\ config.traced \subseteq Traces
           /\ config.phandle \in 0 .. NoPhandle
           /\ DataRegion \in {"ram", "pool"} /\ (DataRegion = "ram" <=> config.poolIsRam)
<1>1. config \in AllConfigs
    BY BootAssumption
<1> QED BY <1>1 DEF AllConfigs, DataRegion, Traces

LEMMA BootInitInv ==
    ASSUME BootInit
    PROVE  BootInv
<1> USE DEF BootInit
<1>1. tree.reserved = {} /\ tree.pci = <<>> /\ IsTree(tree)
    BY DEF IsTree
<1>2. BootTypes
  <2>1. main \in [pc : Labels, i : Nat]
      BY DEF Labels
  <2> QED BY <1>1, <2>1 DEF BootTypes
<1>3. Order /\ Mapped
    BY DEF Order, Mapped, Modules
<1>4. Bases /\ Pool /\ PhandlesDistinct
    BY <1>1 DEF Bases, Pool, PhandlesDistinct
<1> QED BY <1>2, <1>3, <1>4 DEF BootInv

(* Steps of the device and of the threads that take its events. *)
LEMMA BootUnchanged ==
    ASSUME BootInv, UNCHANGED bootVars
    PROVE  BootInv'
<1> USE DEF bootVars
<1>1. BootTypes' /\ Order' /\ Mapped' /\ Bases'
    BY DEF BootInv, BootTypes, Order, Mapped, Bases, DataRegion
<1>2. Pool' /\ PhandlesDistinct'
    BY DEF BootInv, Pool, PhandlesDistinct, fdt_reserved_memory_phandle, DataRegion
<1> QED BY <1>1, <1>2 DEF BootInv

(* Where the main thread goes. *)
LEMMA MainPc ==
    ASSUME NEW label \in Labels, main \in [pc : Labels, i : Nat], MainGoto(label)
    PROVE  main' \in [pc : Labels, i : Nat] /\ main'.pc = label /\ main'.i = 0
BY DEF MainGoto

(* A step that leaves the tree and the result alone. *)
LEMMA TreeStays ==
    ASSUME BootInv, UNCHANGED <<config, tree, result>>, todo' \subseteq todo,
           main'.pc \notin {"pci", "device"}
    PROVE  Bases' /\ Pool' /\ PhandlesDistinct' /\ IsTree(tree)'
<1>1. Bases'
    BY DEF BootInv, Bases
<1>2. Pool' /\ PhandlesDistinct'
    BY DEF BootInv, Pool, PhandlesDistinct
<1>3. IsTree(tree)'
    BY DEF BootInv, BootTypes
<1> QED BY <1>1, <1>2, <1>3

LEMMA InitRamInv ==
    ASSUME BootInv, init_ram_module
    PROVE  BootInv'
<1> USE DEF init_ram_module, Begin
<1>1. /\ config \in Configs /\ todo \subseteq Modules /\ main \in [pc : Labels, i : Nat]
      /\ mapped \subseteq {"ram", "pool"} \cup Traces
    BY DEF BootInv, BootTypes
<1>2. DataRegion \in {"ram", "pool"}
    BY <1>1, ConfigFacts
<1>3. mapped' = mapped \cup {DataRegion, "ram"}
    BY DEF ram_dataport_map_all, ram_dataport_setup
<1>4. /\ main.pc = "modules" /\ main' = main /\ DataRegion' = DataRegion
      /\ todo' = todo \ {"init_ram"}
    BY DEF MainAt, DataRegion
<1>5. Bases' /\ Pool' /\ PhandlesDistinct' /\ IsTree(tree)'
    BY <1>4, TreeStays
<1>6. BootTypes'
    BY <1>1, <1>2, <1>3, <1>4, <1>5 DEF BootInv, BootTypes
<1>7. Order'
    BY <1>4 DEF BootInv, Order
<1>8. Mapped'
    BY <1>3, <1>4 DEF BootInv, Mapped
<1> QED BY <1>5, <1>6, <1>7, <1>8 DEF BootInv

LEMMA TraceInitInv ==
    ASSUME BootInv, trace_init
    PROVE  BootInv'
<1> USE DEF trace_init, Begin
<1>1. /\ config \in Configs /\ todo \subseteq Modules /\ main \in [pc : Labels, i : Nat]
      /\ mapped \subseteq {"ram", "pool"} \cup Traces
    BY DEF BootInv, BootTypes
<1>2. config.traced \subseteq Traces
    BY <1>1, ConfigFacts
<1>3. mapped' = mapped \cup config.traced
    BY DEF trace_init_shared_mem
<1>4. /\ main.pc = "modules" /\ main' \in [pc : Labels, i : Nat] /\ main'.pc = "trace"
      /\ main'.i = 0 /\ DataRegion' = DataRegion /\ todo' = todo \ {"trace"}
    BY <1>1, MainPc DEF MainAt, DataRegion, Labels
<1>5. Bases' /\ Pool' /\ PhandlesDistinct' /\ IsTree(tree)'
    BY <1>4, TreeStays
<1>6. BootTypes'
    BY <1>1, <1>2, <1>3, <1>4, <1>5 DEF BootInv, BootTypes
<1>7. Order'
  <2>1. Len(TraceRegions) \in Nat
      BY BootAssumption, LenProperties
  <2>2. 0 <= Len(TraceRegions)
      BY <2>1
  <2> QED BY <1>4, <2>2 DEF BootInv, Order
<1>8. Mapped'
    BY <1>3, <1>4 DEF BootInv, Mapped
<1> QED BY <1>5, <1>6, <1>7, <1>8 DEF BootInv

(* A node is added to the reserved memory. *)
LEMMA PhandleAdded ==
    ASSUME BootInv, UNCHANGED config, NEW prefix, NEW base, NEW p \in 0 .. NoPhandle,
           p # 0 => NewPhandle(tree, p),
           tree'.reserved = tree.reserved \cup {Node(prefix, base, p)}
    PROVE  PhandlesDistinct'
<1> DEFINE x == Node(prefix, base, p)
<1>1. x.phandle = p
    BY DEF Node
<1>2. \A n \in tree.reserved : n.phandle \in 0 .. NoPhandle
    BY DEF BootInv, BootTypes, IsTree, Nodes
<1>3. /\ \A n \in tree.reserved : n.phandle # 0 =>
            /\ n.phandle \in config.phandle + 1 .. NoPhandle - 1
            /\ \A m \in tree.reserved : m.phandle = n.phandle => m = n
    BY DEF BootInv, PhandlesDistinct
<1>4. p # 0 => /\ p \in config.phandle + 1 .. NoPhandle - 1
               /\ \A n \in tree.reserved : n.phandle # p
    BY <1>2 DEF NewPhandle
<1> HIDE DEF x
<1>5. \A n \in tree'.reserved : n \in tree.reserved \/ n = x
    BY DEF x
<1> SUFFICES ASSUME NEW n \in tree'.reserved, n.phandle # 0
             PROVE  /\ n.phandle \in config.phandle + 1 .. NoPhandle - 1
                    /\ \A m \in tree'.reserved : m.phandle = n.phandle => m = n
    BY DEF PhandlesDistinct
<1>6. CASE n \in tree.reserved
    BY <1>1, <1>3, <1>4, <1>5, <1>6
<1>7. CASE n = x
    BY <1>1, <1>4, <1>5, <1>7
<1> QED BY <1>5, <1>6, <1>7

LEMMA TraceNodesInv ==
    ASSUME BootInv, fdt_generate_trace_nodes
    PROVE  BootInv'
<1> USE DEF fdt_generate_trace_nodes
<1>1. /\ config \in Configs /\ todo \subseteq Modules /\ main \in [pc : Labels, i : Nat]
      /\ IsTree(tree)
    BY DEF BootInv, BootTypes
<1>2. main.pc = "trace" /\ main.i <= Len(TraceRegions) /\ "trace" \notin todo
    BY DEF MainAt, BootInv, Order
<1>3. Len(TraceRegions) \in Nat /\ TraceRegions \in Seq(STRING)
    BY BootAssumption, LenProperties
<1>4. CASE main.i = Len(TraceRegions)
  <2>1. /\ main' \in [pc : Labels, i : Nat] /\ main'.pc = "modules"
        /\ DataRegion' = DataRegion /\ todo' = todo
      BY <1>1, <1>4, MainPc DEF DataRegion, Labels
  <2>2. Bases' /\ Pool' /\ PhandlesDistinct' /\ IsTree(tree)'
      BY <1>4, <2>1, TreeStays
  <2>3. BootTypes'
      BY <1>4, <2>1, <2>2 DEF BootInv, BootTypes
  <2>4. Order' /\ Mapped'
      BY <1>4, <1>2, <2>1 DEF BootInv, Order, Mapped
  <2> QED BY <2>2, <2>3, <2>4 DEF BootInv
<1>5. CASE main.i # Len(TraceRegions)
  <2>1. PICK reg : reg = TraceRegions[main.i + 1]
      OBVIOUS
  <2>2. reg \in Traces
    <3>1. main.i + 1 \in 1 .. Len(TraceRegions)
        BY <1>1, <1>2, <1>3, <1>5
    <3> QED BY <3>1, <2>1 DEF Traces, ToSet
  <2>3. PICK r \in TraceNode(reg) :
            IF r.ok
            THEN /\ tree' = r.tree
                 /\ main' = [main EXCEPT !.i = @ + 1]
                 /\ UNCHANGED <<vars, config, todo, guestRam, mapped, result>>
            ELSE Die
      BY <1>5, <2>1
  <2>4. CASE ~r.ok
    <3>1. UNCHANGED bootVars
        BY <2>3, <2>4 DEF Die
    <3> QED BY <3>1, BootUnchanged
  <2>5. CASE r.ok
    <3>1. /\ tree' = r.tree /\ UNCHANGED <<config, todo, guestRam, mapped, result>>
          /\ main' = [main EXCEPT !.i = @ + 1]
        BY <2>3, <2>5
    <3>2. main' \in [pc : Labels, i : Nat] /\ main'.pc = "trace" /\ main'.i = main.i + 1
        BY <3>1, <1>1, <1>2
    <3>3. main'.i <= Len(TraceRegions)
        BY <3>2, <1>1, <1>2, <1>3, <1>5
    <3>4. Order' /\ Mapped' /\ DataRegion' = DataRegion
        BY <3>1, <3>2, <3>3, <1>2 DEF BootInv, Order, Mapped, DataRegion
    <3>5. CASE reg \notin config.traced
      <4>1. r.tree = tree
          BY <2>3, <3>5 DEF TraceNode
      <4>2. Bases' /\ Pool' /\ PhandlesDistinct' /\ IsTree(tree)'
          BY <4>1, <3>1, <3>2, TreeStays
      <4> QED BY <4>2, <3>1, <3>2, <3>4 DEF BootInv, BootTypes
    <3>6. CASE reg \in config.traced
      <4>1. r \in fdt_generate_reserved_node(tree, reg, reg)
          BY <2>3, <3>6 DEF TraceNode
      <4>2. config.phandle \in 0 .. NoPhandle
          BY <1>1, ConfigFacts
      <4>3. /\ IsTree(r.tree) /\ r.tree.pci = tree.pci
            /\ \/ r.tree = tree /\ ~r.ok
               \/ \E p \in 0 .. NoPhandle :
                     /\ r.tree.reserved = tree.reserved \cup {Node(reg, reg, p)}
                     /\ p = 0 => ~r.ok
                     /\ p # 0 => NewPhandle(tree, p)
          BY <4>1, <4>2, <1>1, <2>2, ReservedNode
      <4>4. PICK p \in 0 .. NoPhandle :
                     /\ r.tree.reserved = tree.reserved \cup {Node(reg, reg, p)}
                     /\ p # 0 => NewPhandle(tree, p)
          BY <4>3, <2>5
      <4>5. PhandlesDistinct'
          BY <4>4, <3>1, PhandleAdded
      <4>6. Bases'
        <5>1. Node(reg, reg, p).base = reg
            BY DEF Node
        <5> QED BY <5>1, <4>4, <3>1, <3>6, <1>2 DEF BootInv, Bases
      <4>7. Pool'
          BY <4>3, <4>4, <3>1, <3>2 DEF BootInv, Pool
      <4>8. BootTypes'
          BY <4>3, <3>1, <3>2 DEF BootInv, BootTypes
      <4> QED BY <4>5, <4>6, <4>7, <4>8, <3>4 DEF BootInv
    <3> QED BY <3>5, <3>6
  <2> QED BY <2>4, <2>5
<1> QED BY <1>4, <1>5

(* Steps between modules that leave the tree and the memory alone. *)
LEMMA GoesOn ==
    ASSUME BootInv, UNCHANGED <<config, mapped, tree, result>>,
           todo' \subseteq todo, "init_ram" \in todo => "init_ram" \in todo',
           "trace" \in todo => "trace" \in todo',
           NEW label \in Labels \ {"pci", "device", "trace"}, MainGoto(label), guestRam' \in {"none", "ram"},
           Order'
    PROVE  BootInv'
<1>1. /\ config \in Configs /\ todo \subseteq Modules /\ main \in [pc : Labels, i : Nat]
    BY DEF BootInv, BootTypes
<1>2. main' \in [pc : Labels, i : Nat] /\ main'.pc = label
    BY <1>1, MainPc
<1>3. Bases' /\ Pool' /\ PhandlesDistinct' /\ IsTree(tree)'
    BY <1>2, TreeStays
<1>4. BootTypes'
    BY <1>1, <1>2, <1>3 DEF BootInv, BootTypes
<1>5. Mapped'
    BY DEF BootInv, Mapped, DataRegion
<1> QED BY <1>3, <1>4, <1>5 DEF BootInv

LEMMA VpciInstallInv ==
    ASSUME BootInv, vpci_install
    PROVE  BootInv'
<1> USE DEF vpci_install, Begin, camkes_io_proxy_module_init
<1>1. /\ main \in [pc : Labels, i : Nat] /\ main.pc = "modules" /\ todo' = todo \ {"vpci_install"}
      /\ guestRam' = "ram" /\ "vpci_install" \in todo
    BY DEF BootInv, BootTypes, MainAt
<1>2. main'.pc = "install"
    BY <1>1, MainPc DEF Labels
<1>3. Order'
    BY <1>1, <1>2 DEF BootInv, Order
<1>4. "install" \in Labels \ {"pci", "device", "trace"}
    BY DEF Labels
<1> QED BY <1>1, <1>3, <1>4, GoesOn

LEMMA InstalledInv ==
    ASSUME BootInv, Installed
    PROVE  BootInv'
<1> USE DEF Installed
<1>1. /\ main \in [pc : Labels, i : Nat] /\ main.pc = "install" /\ todo' = todo
      /\ guestRam' = guestRam /\ guestRam \in {"none", "ram"}
    BY DEF BootInv, BootTypes, MainAt
<1>2. PICK label \in Labels \ {"pci", "device", "trace"} :
          /\ MainGoto(label)
          /\ label \in {"modules", "configure"} /\ (label = "configure" <=> "guest_config" \notin todo)
    BY DEF Labels
<1>3. main'.pc = label
    BY <1>1, <1>2, MainPc
<1>4. Order'
    BY <1>1, <1>2, <1>3 DEF BootInv, Order
<1> QED BY <1>1, <1>2, <1>4, GoesOn

LEMMA GuestConfigureInv ==
    ASSUME BootInv, guest_configure
    PROVE  BootInv'
<1> USE DEF guest_configure, camkes_io_proxy_module_init
<1>1. /\ main \in [pc : Labels, i : Nat] /\ main.pc = "modules" /\ "guest_config" \in todo
      /\ todo' = todo \ {"guest_config", "vpci_install"} /\ guestRam \in {"none", "ram"}
    BY DEF BootInv, BootTypes, MainAt
<1>2. PICK label \in Labels \ {"pci", "device", "trace"} :
          /\ MainGoto(label) /\ label \in {"install", "configure"}
    BY DEF Labels
<1>3. guestRam' = "ram"
    BY <1>1 DEF BootInv, Order
<1>4. main'.pc = label
    BY <1>1, <1>2, MainPc
<1>5. Order'
    BY <1>1, <1>2, <1>3, <1>4 DEF BootInv, Order
<1> QED BY <1>1, <1>2, <1>3, <1>5, GoesOn

LEMMA StartGuestInv ==
    ASSUME BootInv, StartGuest
    PROVE  BootInv'
<1> USE DEF StartGuest
<1>1. /\ main \in [pc : Labels, i : Nat] /\ main.pc = "modules" /\ todo = {} /\ todo' = todo
      /\ guestRam' = guestRam /\ guestRam \in {"none", "ram"}
    BY DEF BootInv, BootTypes, MainAt
<1>2. main'.pc = "started" /\ "started" \in Labels \ {"pci", "device", "trace"}
    BY <1>1, MainPc DEF Labels
<1>3. Order'
    BY <1>1, <1>2 DEF BootInv, Order
<1> QED BY <1>1, <1>2, <1>3, GoesOn

(* guest_configure returns. *)
LEMMA ConfiguredInv ==
    ASSUME BootInv, main.pc \in {"configure", "pci", "device"}, NEW ok, Configured(ok),
           ok => tree' = tree,
           UNCHANGED <<config, todo, guestRam, mapped>>,
           IsTree(tree)', Bases', PhandlesDistinct'
    PROVE  BootInv'
<1>1. /\ main \in [pc : Labels, i : Nat]
    BY DEF BootInv, BootTypes
<1>2. main' \in [pc : Labels, i : Nat] /\ main'.pc = "modules"
    BY <1>1, MainPc DEF Configured, Labels
<1>3. result' \in {"ok", "failed"} /\ (~ok => result' = "failed")
    BY DEF Configured
<1>4. BootTypes'
    BY <1>2, <1>3 DEF BootInv, BootTypes
<1>5. Order' /\ Mapped'
    BY <1>2, <1>3 DEF BootInv, Order, Mapped, DataRegion
<1>6. Pool'
  <2>1. result = "none"
      BY DEF BootInv, Order
  <2> QED BY <2>1, <1>2, <1>3 DEF BootInv, Pool
<1> QED BY <1>4, <1>5, <1>6 DEF BootInv

LEMMA NoTreeWantedInv ==
    ASSUME BootInv, NoTreeWanted
    PROVE  BootInv'
<1> USE DEF NoTreeWanted
<1>1. main.pc = "configure" /\ UNCHANGED <<config, todo, guestRam, mapped, tree>> /\ Configured(TRUE)
    BY DEF MainAt
<1>2. IsTree(tree)' /\ Bases' /\ PhandlesDistinct'
    BY <1>1 DEF BootInv, BootTypes, Bases, PhandlesDistinct
<1> QED BY <1>1, <1>2, ConfiguredInv

LEMMA GenerateAllInv ==
    ASSUME BootInv, fdt_node_generate_all
    PROVE  BootInv'
<1> USE DEF fdt_node_generate_all
<1>1. main.pc = "pci" /\ UNCHANGED <<config, todo, guestRam, mapped, tree>> /\ Configured(TRUE)
    BY DEF MainAt
<1>2. IsTree(tree)' /\ Bases' /\ PhandlesDistinct'
    BY <1>1 DEF BootInv, BootTypes, Bases, PhandlesDistinct
<1> QED BY <1>1, <1>2, ConfiguredInv

LEMMA CompatiblesInv ==
    ASSUME BootInv, fdt_node_generate_compatibles
    PROVE  BootInv'
<1> USE DEF fdt_node_generate_compatibles
<1>1. /\ config \in Configs /\ todo \subseteq Modules /\ main \in [pc : Labels, i : Nat]
      /\ IsTree(tree) /\ main.pc = "configure"
      /\ UNCHANGED <<config, todo, guestRam, mapped>>
    BY DEF BootInv, BootTypes, MainAt
<1>2. guestRam = "ram" /\ result = "none"
    BY <1>1 DEF BootInv, Order
<1>3. PICK r \in fdt_node_generate_swiotlb(tree) :
          /\ tree' = r.tree
          /\ IF r.ok THEN MainGoto("pci") /\ UNCHANGED result ELSE Configured(FALSE)
    OBVIOUS
<1> HIDE DEF fdt_node_generate_compatibles
<1>4. /\ DataRegion' = DataRegion /\ DataRegion \in {"ram", "pool"}
      /\ (DataRegion = "ram" <=> config.poolIsRam) /\ config.phandle \in 0 .. NoPhandle
    BY <1>1, ConfigFacts DEF DataRegion
<1>5. /\ IsTree(tree') /\ Bases' /\ PhandlesDistinct' /\ tree'.pci = tree.pci
      /\ tree.reserved \subseteq tree'.reserved
      /\ r.ok => config.poolIsRam \/ fdt_reserved_memory_phandle(tree)' # {}
  <2>1. CASE DataRegion = "ram"
    <3>1. r = [tree |-> tree, ok |-> TRUE]
        BY <1>2, <1>3, <2>1 DEF fdt_node_generate_swiotlb
    <3>2. tree' = tree
        BY <3>1, <1>3
    <3> QED BY <3>2, <2>1, <1>1, <1>4 DEF BootInv, BootTypes, Bases, PhandlesDistinct
  <2>2. CASE DataRegion = "pool"
    <3>1. r \in fdt_generate_reserved_node(tree, "swiotlb", "pool")
        BY <1>2, <1>3, <2>2 DEF fdt_node_generate_swiotlb
    <3>2. /\ IsTree(r.tree) /\ r.tree.pci = tree.pci
          /\ \/ r.tree = tree /\ ~r.ok
             \/ \E p \in 0 .. NoPhandle :
                   /\ r.tree.reserved = tree.reserved \cup {Node("swiotlb", "pool", p)}
                   /\ p = 0 => ~r.ok
                   /\ p # 0 => NewPhandle(tree, p)
      <4>1. PICK a \in {"swiotlb"} \cup Traces, b \in {"ram", "pool"} \cup Traces :
                a = "swiotlb" /\ b = "pool"
          OBVIOUS
      <4>2. r \in fdt_generate_reserved_node(tree, a, b)
          BY <3>1, <4>1
      <4>3. /\ IsTree(r.tree) /\ r.tree.pci = tree.pci
            /\ \/ r.tree = tree /\ ~r.ok
               \/ \E p \in 0 .. NoPhandle :
                   /\ r.tree.reserved = tree.reserved \cup {Node(a, b, p)}
                   /\ p = 0 => ~r.ok
                   /\ p # 0 => NewPhandle(tree, p)
          BY <4>2, <1>1, <1>4, ReservedNode
      <4> QED BY <4>1, <4>3
    <3>3. CASE r.tree = tree /\ ~r.ok
        BY <3>3, <1>1, <1>3 DEF BootInv, BootTypes, Bases, PhandlesDistinct
    <3>4. CASE ~(r.tree = tree /\ ~r.ok)
      <4>1. PICK p \in 0 .. NoPhandle :
                   /\ r.tree.reserved = tree.reserved \cup {Node("swiotlb", "pool", p)}
                   /\ p = 0 => ~r.ok
                   /\ p # 0 => NewPhandle(tree, p)
          BY <3>2, <3>4
      <4>2. tree'.reserved = tree.reserved \cup {Node("swiotlb", "pool", p)} /\ tree'.pci = tree.pci
          BY <4>1, <3>2, <1>3
      <4>3. PhandlesDistinct'
          BY <4>1, <4>2, <1>1, PhandleAdded
      <4>4. Node("swiotlb", "pool", p).base = "pool" /\ Node("swiotlb", "pool", p).prefix = "swiotlb"
            /\ Node("swiotlb", "pool", p).phandle = p
          BY DEF Node
      <4>5. Bases'
          BY <4>2, <4>4, <2>2, <1>1, <1>4 DEF BootInv, Bases
      <4>6. r.ok => p \in fdt_reserved_memory_phandle(tree)'
          BY <4>1, <4>2, <4>4, <2>2, <1>4 DEF fdt_reserved_memory_phandle
      <4>7. IsTree(tree')
          BY <3>2, <1>3
      <4> QED BY <4>2, <4>3, <4>5, <4>6, <4>7
    <3> QED BY <3>3, <3>4
  <2> QED BY <1>4, <2>1, <2>2
<1>6. CASE r.ok
  <2>1. MainGoto("pci") /\ UNCHANGED result
      BY <1>3, <1>6
  <2>2. main' \in [pc : Labels, i : Nat] /\ main'.pc = "pci"
      BY <2>1, <1>1, MainPc DEF Labels
  <2>3. BootTypes'
      BY <2>1, <2>2, <1>1, <1>5 DEF BootInv, BootTypes
  <2>4. Order' /\ Mapped'
      BY <2>1, <2>2, <1>1, <1>4 DEF BootInv, Order, Mapped
  <2>5. Pool'
      BY <2>1, <2>2, <1>1, <1>5, <1>6 DEF BootInv, Pool
  <2> QED BY <2>3, <2>4, <2>5, <1>5 DEF BootInv
<1>7. CASE ~r.ok
  <2>1. Configured(FALSE)
      BY <1>3, <1>7
  <2> QED BY <2>1, <1>1, <1>5, ConfiguredInv
<1> QED BY <1>6, <1>7

LEMMA PciConfigInv ==
    ASSUME BootInv, fdt_generate_pci_config
    PROVE  BootInv'
<1>1. main \in [pc : Labels, i : Nat]
    BY DEF BootInv, BootTypes
<1>2. /\ main.pc = "pci" /\ main' = [main EXCEPT !.pc = "device"]
      /\ UNCHANGED <<config, todo, guestRam, mapped, tree, result>>
    BY DEF fdt_generate_pci_config, MainAt
<1>3. main' \in [pc : Labels, i : Nat] /\ main'.pc = "device"
    BY <1>1, <1>2 DEF Labels
<1>4. DataRegion' = DataRegion
    BY <1>2 DEF DataRegion
<1>5. BootTypes' /\ Order' /\ Mapped' /\ Bases'
    BY <1>2, <1>3, <1>4 DEF BootInv, BootTypes, Order, Mapped, Bases
<1>6. Pool' /\ PhandlesDistinct'
    BY <1>2, <1>3, <1>4 DEF BootInv, Pool, PhandlesDistinct, fdt_reserved_memory_phandle
<1> QED BY <1>5, <1>6 DEF BootInv

LEMMA GenerateDeviceInv ==
    ASSUME BootInv, GenerateDevice
    PROVE  BootInv'
<1> USE DEF GenerateDevice
<1>1. /\ config \in Configs /\ todo \subseteq Modules /\ main \in [pc : Labels, i : Nat]
      /\ IsTree(tree) /\ main.pc = "device"
      /\ UNCHANGED <<config, todo, guestRam, mapped>>
    BY DEF BootInv, BootTypes, MainAt
<1>2. result = "none" /\ (config.poolIsRam \/ fdt_reserved_memory_phandle(tree) # {})
    BY <1>1 DEF BootInv, Order, Pool
<1>3. PICK dev, r : /\ r \in GeneratePciDevice(tree, dev)
                    /\ tree' = r.tree
                    /\ IF r.ok THEN main' = [pc |-> "pci", i |-> main.i + 1] /\ UNCHANGED result
                       ELSE Configured(FALSE)
    OBVIOUS
<1> HIDE DEF GenerateDevice
<1>4. /\ DataRegion' = DataRegion /\ DataRegion \in {"ram", "pool"}
      /\ (DataRegion = "ram" <=> config.poolIsRam)
    BY <1>1, ConfigFacts DEF DataRegion
<1>5. /\ IsTree(r.tree) /\ r.tree.reserved = tree.reserved
      /\ \/ ~r.ok /\ r.tree.pci = tree.pci
         \/ \E p \in {0} \cup fdt_reserved_memory_phandle(tree) :
               /\ r.tree.pci = Append(tree.pci, Device(dev, p))
               /\ r.ok /\ fdt_reserved_memory_phandle(tree) # {} =>
                     p \in fdt_reserved_memory_phandle(tree)
    BY <1>1, <1>3, PciDevice
<1>6. IsTree(tree') /\ Bases' /\ PhandlesDistinct'
    BY <1>1, <1>3, <1>5 DEF BootInv, Bases, PhandlesDistinct
<1>7. CASE ~r.ok
  <2>1. Configured(FALSE)
      BY <1>3, <1>7
  <2> QED BY <2>1, <1>1, <1>6, ConfiguredInv
<1>8. CASE r.ok
  <2>1. main' = [pc |-> "pci", i |-> main.i + 1] /\ UNCHANGED result
      BY <1>3, <1>8
  <2>2. main' \in [pc : Labels, i : Nat] /\ main'.pc = "pci"
      BY <2>1, <1>1 DEF Labels
  <2>3. BootTypes'
      BY <2>1, <2>2, <1>1, <1>6 DEF BootInv, BootTypes
  <2>4. Order' /\ Mapped'
      BY <2>1, <2>2, <1>1, <1>4 DEF BootInv, Order, Mapped
  <2>5. fdt_reserved_memory_phandle(tree)' = fdt_reserved_memory_phandle(tree)
      BY <1>3, <1>4, <1>5 DEF fdt_reserved_memory_phandle
  <2>6. PICK p \in {0} \cup fdt_reserved_memory_phandle(tree) :
                   /\ r.tree.pci = Append(tree.pci, Device(dev, p))
                   /\ fdt_reserved_memory_phandle(tree) # {} => p \in fdt_reserved_memory_phandle(tree)
      BY <1>5, <1>8
  <2>7. ~config.poolIsRam =>
          \A n \in DOMAIN tree'.pci : Node("swiotlb", "pool", tree'.pci[n].region) \in tree'.reserved
    <3> SUFFICES ASSUME ~config.poolIsRam, NEW n \in DOMAIN tree'.pci
                 PROVE  Node("swiotlb", "pool", tree'.pci[n].region) \in tree'.reserved
        OBVIOUS
    <3>1. Node("swiotlb", "pool", p) \in tree.reserved
      <4>1. p \in fdt_reserved_memory_phandle(tree) /\ DataRegion = "pool"
          BY <2>6, <1>2, <1>4
      <4>2. PICK m \in tree.reserved : m.prefix = "swiotlb" /\ m.base = "pool" /\ m.phandle = p
          BY <4>1 DEF fdt_reserved_memory_phandle
      <4>3. m \in Nodes
          BY <1>1 DEF IsTree
      <4>4. m = Node("swiotlb", "pool", p)
          BY <4>2, <4>3 DEF Nodes, Node
      <4> QED BY <4>2, <4>4
    <3>2. PICK S : tree.pci \in Seq(S)
        BY <1>1 DEF IsTree
    <3>3. /\ Len(tree.pci) \in Nat /\ DOMAIN tree'.pci = 1 .. Len(tree.pci) + 1
          /\ tree'.pci[Len(tree.pci) + 1] = Device(dev, p)
          /\ \A i \in 1 .. Len(tree.pci) : tree'.pci[i] = tree.pci[i]
          /\ DOMAIN tree.pci = 1 .. Len(tree.pci)
      <4>1. PICK T, d : T = S \cup {Device(dev, p)} /\ d = Device(dev, p)
          OBVIOUS
      <4> d \in T
          BY <4>1
      <4>2. tree.pci \in Seq(T)
          BY <4>1, <3>2, SeqMonotonic
      <4>3. tree'.pci = Append(tree.pci, d)
          BY <4>1, <2>6, <1>3
      <4>4. /\ Append(tree.pci, d) \in Seq(T) /\ Len(Append(tree.pci, d)) = Len(tree.pci) + 1
            /\ Append(tree.pci, d)[Len(tree.pci) + 1] = d
            /\ \A i \in 1 .. Len(tree.pci) : Append(tree.pci, d)[i] = tree.pci[i]
          BY <4>2, AppendProperties
      <4> QED BY <4>1, <4>2, <4>3, <4>4, LenProperties
    <3>4. CASE n = Len(tree.pci) + 1
      <4>1. tree'.pci[n].region = p
          BY <3>3, <3>4 DEF Device
      <4> QED BY <4>1, <3>1, <1>3, <1>5
    <3>5. CASE n # Len(tree.pci) + 1
      <4>1. n \in DOMAIN tree.pci /\ tree'.pci[n] = tree.pci[n]
          BY <3>3, <3>5
      <4>2. Node("swiotlb", "pool", tree.pci[n].region) \in tree.reserved
          BY <4>1, <1>2 DEF BootInv, Pool
      <4> QED BY <4>1, <4>2, <1>3, <1>5
    <3> QED BY <3>4, <3>5
  <2>8. Pool'
      BY <2>1, <2>2, <2>5, <2>7, <1>1, <1>2 DEF Pool
  <2> QED BY <2>3, <2>4, <2>8, <1>6 DEF BootInv
<1> QED BY <1>7, <1>8

(* Every step preserves BootInv. *)
LEMMA BootNextInv ==
    ASSUME BootInv, [BootNext]_allVars
    PROVE  BootInv'
<1>1. CASE UNCHANGED bootVars
    BY <1>1, BootUnchanged
<1>2. CASE BootStep
  <2>1. CASE fdt_plat_customize_init \/ ModuleFails \/ NullDevice
    <3>1. UNCHANGED bootVars
        BY <2>1 DEF fdt_plat_customize_init, ModuleFails, NullDevice, Die
    <3> QED BY <3>1, <1>1
  <2> QED BY <1>2, <2>1, InitRamInv, TraceInitInv, TraceNodesInv, VpciInstallInv, InstalledInv,
             GuestConfigureInv, NoTreeWantedInv, CompatiblesInv, PciConfigInv, GenerateDeviceInv,
             GenerateAllInv, StartGuestInv DEF BootStep
<1>3. UNCHANGED bootVars \/ BootStep
  <2>1. CASE BootNext
      BY <2>1, Zenon DEF BootNext, Backend, Listening
  <2>2. CASE UNCHANGED allVars
      BY <2>2 DEF allVars
  <2> QED BY <2>1, <2>2
<1> QED BY <1>1, <1>2, <1>3

LEMMA BootInvariance == BootSpec => []BootInv
<1>1. BootInit => BootInv
    BY BootInitInv
<1>2. BootInv /\ [BootNext]_allVars => BootInv'
    BY BootNextInv
<1> QED BY <1>1, <1>2, PTL DEF BootSpec

(* However many nodes the VMM generates and however near the end of the    *)
(* range the phandles of its tree come, fdt_assign_phandle gives each node *)
(* a phandle of its own or none.                                           *)
THEOREM PhandlesAreDistinct == BootSpec => []PhandlesDistinct
<1>1. BootInv => PhandlesDistinct
    BY DEF BootInv
<1> QED BY <1>1, BootInvariance, PTL

(* The guest's RAM is never declared as a DMA pool, in whatever order the  *)
(* modules run: guest_ram_base is set before fdt_node_generate_swiotlb     *)
(* compares with it.                                                       *)
THEOREM RamIsNeverPool == BootSpec => []RamIsNoPool
<1>1. ASSUME BootInv
      PROVE  RamIsNoPool
  <2>1. config.traced \subseteq Traces
      BY <1>1, ConfigFacts DEF BootInv, BootTypes
  <2>2. "ram" \notin Traces
      BY BootAssumption DEF Traces
  <2> QED BY <1>1, <2>1, <2>2 DEF BootInv, Bases, RamIsNoPool
<1> QED BY <1>1, BootInvariance, PTL

(* A configuration that succeeded leaves no device of the tree without the *)
(* pool of its backend, although fdt_assign_reserved_memory takes a pool   *)
(* that it does not find for none at all.                                  *)
THEOREM DevicesHavePool == BootSpec => []DevicesUsePool
<1>1. ASSUME BootInv
      PROVE  DevicesUsePool
  <2> SUFFICES ASSUME result = "ok", ~config.poolIsRam, NEW n \in DOMAIN tree.pci
               PROVE  [prefix |-> "swiotlb", base |-> "pool", phandle |-> tree.pci[n].region]
                          \in tree.reserved
      BY DEF DevicesUsePool
  <2>1. Node("swiotlb", "pool", tree.pci[n].region) \in tree.reserved
      BY <1>1 DEF BootInv, Pool
  <2> QED BY <2>1 DEF Node
<1> QED BY <1>1, BootInvariance, PTL

(* The guest starts only when the modules have mapped its RAM and all the  *)
(* memory that its device tree reserves.                                   *)
THEOREM ReservedMemoryIsBacked == BootSpec => []MemoryIsBacked
<1>1. ASSUME BootInv
      PROVE  MemoryIsBacked
  <2> SUFFICES ASSUME main.pc = "started"
               PROVE  "ram" \in mapped /\ \A n \in tree.reserved : n.base \in mapped
      BY DEF MemoryIsBacked, Started
  <2>1. todo = {}
      BY <1>1 DEF BootInv, Order
  <2>2. "ram" \in mapped /\ DataRegion \in mapped /\ config.traced \subseteq mapped
      BY <1>1, <2>1 DEF BootInv, Mapped
  <2>3. ~config.poolIsRam => DataRegion = "pool"
      BY DEF DataRegion
  <2> QED BY <1>1, <2>2, <2>3 DEF BootInv, Bases
<1> QED BY <1>1, BootInvariance, PTL

-----------------------------------------------------------------------------
(* The devices in the tree.                                                *)

(* The backend keeps quiet until the main thread waits: it is that kind of *)
(* backend, or the VM is configured so.                                    *)
Calm == LateDevice \/ config.patient

(* What the threads that take events, the device and a fault may do. *)
EventStep ==
    \/ /\ config.patient => MainWaits
       /\ \E e \in BootEvents : device_event_tx(e)
    \/ vso_doorbell \/ ntfn_callback
    \/ \E r \in Runners : rpc_run(r)
    \/ OkToRun \/ sync_sem_wait
    \/ Failed \/ UNCHANGED vars

LEMMA StepKinds ==
    ASSUME [BootNext]_allVars
    PROVE  (UNCHANGED bootVars /\ EventStep) \/ (BootStep /\ UNCHANGED vars)
<1>1. CASE BootStep
  <2>1. CASE Die
      BY <2>1 DEF Die, EventStep, Failed
  <2>2. CASE ~Die
    <3>1. CASE fdt_generate_trace_nodes
        BY <2>2, <1>1, <3>1, Zenon DEF fdt_generate_trace_nodes
    <3>2. CASE init_ram_module \/ trace_init \/ vpci_install \/ Installed \/ guest_configure
        BY <1>1, <3>2 DEF init_ram_module, trace_init, vpci_install, Installed, guest_configure
    <3>3. CASE NoTreeWanted \/ fdt_node_generate_compatibles \/ fdt_generate_pci_config
               \/ GenerateDevice \/ fdt_node_generate_all \/ StartGuest
        BY <1>1, <3>3 DEF NoTreeWanted, fdt_node_generate_compatibles, fdt_generate_pci_config,
                          GenerateDevice, fdt_node_generate_all, StartGuest
    <3>4. ~fdt_plat_customize_init /\ ~ModuleFails /\ ~NullDevice
        BY <2>2 DEF fdt_plat_customize_init, ModuleFails, NullDevice
    <3> QED BY <1>1, <3>1, <3>2, <3>3, <3>4 DEF BootStep
  <2> QED BY <2>1, <2>2
<1>2. CASE BootNext /\ ~BootStep
    BY <1>2, Zenon DEF BootNext, Backend, Listening, EventStep, Halted
<1>3. CASE UNCHANGED allVars
    BY <1>3 DEF allVars, EventStep
<1> QED BY <1>1, <1>2, <1>3

LEMMA EventStepInv ==
    ASSUME Inv, Calm, EventStep
    PROVE  Inv'
<1>1. CASE (config.patient => MainWaits) /\ \E e \in BootEvents : device_event_tx(e)
  <2>1. PICK e \in Events : device_event_tx(e)
      BY <1>1, BootAssumption
  <2>2. MainWaits
      BY <1>1, <2>1 DEF Calm, LateDevice, device_event_tx
  <2> QED BY <2>1, <2>2, DeviceEventTxInv
<1>2. CASE \E r \in Runners : rpc_run(r)
    BY <1>2, RpcRunInv
<1> QED BY <1>1, <1>2, DoorbellInv, NtfnCallbackInv, OkToRunInv, SyncSemWaitInv, FailedInv,
           StutterInv DEF EventStep

(* No device leaves pci_devs or changes its place, and START_VM is sent    *)
(* once.                                                                   *)
Grows ==
    /\ Known' \in Nat /\ Known <= Known' /\ pci_dev_count <= pci_dev_count'
    /\ \A n \in 1 .. Known : pci_devs'[n] = pci_devs[n]
    /\ want.atStart # -1 => want'.atStart = want.atStart

LEMMA DevicesGrow ==
    ASSUME Inv, EventStep
    PROVE  Grows
<1>1. /\ want \in WantType /\ Known \in Nat /\ pci_dev_count \in Nat
      /\ runner \in [Runners -> RunnerState]
    BY KnownAreCounted DEF Inv, Shape, TypeOK
<1>2. ASSUME UNCHANGED table, (Ntfn'.pc = "counted") <=> (Ntfn.pc = "counted"),
             want.atStart # -1 => want'.atStart = want.atStart
      PROVE  Grows
  <2>1. Known' = Known /\ pci_dev_count' = pci_dev_count /\ pci_devs' = pci_devs
      BY <1>2 DEF Known, table
  <2> QED BY <2>1, <1>1, <1>2 DEF Grows
<1>3. ASSUME NEW r \in Runners, UNCHANGED <<table, want>>, runner[r].pc # "counted",
             NEW l \in RunnerPcs \ {"counted"},
             \/ runner' = [runner EXCEPT ![r].pc = l]
             \/ runner' = [runner EXCEPT ![r].pc = l, ![r].ev = Head(events)]
             \/ Handled(r)
      PROVE  Grows
  <2>1. runner'[r].pc # "counted" /\ \A q \in Runners : q # r => runner'[q] = runner[q]
      BY <1>1, <1>3 DEF Handled, RunnerState
  <2>2. Ntfn'.pc = "counted" <=> Ntfn.pc = "counted"
      BY <2>1, <1>3 DEF Ntfn, Runners
  <2> QED BY <2>2, <1>2, <1>3
<1>4. CASE \E e \in BootEvents : device_event_tx(e)
  <2>1. PICK e \in Events : device_event_tx(e)
      BY <1>4, BootAssumption
  <2>2. /\ UNCHANGED <<table, runner>> /\ want' = Wanted(want, e)
        /\ e.op = "start" => want.atStart = -1
      BY <2>1 DEF device_event_tx, registry
  <2>3. Wanted(want, e).atStart = IF e.op = "start" THEN want.devs ELSE want.atStart
      BY <1>1, WantedFields
  <2> QED BY <1>2, <2>2, <2>3 DEF Ntfn
<1>5. CASE StoreDevCount("ntfn") \/ StoreDev("ntfn")
  <2>1. Ntfn.pc \in {"store", "counted", "written"} /\ want' = want
      BY <1>5 DEF StoreDevCount, StoreDev, Ntfn
  <2>2. /\ Ntfn.index = Known
        /\ pci_devs \in [TableIndices -> [slot : Slots \cup {-1}, guest : Nat]]
      BY <2>1, RegisterFacts
  <2>3. CASE StoreDevCount("ntfn")
    <3>1. pci_dev_count' = Known + 1 /\ pci_devs' = pci_devs /\ Ntfn.pc \in {"store", "written"}
        BY <2>2, <2>3 DEF StoreDevCount, Ntfn
    <3>2. pci_dev_count = Known
        BY <3>1 DEF Known
    <3>3. Known' \in Nat /\ Known <= Known'
        BY <3>1, <1>1 DEF Known
    <3> QED BY <3>1, <3>2, <3>3, <2>1, <1>1 DEF Grows
  <2>4. CASE StoreDev("ntfn")
    <3>1. /\ pci_dev_count' = pci_dev_count /\ Ntfn.pc \in {"store", "counted"}
          /\ pci_devs' = [pci_devs EXCEPT ![Known + 1] = [slot |-> Event("ntfn").slot, guest |-> Ntfn.dev]]
        BY <2>2, <2>4 DEF StoreDev, Ntfn
    <3>2. \A n \in 1 .. Known : pci_devs'[n] = pci_devs[n]
      <4>1. \A n \in 1 .. Known : n # Known + 1
          BY <1>1
      <4>2. \A n \in 1 .. Known : n \in TableIndices
          BY <1>1, EventsAssumption DEF TableIndices, Inv, Shape, TableShape
      <4> QED BY <3>1, <4>1, <4>2, <2>2
    <3>3. Ntfn'.pc # "counted"
        BY <2>4, <1>1 DEF StoreDev, Goto, Handled, Ntfn, Runners, RunnerState
    <3>4. Known' = pci_dev_count
        BY <3>1, <3>3 DEF Known
    <3>5. Known <= pci_dev_count
        BY KnownAreCounted DEF Inv
    <3> QED BY <3>1, <3>2, <3>4, <3>5, <2>1, <1>1 DEF Grows
  <2> QED BY <1>5, <2>3, <2>4
<1>6. CASE \E r \in Runners : rpc_run(r)
  <2>1. PICK r \in Runners : rpc_run(r)
      BY <1>6
  <2> USE DEF registry, At, Processing, Goto, RunnerPcs
  <2>2. CASE rpcmsg_event_rx(r)
    <3>1. PICK l \in RunnerPcs \ {"counted"} : l = "process"
        OBVIOUS
    <3>2. /\ UNCHANGED <<table, want>> /\ runner[r].pc # "counted"
          /\ runner' = [runner EXCEPT ![r].pc = l, ![r].ev = Head(events)]
        BY <2>2, <3>1 DEF rpcmsg_event_rx
    <3> QED BY <3>2, <1>3
  <2>3. CASE NoMoreEvents(r)
    <3>1. PICK l \in RunnerPcs \ {"counted"} : Goto(r, l)
        BY <2>3 DEF NoMoreEvents
    <3> QED BY <2>3, <3>1, <1>3 DEF NoMoreEvents
  <2>4. CASE rpc_process(r)
    <3>1. rpc_process("ntfn") /\ "ntfn" \in Runners
        BY <2>4, MainIdle DEF Runners
    <3>2. CASE \/ NoSuchDevice("ntfn") \/ BusFull("ntfn") \/ BadRegion("ntfn")
               \/ UnknownMessage("ntfn")
        BY <3>2, <1>2 DEF NoSuchDevice, BusFull, BadRegion, UnknownMessage, Failed, Ntfn
    <3>3. CASE handle_msi("ntfn") \/ handle_pci_intx("ntfn") \/ Lower("ntfn") \/ emudev_irq_set("ntfn")
      <4>1. /\ UNCHANGED <<table, want>> /\ runner["ntfn"].pc # "counted"
            /\ \E l \in RunnerPcs \ {"counted"} : Goto("ntfn", l) \/ Handled("ntfn")
          BY <3>3 DEF handle_msi, handle_pci_intx, Lower, emudev_irq_set
      <4> QED BY <4>1, <3>1, <1>3
    <3>4. CASE IrqIsNew("ntfn") \/ irq_res_assign("ntfn") \/ handle_control("ntfn")
      <4>1. /\ UNCHANGED <<table, want>> /\ runner["ntfn"].pc # "counted"
            /\ \E l \in RunnerPcs \ {"counted"} : Goto("ntfn", l)
          BY <3>4 DEF IrqIsNew, irq_res_assign, handle_control
      <4> QED BY <4>1, <3>1, <1>3
    <3>5. CASE mmio_res_assign("ntfn") \/ mmio_res_free("ntfn") \/ sync_sem_post("ntfn")
      <4>1. /\ UNCHANGED <<table, want>> /\ runner["ntfn"].pc # "counted"
            /\ \E l \in RunnerPcs \ {"counted"} : Handled("ntfn")
          BY <3>5 DEF mmio_res_assign, mmio_res_free, sync_sem_post
      <4> QED BY <4>1, <3>1, <1>3
    <3>6. CASE vmm_pci_add_entry("ntfn") \/ LoadDevCount("ntfn")
      <4>1. /\ UNCHANGED <<table, want>> /\ Ntfn.pc \in {"process", "count"}
          BY <3>6 DEF vmm_pci_add_entry, LoadDevCount, Ntfn
      <4>2. CASE vmm_pci_add_entry("ntfn")
        <5>1. Ntfn'.pc = "count"
            BY <4>2, <3>1, <1>1 DEF vmm_pci_add_entry, Ntfn, RunnerState
        <5> QED BY <4>1, <5>1, <1>2
      <4>3. CASE LoadDevCount("ntfn")
        <5>1. Ntfn'.pc = "store"
            BY <4>3, <3>1, <1>1 DEF LoadDevCount, Ntfn, RunnerState
        <5> QED BY <4>1, <5>1, <1>2
      <4> QED BY <3>6, <4>2, <4>3
    <3> QED BY <3>1, <3>2, <3>3, <3>4, <3>5, <3>6, <1>5 DEF rpc_process
  <2> QED BY <2>1, <2>2, <2>3, <2>4 DEF rpc_run
<1>7. CASE vso_doorbell \/ Failed \/ UNCHANGED vars
    BY <1>2, <1>7 DEF vso_doorbell, Failed, vars, registry, Ntfn
<1>8. CASE ntfn_callback
  <2>1. /\ UNCHANGED <<table, want>> /\ "ntfn" \in Runners /\ runner["ntfn"].pc # "counted"
        /\ \E l \in RunnerPcs \ {"counted"} : runner' = [runner EXCEPT !["ntfn"].pc = l]
      BY <1>8 DEF ntfn_callback, registry, At, Goto, Runners, RunnerPcs
  <2> QED BY <2>1, <1>3
<1>9. CASE OkToRun \/ sync_sem_wait
  <2>1. UNCHANGED <<table, want>> /\ Ntfn' = Ntfn
      BY <1>9, <1>1 DEF OkToRun, sync_sem_wait, registry, Goto, Ntfn, Runners
  <2> QED BY <2>1, <1>2
<1> QED BY <1>4, <1>6, <1>7, <1>8, <1>9 DEF EventStep

(* The devices that were sent before START_VM are in pci_devs. *)
Ready == want.atStart # -1 /\ want.atStart <= Known

(* The tree has the first devices of pci_devs, in their order.  They are   *)
(* all that were sent before START_VM if the configuration succeeded.      *)
TreeInv ==
    /\ "vpci_install" \notin todo /\ main.pc # "install" => Ready
    /\ result # "failed" => /\ Len(tree.pci) <= Known
                            /\ \A n \in 1 .. Len(tree.pci) : tree.pci[n].dev = pci_devs[n].guest
    /\ main.pc \in {"pci", "device"} => main.i = Len(tree.pci)
    /\ main.pc = "device" => main.i < pci_dev_count
    /\ result = "none" /\ main.pc \notin {"pci", "device"} => tree.pci = <<>>
    /\ result = "ok" /\ config.generate => want.atStart <= Len(tree.pci)

(* The loops of the main thread and the nodes of the devices are bounded. *)
TreeTypes ==
    /\ main.i <= NumAvail + Len(TraceRegions)
    /\ tree.pci \in Seq([dev : Nat, region : 0 .. NoPhandle])

DeviceInv == Calm => Inv /\ TreeInv /\ TreeTypes

LEMMA DeviceInitInv ==
    ASSUME BootInit
    PROVE  DeviceInv
<1>1. Inv
    BY InitInv DEF BootInit
<1>2. todo = Modules /\ main.pc = "modules" /\ main.i = 0 /\ tree.pci = <<>> /\ result = "none"
    BY DEF BootInit
<1>3. Known \in Nat /\ Len(tree.pci) = 0
    BY <1>1, <1>2, KnownAreCounted DEF Inv
<1>4. TreeInv
    BY <1>2, <1>3 DEF TreeInv, Modules
<1>5. TreeTypes
  <2>1. Len(TraceRegions) \in Nat
      BY BootAssumption, LenProperties
  <2>2. main.i <= NumAvail + Len(TraceRegions)
      BY <2>1, <1>2, EventsAssumption
  <2> QED BY <2>2, <1>2 DEF TreeTypes
<1> QED BY <1>1, <1>4, <1>5 DEF DeviceInv

(* A device that registers while the tree is being built, or later. *)
LEMMA TreeGrows ==
    ASSUME BootInv, Inv, Inv', TreeInv, TreeTypes, Grows, UNCHANGED bootVars
    PROVE  TreeInv'
<1> USE DEF bootVars
<1>1. /\ Len(tree.pci) \in Nat /\ Known \in Nat /\ pci_dev_count \in Nat
      /\ want.atStart \in Nat \cup {-1}
    BY LenProperties, KnownAreCounted DEF Inv, Shape, WantType, TreeTypes
<1>2. Ready => Ready'
    BY <1>1 DEF Ready, Grows
<1>3. result # "failed" => Len(tree.pci) <= Known'
    BY <1>1 DEF TreeInv, Grows
<1>4. result # "failed" => \A n \in 1 .. Len(tree.pci) : tree.pci[n].dev = pci_devs'[n].guest
  <2> SUFFICES ASSUME result # "failed", NEW n \in 1 .. Len(tree.pci)
               PROVE  tree.pci[n].dev = pci_devs'[n].guest
      OBVIOUS
  <2>1. n \in 1 .. Known
      BY <1>1 DEF TreeInv
  <2> QED BY <2>1 DEF TreeInv, Grows
<1>5. result = "ok" /\ config.generate => want'.atStart <= Len(tree.pci)
  <2> SUFFICES ASSUME result = "ok", config.generate
               PROVE  want'.atStart <= Len(tree.pci)
      OBVIOUS
  <2>1. Ready /\ want.atStart <= Len(tree.pci)
      BY DEF BootInv, Order, TreeInv
  <2> QED BY <2>1 DEF Ready, Grows
<1>6. main.pc = "device" => main.i < pci_dev_count'
  <2>1. main.i \in Nat /\ pci_dev_count' \in Nat
      BY EventsAssumption DEF BootInv, BootTypes, Inv, Shape, TypeOK, DeviceTypes
  <2> QED BY <2>1, <1>1 DEF TreeInv, Grows
<1> QED BY <1>2, <1>3, <1>4, <1>5, <1>6 DEF TreeInv

(* The devices and what is wanted stay as they are. *)
LEMMA ReadyStays ==
    ASSUME UNCHANGED vars
    PROVE  /\ Ready' = Ready /\ Known' = Known /\ pci_devs' = pci_devs
           /\ pci_dev_count' = pci_dev_count /\ want' = want
<1>1. UNCHANGED <<pci_devs, pci_dev_count, want, runner>>
    BY DEF vars, registry, table
<1>2. Known' = Known
    BY <1>1 DEF Known, Ntfn
<1> QED BY <1>1, <1>2 DEF Ready

(* The entry that the loop reads belongs to a device: one that is counted  *)
(* and set is in the table.                                                *)
LEMMA SetIsKnown ==
    ASSUME Inv, NEW i \in Nat, i < pci_dev_count, pci_devs[i + 1] # NoDev
    PROVE  i < Known
<1>1. /\ Known \in 0 .. NumAvail /\ pci_dev_count \in 0 .. NumAvail
      /\ \A n \in TableIndices : n > Known =>
            pci_devs[n] = NoDev \/ (Ntfn.pc = "written" /\ n = Known + 1)
    BY DEF Inv, Shape, TableShape, TypeOK, DeviceTypes
<1>2. CASE Ntfn.pc # "counted"
    BY <1>2 DEF Known
<1>3. CASE Ntfn.pc = "counted"
  <2>1. i + 1 \in TableIndices
      BY <1>1, EventsAssumption DEF TableIndices
  <2>2. ~(i + 1 > Known)
      BY <2>1, <1>1, <1>3
  <2> QED BY <2>2, <1>1, EventsAssumption
<1> QED BY <1>2, <1>3

LEMMA GenerateDeviceDeviceInv ==
    ASSUME BootInv, Inv, TreeInv, TreeTypes, UNCHANGED vars, GenerateDevice
    PROVE  TreeInv' /\ TreeTypes'
<1> USE DEF GenerateDevice
<1> DEFINE D == [dev : Nat, region : 0 .. NoPhandle]
<1>1. /\ main \in [pc : Labels, i : Nat] /\ IsTree(tree) /\ main.pc = "device"
      /\ UNCHANGED <<config, todo, guestRam, mapped>> /\ pci_devs[main.i + 1] # NoDev
    BY DEF BootInv, BootTypes, MainAt
<1>2. result = "none" /\ Ready /\ main.i = Len(tree.pci) /\ main.i < Known
  <2>1. result = "none" /\ Ready /\ main.i = Len(tree.pci) /\ main.i < pci_dev_count
      BY <1>1 DEF BootInv, Order, TreeInv
  <2> QED BY <2>1, <1>1, SetIsKnown
<1>3. PICK dev, r : /\ dev = pci_devs[main.i + 1].guest
                    /\ r \in GeneratePciDevice(tree, dev)
                    /\ tree' = r.tree
                    /\ IF r.ok THEN main' = [pc |-> "pci", i |-> main.i + 1] /\ UNCHANGED result
                       ELSE Configured(FALSE)
    OBVIOUS
<1> HIDE DEF GenerateDevice
<1>4. /\ Known \in Nat /\ Known <= NumAvail
      /\ tree.pci \in Seq(D) /\ Len(tree.pci) \in Nat /\ Len(TraceRegions) \in Nat
    BY LenProperties, BootAssumption, EventsAssumption DEF Inv, Shape, TableShape, TreeTypes
<1>5. dev \in Nat
  <2>1. main.i + 1 \in 1 .. Known
      BY <1>1, <1>2, <1>4
  <2>2. pci_devs[main.i + 1] \in [slot : Slots, guest : Nat]
      BY <2>1 DEF Inv, Shape, TableShape
  <2> QED BY <2>2, <1>3
<1>6. Known' = Known /\ UNCHANGED <<pci_devs, pci_dev_count, want>> /\ Ready'
    BY <1>2, ReadyStays
<1>7. \/ ~r.ok /\ r.tree.pci = tree.pci
      \/ \E p \in {0} \cup fdt_reserved_memory_phandle(tree) :
            r.tree.pci = Append(tree.pci, Device(dev, p))
    BY <1>1, <1>3, PciDevice
<1>8. \A p \in {0} \cup fdt_reserved_memory_phandle(tree) : Device(dev, p) \in D
  <2>1. \A n \in tree.reserved : n.phandle \in 0 .. NoPhandle
      BY <1>1 DEF IsTree, Nodes
  <2>2. 0 \in 0 .. NoPhandle
      BY BootAssumption
  <2> QED BY <2>1, <2>2, <1>5 DEF fdt_reserved_memory_phandle, Device
<1> HIDE DEF D
<1>9. \A d \in D : Append(tree.pci, d) \in Seq(D)
    BY <1>4, AppendProperties
<1>10. tree'.pci \in Seq(D)
    BY <1>3, <1>4, <1>7, <1>8, <1>9
<1>11. CASE ~r.ok
  <2>1. result' = "failed" /\ main'.pc = "modules" /\ main'.i = 0
      BY <1>3, <1>11 DEF Configured, MainGoto
  <2>2. TreeInv'
      BY <2>1, <1>6 DEF TreeInv
  <2>3. main'.i <= NumAvail + Len(TraceRegions)
      BY <2>1, <1>4, EventsAssumption
  <2> QED BY <2>2, <2>3, <1>10 DEF TreeTypes, D
<1>12. CASE r.ok
  <2>1. main' = [pc |-> "pci", i |-> main.i + 1] /\ result' = result
      BY <1>3, <1>12
  <2>2. main'.pc = "pci" /\ main'.i = main.i + 1
      BY <2>1, <1>1
  <2>3. PICK d \in D : tree'.pci = Append(tree.pci, d) /\ d.dev = dev
    <3>1. PICK p \in {0} \cup fdt_reserved_memory_phandle(tree) :
              r.tree.pci = Append(tree.pci, Device(dev, p))
        BY <1>7, <1>12
    <3> QED BY <3>1, <1>3, <1>8 DEF Device
  <2>4. /\ Len(tree'.pci) = Len(tree.pci) + 1 /\ tree'.pci[Len(tree.pci) + 1] = d
        /\ \A n \in 1 .. Len(tree.pci) : tree'.pci[n] = tree.pci[n]
      BY <2>3, <1>4, AppendProperties
  <2>5. Len(tree'.pci) <= Known /\ main'.i = Len(tree'.pci)
      BY <2>2, <2>4, <1>1, <1>2, <1>4
  <2>6. \A n \in 1 .. Len(tree'.pci) : tree'.pci[n].dev = pci_devs[n].guest
    <3> SUFFICES ASSUME NEW n \in 1 .. Len(tree'.pci)
                 PROVE  tree'.pci[n].dev = pci_devs[n].guest
        OBVIOUS
    <3>1. CASE n = Len(tree.pci) + 1
      <4>1. tree'.pci[n].dev = dev
          BY <3>1, <2>3, <2>4
      <4> QED BY <4>1, <3>1, <1>2, <1>3
    <3>2. CASE n # Len(tree.pci) + 1
      <4>1. n \in 1 .. Len(tree.pci)
          BY <3>2, <2>4, <1>4
      <4> QED BY <4>1, <2>4, <1>2 DEF TreeInv
    <3> QED BY <3>1, <3>2
  <2>7. TreeInv'
      BY <2>1, <2>2, <2>5, <2>6, <1>2, <1>6 DEF TreeInv
  <2>8. main'.i <= NumAvail + Len(TraceRegions)
      BY <2>2, <1>1, <1>2, <1>4, EventsAssumption
  <2> QED BY <2>7, <2>8, <1>10 DEF TreeTypes, D
<1> QED BY <1>11, <1>12

(* What the other steps of the main thread leave of the tree. *)
LEMMA BootStepDeviceInv ==
    ASSUME BootInv, Inv, TreeInv, TreeTypes, UNCHANGED vars, BootStep
    PROVE  TreeInv' /\ TreeTypes'
<1>1. /\ main \in [pc : Labels, i : Nat] /\ IsTree(tree) /\ config \in Configs
    BY DEF BootInv, BootTypes
<1>2. /\ Known' = Known /\ UNCHANGED <<pci_devs, pci_dev_count, want>>
      /\ Ready => Ready'
    BY ReadyStays
<1>3. Len(TraceRegions) \in Nat /\ NumAvail \in Nat /\ NumAvail \in Nat \ {0}
    BY BootAssumption, EventsAssumption, LenProperties
<1>4. ASSUME NEW label, MainGoto(label)
      PROVE  main'.pc = label /\ main'.i = 0 /\ main'.i <= NumAvail + Len(TraceRegions)
  <2>1. main'.pc = label /\ main'.i = 0
      BY <1>4 DEF MainGoto
  <2> QED BY <2>1, <1>3
<1>5. CASE init_ram_module
  <2>1. main' = main /\ main.pc = "modules" /\ UNCHANGED <<config, tree, result>>
        /\ todo' = todo \ {"init_ram"}
      BY <1>5 DEF init_ram_module, Begin, MainAt
  <2> QED BY <2>1, <1>2 DEF TreeInv, TreeTypes
<1>6. CASE trace_init
  <2>1. MainGoto("trace") /\ main.pc = "modules" /\ UNCHANGED <<config, tree, result>>
        /\ todo' = todo \ {"trace"}
      BY <1>6 DEF trace_init, Begin, MainAt
  <2> QED BY <2>1, <1>2, <1>4 DEF TreeInv, TreeTypes
<1>7. CASE vpci_install \/ guest_configure
  <2>1. CASE MainGoto("install")
    <3>1. UNCHANGED <<config, tree, result>> /\ main.pc = "modules" /\ "vpci_install" \notin todo'
        BY <1>7 DEF vpci_install, guest_configure, Begin, MainAt
    <3>2. main'.pc = "install" /\ main'.i <= NumAvail + Len(TraceRegions)
        BY <2>1, <1>4
    <3> QED BY <3>1, <3>2, <1>2 DEF TreeInv, TreeTypes
  <2>2. CASE MainGoto("configure") /\ "vpci_install" \notin todo
    <3>1. UNCHANGED <<config, tree, result>> /\ main.pc = "modules"
        BY <1>7 DEF vpci_install, guest_configure, Begin, MainAt
    <3>2. main'.pc = "configure" /\ main'.i <= NumAvail + Len(TraceRegions)
        BY <2>2, <1>4
    <3> QED BY <3>1, <3>2, <2>2, <1>2 DEF TreeInv, TreeTypes
  <2> QED BY <1>7, <2>1, <2>2 DEF vpci_install, guest_configure, camkes_io_proxy_module_init
<1>8. CASE Installed
  <2>1. UNCHANGED <<config, todo, tree, result>> /\ main.pc = "install" /\ runner["main"].pc = "booted"
      BY <1>8 DEF Installed, MainAt
  <2>2. main'.pc \in {"modules", "configure"} /\ main'.i <= NumAvail + Len(TraceRegions)
      BY <1>8, <1>4 DEF Installed
  <2>3. Ready
    <3>1. want.atStart # -1 /\ want.atStart <= Known
        BY <2>1, BootedHasDevices DEF Main
    <3> QED BY <3>1 DEF Ready
  <2> QED BY <2>1, <2>2, <2>3, <1>2 DEF TreeInv, TreeTypes
<1>9. CASE StartGuest
  <2>1. MainGoto("started") /\ UNCHANGED <<config, todo, tree, result>> /\ main.pc = "modules"
      BY <1>9 DEF StartGuest, MainAt
  <2> QED BY <2>1, <1>2, <1>4 DEF TreeInv, TreeTypes
<1>10. CASE fdt_plat_customize_init \/ ModuleFails \/ NullDevice
  <2>1. UNCHANGED bootVars
      BY <1>10 DEF fdt_plat_customize_init, ModuleFails, NullDevice, Die
  <2> QED BY <2>1, <1>2 DEF bootVars, TreeInv, TreeTypes
<1>11. CASE fdt_generate_trace_nodes
  <2>1. main.pc = "trace" /\ UNCHANGED <<config, todo, result>> /\ tree'.pci = tree.pci
        /\ main'.pc \in {"trace", "modules"} /\ main'.i <= NumAvail + Len(TraceRegions)
    <3>1. main.pc = "trace" /\ main.i <= NumAvail + Len(TraceRegions)
        BY <1>11 DEF fdt_generate_trace_nodes, MainAt, TreeTypes
    <3>2. CASE main.i = Len(TraceRegions)
        BY <1>11, <3>1, <3>2, <1>4 DEF fdt_generate_trace_nodes
    <3>3. CASE main.i # Len(TraceRegions)
      <4>1. PICK reg : reg = TraceRegions[main.i + 1]
          OBVIOUS
      <4>2. PICK r \in TraceNode(reg) :
                IF r.ok
                THEN /\ tree' = r.tree
                     /\ main' = [main EXCEPT !.i = @ + 1]
                     /\ UNCHANGED <<vars, config, todo, guestRam, mapped, result>>
                ELSE Die
          BY <1>11, <3>3, <4>1 DEF fdt_generate_trace_nodes
      <4>3. CASE ~r.ok
          BY <4>2, <4>3, <3>1 DEF Die, bootVars
      <4>4. CASE r.ok
        <5>1. /\ tree' = r.tree /\ main' = [main EXCEPT !.i = @ + 1]
              /\ UNCHANGED <<config, todo, result>>
            BY <4>2, <4>4
        <5>2. main.i <= Len(TraceRegions)
            BY <3>1 DEF BootInv, Order
        <5>3. main'.pc = "trace" /\ main'.i <= NumAvail + Len(TraceRegions)
            BY <5>1, <5>2, <1>1, <1>3, <3>1, <3>3
        <5>4. r.tree.pci = tree.pci
          <6>1. CASE reg \notin config.traced
              BY <6>1, <4>2 DEF TraceNode
          <6>2. CASE reg \in config.traced
            <7>1. r \in fdt_generate_reserved_node(tree, reg, reg)
                BY <6>2, <4>2 DEF TraceNode
            <7>2. reg \in Traces /\ config.phandle \in 0 .. NoPhandle
                BY <6>2, <1>1, ConfigFacts
            <7>3. /\ IsTree(r.tree) /\ r.tree.pci = tree.pci
                  /\ \/ r.tree = tree /\ ~r.ok
                     \/ \E p \in 0 .. NoPhandle :
                           /\ r.tree.reserved = tree.reserved \cup {Node(reg, reg, p)}
                           /\ p = 0 => ~r.ok
                           /\ p # 0 => NewPhandle(tree, p)
                BY <7>1, <7>2, <1>1, ReservedNode
            <7> QED BY <7>3
          <6> QED BY <6>1, <6>2
        <5> QED BY <5>1, <5>3, <5>4, <3>1
      <4> QED BY <4>3, <4>4
    <3> QED BY <3>2, <3>3
  <2> QED BY <2>1, <1>2 DEF TreeInv, TreeTypes
<1>12. CASE NoTreeWanted
  <2>1. /\ main.pc = "configure" /\ UNCHANGED <<config, todo, tree>> /\ MainGoto("modules")
        /\ result' = "ok" /\ ~config.generate
      BY <1>12 DEF NoTreeWanted, MainAt, Configured
  <2>2. result = "none"
      BY <2>1 DEF BootInv, Order
  <2>3. main'.pc = "modules" /\ main'.i <= NumAvail + Len(TraceRegions)
      BY <2>1, <1>4
  <2> QED BY <2>1, <2>2, <2>3, <1>2 DEF TreeInv, TreeTypes
<1>13. CASE fdt_node_generate_compatibles
  <2>1. main.pc = "configure" /\ UNCHANGED <<config, todo>>
      BY <1>13 DEF fdt_node_generate_compatibles, MainAt
  <2>2. result = "none" /\ tree.pci = <<>>
      BY <2>1 DEF BootInv, Order, TreeInv
  <2>3. PICK r \in fdt_node_generate_swiotlb(tree) :
            /\ tree' = r.tree
            /\ IF r.ok THEN MainGoto("pci") /\ UNCHANGED result ELSE Configured(FALSE)
      BY <1>13 DEF fdt_node_generate_compatibles
  <2>4. r.tree.pci = tree.pci
    <3>1. CASE r \in fdt_generate_reserved_node(tree, "swiotlb", DataRegion)
      <4>1. PICK a \in {"swiotlb"} \cup Traces, b \in {"ram", "pool"} \cup Traces :
                a = "swiotlb" /\ b = DataRegion
          BY <1>1, ConfigFacts
      <4>2. r \in fdt_generate_reserved_node(tree, a, b)
          BY <3>1, <4>1
      <4>3. config.phandle \in 0 .. NoPhandle
          BY <1>1, ConfigFacts
      <4> QED BY <4>2, <4>3, <1>1, ReservedNode
    <3>2. CASE r = [tree |-> tree, ok |-> TRUE]
        BY <3>2
    <3> QED BY <2>3, <3>1, <3>2 DEF fdt_node_generate_swiotlb
  <2>5. \/ result' = "none" /\ main'.pc = "pci"
        \/ result' = "failed" /\ main'.pc = "modules"
      BY <2>2, <2>3, <1>4 DEF Configured
  <2>6. main'.i = 0 /\ main'.i <= NumAvail + Len(TraceRegions)
      BY <2>3, <1>4 DEF Configured
  <2>7. Len(tree'.pci) = 0 /\ tree'.pci = tree.pci
      BY <2>2, <2>3, <2>4
  <2> QED BY <2>1, <2>2, <2>5, <2>6, <2>7, <1>2 DEF TreeInv, TreeTypes
<1>14. CASE fdt_node_generate_all
  <2>1. /\ main.pc = "pci" /\ UNCHANGED <<config, todo, tree>> /\ MainGoto("modules")
        /\ result' = "ok" /\ main.i >= pci_dev_count
      BY <1>14 DEF fdt_node_generate_all, MainAt, Configured
  <2>2. result = "none" /\ Ready /\ main.i = Len(tree.pci)
      BY <2>1 DEF BootInv, Order, TreeInv
  <2>3. main'.pc = "modules" /\ main'.i <= NumAvail + Len(TraceRegions)
      BY <2>1, <1>4
  <2>4. want.atStart <= Len(tree.pci)
    <3>1. /\ Known \in Nat /\ pci_dev_count \in Nat /\ Known <= pci_dev_count
          /\ Len(tree.pci) \in Nat /\ want.atStart \in Nat \cup {-1}
        BY LenProperties, KnownAreCounted DEF Inv, Shape, WantType, TreeTypes
    <3> QED BY <3>1, <2>1, <2>2 DEF Ready
  <2> QED BY <2>1, <2>2, <2>3, <2>4, <1>2 DEF TreeInv, TreeTypes
<1>15. CASE fdt_generate_pci_config
  <2>1. /\ main.pc = "pci" /\ UNCHANGED <<config, todo, tree, result>>
        /\ main' = [main EXCEPT !.pc = "device"] /\ main.i < pci_dev_count
      BY <1>15 DEF fdt_generate_pci_config, MainAt
  <2>2. main'.pc = "device" /\ main'.i = main.i
      BY <2>1, <1>1
  <2> QED BY <2>1, <2>2, <1>2 DEF TreeInv, TreeTypes
<1> QED BY <1>5, <1>6, <1>7, <1>8, <1>9, <1>10, <1>11, <1>12, <1>13, <1>14, <1>15,
           GenerateDeviceDeviceInv DEF BootStep

(* DeviceInv is inductive relative to BootInv. *)
LEMMA DeviceNextInv ==
    ASSUME BootInv, DeviceInv, [BootNext]_allVars
    PROVE  DeviceInv'
<1>1. config' = config
  <2>1. CASE UNCHANGED bootVars
      BY <2>1 DEF bootVars
  <2>2. CASE BootStep /\ ~UNCHANGED bootVars
    <3>1. ~Die
        BY <2>2 DEF Die
    <3>2. CASE fdt_generate_trace_nodes
        BY <3>1, <3>2, Zenon DEF fdt_generate_trace_nodes
    <3>3. CASE init_ram_module \/ trace_init \/ vpci_install \/ Installed \/ guest_configure
        BY <3>3 DEF init_ram_module, trace_init, vpci_install, Installed, guest_configure
    <3>4. CASE NoTreeWanted \/ fdt_node_generate_compatibles \/ fdt_generate_pci_config
               \/ GenerateDevice \/ fdt_node_generate_all \/ StartGuest
        BY <3>4 DEF NoTreeWanted, fdt_node_generate_compatibles, fdt_generate_pci_config,
                    GenerateDevice, fdt_node_generate_all, StartGuest
    <3>5. ~fdt_plat_customize_init /\ ~ModuleFails /\ ~NullDevice
        BY <3>1 DEF fdt_plat_customize_init, ModuleFails, NullDevice
    <3> QED BY <2>2, <3>2, <3>3, <3>4, <3>5 DEF BootStep
  <2> QED BY <2>1, <2>2, StepKinds
<1> SUFFICES ASSUME Calm
             PROVE  Inv' /\ TreeInv' /\ TreeTypes'
    BY <1>1 DEF DeviceInv, Calm
<1>2. Inv /\ TreeInv /\ TreeTypes
    BY DEF DeviceInv
<1>3. CASE UNCHANGED bootVars /\ EventStep
  <2>1. Inv' /\ Grows
      BY <1>2, <1>3, EventStepInv, DevicesGrow
  <2>2. TreeInv'
      BY <1>2, <1>3, <2>1, TreeGrows
  <2>3. TreeTypes'
      BY <1>2, <1>3 DEF bootVars, TreeTypes
  <2> QED BY <2>1, <2>2, <2>3
<1>4. CASE BootStep /\ UNCHANGED vars
    BY <1>2, <1>4, StutterInv, BootStepDeviceInv
<1> QED BY <1>3, <1>4, StepKinds

LEMMA DeviceInvariance == BootSpec => [](BootInv /\ DeviceInv)
<1>1. BootInit => BootInv /\ DeviceInv
    BY BootInitInv, DeviceInitInv
<1>2. BootInv /\ DeviceInv /\ [BootNext]_allVars => (BootInv /\ DeviceInv)'
    BY BootNextInv, DeviceNextInv
<1> QED BY <1>1, <1>2, PTL DEF BootSpec

(* The guest of a backend that waited its turn finds each device that was  *)
(* sent before START_VM in its tree, once: fdt_generate_pci_config runs    *)
(* over pci_devs only when the notification thread has put them there, and *)
(* what is registered meanwhile goes behind them.                          *)
THEOREM DevicesAreInTree == BootSpec => []DevicesInTree
<1>1. ASSUME BootInv, DeviceInv
      PROVE  DevicesInTree
  <2> SUFFICES ASSUME Started, result = "ok", config.generate, config.patient,
                      NEW i \in 1 .. want.atStart
               PROVE  Cardinality({n \in DOMAIN tree.pci : tree.pci[n].dev = pci_devs[i].guest}) = 1
      BY DEF DevicesInTree
  <2>1. Inv /\ TreeInv /\ TreeTypes
      BY <1>1 DEF DeviceInv, Calm
  <2>2. /\ Len(tree.pci) \in Nat /\ DOMAIN tree.pci = 1 .. Len(tree.pci)
        /\ Known \in Nat /\ want.atStart \in Nat \cup {-1}
      BY <2>1, LenProperties, KnownAreCounted DEF Inv, Shape, WantType, TreeTypes
  <2>3. /\ want.atStart <= Len(tree.pci) /\ Len(tree.pci) <= Known
        /\ \A n \in 1 .. Len(tree.pci) : tree.pci[n].dev = pci_devs[n].guest
      BY <2>1 DEF TreeInv
  <2>4. \A n, m \in 1 .. Known : pci_devs[n].guest = pci_devs[m].guest => n = m
    <3>1. DOMAIN devs = 1 .. Known /\ \A n \in 1 .. Known : devs[n] = pci_devs[n]
        BY <2>1, TableFacts DEF Inv, Shape
    <3>2. \A n, m \in DOMAIN devs : devs[n].guest = devs[m].guest => n = m
        BY <2>1 DEF Inv, Shape, BusNumbers
    <3> HIDE DEF devs
    <3> QED BY <3>1, <3>2
  <2>5. i \in DOMAIN tree.pci /\ i \in 1 .. Known /\ DOMAIN tree.pci \subseteq 1 .. Known
      BY <2>2, <2>3
  <2>6. {n \in DOMAIN tree.pci : tree.pci[n].dev = pci_devs[i].guest} = {i}
      BY <2>2, <2>3, <2>4, <2>5
  <2> QED BY <2>6, FS_Singleton
<1> QED BY <1>1, DeviceInvariance, PTL

(* fdt_generate_pci_config reads through no NULL entry of pci_devs for a   *)
(* backend that waited its turn and registers nothing after START_VM:      *)
(* every entry that is counted when the loop runs is also set.             *)
THEOREM LoopFindsDevices == BootSpec => []NoNullDevice
<1>1. ASSUME BootInv, DeviceInv
      PROVE  NoNullDevice
  <2> SUFFICES ASSUME main.pc = "device", config.patient, want.devs = want.atStart
               PROVE  pci_devs[main.i + 1] # NoDev
      BY DEF NoNullDevice
  <2>1. Inv /\ TreeInv /\ main.i \in Nat /\ "vpci_install" \notin todo
      BY <1>1 DEF DeviceInv, Calm, BootInv, BootTypes, Order
  <2>2. want.devs <= Known /\ main.i < pci_dev_count
      BY <2>1 DEF TreeInv, Ready
  <2>3. Known = pci_dev_count
      BY <2>1, <2>2, NoneRegistering DEF Known, Registering
  <2>4. Known \in Nat /\ \A i \in 1 .. Known : pci_devs[i] # NoDev
      BY <2>1, KnownAreCounted, EntriesAreSet DEF Inv, Shape
  <2>5. main.i + 1 \in 1 .. Known
      BY <2>1, <2>2, <2>3, <2>4
  <2> QED BY <2>4, <2>5
<1> QED BY <1>1, DeviceInvariance, PTL

(* The variables have their types for a backend that keeps quiet until the *)
(* main thread waits: the loop over pci_devs stays within the table.       *)
THEOREM BootTypeCorrect ==
    ASSUME LateDevice \/ \A c \in Configs : c.patient
    PROVE  BootSpec => []BootTypeOK
<1>1. ASSUME BootInv, DeviceInv
      PROVE  BootTypeOK
  <2>1. BootTypes /\ TreeTypes
    <3>1. Calm
        BY <1>1 DEF BootInv, BootTypes, Calm
    <3> QED BY <3>1, <1>1 DEF BootInv, DeviceInv
  <2>2. main \in [pc : Labels, i : 0 .. NumAvail + Len(TraceRegions)]
    <3>1. main \in [pc : Labels, i : Nat] /\ main.i <= NumAvail + Len(TraceRegions)
        BY <2>1 DEF BootTypes, TreeTypes
    <3>2. NumAvail \in Nat /\ Len(TraceRegions) \in Nat
        BY EventsAssumption, BootAssumption, LenProperties
    <3> QED BY <3>1, <3>2
  <2> QED BY <2>1, <2>2 DEF BootTypes, TreeTypes, BootTypeOK, IsTree, Nodes, Traces, Labels
<1> QED BY <1>1, DeviceInvariance, PTL
=============================================================================
