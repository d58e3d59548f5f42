----------------------------- MODULE GuestBoot -----------------------------
(***************************************************************************)
(* How the VMM of a driver VM builds its guest, around the device events   *)
(* of DeviceEvents: RAM from dataports (src/ram_dataport.c), the device    *)
(* tree (src/fdt.c, src/plat/rpi4/fdt.c) and the configuration of the      *)
(* guest (src/guest_linux.c, src/camkes/modules).                          *)
(*                                                                         *)
(* The main thread runs the VMM's modules in an order nothing fixes.       *)
(* guest_config brings up the virtual PCI bus, and with it the backend's   *)
(* io_proxy, waits there for START_VM, and then generates a DMA pool and a *)
(* node for every device in pci_devs, which the notification thread may    *)
(* still be changing.  Every call of libfdt may fail, for want of space or *)
(* of the parent node.                                                     *)
(*                                                                         *)
(* A reserved-memory node is known by its name, a prefix and an address.   *)
(* "ram" and "pool" stand for the addresses of the guest's RAM and of a    *)
(* dataport beside it; the trace regions are neither.                      *)
(***************************************************************************)
EXTENDS DeviceEvents, SequencesExt

CONSTANTS
    NoPhandle,     \* (uint32_t) -1
    BootEvents,    \* bound: the events that a behaviour has
    Configs,       \* bound: what the VM may be configured with
    TraceRegions   \* regions of the trace module, in the order of its nodes

(* generate  is vm_config.generate_dtb; without it there is no tree to add *)
(*           to;                                                           *)
(* poolIsRam the backend's dataport is all of the guest's RAM (data_base   *)
(*           and data_size are those of vm_config.ram) or a pool beside it;*)
(* patient   the backend sends nothing before the main thread waits;       *)
(* traced    the trace regions that are configured, of a tracing build;    *)
(* phandle   the greatest phandle of the tree the VMM starts from.         *)
AllConfigs == [generate : BOOLEAN, poolIsRam : BOOLEAN, patient : BOOLEAN,
               traced : SUBSET ToSet(TraceRegions), phandle : 0 .. NoPhandle]

ASSUME BootAssumption ==
    /\ NoPhandle \in Nat \ {0}
    /\ BootEvents \subseteq Events
    /\ TraceRegions \in Seq(STRING) /\ ToSet(TraceRegions) \cap {"ram", "pool"} = {}
    /\ Configs \subseteq AllConfigs

(* fdt_plat_customize runs among them and leaves nothing that a property   *)
(* is about: it can only fail.                                             *)
Modules == {"init_ram", "trace", "vpci_install", "guest_config"}

VARIABLES
    config,   \* what the VM is configured with
    todo,     \* the modules that have not run
    main,     \* the main thread: pc, and the index of a loop
    guestRam, \* guest_ram_base: the region it names, or "none"
    mapped,   \* the regions with frames in the guest's address space
    tree,     \* the generated device tree: reserved-memory nodes, PCI devices
    result    \* what guest_configure has returned: "none", "ok" or "failed"

bootVars == <<config, todo, main, guestRam, mapped, tree, result>>
allVars  == <<vars, bootVars>>

BootInit ==
    /\ Init
    /\ config \in Configs
    /\ todo = Modules
    /\ main = [pc |-> "modules", i |-> 0]
    /\ guestRam = "none"
    /\ mapped = {}
    /\ tree = [reserved |-> {}, pci |-> <<>>]
    /\ result = "none"

(* The region of the backend's dataport: io_proxy->data_base. *)
DataRegion == IF config.poolIsRam THEN "ram" ELSE "pool"

MainAt(label) == ~aborted /\ main.pc = label

MainGoto(label) == main' = [pc |-> label, i |-> 0]

(* ZF_LOGF ends the component. *)
Die == aborted' = TRUE /\ UNCHANGED <<events, bell, ringing, runner, registry, boot, want, bootVars>>

-----------------------------------------------------------------------------
(* What libfdt makes of the tree.                                          *)

(* Mutant: the greatest phandle is not looked at. *)
fdt_assign_phandle_Wraps(max) == (max + 1) % (NoPhandle + 1)

(* The phandle that a node gets, or 0: -FDT_ERR_NOPHANDLES. *)
fdt_assign_phandle(max) == IF max >= NoPhandle - 1 THEN 0 ELSE max + 1

fdt_get_max_phandle(t) ==
    CHOOSE p \in {config.phandle} \cup {n.phandle : n \in t.reserved} :
        \A n \in t.reserved : config.phandle <= p /\ n.phandle <= p

(* What fdt_generate_reserved_node may leave behind: nothing, a node that  *)
(* has no phandle, or one that has; only in the last case may it have been *)
(* successful, with the "memory" node that goes with it.                   *)
fdt_generate_reserved_node(t, prefix, base) ==
    LET With(p) == [t EXCEPT !.reserved = @ \cup {[prefix |-> prefix, base |-> base, phandle |-> p]}]
        phandle == fdt_assign_phandle(fdt_get_max_phandle(t))
        Exists  == \E n \in t.reserved : n.prefix = prefix /\ n.base = base
    IN  {[tree |-> t, ok |-> FALSE]}
        \cup IF ~config.generate \/ Exists THEN {}
             ELSE {[tree |-> With(0), ok |-> FALSE]}
                  \cup IF phandle = 0 THEN {}
                       ELSE [tree : {With(phandle)}, ok : BOOLEAN]

(* A backend whose dataport is the guest's RAM needs no pool. *)
fdt_node_generate_swiotlb(t) ==
    IF DataRegion = guestRam
    THEN {[tree |-> t, ok |-> TRUE]}
    ELSE fdt_generate_reserved_node(t, "swiotlb", DataRegion)

(* The phandles of the pool of a device, if there is one to be found. *)
fdt_reserved_memory_phandle(t) ==
    {n.phandle : n \in {m \in t.reserved : m.prefix = "swiotlb" /\ m.base = DataRegion}} \ {0}

(* No node for the device, one that is not complete, or one. *)
fdt_generate_pci_node(t, dev) ==
    LET With == [t EXCEPT !.pci = Append(@, [dev |-> dev, region |-> 0])]
    IN  {[tree |-> t, ok |-> FALSE]} \cup [tree : {With}, ok : BOOLEAN]

(* The newest node gets the pool as its memory-region, or there is no room *)
(* for the property.  A pool that is not found is no error.                *)
fdt_assign_reserved_memory(t) ==
    LET pools == fdt_reserved_memory_phandle(t)
    IN  IF pools = {} THEN {[tree |-> t, ok |-> TRUE]}
        ELSE {[tree |-> t, ok |-> FALSE]}
             \cup {[tree |-> [t EXCEPT !.pci[Len(t.pci)].region = p], ok |-> TRUE] : p \in pools}

GeneratePciDevice(t, dev) ==
    UNION {IF r.ok THEN fdt_assign_reserved_memory(r.tree) ELSE {r} :
              r \in fdt_generate_pci_node(t, dev)}

-----------------------------------------------------------------------------
(* The modules.                                                            *)
Begin(module) ==
    /\ MainAt("modules")
    /\ module \in todo
    /\ todo' = todo \ {module}

(* The regions of the dataports: the one backend's. *)
ram_dataport_setup == {DataRegion}

(* Mutant: no dataport is mapped. *)
ram_dataport_map_all_Skips(regions) == regions

ram_dataport_map_all(regions) == regions \cup ram_dataport_setup

(* The dataport is mapped, and RAM is registered if that was not RAM. *)
init_ram_module ==
    /\ Begin("init_ram")
    /\ mapped' = ram_dataport_map_all(mapped) \cup {"ram"}
    /\ UNCHANGED <<vars, config, main, guestRam, tree, result>>

(* Frames that the guest and the VMM share. *)
trace_init_shared_mem(regions) == regions \cup config.traced

(* trace_init: the memory, and then a node for each region. *)
trace_init ==
    /\ Begin("trace")
    /\ mapped' = trace_init_shared_mem(mapped)
    /\ MainGoto("trace")
    /\ UNCHANGED <<vars, config, guestRam, tree, result>>

(* A region that is not configured has no node. *)
TraceNode(region) ==
    IF region \in config.traced THEN fdt_generate_reserved_node(tree, region, region)
    ELSE {[tree |-> tree, ok |-> TRUE]}

fdt_generate_trace_nodes ==
    /\ MainAt("trace")
    /\ IF main.i = Len(TraceRegions)
       THEN MainGoto("modules") /\ UNCHANGED <<vars, config, todo, guestRam, mapped, tree, result>>
       ELSE \E r \in TraceNode(TraceRegions[main.i + 1]) :
               IF r.ok
               THEN /\ tree' = r.tree
                    /\ main' = [main EXCEPT !.i = @ + 1]
                    /\ UNCHANGED <<vars, config, todo, guestRam, mapped, result>>
               ELSE Die

(* Whether libfdt has room for the USB node, if the tree has its parent. *)
fdt_plat_customize == BOOLEAN

fdt_plat_customize_init ==
    /\ MainAt("modules") /\ config.generate
    /\ \E ok \in fdt_plat_customize : ~ok
    /\ Die

(* Another step of a module has not worked: ZF_LOGF. *)
ModuleFails ==
    /\ MainAt("modules")
    /\ \/ todo \cap {"init_ram", "vpci_install"} # {}
       \/ "trace" \in todo /\ config.traced # {}
    /\ Die

(* Mutant: guest_ram_base is taken from the backend's dataport. *)
camkes_io_proxy_module_init_DataBase ==
    /\ guestRam' = DataRegion
    /\ MainGoto("install")

(* camkes_io_proxy_module_init, on which the virtual PCI bus depends, in   *)
(* its turn or as part of guest_config.                                    *)
camkes_io_proxy_module_init ==
    /\ guestRam' = "ram"
    /\ MainGoto("install")

vpci_install ==
    /\ Begin("vpci_install")
    /\ camkes_io_proxy_module_init
    /\ UNCHANGED <<vars, config, mapped, tree, result>>

(* libsel4vm_io_proxy_init has returned. *)
Installed ==
    /\ MainAt("install")
    /\ runner["main"].pc = "booted"
    /\ MainGoto(IF "guest_config" \in todo THEN "modules" ELSE "configure")
    /\ UNCHANGED <<vars, config, todo, guestRam, mapped, tree, result>>

-----------------------------------------------------------------------------
(* guest_configure.                                                        *)

(* Mutant: the tree is built before the bus is up. *)
guest_configure_TooSoon ==
    /\ Begin("guest_config")
    /\ MainGoto("configure")
    /\ UNCHANGED <<vars, config, guestRam, mapped, tree, result>>

guest_configure ==
    /\ MainAt("modules")
    /\ "guest_config" \in todo
    /\ todo' = todo \ {"guest_config", "vpci_install"}
    /\ IF "vpci_install" \in todo
       THEN camkes_io_proxy_module_init
       ELSE MainGoto("configure") /\ UNCHANGED guestRam
    /\ UNCHANGED <<vars, config, mapped, tree, result>>

(* Its return, to a module that logs an error and goes on. *)
Configured(ok) ==
    /\ result' = IF ok THEN "ok" ELSE "failed"
    /\ MainGoto("modules")

(* vmm_module_init_by_name has found its module, which the VMM has: that   *)
(* of the io_proxy is declared to depend on it.  No tree is wanted.        *)
NoTreeWanted ==
    /\ MainAt("configure") /\ ~config.generate
    /\ Configured(TRUE)
    /\ UNCHANGED <<vars, config, todo, guestRam, mapped, tree>>

(* Mutant: the pools come after the devices. *)
fdt_node_generate_compatibles_Late ==
    /\ MainAt("configure") /\ config.generate
    /\ MainGoto("pci")
    /\ UNCHANGED <<vars, config, todo, guestRam, mapped, tree, result>>

fdt_node_generate_compatibles ==
    /\ MainAt("configure") /\ config.generate
    /\ \E r \in fdt_node_generate_swiotlb(tree) :
          /\ tree' = r.tree
          /\ IF r.ok THEN MainGoto("pci") /\ UNCHANGED result ELSE Configured(FALSE)
    /\ UNCHANGED <<vars, config, todo, guestRam, mapped>>

(* The loop over pci_devs reads the count ... *)
fdt_generate_pci_config ==
    /\ MainAt("pci")
    /\ main.i < pci_dev_count
    /\ main' = [main EXCEPT !.pc = "device"]
    /\ UNCHANGED <<vars, config, todo, guestRam, mapped, tree, result>>

(* Mutant: the loop leaves the first device out. *)
GenerateDevice_FromOne ==
    /\ MainAt("device")
    /\ pci_devs[main.i + 1] # NoDev
    /\ \E r \in IF main.i = 0 THEN {[tree |-> tree, ok |-> TRUE]}
                ELSE GeneratePciDevice(tree, pci_devs[main.i + 1].guest) :
          /\ tree' = r.tree
          /\ IF r.ok THEN main' = [pc |-> "pci", i |-> main.i + 1] /\ UNCHANGED result
             ELSE Configured(FALSE)
    /\ UNCHANGED <<vars, config, todo, guestRam, mapped>>

(* ... then the entry ... *)
GenerateDevice ==
    /\ MainAt("device")
    /\ pci_devs[main.i + 1] # NoDev
    /\ \E r \in GeneratePciDevice(tree, pci_devs[main.i + 1].guest) :
          /\ tree' = r.tree
          /\ IF r.ok THEN main' = [pc |-> "pci", i |-> main.i + 1] /\ UNCHANGED result
             ELSE Configured(FALSE)
    /\ UNCHANGED <<vars, config, todo, guestRam, mapped>>

(* ... which may be counted and not set yet: the VMM faults. *)
NullDevice ==
    /\ MainAt("device")
    /\ pci_devs[main.i + 1] = NoDev
    /\ Die

(* The end of the loop.  fdt_node_generate_all has no filter and therefore *)
(* generates no node.                                                      *)
fdt_node_generate_all ==
    /\ MainAt("pci")
    /\ main.i >= pci_dev_count
    /\ Configured(TRUE)
    /\ UNCHANGED <<vars, config, todo, guestRam, mapped, tree>>

(* load_linux and the first instruction of the guest. *)
StartGuest ==
    /\ MainAt("modules")
    /\ todo = {}
    /\ MainGoto("started")
    /\ UNCHANGED <<vars, config, todo, guestRam, mapped, tree, result>>

-----------------------------------------------------------------------------
BootStep ==
    \/ init_ram_module \/ trace_init \/ fdt_generate_trace_nodes
    \/ fdt_plat_customize_init \/ ModuleFails
    \/ vpci_install \/ Installed
    \/ guest_configure \/ NoTreeWanted
    \/ fdt_node_generate_compatibles \/ fdt_generate_pci_config
    \/ GenerateDevice \/ NullDevice \/ fdt_node_generate_all
    \/ StartGuest

(* The backend: it may send as soon as it has the shared memory, whose     *)
(* event queue the driver VM does not reset.                               *)
Backend(A) == A /\ UNCHANGED bootVars

(* The driver VM takes events once its io_proxy has been initialised and   *)
(* the notification callback is registered.                                *)
Listening(A) == guestRam # "none" /\ A /\ UNCHANGED bootVars

BootNext ==
    \/ /\ config.patient => MainWaits
       /\ \E e \in BootEvents : Backend(device_event_tx(e))
    \/ Backend(vso_doorbell) \/ Listening(ntfn_callback)
    \/ \E r \in Runners : Listening(rpc_run(r))
    \/ Listening(OkToRun) \/ Listening(sync_sem_wait)
    \/ BootStep
    \/ Halted /\ UNCHANGED bootVars

BootSpec == BootInit /\ [][BootNext]_allVars

(* Threads of the driver VM are scheduled; the device need not send. *)
BootFairness ==
    /\ WF_allVars(Backend(vso_doorbell)) /\ WF_allVars(Listening(ntfn_callback))
    /\ \A r \in Runners : WF_allVars(Listening(rpc_run(r)))
    /\ WF_allVars(Listening(OkToRun \/ sync_sem_wait))
    /\ WF_allVars(BootStep)

BootFairSpec == BootSpec /\ BootFairness

-----------------------------------------------------------------------------
Started == main.pc = "started" /\ ~aborted

(* The variables have their types. *)
BootTypeOK ==
    /\ config \in Configs
    /\ todo \subseteq Modules
    /\ main \in [pc : {"modules", "trace", "install", "configure", "pci", "device", "started"},
                 i : 0 .. NumAvail + Len(TraceRegions)]
    /\ guestRam \in {"none", "ram"}
    /\ mapped \subseteq {"ram", "pool"} \cup ToSet(TraceRegions)
    /\ tree.reserved \subseteq [prefix : {"swiotlb"} \cup ToSet(TraceRegions),
                                base : {"ram", "pool"} \cup ToSet(TraceRegions),
                                phandle : 0 .. NoPhandle]
    /\ tree.pci \in Seq([dev : Nat, region : 0 .. NoPhandle])
    /\ result \in {"none", "ok", "failed"}

(* The guest of a backend that waited its turn finds in its device tree    *)
(* every device that was sent before START_VM, once each, if the           *)
(* configuration succeeded: none is missed between pcidev_register on one  *)
(* thread and fdt_generate_pci_config on the other.                        *)
DevicesInTree ==
    Started /\ result = "ok" /\ config.generate /\ config.patient =>
        \A i \in 1 .. want.atStart :
            Cardinality({n \in DOMAIN tree.pci : tree.pci[n].dev = pci_devs[i].guest}) = 1

(* The loop over pci_devs meets no entry that is counted and not yet set,  *)
(* whose fields the VMM would read through NULL, if the backend waited its *)
(* turn and has registered no device after START_VM.                       *)
NoNullDevice ==
    main.pc = "device" /\ config.patient /\ want.devs = want.atStart =>
        pci_devs[main.i + 1] # NoDev

(* If the configuration succeeded, every device of the tree does its DMA   *)
(* through the memory that the device VM has mapped: its memory-region is  *)
(* the node of the backend's dataport, or that dataport is all of RAM.     *)
(* fdt_assign_reserved_memory takes a missing pool for the second case.    *)
DevicesUsePool ==
    Started /\ result = "ok" =>
        \A n \in DOMAIN tree.pci :
            \/ config.poolIsRam
            \/ [prefix |-> "swiotlb", base |-> "pool", phandle |-> tree.pci[n].region] \in tree.reserved

(* fdt_node_generate_swiotlb compares with the RAM of vm_config: the       *)
(* guest's own RAM is never declared to it as a DMA pool.                  *)
RamIsNoPool == \A n \in tree.reserved : n.base # "ram"

(* fdt_assign_phandle gives no phandle twice, none that the tree came      *)
(* with, and not (uint32_t) -1, however near the end of the range.         *)
PhandlesDistinct ==
    \A n \in {m \in tree.reserved : m.phandle # 0} :
        /\ n.phandle \in config.phandle + 1 .. NoPhandle - 1
        /\ \A m \in tree.reserved : m.phandle = n.phandle => m = n

(* The guest starts with frames behind its RAM and behind all memory that  *)
(* its device tree reserves for a pool or a trace.                         *)
MemoryIsBacked ==
    Started => "ram" \in mapped /\ \A n \in tree.reserved : n.base \in mapped

(* camkes_guest_configure does not return when guest_configure has failed: *)
(* the guest that starts is a configured one.                              *)
StartsConfigured == Started => result = "ok"

(* A driver VM whose backend has sent START_VM starts its guest, or its    *)
(* VMM has died: neither the event nor the wakeup of                       *)
(* io_proxy_wait_for_backend is lost, in whatever order the modules run.   *)
GuestStarts == want.atStart # -1 ~> main.pc = "started" \/ aborted

=============================================================================
