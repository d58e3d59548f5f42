---------------------------- MODULE DeviceEvents ----------------------------
(***************************************************************************)
(* What a device VM asks of its driver VM through the event queue, and the *)
(* boot of the driver VM: rpc_run, rpc_process and the callbacks of        *)
(* src/libsel4vm_glue.c, src/emulated_device.c with the reservations, the  *)
(* MSI frame (src/gicv2m.c, src/plat) and the wait for the backend in      *)
(* src/io_proxy.c.                                                         *)
(*                                                                         *)
(* Two threads run rpc_run: the main thread once, before it waits for      *)
(* START_VM, and the notification thread on every doorbell.  The device    *)
(* may send while the main thread is still at it (EarlyDevice), and then   *)
(* the two take events at the same time.                                   *)
(***************************************************************************)
EXTENDS Integers, Sequences, FiniteSets

CONSTANTS
    Slots,        \* PCI slots of the backend; as interrupts, irq_is_pci
    MsiBase,      \* irq_base of the MSI frame
    NumMsi,       \* num_irq of the MSI frame
    GuestData,    \* what the guest writes to the frame's SETSPI register
    SpiSpan,      \* 0x3ff + 1
    WordSpan,     \* 2^32
    EmuIrqs,      \* the other interrupts: emulated devices
    Regions,      \* MMIO regions, pairwise disjoint
    NumPins,      \* PCI_NUM_PINS
    NumAvail,     \* PCI_NUM_AVAIL_DEVICES
    QueueSize,    \* events in flight
    MaxEvents,    \* bound: events a behaviour has
    EarlyDevice   \* may the device send before the main thread waits?

MsiIrqs == MsiBase .. MsiBase + NumMsi - 1

ASSUME EventsAssumption ==
    /\ NumPins \in Nat \ {0} /\ NumAvail \in Nat \ {0} /\ QueueSize \in Nat \ {0}
    /\ MaxEvents \in Nat
    /\ MsiBase \in Nat /\ NumMsi \in Nat /\ MsiBase + NumMsi <= SpiSpan
    /\ SpiSpan \in Nat \ {0} /\ WordSpan \in Nat /\ SpiSpan < WordSpan
    /\ GuestData \subseteq Nat
    /\ EarlyDevice \in BOOLEAN
    /\ IsFiniteSet(Slots \cup MsiIrqs \cup EmuIrqs \cup Regions)
    /\ -1 \notin Slots /\ Slots \cap (MsiIrqs \cup EmuIrqs) = {} /\ MsiIrqs \cap EmuIrqs = {}

Irqs    == Slots \cup MsiIrqs \cup EmuIrqs
Pins    == 0 .. NumPins - 1
Runners == {"main", "ntfn"}
IrqOps  == {"set", "clr", "pulse"}

(* What the device can send.  "unknown" is an operation no callback knows. *)
Events ==
    [op : {"irq"}, irq : Irqs, arg : IrqOps]
    \cup [op : {"register"}, slot : Slots]
    \cup [op : {"assign", "free"}, region : Regions]
    \cup [op : {"start"}] \cup [op : {"unknown"}]

VARIABLES
    events,    \* the event queue
    bell,      \* a notification for the driver VM is pending
    ringing,   \* the device has sent an event and not yet rung
    runner,    \* per thread: pc, the event, the index read from pci_dev_count
    pci_devs,  \* the table of devices: slot in the backend, in the guest
    pci_dev_count,
    nextDev,   \* next device number on the guest's virtual PCI bus
    sources,   \* per INTx pin, the guest slots that hold it active
    level,     \* per INTx pin and interrupt, the level at the interrupt controller
    irqs,      \* the list of interrupt reservations
    mmio,      \* the list of MMIO reservations
    reserved,  \* the regions reserved in the VM
    okToRun,   \* ok_to_run
    started,   \* count of the semaphore backend_started
    aborted,   \* has the VMM component died?
    want       \* history: what the device has asked for

table    == <<pci_devs, pci_dev_count>>
registry == <<table, nextDev, sources, level, irqs, mmio, reserved>>
boot     == <<okToRun, started>>
vars     == <<events, bell, ringing, runner, registry, boot, aborted, want>>

(* The lines that irq_init, v2m_init and, when it is asked for one,        *)
(* irq_res_assign register with the VM.                                    *)
PinLines   == {<<"intx", p>> : p \in Pins}
FrameLines == {<<"spi", i>> : i \in MsiIrqs}
Lines      == PinLines \cup FrameLines \cup {<<"spi", i>> : i \in EmuIrqs}

NoEvent == [op |-> "none"]

(* A NULL pointer in pci_devs. *)
NoDev == [slot |-> -1, guest |-> 0]

(* The code's index i is TableIndices' i + 1.  There is one more than the  *)
(* table has: what lies behind it, which two registrations that are let in *)
(* at the same time can come to.                                           *)
TableIndices == 1 .. NumAvail + 1

Init ==
    /\ events = <<>> /\ bell = FALSE /\ ringing = FALSE
    /\ runner = [r \in Runners |-> [pc |-> IF r = "main" THEN "receive" ELSE "wait",
                                    ev |-> NoEvent, index |-> 0, dev |-> 0]]
    /\ pci_devs = [i \in TableIndices |-> NoDev] /\ pci_dev_count = 0 /\ nextDev = 1
    /\ sources = [p \in Pins |-> {}]
    /\ level = [l \in Lines |-> FALSE]
    /\ irqs = <<>> /\ mmio = {} /\ reserved = {}
    /\ okToRun = FALSE /\ started = 0 /\ aborted = FALSE
    /\ want = [level |-> [i \in Irqs |-> FALSE], devs |-> 0, mmio |-> {}, atStart |-> -1,
               sent |-> 0]

-----------------------------------------------------------------------------
(* The device side: device_event_tx and its doorbell.                      *)

(* What is asked for, and how many events have been sent, with e. *)
Wanted(w, e) ==
    [level   |-> IF e.op = "irq"
                 THEN [w.level EXCEPT ![e.irq] = e.arg = "set" /\ e.irq \notin MsiIrqs]
                 ELSE w.level,
     devs    |-> IF e.op = "register" THEN w.devs + 1 ELSE w.devs,
     mmio    |-> IF e.op = "assign" THEN w.mmio \cup {e.region}
                 ELSE IF e.op = "free" THEN w.mmio \ {e.region} ELSE w.mmio,
     atStart |-> IF e.op = "start" THEN w.devs ELSE w.atStart,
     sent    |-> w.sent + 1]

(* The main thread is past its rpc_run. *)
MainWaits == runner["main"].pc \in {"await", "sem wait", "booted", "pulsing"}

(* A backend starts the VM once. *)
device_event_tx(e) ==
    /\ ~aborted /\ ~ringing
    /\ EarlyDevice \/ MainWaits
    /\ Len(events) < QueueSize
    /\ want.sent < MaxEvents
    /\ e.op = "start" => want.atStart = -1
    /\ events' = Append(events, e)
    /\ ringing' = TRUE
    /\ want' = Wanted(want, e)
    /\ UNCHANGED <<bell, runner, registry, boot, aborted>>

vso_doorbell ==
    /\ ringing
    /\ ringing' = FALSE /\ bell' = TRUE
    /\ UNCHANGED <<events, runner, registry, boot, aborted, want>>

-----------------------------------------------------------------------------
At(r, label) == ~aborted /\ runner[r].pc = label

Goto(r, label) == runner' = [runner EXCEPT ![r].pc = label]

(* The callback has handled the event; its locals go out of scope. *)
Handled(r) == runner' = [runner EXCEPT ![r] = [pc |-> "receive", ev |-> NoEvent,
                                               index |-> 0, dev |-> 0]]

(* rpc_process reports an error, rpc_run returns it and ntfn_callback ends *)
(* the component: "guest corrupt".                                         *)
Failed ==
    /\ aborted' = TRUE
    /\ UNCHANGED <<events, bell, ringing, runner, registry, boot, want>>

ntfn_callback ==
    /\ At("ntfn", "wait") /\ bell
    /\ bell' = FALSE
    /\ Goto("ntfn", "receive")
    /\ UNCHANGED <<events, ringing, registry, boot, aborted, want>>

(* for_each_device_event: an event is taken ... *)
rpcmsg_event_rx(r) ==
    /\ At(r, "receive") /\ events # <<>>
    /\ runner' = [runner EXCEPT ![r].pc = "process", ![r].ev = Head(events)]
    /\ events' = Tail(events)
    /\ UNCHANGED <<bell, ringing, registry, boot, aborted, want>>

(* ... or there is none and rpc_run returns, the main thread to its wait. *)
NoMoreEvents(r) ==
    /\ At(r, "receive") /\ events = <<>>
    /\ Goto(r, IF r = "main" THEN "await" ELSE "wait")
    /\ UNCHANGED <<events, bell, ringing, registry, boot, aborted, want>>

-----------------------------------------------------------------------------
(* The callbacks of rpc_callbacks, in their order.                         *)
Event(r) == runner[r].ev

Processing(r, op) == At(r, "process") /\ Event(r).op = op

(* irq_line_pulse begins with the line up. *)
v2m_inject_irq(irq) == level' = [level EXCEPT ![<<"spi", irq>>] = TRUE]

(* msi_irq_set: the interrupt is pulsed, a clear does nothing. *)
handle_msi(r) ==
    /\ Processing(r, "irq") /\ Event(r).irq \in MsiIrqs
    /\ IF Event(r).arg = "clr"
       THEN Handled(r) /\ UNCHANGED level
       ELSE v2m_inject_irq(Event(r).irq) /\ Goto(r, "lower")
    /\ UNCHANGED <<events, bell, ringing, table, nextDev, sources, irqs, mmio, reserved,
                   boot, aborted, want>>

(* The entries that pcidev_find looks for. *)
Found(slot) == {i \in 1 .. pci_dev_count : pci_devs[i].slot = slot}

(* It comes to one before it comes to an entry that is counted and not set *)
(* yet, whose fields it would read.                                        *)
Finds(slot) == \E i \in Found(slot) : \A j \in 1 .. i : pci_devs[j] # NoDev

pcidev_find(slot) == pci_devs[CHOOSE i \in Found(slot) : \A j \in Found(slot) : i <= j]

pci_map_irq(dev) == dev.guest % NumPins

(* shared_irq_line_change on the pin of dev: only a change of the wired OR *)
(* goes to the interrupt controller.                                       *)
shared_irq_line_change(dev, active) ==
    LET p   == pci_map_irq(dev)
        new == IF active THEN sources[p] \cup {dev.guest} ELSE sources[p] \ {dev.guest}
    IN  /\ sources' = [sources EXCEPT ![p] = new]
        /\ level' = IF (sources[p] = {}) = (new = {}) THEN level
                    ELSE [level EXCEPT ![<<"intx", p>>] = new # {}]

(* handle_pci, interrupts below PCI_NUM_SLOTS: pcidev_intx_set. *)
handle_pci_intx(r) ==
    /\ Processing(r, "irq") /\ Event(r).irq \in Slots
    /\ Finds(Event(r).irq)
    /\ shared_irq_line_change(pcidev_find(Event(r).irq), Event(r).arg # "clr")
    /\ IF Event(r).arg = "pulse" THEN Goto(r, "lower") ELSE Handled(r)
    /\ UNCHANGED <<events, bell, ringing, table, nextDev, irqs, mmio, reserved, boot, aborted, want>>

(* pcidev_find returns NULL, an error, or reads through one: a fault. *)
NoSuchDevice(r) ==
    /\ ~aborted /\ runner[r].pc \in {"process", "lower"}
    /\ Event(r).op = "irq" /\ Event(r).irq \in Slots
    /\ ~Finds(Event(r).irq)
    /\ Failed

(* The second half of a pulse. *)
Lower(r) ==
    /\ At(r, "lower")
    /\ IF Event(r).irq \in Slots
       THEN Finds(Event(r).irq) /\ shared_irq_line_change(pcidev_find(Event(r).irq), FALSE)
       ELSE level' = [level EXCEPT ![<<"spi", Event(r).irq>>] = FALSE] /\ UNCHANGED sources
    /\ Handled(r)
    /\ UNCHANGED <<events, bell, ringing, table, nextDev, irqs, mmio, reserved, boot, aborted, want>>

(* pcidev_register: the bus is full, ... *)
BusFull(r) ==
    /\ Processing(r, "register")
    /\ pci_dev_count >= NumAvail
    /\ Failed

(* Mutant: one device too many is let in. *)
vmm_pci_add_entry_OneMore(r) ==
    /\ Processing(r, "register")
    /\ pci_dev_count <= NumAvail
    /\ nextDev' = nextDev + 1
    /\ runner' = [runner EXCEPT ![r].pc = "count", ![r].dev = nextDev]
    /\ UNCHANGED <<events, bell, ringing, table, sources, level, irqs, mmio, reserved,
                   boot, aborted, want>>

(* ... or vmm_pci_add_entry puts the device on the guest's bus ... *)
vmm_pci_add_entry(r) ==
    /\ Processing(r, "register")
    /\ pci_dev_count < NumAvail
    /\ nextDev' = nextDev + 1
    /\ runner' = [runner EXCEPT ![r].pc = "count", ![r].dev = nextDev]
    /\ UNCHANGED <<events, bell, ringing, table, sources, level, irqs, mmio, reserved,
                   boot, aborted, want>>

(* ... and pci_devs[pci_dev_count++] gets it: a read of the count ... *)
LoadDevCount(r) ==
    /\ At(r, "count")
    /\ runner' = [runner EXCEPT ![r].pc = "store", ![r].index = pci_dev_count]
    /\ UNCHANGED <<events, bell, ringing, registry, boot, aborted, want>>

(* ... and a write of the count and one of the entry.  C leaves their      *)
(* order open, and an entry may be counted before it is set.               *)
StoreDevCount(r) ==
    /\ ~aborted /\ runner[r].pc \in {"store", "written"}
    /\ pci_dev_count' = runner[r].index + 1
    /\ IF runner[r].pc = "store" THEN Goto(r, "counted") ELSE Handled(r)
    /\ UNCHANGED <<events, bell, ringing, pci_devs, nextDev, sources, level, irqs, mmio,
                   reserved, boot, aborted, want>>

StoreDev(r) ==
    /\ ~aborted /\ runner[r].pc \in {"store", "counted"}
    /\ pci_devs' = [pci_devs EXCEPT ![runner[r].index + 1] =
                       [slot |-> Event(r).slot, guest |-> runner[r].dev]]
    /\ IF runner[r].pc = "store" THEN Goto(r, "written") ELSE Handled(r)
    /\ UNCHANGED <<events, bell, ringing, pci_dev_count, nextDev, sources, level, irqs, mmio,
                   reserved, boot, aborted, want>>

(* emudev_irq_set: irq_res_find finds the line and it changes, ... *)
emudev_irq_set(r) ==
    /\ Processing(r, "irq") /\ Event(r).irq \in EmuIrqs
    /\ \E i \in DOMAIN irqs : irqs[i] = Event(r).irq
    /\ level' = [level EXCEPT ![<<"spi", Event(r).irq>>] = Event(r).arg # "clr"]
    /\ IF Event(r).arg = "pulse" THEN Goto(r, "lower") ELSE Handled(r)
    /\ UNCHANGED <<events, bell, ringing, table, nextDev, sources, irqs, mmio, reserved,
                   boot, aborted, want>>

(* ... or there is none, ... *)
IrqIsNew(r) ==
    /\ Processing(r, "irq") /\ Event(r).irq \in EmuIrqs
    /\ \A i \in DOMAIN irqs : irqs[i] # Event(r).irq
    /\ Goto(r, "assign")
    /\ UNCHANGED <<events, bell, ringing, registry, boot, aborted, want>>

(* ... irq_res_assign registers it and appends it, and it is found. *)
irq_res_assign(r) ==
    /\ At(r, "assign")
    /\ irqs' = Append(irqs, Event(r).irq)
    /\ Goto(r, "process")
    /\ UNCHANGED <<events, bell, ringing, table, nextDev, sources, level, mmio, reserved,
                   boot, aborted, want>>

(* emudev_mmio_config: vm_reserve_memory_at and the list ... *)
mmio_res_assign(r) ==
    /\ Processing(r, "assign")
    /\ Event(r).region \notin reserved
    /\ reserved' = reserved \cup {Event(r).region}
    /\ mmio' = mmio \cup {Event(r).region}
    /\ Handled(r)
    /\ UNCHANGED <<events, bell, ringing, table, nextDev, sources, level, irqs, boot, aborted, want>>

(* Mutant: the reservation leaves the list and stays in the VM. *)
mmio_res_free_Leaks(r) ==
    /\ Processing(r, "free")
    /\ Event(r).region \in mmio
    /\ mmio' = mmio \ {Event(r).region}
    /\ Handled(r)
    /\ UNCHANGED <<events, bell, ringing, table, nextDev, sources, level, irqs, reserved,
                   boot, aborted, want>>

mmio_res_free(r) ==
    /\ Processing(r, "free")
    /\ Event(r).region \in mmio
    /\ mmio' = mmio \ {Event(r).region}
    /\ reserved' = reserved \ {Event(r).region}
    /\ Handled(r)
    /\ UNCHANGED <<events, bell, ringing, table, nextDev, sources, level, irqs, boot, aborted, want>>

(* ... or the region is taken, or is not this backend's. *)
BadRegion(r) ==
    /\ \/ Processing(r, "assign") /\ Event(r).region \in reserved
       \/ Processing(r, "free") /\ Event(r).region \notin mmio
    /\ Failed

(* Mutant: the flag is set and the semaphore is not posted. *)
handle_control_NoPost(r) ==
    /\ Processing(r, "start")
    /\ okToRun' = TRUE
    /\ Handled(r)
    /\ UNCHANGED <<events, bell, ringing, registry, started, aborted, want>>

(* START_VM: the flag ... *)
handle_control(r) ==
    /\ Processing(r, "start")
    /\ okToRun' = TRUE
    /\ Goto(r, "post")
    /\ UNCHANGED <<events, bell, ringing, registry, started, aborted, want>>

(* ... and then the semaphore. *)
sync_sem_post(r) ==
    /\ At(r, "post")
    /\ started' = started + 1
    /\ Handled(r)
    /\ UNCHANGED <<events, bell, ringing, registry, okToRun, aborted, want>>

(* No callback knows the operation: "Unknown RPC message". *)
UnknownMessage(r) == Processing(r, "unknown") /\ Failed

-----------------------------------------------------------------------------
(* Mutant: the wait is left out. *)
OkToRun_Always ==
    /\ At("main", "await")
    /\ Goto("main", "booted")
    /\ UNCHANGED <<events, bell, ringing, registry, boot, aborted, want>>

(* io_proxy_wait_for_backend, while (!*ok_to_run) sync_sem_wait: the test  *)
(* and the wait are separate.                                              *)
OkToRun ==
    /\ At("main", "await")
    /\ Goto("main", IF okToRun THEN "booted" ELSE "sem wait")
    /\ UNCHANGED <<events, bell, ringing, registry, boot, aborted, want>>

sync_sem_wait ==
    /\ At("main", "sem wait") /\ started > 0
    /\ started' = started - 1
    /\ Goto("main", "await")
    /\ UNCHANGED <<events, bell, ringing, registry, okToRun, aborted, want>>

-----------------------------------------------------------------------------
(* The guest writes to the MSI frame and the main thread, now the VMM's    *)
(* event loop, handles the fault.                                          *)

(* Mutant: one interrupt too many is let in. *)
FrameIndex_OneMore(data) ==
    LET spi == ((data % SpiSpan) - MsiBase) % WordSpan
    IN  {spi} \cap 0 .. NumMsi

(* The entry of the frame's irq table that v2m_write_fault comes to with   *)
(* an unsigned subtraction, if it is in the table.                         *)
FrameIndex(data) ==
    LET spi == ((data % SpiSpan) - MsiBase) % WordSpan
    IN  {spi} \cap 0 .. NumMsi - 1

(* The line is raised; other data is ignored. *)
v2m_write_fault(data) ==
    /\ At("main", "booted")
    /\ \E spi \in FrameIndex(data) :
          LET irq == MsiBase + spi
          IN  /\ v2m_inject_irq(irq)
              /\ runner' = [runner EXCEPT !["main"].pc = "pulsing",
                    !["main"].ev = [op |-> "irq", irq |-> irq, arg |-> "pulse"]]
    /\ UNCHANGED <<events, bell, ringing, table, nextDev, sources, irqs, mmio, reserved,
                   boot, aborted, want>>

(* irq_line_pulse lowers it again, and the fault is advanced. *)
v2m_fault_handler ==
    /\ At("main", "pulsing")
    /\ level' = [level EXCEPT ![<<"spi", Event("main").irq>>] = FALSE]
    /\ runner' = [runner EXCEPT !["main"].pc = "booted", !["main"].ev = NoEvent]
    /\ UNCHANGED <<events, bell, ringing, table, nextDev, sources, irqs, mmio, reserved,
                   boot, aborted, want>>

-----------------------------------------------------------------------------
rpc_process(r) ==
    \/ handle_msi(r) \/ handle_pci_intx(r) \/ NoSuchDevice(r) \/ Lower(r)
    \/ BusFull(r) \/ vmm_pci_add_entry(r) \/ LoadDevCount(r)
    \/ StoreDevCount(r) \/ StoreDev(r)
    \/ emudev_irq_set(r) \/ IrqIsNew(r) \/ irq_res_assign(r)
    \/ mmio_res_assign(r) \/ mmio_res_free(r) \/ BadRegion(r)
    \/ handle_control(r) \/ sync_sem_post(r) \/ UnknownMessage(r)

rpc_run(r) == rpcmsg_event_rx(r) \/ NoMoreEvents(r) \/ rpc_process(r)

(* The component has died, or MaxEvents have been sent and handled. *)
Halted == (aborted \/ want.sent = MaxEvents) /\ UNCHANGED vars

Next ==
    \/ \E e \in Events : device_event_tx(e)
    \/ vso_doorbell \/ ntfn_callback
    \/ \E r \in Runners : rpc_run(r)
    \/ OkToRun \/ sync_sem_wait
    \/ (\E data \in GuestData : v2m_write_fault(data)) \/ v2m_fault_handler
    \/ Halted

Spec == Init /\ [][Next]_vars

-----------------------------------------------------------------------------
RunnerPcs == {"wait", "receive", "process", "lower", "count", "store", "counted",
              "written", "assign", "post", "await", "sem wait", "booted", "pulsing"}

RunnerState == [pc : RunnerPcs, ev : Events \cup {NoEvent}, index : 0 .. NumAvail - 1, dev : Nat]

QueueTypes ==
    /\ events \in Seq(Events) /\ Len(events) <= QueueSize
    /\ bell \in BOOLEAN /\ ringing \in BOOLEAN

DeviceTypes ==
    /\ pci_devs \in [TableIndices -> [slot : Slots \cup {-1}, guest : Nat]]
    /\ pci_dev_count \in 0 .. NumAvail
    /\ nextDev \in Nat
    /\ sources \in [Pins -> SUBSET Nat]
    /\ level \in [Lines -> BOOLEAN]

ReservationTypes ==
    /\ irqs \in Seq(EmuIrqs) /\ \A i, j \in DOMAIN irqs : irqs[i] = irqs[j] => i = j
    /\ mmio \subseteq Regions /\ reserved \subseteq Regions

(* The variables have their types; pci_dev_count stays within pci_devs and *)
(* an interrupt is registered once.                                        *)
TypeOK ==
    /\ QueueTypes /\ runner \in [Runners -> RunnerState]
    /\ DeviceTypes /\ ReservationTypes
    /\ okToRun \in BOOLEAN /\ started \in 0 .. 1 /\ aborted \in BOOLEAN

(* Everything sent has been handled. *)
Quiet == ~aborted /\ events = <<>> /\ runner["ntfn"].pc = "wait"
         /\ MainWaits /\ runner["main"].pc # "pulsing"

(* Once its events are handled, every line is at the level the device has  *)
(* asked for: a pin is active exactly if one of the devices that share it  *)
(* is, an MSI is low again, and another interrupt keeps its last level.    *)
(* The guest's own writes to the MSI frame, on the other thread, do not    *)
(* disturb that.                                                           *)
LinesFollow ==
    Quiet =>
        /\ \A p \in Pins : level[<<"intx", p>>] =
              \E s \in Slots : want.level[s] /\ pci_map_irq(pcidev_find(s)) = p
        /\ \A i \in MsiIrqs \cup EmuIrqs : level[<<"spi", i>>] = want.level[i]

(* Once its events are handled, the VM has the PCI devices and the MMIO    *)
(* regions the device has asked for: none is lost from pci_devs, and the   *)
(* list agrees with what is reserved.                                      *)
RegistryFollows ==
    Quiet => /\ pci_dev_count = want.devs
             /\ \A i, j \in 1 .. pci_dev_count :
                   pci_devs[i] # NoDev /\ (pci_devs[i].guest = pci_devs[j].guest => i = j)
             /\ mmio = want.mmio /\ reserved = want.mmio

(* libsel4vm_io_proxy_init returns, and the guest's device tree is built,  *)
(* only after START_VM, with every device registered before it counted and *)
(* in pci_devs.                                                            *)
DevicesBeforeBoot ==
    runner["main"].pc = "booted" =>
        /\ want.atStart # -1 /\ want.atStart <= pci_dev_count
        /\ \A i \in 1 .. want.atStart : pci_devs[i] # NoDev

=============================================================================
