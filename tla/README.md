# A TLA+ model of virtioso-camkes-vm

virtioso-camkes-vm lets one virtual machine (the *device VM*, which runs QEMU)
provide virtio devices to others (the *driver VMs*) on seL4. The two sides share
a page pair, the *iobuf*, with lock-free message queues in it, and ring each
other's doorbell with seL4 notifications. This directory models the part of the
repository that carries that protocol: the queues, the request/reply path of the
virtual machine monitor (VMM), what the device may ask of the VMM, the interrupt
lines, and how the VMM builds its guest around that. Paths below are relative to
the repository's root.

## 1. Inventory

| component | state | operations | talks to |
|---|---|---|---|
| message ring, `include/sel4/rpc_queue.h` | two markers (position, count) per side, 32 ring slots | `rpcmsg_enqueue`, `rpcmsg_dequeue` | shared memory; threads of both VMs |
| request/reply, `src/io_proxy.c`, `driver_rpc_*` in `include/sel4/rpc.h` | 32 callback slots, buffer table and its bitmap, thread-local native slot and semaphore | `ioreq_start`, `ioreq_native`, `ioreq_finish`, lend/reclaim | fault handler, `rpc_run`, the ring |
| VMM glue, `src/libsel4vm_glue.c` | `pci_devs`, `pci_dev_count`, INTx lines | `mmio_fault_handler`, `rpc_run`, `rpc_process` and its five callbacks, `libsel4vm_io_proxy_init` | all of the others, libsel4vm |
| notification glue, `templates/seL4VirtIODriverVM.template.c` | the registered callback | `ntfn_callback`, `io_proxy_run` | seL4 notification, `rpc_run` |
| boot handshake, `io_proxy_wait_for_backend` | `ok_to_run`, semaphore | test, wait, post | `handle_control` |
| shared interrupt line, `src/shared_irq_line.c` | a 64-bit word of sources | `shared_irq_line_change` | the virtual interrupt controller |
| interrupt line, `src/irq_line.c` | - | change, pulse | the virtual interrupt controller |
| emulated devices, `src/emulated_device.c`, `*_reservations.c` | lists of interrupt and MMIO reservations | `emudev_irq_set`, assign, free | libsel4vm |
| MSI frame, `src/gicv2m.c`, `src/plat/*/msi.c` | interrupt range | `handle_msi`, the guest's writes to `SETSPI` | interrupt line |
| RAM dataports, `src/ram_dataport.c`, `init_ram_module` | list of dataports | set-up, map, register the rest of RAM | libsel4vm |
| device tree, `src/fdt.c`, `src/plat/*/fdt.c` | the generated tree, its phandles | reserved-memory nodes, PCI nodes, `memory-region` | libfdt, `pci_devs`, `guest_ram_base` |
| guest configuration, `src/guest_linux.c`, `src/camkes/modules/*` | `vm_config`, which modules are done | `guest_configure`, `vpci_install`, `camkes_io_proxy_module_init` | all of the above |
| trace module, `src/camkes/modules/trace.c` | shared frames | memory and nodes of its regions | device tree |
| pl011, device VM glue, applications | static | - | - |

What is hard here: the ring has no lock and each call is some seven separate
accesses to shared memory; replies arrive in any order on a thread other than the
one that asked; notifications are binary and collapse; during boot `rpc_run` runs
on two threads; and several resources (ring entries, message buffers, bus slots,
bits of a word) have a limit that no test reaches. The properties that make each
component correct:

- ring: exclusive slots, no loss, no duplication, order, right refusals, progress;
- request/reply: the answer to the right client, one owner per buffer, no
  assertion of the code fails, every fault answered;
- events and boot: lines, bus and reservations end where the device asked, the
  guest is built after the devices are known, the boot does not hang;
- device tree and RAM: a node for every device, each with the memory the device
  VM can reach, no phandle twice, frames behind all memory the tree promises;
- interrupt line: the wired OR of its sources, only edges injected.

`PROJECT.json` lists the hazards one by one, each at its line, with the
properties that would catch it going wrong.

## 2. Modules

| module | models | actions and state |
|---|---|---|
| `MsgFifo` | the abstract promise of the ring | `Accept`, `Written`, `Take`, `Deliver`, `Done` over a log of messages |
| `RpcQueue` | `rpc_queue.h` 26-33, 121-160, 201-342, 380-440, 527-582 | one action per access to shared memory; `pc` is the place in the call, `ot`, `oh`, `tt` the code's locals `ot`, `oh`, `t` |
| `RpcQueueProofs` | theorems about `RpcQueue` | |
| `RpcQueueFifoProofs` | `RpcQueue` implements `MsgFifo` | |
| `AccessService` | the abstract promise of the request path | `Ask`, `Serve`, `Resume`, `Refuse` of one access per client |
| `IoProxy` | `io_proxy.c`, `rpc.h`, lend/request/receive/forward/reply/reclaim of `rpc_queue.h`, fault handler and reply loop of `libsel4vm_glue.c` | requesting threads, the notification thread, the device's kernel module and user space |
| `IoProxyInvariance` | the inductive invariant of `IoProxy` | |
| `IoProxyProofs` | theorems that follow from it | |
| `IoProxyServiceProofs` | `IoProxy` implements `AccessService` | |
| `DeviceEvents` | event loop, `rpc_process` and its callbacks, reservations, the MSI frame, the boot handshake | the main thread and the notification thread, both in `rpc_run` |
| `DeviceEventsProofs` | theorems about `DeviceEvents` | |
| `GuestBoot` | `ram_dataport.c`, `fdt.c`, `guest_linux.c`, the modules under `src/camkes/modules` | the main thread before and after the handshake; extends `DeviceEvents` |
| `GuestBootProofs` | theorems about `GuestBoot`, on top of those about `DeviceEvents` | |
| `SharedIrqLine` | `shared_irq_line.c` | load, store, call of `vm_set_irq_level` |
| `SharedIrqLineProofs` | theorems about `SharedIrqLine` | |
| `MC*` | instances for TLC | model values, symmetry, a view |

How the modules rest on each other: `RpcQueue` implements `MsgFifo`
(`ImplementsFifo`, by a refinement mapping over the markers and the threads' places).
`IoProxy` and `DeviceEvents` then use a sequence for a queue. A sequence delivers
in order and at once; the ring may show a message later than it was accepted, when
an older producer is still at work. Both modules let any delay pass between two
steps of a thread. The request, forwarding and event queue have one producing
thread each, so an accepted message is visible when its call returns;
`LastCommitPublishes` is that fact. The reply queue has two producers, the kernel
module and user space: a reply may become visible only with the commit of the
other one, which rings its own doorbell afterwards, so that a doorbell follows
every publication all the same. That step is an argument and not part of the model.
`IoProxy` implements `AccessService` (`ImplementsService`). `GuestBoot` is the
composition of `DeviceEvents` with the boot of the VMM: `DeviceEvents`' actions are
its own, guarded by whether the io_proxy exists yet.

### RpcQueue

Positions and counts are natural numbers that never wrap and every comparison the
code makes is made modulo `Width`; so a comparison that would be fooled by the
wrap of a 32-bit value is fooled in the model too, while a property can speak of
the true positions. `Start` puts the beginning near the wrap. `KernelThreads` run
the `__KERNEL__` form of `atomic_compare_and_swap`, which does not write back what
it found. `RelaxedThreads` are producers whose slot write may become visible to
other cores after their commit (the compare-and-swap is `__ATOMIC_ACQUIRE` only);
it is visible at the latest when they call again, since a doorbell lies between.
For an event queue, slot and message buffer are written together, at the same index,
and the model's slot stands for both.

### IoProxy

A request of a client carries one bit that alternates; the device answers with the
bit of the request. That is all the data needed to tell the answer to this request
from an answer to an earlier one. Reads and writes take the same path and differ
only in the callback that is registered (the write's does not store the data), so
one direction, the read, is modelled. The VMM thread handles faults and, as a
native thread, reads configuration space (`pci_cfg_start`); the code has two
threads that use the state: the VMM thread and the notification thread. A failed
assertion and a write through `NULL` end the component (`aborted`), after which the
driver VM takes no step; the model then stutters (`Halted`).
In the device VM a kernel module takes the requests in order; it answers one by
itself or forwards its buffer to user space (`driver_rpc_request_fwd`), which takes
from the forwarding queue, holds any number and answers them in any order, once
each. The repository's header has the operations of these two actors and the queues between
them; when they call which (the kernel module and QEMU are in other
repositories) is external, as is the guest that faults. Reclaiming a buffer makes
its contents unusable in the model (`None`), so that a read after the reclaim
would show.

The refinement mapping tells a client's access from the places in the code: it is
asked for from the fault or the call on, served once the answer is in the reply
queue or in the hands of the notification thread, over when the vCPU is advanced
or the semaphore has been taken, and refused when `ioreq_native` has returned an error.
What it excludes is an access that the device performs twice, or never
while its client goes on, whichever of the four actors and three queues is to blame.

### DeviceEvents

`want` records what the device has asked for. `EarlyDevice` says whether the
device may send before the main thread has finished its own `rpc_run`, that is
whether the two threads may take events at the same time. `pci_devs[pci_dev_count++]`
is three steps, a read of the count and then a write of the count and one of the entry, in
either order, since C leaves it open. An entry may thus be counted before it is set
(`NoDev`); a thread that reads it then reads through `NULL` and the VMM dies. Two registrations
that pass the test of the bus at the same time can write one entry behind the table, which
`TableIndices` has. `handle_control` sets the flag in one step and posts the semaphore in the
next. An interrupt number is a PCI slot, an MSI or another interrupt by
the sets `Slots`, `MsiIrqs` and `EmuIrqs`, which stand for the ranges 0-31, the MSI frame's
and the rest; the interrupt operations are set, clear and pulse, and a pulse is
two steps. `"unknown"` stands for everything `rpc_process` refuses: an unknown operation,
interrupt operation or flag. After the boot the main thread handles the guest's
faults, among them writes to the MSI frame: `v2m_write_fault` masks the data with
`SpiSpan - 1`, subtracts the frame's base as an unsigned word (`WordSpan`), compares
with the number of interrupts and pulses that line, possibly while the notification
thread pulses it for the device. Reads of the frame change no state.
`vm_reserve_memory_at`, `vmm_pci_add_entry` and
`vm_set_irq_level` belong to libsel4vm and are modelled by what the code expects of
them: a region is reserved if it was free, the next device number is handed out, the level is
set. Allocation failures are left out.

### GuestBoot

The VMM's modules run once each, in any order: the repository relies on the order
in which the linker collects them and on `vmm_module_init_by_name`, by which
`guest_configure` brings up the virtual PCI bus itself if it has not been. The
record `config` holds what the build and the configuration decide: whether a tree
is generated, whether the backend's dataport is all of RAM, whether the backend
waits for its driver VM, which trace regions there are, and the greatest phandle of
the tree the VMM starts from. A call of libfdt is a set of outcomes: nothing done, half
done, done, with or without an error; the code's early returns choose among them.
The loop over `pci_devs` reads the count in one step (`fdt_generate_pci_config`) and the
entry in the next (`GenerateDevice`, or `NullDevice` if it is not set yet), while
the notification thread may be in the middle of a registration.
`vmm_module_init_by_name` finds its module: the VMM has the virtual PCI bus linked in, on
which the io_proxy's module is declared to depend.
A reserved-memory node is known by its prefix and its region, which is how the code
looks it up (by path). The event queue lies in memory that the driver VM does not
reset, so a backend that does not wait may send before the io_proxy is initialised;
`Listening` guards the driver VM's half. `fdt_plat_customize` adds a USB node or
fails, and leaves nothing the properties look at. One backend is modelled: `v2m_init`
refuses a second one, and each application configures one. The guest's MSI writes
are in `DeviceEvents` and not repeated here.

### SharedIrqLine

The word is the set of its bits. `Bit` models `(uint64_t)(1 << source)` with an
int of `IntBits` bits: the top bit is the sign and extends through the word, and a
count beyond the int, undefined in C, is taken modulo its width as the AArch64
shift instruction does.

## 3. Runs

| run | instance | shows |
|---|---|---|
| `rpc_queue` | 2 producers, 2 consumers, 4 slots, HtdMax 1, markers modulo 12 from 9, 5 enqueues | all safety properties of the ring, and the refinement of `MsgFifo` |
| `rpc_queue_live` | 2 producers (one relaxed), 1 consumer, 2 slots, 4 enqueues | every call returns, every accepted message is delivered |
| `rpc_queue_kernel` | as above, one kernel producer | `CallsReturn` fails: finding 1 |
| `rpc_queue_relaxed` | as above, one relaxed producer | `ReadsWhatWasSent` fails: finding 2 |
| `io_proxy` | 2 vCPUs, VMM thread, 4 buffers | right answers, one owner per buffer across three queues, no buffer shortage |
| `io_proxy_tight` | 1 vCPU, VMM thread, 2 buffers, queues of 1 | refusals and the exhausted table happen, every fault and call still ends, and the path implements `AccessService` |
| `io_proxy_slot` | 1 vCPU, VMM thread | `SlotFreeWhenUsed` fails: finding 3 |
| `device_events` | 2 slots on one pin, an MSI that device and guest pulse, an emulated interrupt, a region, 5 events | lines, registry and reservations follow the device; boot after `START_VM` |
| `device_events_early` | device may send early | `DevicesBeforeBoot` fails: finding 4 |
| `shared_irq_line` | sources 0..3 and 8, int of 4 bits, word of 8 | wired OR, edges only |
| `guest_boot` | 1 slot, 2 bus entries, a trace region, phandles of 2 bits, 3 events, 9 configurations | devices in the tree once, with the right memory, no entry of `pci_devs` read before it is set, distinct phandles, frames behind all memory; `START_VM` leads to a guest |
| `guest_boot_failed` | the same, generated trees only | `StartsConfigured` fails: finding 5 |

**Bounds.** `MaxOps` bounds the calls of `rpcmsg_enqueue`; dequeues are not
bounded. Five enqueues on a ring of four with markers that start three short of
their wrap make the ring full, turn it over its end and wrap the markers, with two threads
of a side in every relative position. `Width` is larger than `MaxOps + Size`: in the code a thread would have
to sleep through 2^32 - 32 messages within one call to see the other case, which
is excluded by the assumption and not by the code. The ring's size must divide
`Width`, as 32 divides 2^32. `IoProxy` has no bound on the number of requests; its
state is finite. The view `LiveState` of `io_proxy` leaves out the contents of buffers
that nobody may read, which `OneOwner`, checked in the same run, makes sound, and replaces a
client's bits by whether each is the bit of its latest request: flipping all bits of a client
is a symmetry of the specification and of the properties. `MaxEvents`
bounds the events of a device: five suffice to register two devices on one pin,
raise both and clear one. One event is queued while another is being handled
(two in the early and in the boot runs), so doorbells do ring into a running `rpc_run`.
`GuestData` holds a number below the frame's base, the frame's only interrupt,
one beyond it, and one that is the interrupt only after the mask; `SpiSpan` and `WordSpan`
are 0x3ff + 1 and 2^32 reduced to 8 and 16.
In `guest_boot` three events are two devices and `START_VM` in any order (`BootEvents`:
interrupts and regions do not touch what the boot reads), the second device fills
the bus, and a phandle of two bits with -1 = 3 lets a trace region take the
last one before the pool is generated. `SomeConfigs` leaves out combinations that
add no case: tracing is looked at with a pool and a backend that waits; `GeneratedConfigs`
are those of them with a generated tree.
`Halted` stands for the end of the behaviour when the events are used up. In
`IoProxy` and `DeviceEvents` only a dead component may stop; deadlock is checked in every run.

**Symmetry** is used in `rpc_queue` only, over the threads of each side, which the
specification treats alike there; the liveness runs use none.

**Fairness.** A thread inside a call is scheduled (weak fairness of its steps):
seL4 schedules every runnable thread of equal priority, and the spin loops in the
ring yield to nobody, so a priority inversion between the threads of one core is
an assumption and not a result. Stores reach memory. A consumer polls again,
as `for_each_*` does after a doorbell. In `IoProxy` the VMM takes a waiting fault
even if it is also busy with native calls (strong fairness: faults queue at its
endpoint first come, first served); the kernel module and user space are scheduled
and each finally answers, or forwards, what it holds although the queue may be full
now and then (strong fairness of that step: they retry). In
`GuestBoot` the driver VM's two threads, the steps of the boot and the doorbell
after an event are fair. Nobody is ever obliged to send, to fault or to call.

## 4. Findings

1. `rpc_queue_kernel`: the kernel's compare-and-swap leaves the expected value
   stale, so a commit that loses once never ends (`rpc_queue.h:32`).
2. `rpc_queue_relaxed`: no release ordering between a message and its publication
   (`rpc_queue.h:30`).
3. `io_proxy_slot`: the slot is cleared after its client has been woken
   (`io_proxy.c:58`), and the client's next request fails the assertion of
   `ioreq_start`.
4. `device_events_early`: two threads in `rpc_run` during boot; the main thread
   goes on at `START_VM` while a device sent before it is still being registered.
5. `guest_boot_failed`: `camkes_guest_configure` logs an error with `ZF_LOGE` and
   returns, where its comment says that it does not (`guest_config.c:23`). In TLC's behaviour
   a libfdt call fails while the DMA pool's node of a generated tree is made, `guest_configure` returns
   the error, and the guest is started with a tree that lacks the pool and the PCI nodes
   that were still to come.

Three smaller disagreements have no run, because no configuration of the repository
meets them:
`shared_irq_line.h:12` promises 64 sources, while `(uint64_t)(1 << source)` of
`shared_irq_line.c:42` gives sources 32 to 63 the bits of 0 to 31 (a PCI bus has at
most 31 devices; `LineIsWiredOr` assumes it); `trace.h:21` says that an index is at
least 1, while the first one is 0; and `fdt_node_generate_all` passes no filter, with which
`fdt_node_generate_filter` generates no node at all.

The passing runs of the ring therefore model a user build whose commit does order
the slot write (`RelaxedThreads = {}`), except `rpc_queue_live`; the passing runs of
`IoProxy` include the race of finding 3, which ends in the assertion.

## 5. Proofs

`RpcQueueProofs` proves, for any finite sets of producers and consumers of either
build, any ring size, `HtdMax`, width, start and number of calls within the
assumptions `ThreadsAssumption` and `SizeAssumption` of `RpcQueue`:

- `TypeCorrect`, `WindowIsOrdered`, `SlotsAreExclusive`, `LastCommitterPublishes`,
  `DistanceIsBounded`: the invariants `TypeOK`, `WindowOrder`, `ExclusiveSlots`,
  `LastCommitPublishes`, `DistanceBounded`;
- `RefusalsAreRight`: the action property `NoFalseRefusal`;
- `ReadersGetWhatWasSent`: `ReadsWhatWasSent`, assuming that no producer is relaxed.

None of these is inductive. The strengthening `Inv` says what a thread may still
rely on of what it has read. `TailSnapshot`: a tail once read is not ahead of the
tail. `CheckHolds`: what was checked about a tail (distance, room) still holds if
the tail has not moved, because heads only grow. `HeadSnapshot`: a head once read
is still the head if its *count* has not moved; the position alone would not tell,
which is why the code swaps both. `CommitKnows`: if the head is still the one read
and the count says that this commit is the last one for the tail read, then nobody
else works below that tail; so publishing up to it publishes finished entries only.
`CountsWorking` ties the difference of the counts to the number of threads
between claim and commit. `ClaimsBounded` bounds the distance of any two markers a
thread can compare by less than `Width`, from which equality modulo `Width` is
equality (`ModInjective`, `SameIsEqual`): this is where the wrap is dealt with.
Most actions move no marker and fall under one lemma, `QuietStep`. For
`ReadersGetWhatWasSent` a second invariant, `DataInv`, says that a published, unread
slot and a slot whose writer is done hold the message sent there.

`SharedIrqLineProofs` proves `LineIsWiredOr` and `LineInjectsEdges` for one thread and
sources below the width of an int, the case the code is used in (a PCI slot is below 32). Its invariant says that the word is the union
of the bits of the active sources, up to the change under way, and that
the level is that of the word; `BitsDisjoint` is the lemma that needs the
restriction on sources.

`RpcQueueFifoProofs` proves `RingImplementsFifo`: the ring implements `MsgFifo`, for a
build in which no producer is relaxed (with one, finding 2 is a behaviour that `MsgFifo`
does not have). Initial states map to initial states, and each action is one of
`MsgFifo` or a stutter: the compare-and-swap that takes a tail is `Accept` or `Take`, a
commit is `Written` or `Done`, and it moves the abstract window exactly when it is the last one, which
`CommitKnows` knows; reading the slot is `Deliver`, which needs `DataInv`, since the
message delivered must be the one in the log. Every other step moves neither marker nor log
(`QuietFifo`). `Numbered`, a small invariant of its own, bounds the messages of the log.

### IoProxy

`IoProxyInvariance`, `IoProxyProofs` and `IoProxyServiceProofs` are about any number of
vCPUs, slots, buffers and queue entries. All their theorems assume `OneRequester`: the
VMM thread is the only one that sends requests. That is how the driver VM is built, and it is
needed: `rpcmsg_lend_buffer` finds a free bit in one step and sets it in the next,
`ioreq_native_slot` reads and increments its counter, and two requesting threads could come
between. The race of finding 3 is part of every
behaviour the theorems speak of; it ends in the assertion.

- `TypeCorrect`, `BuffersHaveOneOwner`, `RepliesFindCallbacks`, `ClientsWait`: the invariants
  `TypeOK`, `OneOwner`, `ReplyFindsCallback`, `ClientWaits`, with no more assumed;
- `RepliesAreOwn`: `OwnReply`, if a queue has an entry per buffer (`EntryPerBuffer`); with a
  shorter queue a native call may be refused and return without an answer;
- `ResourcesAreSufficient`: `ResourcesSuffice`, if in addition there are more buffers than
  vCPUs and the VMM thread together (`BuffersToSpare`). The code has 32 entries, 32 buffers
  (`RPCMSG_BUFFER_SIZE`, `rpc_queue.h:102`) and at most 16 vCPUs below `SEL4_MMIO_NATIVE_BASE`;
- `PathImplementsService`: the path implements `AccessService`, full queues and an exhausted
  table included.

The inductive invariant `Inv` has two halves. `Ownership`: the buffers that are lent are
partitioned among seven places, the requesting thread, the request queue, the kernel module,
the forwarding queue, user space, the reply queue and the notification thread, and no
queue has a buffer twice; every step moves one buffer from one place to another. `Messages`: a message
whose client has not been called back is alone in its slot, and the client in that slot waits
and has made no later request than the one in the message. The conditions that join the halves are
about steps under way: `Request` (from its first step on a new request has its slot to
itself, and from the registration on the callback is in place and about to be cleared by nobody),
`Handoff` (the semaphore counts only for the call under way, whose callback is cleared or about to be),
and `ThreadShape`, `ActorShape`, `NativeSlot` for the locals. `ClientWaits` is not inductive
without `Handoff`: a post left over from an earlier call would let the next one return
early. That the table suffices follows by counting: an injection of the lent buffers other than the
notification thread's into the clients.

For `PathImplementsService` every action has a lemma that names the client whose access it
moves, or shows that it moves none; an answer is `Serve` because of `LiveMessage`, and
the same message cannot serve twice because its slot is its own.

### DeviceEvents

`DeviceEventsProofs` is about any slots, pins, MSI and emulated interrupts, regions, bus and
queue sizes and any number of events, for a device that does not send before the main thread waits for
it (`LateDevice`). Without that assumption two threads take events and finding 4 is the
counterexample.

- `EventTypes`, `RegistryIsAsked`, `BootSeesDevices`, `LinesAreAsked`: the invariants `TypeOK`,
  `RegistryFollows`, `DevicesBeforeBoot`, `LinesFollow`.

`RegistryFollows` and `LinesFollow` speak of states in which nothing is left to
handle, so neither is inductive. The invariant replaces "now" by "at an earlier time": there is a `w` the
device had asked for that registry, lines, reservations and boot agree with (`Done`), and the event being
handled and then the queued ones lead from `w` to `want` (`Path`). Sending an event extends the
path at its end; taking one shortens it at its beginning; finishing one moves `w` on.
In a quiet state the path is empty and `w` is `want`. The handling of an event in several steps (those
of `pci_devs[pci_dev_count++]`, flag and semaphore, pulses, changes of a shared line) is covered by what
`Done` says of the place in between. For the table that is `Known`, the number of devices that are
registered whichever of the two writes comes first: it is one less than `pci_dev_count` while the last
entry is counted and not set, and `TableShape` says that the first `Known` entries are set and no others,
but for the one being written. `Wired` says of a pin that its sources are the numbers of the slots that
hold it; that numbers on the bus are distinct (`DistinctNumbers`) is what makes
clearing one source leave the others. The guest's own pulses of an MSI, on the other thread, end
low whichever way they interleave.

### GuestBoot

`GuestBootProofs` is about any set of configurations, trace regions, events and width of a
phandle.

- `PhandlesAreDistinct`, `RamIsNeverPool`, `DevicesHavePool`, `ReservedMemoryIsBacked`: the
  invariants `PhandlesDistinct`, `RamIsNoPool`, `DevicesUsePool`, `MemoryIsBacked`, with no
  assumption about the backend, and two threads in `rpc_run` included;
- `DevicesAreInTree`: `DevicesInTree`, which is itself about configurations whose backend
  waits for its driver VM;
- `LoopFindsDevices`: `NoNullDevice`, which is about such configurations too, and about
  behaviours in which no device is registered after `START_VM`;
- `BootTypeCorrect`: `BootTypeOK`, if the backend waits in every configuration or does not send
  early (`LateDevice`).

The first four rest on `BootInv`, which is about the main thread alone: in which order the modules
can have run (`Order`: `guest_configure` runs once, on a bus that is up and with `guest_ram_base`
set, whether it or the module list has brought the bus up), what each module that has run has mapped (`Mapped`), where the nodes lie (`Bases`), and that
the pool's node is there once the PCI nodes are made (`Pool`). A new phandle is beyond the
greatest in the tree (`MaxPhandle`, `ReservedNode`); a call of libfdt that fails between node and phandle
leaves a node without one. The other three are stated with the invariant of `DeviceEventsProofs`, whose
actions are `GuestBoot`'s own: the main thread finds the devices registered (`Ready`), the events
that still arrive only lengthen `pci_devs` (`Grows`), and the tree has the first devices of it in their
order (`TreeInv`). For `LoopFindsDevices` it must be seen that nothing is being registered while the loop
runs: the path from the `w` of that invariant to `want` has no device left on it, because the number of
devices grows along a path and is already `want.devs`; so the notification thread is not between the
count and the entry, and every counted entry is set.

### Only model-checked

- The liveness properties, `CallsReturn`, `AcceptedIsDelivered`, `FaultsAreAnswered`,
  `NativeCallsReturn` and `GuestStarts`: fairness is outside what the proof system handles.
- `BootTypeOK` for a backend that sends early and does not wait for its driver VM. The other
  invariants of `GuestBoot` are proved for that backend too.

## 6. Not modelled

- the serial port (`pl011`): two registers without state;
- the names of trace points and the dump of the kernel's log, which nothing in the
  repository calls, and `fdt_node_add`, likewise;
- the device VM's connection table and kernel command line, the CAmkES assemblies,
  hardware descriptions and build files: static data;
- more than one backend in a VMM: `v2m_init` ends the initialisation of a second one, so
  the repeated `emudev_init` and `msi_init` are not explored;
- `rpcmsg_queue_full` and `rpcmsg_queue_empty`: they change nothing, each makes two separate loads, so that
  its answer need never have been true of the queue, and nothing in the repository
  calls their only user, `driver_rpc_request_pending`;
- allocation failures, `irq_res_free` (no caller), and races inside libsel4vm;
- reboot of a driver VM, of which the repository holds only the comment in `vso_rpc_init`.

`PROJECT.json` gives the reason for each, and says of each hazard without a property why
it has none.

## 7. Plan

Done: `RpcQueue` and `MsgFifo`, `SharedIrqLine`, `IoProxy` with the forwarding queue and
`AccessService`, `DeviceEvents` with the MSI frame, `GuestBoot`, and proofs of every safety
property and both refinements that the passing runs check. Left, in this order:

1. `DeviceEvents`: which part of the invariant survives when the device sends early;
   type correctness first, then what the registry still guarantees with two threads;
2. `IoProxy`: the theorems that need no more than an atomic allocation, stated for
   several requesting threads;
3. `RpcQueue`: the part of `RingImplementsFifo` about the order of positions for relaxed producers.
