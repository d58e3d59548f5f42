---------------------------- MODULE MCGuestBoot ----------------------------
(* Instances of GuestBoot: a 2-bit phandle, a trace region that is        *)
(* configured or not, and a backend with one PCI slot.                    *)
EXTENDS GuestBoot

OneTraceRegion == <<"ramoops">>

(* Tracing, and with it the end of the range of phandles, is looked at for *)
(* a VM with a pool and a backend that waits; a VM without a generated     *)
(* tree has no use for either.                                             *)
SomeConfigs ==
    {c \in AllConfigs :
        /\ c.phandle \in IF c.traced # {} /\ c.generate THEN {0, 1} ELSE {1}
        /\ c.traced # {} => ~c.poolIsRam /\ c.patient
        /\ ~c.generate => ~c.poolIsRam}

(* The configurations with a generated tree. *)
GeneratedConfigs == {c \in SomeConfigs : c.generate}

(* Interrupts and MMIO regions leave pci_devs and the boot alone. *)
DevicesAndStart == {e \in Events : e.op \in {"register", "start"}}
=============================================================================
