---------------------------- MODULE AccessService ----------------------------
(***************************************************************************)
(* What the request path promises to its clients, the guest's vCPUs and    *)
(* the native threads of the VMM: a client has one access at a time, the   *)
(* device performs it once, and the client goes on only after that.  An    *)
(* access that the device never gets is refused.                           *)
(***************************************************************************)
CONSTANT Clients

VARIABLE access \* per client: "idle", "asked", "served" or "refused"

Init == access = [c \in Clients |-> "idle"]

Step(c, from, to) == access[c] \in from /\ access' = [access EXCEPT ![c] = to]

(* The guest's instruction faults, or ioreq_native is called. *)
Ask(c) == Step(c, {"idle", "refused"}, "asked")

(* The device performs the access and answers. *)
Serve(c) == Step(c, {"asked"}, "served")

(* The vCPU is advanced, or ioreq_native returns. *)
Resume(c) == Step(c, {"served"}, "idle")

(* FAULT_ERROR, or -1 from ioreq_native. *)
Refuse(c) == Step(c, {"asked"}, "refused")

Next == \E c \in Clients : Ask(c) \/ Serve(c) \/ Resume(c) \/ Refuse(c)

Spec == Init /\ [][Next]_access
=============================================================================
