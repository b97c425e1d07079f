----------------------------- MODULE DeviceLease -----------------------------
(***************************************************************************)
(* What the export registry promises, without its map, its timers or its   *)
(* clock: every bus id carries at most one lease, lease numbers are never  *)
(* used twice, and a lease that is held passes to nobody else before its   *)
(* holder gave it up or the device was withdrawn.                          *)
(***************************************************************************)
EXTENDS Naturals

CONSTANT BusIds         \* the bus ids of the machine's USB devices

VARIABLES lease,        \* lease[b]: what the registry says about b
          issued        \* the number of leases granted so far

leaseVars == <<lease, issued>>

Withdrawn == [status |-> "Withdrawn", id |-> 0]
Free == [status |-> "Free", id |-> 0]
Held(s) == [status |-> "Held", id |-> s]
Reserved(s) == [status |-> "Reserved", id |-> s]

Init == lease = [b \in BusIds |-> Withdrawn] /\ issued = 0

\* The device is exported.
Offer(b) ==
    /\ lease[b] = Withdrawn
    /\ lease' = [lease EXCEPT ![b] = Free]
    /\ UNCHANGED issued

\* The device is unexported, whoever holds it.
Withdraw(b) ==
    /\ lease[b] # Withdrawn
    /\ lease' = [lease EXCEPT ![b] = Withdrawn]
    /\ UNCHANGED issued

\* A client gets the device under a number nobody had before.
Grant(b) ==
    /\ lease[b].status \in {"Free", "Reserved"}
    /\ issued' = issued + 1
    /\ lease' = [lease EXCEPT ![b] = Held(issued + 1)]

\* The holder gives the device up: at once, or keeping it reserved for a while.
Lapse(b) ==
    /\ lease[b].status = "Held"
    /\ \/ lease' = [lease EXCEPT ![b] = Free]
       \/ lease' = [lease EXCEPT ![b] = Reserved(lease[b].id)]
    /\ UNCHANGED issued

\* A reservation runs out.
Expire(b) ==
    /\ lease[b].status = "Reserved"
    /\ lease' = [lease EXCEPT ![b] = Free]
    /\ UNCHANGED issued

Next == \E b \in BusIds :
            Offer(b) \/ Withdraw(b) \/ Grant(b) \/ Lapse(b) \/ Expire(b)

Spec == Init /\ [][Next]_leaseVars
=============================================================================
