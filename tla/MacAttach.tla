----------------------------- MODULE MacAttach ------------------------------
(***************************************************************************)
(* Attaching a device on macOS: attach_device_macos of engine.rs against   *)
(* the device table of the driver extension (ExtenderUserClient.cpp).      *)
(* Several API requests run at once, each in a ClientEngine of its own.    *)
(* The virtual device is created under the id busnum << 16 | devnum and    *)
(* then configured with an 18 byte device descriptor.                      *)
(***************************************************************************)
EXTENDS Naturals, FiniteSets

CONSTANTS Attaches,   \* concurrent attach requests
          Devices     \* remote devices: records of busnum and devnum

VARIABLES pc,            \* pc[a]: where request a stands, or how it ended
          device,        \* device[a]: the set of the device the reply names, or {}
          active,        \* the active slots of the driver's table
          deviceCount,
          registry,      \* registry[a]: the ids recorded by the engine of a
          urb_tasks      \* the ids a forwarding task was spawned for

attachVars == <<pc, device, active, deviceCount, registry, urb_tasks>>

EXTENDER_MAX_DEVICES == 32
DescriptorSize == 18                \* build_device_descriptor
ConfigSize == 3 * 2 + 3 * 64        \* sizeof(ExtenderDeviceDescriptorConfig)

devid(a) == LET d == CHOOSE x \in device[a] : TRUE
            IN  d.busnum * 65536 + d.devnum

AttachInit ==
    /\ pc = [a \in Attaches |-> "idle"]
    /\ device = [a \in Attaches |-> {}]
    /\ active = {} /\ deviceCount = 0
    /\ registry = [a \in Attaches |-> {}]
    /\ urb_tasks = {}

-----------------------------------------------------------------------------
\* The connection is made and the server grants the import of d, or one of
\* these steps fails and the request returns.
import(a) ==
    /\ pc[a] = "idle"
    /\ \/ \E d \in Devices : /\ pc' = [pc EXCEPT ![a] = "create"]
                             /\ device' = [device EXCEPT ![a] = {d}]
       \/ pc' = [pc EXCEPT ![a] = "no_import"] /\ UNCHANGED device
    /\ UNCHANGED <<active, deviceCount, registry, urb_tasks>>

SlotTaken(a) == devid(a) \in active

\* create_device and handleCreateDevice.
create_device(a) ==
    /\ pc[a] = "create"
    /\ \/ /\ devid(a) >= EXTENDER_MAX_DEVICES
          /\ pc' = [pc EXCEPT ![a] = "bad_id"]
          /\ UNCHANGED <<active, deviceCount>>
       \/ /\ devid(a) < EXTENDER_MAX_DEVICES
          /\ SlotTaken(a)
          /\ pc' = [pc EXCEPT ![a] = "slot_taken"]
          /\ UNCHANGED <<active, deviceCount>>
       \/ /\ devid(a) < EXTENDER_MAX_DEVICES
          /\ ~SlotTaken(a)
          /\ pc' = [pc EXCEPT ![a] = "no_service"]   \* Create fails
          /\ UNCHANGED <<active, deviceCount>>
       \/ /\ devid(a) < EXTENDER_MAX_DEVICES
          /\ ~SlotTaken(a)
          /\ pc' = [pc EXCEPT ![a] = "configure"]
          /\ active' = active \union {devid(a)}
          /\ deviceCount' = deviceCount + 1
    /\ UNCHANGED <<device, registry, urb_tasks>>

\* handleConfigureDevice for a device descriptor.
ConfigAccepted(a) == devid(a) \in active /\ DescriptorSize >= ConfigSize

\* Mutated form of configure_device: a device that cannot be configured stays.
configure_device_NoCleanup(a) ==
    /\ pc[a] = "configure"
    /\ pc' = [pc EXCEPT ![a] = "bad_config"]
    /\ UNCHANGED <<device, active, deviceCount, registry, urb_tasks>>

\* configure_device; then the device is destroyed, or recorded and served.
configure_device(a) ==
    /\ pc[a] = "configure"
    /\ IF ConfigAccepted(a)
       THEN /\ pc' = [pc EXCEPT ![a] = "attached"]
            /\ registry' = [registry EXCEPT ![a] = @ \union {devid(a)}]
            /\ urb_tasks' = urb_tasks \union {devid(a)}
            /\ UNCHANGED <<active, deviceCount>>
       ELSE /\ pc' = [pc EXCEPT ![a] = "bad_config"]
            /\ active' = active \ {devid(a)}
            /\ deviceCount' = IF devid(a) \in active THEN deviceCount - 1
                              ELSE deviceCount
            /\ UNCHANGED <<registry, urb_tasks>>
    /\ UNCHANGED device

\* The answer is sent, and a later request comes with a new engine.
respond(a) ==
    /\ pc[a] \notin {"idle", "create", "configure"}
    /\ pc' = [pc EXCEPT ![a] = "idle"]
    /\ device' = [device EXCEPT ![a] = {}]
    /\ registry' = [registry EXCEPT ![a] = {}]
    /\ UNCHANGED <<active, deviceCount, urb_tasks>>

AttachNext ==
    \E a \in Attaches : \/ import(a)
                        \/ create_device(a)
                        \/ configure_device(a)
                        \/ respond(a)

AttachSpec == AttachInit /\ [][AttachNext]_attachVars

-----------------------------------------------------------------------------
(* Every virtual device belongs to one request that is still attaching it or
   to a forwarding task that serves it: an attach that fails half way, or that
   meets another attach of the same device, leaves nothing behind, neither in
   the table nor in the count of active slots. *)
NoOrphanDevice ==
    /\ deviceCount = Cardinality(active)
    /\ \A i \in active : i \in urb_tasks
                      \/ \E a \in Attaches : pc[a] = "configure" /\ devid(a) = i
    /\ \A a \in Attaches : pc[a] = "configure" => devid(a) \in active

(* The driver's README: virtual devices are created when remote devices are
   imported.  So an import the server granted is not refused by the driver,
   unless the device is already there. *)
ImportsAreAccepted == \A a \in Attaches : pc[a] \notin {"bad_id", "bad_config"}
=============================================================================
