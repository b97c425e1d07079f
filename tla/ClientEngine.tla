---------------------------- MODULE ClientEngine ----------------------------
(***************************************************************************)
(* ClientEngine on Linux and Windows (engine.rs), the virtual host         *)
(* controller it plugs imported devices into (vhci.rs, vhci_windows.rs)    *)
(* and attach_with_reconnect (reconnect.rs).                               *)
(*                                                                         *)
(* Tasks call attach, detach and list.  The port table belongs to the      *)
(* kernel: it is shared by every engine, it changes when a server closes a *)
(* connection, and an engine only sees it by reading the status file.  So  *)
(* a port found free may be taken when it is written, and a bus id in the  *)
(* engine's own registry may outlive the import it names.                  *)
(*                                                                         *)
(* lease[d] says who holds the server's session for device d: the task     *)
(* whose connection imported it, the port the connection was handed to, a  *)
(* closed connection the server has not noticed yet, a client that is gone *)
(* and that the server never notices ("leaked"), or nobody.                *)
(***************************************************************************)
EXTENDS Integers, Sequences

CONSTANTS Tasks,        \* callers of the library
          EngineOf,     \* EngineOf[t]: the ClientEngine task t uses
          Devices,      \* bus ids a server exports
          Speed,        \* Speed[d]: USB/IP speed code of d
          PortList,     \* the ports in the order of the status file
          HubOf,        \* HubOf[p]: "hs" or "ss"
          Platforms,    \* subset of {"linux", "windows"}
          PolicyOf,     \* PolicyOf[t]: the reconnect policy task t passes
          MaxCalls,     \* bound: calls of all tasks
          MaxFaults,    \* bound: connections, reads and writes that fail
          MaxAttempt    \* attempts are counted up to here; no policy has
                        \* more retries and every delay has reached its limit

VARIABLES platform, call, calls, registry, port, lease, faults

engineVars == <<platform, call, calls, registry, port, lease, faults>>

BadBusId == "longer than 31 bytes"
NoPort == "none"
Ports == {PortList[i] : i \in DOMAIN PortList}
Engines == {EngineOf[t] : t \in Tasks}

ASSUME EngineAssumption ==
    /\ PortList \in Seq(Ports) /\ NoPort \notin Ports
    /\ HubOf \in [Ports -> {"hs", "ss"}]
    /\ Speed \in [Devices -> Nat] /\ Devices \cap {BadBusId, "none"} = {}
    /\ Tasks \cap Ports = {} /\ (Tasks \union Ports) \cap {"free", "closed", "leaked", "none"} = {}
    /\ MaxAttempt \in Nat
    /\ \A t \in Tasks : /\ PolicyOf[t].enabled \in BOOLEAN
                        /\ PolicyOf[t].max_retries \in 0..MaxAttempt
                        /\ PolicyOf[t].initial_delay \in Nat /\ PolicyOf[t].max_delay \in Nat

\* What exponentiation does up to the bound: a law of arithmetic that is
\* stated because none of the provers knows it.
ASSUME DoublingAssumption ==
    \A k \in 0..MaxAttempt : 2^k \in Nat \ {0} /\ 2^(k + 1) = 2 * 2^k

-----------------------------------------------------------------------------
(* ReconnectPolicy.  Delays are in seconds, and what is slept in ten        *)
(* thousandths of a second; 761 is the prime of the jitter modulo 1000.     *)

disabled == [enabled |-> FALSE, max_retries |-> 0, initial_delay |-> 1, max_delay |-> 30]

from_config(enabled, retries, initial, max) ==
    [enabled |-> enabled, max_retries |-> retries,
     initial_delay |-> initial, max_delay |-> max]

jitter_for_attempt(attempt) == (attempt * 761) % 1000

Least(a, b) == IF a < b THEN a ELSE b

delay_for_attempt(p, attempt) ==
    LET capped == Least(p.initial_delay * 2^attempt, p.max_delay)
    IN  Least(capped * (10000 + jitter_for_attempt(attempt)), p.max_delay * 10000)

\* Mutated form of should_retry: one retry too many.
should_retry_OneMore(p, attempt) ==
    p.enabled /\ (p.max_retries = 0 \/ attempt <= p.max_retries)

should_retry(p, attempt) ==
    p.enabled /\ (p.max_retries = 0 \/ attempt < p.max_retries)

-----------------------------------------------------------------------------
(* The status file and what is read from it.                               *)

from_raw(val) == CASE val = 4 -> "Free" [] val = 6 -> "InUse" [] OTHER -> "Unknown"

is_free(status) == status = "Free"

\* One line of the file per port.
parse_vhci_status ==
    [p \in Ports |-> [hub |-> HubOf[p], status |-> from_raw(port[p].sta),
                      devid |-> port[p].dev]]

FirstOf(S) == CHOOSE i \in S : \A j \in S : i <= j

find_free_port_in_list(ports, speed) ==
    LET target_hub == IF speed >= 5 THEN "ss" ELSE "hs"
        free == {i \in DOMAIN PortList : /\ ports[PortList[i]].hub = target_hub
                                         /\ is_free(ports[PortList[i]].status)}
    IN  IF free = {} THEN NoPort ELSE PortList[FirstOf(free)]

-----------------------------------------------------------------------------
FreePort == [sta |-> 4, dev |-> "none", by |-> "none"]

Returned == [op |-> "none", at |-> "returned", busid |-> "none", port |-> NoPort,
             attempt |-> 0, delay |-> 0, ok |-> TRUE,
             seen |-> {}, listed |-> {}]

EngineInit ==
    /\ platform \in Platforms
    /\ call = [t \in Tasks |-> Returned]
    /\ calls = 0
    /\ registry = [e \in Engines |-> [p \in Ports |-> "none"]]
    /\ port = [p \in Ports |-> FreePort]
    /\ lease = [d \in Devices |-> "free"]
    /\ faults = 0

At(t, at) == call[t].at = at
Goto(t, at) == call' = [call EXCEPT ![t].at = at]
Return(t, ok) == call' = [call EXCEPT ![t].at = "returned", ![t].ok = ok]

\* Reads and writes that may fail do so until the bound is spent.
Fault == faults < MaxFaults /\ faults' = faults + 1

\* An attach fails: its connection is dropped, and attach_with_reconnect
\* sleeps before the next attempt or returns the error.
Failed(t) ==
    LET c == call[t]
    IN  call' = [call EXCEPT ![t] =
            IF should_retry(PolicyOf[t], c.attempt)
            THEN [c EXCEPT !.at = "sleep",
                           !.delay = delay_for_attempt(PolicyOf[t], c.attempt)]
            ELSE [c EXCEPT !.at = "returned", !.ok = FALSE]]

Dropped(holder) == [d \in Devices |-> IF lease[d] = holder THEN "closed" ELSE lease[d]]

-----------------------------------------------------------------------------
(* attach_with_reconnect and attach_device.                                *)

CallAttach(t) ==
    /\ At(t, "returned") /\ calls < MaxCalls
    /\ calls' = calls + 1
    /\ \E b \in Devices \union {BadBusId} :
           call' = [call EXCEPT ![t] = [Returned EXCEPT !.op = "attach", !.at = "attach",
                                                        !.busid = b]]
    /\ UNCHANGED <<platform, registry, port, lease, faults>>

\* The sleep between two attempts ends.
wake(t) ==
    /\ At(t, "sleep")
    /\ call' = [call EXCEPT ![t].at = "attach", ![t].attempt = Least(@ + 1, MaxAttempt)]
    /\ UNCHANGED <<platform, calls, registry, port, lease, faults>>

\* Mutated form of connect: a failed attempt keeps what the next one waits for.
connect_Held(t) ==
    /\ platform = "linux" /\ At(t, "attach") /\ call[t].attempt = 0
    /\ IF call[t].busid = BadBusId THEN Failed(t) ELSE Goto(t, "import")
    /\ UNCHANGED <<platform, calls, registry, port, lease, faults>>

\* busid_from_str and the connection with its timeout.
connect(t) ==
    /\ platform = "linux" /\ At(t, "attach")
    /\ \/ /\ call[t].busid = BadBusId
          /\ Failed(t) /\ UNCHANGED faults
       \/ /\ call[t].busid # BadBusId
          /\ Goto(t, "import") /\ UNCHANGED faults
       \/ /\ call[t].busid # BadBusId
          /\ Failed(t) /\ Fault
    /\ UNCHANGED <<platform, calls, registry, port, lease>>

\* What the server has done when its reply does not arrive: nothing, or it
\* granted the device.  It gives the device back when it notices that the
\* connection is closed, which it does not when writing the reply failed, or
\* when the client vanished silently.
Abandoned(d) ==
    \/ UNCHANGED lease
    \/ /\ lease[d] = "free"
       /\ \E l \in {"closed", "leaked"} : lease' = [lease EXCEPT ![d] = l]

\* OP_REQ_IMPORT and its reply: granted, refused, or no reply.  Without one
\* the connection breaks, or it stays open: read_op_message has no timeout.
import(t) ==
    LET d == call[t].busid
    IN  /\ At(t, "import")
        /\ \/ /\ lease[d] = "free"
              /\ lease' = [lease EXCEPT ![d] = t]
              /\ Goto(t, "find") /\ UNCHANGED faults
           \/ /\ lease[d] # "free"
              /\ Failed(t) /\ UNCHANGED <<lease, faults>>
           \/ /\ Abandoned(d) /\ Fault
              /\ Failed(t) \/ Goto(t, "unanswered")
        /\ UNCHANGED <<platform, calls, registry, port>>

\* A connection that stayed silent breaks after all.
hangup(t) ==
    /\ At(t, "unanswered")
    /\ Failed(t)
    /\ UNCHANGED <<platform, calls, registry, port, lease, faults>>

\* list_ports and find_free_port_in_list.
find_free_port(t) ==
    LET p == find_free_port_in_list(parse_vhci_status, Speed[call[t].busid])
    IN  /\ At(t, "find")
        /\ \/ /\ p # NoPort
              /\ call' = [call EXCEPT ![t].at = "plug", ![t].port = p]
              /\ UNCHANGED <<lease, faults>>
           \/ /\ p = NoPort
              /\ Failed(t) /\ lease' = Dropped(t) /\ UNCHANGED faults
           \/ Failed(t) /\ lease' = Dropped(t) /\ Fault
        /\ UNCHANGED <<platform, calls, registry, port>>

\* Mutated form of vhci_attach: the descriptor is given up before the write,
\* so a refused connection stays open.
vhci_attach_Leak(t) ==
    LET p == call[t].port
        d == call[t].busid
    IN  /\ At(t, "plug")
        /\ IF port[p].sta = 4
           THEN /\ port' = [port EXCEPT ![p] = [sta |-> 6, dev |-> d, by |-> t]]
                /\ lease' = [lease EXCEPT ![d] = IF @ = t THEN p ELSE @]
                /\ Goto(t, "record")
           ELSE Failed(t) /\ UNCHANGED <<port, lease>>
        /\ UNCHANGED <<platform, calls, registry, faults>>

\* VirtualHci::attach: the kernel takes the connection, or refuses the write
\* because the port is taken.
vhci_attach(t) ==
    LET p == call[t].port
        d == call[t].busid
    IN  /\ At(t, "plug")
        /\ \/ /\ port[p].sta = 4
              /\ port' = [port EXCEPT ![p] = [sta |-> 6, dev |-> d, by |-> t]]
              /\ lease' = [lease EXCEPT ![d] = IF @ = t THEN p ELSE @]
              /\ Goto(t, "record") /\ UNCHANGED faults
           \/ /\ port[p].sta # 4
              /\ Failed(t) /\ lease' = Dropped(t) /\ UNCHANGED <<port, faults>>
           \/ Failed(t) /\ lease' = Dropped(t) /\ Fault /\ UNCHANGED port
        /\ UNCHANGED <<platform, calls, registry>>

\* Host, port and bus id must fit the fields of the request.
PluginHardwareRequest_new(busid) == busid # BadBusId

\* IOCTL_PLUGIN_HARDWARE: the driver connects, imports and chooses the port.
plugin_hardware(t) ==
    LET d == call[t].busid
        fits == PluginHardwareRequest_new(d)
    IN  /\ platform = "windows" /\ At(t, "attach")
        /\ \/ /\ fits /\ lease[d] = "free"
              /\ \E p \in Ports :
                    /\ port[p].sta = 4
                    /\ port' = [port EXCEPT ![p] = [sta |-> 6, dev |-> d, by |-> t]]
                    /\ lease' = [lease EXCEPT ![d] = p]
                    /\ call' = [call EXCEPT ![t].at = "record", ![t].port = p]
              /\ UNCHANGED faults
           \/ /\ fits => lease[d] # "free" \/ \A p \in Ports : port[p].sta # 4
              /\ Failed(t) /\ UNCHANGED <<port, lease, faults>>
           \/ fits /\ Failed(t) /\ Fault /\ Abandoned(d) /\ UNCHANGED port
        /\ UNCHANGED <<platform, calls, registry>>

\* Mutated form of record: an entry that is already there is kept.
record_Kept(t) ==
    /\ At(t, "record")
    /\ registry' = [registry EXCEPT ![EngineOf[t]][call[t].port] =
                        IF @ = "none" THEN call[t].busid ELSE @]
    /\ Return(t, TRUE)
    /\ UNCHANGED <<platform, calls, port, lease, faults>>

\* The entry for the port is inserted or replaced; the attach succeeds.
record(t) ==
    /\ At(t, "record")
    /\ registry' = [registry EXCEPT ![EngineOf[t]][call[t].port] = call[t].busid]
    /\ Return(t, TRUE)
    /\ UNCHANGED <<platform, calls, port, lease, faults>>

-----------------------------------------------------------------------------
(* detach_device and get_imported_devices.                                 *)

CallDetach(t) ==
    /\ At(t, "returned") /\ calls < MaxCalls
    /\ calls' = calls + 1
    /\ \E p \in Ports :
           call' = [call EXCEPT ![t] = [Returned EXCEPT !.op = "detach", !.port = p,
                        !.at = IF platform = "linux" THEN "verify" ELSE "unplug"]]
    /\ UNCHANGED <<platform, registry, port, lease, faults>>

verify(t) ==
    /\ At(t, "verify")
    /\ \/ /\ ~is_free(parse_vhci_status[call[t].port].status)
          /\ Goto(t, "unplug") /\ UNCHANGED faults
       \/ /\ is_free(parse_vhci_status[call[t].port].status)
          /\ Return(t, FALSE) /\ UNCHANGED faults
       \/ Return(t, FALSE) /\ Fault
    /\ UNCHANGED <<platform, calls, registry, port, lease>>

\* The port is freed and its connection closed, or the request is refused
\* because the port is free, or fails.
Unplug(t) ==
    LET p == call[t].port
    IN  /\ At(t, "unplug")
        /\ \/ /\ port[p].sta # 4
              /\ port' = [port EXCEPT ![p] = FreePort]
              /\ lease' = Dropped(p)
              /\ Goto(t, "remove") /\ UNCHANGED faults
           \/ port[p].sta = 4 /\ Return(t, FALSE) /\ UNCHANGED <<port, lease, faults>>
           \/ Return(t, FALSE) /\ Fault /\ UNCHANGED <<port, lease>>
        /\ UNCHANGED <<platform, calls, registry>>

\* VirtualHci::detach: a write to the detach file.
vhci_detach(t) == platform = "linux" /\ Unplug(t)

\* IOCTL_UNPLUG_HARDWARE.
unplug_hardware(t) == platform = "windows" /\ Unplug(t)

remove(t) ==
    /\ At(t, "remove")
    /\ registry' = [registry EXCEPT ![EngineOf[t]][call[t].port] = "none"]
    /\ Return(t, TRUE)
    /\ UNCHANGED <<platform, calls, port, lease, faults>>

\* The ports in use: those of the status file that are not free, and on
\* Windows the entries IOCTL_GET_IMPORTED returns.
list_ports ==
    LET used == IF platform = "linux"
                THEN {p \in Ports : ~is_free(parse_vhci_status[p].status)}
                ELSE {p \in Ports : port[p].sta # 4}
    IN  {[port |-> p, devid |-> port[p].dev, by |-> port[p].by] : p \in used}

CallList(t) ==
    /\ At(t, "returned") /\ calls < MaxCalls
    /\ calls' = calls + 1
    /\ \/ /\ call' = [call EXCEPT ![t] = [Returned EXCEPT !.op = "list", !.at = "cross",
                                                        !.seen = list_ports]]
          /\ UNCHANGED faults
       \/ /\ call' = [call EXCEPT ![t] = [Returned EXCEPT !.op = "list", !.ok = FALSE]]
          /\ Fault
    /\ UNCHANGED <<platform, registry, port, lease>>

\* The bus id of a port is that of the entry of the engine's own registry.
get_imported_devices(t) ==
    /\ At(t, "cross")
    /\ call' = [call EXCEPT ![t].at = "returned", ![t].listed =
                   {[port |-> s.port, devid |-> s.devid, by |-> s.by,
                     busid |-> registry[EngineOf[t]][s.port]] : s \in call[t].seen}]
    /\ UNCHANGED <<platform, calls, registry, port, lease, faults>>

-----------------------------------------------------------------------------
(* The kernel and the server, from how the engine uses them.               *)

\* The server ends a session: the device is unbound or the server restarts.
ServerDrops(d) ==
    /\ lease[d] \in Tasks \union Ports \union {"leaked"}
    /\ Fault
    /\ lease' = [lease EXCEPT ![d] = "free"]
    /\ UNCHANGED <<platform, call, calls, registry, port>>

\* The kernel notices that the connection of a port is closed.
PortDown(p) ==
    /\ port[p].sta # 4 /\ lease[port[p].dev] # p
    /\ port' = [port EXCEPT ![p] = FreePort]
    /\ UNCHANGED <<platform, call, calls, registry, lease, faults>>

\* The session of the server ends when a client has closed its connection,
\* and release gives the device back.
SessionEnded(d) ==
    /\ lease[d] = "closed"
    /\ lease' = [lease EXCEPT ![d] = "free"]
    /\ UNCHANGED <<platform, call, calls, registry, port, faults>>

\* The end of a connection does not reach the server, whose session reads
\* without a timeout.
SessionLeaked(d) ==
    /\ lease[d] = "closed"
    /\ Fault
    /\ lease' = [lease EXCEPT ![d] = "leaked"]
    /\ UNCHANGED <<platform, call, calls, registry, port>>

Step(t) ==
    \/ wake(t) \/ connect(t) \/ import(t) \/ find_free_port(t) \/ vhci_attach(t)
    \/ plugin_hardware(t) \/ record(t) \/ verify(t) \/ vhci_detach(t) \/ unplug_hardware(t)
    \/ remove(t) \/ get_imported_devices(t)

EngineNext ==
    \/ \E t \in Tasks : CallAttach(t) \/ CallDetach(t) \/ CallList(t) \/ hangup(t) \/ Step(t)
    \/ \E p \in Ports : PortDown(p)
    \/ \E d \in Devices : ServerDrops(d) \/ SessionEnded(d) \/ SessionLeaked(d)

EngineSpec == EngineInit /\ [][EngineNext]_engineVars

\* A call that runs goes on, unless it waits for a reply that does not come,
\* and both ends notice a connection whose closing reaches them.
FairEngineSpec ==
    /\ EngineSpec
    /\ \A t \in Tasks : WF_engineVars(Step(t))
    /\ \A p \in Ports : WF_engineVars(PortDown(p))
    /\ \A d \in Devices : WF_engineVars(SessionEnded(d))

-----------------------------------------------------------------------------
Holders == Tasks \union Ports \union {"free", "closed", "leaked"}

Plugged(p) == port[p].sta # 4

EngineTypeOK ==
    /\ platform \in Platforms
    /\ DOMAIN call = Tasks
    /\ \A t \in Tasks :
          /\ DOMAIN call[t] = DOMAIN Returned
          /\ call[t].busid \in Devices \union {BadBusId, "none"}
          /\ call[t].port \in Ports \union {NoPort}
          /\ call[t].attempt \in 0..MaxAttempt
          /\ call[t].at \in {"attach", "sleep"} => call[t].busid # "none"
          /\ call[t].at \in {"import", "unanswered", "find", "plug", "record"} =>
                 call[t].busid \in Devices
          /\ call[t].at \in {"plug", "record", "verify", "unplug", "remove"} =>
                 call[t].port \in Ports
    /\ registry \in [Engines -> [Ports -> Devices \union {"none"}]]
    /\ port \in [Ports -> [sta : {4, 6}, dev : Devices \union {"none"},
                            by : Tasks \union {"none"}]]
    /\ \A p \in Ports : Plugged(p) => port[p].dev \in Devices /\ port[p].by \in Tasks
    /\ lease \in [Devices -> Holders]

(* Every session the server holds for this client is in use: an attach is on
   its way to a port with that connection, or the port it was handed to shows
   that device.  A port lost to another attach, a failed write and a failed
   status read leave no session behind. *)
LeaseIsUsed ==
    \A d \in Devices :
        /\ \A t \in Tasks : lease[d] = t => /\ call[t].busid = d
                                            /\ call[t].at \in {"find", "plug"}
        /\ \A p \in Ports : lease[d] = p => port[p].dev = d /\ Plugged(p)

(* A device is plugged into the hub of its speed, whatever attaches run
   beside it (find_free_port_in_list on Linux). *)
HubMatchesSpeed ==
    platform = "linux" =>
        \A p \in Ports : Plugged(p) => (HubOf[p] = "ss" <=> Speed[port[p].dev] >= 5)

(* get_imported_devices names the right bus id for every import that was made
   through the same engine and is still on its port: entries left by imports
   that ended by themselves are replaced when the port is used again.  This
   is claimed of engines that one task uses at a time. *)
OwnImportsListed ==
    \A t \in Tasks : call[t].op = "list" =>
        \A l \in call[t].listed : EngineOf[l.by] = EngineOf[t] => l.busid = l.devid

(* attach_with_reconnect returns an error only when the policy is disabled or
   its retries are used up, and with unlimited retries never. *)
GivesUpAsConfigured ==
    \A t \in Tasks :
        LET c == call[t] IN
        /\ c.op = "attach" /\ c.at = "returned" /\ ~c.ok =>
               IF PolicyOf[t].enabled THEN c.attempt = PolicyOf[t].max_retries /\ c.attempt # 0
               ELSE c.attempt = 0
        /\ PolicyOf[t].max_retries # 0 => c.attempt <= PolicyOf[t].max_retries

(* The delays of one attach_with_reconnect never shrink, and stay between the
   initial and the maximal delay. *)
BackoffGrows ==
    \A t \in Tasks : call'[t].at = "sleep" /\ call[t].at # "sleep" =>
        LET p == PolicyOf[t] IN
        /\ call'[t].delay >= call[t].delay
        /\ call'[t].delay >= 10000 * Least(p.initial_delay, p.max_delay)
        /\ call'[t].delay <= 10000 * p.max_delay

(* Retries follow the policy they were configured with: every step leads to a
   state in which no task gave up early or late, and starts no wait that is too
   short or too long (should_retry and delay_for_attempt). *)
RetriesAsConfigured == [][GivesUpAsConfigured' /\ BackoffGrows]_engineVars

KeptOut(t) ==
    LET d == call[t].busid
    IN  d \in Devices => \/ lease[d] \in (Tasks \union Ports \union {"leaked"}) \ {t}
                        \/ find_free_port_in_list(parse_vhci_status, Speed[d]) = NoPort

(* An attach that retries without limit succeeds, unless its bus id is no bus
   id, the server stays silent on an open connection or, again and again,
   another import holds the device, the server keeps it for a client it has
   not noticed to be gone, or no port of its hub is free.  So neither a failed
   attempt of its own whose closing the server has noticed nor an error of
   find_free_port or vhci_attach keeps it out. *)
ReconnectSucceeds ==
    \A t \in Tasks :
        (call[t].busid \in Devices)
            ~> (At(t, "returned") \/ At(t, "unanswered") \/ KeptOut(t))
=============================================================================
