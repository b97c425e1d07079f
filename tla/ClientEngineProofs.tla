------------------------- MODULE ClientEngineProofs -------------------------
(***************************************************************************)
(* Proofs about the client engine, for any number of tasks, devices and    *)
(* ports, any policies, and either platform.                               *)
(***************************************************************************)
EXTENDS ClientEngine, WellFoundedInduction, TLAPS

\* A port that was found matches the speed of the device it is meant for.
FoundMatches ==
    platform = "linux" =>
        \A t \in Tasks : At(t, "plug") =>
            (HubOf[call[t].port] = "ss" <=> Speed[call[t].busid] >= 5)

\* The inductive invariant for the ports and the sessions at the server.
PortInv == EngineTypeOK /\ LeaseIsUsed /\ HubMatchesSpeed /\ FoundMatches

\* Only the call of t changes, and it keeps what it is about.
OnlyCall(t) ==
    /\ DOMAIN call' = Tasks /\ DOMAIN call'[t] = DOMAIN Returned
    /\ \A u \in Tasks \ {t} : call'[u] = call[u]

-----------------------------------------------------------------------------
\* A set of indices has a first one (the iteration of find_free_port_in_list).
LEMMA FirstOfIn == ASSUME NEW S \in SUBSET Nat, S # {} PROVE FirstOf(S) \in S
<1> DEFINE Below == {ss \in Nat \X Nat : ss[1] < ss[2]}
<1>0. IsWellFoundedOn(Below, Nat)
  <2>1. Below = OpToRel(<, Nat)
    BY Zenon DEF OpToRel
  <2> QED
    BY <2>1, NatLessThanWellFounded, Zenon
<1>1. PICK i \in S : \A j \in S : ~(<<j, i>> \in Below)
  <2> HIDE DEF Below
  <2> QED BY <1>0, WFMin
<1>2. ASSUME NEW j \in S PROVE i <= j
  <2>1. ~(<<j, i>> \in Below)
    BY <1>1, Zenon
  <2>2. i \in Nat /\ j \in Nat
    OBVIOUS
  <2> QED
    BY ONLY <2>1, <2>2
<1> QED
  BY <1>2, Zenon DEF FirstOf

\* What find_free_port_in_list returns: no port, or a port of the list that is
\* free and belongs to the hub of the speed.
LEMMA FoundPort ==
    ASSUME NEW ports, NEW speed,
           NEW p, p = find_free_port_in_list(ports, speed), p # NoPort
    PROVE  /\ p \in Ports
           /\ ports[p].hub = IF speed >= 5 THEN "ss" ELSE "hs"
           /\ is_free(ports[p].status)
<1> DEFINE target_hub == IF speed >= 5 THEN "ss" ELSE "hs"
           free == {i \in DOMAIN PortList : /\ ports[PortList[i]].hub = target_hub
                                            /\ is_free(ports[PortList[i]].status)}
<1>1. free \in SUBSET Nat
  BY EngineAssumption
<1>2. free # {} /\ p = PortList[FirstOf(free)]
  BY DEF find_free_port_in_list
<1>3. FirstOf(free) \in free
  <2> HIDE DEF free
  <2> QED BY <1>1, <1>2, FirstOfIn
<1> QED
  BY <1>2, <1>3, Zenon DEF Ports
-----------------------------------------------------------------------------
\* "none" is not a name the engine accepts as a bus id or not.
LEMMA NamesDiffer == "none" \notin Devices /\ "none" # BadBusId
<1>1. "none" # BadBusId
  BY DEF BadBusId
<1> QED
  BY <1>1, EngineAssumption

\* Goto and Return change the place of the call, and its result.
LEMMA Moves ==
    ASSUME EngineTypeOK, NEW t \in Tasks, NEW at, NEW ok,
           Goto(t, at) \/ (Return(t, ok) /\ at = "returned")
    PROVE  /\ OnlyCall(t) /\ call'[t].at = at /\ call'[t].busid = call[t].busid
           /\ call'[t].port = call[t].port /\ call'[t].attempt = call[t].attempt
           /\ call'[t].op = call[t].op /\ call'[t].listed = call[t].listed
  BY DEF EngineTypeOK, Goto, Return, OnlyCall, Returned

\* Return ends the call.
LEMMA ReturnMoves ==
    ASSUME EngineTypeOK, NEW t \in Tasks, NEW ok, Return(t, ok)
    PROVE  OnlyCall(t) /\ call'[t].at = "returned" /\ call'[t].op = call[t].op
  BY DEF EngineTypeOK, Return, OnlyCall, Returned

\* An attach that fails sleeps or returns (attach_with_reconnect).
LEMMA FailedMoves ==
    ASSUME EngineTypeOK, NEW t \in Tasks, Failed(t)
    PROVE  /\ OnlyCall(t) /\ call'[t].at \in {"sleep", "returned"}
           /\ call'[t].busid = call[t].busid /\ call'[t].port = call[t].port
           /\ call'[t].attempt = call[t].attempt
           /\ call'[t].op = call[t].op /\ call'[t].listed = call[t].listed
  BY DEF EngineTypeOK, Failed, OnlyCall, Returned

\* Closing a connection changes the sessions of its holder only.
LEMMA DroppedLease ==
    ASSUME EngineTypeOK, NEW h
    PROVE  /\ Dropped(h) \in [Devices -> Holders]
           /\ \A d \in Devices : Dropped(h)[d] = IF lease[d] = h THEN "closed" ELSE lease[d]
  BY DEF EngineTypeOK, Dropped, Holders

\* No device is imported and no call runs at the start.
LEMMA PortInitInv == EngineInit => PortInv
  BY EngineAssumption DEF EngineInit, PortInv, EngineTypeOK, LeaseIsUsed, HubMatchesSpeed,
     FoundMatches, Returned, FreePort, Plugged, Holders, At

\* A step of a call that touches neither port nor session, and does not end
\* where it would own one it did not have.
LEMMA QuietStep ==
    ASSUME PortInv, NEW t \in Tasks, OnlyCall(t),
           UNCHANGED <<platform, port, lease>>,
           registry' \in [Engines -> [Ports -> Devices \union {"none"}]],
           call[t].at \notin {"find", "plug"},
           call'[t].at \notin {"import", "unanswered", "find", "plug", "record"},
           call'[t].busid \in Devices \union {BadBusId, "none"},
           call'[t].port \in Ports \union {NoPort},
           call'[t].attempt \in 0..MaxAttempt,
           call'[t].at \in {"attach", "sleep"} => call'[t].busid # "none",
           call'[t].at \in {"verify", "unplug", "remove"} => call'[t].port \in Ports
    PROVE  PortInv'
<1> USE DEF PortInv, OnlyCall
<1>1. EngineTypeOK'
  BY DEF EngineTypeOK, Plugged
<1>2. LeaseIsUsed'
  <2>1. \A d \in Devices : lease[d] # t
    BY DEF LeaseIsUsed
  <2> QED
    BY <2>1 DEF LeaseIsUsed, Plugged
<1>3. HubMatchesSpeed' /\ FoundMatches'
  BY DEF HubMatchesSpeed, FoundMatches, Plugged, At
<1> QED
  BY <1>1, <1>2, <1>3

\* A step of an attach that fails: its session, if it has one, is closed.
LEMMA FailedStep ==
    ASSUME PortInv, NEW t \in Tasks, Failed(t), lease' = Dropped(t),
           call[t].at \in {"find", "plug"},
           UNCHANGED <<platform, port, registry>>
    PROVE  PortInv'
<1>0. /\ OnlyCall(t) /\ call'[t].at \in {"sleep", "returned"}
      /\ call'[t].busid = call[t].busid /\ call'[t].port = call[t].port
      /\ call'[t].attempt = call[t].attempt
  BY FailedMoves DEF PortInv
<1>d. /\ lease' \in [Devices -> Holders]
      /\ \A d \in Devices : lease'[d] = IF lease[d] = t THEN "closed" ELSE lease[d]
  BY DroppedLease DEF PortInv
<1> USE <1>0, <1>d DEF PortInv, OnlyCall
<1>1. EngineTypeOK'
  BY NamesDiffer DEF EngineTypeOK, Plugged
<1>2. LeaseIsUsed'
  BY EngineAssumption DEF LeaseIsUsed, Plugged
<1>3. HubMatchesSpeed' /\ FoundMatches'
  BY DEF HubMatchesSpeed, FoundMatches, Plugged, At
<1> QED
  BY <1>1, <1>2, <1>3

\* A failed attach that has no session changes nothing but its call.
LEMMA FailedEarly ==
    ASSUME PortInv, NEW t \in Tasks, Failed(t),
           call[t].at \in {"attach", "import", "unanswered"},
           UNCHANGED <<platform, port, registry, lease>>
    PROVE  PortInv'
<1>1. /\ OnlyCall(t) /\ call'[t].at \in {"sleep", "returned"}
      /\ call'[t].busid = call[t].busid /\ call'[t].port = call[t].port
      /\ call'[t].attempt = call[t].attempt
  BY FailedMoves DEF PortInv
<1> QED
  BY <1>1, QuietStep, NamesDiffer DEF PortInv, EngineTypeOK

\* The calls a task can make.
LEMMA CallsKeepPorts ==
    ASSUME PortInv, NEW t \in Tasks, CallAttach(t) \/ CallDetach(t) \/ CallList(t)
    PROVE  PortInv'
<1>1. OnlyCall(t) /\ call[t].at = "returned" /\ UNCHANGED <<platform, port, lease, registry>>
  BY Zenon DEF CallAttach, CallDetach, CallList, At, OnlyCall, PortInv, EngineTypeOK, Returned
<1> DEFINE Fits == 
      /\ call'[t].at \in {"attach", "verify", "unplug", "cross", "returned"}
      /\ call'[t].busid \in Devices \union {BadBusId, "none"}
      /\ call'[t].port \in Ports \union {NoPort}
      /\ call'[t].attempt \in 0..MaxAttempt
      /\ call'[t].at = "attach" => call'[t].busid # "none"
      /\ call'[t].at \in {"verify", "unplug"} => call'[t].port \in Ports
<1>t. DOMAIN call = Tasks /\ 0 \in 0..MaxAttempt /\ "none" \notin Devices \union {BadBusId}
  BY NamesDiffer, EngineAssumption DEF PortInv, EngineTypeOK
<1>2. ASSUME CallAttach(t) PROVE Fits
  <2>1. PICK b \in Devices \union {BadBusId} :
            call'[t] = [Returned EXCEPT !.op = "attach", !.at = "attach", !.busid = b]
    BY <1>2, <1>t, Zenon DEF CallAttach
  <2> QED
    BY <2>1, <1>t DEF Returned
<1>3. ASSUME CallDetach(t) PROVE Fits
  <2>1. PICK p \in Ports :
            call'[t] = [Returned EXCEPT !.op = "detach", !.port = p,
                            !.at = IF platform = "linux" THEN "verify" ELSE "unplug"]
    BY <1>3, <1>t, Zenon DEF CallDetach
  <2> QED
    BY <2>1, <1>t DEF Returned
<1>4. ASSUME CallList(t) PROVE Fits
  <2>1. \/ call'[t] = [Returned EXCEPT !.op = "list", !.at = "cross", !.seen = list_ports]
        \/ call'[t] = [Returned EXCEPT !.op = "list", !.ok = FALSE]
    BY <1>4, <1>t DEF CallList
  <2> QED
    BY <2>1, <1>t, Zenon DEF Returned
<1>5. registry' \in [Engines -> [Ports -> Devices \union {"none"}]]
  BY <1>1 DEF PortInv, EngineTypeOK
<1> QED
  BY <1>1, <1>2, <1>3, <1>4, <1>5, QuietStep
-----------------------------------------------------------------------------
\* attach_device up to the import reply.
LEMMA ConnectKeepsPorts ==
    ASSUME PortInv, NEW t \in Tasks, wake(t) \/ connect(t) PROVE PortInv'
<1>t. /\ EngineTypeOK /\ call[t].attempt \in 0..MaxAttempt /\ MaxAttempt \in Nat
      /\ call[t].busid \in Devices \union {BadBusId, "none"}
      /\ call[t].port \in Ports \union {NoPort}
      /\ call[t].at \in {"attach", "sleep"} => call[t].busid # "none"
  BY EngineAssumption DEF PortInv, EngineTypeOK
<1>1. CASE wake(t)
  <2>1. /\ OnlyCall(t) /\ call[t].at = "sleep" /\ call'[t].at = "attach"
        /\ call'[t].busid = call[t].busid /\ call'[t].port = call[t].port
        /\ call'[t].attempt = Least(call[t].attempt + 1, MaxAttempt)
        /\ UNCHANGED <<platform, port, lease, registry>>
    BY <1>1 DEF wake, At, OnlyCall, PortInv, EngineTypeOK, Returned
  <2>2. call'[t].attempt \in 0..MaxAttempt
    BY <1>t, <2>1 DEF Least
  <2>3. registry' \in [Engines -> [Ports -> Devices \union {"none"}]]
    BY <2>1, <1>t DEF EngineTypeOK
  <2> QED
    BY <1>t, <2>1, <2>2, <2>3, QuietStep
<1>2. CASE connect(t) /\ Failed(t)
  BY <1>2, FailedEarly DEF connect, At
<1>3. CASE connect(t) /\ call[t].busid # BadBusId /\ Goto(t, "import")
  <2>1. /\ OnlyCall(t) /\ call[t].at = "attach" /\ call'[t].at = "import"
        /\ call'[t].busid = call[t].busid /\ call'[t].port = call[t].port
        /\ call'[t].attempt = call[t].attempt
        /\ UNCHANGED <<platform, port, lease, registry>>
    BY <1>3, <1>t, Moves DEF connect, At
  <2>2. call[t].busid \in Devices
    BY <1>t, <1>3, <2>1 DEF EngineTypeOK
  <2> USE DEF PortInv, OnlyCall
  <2>3. EngineTypeOK'
    BY <1>t, <2>1, <2>2 DEF EngineTypeOK, Plugged
  <2>4. \A d \in Devices : lease[d] # t
    BY <2>1 DEF LeaseIsUsed
  <2>5. LeaseIsUsed'
    BY <2>1, <2>4 DEF LeaseIsUsed, Plugged
  <2>6. HubMatchesSpeed' /\ FoundMatches'
    BY <2>1 DEF HubMatchesSpeed, FoundMatches, Plugged, At
  <2> QED
    BY <2>3, <2>5, <2>6
<1> QED
  BY <1>1, <1>2, <1>3 DEF connect

\* The reply of an import does not arrive: whatever the server granted, no call
\* and no port has it.
LEMMA AbandonedStep ==
    ASSUME PortInv, NEW t \in Tasks, call[t].at \in {"attach", "import"},
           call[t].busid \in Devices, Abandoned(call[t].busid),
           Failed(t) \/ Goto(t, "unanswered"),
           UNCHANGED <<platform, port, registry>>
    PROVE  PortInv'
<1> DEFINE d == call[t].busid
<1>1. /\ OnlyCall(t) /\ call'[t].at \in {"sleep", "returned", "unanswered"}
      /\ call'[t].busid = d /\ call'[t].port = call[t].port
      /\ call'[t].attempt = call[t].attempt
  BY FailedMoves, Moves DEF PortInv
<1>2. /\ lease' \in [Devices -> Holders]
      /\ \A e \in Devices : lease'[e] = lease[e] \/ lease'[e] \in {"closed", "leaked"}
  BY DEF Abandoned, PortInv, EngineTypeOK, Holders
<1>3. \A e \in Devices : lease'[e] # t
  BY <1>2, EngineAssumption DEF PortInv, LeaseIsUsed
<1> HIDE DEF d
<1> USE <1>1, <1>2 DEF PortInv, OnlyCall
<1>4. EngineTypeOK'
  BY NamesDiffer DEF EngineTypeOK, Plugged, d
<1>5. LeaseIsUsed'
  BY <1>3, EngineAssumption DEF LeaseIsUsed, Plugged
<1>6. HubMatchesSpeed' /\ FoundMatches'
  BY DEF HubMatchesSpeed, FoundMatches, Plugged, At
<1> QED
  BY <1>4, <1>5, <1>6

\* The connection of an import that was not answered breaks.
LEMMA HangupKeepsPorts == ASSUME PortInv, NEW t \in Tasks, hangup(t) PROVE PortInv'
  BY FailedEarly DEF hangup, At

\* OP_REQ_IMPORT: granted, refused, or not answered.
LEMMA ImportKeepsPorts == ASSUME PortInv, NEW t \in Tasks, import(t) PROVE PortInv'
<1> DEFINE d == call[t].busid
<1>t. EngineTypeOK /\ d \in Devices /\ call[t].at = "import"
  BY DEF PortInv, EngineTypeOK, import, At
<1>0. UNCHANGED <<platform, port, registry>>
  BY DEF import
<1>f. \A e \in Devices : lease[e] # t
  BY <1>t DEF PortInv, LeaseIsUsed
<1>1. CASE UNCHANGED lease /\ Failed(t)
  BY <1>0, <1>1, <1>t, FailedEarly
<1>2. CASE Abandoned(d) /\ (Failed(t) \/ Goto(t, "unanswered"))
  BY <1>0, <1>2, <1>t, AbandonedStep
<1>3. CASE lease[d] = "free" /\ lease' = [lease EXCEPT ![d] = t] /\ Goto(t, "find")
  <2>1. /\ OnlyCall(t) /\ call'[t].at = "find"
        /\ call'[t].busid = d /\ call'[t].port = call[t].port
        /\ call'[t].attempt = call[t].attempt
    BY <1>3, <1>t, Moves
  <2> USE <1>0, <1>3, <1>t, <2>1 DEF PortInv, OnlyCall
  <2>2. EngineTypeOK'
    BY NamesDiffer DEF EngineTypeOK, Plugged, Holders
  <2>3. LeaseIsUsed'
    BY <1>f, EngineAssumption DEF LeaseIsUsed, Plugged, EngineTypeOK
  <2>4. HubMatchesSpeed' /\ FoundMatches'
    BY DEF HubMatchesSpeed, FoundMatches, Plugged, At
  <2> QED
    BY <2>2, <2>3, <2>4
<1> QED
  BY <1>1, <1>2, <1>3 DEF import

\* list_ports and find_free_port_in_list.
LEMMA FindKeepsPorts == ASSUME PortInv, NEW t \in Tasks, find_free_port(t) PROVE PortInv'
<1> DEFINE d == call[t].busid
           p == find_free_port_in_list(parse_vhci_status, Speed[d])
<1>t. EngineTypeOK /\ d \in Devices /\ call[t].at = "find"
  BY DEF PortInv, EngineTypeOK, find_free_port, At
<1>0. UNCHANGED <<platform, port, registry>>
  BY DEF find_free_port
<1>1. CASE Failed(t) /\ lease' = Dropped(t)
  BY <1>0, <1>1, <1>t, FailedStep
<1>2. CASE p # NoPort /\ UNCHANGED lease
           /\ call' = [call EXCEPT ![t].at = "plug", ![t].port = p]
  <2>1. /\ OnlyCall(t) /\ call'[t].at = "plug" /\ call'[t].port = p
        /\ call'[t].busid = d /\ call'[t].attempt = call[t].attempt
    <3> HIDE DEF p
    <3> QED BY <1>2, <1>t DEF OnlyCall, EngineTypeOK, Returned
  <2>2. p \in Ports /\ parse_vhci_status[p].hub = IF Speed[d] >= 5 THEN "ss" ELSE "hs"
    BY <1>2, FoundPort
  <2>3. HubOf[p] = IF Speed[d] >= 5 THEN "ss" ELSE "hs"
    BY <2>2 DEF parse_vhci_status
  <2> HIDE DEF p
  <2> USE <1>0, <1>2, <1>t, <2>1, <2>2 DEF PortInv, OnlyCall
  <2>4. EngineTypeOK'
    BY NamesDiffer DEF EngineTypeOK, Plugged, Holders
  <2>5. LeaseIsUsed'
    BY DEF LeaseIsUsed, Plugged
  <2>6. HubMatchesSpeed' /\ FoundMatches'
    BY <2>3 DEF HubMatchesSpeed, FoundMatches, Plugged, At
  <2> QED
    BY <2>4, <2>5, <2>6
<1> QED
  BY <1>1, <1>2 DEF find_free_port

\* A free port takes the device of an attach, with the session the attach has
\* or that the driver was granted.
LEMMA PlugStep ==
    ASSUME PortInv, NEW t \in Tasks, NEW p \in Ports, ~Plugged(p),
           OnlyCall(t), call'[t].at = "record", call'[t].port = p,
           call'[t].busid = call[t].busid, call'[t].attempt = call[t].attempt,
           call[t].busid \in Devices,
           port' = [port EXCEPT ![p] = [sta |-> 6, dev |-> call[t].busid, by |-> t]],
           lease' = [lease EXCEPT ![call[t].busid] =
                        IF @ = t \/ call[t].at = "attach" THEN p ELSE @],
           platform = "linux" => (HubOf[p] = "ss" <=> Speed[call[t].busid] >= 5),
           UNCHANGED <<platform, registry>>
    PROVE  PortInv'
<1> DEFINE d == call[t].busid
<1>t. port \in [Ports -> [sta : {4, 6}, dev : Devices \union {"none"},
                          by : Tasks \union {"none"}]]
      /\ lease \in [Devices -> Holders]
  BY DEF PortInv, EngineTypeOK
<1>1. /\ port' \in [Ports -> [sta : {4, 6}, dev : Devices \union {"none"},
                            by : Tasks \union {"none"}]]
      /\ port'[p].sta = 6 /\ port'[p].dev = d /\ port'[p].by = t
      /\ \A q \in Ports \ {p} : port'[q] = port[q]
  BY <1>t
<1>2. /\ lease' \in [Devices -> Holders]
      /\ \A e \in Devices \ {d} : lease'[e] = lease[e]
      /\ lease'[d] \in {lease[d], p} /\ lease'[d] # t
  BY <1>t, EngineAssumption DEF Holders, PortInv, LeaseIsUsed
<1>3. \A e \in Devices : lease[e] # p
  BY DEF PortInv, LeaseIsUsed
<1>4. \A e \in Devices : lease'[e] # t
  BY <1>2 DEF PortInv, LeaseIsUsed
<1> USE <1>1, <1>2 DEF PortInv, OnlyCall
<1>5. EngineTypeOK'
  BY DEF EngineTypeOK, Plugged
<1>6. LeaseIsUsed'
  BY <1>3, <1>4, EngineAssumption DEF LeaseIsUsed, Plugged
<1>7. HubMatchesSpeed' /\ FoundMatches'
  BY DEF HubMatchesSpeed, FoundMatches, Plugged, At
<1> QED
  BY <1>5, <1>6, <1>7

\* VirtualHci::attach on Linux.
LEMMA AttachKeepsPorts == ASSUME PortInv, NEW t \in Tasks, vhci_attach(t) PROVE PortInv'
<1> DEFINE p == call[t].port
           d == call[t].busid
<1>t. EngineTypeOK /\ d \in Devices /\ p \in Ports /\ call[t].at = "plug"
  BY DEF PortInv, EngineTypeOK, vhci_attach, At
<1>0. UNCHANGED <<platform, registry>>
  BY DEF vhci_attach
<1>1. CASE Failed(t) /\ lease' = Dropped(t) /\ UNCHANGED port
  BY <1>0, <1>1, <1>t, FailedStep
<1>2. CASE /\ port[p].sta = 4
           /\ port' = [port EXCEPT ![p] = [sta |-> 6, dev |-> d, by |-> t]]
           /\ lease' = [lease EXCEPT ![d] = IF @ = t THEN p ELSE @]
           /\ Goto(t, "record")
  <2>1. /\ OnlyCall(t) /\ call'[t].at = "record" /\ call'[t].port = p
        /\ call'[t].busid = d /\ call'[t].attempt = call[t].attempt
    BY <1>2, <1>t, Moves
  <2>2. platform = "linux" => (HubOf[p] = "ss" <=> Speed[d] >= 5)
    BY <1>t DEF PortInv, FoundMatches, At
  <2>3. lease' = [lease EXCEPT ![d] = IF @ = t \/ call[t].at = "attach" THEN p ELSE @]
    BY <1>2, <1>t
  <2> QED
    BY <1>0, <1>2, <1>t, <2>1, <2>2, <2>3, PlugStep, Zenon DEF Plugged
<1> QED
  BY <1>1, <1>2 DEF vhci_attach

\* IOCTL_PLUGIN_HARDWARE on Windows.
LEMMA PluginKeepsPorts == ASSUME PortInv, NEW t \in Tasks, plugin_hardware(t) PROVE PortInv'
<1> DEFINE d == call[t].busid
<1>t. EngineTypeOK /\ d # "none" /\ call[t].at = "attach" /\ platform = "windows"
  BY DEF PortInv, EngineTypeOK, plugin_hardware, At
<1>0. UNCHANGED <<platform, registry>>
  BY DEF plugin_hardware
<1>1. CASE Failed(t) /\ UNCHANGED <<port, lease>>
  BY <1>0, <1>1, <1>t, FailedEarly
<1>3. CASE PluginHardwareRequest_new(d) /\ Failed(t) /\ Abandoned(d) /\ UNCHANGED port
  <2>1. d \in Devices
    BY <1>3, <1>t DEF EngineTypeOK, PluginHardwareRequest_new
  <2> QED
    BY <1>0, <1>3, <1>t, <2>1, AbandonedStep
<1>2. ASSUME PluginHardwareRequest_new(d), NEW p \in Ports, port[p].sta = 4,
             port' = [port EXCEPT ![p] = [sta |-> 6, dev |-> d, by |-> t]],
             lease' = [lease EXCEPT ![d] = p],
             call' = [call EXCEPT ![t].at = "record", ![t].port = p]
      PROVE  PortInv'
  <2>1. /\ OnlyCall(t) /\ call'[t].at = "record" /\ call'[t].port = p
        /\ call'[t].busid = d /\ call'[t].attempt = call[t].attempt
    BY <1>2, <1>t DEF OnlyCall, EngineTypeOK, Returned
  <2>2. d \in Devices
    BY <1>2, <1>t DEF EngineTypeOK, PluginHardwareRequest_new
  <2>3. lease' = [lease EXCEPT ![d] = IF @ = t \/ call[t].at = "attach" THEN p ELSE @]
    BY <1>2, <1>t
  <2>4. platform # "linux"
    BY <1>t
  <2> QED
    BY <1>0, <1>2, <2>1, <2>2, <2>3, <2>4, PlugStep, Zenon DEF Plugged
<1> QED
  BY <1>1, <1>2, <1>3 DEF plugin_hardware

\* A port becomes free, by itself or by a detach, and the session of its
\* connection is closed.
LEMMA FreeStep ==
    ASSUME PortInv, NEW p \in Ports, port' = [port EXCEPT ![p] = FreePort],
           lease' = Dropped(p), DOMAIN call' = Tasks,
           \A u \in Tasks : \/ call'[u] = call[u]
                            \/ /\ DOMAIN call'[u] = DOMAIN Returned
                               /\ call[u].at = "unplug" /\ call'[u].at = "remove"
                               /\ call'[u].port = call[u].port
                               /\ call'[u].busid = call[u].busid
                               /\ call'[u].attempt = call[u].attempt,
           UNCHANGED <<platform, registry>>
    PROVE  PortInv'
<1>1. /\ port' \in [Ports -> [sta : {4, 6}, dev : Devices \union {"none"},
                            by : Tasks \union {"none"}]]
      /\ port'[p].sta = 4
      /\ \A q \in Ports \ {p} : port'[q] = port[q]
  BY DEF PortInv, EngineTypeOK, FreePort
<1>2. /\ lease' \in [Devices -> Holders]
      /\ \A d \in Devices : lease'[d] = IF lease[d] = p THEN "closed" ELSE lease[d]
  BY DroppedLease DEF PortInv
<1>3. EngineTypeOK'
  BY <1>1, <1>2 DEF PortInv, EngineTypeOK, Plugged
<1>4. LeaseIsUsed'
  <2>1. "closed" \notin Tasks \union Ports
    BY EngineAssumption
  <2>2. \A d \in Devices : /\ lease'[d] # p
                           /\ lease'[d] \in Tasks \union Ports => lease[d] = lease'[d]
    BY <1>2, <2>1
  <2>3. ASSUME NEW d \in Devices, NEW u \in Tasks, lease'[d] = u
        PROVE  call'[u].busid = d /\ call'[u].at \in {"find", "plug"}
    BY <2>2, <2>3 DEF PortInv, LeaseIsUsed
  <2>4. ASSUME NEW d \in Devices, NEW q \in Ports, lease'[d] = q
        PROVE  port'[q].dev = d /\ port'[q].sta # 4
    BY <1>1, <2>2, <2>4 DEF PortInv, LeaseIsUsed, Plugged
  <2> QED
    BY <2>3, <2>4 DEF LeaseIsUsed, Plugged
<1>5. HubMatchesSpeed' /\ FoundMatches'
  BY <1>1 DEF PortInv, HubMatchesSpeed, FoundMatches, Plugged, At
<1> QED
  BY <1>3, <1>4, <1>5 DEF PortInv

\* detach_device, get_imported_devices, and the end of an attach.
LEMMA OtherCallsKeepPorts ==
    ASSUME PortInv, NEW t \in Tasks,
           \/ record(t) \/ verify(t) \/ vhci_detach(t) \/ unplug_hardware(t)
           \/ remove(t) \/ get_imported_devices(t)
    PROVE  PortInv'
<1>t. EngineTypeOK
  BY DEF PortInv
<1>u. /\ call[t].attempt \in 0..MaxAttempt
      /\ call[t].busid \in Devices \union {BadBusId, "none"}
      /\ call[t].port \in Ports \union {NoPort}
      /\ call[t].at \in {"record", "verify", "unplug", "remove"} => call[t].port \in Ports
      /\ call[t].at = "record" => call[t].busid \in Devices
      /\ registry \in [Engines -> [Ports -> Devices \union {"none"}]]
  BY <1>t DEF EngineTypeOK
<1> DEFINE Quiet(at) == /\ OnlyCall(t) /\ call'[t].at = at
                        /\ call'[t].busid = call[t].busid /\ call'[t].port = call[t].port
                        /\ call'[t].attempt = call[t].attempt
                        /\ UNCHANGED <<platform, port, lease>>
<1>q. ASSUME NEW at \in {"returned", "unplug"}, Quiet(at),
             call[t].at \in {"record", "verify", "unplug", "remove", "cross"},
             at = "unplug" => call[t].at = "verify",
             registry' \in [Engines -> [Ports -> Devices \union {"none"}]]
      PROVE  PortInv'
  BY <1>q, <1>u, QuietStep
<1>1. CASE record(t)
  <2>1. Quiet("returned") /\ call[t].at = "record"
    BY <1>1, <1>t, Moves, Zenon DEF record, At
  <2>2. registry' \in [Engines -> [Ports -> Devices \union {"none"}]]
    BY <1>1, <1>u, <2>1 DEF record, Engines
  <2> QED
    BY <2>1, <2>2, <1>q
<1>2. CASE remove(t)
  <2>1. Quiet("returned") /\ call[t].at = "remove"
    BY <1>2, <1>t, Moves, Zenon DEF remove, At
  <2>2. registry' \in [Engines -> [Ports -> Devices \union {"none"}]]
    BY <1>2, <1>u, <2>1 DEF remove, Engines
  <2> QED
    BY <2>1, <2>2, <1>q
<1>3. CASE verify(t)
  <2>0. /\ call[t].at = "verify" /\ (Goto(t, "unplug") \/ Return(t, FALSE))
        /\ UNCHANGED <<platform, port, lease, registry>>
    BY <1>3, Zenon DEF verify, At
  <2>1. Quiet("returned") \/ Quiet("unplug")
    BY <2>0, <1>t, Moves, Zenon
  <2> QED
    BY <2>0, <2>1, <1>q, <1>u
<1>4. CASE get_imported_devices(t)
  <2>1. Quiet("returned") /\ call[t].at = "cross" /\ UNCHANGED registry
    BY <1>4, <1>t DEF get_imported_devices, At, OnlyCall, EngineTypeOK, Returned
  <2> QED
    BY <2>1, <1>q, <1>u
<1>5. CASE vhci_detach(t) \/ unplug_hardware(t)
  <2> DEFINE p == call[t].port
  <2>0. Unplug(t) /\ p \in Ports /\ call[t].at = "unplug" /\ UNCHANGED <<platform, registry>>
    BY <1>5, <1>u, Zenon DEF vhci_detach, unplug_hardware, Unplug, At
  <2>1. CASE Return(t, FALSE) /\ UNCHANGED <<port, lease>>
    BY <2>0, <2>1, <1>q, <1>u, <1>t, Moves, Zenon
  <2>2. CASE /\ port' = [port EXCEPT ![p] = FreePort]
             /\ lease' = Dropped(p) /\ Goto(t, "remove")
    <3>1. /\ OnlyCall(t) /\ call'[t].at = "remove" /\ call'[t].busid = call[t].busid
          /\ call'[t].port = p /\ call'[t].attempt = call[t].attempt
      BY <2>2, <1>t, Moves
    <3>2. DOMAIN call' = Tasks
      BY <3>1 DEF OnlyCall
    <3>3. \A u \in Tasks : \/ call'[u] = call[u]
                           \/ /\ DOMAIN call'[u] = DOMAIN Returned
                              /\ call[u].at = "unplug" /\ call'[u].at = "remove"
                              /\ call'[u].port = call[u].port
                              /\ call'[u].busid = call[u].busid
                              /\ call'[u].attempt = call[u].attempt
      BY <2>0, <3>1 DEF OnlyCall
    <3> QED
      BY <2>0, <2>2, <3>2, <3>3, FreeStep, Zenon
  <2> QED
    BY <2>0, <2>1, <2>2, Zenon DEF Unplug
<1> QED
  BY <1>1, <1>2, <1>3, <1>4, <1>5

\* The kernel frees a port whose connection is gone; the server ends a session.
LEMMA EnvironmentKeepsPorts ==
    ASSUME PortInv, \/ \E p \in Ports : PortDown(p)
                    \/ \E d \in Devices : ServerDrops(d) \/ SessionEnded(d) \/ SessionLeaked(d)
    PROVE  PortInv'
<1>1. ASSUME NEW p \in Ports, PortDown(p) PROVE PortInv'
  <2>1. \A d \in Devices : lease[d] # p
    BY <1>1 DEF PortDown, PortInv, LeaseIsUsed
  <2>2. lease' = Dropped(p)
    BY <1>1, <2>1 DEF PortDown, Dropped, PortInv, EngineTypeOK
  <2>3. DOMAIN call = Tasks
    BY DEF PortInv, EngineTypeOK
  <2> QED
    BY <1>1, <2>2, <2>3, FreeStep, Zenon DEF PortDown
<1>2. ASSUME NEW d \in Devices, ServerDrops(d) \/ SessionEnded(d) \/ SessionLeaked(d)
      PROVE  PortInv'
  <2>1. /\ \E l \in {"free", "leaked"} : lease' = [lease EXCEPT ![d] = l]
        /\ UNCHANGED <<platform, call, registry, port>>
    BY <1>2 DEF ServerDrops, SessionEnded, SessionLeaked
  <2>2. EngineTypeOK'
    BY <2>1 DEF PortInv, EngineTypeOK, Plugged, Holders
  <2>3. LeaseIsUsed'
    BY <2>1, EngineAssumption DEF PortInv, LeaseIsUsed, EngineTypeOK, Plugged
  <2>4. HubMatchesSpeed' /\ FoundMatches'
    BY <2>1 DEF PortInv, HubMatchesSpeed, FoundMatches, Plugged, At
  <2> QED
    BY <2>2, <2>3, <2>4 DEF PortInv
<1> QED
  BY <1>1, <1>2

\* Every step of a call, of the kernel and of the server keeps the invariant.
LEMMA PortStep == PortInv /\ [EngineNext]_engineVars => PortInv'
<1> SUFFICES ASSUME PortInv, [EngineNext]_engineVars PROVE PortInv'
  OBVIOUS
<1>1. CASE UNCHANGED engineVars
  BY <1>1 DEF engineVars, PortInv, EngineTypeOK, LeaseIsUsed, HubMatchesSpeed, FoundMatches,
              Plugged, At
<1>2. ASSUME NEW t \in Tasks,
             CallAttach(t) \/ CallDetach(t) \/ CallList(t) \/ hangup(t) \/ Step(t)
      PROVE  PortInv'
  BY <1>2, CallsKeepPorts, HangupKeepsPorts, ConnectKeepsPorts, ImportKeepsPorts, FindKeepsPorts,
     AttachKeepsPorts, PluginKeepsPorts, OtherCallsKeepPorts DEF Step
<1> QED
  BY <1>1, <1>2, EnvironmentKeepsPorts DEF EngineNext

\* The invariant holds in every reachable state of the engine.
THEOREM PortInvCorrect == EngineSpec => []PortInv
  BY PortInitInv, PortStep, PTL DEF EngineSpec

\* No session is left behind at the server by an attach that failed or lost its
\* port to another one, whatever tasks, ports and devices there are.
THEOREM LeaseIsUsedHolds == EngineSpec => []LeaseIsUsed
<1>1. PortInv => LeaseIsUsed
  BY DEF PortInv
<1> QED
  BY <1>1, PortInvCorrect, PTL

\* On Linux every device is plugged into a port of the hub of its speed.
THEOREM HubMatchesSpeedHolds == EngineSpec => []HubMatchesSpeed
<1>1. PortInv => HubMatchesSpeed
  BY DEF PortInv
<1> QED
  BY <1>1, PortInvCorrect, PTL
=============================================================================
