------------------------------- MODULE Daemon -------------------------------
(***************************************************************************)
(* The daemon process (lib.rs, privileges.rs, signals.rs, mdns.rs of       *)
(* extender-daemon), its API server (api_server.rs, jsonrpc.rs) and the    *)
(* command line client that calls it (extender-cli).                       *)
(*                                                                         *)
(* A process is its pid; pids are reused.  Processes meet in the file      *)
(* system, at the PID file and at the API socket, and at the TCP port of   *)
(* the USB/IP server.  Each system call on them is a step of its own.      *)
(* What the USB/IP server and the export registry do is in UsbServer and   *)
(* ExportRegistry; what attach and detach do is in ClientEngine.           *)
(***************************************************************************)
EXTENDS DaemonConfig, FiniteSets

CONSTANTS Pids,
          Clients,           \* connections of API clients
          BusIds,
          Types,             \* device types: records of vid and pid
          Sources,           \* configurations the daemon may be started with
          DiscoverLinux(_),  \* what a discovery makes of the services it
          DiscoverMacos(_),  \* sees (Discover), on Linux and on macOS
          OthersAnnounced,   \* services other hosts announce
          SelfAddrs,         \* addresses of this host
          ConcurrentStarts,  \* may two starts overlap?
          MaxStarts, MaxPlugs, MaxCalls, MaxFaults    \* bounds

VARIABLES proc,       \* proc[p]: the daemon of process p
          pidFile,    \* the PID file: who created it and the pid in it
          overlooked, \* history: a start took a running daemon for gone, for it
                      \* could not read the PID file or signal the process
          sock,       \* the process whose socket the API path leads to
          conn,       \* conn[c]: an API connection
          plugged,    \* plugged[b]: the set of the device at bus id b
          found,      \* what the last discovery found, on Linux and macOS
          src, starts, plugs, calls, faults

daemonVars == <<proc, pidFile, overlooked, sock, conn, plugged, found, src,
                starts, plugs, calls, faults>>

None == "none"
NoFile == [by |-> None, pid |-> None]
config == daemon_config(src)
ASSUME DaemonAssumption == None \notin Pids /\ IsFiniteSet(Pids)
\* A file is read or not: no more than one configuration comes from a place.
ASSUME SourcesAssumption ==
    \A s \in Sources : \A file \in {s.system, s.user, s.named} :
        \A x, y \in file : x = y

Off == [at |-> "off", exported |-> [b \in BusIds |-> {}],
        tcp |-> FALSE, mdns |-> FALSE, cancelled |-> FALSE]
NoRequest == [method |-> None, bus_id |-> None]
Closed == [at |-> "closed", to |-> None, req |-> NoRequest,
           local |-> {}, code |-> 0]

DaemonInit ==
    /\ proc = [p \in Pids |-> Off]
    /\ pidFile = NoFile /\ overlooked = FALSE /\ sock = None
    /\ conn = [c \in Clients |-> Closed]
    /\ plugged \in [BusIds -> {{}} \union {{t} : t \in Types}]
    /\ found = [linux |-> <<>>, macos |-> <<>>, of |-> {}]
    /\ src \in Sources
    /\ starts = 0 /\ plugs = 0 /\ calls = 0 /\ faults = 0

At(p, at) == proc[p].at = at
Goto(p, at) == proc' = [proc EXCEPT ![p].at = at]
Fault == faults < MaxFaults /\ faults' = faults + 1

\* The process ends: the kernel closes its sockets and its files stay.
Exit(p) ==
    /\ proc' = [proc EXCEPT ![p] = Off]
    /\ conn' = [c \in Clients |-> IF conn[c].to = p THEN Closed ELSE conn[c]]

running(p) == ~At(p, "off")

\* kill(pid, 0): another user's process may not be signalled, which the code
\* takes for none, and the pid may be another program's by now.
is_process_running(p, old, permitted, reused) ==
    old = p \/ reused \/ (running(old) /\ permitted)

-----------------------------------------------------------------------------
(* Daemon::run: the PID file.                                              *)

Starting(p) == proc[p].at \in {"exists", "read", "remove", "create", "write"}

\* Mutated form of run: the socket is cleared away before the PID file is asked.
run_Unlink(p) ==
    /\ At(p, "off") /\ starts < MaxStarts
    /\ ConcurrentStarts \/ \A q \in Pids : ~Starting(q)
    /\ starts' = starts + 1
    /\ sock' = None
    /\ proc' = [proc EXCEPT ![p] = [Off EXCEPT !.at = "exists"]]
    /\ UNCHANGED <<overlooked, pidFile, conn, plugged, found, src, plugs, calls, faults>>

run(p) ==
    /\ At(p, "off") /\ starts < MaxStarts
    /\ ConcurrentStarts \/ \A q \in Pids : ~Starting(q)
    /\ starts' = starts + 1
    /\ proc' = [proc EXCEPT ![p] = [Off EXCEPT !.at = "exists"]]
    /\ UNCHANGED <<overlooked, pidFile, sock, conn, plugged, found, src, plugs, calls, faults>>

\* Mutated form of check_pid_file: a file that exists is taken for stale.
check_pid_file_Unasked(p) ==
    /\ At(p, "exists")
    /\ Goto(p, IF pidFile = NoFile THEN "create" ELSE "remove")
    /\ UNCHANGED <<overlooked, conn, faults>>

\* A file that cannot be read, or has no number in it, is taken for stale.
check_pid_file(p) ==
    \/ /\ At(p, "exists")
       /\ Goto(p, IF pidFile = NoFile THEN "create" ELSE "read")
       /\ UNCHANGED <<overlooked, conn, faults>>
    \/ /\ At(p, "read")
       /\ \E readable, permitted, reused \in BOOLEAN :
              /\ IF readable /\ permitted /\ ~reused THEN UNCHANGED faults
                 ELSE Fault /\ calls = 0    \* bound: apart from API requests
              /\ IF /\ readable /\ pidFile.pid # None
                    /\ is_process_running(p, pidFile.pid, permitted, reused)
                 THEN Exit(p) /\ UNCHANGED overlooked
                 ELSE /\ Goto(p, "remove") /\ UNCHANGED conn
                      /\ overlooked' = \/ overlooked
                                       \/ /\ ~(readable /\ permitted)
                                          /\ \E q \in Pids \ {p} : pidFile.pid = q /\ running(q)

create_pid_file(p) ==
    /\ \/ check_pid_file(p) /\ UNCHANGED pidFile
       \/ /\ At(p, "remove")
          /\ IF pidFile = NoFile THEN Exit(p) ELSE Goto(p, "create") /\ UNCHANGED conn
          /\ pidFile' = NoFile /\ UNCHANGED <<overlooked, faults>>
       \/ /\ At(p, "create") /\ pidFile # NoFile
          /\ Exit(p) /\ UNCHANGED <<pidFile, overlooked, faults>>
       \/ /\ At(p, "create") /\ pidFile = NoFile
          /\ pidFile' = [by |-> p, pid |-> None]
          /\ Goto(p, "write") /\ UNCHANGED <<overlooked, conn, faults>>
       \/ /\ At(p, "write")     \* into the file created, wherever it is now
          /\ pidFile' = IF pidFile.by = p THEN [pidFile EXCEPT !.pid = p] ELSE pidFile
          /\ Goto(p, "prepare") /\ UNCHANGED <<overlooked, conn, faults>>
       \/ /\ proc[p].at \in {"remove", "create", "write"}
          /\ Fault /\ Exit(p) /\ UNCHANGED <<pidFile, overlooked>>
    /\ UNCHANGED <<sock, plugged, found, src, starts, plugs, calls>>

\* drop_privileges and the listen address.
drop_privileges(p) ==
    /\ At(p, "prepare")
    /\ \/ Goto(p, "listen") /\ UNCHANGED <<conn, faults>>
       \/ Fault /\ Exit(p)
    /\ UNCHANGED <<overlooked, pidFile, sock, plugged, found, src, starts, plugs, calls>>

PortFree == \A q \in Pids : ~proc[q].tcp

\* The USB/IP server's socket; a daemon without one goes on with a registry
\* of its own.  Then the mDNS service, the signal handler and the server task.
start_server(p) ==
    /\ At(p, "listen")
    /\ \E tcp, mdns \in BOOLEAN :
          /\ tcp => PortFree
          /\ mdns => config.mdns_enabled
          /\ IF tcp = PortFree /\ mdns = config.mdns_enabled THEN UNCHANGED faults ELSE Fault
          /\ proc' = [proc EXCEPT ![p].at = "api_exists", ![p].tcp = tcp, ![p].mdns = mdns]
    /\ UNCHANGED <<overlooked, pidFile, sock, conn, plugged, found, src, starts, plugs, calls>>

-----------------------------------------------------------------------------
(* run_api_server: an error here ends the API server and not the daemon.   *)

bind_api(p) ==
    /\ \/ /\ At(p, "api_exists")
          /\ Goto(p, IF sock = None THEN "api_bind" ELSE "api_remove")
          /\ UNCHANGED <<sock, faults>>
       \/ /\ At(p, "api_remove")
          /\ Goto(p, IF sock = None THEN "join" ELSE "api_bind")
          /\ sock' = None /\ UNCHANGED faults
       \/ At(p, "api_remove") /\ Fault /\ Goto(p, "join") /\ UNCHANGED sock
       \/ /\ At(p, "api_bind") /\ sock = None
          /\ sock' = p /\ Goto(p, "api_perms") /\ UNCHANGED faults
       \/ /\ At(p, "api_bind") /\ sock # None
          /\ Goto(p, "join") /\ UNCHANGED <<sock, faults>>
       \/ At(p, "api_bind") /\ Fault /\ Goto(p, "join") /\ UNCHANGED sock
       \/ /\ At(p, "api_perms")
          /\ Goto(p, IF sock = None THEN "join" ELSE "serve")
          /\ UNCHANGED <<sock, faults>>
       \/ At(p, "api_perms") /\ Fault /\ Goto(p, "join") /\ UNCHANGED sock
    /\ UNCHANGED <<overlooked, pidFile, conn, plugged, found, src, starts, plugs, calls>>

\* SIGTERM, SIGINT or shutdown(): the token is cancelled.
cancel(p) ==
    /\ proc[p].at \in {"api_exists", "api_remove", "api_bind", "api_perms", "serve", "join"}
    /\ ~proc[p].cancelled
    /\ proc' = [proc EXCEPT ![p].cancelled = TRUE]
    /\ UNCHANGED <<overlooked, pidFile, sock, conn, plugged, found, src, starts, plugs, calls, faults>>

\* The accept loop ends and the socket, whoever's it is, is removed.  That this
\* fails, as it may once privileges are dropped, goes unnoticed.
stop_api(p) ==
    /\ At(p, "serve") /\ proc[p].cancelled
    /\ sock' \in {None, sock}
    /\ Goto(p, "join")
    /\ UNCHANGED <<overlooked, pidFile, conn, plugged, found, src, starts, plugs, calls, faults>>

\* Mutated form of join: the server task is waited for before it is told.
join_NotTold(p) ==
    /\ At(p, "join") /\ ~proc[p].tcp
    /\ proc' = [proc EXCEPT ![p].at = "end_read", ![p].mdns = FALSE]
    /\ UNCHANGED <<overlooked, pidFile, sock, conn, plugged, found, src, starts, plugs, calls, faults>>

\* The server task, if there is one, runs until the token is cancelled.  Then
\* the mDNS service is withdrawn.
join(p) ==
    /\ At(p, "join")
    /\ proc[p].tcp => proc[p].cancelled
    /\ proc' = [proc EXCEPT ![p].at = "end_read", ![p].tcp = FALSE, ![p].mdns = FALSE]
    /\ UNCHANGED <<overlooked, pidFile, sock, conn, plugged, found, src, starts, plugs, calls, faults>>

\* Only the process's own file is removed; that it cannot be read or removed
\* is logged and no more.
remove_pid_file(p) ==
    /\ \/ /\ At(p, "end_read") /\ pidFile.pid = p
          /\ Goto(p, "end_remove") /\ UNCHANGED <<pidFile, conn>>
       \/ At(p, "end_read") /\ Exit(p) /\ UNCHANGED pidFile
       \/ At(p, "end_remove") /\ Exit(p) /\ pidFile' \in {NoFile, pidFile}
    /\ UNCHANGED <<overlooked, sock, plugged, found, src, starts, plugs, calls, faults>>

\* The process is killed, or the machine restarts.
Crash(p) ==
    /\ running(p) /\ Fault
    /\ Exit(p)
    /\ UNCHANGED <<overlooked, pidFile, sock, plugged, found, src, starts, plugs, calls>>

-----------------------------------------------------------------------------
(* API clients: call_daemon and handle_client_io.                          *)

OkCode == 0
method_not_found == 32601
invalid_params == 32602
internal_error == 32603
parse_error == 32700

\* What is sent: a method with a bus id where one is told apart (None:
\* missing), an unknown method, no JSON, or more than MAX_MESSAGE_SIZE bytes.
\* "remote" stands for attach_device and list_remote_devices, which wait for
\* another server, "local" for detach_device and the other lists and the status.
Requests ==
    [method : {"bind_device", "unbind_device", "get_device_info"}, bus_id : BusIds \union {None}]
    \union [method : {"local", "remote", "subscribe", "unknown", "garbage", "oversize"},
            bus_id : {None}]

\* Bounds on the requests: none is made once daemons may run side by side, and
\* none before the last start has begun, which requests have no effect on.
MayCall == calls < MaxCalls /\ ~overlooked /\ starts = MaxStarts

\* connect_to_daemon: a path nobody listens at refuses.
connect_to_daemon(c) ==
    /\ conn[c].at = "closed" /\ sock # None /\ At(sock, "serve")
    /\ MayCall
    /\ conn' = [conn EXCEPT ![c] = [Closed EXCEPT !.at = "open", !.to = sock]]
    /\ UNCHANGED <<proc, overlooked, pidFile, sock, plugged, found, src, starts, plugs, calls, faults>>

\* write_message of the request; the last answer has been read.
call_daemon(c) ==
    /\ conn[c].at \in {"open", "answered"} /\ MayCall
    /\ calls' = calls + 1
    /\ \E r \in Requests :
           conn' = [conn EXCEPT ![c].at = "sent", ![c].req = r, ![c].code = OkCode]
    /\ UNCHANGED <<proc, overlooked, pidFile, sock, plugged, found, src, starts, plugs, faults>>

\* The client leaves, or the connection's task sees the shutdown; the task is
\* not interrupted inside a request.
Disconnect(c) ==
    /\ \/ conn[c].at \in {"open", "answered"}
       \/ conn[c].at = "sent" /\ proc[conn[c].to].cancelled
       \/ conn[c].at = "sent" /\ conn[c].req.method = "oversize"
    /\ conn' = [conn EXCEPT ![c] = Closed]
    /\ UNCHANGED <<proc, overlooked, pidFile, sock, plugged, found, src, starts, plugs, calls, faults>>

Answer(c, code) == conn' = [conn EXCEPT ![c].at = "answered", ![c].code = code,
                                        ![c].req = NoRequest, ![c].local = {}]

\* Mutated form of handle_bind_device: the answer to a refused device is lost.
handle_bind_device_Silent(c) ==
    LET r == conn[c].req
        p == conn[c].to
    IN  /\ r.method = "bind_device" /\ r.bus_id # None
        /\ \E d \in plugged[r.bus_id] : is_device_allowed(d.vid, d.pid, config)
        /\ conn' = [conn EXCEPT ![c].at = "binding", ![c].local = plugged[r.bus_id]]
        /\ UNCHANGED proc

\* The device at the bus id is looked up, which may fail, and asked of the
\* access list.
handle_bind_device(c) ==
    LET r == conn[c].req
        p == conn[c].to
    IN  /\ r.method = "bind_device"
        /\ \/ r.bus_id = None /\ Answer(c, invalid_params)
           \/ r.bus_id # None /\ Answer(c, internal_error)
           \/ /\ r.bus_id # None /\ plugged[r.bus_id] = {}
              /\ Answer(c, invalid_params)
           \/ /\ r.bus_id # None
              /\ \E d \in plugged[r.bus_id] :
                     IF is_device_allowed(d.vid, d.pid, config)
                     THEN conn' = [conn EXCEPT ![c].at = "binding", ![c].local = {d}]
                     ELSE Answer(c, internal_error)
        /\ UNCHANGED proc

\* ExportRegistry::bind_device looks the bus id up again; opening may fail.
bind_device(c) ==
    LET b == conn[c].req.bus_id
        p == conn[c].to
        ok == proc[p].exported[b] = {} /\ plugged[b] # {}
    IN  /\ conn[c].at = "binding"
        /\ \/ /\ ok /\ Answer(c, OkCode) /\ UNCHANGED faults
              /\ proc' = [proc EXCEPT ![p].exported[b] =
                     {[device |-> d, checked |-> conn[c].local] : d \in plugged[b]}]
           \/ ~ok /\ Answer(c, internal_error) /\ UNCHANGED <<proc, faults>>
           \/ ok /\ Answer(c, internal_error) /\ Fault /\ UNCHANGED proc
        /\ UNCHANGED <<overlooked, pidFile, sock, plugged, found, src, starts, plugs, calls>>

handle_unbind_device(c) ==
    LET r == conn[c].req
        p == conn[c].to
    IN  /\ r.method = "unbind_device"
        /\ IF r.bus_id = None THEN Answer(c, invalid_params) /\ UNCHANGED proc
           ELSE IF proc[p].exported[r.bus_id] = {}
           THEN Answer(c, internal_error) /\ UNCHANGED proc
           ELSE Answer(c, OkCode) /\ proc' = [proc EXCEPT ![p].exported[r.bus_id] = {}]

handle_get_device_info(c) ==
    LET r == conn[c].req
    IN  /\ r.method = "get_device_info"
        /\ \/ Answer(c, IF r.bus_id # None /\ plugged[r.bus_id] # {} THEN OkCode
                        ELSE invalid_params)
           \/ r.bus_id # None /\ Answer(c, internal_error)
        /\ UNCHANGED proc

\* What the handlers that change no state of the daemon may answer.  Some
\* check their parameters; attach and detach create a client engine for the one
\* request, which may fail at every step, and so may the connection to the
\* remote server and the enumeration of the local devices.
handle_attach_device == {OkCode, invalid_params, internal_error}
handle_detach_device == {OkCode, invalid_params, internal_error}
handle_list_remote_devices == {OkCode, invalid_params, internal_error}
handle_list_local_devices == {OkCode, internal_error}
handle_list_exported_devices == {OkCode}
handle_get_status == {OkCode}

\* A remote server may also never answer: fairness says nothing of "remote".
handle_other(c) ==
    /\ \/ /\ conn[c].req.method = "remote"
          /\ \E code \in handle_attach_device \union handle_list_remote_devices : Answer(c, code)
       \/ /\ conn[c].req.method = "local"
          /\ \E code \in UNION {handle_detach_device, handle_list_local_devices,
                                handle_list_exported_devices, handle_get_status} : Answer(c, code)
    /\ UNCHANGED proc

\* Nothing is ever sent to the subscribers.
handle_subscribe(c) ==
    conn[c].req.method = "subscribe" /\ Answer(c, OkCode) /\ UNCHANGED proc

handle_error(c) ==
    LET r == conn[c].req
    IN  /\ \/ r.method = "unknown" /\ Answer(c, method_not_found)
           \/ r.method = "garbage" /\ Answer(c, parse_error)
        /\ UNCHANGED proc

dispatch(c) ==
    /\ conn[c].at = "sent"
    /\ \/ handle_bind_device(c) \/ handle_unbind_device(c) \/ handle_get_device_info(c)
       \/ handle_other(c) \/ handle_subscribe(c) \/ handle_error(c)
    /\ UNCHANGED <<overlooked, pidFile, sock, plugged, found, src, starts, plugs, calls, faults>>

-----------------------------------------------------------------------------
(* The world outside.                                                      *)

\* Another device, or none, is at a bus id.  Bounded to the times a bind is
\* between its two lookups; at others it is like another initial state.
Replug(b) ==
    /\ plugs < MaxPlugs /\ plugs' = plugs + 1
    /\ \E c \in Clients : conn[c].at = "binding" /\ conn[c].req.bus_id = b
    /\ plugged' \in {[plugged EXCEPT ![b] = x] : x \in {{}} \union {{t} : t \in Types}}
    /\ UNCHANGED <<proc, overlooked, pidFile, sock, conn, found, src, starts, calls, faults>>

\* extender discover: services are resolved in any order, some again.
Announced ==
    OthersAnnounced \union
    {[name |-> "self", words |-> {}, addrs |-> SelfAddrs, port |-> config.port, devices |-> 0] :
        p \in {q \in Pids : proc[q].mdns}}

discover(c) ==
    /\ conn[c].at = "closed" /\ calls = 0 /\ starts = MaxStarts /\ faults = 0    \* bounds
    /\ \E n \in 1..3 : \E events \in [1..n -> Announced] :
           found' = [linux |-> DiscoverLinux(events),
                     macos |-> DiscoverMacos(events),
                     of |-> {events[i] : i \in 1..n}]
    /\ calls' = MaxCalls    \* bound: a discovery, or calls
    /\ UNCHANGED <<proc, overlooked, pidFile, sock, conn, plugged, src, starts, plugs, faults>>

DaemonStep(p) ==
    \/ create_pid_file(p) \/ drop_privileges(p) \/ start_server(p) \/ bind_api(p)
    \/ stop_api(p) \/ join(p) \/ remove_pid_file(p)

DaemonNext ==
    \/ \E p \in Pids : run(p) \/ DaemonStep(p) \/ cancel(p) \/ Crash(p)
    \/ \E c \in Clients : \/ connect_to_daemon(c) \/ call_daemon(c) \/ Disconnect(c)
                          \/ dispatch(c) \/ bind_device(c) \/ discover(c)
    \/ \E b \in BusIds : Replug(b)

DaemonSpec == DaemonInit /\ [][DaemonNext]_daemonVars

\* The task of a connection works on a request, unless it waits for another
\* server: read_op_message has no timeout.
Handles(c) ==
    \/ dispatch(c) /\ conn[c].req.method # "remote"
    \/ bind_device(c)
    \/ conn[c].at = "sent" /\ Disconnect(c)

\* A process that runs goes on, and so does the task of a connection.
FairDaemonSpec ==
    /\ DaemonSpec
    /\ \A p \in Pids : WF_daemonVars(DaemonStep(p))
    /\ \A c \in Clients : WF_daemonVars(Handles(c))

-----------------------------------------------------------------------------
HasPidFile(p) == running(p) /\ proc[p].at \notin {"exists", "read", "remove", "create", "write"}

(* The PID file lets one daemon through: at most one process has passed
   create_pid_file and not yet exited, whatever files crashes and failing
   removals have left behind ("Atomically create the PID file; if it already
   exists (race condition), treat it as a stale-PID error").  A start that
   cannot read the file of a running daemon, or may not signal it, takes it
   for gone; nothing is said once that has happened. *)
OneDaemon ==
    ~overlooked => \A p, q \in Pids : HasPidFile(p) /\ HasPidFile(q) => p = q

(* While the API server accepts connections, the socket path leads to it: no
   other start, leftover socket, ending daemon or failing removal takes it
   away, unless a start has overlooked the daemon. *)
SocketIsServed == ~overlooked => \A p \in Pids : At(p, "serve") => sock = p

\* The value a field should have: that of the topmost layer that sets it
\* ("defaults -> system config -> user config -> environment variables", and
\* the flags on top).  A file named on the command line stands in for the
\* layers.  A user file stands in for the system file, also for the fields it
\* does not set ("we just overwrite everything from the user config",
\* config.rs:239, against "overwrites all fields present in the file", :201).
Configured(f) ==
    LET files == IF src.user # {} THEN src.user ELSE src.system
        layers == IF src.named = {} THEN <<{src.flags}, {src.env}, files, {default}>>
                  ELSE <<{src.flags}, src.named, {default}>>
        values(i) == {l[f] : l \in {x \in layers[i] : f \in DOMAIN x}}
        topmost == CHOOSE i \in DOMAIN layers :
                       values(i) # {} /\ \A j \in 1..i - 1 : values(j) = {}
    IN  CHOOSE v \in values(topmost) : TRUE

(* An exported device was let through by the access lists in force, those of
   the topmost layer (a system file's are not once there is a user file):
   denied devices are not exported, and with an allow list only its devices
   are.  The lists are asked about the device seen first; a device plugged in
   between the two lookups of a bind is the exception. *)
ExportsAllowed ==
    LET denied == Configured("denied_devices")
        allowed == Configured("allowed_devices")
    IN  \A p \in Pids, b \in BusIds : \A x \in proc[p].exported[b] :
            \/ {x.device} # x.checked
            \/ /\ ~Listed(denied, x.device.vid, x.device.pid)
               /\ allowed = <<>> \/ Listed(allowed, x.device.vid, x.device.pid)

(* A discovery shows every resolved server, and none of them twice: on Linux
   by address, on macOS by name and with its own devices.  On macOS a server
   with "SRV" in its name is the exception: its TXT record is taken for an SRV
   record (discover.rs:92), so that it is not shown, or without its devices. *)
DiscoveredOnce ==
    LET l == found.linux
        m == found.macos
        shown == {<<m[i].hostname, m[i].devices>> : i \in 1..Len(m)}
        whole == {s \in found.of : s.addrs # <<>> /\ "SRV" \notin s.words}
    IN  /\ \A i, j \in 1..Len(l) : l[i].addr = l[j].addr => i = j
        /\ {l[i].addr : i \in 1..Len(l)} = UNION {{s.addrs[i] : i \in 1..Len(s.addrs)} : s \in found.of}
        /\ \A i, j \in 1..Len(m) : m[i].hostname = m[j].hostname => i = j
        /\ {<<s.name, s.devices>> : s \in whole} \subseteq shown
        /\ {x[1] : x \in shown} \subseteq {s.name : s \in found.of}

(* A daemon that is told to stop exits: no request that is being handled and
   no open connection keeps it. *)
ShutdownCompletes == \A p \in Pids : proc[p].cancelled ~> At(p, "off")

(* A request that was sent is answered, or its connection is closed; one that
   waits for another server is the exception. *)
RequestsEnd ==
    \A c \in Clients :
        (conn[c].at = "binding" \/ (conn[c].at = "sent" /\ conn[c].req.method # "remote")) ~>
        (conn[c].at \in {"answered", "closed"})
=============================================================================
