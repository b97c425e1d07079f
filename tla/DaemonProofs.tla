---------------------------- MODULE DaemonProofs ----------------------------
(***************************************************************************)
(* Proofs about Daemon: one daemon at a time when starts do not overlap,   *)
(* an API socket that leads to the daemon that serves it, and exports that *)
(* the configured access lists allow.                                      *)
(***************************************************************************)
EXTENDS Daemon, TLAPS

-----------------------------------------------------------------------------
(* Types. *)

StartStages == {"exists", "read", "remove", "create", "write"}
RunStages == {"prepare", "listen", "api_exists", "api_remove", "api_bind", "api_perms",
              "serve", "join", "end_read", "end_remove"}
Stages == {"off"} \union StartStages \union RunStages

Exports == [device : Types, checked : SUBSET Types]

Proc == [at : Stages, exported : [BusIds -> SUBSET Exports],
         tcp : BOOLEAN, mdns : BOOLEAN, cancelled : BOOLEAN]

Methods == {None, "bind_device", "unbind_device", "get_device_info", "local", "remote",
            "subscribe", "unknown", "garbage", "oversize"}

Conn == [at : {"closed", "open", "sent", "binding", "answered"}, to : Pids \union {None},
         req : [method : Methods, bus_id : BusIds \union {None}],
         local : SUBSET Types, code : Nat]

File == [by : Pids \union {None}, pid : Pids \union {None}]

ProcOK == proc \in [Pids -> Proc]
FilesOK == pidFile \in File /\ sock \in Pids \union {None}
ConnOK ==
    /\ conn \in [Clients -> Conn]
    /\ \A c \in Clients : conn[c].at # "closed" => conn[c].to \in Pids
    /\ \A c \in Clients : conn[c].at = "binding" => conn[c].req.bus_id \in BusIds
PlugsOK == plugged \in [BusIds -> SUBSET Types]

TypeOK == ProcOK /\ FilesOK /\ ConnOK /\ PlugsOK

\* Process p is at stage a now, and the others are where they were.
Moved(p, a) ==
    /\ proc'[p].at = a
    /\ \A q \in Pids \ {p} : proc'[q].at = proc[q].at
Unmoved == \A q \in Pids : proc'[q].at = proc[q].at

LEMMA OffType == Off \in Proc
  BY DEF Off, Proc, Stages

LEMMA ClosedType == Closed \in Conn
  BY DEF Closed, Conn, NoRequest, Methods

LEMMA GotoEffect ==
    ASSUME ProcOK, NEW p \in Pids, NEW a \in Stages, Goto(p, a)
    PROVE  /\ ProcOK'
           /\ Moved(p, a)
           /\ \A q \in Pids : proc'[q].exported = proc[q].exported
  BY Zenon DEF Goto, ProcOK, Proc, Moved

LEMMA ExitEffect ==
    ASSUME ProcOK, ConnOK, NEW p \in Pids, Exit(p)
    PROVE  /\ ProcOK' /\ ConnOK' /\ Moved(p, "off")
           /\ \A q \in Pids, b \in BusIds :
                 proc'[q].exported[b] = {} \/ proc'[q].exported[b] = proc[q].exported[b]
           /\ \A c \in Clients : conn'[c].at = "binding" => conn'[c] = conn[c]
<1>1. proc' = [proc EXCEPT ![p] = Off]
  BY DEF Exit
<1>3. Off.at = "off" /\ \A b \in BusIds : Off.exported[b] = {}
  BY DEF Off
<1>4. ProcOK'
  BY <1>1, OffType DEF ProcOK
<1>5. proc'[p] = Off /\ \A q \in Pids \ {p} : proc'[q] = proc[q]
  BY <1>1 DEF ProcOK
<1>6. /\ Moved(p, "off")
      /\ \A q \in Pids, b \in BusIds :
            proc'[q].exported[b] = {} \/ proc'[q].exported[b] = proc[q].exported[b]
  BY <1>3, <1>5, Zenon DEF Moved
<1>7. conn' = [c \in Clients |-> IF conn[c].to = p THEN Closed ELSE conn[c]]
  BY DEF Exit
<1>8. \A c \in Clients : conn'[c] = Closed \/ conn'[c] = conn[c]
  BY <1>7
<1>9. Closed.at = "closed"
  BY DEF Closed
<1>10. ConnOK'
  <2>1. conn' \in [Clients -> Conn]
    BY <1>7, ClosedType DEF ConnOK
  <2> QED
    BY <2>1, <1>8, <1>9 DEF ConnOK
<1> QED
  BY <1>4, <1>6, <1>8, <1>9, <1>10

-----------------------------------------------------------------------------
(* What the steps of a daemon do to types, exports and connections. *)

\* No export is added, and no bind gets on.
Kept ==
    /\ src' = src
    /\ \A q \in Pids, b \in BusIds :
          proc'[q].exported[b] = {} \/ proc'[q].exported[b] = proc[q].exported[b]
    /\ \A c \in Clients : conn'[c].at = "binding" => conn'[c] = conn[c]

LEMMA NoFileType == NoFile \in File /\ NoFile.pid = None /\ NoFile.by = None
  BY DEF NoFile, File

LEMMA SameConn == ASSUME ConnOK, conn' = conn PROVE ConnOK'
  BY DEF ConnOK

\* A step of p that sets fields of proc[p] other than its exports.
LEMMA StageKept ==
    ASSUME TypeOK, NEW p \in Pids, ProcOK', FilesOK', UNCHANGED <<conn, plugged, src>>,
           \A q \in Pids : proc'[q].exported = proc[q].exported
    PROVE  TypeOK' /\ Kept
  BY SameConn DEF TypeOK, PlugsOK, Kept

LEMMA ExitKept ==
    ASSUME TypeOK, NEW p \in Pids, Exit(p), FilesOK', UNCHANGED <<plugged, src>>
    PROVE  TypeOK' /\ Kept
  BY ExitEffect DEF TypeOK, PlugsOK, Kept

LEMMA GotoKept ==
    ASSUME TypeOK, NEW p \in Pids, NEW a \in Stages, Goto(p, a),
           FilesOK', UNCHANGED <<conn, plugged, src>>
    PROVE  TypeOK' /\ Kept
<1>1. ProcOK' /\ \A q \in Pids : proc'[q].exported = proc[q].exported
  BY GotoEffect DEF TypeOK
<1> QED
  BY <1>1, StageKept

LEMMA RunEffect ==
    ASSUME TypeOK, NEW p \in Pids, run(p)
    PROVE  /\ TypeOK' /\ Kept
           /\ Moved(p, "exists") /\ UNCHANGED <<pidFile, sock>>
<1>1. proc' = [proc EXCEPT ![p] = [Off EXCEPT !.at = "exists"]]
      /\ UNCHANGED <<pidFile, sock, conn, plugged, src>>
  BY DEF run
<1>2. /\ [Off EXCEPT !.at = "exists"] \in Proc
      /\ [Off EXCEPT !.at = "exists"].at = "exists"
      /\ \A b \in BusIds : [Off EXCEPT !.at = "exists"].exported[b] = {}
  BY OffType, Zenon DEF Proc, Off, Stages, StartStages
<1>3. ProcOK'
  BY <1>1, <1>2 DEF TypeOK, ProcOK
<1>4. /\ proc'[p] = [Off EXCEPT !.at = "exists"]
      /\ \A q \in Pids \ {p} : proc'[q] = proc[q]
  BY <1>1 DEF TypeOK, ProcOK
<1>5. Moved(p, "exists")
  BY <1>2, <1>4 DEF Moved
<1>6. Kept
  BY <1>1, <1>2, <1>4 DEF Kept
<1>7. ConnOK'
  BY <1>1, SameConn DEF TypeOK
<1> QED
  BY <1>1, <1>3, <1>5, <1>6, <1>7 DEF TypeOK, FilesOK, PlugsOK

LEMMA CreateEffect ==
    ASSUME TypeOK, NEW p \in Pids, create_pid_file(p)
    PROVE  TypeOK' /\ Kept
<1>0. UNCHANGED <<sock, plugged, src>>
  BY DEF create_pid_file
<1>1. CASE \E a \in Stages : Goto(p, a) /\ FilesOK' /\ UNCHANGED conn
  BY <1>0, <1>1, GotoKept
<1>2. CASE Exit(p) /\ FilesOK'
  BY <1>0, <1>2, ExitKept
<1>3. FilesOK'
  <2>1. pidFile' \in {pidFile, NoFile, [by |-> p, pid |-> None], [pidFile EXCEPT !.pid = p]}
    BY DEF create_pid_file
  <2>2. pidFile' \in File
    BY <2>1, NoFileType DEF TypeOK, FilesOK, File
  <2> QED
    BY <1>0, <2>2 DEF TypeOK, FilesOK
<1>4. \/ \E a \in {"create", "read", "remove", "write", "prepare"} : Goto(p, a) /\ UNCHANGED conn
      \/ Exit(p)
  BY Zenon DEF create_pid_file, check_pid_file
<1> QED
  BY <1>1, <1>2, <1>3, <1>4 DEF Stages, StartStages, RunStages

LEMMA DropEffect ==
    ASSUME TypeOK, NEW p \in Pids, drop_privileges(p)
    PROVE  TypeOK' /\ Kept /\ UNCHANGED <<pidFile, sock>>
<1>1. FilesOK' /\ UNCHANGED <<pidFile, sock, plugged, src>>
  BY DEF drop_privileges, TypeOK, FilesOK
<1>2. "listen" \in Stages
  BY DEF Stages, RunStages
<1> QED
  BY <1>1, <1>2, GotoKept, ExitKept DEF drop_privileges

LEMMA ServerEffect ==
    ASSUME TypeOK, NEW p \in Pids, start_server(p)
    PROVE  TypeOK' /\ Kept /\ Moved(p, "api_exists") /\ UNCHANGED <<pidFile, sock>>
<1>1. PICK tcp \in BOOLEAN, mdns \in BOOLEAN :
          proc' = [proc EXCEPT ![p].at = "api_exists", ![p].tcp = tcp, ![p].mdns = mdns]
  BY Zenon DEF start_server
<1>2. UNCHANGED <<pidFile, sock, conn, plugged, src>> /\ FilesOK'
  BY DEF start_server, TypeOK, FilesOK
<1>3. "api_exists" \in Stages
  BY DEF Stages, RunStages
<1>4. ProcOK' /\ Moved(p, "api_exists")
      /\ \A q \in Pids : proc'[q].exported = proc[q].exported
  <2>1. proc[p] \in Proc /\ proc \in [Pids -> Proc]
    BY DEF TypeOK, ProcOK
  <2>2. ASSUME NEW x \in Proc
        PROVE  /\ [x EXCEPT !.at = "api_exists", !.tcp = tcp, !.mdns = mdns] \in Proc
               /\ [x EXCEPT !.at = "api_exists", !.tcp = tcp, !.mdns = mdns].at = "api_exists"
               /\ [x EXCEPT !.at = "api_exists", !.tcp = tcp, !.mdns = mdns].exported = x.exported
    BY <1>3, Zenon DEF Proc
  <2>3. proc' = [proc EXCEPT ![p] =
                    [proc[p] EXCEPT !.at = "api_exists", !.tcp = tcp, !.mdns = mdns]]
    BY <1>1, <2>1, Zenon
  <2> QED
    BY <2>1, <2>2, <2>3, Zenon DEF ProcOK, Moved
<1> QED
  BY <1>2, <1>4, StageKept

LEMMA BindApiEffect ==
    ASSUME TypeOK, NEW p \in Pids, bind_api(p)
    PROVE  TypeOK' /\ Kept /\ UNCHANGED pidFile
<1>1. UNCHANGED <<pidFile, conn, plugged, src>>
  BY DEF bind_api
<1>2. sock' \in {sock, None, p}
  BY DEF bind_api
<1>3. FilesOK'
  BY <1>1, <1>2 DEF TypeOK, FilesOK
<1>4. \E a \in {"api_bind", "api_remove", "join", "api_perms", "serve"} : Goto(p, a)
  BY Zenon DEF bind_api
<1>5. {"api_bind", "api_remove", "join", "api_perms", "serve"} \subseteq Stages
  BY DEF Stages, RunStages
<1> QED
  BY <1>1, <1>3, <1>4, <1>5, GotoKept

LEMMA CancelEffect ==
    ASSUME TypeOK, NEW p \in Pids, cancel(p)
    PROVE  TypeOK' /\ Kept /\ Unmoved /\ UNCHANGED <<pidFile, sock>>
<1>1. UNCHANGED <<pidFile, sock, conn, plugged, src>> /\ FilesOK'
      /\ proc' = [proc EXCEPT ![p].cancelled = TRUE]
  BY DEF cancel, TypeOK, FilesOK
<1>2. ProcOK' /\ Unmoved /\ \A q \in Pids : proc'[q].exported = proc[q].exported
  BY <1>1, Zenon DEF TypeOK, ProcOK, Proc, Unmoved
<1> QED
  BY <1>1, <1>2, StageKept

LEMMA StopApiEffect ==
    ASSUME TypeOK, NEW p \in Pids, stop_api(p)
    PROVE  TypeOK' /\ Kept /\ Moved(p, "join") /\ UNCHANGED pidFile
<1>1. UNCHANGED <<pidFile, conn, plugged, src>> /\ FilesOK' /\ Goto(p, "join")
  BY DEF stop_api, TypeOK, FilesOK
<1>2. "join" \in Stages
  BY DEF Stages, RunStages
<1> QED
  BY <1>1, <1>2, GotoKept, GotoEffect DEF TypeOK

LEMMA JoinEffect ==
    ASSUME TypeOK, NEW p \in Pids, join(p)
    PROVE  TypeOK' /\ Kept /\ Moved(p, "end_read") /\ UNCHANGED <<pidFile, sock>>
<1>1. UNCHANGED <<pidFile, sock, conn, plugged, src>> /\ FilesOK'
      /\ proc' = [proc EXCEPT ![p].at = "end_read", ![p].tcp = FALSE, ![p].mdns = FALSE]
  BY DEF join, TypeOK, FilesOK
<1>2. "end_read" \in Stages
  BY DEF Stages, RunStages
<1>3. ProcOK' /\ Moved(p, "end_read") /\ \A q \in Pids : proc'[q].exported = proc[q].exported
  <2>1. proc[p] \in Proc /\ proc \in [Pids -> Proc]
    BY DEF TypeOK, ProcOK
  <2>2. ASSUME NEW x \in Proc
        PROVE  /\ [x EXCEPT !.at = "end_read", !.tcp = FALSE, !.mdns = FALSE] \in Proc
               /\ [x EXCEPT !.at = "end_read", !.tcp = FALSE, !.mdns = FALSE].at = "end_read"
               /\ [x EXCEPT !.at = "end_read", !.tcp = FALSE, !.mdns = FALSE].exported = x.exported
    BY <1>2, Zenon DEF Proc
  <2>3. proc' = [proc EXCEPT ![p] =
                    [proc[p] EXCEPT !.at = "end_read", !.tcp = FALSE, !.mdns = FALSE]]
    BY <1>1, <2>1, Zenon
  <2> QED
    BY <2>1, <2>2, <2>3, Zenon DEF ProcOK, Moved
<1> QED
  BY <1>1, <1>3, StageKept, Zenon

LEMMA RemoveEffect ==
    ASSUME TypeOK, NEW p \in Pids, remove_pid_file(p)
    PROVE  TypeOK' /\ Kept /\ UNCHANGED sock
<1>1. UNCHANGED <<sock, plugged, src>> /\ FilesOK'
  BY NoFileType DEF remove_pid_file, TypeOK, FilesOK
<1>2. "end_remove" \in Stages
  BY DEF Stages, RunStages
<1> QED
  BY <1>1, <1>2, GotoKept, ExitKept DEF remove_pid_file

LEMMA CrashEffect ==
    ASSUME TypeOK, NEW p \in Pids, Crash(p)
    PROVE  TypeOK' /\ Kept /\ UNCHANGED <<pidFile, sock>>
<1>1. UNCHANGED <<pidFile, sock, plugged, src>> /\ FilesOK' /\ Exit(p)
  BY DEF Crash, TypeOK, FilesOK
<1> QED
  BY <1>1, ExitKept

-----------------------------------------------------------------------------
(* What the steps of the API connections do. *)

\* The access lists of the configuration let d through.
Allowed(d) == is_device_allowed(d.vid, d.pid, config)

\* The inductive invariant for the exports: a bind that got past the access
\* list holds the device it was asked about, and an export remembers it.
CheckedInv ==
    /\ \A c \in Clients : conn[c].at = "binding" => \A d \in conn[c].local : Allowed(d)
    /\ \A p \in Pids, b \in BusIds : \A x \in proc[p].exported[b] :
          {x.device} # x.checked \/ Allowed(x.device)

LEMMA KeptChecked == ASSUME CheckedInv, Kept PROVE CheckedInv'
<1>1. \A d : Allowed(d)' = Allowed(d)
  BY DEF Kept, Allowed, config
<1> QED
  BY <1>1 DEF CheckedInv, Kept

\* Connection c becomes x, which is not inside a bind.
LEMMA ConnStep ==
    ASSUME ConnOK, NEW c \in Clients, NEW x \in Conn, conn' = [conn EXCEPT ![c] = x],
           x.at # "binding", x.at # "closed" => x.to \in Pids
    PROVE  ConnOK' /\ \A e \in Clients : conn'[e].at = "binding" => conn'[e] = conn[e]
<1>1. conn'[c] = x /\ \A e \in Clients \ {c} : conn'[e] = conn[e]
  BY DEF ConnOK
<1>2. conn' \in [Clients -> Conn]
  BY DEF ConnOK
<1> QED
  BY <1>1, <1>2 DEF ConnOK

LEMMA ConnKept ==
    ASSUME TypeOK, ConnOK', UNCHANGED <<proc, pidFile, sock, plugged, src>>,
           \A e \in Clients : conn'[e].at = "binding" => conn'[e] = conn[e]
    PROVE  TypeOK' /\ Kept /\ Unmoved
  BY DEF TypeOK, ProcOK, FilesOK, PlugsOK, Kept, Unmoved

LEMMA ConnectEffect ==
    ASSUME TypeOK, NEW c \in Clients, connect_to_daemon(c)
    PROVE  TypeOK' /\ Kept /\ Unmoved
<1>1. sock \in Pids /\ conn' = [conn EXCEPT ![c] = [Closed EXCEPT !.at = "open", !.to = sock]]
  BY DEF connect_to_daemon, TypeOK, FilesOK
<1>2. /\ [Closed EXCEPT !.at = "open", !.to = sock] \in Conn
      /\ [Closed EXCEPT !.at = "open", !.to = sock].at = "open"
      /\ [Closed EXCEPT !.at = "open", !.to = sock].to = sock
  BY <1>1, ClosedType, Zenon DEF Closed, Conn
<1>3. ConnOK' /\ \A e \in Clients : conn'[e].at = "binding" => conn'[e] = conn[e]
  BY <1>1, <1>2, ConnStep, Zenon DEF TypeOK
<1> QED
  BY <1>3, ConnKept DEF connect_to_daemon

LEMMA RequestsType == Requests \subseteq [method : Methods, bus_id : BusIds \union {None}]
  BY DEF Requests, Methods

LEMMA CallEffect ==
    ASSUME TypeOK, NEW c \in Clients, call_daemon(c)
    PROVE  TypeOK' /\ Kept /\ Unmoved
<1>1. PICK r \in Requests : conn' = [conn EXCEPT ![c].at = "sent", ![c].req = r,
                                                   ![c].code = OkCode]
  BY Zenon DEF call_daemon
<1>2. conn[c] \in Conn /\ conn[c].to \in Pids /\ conn \in [Clients -> Conn]
  BY DEF call_daemon, TypeOK, ConnOK
<1>3. r \in [method : Methods, bus_id : BusIds \union {None}] /\ OkCode \in Nat
  BY RequestsType DEF OkCode
<1>4. ASSUME NEW x \in Conn
      PROVE  /\ [x EXCEPT !.at = "sent", !.req = r, !.code = OkCode] \in Conn
             /\ [x EXCEPT !.at = "sent", !.req = r, !.code = OkCode].at = "sent"
             /\ [x EXCEPT !.at = "sent", !.req = r, !.code = OkCode].to = x.to
  BY <1>3, Zenon DEF Conn
<1>5. conn' = [conn EXCEPT ![c] = [conn[c] EXCEPT !.at = "sent", !.req = r, !.code = OkCode]]
  BY <1>1, <1>2, Zenon
<1>6. ConnOK' /\ \A e \in Clients : conn'[e].at = "binding" => conn'[e] = conn[e]
  BY <1>2, <1>4, <1>5, ConnStep, Zenon DEF TypeOK
<1> QED
  BY <1>6, ConnKept, Zenon DEF call_daemon

LEMMA DisconnectEffect ==
    ASSUME TypeOK, NEW c \in Clients, Disconnect(c)
    PROVE  TypeOK' /\ Kept /\ Unmoved
<1>1. Closed \in Conn /\ Closed.at = "closed"
  BY ClosedType DEF Closed
<1>2. ConnOK' /\ \A e \in Clients : conn'[e].at = "binding" => conn'[e] = conn[e]
  BY <1>1, ConnStep, Zenon DEF Disconnect, TypeOK
<1> QED
  BY <1>2, ConnKept DEF Disconnect

LEMMA NoRequestType == NoRequest \in [method : Methods, bus_id : BusIds \union {None}]
  BY DEF NoRequest, Methods

LEMMA AnswerEffect ==
    ASSUME ConnOK, NEW c \in Clients, conn[c].at # "closed", NEW code \in Nat, Answer(c, code)
    PROVE  ConnOK' /\ \A e \in Clients : conn'[e].at = "binding" => conn'[e] = conn[e]
<1>1. conn[c] \in Conn /\ conn[c].to \in Pids /\ conn \in [Clients -> Conn]
  BY DEF ConnOK
<1> DEFINE Answered(x) == [x EXCEPT !.at = "answered", !.code = code,
                                    !.req = NoRequest, !.local = {}]
<1>2. ASSUME NEW x \in Conn
      PROVE  Answered(x) \in Conn /\ Answered(x).at = "answered" /\ Answered(x).to = x.to
  BY NoRequestType, Zenon DEF Conn
<1>3. conn' = [conn EXCEPT ![c] = Answered(conn[c])]
  BY <1>1, Zenon DEF Answer
<1> HIDE DEF Answered
<1> QED
  BY <1>1, <1>2, <1>3, ConnStep, Zenon

\* The exports of process p at bus id b become X.
ExportsBecome(p, b, X) == proc' = [proc EXCEPT ![p].exported[b] = X]

LEMMA ExportEffect ==
    ASSUME ProcOK, NEW p \in Pids, NEW b \in BusIds, NEW X \in SUBSET Exports,
           ExportsBecome(p, b, X)
    PROVE  /\ ProcOK' /\ Unmoved /\ proc'[p].exported[b] = X
           /\ \A q \in Pids, d \in BusIds :
                 q # p \/ d # b => proc'[q].exported[d] = proc[q].exported[d]
<1>1. proc[p] \in Proc /\ proc \in [Pids -> Proc] /\ proc[p].exported \in [BusIds -> SUBSET Exports]
  BY DEF ProcOK, Proc
<1>2. ASSUME NEW x \in Proc
      PROVE  /\ [x EXCEPT !.exported = [x.exported EXCEPT ![b] = X]] \in Proc
             /\ [x EXCEPT !.exported = [x.exported EXCEPT ![b] = X]].at = x.at
             /\ [x EXCEPT !.exported = [x.exported EXCEPT ![b] = X]].exported
                    = [x.exported EXCEPT ![b] = X]
  BY DEF Proc
<1>3. proc' = [proc EXCEPT ![p] = [proc[p] EXCEPT !.exported = [proc[p].exported EXCEPT ![b] = X]]]
  BY <1>1 DEF ExportsBecome
<1>4. ProcOK'
  BY <1>1, <1>2, <1>3 DEF ProcOK
<1>5. Unmoved
  BY <1>1, <1>2, <1>3 DEF Unmoved
<1>6. /\ proc'[p].exported = [proc[p].exported EXCEPT ![b] = X]
      /\ \A q \in Pids \ {p} : proc'[q] = proc[q]
  BY <1>1, <1>2, <1>3
<1> QED
  BY <1>1, <1>4, <1>5, <1>6

LEMMA BindCheckEffect ==
    ASSUME TypeOK, NEW c \in Clients, conn[c].at = "sent", handle_bind_device(c),
           UNCHANGED <<pidFile, sock, plugged, src>>
    PROVE  TypeOK' /\ Unmoved /\ (CheckedInv => CheckedInv')
<1>0. UNCHANGED proc
  BY DEF handle_bind_device
<1>1. CASE \E code \in {invalid_params, internal_error} : Answer(c, code)
  <2>1. {invalid_params, internal_error} \subseteq Nat
    BY DEF invalid_params, internal_error
  <2>2. ConnOK' /\ \A e \in Clients : conn'[e].at = "binding" => conn'[e] = conn[e]
    BY <1>1, <2>1, AnswerEffect DEF TypeOK
  <2> QED
    BY <1>0, <2>2, ConnKept, KeptChecked
<1>2. CASE \E d \in plugged[conn[c].req.bus_id] :
               /\ conn[c].req.bus_id # None /\ Allowed(d)
               /\ conn' = [conn EXCEPT ![c].at = "binding", ![c].local = {d}]
  <2>1. PICK d \in plugged[conn[c].req.bus_id] :
               /\ conn[c].req.bus_id # None /\ Allowed(d)
               /\ conn' = [conn EXCEPT ![c].at = "binding", ![c].local = {d}]
    BY <1>2, Zenon
  <2>2. conn[c] \in Conn /\ conn[c].to \in Pids /\ conn \in [Clients -> Conn]
    BY DEF TypeOK, ConnOK
  <2>3. conn[c].req.bus_id \in BusIds
    BY <2>1, <2>2 DEF Conn
  <2>4. d \in Types
    BY <2>1, <2>3 DEF TypeOK, PlugsOK
  <2> DEFINE Binding(x) == [x EXCEPT !.at = "binding", !.local = {d}]
  <2>5. ASSUME NEW x \in Conn
        PROVE  /\ Binding(x) \in Conn /\ Binding(x).to = x.to /\ Binding(x).req = x.req
               /\ Binding(x).local = {d}
    BY <2>4, Zenon DEF Conn
  <2>6. conn' = [conn EXCEPT ![c] = Binding(conn[c])]
    BY <2>1, <2>2, Zenon
  <2> HIDE DEF Binding
  <2>7. conn'[c] = Binding(conn[c]) /\ \A e \in Clients \ {c} : conn'[e] = conn[e]
    BY <2>2, <2>6
  <2>8. ConnOK'
    <3>1. conn' \in [Clients -> Conn]
      BY <2>2, <2>5, <2>6
    <3> QED
      BY <2>2, <2>3, <2>5, <2>7, <3>1 DEF TypeOK, ConnOK
  <2>9. TypeOK' /\ Unmoved
    BY <1>0, <2>8 DEF TypeOK, ProcOK, FilesOK, PlugsOK, Unmoved
  <2>10. \A x : Allowed(x)' = Allowed(x)
    BY DEF Allowed, config
  <2>11. conn'[c].local = {d}
    BY <2>2, <2>5, <2>7
  <2>12. CheckedInv => CheckedInv'
    BY <1>0, <2>1, <2>7, <2>10, <2>11, Zenon DEF CheckedInv
  <2> QED
    BY <2>9, <2>12
<1> QED
  BY <1>1, <1>2 DEF handle_bind_device, Allowed

LEMMA UnbindEffect ==
    ASSUME TypeOK, NEW c \in Clients, conn[c].at = "sent", handle_unbind_device(c),
           UNCHANGED <<pidFile, sock, plugged, src>>
    PROVE  TypeOK' /\ Unmoved /\ Kept
<1>0. conn[c] \in Conn /\ conn[c].to \in Pids /\ conn[c].req.bus_id \in BusIds \union {None}
  BY DEF TypeOK, ConnOK, Conn
<1>1. ConnOK' /\ \A e \in Clients : conn'[e].at = "binding" => conn'[e] = conn[e]
  <2>1. \E code \in {OkCode, invalid_params, internal_error} : Answer(c, code)
    BY Zenon DEF handle_unbind_device
  <2>2. {OkCode, invalid_params, internal_error} \subseteq Nat
    BY DEF OkCode, invalid_params, internal_error
  <2> QED
    BY <2>1, <2>2, AnswerEffect DEF TypeOK
<1>2. CASE UNCHANGED proc
  BY <1>1, <1>2, ConnKept
<1>3. CASE /\ conn[c].req.bus_id # None
           /\ proc' = [proc EXCEPT ![conn[c].to].exported[conn[c].req.bus_id] = {}]
  <2>0. PICK p \in Pids, b \in BusIds : p = conn[c].to /\ b = conn[c].req.bus_id
    BY <1>0, <1>3
  <2>1. /\ ProcOK' /\ Unmoved /\ proc'[p].exported[b] = {}
        /\ \A q \in Pids, d \in BusIds :
              q # p \/ d # b => proc'[q].exported[d] = proc[q].exported[d]
    <3>1. ExportsBecome(p, b, {})
      BY <1>3, <2>0 DEF ExportsBecome
    <3>2. {} \in SUBSET Exports
      OBVIOUS
    <3> QED
      BY <3>1, <3>2, ExportEffect DEF TypeOK
  <2>2. Kept
    BY <1>1, <2>1 DEF Kept
  <2> QED
    BY <1>1, <2>1, <2>2 DEF TypeOK, FilesOK, PlugsOK
<1> QED
  BY <1>2, <1>3 DEF handle_unbind_device

LEMMA DispatchEffect ==
    ASSUME TypeOK, NEW c \in Clients, dispatch(c)
    PROVE  TypeOK' /\ Unmoved /\ (CheckedInv => CheckedInv')
<1>0. conn[c].at = "sent" /\ UNCHANGED <<pidFile, sock, plugged, src>>
  BY DEF dispatch
<1>1. CASE handle_bind_device(c)
  BY <1>0, <1>1, BindCheckEffect
<1>2. CASE handle_unbind_device(c)
  BY <1>0, <1>2, UnbindEffect, KeptChecked
<1>3. CASE handle_get_device_info(c) \/ handle_other(c) \/ handle_subscribe(c) \/ handle_error(c)
  <2>1. UNCHANGED proc
    BY <1>3 DEF handle_get_device_info, handle_other, handle_subscribe, handle_error
  <2>2. \E code \in {OkCode, method_not_found, invalid_params, internal_error, parse_error} :
            Answer(c, code)
    <3>1. CASE handle_get_device_info(c)
      BY <3>1, Zenon DEF handle_get_device_info
    <3>2. CASE handle_other(c)
      <4> DEFINE Codes == {OkCode, method_not_found, invalid_params, internal_error, parse_error}
      <4>1. /\ handle_attach_device \subseteq Codes /\ handle_detach_device \subseteq Codes
            /\ handle_list_remote_devices \subseteq Codes
            /\ handle_list_local_devices \subseteq Codes
            /\ handle_list_exported_devices \subseteq Codes /\ handle_get_status \subseteq Codes
        BY DEF handle_attach_device, handle_detach_device, handle_list_remote_devices,
               handle_list_local_devices, handle_list_exported_devices, handle_get_status
      <4> HIDE DEF Codes
      <4>2. handle_attach_device \union handle_list_remote_devices \subseteq Codes
        BY <4>1
      <4>3. UNION {handle_detach_device, handle_list_local_devices,
                   handle_list_exported_devices, handle_get_status} \subseteq Codes
        BY <4>1
      <4>4. \E code \in Codes : Answer(c, code)
        BY <3>2, <4>2, <4>3, Zenon DEF handle_other
      <4> QED
        BY <4>4 DEF Codes
    <3>3. CASE handle_subscribe(c) \/ handle_error(c)
      BY <3>3, Zenon DEF handle_subscribe, handle_error
    <3> QED
      BY <1>3, <3>1, <3>2, <3>3
  <2>3. {OkCode, method_not_found, invalid_params, internal_error, parse_error} \subseteq Nat
    BY DEF OkCode, method_not_found, invalid_params, internal_error, parse_error
  <2>4. ConnOK' /\ \A e \in Clients : conn'[e].at = "binding" => conn'[e] = conn[e]
    BY <1>0, <2>2, <2>3, AnswerEffect DEF TypeOK
  <2> QED
    BY <1>0, <2>1, <2>4, ConnKept, KeptChecked
<1> QED
  BY <1>1, <1>2, <1>3 DEF dispatch

LEMMA BindEffect ==
    ASSUME TypeOK, NEW c \in Clients, bind_device(c)
    PROVE  TypeOK' /\ Unmoved /\ (CheckedInv => CheckedInv')
<1>0. PICK p \in Pids, b \in BusIds : p = conn[c].to /\ b = conn[c].req.bus_id
  BY Zenon DEF bind_device, TypeOK, ConnOK
<1>1. /\ conn[c].at = "binding" /\ conn[c].local \in SUBSET Types
      /\ UNCHANGED <<pidFile, sock, plugged, src>>
  BY Zenon DEF bind_device, TypeOK, ConnOK, Conn
<1>2. ConnOK' /\ \A e \in Clients : conn'[e].at = "binding" => conn'[e] = conn[e]
  <2>1. \E code \in {OkCode, internal_error} : Answer(c, code)
    BY Zenon DEF bind_device
  <2>2. {OkCode, internal_error} \subseteq Nat
    BY DEF OkCode, internal_error
  <2> QED
    BY <1>1, <2>1, <2>2, AnswerEffect DEF TypeOK
<1>3. CASE UNCHANGED proc
  BY <1>1, <1>2, <1>3, ConnKept, KeptChecked
<1>4. CASE proc' = [proc EXCEPT ![p].exported[b] =
                       {[device |-> d, checked |-> conn[c].local] : d \in plugged[b]}]
  <2> DEFINE X == {[device |-> d, checked |-> conn[c].local] : d \in plugged[b]}
  <2>1. X \in SUBSET Exports
    BY <1>1 DEF Exports, TypeOK, PlugsOK
  <2>2. \A x \in X : x.checked = conn[c].local
    OBVIOUS
  <2> HIDE DEF X
  <2>3. /\ ProcOK' /\ Unmoved /\ proc'[p].exported[b] = X
        /\ \A q \in Pids, d \in BusIds :
              q # p \/ d # b => proc'[q].exported[d] = proc[q].exported[d]
    <3>1. ExportsBecome(p, b, X)
      BY <1>4 DEF ExportsBecome, X
    <3> QED
      BY <2>1, <3>1, ExportEffect DEF TypeOK
  <2>4. TypeOK'
    BY <1>1, <1>2, <2>3 DEF TypeOK, FilesOK, PlugsOK
  <2>5. \A d : Allowed(d)' = Allowed(d)
    BY <1>1 DEF Allowed, config
  <2>6. ASSUME CheckedInv PROVE CheckedInv'
    <3>1. \A x \in X : {x.device} # x.checked \/ Allowed(x.device)
      <4> TAKE x \in X
      <4>1. CASE {x.device} = x.checked
        BY <1>1, <2>2, <2>6, <4>1 DEF CheckedInv
      <4> QED
        BY <4>1
    <3>2. \A q \in Pids, d \in BusIds : \A x \in proc'[q].exported[d] :
              {x.device} # x.checked \/ Allowed(x.device)'
      BY <2>3, <2>5, <2>6, <3>1 DEF CheckedInv
    <3>3. \A e \in Clients : conn'[e].at = "binding" => \A d \in conn'[e].local : Allowed(d)'
      BY <1>2, <2>5, <2>6 DEF CheckedInv
    <3> QED
      BY <3>2, <3>3 DEF CheckedInv
  <2> QED
    BY <2>3, <2>4, <2>6
<1> QED
  BY <1>0, <1>3, <1>4, Zenon DEF bind_device

LEMMA DiscoverEffect ==
    ASSUME TypeOK, NEW c \in Clients, discover(c)
    PROVE  TypeOK' /\ Kept /\ Unmoved /\ UNCHANGED <<pidFile, sock>>
<1>1. UNCHANGED <<proc, pidFile, sock, conn, plugged, src>>
  BY DEF discover
<1> QED
  BY <1>1, SameConn, ConnKept DEF TypeOK

LEMMA ReplugEffect ==
    ASSUME TypeOK, NEW b \in BusIds, Replug(b)
    PROVE  TypeOK' /\ Kept /\ Unmoved /\ UNCHANGED <<pidFile, sock>>
<1>1. UNCHANGED <<proc, pidFile, sock, conn, src>>
  BY DEF Replug
<1>2. PICK x \in {{}} \union {{t} : t \in Types} : plugged' = [plugged EXCEPT ![b] = x]
  BY DEF Replug
<1>3. x \in SUBSET Types
  OBVIOUS
<1>4. PlugsOK'
  BY <1>2, <1>3 DEF TypeOK, PlugsOK
<1> QED
  BY <1>1, <1>4, SameConn DEF TypeOK, ProcOK, FilesOK, Kept, Unmoved

-----------------------------------------------------------------------------
(* The life of a daemon, when starts do not overlap. *)

\* What holds unless a start has overlooked a daemon.  A daemon that has passed
\* create_pid_file owns the PID file until it exits; a start that got past the
\* check of the PID file is alone; and so nobody but the one daemon touches the
\* socket path.
LifeInv ==
    /\ \A p, q \in Pids : Starting(p) /\ Starting(q) => p = q
    /\ \A p \in Pids : HasPidFile(p) => pidFile.pid = p
    /\ \A p, q \in Pids : proc[p].at \in {"remove", "create", "write"} => ~HasPidFile(q)
    /\ \A p \in Pids : proc[p].at = "write" => pidFile.by = p
    /\ \A p \in Pids : proc[p].at \in {"api_perms", "serve"} => sock = p

\* The inductive invariant.
WatchedInv == ~overlooked => LifeInv

\* Nobody moves, or p moves on without touching the files.
LEMMA LifeUnmoved == ASSUME LifeInv, Unmoved, UNCHANGED <<pidFile, sock>> PROVE LifeInv'
  BY DEF LifeInv, Unmoved, Starting, HasPidFile, running, At

LEMMA RunLife ==
    ASSUME TypeOK, LifeInv, ~ConcurrentStarts, NEW p \in Pids, run(p)
    PROVE  LifeInv'
<1>1. Moved(p, "exists") /\ UNCHANGED <<pidFile, sock>> /\ \A q \in Pids : ~Starting(q)
  BY RunEffect, Zenon DEF run
<1> QED
  BY <1>1 DEF LifeInv, Moved, Starting, HasPidFile, running, At

\* The process ends without having held the PID file, or as if it were killed.
LEMMA FailedLife ==
    ASSUME TypeOK, LifeInv, NEW p \in Pids, Exit(p), UNCHANGED <<pidFile, sock>>
    PROVE  LifeInv'
<1>1. Moved(p, "off")
  BY ExitEffect DEF TypeOK
<1> QED
  BY <1>1 DEF LifeInv, Moved, Starting, HasPidFile, running, At

\* A process past the check of the PID file has only starts beside it that
\* have not yet passed it, and none while it starts itself.
LEMMA Alone ==
    ASSUME LifeInv, NEW p \in Pids, proc[p].at \in {"remove", "create", "write"}
    PROVE  \A q \in Pids \ {p} : proc[q].at = "off"
  BY DEF LifeInv, Starting, HasPidFile, running, At

LEMMA Beside ==
    ASSUME LifeInv, NEW p \in Pids, HasPidFile(p)
    PROVE  /\ \A q \in Pids \ {p} : proc[q].at \in {"off", "exists", "read"}
           /\ pidFile.pid = p
  BY DEF LifeInv, Starting, HasPidFile, running, At

\* The files fit process p when it is at stage a.
Fits(p, a) ==
    /\ a \in RunStages => pidFile'.pid = p
    /\ a = "write" => pidFile'.by = p
    /\ a \in {"api_perms", "serve"} => sock' = p

LEMMA LifeMove ==
    ASSUME LifeInv, NEW p \in Pids, NEW a \in Stages, Moved(p, a), Fits(p, a),
           \A q \in Pids \ {p} : proc[q].at \in {"off", "exists", "read"},
           a \in StartStages => \A q \in Pids \ {p} : proc[q].at = "off",
           pidFile'.pid \in {pidFile.pid, None, p}, sock' \in {sock, None, p}
    PROVE  LifeInv'
<1>0. None \notin Pids
  BY DaemonAssumption
<1>1. \A q \in Pids \ {p} : ~HasPidFile(q)'
  BY DEF Moved, HasPidFile, running, At
<1>2. \A q \in Pids \ {p} : proc'[q].at = "off" \/ proc'[q].at \in {"exists", "read"}
  BY DEF Moved
<1>3. \A q, r \in Pids : Starting(q)' /\ Starting(r)' => q = r
  <2>1. ASSUME NEW q \in Pids \ {p}, Starting(q)' PROVE Starting(q) /\ ~Starting(p)'
    BY <2>1 DEF Moved, Starting, StartStages
  <2>2. \A q, r \in Pids : Starting(q) /\ Starting(r) => q = r
    BY DEF LifeInv
  <2> QED
    BY <2>1, <2>2
<1>4. HasPidFile(p)' => pidFile'.pid = p /\ a \in RunStages
  BY DEF Moved, HasPidFile, running, At, Fits, Stages, StartStages
<1>5. \A q, r \in Pids : proc'[q].at \in {"remove", "create", "write"} => ~HasPidFile(r)'
  BY <1>1, <1>2 DEF HasPidFile
<1>6. \A q \in Pids : proc'[q].at = "write" => pidFile'.by = q
  BY <1>2 DEF Moved, Fits
<1>7. \A q \in Pids : proc'[q].at \in {"api_perms", "serve"} => sock' = q
  BY <1>2 DEF Moved, Fits
<1> QED
  BY <1>1, <1>3, <1>4, <1>5, <1>6, <1>7 DEF LifeInv, At

\* A daemon goes on without touching the PID file.
LEMMA DaemonGoes ==
    ASSUME TypeOK, LifeInv, NEW p \in Pids, HasPidFile(p), NEW a \in RunStages, Goto(p, a),
           pidFile' = pidFile, sock' \in {sock, None, p},
           a \in {"api_perms", "serve"} => sock' = p
    PROVE  LifeInv'
<1>1. a \in Stages /\ a # "off" /\ a \notin StartStages
  BY DEF Stages, StartStages, RunStages
<1>2. Moved(p, a)
  BY <1>1, GotoEffect DEF TypeOK
<1>3. Fits(p, a)
  BY <1>1, Beside DEF Fits, StartStages
<1> QED
  BY <1>1, <1>2, <1>3, LifeMove, Beside

LEMMA CreateLife ==
    ASSUME TypeOK, LifeInv, ~overlooked', NEW p \in Pids, create_pid_file(p)
    PROVE  LifeInv'
<1>0. sock' = sock /\ None \notin Pids /\ NoFile.pid = None
  BY DaemonAssumption, NoFileType DEF create_pid_file
<1>s. /\ {"create", "read", "remove", "write", "prepare", "off"} \subseteq Stages
      /\ {"create", "read", "remove", "write"} \subseteq StartStages
      /\ "prepare" \in RunStages /\ "prepare" \notin StartStages /\ "off" \notin StartStages
      /\ {"create", "read", "remove", "write", "off"} \intersect RunStages = {}
  BY DEF Stages, StartStages, RunStages
<1>o. ASSUME NEW q \in Pids, Starting(q), \A r \in Pids : ~HasPidFile(r)
      PROVE  \A r \in Pids \ {q} : proc[r].at = "off"
  BY <1>o DEF LifeInv, Starting, HasPidFile, running, At
<1>1. CASE At(p, "exists") /\ Goto(p, IF pidFile = NoFile THEN "create" ELSE "read")
           /\ UNCHANGED pidFile
  <2>1. CASE pidFile = NoFile
    <3>1. Goto(p, "create")
      BY <1>1, <2>1
    <3>2. Moved(p, "create")
      BY <1>s, <3>1, GotoEffect DEF TypeOK
    <3>3. \A q \in Pids : ~HasPidFile(q)
      BY <1>0, <2>1 DEF LifeInv
    <3>4. \A q \in Pids \ {p} : proc[q].at = "off"
      BY <1>1, <1>o, <3>3 DEF Starting, At
    <3>5. Fits(p, "create")
      BY <1>s DEF Fits
    <3> QED
      BY <1>0, <1>1, <1>s, <3>2, <3>4, <3>5, LifeMove
  <2>2. CASE pidFile # NoFile
    <3>1. Goto(p, "read")
      BY <1>1, <2>2
    <3>2. Moved(p, "read")
      BY <1>s, <3>1, GotoEffect DEF TypeOK
    <3> QED
      BY <1>0, <1>1, <3>2 DEF LifeInv, Moved, Starting, HasPidFile, running, At
  <2> QED
    BY <2>1, <2>2
<1>2. CASE Exit(p) /\ UNCHANGED pidFile
  BY <1>0, <1>2, FailedLife
<1>3. CASE At(p, "read") /\ (\A q \in Pids \ {p} : pidFile.pid = q => ~running(q))
           /\ Goto(p, "remove") /\ UNCHANGED pidFile
  <2>1. Moved(p, "remove")
    BY <1>3, <1>s, GotoEffect DEF TypeOK
  <2>2. \A q \in Pids : ~HasPidFile(q)
    BY <1>3 DEF LifeInv, HasPidFile, At
  <2>3. \A q \in Pids \ {p} : proc[q].at = "off"
    BY <1>3, <1>o, <2>2 DEF Starting, At
  <2>4. Fits(p, "remove")
    BY <1>s DEF Fits
  <2> QED
    BY <1>0, <1>3, <1>s, <2>1, <2>3, <2>4, LifeMove
<1>4. CASE At(p, "remove") /\ pidFile' = NoFile /\ (Exit(p) \/ Goto(p, "create"))
  <2>1. \A q \in Pids \ {p} : proc[q].at = "off"
    BY <1>4, Alone DEF At
  <2>2. CASE Goto(p, "create")
    <3>1. Moved(p, "create")
      BY <1>s, <2>2, GotoEffect DEF TypeOK
    <3>2. Fits(p, "create")
      BY <1>s DEF Fits
    <3> QED
      BY <1>0, <1>4, <1>s, <2>1, <3>1, <3>2, LifeMove
  <2>3. CASE Exit(p)
    <3>1. Moved(p, "off")
      BY <2>3, ExitEffect DEF TypeOK
    <3>2. Fits(p, "off")
      BY <1>s, <3>1 DEF Fits
    <3> QED
      BY <1>0, <1>4, <1>s, <2>1, <3>1, <3>2, LifeMove
  <2> QED
    BY <1>4, <2>2, <2>3
<1>5. CASE At(p, "create") /\ pidFile' = [by |-> p, pid |-> None] /\ Goto(p, "write")
  <2>1. \A q \in Pids \ {p} : proc[q].at = "off"
    BY <1>5, Alone DEF At
  <2>2. Moved(p, "write")
    BY <1>5, <1>s, GotoEffect DEF TypeOK
  <2>3. pidFile'.by = p /\ pidFile'.pid = None
    BY <1>5
  <2>4. Fits(p, "write")
    BY <1>s, <2>3 DEF Fits
  <2> QED
    BY <1>0, <1>s, <2>1, <2>2, <2>3, <2>4, LifeMove
<1>6. CASE At(p, "write") /\ Goto(p, "prepare")
           /\ pidFile' = IF pidFile.by = p THEN [pidFile EXCEPT !.pid = p] ELSE pidFile
  <2>1. \A q \in Pids \ {p} : proc[q].at = "off"
    BY <1>6, Alone DEF At
  <2>2. Moved(p, "prepare")
    BY <1>6, <1>s, GotoEffect DEF TypeOK
  <2>3. pidFile.by = p
    BY <1>6 DEF LifeInv, At
  <2>4. pidFile'.pid = p
    BY <1>6, <2>3 DEF TypeOK, FilesOK, File
  <2>5. Fits(p, "prepare")
    BY <1>s, <2>4 DEF Fits
  <2> QED
    BY <1>0, <1>s, <2>1, <2>2, <2>4, <2>5, LifeMove
<1> QED
  <2>1. \/ At(p, "exists") /\ Goto(p, IF pidFile = NoFile THEN "create" ELSE "read")
           /\ UNCHANGED pidFile
        \/ Exit(p) /\ UNCHANGED pidFile
        \/ At(p, "read") /\ (\A q \in Pids \ {p} : pidFile.pid = q => ~running(q))
           /\ Goto(p, "remove") /\ UNCHANGED pidFile
        \/ At(p, "remove") /\ pidFile' = NoFile /\ (Exit(p) \/ Goto(p, "create"))
        \/ At(p, "create") /\ pidFile' = [by |-> p, pid |-> None] /\ Goto(p, "write")
        \/ At(p, "write") /\ Goto(p, "prepare")
           /\ pidFile' = IF pidFile.by = p THEN [pidFile EXCEPT !.pid = p] ELSE pidFile
    <3>1. ASSUME check_pid_file(p)
          PROVE  \/ At(p, "exists") /\ Goto(p, IF pidFile = NoFile THEN "create" ELSE "read")
                 \/ Exit(p)
                 \/ At(p, "read") /\ (\A q \in Pids \ {p} : pidFile.pid = q => ~running(q))
                    /\ Goto(p, "remove")
      <4>1. CASE At(p, "exists") /\ Goto(p, IF pidFile = NoFile THEN "create" ELSE "read")
        BY <4>1
      <4>2. CASE \E readable, permitted, reused \in BOOLEAN :
                    /\ At(p, "read")
                    /\ IF /\ readable /\ pidFile.pid # None
                          /\ is_process_running(p, pidFile.pid, permitted, reused)
                       THEN Exit(p)
                       ELSE /\ Goto(p, "remove")
                            /\ overlooked' = \/ overlooked
                                             \/ /\ ~(readable /\ permitted)
                                                /\ \E q \in Pids \ {p} :
                                                       pidFile.pid = q /\ running(q)
        BY <1>0, <4>2, Zenon DEF is_process_running
      <4> QED
        BY <3>1, <4>1, <4>2, Zenon DEF check_pid_file
    <3> QED
      BY <3>1, Zenon DEF create_pid_file
  <2> QED
    BY <1>1, <1>2, <1>3, <1>4, <1>5, <1>6, <2>1

LEMMA DropLife ==
    ASSUME TypeOK, LifeInv, NEW p \in Pids, drop_privileges(p)
    PROVE  LifeInv'
<1>1. UNCHANGED <<pidFile, sock>> /\ HasPidFile(p) /\ "listen" \in RunStages
  BY DEF drop_privileges, HasPidFile, running, At, RunStages
<1>2. CASE Exit(p)
  BY <1>1, <1>2, FailedLife
<1>3. CASE Goto(p, "listen")
  BY <1>1, <1>3, DaemonGoes
<1> QED
  BY <1>2, <1>3 DEF drop_privileges

LEMMA ServerLife ==
    ASSUME TypeOK, LifeInv, NEW p \in Pids, start_server(p)
    PROVE  LifeInv'
<1>1. Moved(p, "api_exists") /\ UNCHANGED <<pidFile, sock>>
  BY ServerEffect
<1>2. HasPidFile(p) /\ "api_exists" \in Stages /\ "api_exists" \notin StartStages
  BY DEF start_server, HasPidFile, running, At, Stages, StartStages, RunStages
<1>3. Fits(p, "api_exists")
  BY <1>1, <1>2, Beside DEF Fits
<1> QED
  BY <1>1, <1>2, <1>3, LifeMove, Beside

LEMMA BindApiLife ==
    ASSUME TypeOK, LifeInv, NEW p \in Pids, bind_api(p)
    PROVE  LifeInv'
<1>0. pidFile' = pidFile /\ None \notin Pids
      /\ {"api_bind", "api_remove", "join", "api_perms", "serve"} \subseteq RunStages
  BY DaemonAssumption DEF bind_api, RunStages
<1>1. \/ At(p, "api_exists") /\ sock = None /\ Goto(p, "api_bind") /\ sock' = sock
      \/ At(p, "api_exists") /\ sock # None /\ Goto(p, "api_remove") /\ sock' = sock
      \/ At(p, "api_remove") /\ Goto(p, "join") /\ sock' = None
      \/ At(p, "api_remove") /\ Goto(p, "api_bind") /\ sock' = None
      \/ At(p, "api_remove") /\ Goto(p, "join") /\ sock' = sock
      \/ At(p, "api_bind") /\ Goto(p, "api_perms") /\ sock' = p
      \/ At(p, "api_bind") /\ Goto(p, "join") /\ sock' = sock
      \/ At(p, "api_perms") /\ Goto(p, "join") /\ sock' = sock
      \/ At(p, "api_perms") /\ Goto(p, "serve") /\ sock' = sock
  BY Zenon DEF bind_api
<1>2. HasPidFile(p)
  BY <1>1 DEF HasPidFile, running, At
<1>3. At(p, "api_perms") => sock = p
  BY DEF LifeInv, At
<1>4. \E a \in {"api_bind", "api_remove", "join", "api_perms", "serve"} :
          /\ Goto(p, a) /\ sock' \in {sock, None, p}
          /\ a \in {"api_perms", "serve"} => sock' = p
  BY <1>1, <1>3
<1> QED
  BY <1>0, <1>2, <1>4, DaemonGoes

LEMMA StopApiLife ==
    ASSUME TypeOK, LifeInv, NEW p \in Pids, stop_api(p)
    PROVE  LifeInv'
<1>1. Goto(p, "join") /\ pidFile' = pidFile /\ sock' \in {sock, None} /\ HasPidFile(p)
      /\ "join" \in RunStages
  BY DEF stop_api, HasPidFile, running, At, RunStages
<1> QED
  BY <1>1, DaemonGoes

LEMMA JoinLife ==
    ASSUME TypeOK, LifeInv, NEW p \in Pids, join(p)
    PROVE  LifeInv'
<1>1. Moved(p, "end_read") /\ UNCHANGED <<pidFile, sock>>
  BY JoinEffect
<1>2. HasPidFile(p) /\ "end_read" \in Stages /\ "end_read" \notin StartStages
  BY DEF join, HasPidFile, running, At, Stages, StartStages, RunStages
<1>3. Fits(p, "end_read")
  BY <1>1, <1>2, Beside DEF Fits
<1> QED
  BY <1>1, <1>2, <1>3, LifeMove, Beside

LEMMA RemoveLife ==
    ASSUME TypeOK, LifeInv, NEW p \in Pids, remove_pid_file(p)
    PROVE  LifeInv'
<1>0. sock' = sock /\ None \notin Pids /\ NoFile.pid = None
  BY DaemonAssumption, NoFileType DEF remove_pid_file
<1>1. HasPidFile(p)
  BY DEF remove_pid_file, HasPidFile, running, At
<1>2. CASE Goto(p, "end_remove") /\ UNCHANGED pidFile
  <2>1. "end_remove" \in RunStages
    BY DEF RunStages
  <2> QED
    BY <1>0, <1>1, <1>2, <2>1, DaemonGoes
<1>3. CASE Exit(p) /\ UNCHANGED pidFile
  BY <1>0, <1>3, FailedLife
<1>4. CASE Exit(p) /\ pidFile' = NoFile
  <2>1. Moved(p, "off")
    BY <1>4, ExitEffect DEF TypeOK
  <2>2. "off" \in Stages /\ "off" \notin StartStages /\ "off" \notin RunStages
    BY DEF Stages, StartStages, RunStages
  <2>3. Fits(p, "off")
    BY <2>2 DEF Fits
  <2> QED
    BY <1>0, <1>1, <1>4, <2>1, <2>2, <2>3, LifeMove, Beside
<1> QED
  BY <1>2, <1>3, <1>4 DEF remove_pid_file

-----------------------------------------------------------------------------
(* The configuration: the layers of load and of the flags give every field
   the value of the topmost layer that sets it. *)

SrcOK == src \in Sources

\* The value layer gives field f, if it sets it.
Value(layer, f) == {l[f] : l \in {x \in layer : f \in DOMAIN x}}

LEMMA SetValue == ASSUME NEW x, NEW f, f \in DOMAIN x PROVE Value({x}, f) = {x[f]}
  BY DEF Value

LEMMA UnsetValue == ASSUME NEW x, NEW f, f \notin DOMAIN x PROVE Value({x}, f) = {}
  BY DEF Value

Chosen(S) == CHOOSE y \in S : TRUE

LEMMA ChosenOne == ASSUME NEW x PROVE Chosen({x}) = x
  BY DEF Chosen

\* What load_file makes of the file x.
Loaded(x) == [f \in Fields |-> IF f \in DOMAIN x THEN x[f] ELSE default[f]]

LEMMA LoadOne == ASSUME NEW x
                 PROVE  load_file({x}) # {} /\ Chosen(load_file({x})) = Loaded(x)
<1>1. load_file({x}) = {Loaded(x)}
  BY DEF load_file, Loaded
<1> QED
  BY <1>1, ChosenOne

LEMMA LoadNone == load_file({}) = {}
  BY DEF load_file

\* Layer i is the topmost one that sets f.
IsTop(layers, f, i) ==
    Value(layers[i], f) # {} /\ \A j \in 1..i - 1 : Value(layers[j], f) = {}
TopOf(layers, f) == CHOOSE i \in DOMAIN layers : IsTop(layers, f, i)

LEMMA TopIsUnique ==
    ASSUME NEW layers, NEW f, DOMAIN layers \subseteq Nat \ {0}, NEW i \in DOMAIN layers,
           IsTop(layers, f, i), NEW v, Value(layers[i], f) = {v}
    PROVE  Chosen(Value(layers[TopOf(layers, f)], f)) = v
<1>1. ASSUME NEW k \in DOMAIN layers, IsTop(layers, f, k) PROVE k = i
  <2>1. CASE k < i
    <3>1. k \in 1..i - 1
      BY <2>1
    <3> QED
      BY <1>1, <3>1 DEF IsTop
  <2>2. CASE i < k
    <3>1. i \in 1..k - 1
      BY <2>2
    <3> QED
      BY <1>1, <3>1 DEF IsTop
  <2> QED
    BY <2>1, <2>2
<1>2. TopOf(layers, f) = i
  BY <1>1 DEF TopOf
<1> QED
  BY <1>2, ChosenOne, Zenon

LayersOf == IF src.named = {}
            THEN <<{src.flags}, {src.env}, IF src.user # {} THEN src.user ELSE src.system,
                   {default}>>
            ELSE <<{src.flags}, src.named, {default}>>

LEMMA ConfiguredTop ==
    ASSUME NEW f
    PROVE  Configured(f) = Chosen(Value(LayersOf[TopOf(LayersOf, f)], f))
  BY Zenon DEF Configured, Value, IsTop, TopOf, LayersOf, Chosen

\* The configuration before the flags.
Base == IF load_file(src.named) = {} THEN load(src) ELSE Chosen(load_file(src.named))
\* The configuration before the environment.
Files == IF load_file(src.user) = {}
         THEN IF load_file(src.system) = {} THEN default ELSE Chosen(load_file(src.system))
         ELSE Chosen(load_file(src.user))

LEMMA ConfigIs ==
    ASSUME NEW f \in Fields
    PROVE  /\ f \in DOMAIN src.flags => config[f] = src.flags[f]
           /\ f \notin DOMAIN src.flags => config[f] = Base[f]
<1>1. config = [g \in Fields |-> IF g \in DOMAIN src.flags THEN src.flags[g] ELSE Base[g]]
  BY Zenon DEF config, daemon_config, Base, Chosen
<1> QED
  BY <1>1

LEMMA LoadIs ==
    ASSUME NEW f \in Fields
    PROVE  /\ f \in DOMAIN src.env => load(src)[f] = src.env[f]
           /\ f \notin DOMAIN src.env => load(src)[f] = Files[f]
<1>1. load(src) = [g \in Fields |-> IF g \in DOMAIN src.env THEN src.env[g] ELSE Files[g]]
  BY Zenon DEF load, apply_env_overrides, merge_from, Files, Chosen
<1> QED
  BY <1>1

LEMMA LoadedIs ==
    ASSUME NEW f \in Fields, NEW x
    PROVE  /\ f \in DOMAIN x => Loaded(x)[f] = x[f]
           /\ f \notin DOMAIN x => Loaded(x)[f] = default[f]
  BY DEF Loaded

LEMMA ConfigIsTopmost ==
    ASSUME SrcOK, NEW f \in Fields
    PROVE  config[f] = Configured(f)
<1> DEFINE files == IF src.user # {} THEN src.user ELSE src.system
<1>0. Value({default}, f) = {default[f]}
  <2>1. DOMAIN default = Fields
    BY DEF default, Fields
  <2> QED
    BY <2>1, SetValue
<1>1. \A file \in {src.system, src.user, src.named} : file = {} \/ \E x : file = {x}
  <2>1. \A file \in {src.system, src.user, src.named} : \A x, y \in file : x = y
    BY SourcesAssumption DEF SrcOK
  <2> QED
    BY <2>1
<1>2. CASE f \in DOMAIN src.flags
  <2>1. Value({src.flags}, f) = {src.flags[f]} /\ config[f] = src.flags[f]
    BY <1>2, SetValue, ConfigIs
  <2>2. LayersOf[1] = {src.flags} /\ DOMAIN LayersOf \subseteq Nat \ {0} /\ 1 \in DOMAIN LayersOf
    BY DEF LayersOf
  <2>3. Value(LayersOf[1], f) = {src.flags[f]}
    BY <2>1, <2>2, Zenon
  <2>4. IsTop(LayersOf, f, 1)
    BY <2>3 DEF IsTop
  <2>5. Chosen(Value(LayersOf[TopOf(LayersOf, f)], f)) = src.flags[f]
    <3>1. DOMAIN LayersOf \subseteq Nat \ {0} /\ 1 \in DOMAIN LayersOf
      BY <2>2
    <3> QED
      BY <2>3, <2>4, <3>1, TopIsUnique
  <2> QED
    BY <2>1, <2>5, ConfiguredTop
<1>3. CASE f \notin DOMAIN src.flags /\ src.named = {}
  <2>1. Value({src.flags}, f) = {} /\ config[f] = load(src)[f]
    BY <1>3, UnsetValue, ConfigIs, LoadNone DEF Base
  <2>2. LayersOf = <<{src.flags}, {src.env}, files, {default}>>
    BY <1>3 DEF LayersOf
  <2>3. /\ DOMAIN LayersOf \subseteq Nat \ {0} /\ {2, 3, 4} \subseteq DOMAIN LayersOf
        /\ LayersOf[1] = {src.flags} /\ LayersOf[2] = {src.env} /\ LayersOf[3] = files
        /\ LayersOf[4] = {default}
    BY <2>2
  <2>d. /\ DOMAIN LayersOf \subseteq Nat \ {0} /\ 2 \in DOMAIN LayersOf /\ 3 \in DOMAIN LayersOf
        /\ 4 \in DOMAIN LayersOf
    BY <2>3
  <2>4. Value(LayersOf[1], f) = {} /\ Value(LayersOf[4], f) = {default[f]}
    BY <1>0, <2>1, <2>3, Zenon
  <2>5. CASE f \in DOMAIN src.env
    <3>1. Value({src.env}, f) = {src.env[f]} /\ config[f] = src.env[f]
      BY <2>1, <2>5, SetValue, LoadIs
    <3>2. Value(LayersOf[2], f) = {src.env[f]}
      BY <2>3, <3>1, Zenon
    <3>3. IsTop(LayersOf, f, 2)
      BY <2>4, <3>2 DEF IsTop
    <3>4. Chosen(Value(LayersOf[TopOf(LayersOf, f)], f)) = src.env[f]
      BY <2>d, <3>2, <3>3, TopIsUnique
    <3> QED
      BY <3>1, <3>4, ConfiguredTop
  <2>6. CASE f \notin DOMAIN src.env
    <3>1. Value({src.env}, f) = {} /\ config[f] = Files[f]
      BY <2>1, <2>6, UnsetValue, LoadIs
    <3>2. Value(LayersOf[2], f) = {}
      BY <2>3, <3>1, Zenon
    <3>3. CASE Value(files, f) = {} /\ Files[f] = default[f]
      <4>1. Value(LayersOf[3], f) = {}
        BY <2>3, <3>3, Zenon
      <4>2. IsTop(LayersOf, f, 4)
        BY <2>4, <3>2, <4>1 DEF IsTop
      <4>3. Chosen(Value(LayersOf[TopOf(LayersOf, f)], f)) = default[f]
        BY <2>d, <2>4, <4>2, TopIsUnique
      <4> QED
        BY <3>1, <3>3, <4>3, ConfiguredTop
    <3>4. CASE \E x : Value(files, f) = {x[f]} /\ Files[f] = x[f]
      <4>0. PICK x : Value(files, f) = {x[f]} /\ Files[f] = x[f]
        BY <3>4
      <4>1. Value(LayersOf[3], f) = {x[f]}
        BY <2>3, <4>0, Zenon
      <4>2. IsTop(LayersOf, f, 3)
        BY <2>4, <3>2, <4>1 DEF IsTop
      <4>3. Chosen(Value(LayersOf[TopOf(LayersOf, f)], f)) = x[f]
        BY <2>d, <4>1, <4>2, TopIsUnique
      <4> QED
        BY <3>1, <4>0, <4>3, ConfiguredTop
    <3>5. CASE files = {}
      <4>1. src.user = {} /\ src.system = {}
        BY <3>5
      <4>2. Files = default
        BY <4>1, LoadNone DEF Files
      <4>3. Value(files, f) = {}
        BY <3>5 DEF Value
      <4> HIDE DEF files
      <4> QED
        BY <3>3, <4>2, <4>3
    <3>6. CASE files # {}
      <4>1. PICK x : files = {x}
        BY <1>1, <3>6, Zenon
      <4>2. Files = Loaded(x)
        <5>1. CASE src.user # {}
          <6>1. src.user = {x}
            BY <4>1, <5>1
          <6> QED
            BY <6>1, LoadOne DEF Files
        <5>2. CASE src.user = {}
          <6>1. src.system = {x}
            BY <4>1, <5>2
          <6> QED
            BY <5>2, <6>1, LoadOne, LoadNone DEF Files
        <5> QED
          BY <5>1, <5>2
      <4> HIDE DEF files
      <4>3. CASE f \in DOMAIN x
        <5>1. Value({x}, f) = {x[f]} /\ Files[f] = x[f]
          BY <4>2, <4>3, SetValue, LoadedIs
        <5> QED
          BY <3>4, <4>1, <5>1, Zenon
      <4>4. CASE f \notin DOMAIN x
        <5>1. Value({x}, f) = {} /\ Files[f] = default[f]
          BY <4>2, <4>4, UnsetValue, LoadedIs
        <5> QED
          BY <3>3, <4>1, <5>1, Zenon
      <4> QED
        BY <4>3, <4>4
    <3> QED
      BY <3>5, <3>6
  <2> QED
    BY <2>5, <2>6
<1>4. CASE f \notin DOMAIN src.flags /\ src.named # {}
  <2>0. PICK x : src.named = {x}
    BY <1>1, <1>4, Zenon
  <2>1. Value({src.flags}, f) = {} /\ config[f] = Loaded(x)[f]
    <3>1. Base = Loaded(x)
      BY <2>0, LoadOne DEF Base
    <3> QED
      BY <1>4, <3>1, UnsetValue, ConfigIs
  <2>2. LayersOf = <<{src.flags}, {x}, {default}>>
    BY <1>4, <2>0 DEF LayersOf
  <2>3. /\ DOMAIN LayersOf \subseteq Nat \ {0} /\ {2, 3} \subseteq DOMAIN LayersOf
        /\ LayersOf[1] = {src.flags} /\ LayersOf[2] = {x} /\ LayersOf[3] = {default}
    BY <2>2
  <2>d. DOMAIN LayersOf \subseteq Nat \ {0} /\ 2 \in DOMAIN LayersOf /\ 3 \in DOMAIN LayersOf
    BY <2>3
  <2>4. Value(LayersOf[1], f) = {} /\ Value(LayersOf[3], f) = {default[f]}
    BY <1>0, <2>1, <2>3, Zenon
  <2>5. CASE f \in DOMAIN x
    <3>1. Value({x}, f) = {x[f]} /\ config[f] = x[f]
      BY <2>1, <2>5, SetValue, LoadedIs
    <3>2. Value(LayersOf[2], f) = {x[f]}
      BY <2>3, <3>1, Zenon
    <3>3. IsTop(LayersOf, f, 2)
      BY <2>4, <3>2 DEF IsTop
    <3>4. Chosen(Value(LayersOf[TopOf(LayersOf, f)], f)) = x[f]
      BY <2>d, <3>2, <3>3, TopIsUnique
    <3> QED
      BY <3>1, <3>4, ConfiguredTop
  <2>6. CASE f \notin DOMAIN x
    <3>1. Value({x}, f) = {} /\ config[f] = default[f]
      BY <2>1, <2>6, UnsetValue, LoadedIs
    <3>2. Value(LayersOf[2], f) = {}
      BY <2>3, <3>1, Zenon
    <3>3. IsTop(LayersOf, f, 3)
      BY <2>4, <3>2 DEF IsTop
    <3>4. Chosen(Value(LayersOf[TopOf(LayersOf, f)], f)) = default[f]
      BY <2>d, <2>4, <3>3, TopIsUnique
    <3> QED
      BY <3>1, <3>4, ConfiguredTop
  <2> QED
    BY <2>5, <2>6
<1> QED
  BY <1>2, <1>3, <1>4

-----------------------------------------------------------------------------
(* The daemon. *)

DaemonInv == TypeOK /\ SrcOK /\ CheckedInv

LEMMA DaemonInitInv == DaemonInit => DaemonInv /\ LifeInv
<1> SUFFICES ASSUME DaemonInit PROVE DaemonInv /\ LifeInv
  OBVIOUS
<1>1. /\ proc = [p \in Pids |-> Off] /\ pidFile = NoFile /\ sock = None
      /\ conn = [c \in Clients |-> Closed]
      /\ plugged \in [BusIds -> {{}} \union {{t} : t \in Types}]
      /\ src \in Sources
  BY DEF DaemonInit
<1>2. /\ Off.at = "off" /\ \A b \in BusIds : Off.exported[b] = {}
      /\ Closed.at = "closed"
  BY DEF Off, Closed
<1>3. ProcOK /\ \A p \in Pids : proc[p] = Off
  BY <1>1, OffType DEF ProcOK
<1>4. ConnOK /\ \A c \in Clients : conn[c].at = "closed"
  BY <1>1, <1>2, ClosedType DEF ConnOK
<1>5. FilesOK
  BY <1>1, NoFileType DEF FilesOK
<1>6. PlugsOK
  <2>1. {{}} \union {{t} : t \in Types} \subseteq SUBSET Types
    OBVIOUS
  <2> QED
    BY <1>1, <2>1 DEF PlugsOK
<1>7. CheckedInv
  BY <1>2, <1>3, <1>4 DEF CheckedInv
<1>8. LifeInv
  BY <1>2, <1>3 DEF LifeInv, Starting, HasPidFile, running, At
<1> QED
  BY <1>1, <1>3, <1>4, <1>5, <1>6, <1>7, <1>8 DEF DaemonInv, TypeOK, SrcOK

LEMMA DaemonStepInv ==
    ASSUME DaemonInv, [DaemonNext]_daemonVars
    PROVE  DaemonInv' /\ (LifeInv /\ ~overlooked' /\ ~ConcurrentStarts => LifeInv')
<1>0. TypeOK /\ CheckedInv /\ SrcOK
  BY DEF DaemonInv
<1>s. ASSUME src' = src PROVE SrcOK'
  BY <1>0, <1>s DEF SrcOK
<1>k. ASSUME TypeOK', Kept PROVE DaemonInv'
  <2>1. src' = src
    BY <1>k DEF Kept
  <2> QED
    BY <1>0, <1>k, <1>s, <2>1, KeptChecked DEF DaemonInv
<1>1. ASSUME NEW p \in Pids, run(p)
      PROVE  DaemonInv' /\ (LifeInv /\ ~overlooked' /\ ~ConcurrentStarts => LifeInv')
  BY <1>0, <1>1, <1>k, RunEffect, RunLife
<1>2. ASSUME NEW p \in Pids, DaemonStep(p)
      PROVE  DaemonInv' /\ (LifeInv /\ ~overlooked' /\ ~ConcurrentStarts => LifeInv')
  <2>1. CASE create_pid_file(p)
    BY <1>0, <2>1, <1>k, CreateEffect, CreateLife
  <2>2. CASE drop_privileges(p)
    BY <1>0, <2>2, <1>k, DropEffect, DropLife
  <2>3. CASE start_server(p)
    BY <1>0, <2>3, <1>k, ServerEffect, ServerLife
  <2>4. CASE bind_api(p)
    BY <1>0, <2>4, <1>k, BindApiEffect, BindApiLife
  <2>5. CASE stop_api(p)
    BY <1>0, <2>5, <1>k, StopApiEffect, StopApiLife
  <2>6. CASE join(p)
    BY <1>0, <2>6, <1>k, JoinEffect, JoinLife
  <2>7. CASE remove_pid_file(p)
    BY <1>0, <2>7, <1>k, RemoveEffect, RemoveLife
  <2> QED
    BY <1>2, <2>1, <2>2, <2>3, <2>4, <2>5, <2>6, <2>7 DEF DaemonStep
<1>3. ASSUME NEW p \in Pids, cancel(p)
      PROVE  DaemonInv' /\ (LifeInv /\ ~overlooked' /\ ~ConcurrentStarts => LifeInv')
  BY <1>0, <1>3, <1>k, CancelEffect, LifeUnmoved
<1>4. ASSUME NEW p \in Pids, Crash(p)
      PROVE  DaemonInv' /\ (LifeInv /\ ~overlooked' /\ ~ConcurrentStarts => LifeInv')
  <2>1. Exit(p)
    BY <1>4 DEF Crash
  <2> QED
    BY <1>0, <1>4, <1>k, <2>1, CrashEffect, FailedLife
<1>5. ASSUME NEW c \in Clients, connect_to_daemon(c) \/ call_daemon(c) \/ Disconnect(c)
      PROVE  DaemonInv' /\ (LifeInv /\ ~overlooked' /\ ~ConcurrentStarts => LifeInv')
  <2>1. UNCHANGED <<pidFile, sock>>
    BY <1>5 DEF connect_to_daemon, call_daemon, Disconnect
  <2>2. TypeOK' /\ Kept /\ Unmoved
    BY <1>0, <1>5, ConnectEffect, CallEffect, DisconnectEffect
  <2> QED
    BY <1>k, <2>1, <2>2, LifeUnmoved
<1>6. ASSUME NEW c \in Clients, dispatch(c) \/ bind_device(c)
      PROVE  DaemonInv' /\ (LifeInv /\ ~overlooked' /\ ~ConcurrentStarts => LifeInv')
  <2>1. UNCHANGED <<pidFile, sock, src>>
    BY <1>6, Zenon DEF dispatch, bind_device
  <2>2. TypeOK' /\ Unmoved /\ CheckedInv'
    BY <1>0, <1>6, DispatchEffect, BindEffect
  <2> QED
    BY <1>s, <2>1, <2>2, LifeUnmoved DEF DaemonInv
<1>7. ASSUME NEW c \in Clients, discover(c)
      PROVE  DaemonInv' /\ (LifeInv /\ ~overlooked' /\ ~ConcurrentStarts => LifeInv')
  BY <1>0, <1>7, <1>k, DiscoverEffect, LifeUnmoved
<1>8. ASSUME NEW b \in BusIds, Replug(b)
      PROVE  DaemonInv' /\ (LifeInv /\ ~overlooked' /\ ~ConcurrentStarts => LifeInv')
  BY <1>0, <1>8, <1>k, ReplugEffect, LifeUnmoved
<1>9. ASSUME UNCHANGED daemonVars
      PROVE  DaemonInv' /\ (LifeInv /\ ~overlooked' /\ ~ConcurrentStarts => LifeInv')
  <2>1. UNCHANGED <<proc, pidFile, sock, conn, plugged, src>>
    BY <1>9 DEF daemonVars
  <2>2. TypeOK' /\ Kept /\ Unmoved
    BY <1>0, <2>1, SameConn, ConnKept DEF TypeOK
  <2> QED
    BY <1>k, <2>1, <2>2, LifeUnmoved
<1> QED
  BY <1>1, <1>2, <1>3, <1>4, <1>5, <1>6, <1>7, <1>8, <1>9 DEF DaemonNext

LEMMA DaemonInvariant == DaemonSpec => []DaemonInv
<1>1. DaemonInit => DaemonInv
  BY DaemonInitInv
<1>2. DaemonInv /\ [DaemonNext]_daemonVars => DaemonInv'
  BY DaemonStepInv
<1> QED
  BY <1>1, <1>2, PTL DEF DaemonSpec

\* Nothing takes back that a daemon was overlooked.
LEMMA OverlookedStays == ASSUME [DaemonNext]_daemonVars PROVE overlooked => overlooked'
<1>1. ASSUME NEW p \in Pids, create_pid_file(p) PROVE overlooked => overlooked'
  BY <1>1, Zenon DEF create_pid_file, check_pid_file
<1>2. ASSUME NEW p \in Pids, DaemonStep(p) PROVE overlooked => overlooked'
  BY <1>1, <1>2, Zenon DEF DaemonStep, drop_privileges, start_server, bind_api, stop_api, join,
     remove_pid_file
<1>3. ASSUME NEW p \in Pids, run(p) \/ cancel(p) \/ Crash(p) PROVE overlooked => overlooked'
  BY <1>3, Zenon DEF run, cancel, Crash
<1>4. ASSUME NEW c \in Clients,
             \/ connect_to_daemon(c) \/ call_daemon(c) \/ dispatch(c) \/ bind_device(c)
             \/ Disconnect(c) \/ discover(c)
      PROVE  overlooked => overlooked'
  BY <1>4, Zenon DEF connect_to_daemon, call_daemon, dispatch, bind_device, Disconnect, discover
<1>5. ASSUME NEW b \in BusIds, Replug(b) PROVE overlooked => overlooked'
  BY <1>5, Zenon DEF Replug
<1>6. ASSUME UNCHANGED daemonVars PROVE overlooked => overlooked'
  BY <1>6 DEF daemonVars
<1> QED
  BY <1>2, <1>3, <1>4, <1>5, <1>6 DEF DaemonNext

LEMMA LifeInvariant == ASSUME ~ConcurrentStarts PROVE DaemonSpec => []WatchedInv
<1>1. DaemonInit => WatchedInv
  BY DaemonInitInv DEF WatchedInv
<1>2. DaemonInv /\ WatchedInv /\ [DaemonNext]_daemonVars => WatchedInv'
  BY DaemonStepInv, OverlookedStays DEF WatchedInv
<1> QED
  BY <1>1, <1>2, DaemonInvariant, PTL DEF DaemonSpec

(* When starts do not overlap and no start was kept from reading a running
   daemon's PID file or from signalling its process, the PID file lets one
   daemon through, whatever crashes, stale files and failed removals came
   before and however pids are reused.  (Two overlapping starts can both get
   through: see the run daemon_pid.) *)
THEOREM OneDaemonAtATime == ASSUME ~ConcurrentStarts PROVE DaemonSpec => []OneDaemon
<1>1. WatchedInv => OneDaemon
  BY DEF WatchedInv, LifeInv, OneDaemon
<1> QED
  BY <1>1, LifeInvariant, PTL

(* Under the same conditions the socket path leads to the daemon that accepts
   connections, whatever sockets failed or failing removals leave behind. *)
THEOREM SocketLeadsToDaemon == ASSUME ~ConcurrentStarts PROVE DaemonSpec => []SocketIsServed
<1>1. WatchedInv => SocketIsServed
  BY DEF WatchedInv, LifeInv, SocketIsServed, At
<1> QED
  BY <1>1, LifeInvariant, PTL

(* Whatever requests, crashes and restarts interleave, a device is exported only
   if the access lists of the topmost configuration layer let through the
   device the bind looked up first. *)
THEOREM ExportsAreAllowed == DaemonSpec => []ExportsAllowed
<1>1. ASSUME DaemonInv PROVE ExportsAllowed
  <2>1. /\ config["denied_devices"] = Configured("denied_devices")
        /\ config["allowed_devices"] = Configured("allowed_devices")
    BY <1>1, ConfigIsTopmost DEF DaemonInv, Fields
  <2>2. ASSUME NEW d, Allowed(d)
        PROVE  /\ ~Listed(Configured("denied_devices"), d.vid, d.pid)
               /\ \/ Configured("allowed_devices") = <<>>
                  \/ Listed(Configured("allowed_devices"), d.vid, d.pid)
    BY <2>1, <2>2, Zenon DEF Allowed, is_device_allowed
  <2> QED
    BY <1>1, <2>2 DEF ExportsAllowed, DaemonInv, CheckedInv
<1> QED
  BY <1>1, DaemonInvariant, PTL
=============================================================================
