---------------------------- MODULE ClassClient ----------------------------
(***************************************************************************)
(* A client process and the server at the two ends of one connection: the  *)
(* device list (remote.rs), the five class clients, and the requests of a  *)
(* kernel client (class "kernel", external).  A class client has one       *)
(* request out at a time: it writes a CmdSubmit and waits for a RetSubmit, *)
(* and compares no sequence number.  The server reads the first message    *)
(* (connection.rs) and then performs one request after the other           *)
(* (handle_submit of session.rs); the module UrbSession has the requests   *)
(* that overlap.  The connection may be cut at any moment, also in the     *)
(* middle of a message.                                                    *)
(***************************************************************************)
EXTENDS OpWire, SequencesExt

CONSTANTS Classes,        \* the clients that are tried
          CallsOf,        \* the calls of each class
          BusIds,         \* the bus ids that are asked for
          ExportsOf,      \* what the server may have exported
          MaxCalls,       \* bounds: the calls of each class,
          MaxItems,       \* and the input items of the device
          SeqModulus, TagModulus, LbaModulus, CountModulus, LengthModulus,
          ReportLength, MaxSegment, NtbModulus, MaxPacketSize, MaxPackets, ByteRange,
          Geometry        \* of the disk

Mass == INSTANCE MassStorageClient
Hid == INSTANCE HidClient
Serial == INSTANCE SerialClient
Net == INSTANCE NetworkClient
Audio == INSTANCE AudioClient

VARIABLES class,
          exported,      \* the devices the server lists
          conn,          \* the client: "new", "connecting", "ready", "failed"
          server,        \* its handler: "accepted", "session", "closed"
          c2s, s2c,      \* the words under way
          fields,        \* an option: the client object
          seqnum,        \* next_seqnum
          op,            \* the steps left of the call that is running, the first one sent or not
          ret,           \* what the last call returned
          calls,         \* calls made
          dev,           \* the device behind the server
          synced,        \* the last call that sets something returned Ok
          seen           \* the last input item handed out

clientVars == <<conn, fields, seqnum, op, ret, calls, synced, seen>>
vars == <<class, exported, server, c2s, s2c, dev, clientVars>>

NoOp == [call |-> [op |-> "none"], todo |-> <<>>, awaits |-> 0]
NoRet == [call |-> [op |-> "none"], ok |-> TRUE, n |-> 0, data |-> <<>>, seen |-> 0]
Sets(c) == \/ c.op \in {"set_line_coding", "set_sample_rate"}
           \/ c.op = "initialize" /\ class # "audio"
f == fields[1]

-----------------------------------------------------------------------------
(* What each class does. *)

Connected(reply) ==
    CASE class = "mass" -> Mass!connect(reply)
      [] class = "hid" -> Hid!connect(reply)
      [] class = "serial" -> Serial!connect(reply)
      [] class = "net" -> Net!connect(reply)
      [] class = "audio" -> Audio!connect(reply)
      [] class = "kernel" -> IF ImportAccepted(reply) THEN <<[data |-> <<>>]>> ELSE <<>>

NextSeqnum(n) ==
    CASE class = "mass" -> Mass!next_seqnum(n)
      [] class = "hid" -> Hid!next_seqnum(n)
      [] class = "serial" -> Serial!next_seqnum(n)
      [] class = "net" -> Net!next_seqnum(n)
      [] class = "audio" -> Audio!next_seqnum(n)
      [] class = "kernel" -> WrapToOne(n, SeqModulus)

Refused(c) == class = "mass" /\ Mass!Refused(f, c)

StepsOf(c) ==
    CASE class = "mass" -> Mass!Steps(f, c)
      [] class = "hid" -> Hid!Steps(f, c)
      [] class = "serial" -> Serial!Steps(f, c)
      [] class = "net" -> Net!Steps(f, c)
      [] class = "audio" -> Audio!Steps(f, c)
      [] class = "kernel" -> <<[req |-> c.req]>>

SendOf(step) ==
    IF class = "mass" THEN Mass!Send(f, step) ELSE [f |-> f, req |-> step.req]

\* An option: the data of a reply the client accepts.
ReplyData(m) ==
    CASE class = "mass" -> Mass!read_ret_submit(m)
      [] class = "hid" -> Hid!read_ret_submit(m)
      [] class = "serial" -> Serial!read_ret_submit(m)
      [] class = "net" -> Net!read_ret_submit(m)
      [] class = "audio" -> Audio!read_ret_submit(m)
      [] class = "kernel" -> <<(<<>>)>>

ReceiveOf(step, data) ==
    CASE class = "mass" -> Mass!Receive(f, step, data)
      [] class = "hid" -> Hid!Receive(f, step, data)
      [] class = "serial" -> Serial!Receive(f, step, data)
      [] class = "net" -> Net!Receive(f, step, data)
      [] class = "audio" -> Audio!Receive(f, step, data)
      [] class = "kernel" -> fields

ResultOf(g, c) ==
    CASE class = "mass" -> Mass!Result(g, c)
      [] class = "hid" -> Hid!Result(g, c)
      [] class = "serial" -> Serial!Result(g, c)
      [] class = "net" -> Net!Result(g, c)
      [] class = "audio" -> Audio!Result(g, c)
      [] class = "kernel" -> [n |-> 0, data |-> <<>>]

\* The settings of the device when it is plugged in (external).
Factories ==
    CASE class = "hid" -> {Hid!Factory}
      [] class = "serial" -> {Serial!Factory}
      [] class = "net" -> {Net!Factory(mode) : mode \in {"Ecm", "Ncm"}}
      [] class = "audio" -> {Audio!Factory}
      [] OTHER -> {[none |-> 0]}

Init ==
    /\ class \in Classes
    /\ exported \in ExportsOf[class]
    /\ conn = "new" /\ server = "accepted"
    /\ c2s = <<>> /\ s2c = <<>>
    /\ fields = <<>> /\ seqnum = 1
    /\ op = NoOp /\ ret = NoRet /\ calls = 0
    /\ IF class = "mass" THEN dev = Mass!Disk(Geometry)
       ELSE \E s \in Factories : dev = [settings |-> s, next |-> 0, lost |-> {}, got |-> <<>>]
    /\ synced = FALSE /\ seen = 0

-----------------------------------------------------------------------------
(* Connecting. *)

\* A bus id that does not fit the 32-byte field is refused at once.
busid_from_str(id) == id.fits

\* Digits, a dash, and groups of digits between dots.
is_valid_bus_id(id) ==
    id.bus = "digits" /\ id.dev # <<>> /\ \A i \in 1..Len(id.dev) : id.dev[i] = "digits"

connect ==
    /\ conn = "new"
    /\ IF class = "list"
       THEN /\ c2s' = write_op_message([op |-> "ReqDevlist"])
            /\ conn' = "connecting"
       ELSE \E id \in BusIds :
              IF busid_from_str(id)
              THEN /\ c2s' = write_op_message([op |-> "ReqImport", busid |-> id])
                   /\ conn' = "connecting"
              ELSE /\ conn' = "failed"
                   /\ UNCHANGED c2s
    /\ UNCHANGED <<class, exported, server, s2c, fields, seqnum, op, ret, calls, dev, synced, seen>>

RepImport(status, device) == [op |-> "RepImport", status |-> status, device |-> device]

\* The device the registry hands out, or nothing: unknown, unbound or in use.
try_acquire(id) == {<<>>} \union {<<exported[i]>> : i \in {j \in DOMAIN exported :
                                                              exported[j].busid = id}}

handle_connection ==
    /\ server = "accepted"
    /\ read_op_message(c2s).is = "ok"
    /\ LET m == read_op_message(c2s).msg IN
       CASE m.op = "ReqDevlist" ->
                /\ s2c' = write_op_message([op |-> "RepDevlist", status |-> 0,
                                            devices |-> exported])
                /\ server' = "closed"
         [] m.op = "ReqImport" /\ ~is_valid_bus_id(m.busid) ->
                /\ s2c' = write_op_message(RepImport(1, <<>>))
                /\ server' = "closed"
         [] m.op = "ReqImport" /\ is_valid_bus_id(m.busid) ->
                \E d \in try_acquire(m.busid) :
                    /\ s2c' = write_op_message(RepImport(IF d = <<>> THEN 1 ELSE 0, d))
                    /\ server' = IF d = <<>> THEN "closed" ELSE "session"
    /\ c2s' = read_op_message(c2s).rest
    /\ UNCHANGED <<class, exported, dev, clientVars>>

\* Ten seconds without a complete first message.
first_message_timeout ==
    /\ server = "accepted" /\ conn = "connecting"
    /\ server' = "closed" /\ c2s' = <<>>
    /\ UNCHANGED <<class, exported, s2c, dev, clientVars>>

\* Nothing more will come: the server is gone and what is left is no message.
Eof(r) == server = "closed" /\ r.is = "wait"

connected ==
    /\ conn = "connecting"
    /\ LET r == read_op_message(s2c) IN
       \/ /\ r.is = "ok"
          /\ s2c' = r.rest
          /\ fields' = IF class = "list"
                       THEN IF r.msg.op = "RepDevlist" /\ r.msg.status = 0
                            THEN <<[devices |-> r.msg.devices]>> ELSE <<>>
                       ELSE Connected(r.msg)
       \/ /\ r.is = "err" \/ Eof(r)
          /\ s2c' = <<>>
          /\ fields' = <<>>
    /\ conn' = IF fields' = <<>> THEN "failed" ELSE "ready"
    /\ UNCHANGED <<class, exported, server, c2s, seqnum, op, ret, calls, dev, synced, seen>>

-----------------------------------------------------------------------------
(* A call. *)

Return(g, c, ok) ==
    LET r == IF ok THEN ResultOf(g, c) ELSE [n |-> 0, data |-> <<>>] IN
    /\ ret' = [call |-> c, ok |-> ok, n |-> r.n, data |-> r.data, seen |-> seen]
    /\ op' = NoOp
    /\ synced' = IF Sets(c) THEN ok ELSE synced
    /\ seen' = IF c.op = "read" /\ r.data # <<>> /\ Last(r.data).k = "byte"
               THEN Last(r.data).v ELSE seen

\* Arguments are checked before anything is sent.  A call that sends nothing
\* returns at once.
Call ==
    /\ conn = "ready" /\ class # "list" /\ op = NoOp /\ calls < MaxCalls[class]
    /\ \E c \in CallsOf[class] :
         CASE Refused(c) -> Return(f, c, FALSE) /\ UNCHANGED fields
           [] ~Refused(c) /\ StepsOf(c) = <<>> ->
                /\ Return(f, c, TRUE)
                /\ fields' = <<Net!set_protocol(f, c.protocol)>>
           [] OTHER ->
                /\ op' = [call |-> c, todo |-> StepsOf(c), awaits |-> 0]
                /\ synced' = (synced /\ ~Sets(c))
                /\ UNCHANGED <<ret, seen, fields>>
    /\ calls' = calls + 1
    /\ UNCHANGED <<class, exported, conn, server, c2s, s2c, seqnum, dev>>

\* What is written to a connection the server has closed is lost.
Send ==
    /\ op # NoOp /\ op.awaits = 0
    /\ LET s == SendOf(Head(op.todo)) IN
       /\ fields' = <<s.f>>
       /\ c2s' = IF server = "closed" THEN c2s
                 ELSE c2s \o write_urb_message([s.req EXCEPT !.seqnum = seqnum])
    /\ op' = [op EXCEPT !.awaits = seqnum]
    /\ seqnum' = NextSeqnum(seqnum)
    /\ UNCHANGED <<class, exported, conn, server, s2c, ret, calls, dev, synced, seen>>

Receive ==
    /\ op # NoOp /\ op.awaits # 0
    /\ LET r == read_urb_message(s2c)
           data == IF r.is = "ok" THEN ReplyData(r.msg) ELSE <<>>
           g == IF data = <<>> THEN <<>> ELSE ReceiveOf(Head(op.todo), data[1])
       IN  /\ r.is # "wait" \/ Eof(r)
           /\ s2c' = IF r.is = "ok" THEN r.rest ELSE <<>>
           /\ fields' = IF g = <<>> THEN fields ELSE g
           /\ IF g # <<>> /\ Len(op.todo) > 1
              THEN /\ op' = [op EXCEPT !.todo = Tail(@), !.awaits = 0]
                   /\ UNCHANGED <<ret, synced, seen>>
              ELSE Return(IF g = <<>> THEN f ELSE g[1], op.call, g # <<>>)
    /\ UNCHANGED <<class, exported, conn, server, c2s, seqnum, calls, dev>>

-----------------------------------------------------------------------------
(* The server performs a request.  A transfer is what rusb reports of it:  *)
(* its status, the length, and the data of an IN transfer.                 *)

TransferFailed(d) == [status |-> -5, n |-> 0, data |-> <<>>, dev |-> d]
Written(n, d) == [status |-> 0, n |-> n, data |-> <<>>, dev |-> d]
ReadBack(data, d) == [status |-> 0, n |-> Len(data), data |-> data, dev |-> d]

\* The device's own behaviour (external).
Configured(setup, data) ==
    CASE class = "hid" -> [dev EXCEPT !.settings = Hid!Configure(@, setup, data)]
      [] class = "serial" -> [dev EXCEPT !.settings = Serial!Configure(@, setup, data)]
      [] class = "net" -> [dev EXCEPT !.settings = Net!Configure(@, setup, data)]
      [] class = "audio" -> [dev EXCEPT !.settings = Audio!Configure(@, setup, data)]
      [] OTHER -> dev
Described(setup) ==
    CASE class = "hid" -> Hid!Describe(dev.settings, setup)
      [] class = "audio" -> Audio!Describe(dev.settings, setup)
      [] OTHER -> Items(<<1, 1>>)

\* n more input items, as the device sends them.
Input(n) ==
    LET items == Items([i \in 1..n |-> dev.next + i])
    IN  IF class = "net" THEN Net!Block(dev.settings, items) ELSE items

\* The direction is that of the setup packet and the length its wLength,
\* whatever the header says.
execute_control_transfer(setup, data) ==
    IF setup.type >= 128
    THEN {TransferFailed(dev), ReadBack(<<>>, dev),
          ReadBack(SubSeq(Described(setup), 1, setup.length), dev)}
    ELSE {TransferFailed(dev), TransferFailed(Configured(setup, data)),
          Written(Len(data), Configured(setup, data))}

\* A packet longer than the buffer fails the transfer, and other errors may;
\* what the device has sent is lost then.
ReadBulk(length) ==
    IF class = "mass"
    THEN {IF "failed" \in DOMAIN o THEN TransferFailed(o.dev) ELSE ReadBack(o.data, o.dev) :
            o \in Mass!DiskIn(dev, length)}
    ELSE LET offers == {n \in 1..2 : dev.next + n <= MaxItems} IN
         {ReadBack(Input(n), [dev EXCEPT !.next = @ + n]) :
            n \in {k \in offers : Len(Input(k)) <= length}}
         \union {TransferFailed([dev EXCEPT !.next = @ + n,
                                            !.lost = @ \union (dev.next + 1..dev.next + n)]) :
                   n \in offers}

\* A transfer that times out half way reports what was written.
WriteBulk(data) ==
    IF class = "mass"
    THEN UNION {{Written(n, o.dev) : o \in Mass!DiskOut(dev, SubSeq(data, 1, n))} :
                  n \in (IF data = <<>> THEN {0} ELSE 1..Len(data))}
    ELSE {Written(n, [dev EXCEPT !.got = SubSeq(data, 1, n)]) : n \in 0..Len(data)}

execute_bulk_transfer(direction, data, length) ==
    {TransferFailed(dev)} \union (IF direction = DirIn THEN ReadBulk(length) ELSE WriteBulk(data))

\* Mutated form of RetSubmit: the header is a fresh one.
RetSubmit_NoSeqnum(m, t, buffer) ==
    [command |-> "RetSubmit", seqnum |-> 0, direction |-> m.direction, ep |-> m.ep,
     status |-> t.status, length |-> t.n, number_of_packets |-> NON_ISO,
     transfer_buffer |-> buffer, iso_packet_descriptors |-> <<>>]

RetSubmit(m, t, buffer) ==
    [command |-> "RetSubmit", seqnum |-> m.seqnum, direction |-> m.direction, ep |-> m.ep,
     status |-> t.status, length |-> t.n, number_of_packets |-> NON_ISO,
     transfer_buffer |-> buffer, iso_packet_descriptors |-> <<>>]

\* Mutated form of handle_submit: the data goes along whatever the direction of the header.
handle_submit_Always(m) ==
    {[msg |-> RetSubmit(m, t, t.data), dev |-> t.dev] :
       t \in IF m.ep = 0 THEN execute_control_transfer(m.setup, m.transfer_buffer)
             ELSE execute_bulk_transfer(m.direction, m.transfer_buffer, m.length)}

\* The reply carries data only when the header of the request says IN.
handle_submit(m) ==
    {[msg |-> RetSubmit(m, t, IF m.direction = DirIn THEN t.data ELSE <<>>), dev |-> t.dev] :
       t \in IF m.ep = 0 THEN execute_control_transfer(m.setup, m.transfer_buffer)
             ELSE execute_bulk_transfer(m.direction, m.transfer_buffer, m.length)}

handle_unlink(m) ==
    {[msg |-> [command |-> "RetUnlink", seqnum |-> m.seqnum, direction |-> 0, ep |-> 0,
               status |-> 0], dev |-> dev]}

\* A message that cannot be read ends the session.
session ==
    /\ server = "session"
    /\ LET r == read_urb_message(c2s) IN
       \/ /\ r.is = "err"
          /\ server' = "closed" /\ c2s' = <<>>
          /\ UNCHANGED <<s2c, dev>>
       \/ /\ r.is = "ok"
          /\ \E a \in IF r.msg.command = "CmdUnlink" THEN handle_unlink(r.msg)
                      ELSE handle_submit(r.msg) :
               /\ s2c' = s2c \o write_urb_message(a.msg)
               /\ dev' = a.dev
          /\ c2s' = r.rest
          /\ UNCHANGED server
    /\ UNCHANGED <<class, exported, clientVars>>

\* The connection is cut; a part of what the server has sent still arrives.
Disconnect ==
    /\ server # "closed" /\ conn # "new"
    /\ server' = "closed" /\ c2s' = <<>>
    /\ \E n \in 0..Len(s2c) : s2c' = SubSeq(s2c, 1, n)
    /\ UNCHANGED <<class, exported, dev, clientVars>>

Next == \/ connect \/ handle_connection \/ first_message_timeout \/ connected
        \/ Call \/ Send \/ Receive \/ session \/ Disconnect

Spec == Init /\ [][Next]_vars

-----------------------------------------------------------------------------
(* Properties. *)

\* Between two calls both directions are empty: what write_urb_message wrote,
\* read_urb_message took to the last word, whatever mixture of header
\* direction, setup direction, lengths and packets the request had, and also
\* after calls that failed half way.
StreamsQuiet ==
    conn = "ready" /\ op = NoOp /\ server = "session" => c2s = <<>> /\ s2c = <<>>

\* The reply a client takes answers the request it sent last, although
\* read_ret_submit never looks at the sequence number.
AnswersOwnUrb ==
    op.awaits # 0 /\ read_urb_message(s2c).is = "ok" =>
        read_urb_message(s2c).msg.seqnum = op.awaits

\* The decoders of urb.rs accept exactly what the reader of codec.rs accepts,
\* and read the same message, on every stream, whole or cut.
DecodersAgree == \A s \in {c2s, s2c} : DecodersAgreeOn(s)

\* After a call that sets something (initialize, set_line_coding,
\* set_sample_rate) has returned Ok, and until the next one starts, the
\* client believes what the device has: the line coding, the rate as far as
\* three bytes carry it, the report descriptor and protocol, the packet
\* filter, the size of the disk unless the answer about it was short.
SettingsAgree ==
    synced /\ op = NoOp =>
        CASE class = "mass" -> Mass!Agrees(f, dev)
          [] class = "hid" -> Hid!Agrees(f, dev.settings)
          [] class = "serial" -> Serial!Agrees(f, dev.settings)
          [] class = "net" -> Net!Agrees(f, dev.settings)
          [] class = "audio" -> Audio!Agrees(f, dev.settings)
          [] OTHER -> TRUE

\* What read_blocks returns with Ok are the first words of the blocks from lba
\* on, and no more than were asked for, also when an earlier command broke off
\* and left its data and its status behind in the device, and when the count or
\* the length is cut to its field.  An lba that 32 bits do not hold is taken
\* modulo 2^32.  A read beyond the end whose lba and count fit their fields
\* returns nothing.
ReadIsRequested ==
    class = "mass" /\ op = NoOp /\ ret.ok /\ ret.call.op = "read_blocks" =>
        LET blocks == Mass!LastLba(dev) + 1
            lba == ret.call.lba % LbaModulus
        IN  /\ ret.data # <<>> =>
                 /\ lba < blocks
                 /\ IsPrefix(ret.data, Mass!Contents(dev, lba, blocks - lba))
            /\ Len(ret.data) <= ret.call.count * Mass!DiskSize(dev)
            /\ ret.call.lba < LbaModulus /\ ret.call.count < CountModulus
               /\ ret.call.lba + ret.call.count > blocks => ret.data = <<>>

Increasing(s) == \A i \in 1..Len(s) - 1 : s[i].v < s[i + 1].v

\* Input is handed out in the order the device produced it and never twice;
\* of HID reports and serial characters only those are left out that the
\* server lost in a transfer it reported as failed.
InputInOrder ==
    ret.ok /\ ret.call.op = "read" /\ ret.data # <<>> /\ op = NoOp
    /\ (class = "net" => f.protocol = dev.settings.mode) =>
        /\ ret.seen < Head(ret.data).v
        /\ Increasing(ret.data)
        /\ class \in {"hid", "serial"} =>
             \A v \in ret.seen + 1..Last(ret.data).v :
                 v \in dev.lost \/ \E i \in 1..Len(ret.data) : ret.data[i].v = v

\* A frame that was written whole is the frame the device finds where the
\* headers of the transfer block point, provided their 16-bit lengths hold it:
\* write_frame checks no size.
FrameReachesDevice ==
    /\ class = "net" /\ op = NoOp /\ ret.ok /\ ret.call.op = "write"
    /\ f.protocol = dev.settings.mode
    /\ f.protocol = "Ncm" => Net!Fits(ret.call.data)
    /\ Len(dev.got) = Len(ret.call.data) + (IF f.protocol = "Ncm" THEN 2 ELSE 0)
    => Net!FrameOf(dev.settings, dev.got) = ret.call.data

\* The packets of an isochronous request follow each other without gap from
\* the start of the buffer, and cover it as far as MaxPackets packets reach.
IsoTiles ==
    LET r == read_urb_message(c2s) IN
    class = "audio" /\ server = "session" /\ r.is = "ok" /\ r.msg.command = "CmdSubmit"
    /\ is_iso_transfer(r.msg.number_of_packets) =>
        LET d == r.msg.iso_packet_descriptors
            end(i) == d[i].offset + d[i].length
        IN  /\ \A i \in 1..Len(d) : d[i].offset = IF i = 1 THEN 0 ELSE end(i - 1)
            /\ d = <<>> => r.msg.length = 0
            /\ d # <<>> => end(Len(d)) = Audio!MinOf(r.msg.length, MaxPackets * MaxPacketSize)

\* The list a client shows is the list the server has, interfaces included;
\* a list that is too long is refused as a whole.
ListIsExported ==
    class = "list" /\ conn = "ready" =>
        /\ f.devices = exported
        /\ Len(exported) <= MAX_DEVICES_IN_DEVLIST

\* Client and server never wait for each other: while a call waits for its
\* answer, or a client for the reply to its first message, one of the two has
\* a message it can read, or the connection is closed and the wait ends.  The
\* calls return, since a message is read once and a call has finitely many.
NoMutualWait ==
    /\ op.awaits # 0 => \/ read_urb_message(s2c).is # "wait"
                        \/ server = "closed"
                        \/ server = "session" /\ read_urb_message(c2s).is # "wait"
    /\ conn = "connecting" => \/ read_op_message(s2c).is # "wait"
                              \/ server = "closed"
                              \/ server = "accepted" /\ read_op_message(c2s).is # "wait"
=============================================================================
