------------------------- MODULE MassStorageClient -------------------------
(***************************************************************************)
(* MassStorageDevice (mass_storage.rs): SCSI commands over bulk-only       *)
(* transport.  A call is a script of steps; each step sends one CmdSubmit  *)
(* and waits for its answer.  The CBW and the CSW are one word each, and   *)
(* a block is as many words as the device says.                            *)
(***************************************************************************)
EXTENDS OpWire, FiniteSets, SequencesExt

CONSTANTS SeqModulus,     \* 2^32, the range of next_seqnum
          TagModulus,     \* 2^32, the range of next_tag
          LbaModulus,     \* 2^32: lba as u32
          CountModulus,   \* 2^16: count as u16
          LengthModulus   \* 2^32: expected_len as u32

CBW_SIZE == 1
CSW_SIZE == 1

next_seqnum(n) == WrapToOne(n, SeqModulus)
next_tag(n) == WrapToOne(n, TagModulus)

\* tag and data are the locals of scsi_command.
connect(reply) ==
    IF ImportAccepted(reply)
    THEN <<[next_tag |-> 1, tag |-> 0, data |-> <<>>,
            block_size |-> 0, total_blocks |-> 0, vendor |-> <<>>]>>
    ELSE <<>>

-----------------------------------------------------------------------------
(* Wrappers. *)

encode_cdb(cmd) == cmd   \* operation code, lba, blocks

cdb_length(cmd) == IF cmd.op \in {"ReadCapacity10", "Read10", "Write10"} THEN 10 ELSE 6

Cbw_to_bytes(cbw) == <<[w |-> "item", k |-> "cbw"] @@ cbw>>

\* An option: the wrapper with the right signature, or nothing.
Cbw_from_bytes(buf) == IF Len(buf) = CBW_SIZE /\ buf[1].k = "cbw" THEN <<buf[1]>> ELSE <<>>

Csw_to_bytes(tag, residue, status) ==
    <<[w |-> "item", k |-> "csw", tag |-> tag, residue |-> residue, status |-> status]>>

Csw_from_bytes(buf) == IF buf[1].k = "csw" THEN <<buf[1]>> ELSE <<>>

-----------------------------------------------------------------------------
(* Requests. *)

send_bulk_out(payload) ==
    CmdSubmit(DirOut, 2, Len(payload), NON_ISO, NoSetup, payload, <<>>)

receive_bulk_in(length) == CmdSubmit(DirIn, 1, length, NON_ISO, NoSetup, <<>>, <<>>)

send_cbw(tag, step) ==
    send_bulk_out(Cbw_to_bytes([tag |-> tag, length |-> step.data_len,
                                flags |-> step.direction,
                                cb_length |-> cdb_length(step.cmd), cb |-> encode_cdb(step.cmd)]))

\* CBW, the data phase there is, CSW.
scsi_command(cmd, data, response_len) ==
    LET out == Len(data) > 0
        data_len == IF out THEN Len(data[1]) ELSE response_len
    IN  <<[do |-> "cbw", cmd |-> cmd, data_len |-> data_len,
           direction |-> IF ~out /\ response_len > 0 THEN DirIn ELSE DirOut]>>
        \o (CASE out -> <<[do |-> "out", data |-> data[1]]>>
              [] ~out /\ response_len > 0 -> <<[do |-> "in", length |-> response_len]>>
              [] OTHER -> <<>>)
        \o <<[do |-> "csw", cmd |-> cmd]>>

Command(op, lba, blocks) == [op |-> op, lba |-> lba, blocks |-> blocks]

initialize ==
    scsi_command(Command("Inquiry", 0, 0), <<>>, 1)
    \o scsi_command(Command("ReadCapacity10", 0, 0), <<>>, 2)

expected_len(f, c) == c.count * f.block_size

\* Mutated form of read_blocks: blocks are counted from one.
read_blocks_FromOne(f, c) ==
    scsi_command(Command("Read10", (c.lba + 1) % LbaModulus, c.count % CountModulus),
                 <<>>, expected_len(f, c) % LengthModulus)

read_blocks(f, c) ==
    scsi_command(Command("Read10", c.lba % LbaModulus, c.count % CountModulus),
                 <<>>, expected_len(f, c) % LengthModulus)

write_blocks(f, c) ==
    scsi_command(Command("Write10", c.lba % LbaModulus, c.count % CountModulus),
                 <<SubSeq(c.data, 1, expected_len(f, c))>>, 0)

Refused(f, c) ==
    \/ c.op = "read_blocks" /\ c.buf < expected_len(f, c)
    \/ c.op = "write_blocks" /\ Len(c.data) < expected_len(f, c)

Steps(f, c) ==
    CASE c.op = "initialize" -> initialize
      [] c.op = "read_blocks" -> read_blocks(f, c)
      [] c.op = "write_blocks" -> write_blocks(f, c)

-----------------------------------------------------------------------------
(* The request of a step, and what its answer does. *)

Send(f, step) ==
    CASE step.do = "cbw" -> [f |-> [f EXCEPT !.next_tag = next_tag(@), !.tag = f.next_tag,
                                             !.data = <<>>],
                             req |-> send_cbw(f.next_tag, step)]
      [] step.do = "out" -> [f |-> f, req |-> send_bulk_out(step.data)]
      [] step.do = "in" -> [f |-> f, req |-> receive_bulk_in(step.length)]
      [] step.do = "csw" -> [f |-> f, req |-> receive_bulk_in(CSW_SIZE)]

read_ret_submit(m) ==
    IF m.command = "RetSubmit" /\ m.status = 0 THEN <<m.transfer_buffer>> ELSE <<>>

\* The status wrapper of this command, and the command passed.
receive_csw(f, data) ==
    /\ Len(data) >= CSW_SIZE
    /\ Csw_from_bytes(data) # <<>>
    /\ Csw_from_bytes(data)[1].tag = f.tag
    /\ Csw_from_bytes(data)[1].status = "Passed"

\* What initialize keeps of the answers to its two commands.
Learn(f, cmd) ==
    CASE cmd.op = "Inquiry" /\ Len(f.data) >= 1 -> [f EXCEPT !.vendor = f.data]
      [] cmd.op = "ReadCapacity10" /\ Len(f.data) >= 2 ->
            [f EXCEPT !.total_blocks = f.data[1].v + 1, !.block_size = f.data[2].v]
      [] OTHER -> f

Receive(f, step, data) ==
    CASE step.do = "in" -> <<[f EXCEPT !.data = data]>>
      [] step.do = "csw" -> IF receive_csw(f, data) THEN <<Learn(f, step.cmd)>> ELSE <<>>
      [] OTHER -> <<f>>

\* What the call returns: the bytes it reports, and those it hands out.
Result(f, c) ==
    CASE c.op = "read_blocks" -> [n |-> Len(f.data), data |-> f.data]
      [] c.op = "write_blocks" -> [n |-> expected_len(f, c), data |-> <<>>]
      [] OTHER -> [n |-> 0, data |-> <<>>]

-----------------------------------------------------------------------------
(* The disk (external): what a bulk-only transport device may do.  expect  *)
(* is the write command whose data it waits for; queue holds the packets   *)
(* it has ready for the host, oldest first.                                *)

Disk(geometry) ==
    [blocks |-> [i \in 0..geometry.last |-> [j \in 1..geometry.size |-> Item(i)]],
     expect |-> <<>>, queue |-> <<>>]

DiskSize(dev) == Len(dev.blocks[0])
LastLba(dev) == Cardinality(DOMAIN dev.blocks) - 1

Contents(dev, lba, n) ==
    FlattenSeq([i \in 1..n |-> dev.blocks[lba + i - 1]])

Status(cbw, passed) == Csw_to_bytes(cbw.tag, 0, IF passed THEN "Passed" ELSE "Failed")

InRange(dev, cb) == cb.lba + cb.blocks <= LastLba(dev) + 1

\* The packets with which the device may answer a command that sends data.  It
\* may send less than it was asked for and still report success.
Answers(dev, cbw) ==
    LET cb == cbw.cb
        data == CASE cb.op = "Inquiry" -> Items(<<7>>)
                  [] cb.op = "ReadCapacity10" -> Items(<<LastLba(dev), DiskSize(dev)>>)
                  [] cb.op = "Read10" /\ InRange(dev, cb) -> Contents(dev, cb.lba, cb.blocks)
                  [] OTHER -> <<>>
        good == /\ Len(data) <= cbw.length
                /\ cb.op \in {"Read10", "Write10"} => InRange(dev, cb)
                /\ cb.op = "Write10" => cb.blocks = 0
        most == IF Len(data) <= cbw.length THEN Len(data) ELSE cbw.length
    IN  {(IF cbw.length = 0 THEN <<>> ELSE <<SubSeq(data, 1, n)>>) \o <<Status(cbw, good)>> :
           n \in {most \div 2, most}}

\* The data phase of a write: whole blocks are stored.
Store(dev, data) ==
    LET cb == dev.expect[1].cb
        n == Len(data) \div DiskSize(dev)
    IN  [i \in DOMAIN dev.blocks |->
            IF InRange(dev, cb) /\ i \in cb.lba..cb.lba + n - 1
            THEN SubSeq(data, (i - cb.lba) * DiskSize(dev) + 1, (i - cb.lba + 1) * DiskSize(dev))
            ELSE dev.blocks[i]]

\* The outcomes of a bulk OUT that carries the words data.
DiskOut(dev, data) ==
    CASE dev.expect # <<>> ->
            {[data |-> <<>>, dev |-> [dev EXCEPT
                  !.blocks = Store(dev, data), !.expect = <<>>,
                  !.queue = Append(@, Status(dev.expect[1], InRange(dev, dev.expect[1].cb)))]]}
      [] dev.expect = <<>> /\ Cbw_from_bytes(data) = <<>> -> {}
      [] OTHER ->
            LET cbw == data[1] IN
            IF cbw.cb.op = "Write10" /\ cbw.length > 0
            THEN {[data |-> <<>>, dev |-> [dev EXCEPT !.expect = <<cbw>>]]}
            ELSE {[data |-> <<>>, dev |-> [dev EXCEPT !.queue = @ \o a]] : a \in Answers(dev, cbw)}

\* The outcomes of a bulk IN: a packet, or its beginning when the transfer
\* times out half way; a packet that is too long is lost.
DiskIn(dev, length) ==
    IF dev.queue = <<>> THEN {}
    ELSE LET p == Head(dev.queue)
             rest == Tail(dev.queue)
         IN  IF Len(p) > length
             THEN {[failed |-> TRUE, dev |-> [dev EXCEPT !.queue = rest]]}
             ELSE {[data |-> p, dev |-> [dev EXCEPT !.queue = rest]]}
                  \union {[data |-> SubSeq(p, 1, n),
                           dev |-> [dev EXCEPT !.queue = <<SubSeq(p, n + 1, Len(p))>> \o rest]] :
                             n \in 1..Len(p) - 1}

\* The client's view is the device's.  A short answer to READ CAPACITY leaves
\* the client with the size it knew, none at first.
Agrees(f, dev) ==
    \/ f.block_size = DiskSize(dev) /\ f.total_blocks = LastLba(dev) + 1
    \/ f.block_size = 0 /\ f.total_blocks = 0
=============================================================================
