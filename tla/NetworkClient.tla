--------------------------- MODULE NetworkClient ---------------------------
(***************************************************************************)
(* NetworkDevice (network.rs): Ethernet frames over two bulk endpoints,    *)
(* as they are (ECM) or wrapped in a transfer block with two headers       *)
(* (NCM), each of which is one word here.                                  *)
(***************************************************************************)
EXTENDS OpWire

CONSTANTS SeqModulus, MaxSegment,   \* max_segment_size
          NtbModulus                \* 2^16: the fields of the headers

NTH16_HEADER_SIZE == 1
NDP16_MIN_SIZE == 1

next_seqnum(n) == WrapToOne(n, SeqModulus)

connect(reply) ==
    IF ImportAccepted(reply)
    THEN <<[protocol |-> "Ecm", max_segment_size |-> MaxSegment, data |-> <<>>]>>
    ELSE <<>>

send_control_out(setup, data) == CmdSubmit(DirOut, 0, Len(data), NON_ISO, setup, data, <<>>)

send_bulk_out(payload) == CmdSubmit(DirOut, 2, Len(payload), NON_ISO, NoSetup, payload, <<>>)

receive_bulk_in(length) == CmdSubmit(DirIn, 1, length, NON_ISO, NoSetup, <<>>, <<>>)

build_set_packet_filter_setup(interface, filter) == Setup(33, 67, filter, interface, 0)

-----------------------------------------------------------------------------
Nth(block, ndp) == [w |-> "item", k |-> "nth", block |-> block, ndp |-> ndp]
Ndp(entries) == [w |-> "item", k |-> "ndp", entries |-> entries]

\* Mutated form of wrap_ncm_ntb: the datagram is said to start at the header of its entry.
wrap_ncm_ntb_Offset(frame) ==
    LET datagram_len == Len(frame) % NtbModulus
    IN  <<Nth((NTH16_HEADER_SIZE + NDP16_MIN_SIZE + datagram_len) % NtbModulus, NTH16_HEADER_SIZE),
          Ndp(<<[index |-> NTH16_HEADER_SIZE, length |-> datagram_len]>>)>> \o frame

\* The lengths are cut to 16 bits, the frame is not.
wrap_ncm_ntb(frame) ==
    LET datagram_offset == NTH16_HEADER_SIZE + NDP16_MIN_SIZE
        datagram_len == Len(frame) % NtbModulus
    IN  <<Nth((datagram_offset + datagram_len) % NtbModulus, NTH16_HEADER_SIZE),
          Ndp(<<[index |-> datagram_offset, length |-> datagram_len]>>)>> \o frame

\* An option: the first datagram, or nothing when the block is malformed.
unwrap_ncm_ntb(data) ==
    IF Len(data) < NTH16_HEADER_SIZE \/ data[1].k # "nth" THEN <<>>
    ELSE LET ndp == data[1].ndp IN
         IF ndp + NDP16_MIN_SIZE > Len(data) \/ data[ndp + 1].k # "ndp" THEN <<>>
         ELSE LET e == data[ndp + 1].entries[1] IN
              IF e.index = 0 \/ e.length = 0 \/ e.index + e.length > Len(data) THEN <<>>
              ELSE <<SubSeq(data, e.index + 1, e.index + e.length)>>

-----------------------------------------------------------------------------
Step(req, then) == [req |-> req, then |-> then]

set_packet_filter(filter) ==
    <<Step(send_control_out(build_set_packet_filter_setup(0, filter), <<>>), "")>>

initialize == set_packet_filter(19)   \* directed, broadcast, multicast

read_frame(f) ==
    <<Step(receive_bulk_in(f.max_segment_size + NTH16_HEADER_SIZE + NDP16_MIN_SIZE), "data")>>

write_frame(f, frame) ==
    <<Step(send_bulk_out(IF f.protocol = "Ecm" THEN frame ELSE wrap_ncm_ntb(frame)), "")>>

set_protocol(f, protocol) == [f EXCEPT !.protocol = protocol]

Refused(f, c) == FALSE

Steps(f, c) ==
    CASE c.op = "initialize" -> initialize
      [] c.op = "read" -> read_frame(f)
      [] c.op = "write" -> write_frame(f, c.data)
      [] c.op = "set_protocol" -> <<>>

Send(f, step) == [f |-> f, req |-> step.req]

read_ret_submit(m) ==
    IF m.command = "RetSubmit" /\ m.status = 0 THEN <<m.transfer_buffer>> ELSE <<>>

Receive(f, step, data) ==
    CASE step.then = "data" /\ f.protocol = "Ecm" -> <<[f EXCEPT !.data = data]>>
      [] step.then = "data" /\ f.protocol = "Ncm" ->
            LET frame == unwrap_ncm_ntb(data)
            IN  [i \in 1..Len(frame) |-> [f EXCEPT !.data = frame[i]]]
      [] OTHER -> <<f>>

Result(f, c) ==
    IF c.op = "read" THEN [n |-> Len(f.data), data |-> f.data]
                     ELSE [n |-> 0, data |-> <<>>]

\* The device (external).  It reads the frame where the headers say it is.
Configure(settings, setup, data) ==
    IF setup.request = 67 THEN [settings EXCEPT !.filter = setup.value] ELSE settings
Factory(mode) == [mode |-> mode, filter |-> 0]

FrameOf(settings, payload) ==
    IF settings.mode = "Ecm" THEN payload
    ELSE IF Len(payload) < 2 \/ payload[1].k # "nth" \/ payload[1].block # Len(payload) THEN <<>>
    ELSE LET e == payload[payload[1].ndp + 1].entries[1]
         IN  SubSeq(payload, e.index + 1, e.index + e.length)

\* The frame and the headers fit the lengths of the headers.
Fits(frame) == NTH16_HEADER_SIZE + NDP16_MIN_SIZE + Len(frame) < NtbModulus

\* A block of one or two frames of one word each.
Block(settings, items) ==
    IF settings.mode = "Ecm" THEN items
    ELSE <<Nth(2 + Len(items), 1),
           Ndp([i \in 1..Len(items) |-> [index |-> 1 + i, length |-> 1]])>> \o items

\* The client's view is the device's.
Agrees(f, settings) == settings.filter = 19
=============================================================================
