---------------------------- MODULE SerialClient ----------------------------
(***************************************************************************)
(* SerialDevice (serial.rs): the line settings over the control endpoint,  *)
(* the characters over two bulk endpoints.                                 *)
(***************************************************************************)
EXTENDS OpWire, TLC

CONSTANTS SeqModulus

next_seqnum(n) == WrapToOne(n, SeqModulus)

\* The settings a fresh client believes in are its own, not the device's.
connect(reply) ==
    IF ImportAccepted(reply)
    THEN <<[baud_rate |-> 9600, data_bits |-> 8, stop_bits |-> 0, parity |-> 0, data |-> <<>>]>>
    ELSE <<>>

LineCoding(baud, stop, parity, bits) ==
    [baud_rate |-> baud, stop_bits |-> stop, parity |-> parity, data_bits |-> bits]

LineCoding_to_bytes(c) == Items(<<c.baud_rate, c.stop_bits, c.parity, c.data_bits>>)

LineCoding_from_bytes(buf) == LineCoding(buf[1].v, buf[2].v, buf[3].v, buf[4].v)

send_control_out(setup, data) == CmdSubmit(DirOut, 0, Len(data), NON_ISO, setup, data, <<>>)

send_bulk_out(payload) == CmdSubmit(DirOut, 2, Len(payload), NON_ISO, NoSetup, payload, <<>>)

receive_bulk_in(length) == CmdSubmit(DirIn, 2, length, NON_ISO, NoSetup, <<>>, <<>>)

\* bmRequestType 33 = 0x21, SET_LINE_CODING 32 = 0x20, SET_CONTROL_LINE_STATE 34 = 0x22.
build_set_line_coding_setup(interface) == Setup(33, 32, 0, interface, 4)

build_set_control_line_state_setup(interface, dtr, rts) ==
    Setup(33, 34, (IF dtr THEN 1 ELSE 0) + (IF rts THEN 2 ELSE 0), interface, 0)

Step(req, then, coding) == [req |-> req, then |-> then, coding |-> coding]
None == LineCoding(0, 0, 0, 0)

set_line_coding(coding) ==
    <<Step(send_control_out(build_set_line_coding_setup(0), LineCoding_to_bytes(coding)),
           "coding", coding)>>

set_control_line_state(dtr, rts) ==
    <<Step(send_control_out(build_set_control_line_state_setup(0, dtr, rts), <<>>), "", None)>>

initialize(baud_rate) ==
    set_line_coding(LineCoding(baud_rate, 0, 0, 8)) \o set_control_line_state(TRUE, TRUE)

read(length) == <<Step(receive_bulk_in(length), "data", None)>>

write(data) == <<Step(send_bulk_out(data), "", None)>>

Refused(f, c) == FALSE

Steps(f, c) ==
    CASE c.op = "initialize" -> initialize(c.baud_rate)
      [] c.op = "set_line_coding" -> set_line_coding(c.coding)
      [] c.op = "read" -> read(c.length)
      [] c.op = "write" -> write(c.data)

Send(f, step) == [f |-> f, req |-> step.req]

\* Mutated form of read_ret_submit: the status is not looked at.
read_ret_submit_AnyStatus(m) ==
    IF m.command = "RetSubmit" THEN <<m.transfer_buffer>> ELSE <<>>

read_ret_submit(m) ==
    IF m.command = "RetSubmit" /\ m.status = 0 THEN <<m.transfer_buffer>> ELSE <<>>

\* Mutated form of Receive: the characters are added to those of the last read.
Receive_Appended(f, step, data) ==
    CASE step.then = "coding" -> <<step.coding @@ f>>
      [] step.then = "data" -> <<[f EXCEPT !.data = @ \o data]>>
      [] OTHER -> <<f>>

\* The cached settings change only after the device has answered.
Receive(f, step, data) ==
    CASE step.then = "coding" -> <<step.coding @@ f>>
      [] step.then = "data" -> <<[f EXCEPT !.data = data]>>
      [] OTHER -> <<f>>

Result(f, c) ==
    CASE c.op = "read" -> [n |-> Len(f.data), data |-> f.data]
      [] c.op = "write" -> [n |-> Len(c.data), data |-> <<>>]
      [] OTHER -> [n |-> 0, data |-> <<>>]

\* The device (external).
Configure(settings, setup, data) ==
    CASE setup.request = 32 -> [settings EXCEPT !.coding = LineCoding_from_bytes(data)]
      [] setup.request = 34 -> [settings EXCEPT !.lines = setup.value]
      [] OTHER -> settings
Factory == [coding |-> LineCoding(1200, 1, 1, 7), lines |-> 0]

\* The client's view is the device's.
Agrees(f, settings) ==
    settings.coding = LineCoding(f.baud_rate, f.stop_bits, f.parity, f.data_bits)
=============================================================================
