----------------------------- MODULE HidClient -----------------------------
(***************************************************************************)
(* HidDevice (hid.rs): a report descriptor and two settings over the       *)
(* control endpoint, reports over the interrupt endpoints.                 *)
(***************************************************************************)
EXTENDS OpWire

CONSTANTS SeqModulus, ReportLength   \* 64

next_seqnum(n) == WrapToOne(n, SeqModulus)

connect(reply) ==
    IF ImportAccepted(reply)
    THEN <<[ep_out |-> 2, interface_number |-> 0, report_descriptor |-> <<>>, data |-> <<>>]>>
    ELSE <<>>

control_transfer_in(setup, length) == CmdSubmit(DirIn, 0, length, NON_ISO, setup, <<>>, <<>>)

control_transfer_out(setup, data) ==
    CmdSubmit(DirOut, 0, Len(data), NON_ISO, setup, data, <<>>)

receive_interrupt_in(length) == CmdSubmit(DirIn, 1, length, NON_ISO, NoSetup, <<>>, <<>>)

send_interrupt_out(ep_out, payload) ==
    CmdSubmit(DirOut, ep_out, Len(payload), NON_ISO, NoSetup, payload, <<>>)

\* bmRequestType: 129 = 0x81 is device to host, 33 = 0x21 host to device.
build_get_report_descriptor_setup(interface, length) == Setup(129, 6, 8704, interface, length)
build_set_idle_setup(interface, duration, report_id) ==
    Setup(33, 10, duration * 256 + report_id, interface, 0)
build_set_protocol_setup(interface, protocol) == Setup(33, 11, protocol, interface, 0)
build_set_report_setup(interface, length) == Setup(33, 9, 512, interface, length)

Step(req, then) == [req |-> req, then |-> then]

get_report_descriptor(f) ==
    Step(control_transfer_in(build_get_report_descriptor_setup(f.interface_number, 1), 1),
         "report_descriptor")

set_idle(f, duration, report_id) ==
    Step(control_transfer_out(build_set_idle_setup(f.interface_number, duration, report_id), <<>>),
         "")

set_protocol(f, protocol) ==
    Step(control_transfer_out(build_set_protocol_setup(f.interface_number, protocol), <<>>), "")

set_report(f, report) ==
    Step(control_transfer_out(build_set_report_setup(f.interface_number, Len(report)), report), "")

initialize(f) == <<get_report_descriptor(f), set_idle(f, 0, 0), set_protocol(f, 1)>>

read_report(f) == <<Step(receive_interrupt_in(ReportLength), "data")>>

write_report(f, report) ==
    IF f.ep_out # 0 THEN <<Step(send_interrupt_out(f.ep_out, report), "")>>
                    ELSE <<set_report(f, report)>>

Refused(f, c) == FALSE

Steps(f, c) ==
    CASE c.op = "initialize" -> initialize(f)
      [] c.op = "read" -> read_report(f)
      [] c.op = "write" -> write_report(f, c.data)

Send(f, step) == [f |-> f, req |-> step.req]

read_ret_submit(m) ==
    IF m.command = "RetSubmit" /\ m.status = 0 THEN <<m.transfer_buffer>> ELSE <<>>

Receive(f, step, data) ==
    CASE step.then = "report_descriptor" -> <<[f EXCEPT !.report_descriptor = data]>>
      [] step.then = "data" -> <<[f EXCEPT !.data = data]>>
      [] OTHER -> <<f>>

Result(f, c) ==
    IF c.op = "read" THEN [n |-> Len(f.data), data |-> f.data]
                     ELSE [n |-> 0, data |-> <<>>]

\* The device (external): the settings its requests make.
Configure(settings, setup, data) ==
    CASE setup.request = 10 -> [settings EXCEPT !.idle = setup.value \div 256]
      [] setup.request = 11 -> [settings EXCEPT !.protocol = setup.value]
      [] OTHER -> settings
Describe(settings, setup) == Items(<<settings.descriptor>>)
Factory == [descriptor |-> 5, idle |-> 1, protocol |-> 0]

\* The client's view is the device's.
Agrees(f, settings) ==
    /\ f.report_descriptor \in {<<>>, Items(<<settings.descriptor>>)}
    /\ settings.idle = 0 /\ settings.protocol = 1
=============================================================================
