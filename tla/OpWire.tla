------------------------------- MODULE OpWire -------------------------------
(***************************************************************************)
(* The discovery messages of USB/IP (discovery.rs, device.rs and           *)
(* read_op_message of codec.rs): the device list and the import, as words. *)
(***************************************************************************)
EXTENDS UrbWire

OpCodes == {"ReqDevlist", "RepDevlist", "ReqImport", "RepImport"}

Prefix(op) == [w |-> "prefix", op |-> op]

UsbDevice_encode(d) == [w |-> "device", busid |-> d.busid, num_interfaces |-> d.num_interfaces]

UsbInterface_encode(class) == [w |-> "interface", class |-> class]

\* The interfaces written are those of the vector, whatever the count says.
encode_device_with_interfaces(d) ==
    <<UsbDevice_encode(d)>>
    \o [i \in 1..Len(d.interfaces) |-> UsbInterface_encode(d.interfaces[i])]

OpReqDevlist_encode == <<Prefix("ReqDevlist"), [w |-> "status", status |-> 0]>>

OpRepDevlist_encode(m) ==
    LET words[k \in Nat] ==
            IF k = 0 THEN <<>> ELSE words[k - 1] \o encode_device_with_interfaces(m.devices[k])
    IN  <<Prefix("RepDevlist"),
          [w |-> "status", status |-> m.status, num_devices |-> Len(m.devices)]>>
        \o words[Len(m.devices)]

OpReqImport_encode(m) ==
    <<Prefix("ReqImport"), [w |-> "status", status |-> 0, busid |-> m.busid]>>

\* The device is written when there is one, and read when the status is 0.
OpRepImport_encode(m) ==
    <<Prefix("RepImport"), [w |-> "status", status |-> m.status]>>
    \o [i \in 1..Len(m.device) |-> UsbDevice_encode(m.device[i])]

write_op_message(m) ==
    CASE m.op = "ReqDevlist" -> OpReqDevlist_encode
      [] m.op = "RepDevlist" -> OpRepDevlist_encode(m)
      [] m.op = "ReqImport" -> OpReqImport_encode(m)
      [] m.op = "RepImport" -> OpRepImport_encode(m)

-----------------------------------------------------------------------------
UsbDevice_decode(s, i) ==
    [busid |-> s[i].busid, num_interfaces |-> s[i].num_interfaces, interfaces |-> <<>>]

UsbInterface_decode(s, i) == s[i].class

\* Mutated form of decode_device_with_interfaces: the interfaces are skipped.
decode_device_with_interfaces_Skip(s, i) == UsbDevice_decode(s, i)

\* The interfaces read are as many as the device just read counts.
decode_device_with_interfaces(s, i) ==
    [UsbDevice_decode(s, i) EXCEPT
        !.interfaces = [j \in 1..s[i].num_interfaces |-> UsbInterface_decode(s, i + j)]]

\* Where the device after the k-th starts; beyond the end when words are missing.
DeviceEnd(s) ==
    LET end[k \in Nat] ==
            IF k = 0 THEN 3
            ELSE IF end[k - 1] > Len(s) THEN Len(s) + 2
            ELSE end[k - 1] + 1 + s[end[k - 1]].num_interfaces
    IN  end

OpRepDevlist_decode(s, short) ==
    LET n == s[2].num_devices
        end == DeviceEnd(s)
    IN  IF n > MAX_DEVICES_IN_DEVLIST THEN Err
        ELSE IF end[n] > Len(s) + 1 THEN short
        ELSE Ok([op |-> "RepDevlist", status |-> s[2].status,
                 devices |-> [k \in 1..n |-> decode_device_with_interfaces(s, end[k - 1])]],
                end[n] - 1, s)

OpReqImport_decode(s) == Ok([op |-> "ReqImport", busid |-> s[2].busid], 2, s)

OpRepImport_decode(s, short) ==
    IF s[2].status # 0
    THEN Ok([op |-> "RepImport", status |-> s[2].status, device |-> <<>>], 2, s)
    ELSE IF Len(s) < 3 THEN short
    ELSE Ok([op |-> "RepImport", status |-> 0, device |-> <<UsbDevice_decode(s, 3)>>], 3, s)

read_op_message(s) ==
    IF Len(s) = 0 THEN Wait
    ELSE IF s[1].w # "prefix" \/ s[1].op \notin OpCodes THEN Err
    ELSE IF Len(s) = 1 THEN Wait
    ELSE CASE s[1].op = "ReqDevlist" -> Ok([op |-> "ReqDevlist"], 2, s)
           [] s[1].op = "RepDevlist" -> OpRepDevlist_decode(s, Wait)
           [] s[1].op = "ReqImport" -> OpReqImport_decode(s)
           [] s[1].op = "RepImport" -> OpRepImport_decode(s, Wait)

\* What every client asks of the answer to its import request.
ImportAccepted(reply) == reply.op = "RepImport" /\ reply.status = 0 /\ reply.device # <<>>
=============================================================================
