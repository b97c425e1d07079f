------------------------------ MODULE UrbWire ------------------------------
(***************************************************************************)
(* The USB/IP wire format (extender-protocol).  One direction of a         *)
(* connection is a sequence of words.  A word stands for the bytes of a    *)
(* group of fields that is always written and read together: the 20-byte   *)
(* basic header, the 28 bytes of command fields, a packet descriptor, the  *)
(* prefix of a discovery message, a 312-byte device, an interface, or one  *)
(* item of a transfer buffer.  Lengths count words.  What is kept is who   *)
(* decides how many words follow, and from which field the reader finds it *)
(* out.                                                                    *)
(***************************************************************************)
EXTENDS Integers, Sequences

CONSTANTS MAX_TRANSFER_BUFFER_LENGTH, MAX_ISO_PACKETS, MAX_DEVICES_IN_DEVLIST

ASSUME WireAssumption ==
    {MAX_TRANSFER_BUFFER_LENGTH, MAX_ISO_PACKETS, MAX_DEVICES_IN_DEVLIST} \subseteq Nat \ {0}

DirOut == 0
DirIn == 1
NON_ISO == -1   \* 0xFFFFFFFF

Commands == {"CmdSubmit", "RetSubmit", "CmdUnlink", "RetUnlink"}

is_iso_transfer(number_of_packets) == number_of_packets # NON_ISO

\* An item of a transfer buffer; k tells the wrappers of the device classes apart.
Item(v) == [w |-> "item", k |-> "byte", v |-> v]
Items(s) == [i \in 1..Len(s) |-> Item(s[i])]

Setup(type, request, value, index, length) ==
    [type |-> type, request |-> request, value |-> value, index |-> index, length |-> length]
NoSetup == Setup(0, 0, 0, 0, 0)

\* The seqnum is filled in when the message is sent.
CmdSubmit(direction, ep, length, packets, setup, buffer, descriptors) ==
    [command |-> "CmdSubmit", seqnum |-> 0, direction |-> direction, ep |-> ep,
     length |-> length, number_of_packets |-> packets, setup |-> setup,
     transfer_buffer |-> buffer, iso_packet_descriptors |-> descriptors]

\* A 32-bit counter that skips 0 when it wraps.
WrapToOne(n, modulus) == IF n + 1 = modulus THEN 1 ELSE n + 1

-----------------------------------------------------------------------------
(* Encoding. *)

UsbipHeaderBasic(m) == [w |-> "header", command |-> m.command, seqnum |-> m.seqnum,
                        direction |-> m.direction, ep |-> m.ep]

IsoPackets(m) ==
    IF is_iso_transfer(m.number_of_packets) THEN m.iso_packet_descriptors ELSE <<>>

\* The buffer is written whenever there is one, whatever the direction says.
CmdSubmit_encode(m) ==
    <<UsbipHeaderBasic(m),
      [w |-> "fields", length |-> m.length, number_of_packets |-> m.number_of_packets,
       setup |-> m.setup]>> \o m.transfer_buffer \o IsoPackets(m)

RetSubmit_encode(m) ==
    <<UsbipHeaderBasic(m),
      [w |-> "fields", length |-> m.length, number_of_packets |-> m.number_of_packets,
       status |-> m.status]>> \o m.transfer_buffer \o IsoPackets(m)

CmdUnlink_encode(m) ==
    <<UsbipHeaderBasic(m), [w |-> "fields", unlink_seqnum |-> m.unlink_seqnum]>>

RetUnlink_encode(m) == <<UsbipHeaderBasic(m), [w |-> "fields", status |-> m.status]>>

write_urb_message(m) ==
    CASE m.command = "CmdSubmit" -> CmdSubmit_encode(m)
      [] m.command = "RetSubmit" -> RetSubmit_encode(m)
      [] m.command = "CmdUnlink" -> CmdUnlink_encode(m)
      [] m.command = "RetUnlink" -> RetUnlink_encode(m)

-----------------------------------------------------------------------------
(* Decoding.  The readers of codec.rs wait for words that are missing; the *)
(* decoders of urb.rs, given the same words, refuse them.                  *)

Wait == [is |-> "wait"]
Err == [is |-> "err"]
Ok(msg, n, s) == [is |-> "ok", msg |-> msg, rest |-> SubSeq(s, n + 1, Len(s))]

\* The words of the buffer: only in the direction that carries data.
BufferWords(s, dataDirection) == IF s[1].direction = dataDirection THEN s[2].length ELSE 0

Descriptors(s) == IF is_iso_transfer(s[2].number_of_packets) THEN s[2].number_of_packets ELSE 0

\* What a CmdSubmit or RetSubmit is read as, from b words of buffer and n descriptors.
SubmitMessage(s, b, n) ==
    LET buffer == SubSeq(s, 3, 2 + b)
        descriptors == SubSeq(s, 3 + b, 2 + b + n)
    IN  IF s[1].command = "CmdSubmit"
        THEN [command |-> "CmdSubmit", seqnum |-> s[1].seqnum, direction |-> s[1].direction,
              ep |-> s[1].ep, length |-> s[2].length,
              number_of_packets |-> s[2].number_of_packets, setup |-> s[2].setup,
              transfer_buffer |-> buffer, iso_packet_descriptors |-> descriptors]
        ELSE [command |-> "RetSubmit", seqnum |-> s[1].seqnum, direction |-> s[1].direction,
              ep |-> s[1].ep, length |-> s[2].length,
              number_of_packets |-> s[2].number_of_packets, status |-> s[2].status,
              transfer_buffer |-> buffer, iso_packet_descriptors |-> descriptors]

\* Fields, length check, buffer, packet count check, descriptors, in this order.
ReadSubmit(s, dataDirection, short) ==
    LET b == BufferWords(s, dataDirection)
        n == Descriptors(s)
    IN  IF s[2].length > MAX_TRANSFER_BUFFER_LENGTH THEN Err
        ELSE IF Len(s) < 2 + b THEN short
        ELSE IF n > MAX_ISO_PACKETS THEN Err
        ELSE IF Len(s) < 2 + b + n THEN short
        ELSE Ok(SubmitMessage(s, b, n), 2 + b + n, s)

ReadUnlink(s) ==
    Ok(IF s[1].command = "CmdUnlink"
       THEN [command |-> "CmdUnlink", seqnum |-> s[1].seqnum, direction |-> s[1].direction,
             ep |-> s[1].ep, unlink_seqnum |-> s[2].unlink_seqnum]
       ELSE [command |-> "RetUnlink", seqnum |-> s[1].seqnum, direction |-> s[1].direction,
             ep |-> s[1].ep, status |-> s[2].status], 2, s)

\* Words that are not a header where a header is due hold no valid command.
IsHeader(s) == s[1].w = "header" /\ s[1].command \in Commands

read_urb_message(s) ==
    IF Len(s) = 0 THEN Wait
    ELSE IF ~IsHeader(s) THEN Err
    ELSE IF Len(s) = 1 THEN Wait
    ELSE CASE s[1].command = "CmdSubmit" -> ReadSubmit(s, DirOut, Wait)
           [] s[1].command = "RetSubmit" -> ReadSubmit(s, DirIn, Wait)
           [] s[1].command \in {"CmdUnlink", "RetUnlink"} -> ReadUnlink(s)

IsMessage(s, command) == Len(s) >= 2 /\ s[1].w = "header" /\ s[1].command = command

\* Mutated form of CmdSubmit_decode: the direction of the data is that of a RetSubmit.
CmdSubmit_decode_In(s) ==
    IF IsMessage(s, "CmdSubmit") THEN ReadSubmit(s, DirIn, Err) ELSE Err

CmdSubmit_decode(s) == IF IsMessage(s, "CmdSubmit") THEN ReadSubmit(s, DirOut, Err) ELSE Err

RetSubmit_decode(s) == IF IsMessage(s, "RetSubmit") THEN ReadSubmit(s, DirIn, Err) ELSE Err

CmdUnlink_decode(s) == IF IsMessage(s, "CmdUnlink") THEN ReadUnlink(s) ELSE Err

RetUnlink_decode(s) == IF IsMessage(s, "RetUnlink") THEN ReadUnlink(s) ELSE Err

-----------------------------------------------------------------------------
\* The decoders of urb.rs accept of a stream exactly what the reader of
\* codec.rs accepts, and read the same message.
DecodersAgreeOn(s) ==
    LET r == read_urb_message(s)
        decoded == {CmdSubmit_decode(s), RetSubmit_decode(s),
                    CmdUnlink_decode(s), RetUnlink_decode(s)}
    IN  decoded \ {Err} = IF r.is = "ok" THEN {r} ELSE {}
=============================================================================
