---------------------------- MODULE AudioClient ----------------------------
(***************************************************************************)
(* AudioDevice (audio.rs): rate, volume and mute over the control          *)
(* endpoint, samples in isochronous transfers of at most MaxPackets        *)
(* packets.                                                                *)
(***************************************************************************)
EXTENDS OpWire

CONSTANTS SeqModulus,
          MaxPacketSize,   \* max_packet_size, 192
          MaxPackets,      \* 32
          ByteRange        \* 2^8: a rate is sent as three bytes

MinOf(a, b) == IF a < b THEN a ELSE b

next_seqnum(n) == WrapToOne(n, SeqModulus)

connect(reply) ==
    IF ImportAccepted(reply)
    THEN <<[ep_playback |-> 1, ep_capture |-> 2, sample_rate |-> 48,
            max_packet_size |-> MaxPacketSize, data |-> <<>>]>>
    ELSE <<>>

send_control_out(setup, data) == CmdSubmit(DirOut, 0, Len(data), NON_ISO, setup, data, <<>>)

send_control_in(setup, length) == CmdSubmit(DirIn, 0, length, NON_ISO, setup, <<>>, <<>>)

\* bmRequestType 34 = 0x22, 162 = 0xA2, 33 = 0x21; SET_CUR 1, GET_CUR 129.
sample_rate_set_cur_setup(ep) == Setup(34, 1, 256, ep, 3)
sample_rate_get_cur_setup(ep) == Setup(162, 129, 256, ep, 3)
\* The feature unit is in the high byte of wValue and the selector in wIndex.
volume_set_cur_setup(channel, unit) == Setup(33, 1, unit * 256 + channel, 2, 2)
mute_set_cur_setup(channel, unit) == Setup(33, 1, unit * 256 + channel, 1, 1)

encode_sample_rate(rate) ==
    Items(<<rate % ByteRange, (rate \div ByteRange) % ByteRange,
            (rate \div (ByteRange * ByteRange)) % ByteRange>>)

decode_sample_rate(data) ==
    data[1].v + data[2].v * ByteRange + data[3].v * ByteRange * ByteRange

\* The packets a transfer of n words has descriptors for.
num_packets(f, n) ==
    MinOf((n + f.max_packet_size - 1) \div f.max_packet_size, MaxPackets)

IsoPacketDescriptor(offset, length) == [w |-> "item", k |-> "iso", offset |-> offset,
                                        length |-> length]

Step(req, then, rate) == [req |-> req, then |-> then, rate |-> rate]

initialize == <<Step(send_control_in(Setup(128, 6, 256, 0, 1), 1), "", 0)>>

\* Mutated form of read_audio: one descriptor is missing.
read_audio_OneLess(f, n) ==
    LET np == num_packets(f, n)
    IN  <<Step(CmdSubmit(DirIn, f.ep_capture, np * f.max_packet_size, np, NoSetup, <<>>,
                         [i \in 1..np - 1 |-> IsoPacketDescriptor((i - 1) * f.max_packet_size,
                                                                  f.max_packet_size)]),
               "data", 0)>>

read_audio(f, n) ==
    LET np == num_packets(f, n)
    IN  <<Step(CmdSubmit(DirIn, f.ep_capture, np * f.max_packet_size, np, NoSetup, <<>>,
                         [i \in 1..np |-> IsoPacketDescriptor((i - 1) * f.max_packet_size,
                                                              f.max_packet_size)]),
               "data", 0)>>

\* Mutated form of write_audio: the last packet is a full one.
write_audio_Full(f, data) ==
    LET np == num_packets(f, Len(data))
    IN  <<Step(CmdSubmit(DirOut, f.ep_playback, Len(data), np, NoSetup, data,
                         [i \in 1..np |-> IsoPacketDescriptor((i - 1) * f.max_packet_size,
                                                              f.max_packet_size)]), "", 0)>>

\* All the data is sent, whatever the packets cover.
write_audio(f, data) ==
    LET np == num_packets(f, Len(data))
        offset(i) == (i - 1) * f.max_packet_size
    IN  <<Step(CmdSubmit(DirOut, f.ep_playback, Len(data), np, NoSetup, data,
                         [i \in 1..np |->
                             IsoPacketDescriptor(offset(i),
                                                 MinOf(Len(data) - offset(i), f.max_packet_size))]),
               "", 0)>>

set_sample_rate(f, rate) ==
    <<Step(send_control_out(sample_rate_set_cur_setup(f.ep_playback), encode_sample_rate(rate)),
           "sample_rate", rate)>>

get_sample_rates(f) ==
    <<Step(send_control_in(sample_rate_get_cur_setup(f.ep_playback), 3), "rates", 0)>>

set_volume(channel, volume) ==
    <<Step(send_control_out(volume_set_cur_setup(channel, 2), Items(<<volume, 0>>)), "", 0)>>

set_mute(channel, mute) ==
    <<Step(send_control_out(mute_set_cur_setup(channel, 2), Items(<<mute>>)), "", 0)>>

Refused(f, c) == FALSE   \* the endpoints and the packet size are fixed by connect

Steps(f, c) ==
    CASE c.op = "initialize" -> initialize
      [] c.op = "read" -> read_audio(f, c.length)
      [] c.op = "write" -> write_audio(f, c.data)
      [] c.op = "set_sample_rate" -> set_sample_rate(f, c.rate)
      [] c.op = "get_sample_rates" -> get_sample_rates(f)
      [] c.op = "set_volume" -> set_volume(c.channel, c.volume)
      [] c.op = "set_mute" -> set_mute(c.channel, c.mute)

Send(f, step) == [f |-> f, req |-> step.req]

read_ret_submit(m) ==
    IF m.command = "RetSubmit" /\ m.status = 0 THEN <<m.transfer_buffer>> ELSE <<>>

CommonRates == <<8, 16, 22, 44, 48, 96>>

Receive(f, step, data) ==
    CASE step.then = "sample_rate" -> <<[f EXCEPT !.sample_rate = step.rate]>>
      [] step.then \in {"data", "rates"} -> <<[f EXCEPT !.data = data]>>
      [] OTHER -> <<f>>

\* The device's rate first, then the common ones that differ from it.
rates(data) ==
    IF Len(data) >= 3
    THEN <<decode_sample_rate(data)>>
         \o SelectSeq(CommonRates, LAMBDA r : r # decode_sample_rate(data))
    ELSE CommonRates

Result(f, c) ==
    CASE c.op = "read" -> [n |-> MinOf(Len(f.data), c.length),
                           data |-> SubSeq(f.data, 1, MinOf(Len(f.data), c.length))]
      [] c.op = "write" -> [n |-> Len(c.data), data |-> <<>>]
      [] c.op = "get_sample_rates" -> [n |-> 0, data |-> Items(rates(f.data))]
      [] OTHER -> [n |-> 0, data |-> <<>>]

\* The device (external).
Configure(settings, setup, data) ==
    IF setup.type = 34 THEN [settings EXCEPT !.rate = decode_sample_rate(data)] ELSE settings
Describe(settings, setup) ==
    IF setup.type = 162 THEN encode_sample_rate(settings.rate) ELSE Items(<<1>>)
Factory == [rate |-> 1]

\* The client's view is the device's, as far as three bytes hold the rate: the
\* rate set_sample_rate keeps is not cut.
Agrees(f, settings) == settings.rate = f.sample_rate % (ByteRange * ByteRange * ByteRange)
=============================================================================
