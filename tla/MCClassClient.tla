--------------------------- MODULE MCClassClient ---------------------------
EXTENDS ClassClient

Id(bus, d, fits) == [bus |-> bus, dev |-> d, fits |-> fits]
Good == Id("digits", <<"digits", "digits">>, TRUE)

MCBusIds == {Good, Id("digits", <<"digits">>, TRUE), Id("digits", <<"digits", "empty">>, TRUE),
             Id("digits", <<"digits">>, FALSE)}

Device(id, interfaces) ==
    [busid |-> id, num_interfaces |-> Len(interfaces), interfaces |-> interfaces]

Lists ==
    {<<Device(Good, <<3, 8>>)>>,
     <<Device(Id("digits", <<"digits">>, TRUE), <<>>), Device(Good, <<3, 8>>)>>,
     <<Device(Good, <<3>>), Device(Good, <<8>>), Device(Good, <<>>)>>}
MCExportsOf == [c \in Classes |-> IF c = "list" THEN Lists ELSE {<<Device(Good, <<3, 8>>)>>}]

Call0(name) == [op |-> name]
Read(n) == [op |-> "read", length |-> n]
Write(s) == [op |-> "write", data |-> Items(s)]

MassCalls ==
    {Call0("initialize")}
    \union {[op |-> "read_blocks", lba |-> r[1], count |-> r[2], buf |-> r[3]] :
              r \in {<<0, 1, 2>>, <<0, 2, 4>>, <<1, 2, 4>>, <<4, 1, 2>>, <<0, 3, 4>>, <<0, 4, 8>>,
                     <<0, 9, 18>>}}
    \union [op : {"write_blocks"}, lba : {1}, count : {1}, data : {Items(<<1, 2>>)}]

\* Requests of a kernel client: either direction in the header, either in the
\* setup packet, with and without packets; and an unlink.
Kernel(direction, ep, type, length, packets) ==
    CmdSubmit(direction, ep, length, packets, Setup(type, 6, 0, 0, length),
              IF direction = DirOut THEN Items([i \in 1..length |-> 9]) ELSE <<>>,
              [i \in 1..IF packets > 0 THEN packets ELSE 0 |-> Audio!IsoPacketDescriptor(0, 1)])

KernelCalls ==
    {[op |-> "urb", req |-> Kernel(d, ep, type, n, p)] :
       d \in {DirOut, DirIn}, ep \in {0, 1}, type \in {33, 129}, n \in {2, 8}, p \in {NON_ISO, 2, 3}}
    \union {[op |-> "urb", req |-> [command |-> "CmdUnlink", seqnum |-> 0, direction |-> 0,
                                    ep |-> 0, unlink_seqnum |-> 1]]}

MCCallsOf ==
    [mass |-> MassCalls,
     hid |-> {Call0("initialize"), Call0("read"), Write(<<1>>)},
     serial |-> {[op |-> "initialize", baud_rate |-> 9600], Read(1), Read(2), Write(<<1, 2>>),
                 [op |-> "set_line_coding", coding |-> Serial!LineCoding(300, 2, 1, 7)]},
     net |-> {Call0("initialize"), Call0("read"), Write(<<1, 2>>), Write(<<1, 2, 3>>),
              Write(<<1, 2, 3, 4, 5>>)}
             \union [op : {"set_protocol"}, protocol : {"Ecm", "Ncm"}],
     audio |-> {Call0("initialize"), Call0("get_sample_rates"), Read(1), Read(3),
                Write(<<1, 2, 3>>), Write(<<1, 2, 3, 4, 5>>), Write(<<>>),
                [op |-> "set_sample_rate", rate |-> 6], [op |-> "set_sample_rate", rate |-> 9],
                [op |-> "set_volume", channel |-> 1, volume |-> 1],
                [op |-> "set_mute", channel |-> 1, mute |-> 1]},
     kernel |-> KernelCalls]

MCMaxCalls ==
    [mass |-> 3, hid |-> 4, serial |-> 3, net |-> 3, audio |-> 3, kernel |-> 2, list |-> 0]

MCGeometry == [last |-> 1, size |-> 2]
=============================================================================
