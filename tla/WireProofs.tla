----------------------------- MODULE WireProofs -----------------------------
(***************************************************************************)
(* Proofs about the messages, for any limits, any buffers and packet lists *)
(* and any values of the other fields: what is written is read back, and   *)
(* the reader of the stream stays at the start of a message.               *)
(***************************************************************************)
EXTENDS OpWire, SequenceTheorems, TLAPS

\* The messages whose buffers and descriptors are words of Word and whose
\* other fields are members of Value.
CmdSubmits(Word, Value) ==
    [command : {"CmdSubmit"}, seqnum : Value, direction : {DirOut, DirIn}, ep : Value,
     length : Nat, number_of_packets : Nat \union {NON_ISO}, setup : Value,
     transfer_buffer : Seq(Word), iso_packet_descriptors : Seq(Word)]
RetSubmits(Word, Value) ==
    [command : {"RetSubmit"}, seqnum : Value, direction : {DirOut, DirIn}, ep : Value,
     length : Nat, number_of_packets : Nat \union {NON_ISO}, status : Value,
     transfer_buffer : Seq(Word), iso_packet_descriptors : Seq(Word)]
Submits(Word, Value) == CmdSubmits(Word, Value) \union RetSubmits(Word, Value)

CmdUnlinks(Value) ==
    [command : {"CmdUnlink"}, seqnum : Value, direction : Value, ep : Value,
     unlink_seqnum : Value]
RetUnlinks(Value) ==
    [command : {"RetUnlink"}, seqnum : Value, direction : Value, ep : Value, status : Value]
Unlinks(Value) == CmdUnlinks(Value) \union RetUnlinks(Value)

\* The words of buffer and of descriptors that the header and the fields announce.
DataDirection(m) == IF m.command = "CmdSubmit" THEN DirOut ELSE DirIn
BufferDue(m) == IF m.direction = DataDirection(m) THEN m.length ELSE 0
PacketsDue(m) == IF is_iso_transfer(m.number_of_packets) THEN m.number_of_packets ELSE 0

WithinLimits(m) == m.length <= MAX_TRANSFER_BUFFER_LENGTH /\ PacketsDue(m) <= MAX_ISO_PACKETS

\* The message carries what it announces.
CountsMatch(m) ==
    Len(m.transfer_buffer) = BufferDue(m) /\ Len(IsoPackets(m)) = PacketsDue(m)

Fits(m) == m.command \in {"CmdSubmit", "RetSubmit"} => WithinLimits(m) /\ CountsMatch(m)

\* What is left of a message: the descriptors of a transfer that is not
\* isochronous are not written.
Carried(m) ==
    IF m.command \in {"CmdSubmit", "RetSubmit"}
    THEN [m EXCEPT !.iso_packet_descriptors = IsoPackets(m)] ELSE m

\* The second word of a submit.
Fields(m) ==
    IF m.command = "CmdSubmit"
    THEN [w |-> "fields", length |-> m.length, number_of_packets |-> m.number_of_packets,
          setup |-> m.setup]
    ELSE [w |-> "fields", length |-> m.length, number_of_packets |-> m.number_of_packets,
          status |-> m.status]

-----------------------------------------------------------------------------
\* The words of t are those of s after the first i.
Holds(s, i, t) == i + Len(t) <= Len(s) /\ \A j \in 1..Len(t) : s[i + j] = t[j]

\* The length of two sequences written one after the other.
LEMMA JoinedLength ==
    ASSUME NEW S, NEW a \in Seq(S), NEW b \in Seq(S)
    PROVE  a \o b \in Seq(S) /\ Len(a \o b) = Len(a) + Len(b) /\ Len(a) \in Nat /\ Len(b) \in Nat
  OBVIOUS

\* The second of two sequences follows the first.
LEMMA HoldsSecond ==
    ASSUME NEW S, NEW a \in Seq(S), NEW b \in Seq(S)
    PROVE  Holds(a \o b, Len(a), b)
  BY DEF Holds

\* What the first of two sequences holds, both hold.
LEMMA HoldsFirst ==
    ASSUME NEW S, NEW a \in Seq(S), NEW b \in Seq(S), NEW t \in Seq(S), NEW i \in Nat,
           Holds(a, i, t)
    PROVE  Holds(a \o b, i, t)
<1>1. Len(t) \in Nat /\ Len(a) \in Nat /\ Len(b) \in Nat
  OBVIOUS
<1>2. Len(a \o b) = Len(a) + Len(b) /\ \A k \in 1..Len(a) : (a \o b)[k] = a[k]
  OBVIOUS
<1>3. \A j \in 1..Len(t) : i + j \in 1..Len(a)
  BY <1>1 DEF Holds
<1> QED
  BY <1>1, <1>2, <1>3 DEF Holds

\* A sequence holds itself.
LEMMA HoldsAll ==
    ASSUME NEW S, NEW a \in Seq(S) PROVE Holds(a, 0, a)
  BY DEF Holds

\* What lies between two places of a sequence.
LEMMA Between ==
    ASSUME NEW S, NEW s \in Seq(S), NEW t \in Seq(S), NEW i \in Nat, Holds(s, i, t)
    PROVE  SubSeq(s, i + 1, i + Len(t)) = t
  BY DEF Holds

\* Where a header, a buffer, descriptors and what follows them are.
Parts(S, h, t, p, more) ==
    LET w == h \o t \o p
        s == w \o more
        b == Len(t)
        n == Len(p)
    IN  /\ b \in Nat /\ n \in Nat /\ Len(more) \in Nat
        /\ w \in Seq(S) /\ Len(w) = 2 + b + n
        /\ s \in Seq(S) /\ Len(s) = 2 + b + n + Len(more)
        /\ s[1] = h[1] /\ s[2] = h[2]
        /\ SubSeq(s, 3, 2 + b) = t
        /\ SubSeq(s, 3 + b, 2 + b + n) = p
        /\ SubSeq(s, 2 + b + n + 1, Len(s)) = more

\* Where the parts of a header, a buffer, descriptors and what follows them are.
LEMMA FourParts ==
    ASSUME NEW S, NEW h \in Seq(S), NEW t \in Seq(S), NEW p \in Seq(S), NEW more \in Seq(S),
           Len(h) = 2
    PROVE  Parts(S, h, t, p, more)
<1> DEFINE v == h \o t
           w == v \o p
           s == w \o more
<1>1. v \in Seq(S) /\ Len(v) = Len(h) + Len(t) /\ Len(h) \in Nat /\ Len(t) \in Nat
  BY JoinedLength, Zenon
<1>2. Holds(v, 0, h) /\ Holds(v, Len(h), t)
  BY HoldsAll, HoldsFirst, HoldsSecond, 0 \in Nat, Zenon
<1> HIDE DEF v
<1>3. w \in Seq(S) /\ Len(w) = Len(v) + Len(p) /\ Len(v) \in Nat /\ Len(p) \in Nat
  BY <1>1, JoinedLength, Zenon
<1>4. Holds(w, 0, h) /\ Holds(w, Len(h), t) /\ Holds(w, Len(v), p)
  BY <1>1, <1>2, HoldsFirst, HoldsSecond, 0 \in Nat, Zenon
<1> HIDE DEF w
<1>5. s \in Seq(S) /\ Len(s) = Len(w) + Len(more) /\ Len(w) \in Nat /\ Len(more) \in Nat
  BY <1>3, JoinedLength, Zenon
<1>6. /\ Holds(s, 0, h) /\ Holds(s, Len(h), t) /\ Holds(s, Len(v), p)
      /\ Holds(s, Len(w), more)
  BY <1>1, <1>3, <1>4, HoldsFirst, HoldsSecond, 0 \in Nat, Zenon
<1> HIDE DEF s
<1>7. /\ Len(v) = 2 + Len(t) /\ Len(w) = 2 + Len(t) + Len(p)
      /\ Len(s) = 2 + Len(t) + Len(p) + Len(more)
  BY <1>1, <1>3, <1>5
<1>8. s[1] = h[1] /\ s[2] = h[2]
  BY <1>6 DEF Holds
<1>9. /\ SubSeq(s, Len(h) + 1, Len(h) + Len(t)) = t
      /\ SubSeq(s, Len(v) + 1, Len(v) + Len(p)) = p
      /\ SubSeq(s, Len(w) + 1, Len(w) + Len(more)) = more
  BY <1>1, <1>3, <1>5, <1>6, Between, Zenon
<1>10. /\ Len(h) + 1 = 3 /\ Len(h) + Len(t) = 2 + Len(t)
       /\ Len(v) + 1 = 3 + Len(t) /\ Len(v) + Len(p) = 2 + Len(t) + Len(p)
       /\ Len(w) + 1 = 2 + Len(t) + Len(p) + 1
  BY <1>1, <1>3, <1>5, <1>7
<1> QED
  BY <1>1, <1>3, <1>5, <1>7, <1>8, <1>9, <1>10, Zenon DEF v, w, s, Parts

\* Where two words and what follows them are.
Pair(S, h, more) ==
    LET s == h \o more
    IN  /\ Len(more) \in Nat /\ s \in Seq(S) /\ Len(s) = 2 + Len(more)
        /\ s[1] = h[1] /\ s[2] = h[2]
        /\ SubSeq(s, 3, Len(s)) = more

\* Two words and what follows them are where they were written.
LEMMA TwoParts ==
    ASSUME NEW S, NEW h \in Seq(S), NEW more \in Seq(S), Len(h) = 2
    PROVE  Pair(S, h, more)
<1> DEFINE s == h \o more
<1>1. s \in Seq(S) /\ Len(s) = Len(h) + Len(more) /\ Len(h) \in Nat /\ Len(more) \in Nat
  BY JoinedLength, Zenon
<1>2. Holds(s, 0, h) /\ Holds(s, Len(h), more)
  BY HoldsAll, HoldsFirst, HoldsSecond, 0 \in Nat, Zenon
<1> HIDE DEF s
<1>3. SubSeq(s, Len(h) + 1, Len(h) + Len(more)) = more
  BY <1>1, <1>2, Between, Zenon
<1>4. Len(h) + 1 = 3 /\ Len(s) = 2 + Len(more)
  BY <1>1
<1>5. s[1] = h[1] /\ s[2] = h[2]
  BY <1>2 DEF Holds
<1> QED
  BY <1>1, <1>3, <1>4, <1>5, Zenon DEF s, Pair

\* What is written of a submit: the header, the fields, the buffer, the packets.
LEMMA SubmitWords ==
    ASSUME NEW Word, NEW Value, NEW m \in Submits(Word, Value), NEW more \in Seq(Word)
    PROVE  LET h == <<UsbipHeaderBasic(m), Fields(m)>> IN
           /\ write_urb_message(m) = h \o m.transfer_buffer \o IsoPackets(m)
           /\ h[1] = UsbipHeaderBasic(m) /\ h[2] = Fields(m)
           /\ Parts(Word \union {UsbipHeaderBasic(m), Fields(m)},
                    h, m.transfer_buffer, IsoPackets(m), more)
<1> DEFINE All == Word \union {UsbipHeaderBasic(m), Fields(m)}
           h == <<UsbipHeaderBasic(m), Fields(m)>>
           t == m.transfer_buffer
           p == IsoPackets(m)
<1>1. write_urb_message(m) = h \o t \o p
  BY DEF write_urb_message, Submits, CmdSubmits, RetSubmits, CmdSubmit_encode, RetSubmit_encode,
         Fields
<1>2. /\ h \in Seq(All) /\ Len(h) = 2 /\ h[1] = UsbipHeaderBasic(m) /\ h[2] = Fields(m)
      /\ t \in Seq(All) /\ p \in Seq(All) /\ more \in Seq(All)
  BY DEF Submits, CmdSubmits, RetSubmits, IsoPackets
<1>3. ASSUME NEW hh, hh = h PROVE Parts(All, hh, t, p, more)
  <2> HIDE DEF h, t, p, All
  <2> QED  BY <1>2, <1>3, FourParts, Zenon
<1> QED
  BY <1>1, <1>2, <1>3, Zenon

\* What the reader finds out from the header and the fields.
HeadRead(m, s) ==
    /\ IsHeader(s) /\ s[1].command = m.command
    /\ read_urb_message(s) = ReadSubmit(s, DataDirection(m), Wait)
    /\ BufferWords(s, DataDirection(m)) = BufferDue(m) /\ Descriptors(s) = PacketsDue(m)
    /\ s[2].length = m.length

\* The header and the fields of a submit are read as they were written.
LEMMA SubmitHead ==
    ASSUME NEW Word, NEW Value, NEW m \in Submits(Word, Value), NEW S, NEW s \in Seq(S),
           Len(s) >= 2, s[1] = UsbipHeaderBasic(m), s[2] = Fields(m)
    PROVE  HeadRead(m, s)
<1>1. /\ m.command \in {"CmdSubmit", "RetSubmit"} /\ m.length \in Nat
      /\ m.number_of_packets \in Nat \union {NON_ISO}
  BY DEF Submits, CmdSubmits, RetSubmits
<1>2. /\ s[1].w = "header" /\ s[1].command = m.command /\ s[1].direction = m.direction
      /\ s[2].length = m.length /\ s[2].number_of_packets = m.number_of_packets
  BY <1>1 DEF UsbipHeaderBasic, Fields
<1>3. IsHeader(s) /\ Len(s) # 0 /\ Len(s) # 1
  BY <1>1, <1>2 DEF IsHeader, Commands
<1>4. read_urb_message(s) = ReadSubmit(s, DataDirection(m), Wait)
  BY <1>1, <1>2, <1>3 DEF read_urb_message, DataDirection
<1>5. /\ BufferWords(s, DataDirection(m)) = BufferDue(m)
      /\ Descriptors(s) = PacketsDue(m)
  BY <1>2 DEF BufferWords, BufferDue, Descriptors, PacketsDue
<1> QED
  BY <1>2, <1>3, <1>4, <1>5 DEF HeadRead

\* What is announced is a number of words.
LEMMA DueIsNat ==
    ASSUME NEW Word, NEW Value, NEW m \in Submits(Word, Value)
    PROVE  BufferDue(m) \in Nat /\ PacketsDue(m) \in Nat /\ m.length \in Nat
  BY DEF Submits, CmdSubmits, RetSubmits, BufferDue, PacketsDue, is_iso_transfer, NON_ISO

\* The fields of a CmdSubmit of which only the descriptors were replaced.
LEMMA CmdSubmitFields ==
    ASSUME NEW Word, NEW Value, NEW m \in CmdSubmits(Word, Value), NEW p
    PROVE  [m EXCEPT !.iso_packet_descriptors = p] =
              [command |-> "CmdSubmit", seqnum |-> m.seqnum, direction |-> m.direction,
               ep |-> m.ep, length |-> m.length, number_of_packets |-> m.number_of_packets,
               setup |-> m.setup, transfer_buffer |-> m.transfer_buffer,
               iso_packet_descriptors |-> p]
  BY DEF CmdSubmits

\* The same of the answer to a submit.
LEMMA RetSubmitFields ==
    ASSUME NEW Word, NEW Value, NEW m \in RetSubmits(Word, Value), NEW p
    PROVE  [m EXCEPT !.iso_packet_descriptors = p] =
              [command |-> "RetSubmit", seqnum |-> m.seqnum, direction |-> m.direction,
               ep |-> m.ep, length |-> m.length, number_of_packets |-> m.number_of_packets,
               status |-> m.status, transfer_buffer |-> m.transfer_buffer,
               iso_packet_descriptors |-> p]
  BY DEF RetSubmits

-----------------------------------------------------------------------------
\* A submit whose counts are true and within the limits is read back, and the
\* reader is left where the message ends.
LEMMA SubmitIsReadBack ==
    ASSUME NEW Word, NEW Value, NEW m \in Submits(Word, Value), NEW more \in Seq(Word),
           WithinLimits(m), CountsMatch(m)
    PROVE  read_urb_message(write_urb_message(m) \o more) =
               [is |-> "ok", msg |-> [m EXCEPT !.iso_packet_descriptors = IsoPackets(m)],
                rest |-> more]
<1> DEFINE h == <<UsbipHeaderBasic(m), Fields(m)>>
           All == Word \union {UsbipHeaderBasic(m), Fields(m)}
           s == write_urb_message(m) \o more
           b == BufferDue(m)
           n == PacketsDue(m)
           d == DataDirection(m)
<1>0. /\ write_urb_message(m) = h \o m.transfer_buffer \o IsoPackets(m)
      /\ h[1] = UsbipHeaderBasic(m) /\ h[2] = Fields(m)
      /\ Parts(All, h, m.transfer_buffer, IsoPackets(m), more)
      /\ Len(m.transfer_buffer) = b /\ Len(IsoPackets(m)) = n
  BY SubmitWords, Zenon DEF CountsMatch
<1> HIDE DEF h, All, b, n
<1>1. /\ Len(more) \in Nat
      /\ s \in Seq(All) /\ Len(s) = 2 + b + n + Len(more)
      /\ s[1] = UsbipHeaderBasic(m) /\ s[2] = Fields(m)
      /\ SubSeq(s, 3, 2 + b) = m.transfer_buffer
      /\ SubSeq(s, 3 + b, 2 + b + n) = IsoPackets(m)
      /\ SubSeq(s, 2 + b + n + 1, Len(s)) = more
  BY <1>0, Zenon DEF Parts
<1>2. b \in Nat /\ n \in Nat /\ m.length \in Nat
  BY DueIsNat DEF b, n
<1> HIDE DEF s
<1>3. Len(s) >= 2
  BY <1>1, <1>2
<1>4. /\ s[1].command = m.command
      /\ read_urb_message(s) = ReadSubmit(s, d, Wait)
      /\ BufferWords(s, d) = b /\ Descriptors(s) = n
      /\ s[2].length = m.length
  BY <1>1, <1>3, SubmitHead, Zenon DEF HeadRead, b, n
<1>5. ReadSubmit(s, d, Wait) = Ok(SubmitMessage(s, b, n), 2 + b + n, s)
  <2>1. ~(m.length > MAX_TRANSFER_BUFFER_LENGTH) /\ ~(n > MAX_ISO_PACKETS)
    <3>1. MAX_TRANSFER_BUFFER_LENGTH \in Nat /\ MAX_ISO_PACKETS \in Nat
      BY WireAssumption
    <3>2. m.length <= MAX_TRANSFER_BUFFER_LENGTH /\ n <= MAX_ISO_PACKETS
      BY Zenon DEF WithinLimits, n
    <3> QED
      BY <1>2, <3>1, <3>2
  <2>2. ~(Len(s) < 2 + b) /\ ~(Len(s) < 2 + b + n)
    <3>1. Len(more) \in Nat /\ Len(s) = 2 + b + n + Len(more)
      BY <1>1, Zenon
    <3> QED
      BY <1>2, <3>1
  <2> HIDE DEF d
  <2> QED
    BY <1>4, <2>1, <2>2, Zenon DEF ReadSubmit
<1>6. SubmitMessage(s, b, n) = [m EXCEPT !.iso_packet_descriptors = IsoPackets(m)]
  <2> DEFINE buf == SubSeq(s, 3, 2 + b)
             desc == SubSeq(s, 3 + b, 2 + b + n)
  <2>1. buf = m.transfer_buffer /\ desc = IsoPackets(m)
    BY <1>1
  <2>2. /\ s[1].seqnum = m.seqnum /\ s[1].direction = m.direction /\ s[1].ep = m.ep
        /\ s[2].length = m.length /\ s[2].number_of_packets = m.number_of_packets
    BY <1>1 DEF UsbipHeaderBasic, Fields
  <2> HIDE DEF buf, desc
  <2>3. CASE m \in CmdSubmits(Word, Value)
    <3>1. m.command = "CmdSubmit" /\ s[2].setup = m.setup
      BY <1>1, <2>3 DEF CmdSubmits, Fields
    <3>2. SubmitMessage(s, b, n) =
              [command |-> "CmdSubmit", seqnum |-> m.seqnum, direction |-> m.direction,
               ep |-> m.ep, length |-> m.length, number_of_packets |-> m.number_of_packets,
               setup |-> m.setup, transfer_buffer |-> m.transfer_buffer,
               iso_packet_descriptors |-> IsoPackets(m)]
      BY <1>4, <2>1, <2>2, <3>1, Zenon DEF SubmitMessage, buf, desc
    <3> QED
      BY <2>3, <3>2, CmdSubmitFields, Zenon
  <2>4. CASE m \in RetSubmits(Word, Value)
    <3>1. m.command = "RetSubmit" /\ m.command # "CmdSubmit" /\ s[2].status = m.status
      BY <1>1, <2>4 DEF RetSubmits, Fields
    <3>2. SubmitMessage(s, b, n) =
              [command |-> "RetSubmit", seqnum |-> m.seqnum, direction |-> m.direction,
               ep |-> m.ep, length |-> m.length, number_of_packets |-> m.number_of_packets,
               status |-> m.status, transfer_buffer |-> m.transfer_buffer,
               iso_packet_descriptors |-> IsoPackets(m)]
      BY <1>4, <2>1, <2>2, <3>1, Zenon DEF SubmitMessage, buf, desc
    <3> QED
      BY <2>4, <3>2, RetSubmitFields, Zenon
  <2> QED
    BY <2>3, <2>4 DEF Submits
<1> QED
  <2> HIDE DEF d
  <2> QED
    BY <1>1, <1>4, <1>5, <1>6, Zenon DEF Ok, s

\* Every word before the last of a submit with true counts leaves the reader waiting.
LEMMA SubmitPartIsAwaited ==
    ASSUME NEW Word, NEW Value, NEW m \in Submits(Word, Value),
           WithinLimits(m), CountsMatch(m),
           NEW k \in 0..(Len(write_urb_message(m)) - 1)
    PROVE  read_urb_message(SubSeq(write_urb_message(m), 1, k)) = Wait
<1> DEFINE h == <<UsbipHeaderBasic(m), Fields(m)>>
           All == Word \union {UsbipHeaderBasic(m), Fields(m)}
           w == write_urb_message(m)
           s == SubSeq(w, 1, k)
           b == BufferDue(m)
           n == PacketsDue(m)
<1>1. /\ w = h \o m.transfer_buffer \o IsoPackets(m)
      /\ h[1] = UsbipHeaderBasic(m) /\ h[2] = Fields(m)
      /\ Parts(All, h, m.transfer_buffer, IsoPackets(m), <<>>)
      /\ Len(m.transfer_buffer) = b /\ Len(IsoPackets(m)) = n
  <2>1. <<>> \in Seq(Word)
    OBVIOUS
  <2> QED
    BY <2>1, SubmitWords, Zenon DEF CountsMatch
<1>2. b \in Nat /\ n \in Nat /\ m.length \in Nat
  BY DueIsNat
<1> HIDE DEF h, All, b, n, w
<1>3. /\ w \in Seq(All) /\ Len(w) = 2 + b + n
      /\ (w \o <<>>)[1] = UsbipHeaderBasic(m) /\ (w \o <<>>)[2] = Fields(m)
  BY <1>1, Zenon DEF Parts
<1>4. w[1] = UsbipHeaderBasic(m) /\ w[2] = Fields(m)
  BY <1>3, ConcatEmptySeq, Zenon
<1>5. k \in Nat /\ k < 2 + b + n
  BY <1>2, <1>3 DEF w
<1>6. /\ s \in Seq(All) /\ Len(s) = k
      /\ k >= 1 => s[1] = UsbipHeaderBasic(m)
      /\ k >= 2 => s[2] = Fields(m)
  BY <1>2, <1>3, <1>4, <1>5
<1> HIDE DEF s
<1>7. CASE k = 0
  BY <1>6, <1>7 DEF read_urb_message, s, w
<1>8. CASE k = 1
  <2>1. IsHeader(s)
    BY <1>6, <1>8 DEF IsHeader, UsbipHeaderBasic, Commands, Submits, CmdSubmits, RetSubmits
  <2> QED
    BY <1>6, <1>8, <2>1 DEF read_urb_message, s, w
<1>9. CASE k >= 2
  <2>0. Len(s) >= 2 /\ s[1] = UsbipHeaderBasic(m) /\ s[2] = Fields(m)
    BY <1>5, <1>6, <1>9
  <2>1. HeadRead(m, s)
    BY <1>6, <2>0, SubmitHead, Zenon
  <2>2. ~(m.length > MAX_TRANSFER_BUFFER_LENGTH) /\ ~(n > MAX_ISO_PACKETS)
    <3>1. MAX_TRANSFER_BUFFER_LENGTH \in Nat /\ MAX_ISO_PACKETS \in Nat
      BY WireAssumption
    <3>2. m.length <= MAX_TRANSFER_BUFFER_LENGTH /\ n <= MAX_ISO_PACKETS
      BY Zenon DEF WithinLimits, n
    <3> QED
      BY <1>2, <3>1, <3>2
  <2>3. Len(s) < 2 + b + n
    BY <1>5, <1>6
  <2> QED
    BY <2>1, <2>2, <2>3, Zenon DEF HeadRead, ReadSubmit, b, n, s, w
<1> QED
  BY <1>5, <1>7, <1>8, <1>9

\* Where the reader is left when it has read n words.
LEMMA OkRest ==
    ASSUME NEW msg, NEW n, NEW s
    PROVE  Ok(msg, n, s).is = "ok" /\ Ok(msg, n, s).rest = SubSeq(s, n + 1, Len(s))
  BY Zenon DEF Ok

\* A submit that the reader accepts and that carries more or fewer words than
\* it announces leaves the reader that many words away from its end.
THEOREM MisfitShiftsStream ==
    ASSUME NEW Word, NEW Value, NEW m \in Submits(Word, Value), NEW more \in Seq(Word)
    PROVE  LET r == read_urb_message(write_urb_message(m) \o more)
               written == Len(m.transfer_buffer) + Len(IsoPackets(m))
               due == BufferDue(m) + PacketsDue(m)
           IN  r.is = "ok" => Len(r.rest) = Len(more) + written - due
<1> DEFINE h == <<UsbipHeaderBasic(m), Fields(m)>>
           All == Word \union {UsbipHeaderBasic(m), Fields(m)}
           s == write_urb_message(m) \o more
           r == read_urb_message(s)
           x == Len(m.transfer_buffer)
           y == Len(IsoPackets(m))
           b == BufferDue(m)
           n == PacketsDue(m)
<1>1. /\ write_urb_message(m) = h \o m.transfer_buffer \o IsoPackets(m)
      /\ h[1] = UsbipHeaderBasic(m) /\ h[2] = Fields(m)
      /\ Parts(All, h, m.transfer_buffer, IsoPackets(m), more)
  BY SubmitWords, Zenon
<1>2. b \in Nat /\ n \in Nat /\ m.length \in Nat
  BY DueIsNat
<1> HIDE DEF h, All
<1>3. /\ x \in Nat /\ y \in Nat /\ Len(more) \in Nat
      /\ s \in Seq(All) /\ Len(s) = 2 + x + y + Len(more)
      /\ s[1] = UsbipHeaderBasic(m) /\ s[2] = Fields(m)
  BY <1>1, Zenon DEF Parts
<1> HIDE DEF s, x, y, b, n
<1>4. Len(s) >= 2
  <2>1. /\ x \in Nat /\ y \in Nat /\ Len(more) \in Nat /\ Len(s) = 2 + x + y + Len(more)
    BY <1>3, Zenon
  <2> QED
    BY <2>1
<1>5. HeadRead(m, s)
  BY <1>3, <1>4, SubmitHead, Zenon
<1>6. ASSUME r.is = "ok"
      PROVE  ~(Len(s) < 2 + b + n) /\ r.rest = SubSeq(s, 2 + b + n + 1, Len(s))
  <2>1. Wait.is # "ok" /\ Err.is # "ok"
    BY DEF Wait, Err
  <2>2. /\ ~(Len(s) < 2 + b + n)
        /\ r = Ok(SubmitMessage(s, b, n), 2 + b + n, s)
    BY <1>5, <1>6, <2>1, Zenon DEF HeadRead, ReadSubmit, b, n
  <2> QED
    BY <2>2, OkRest, Zenon
<1>7. ASSUME r.is = "ok"
      PROVE  Len(r.rest) = Len(more) + (x + y) - (b + n)
  <2>1. Len(s) \in Nat /\ 2 + b + n <= Len(s) /\ 2 + b + n \in Nat
    BY <1>2, <1>3, <1>6, <1>7
  <2>2. Len(r.rest) = Len(s) - (2 + b + n)
    BY <1>3, <1>6, <1>7, <2>1
  <2>3. /\ x \in Nat /\ y \in Nat /\ Len(more) \in Nat /\ Len(s) = 2 + x + y + Len(more)
    BY <1>3, Zenon
  <2> QED
    BY <1>2, <2>2, <2>3
<1> QED
  BY <1>7, Zenon DEF s, x, y, b, n

\* An unlink and its answer are two words, of which the reader takes both.
LEMMA UnlinkIsReadBack ==
    ASSUME NEW Word, NEW Value, NEW m \in Unlinks(Value), NEW more \in Seq(Word)
    PROVE  read_urb_message(write_urb_message(m) \o more) =
               [is |-> "ok", msg |-> m, rest |-> more]
<1> DEFINE f == IF m.command = "CmdUnlink"
                THEN [w |-> "fields", unlink_seqnum |-> m.unlink_seqnum]
                ELSE [w |-> "fields", status |-> m.status]
           h == <<UsbipHeaderBasic(m), f>>
           All == Word \union {UsbipHeaderBasic(m), f}
           s == h \o more
<1>1. write_urb_message(m) = h
  BY DEF write_urb_message, Unlinks, CmdUnlinks, RetUnlinks, CmdUnlink_encode, RetUnlink_encode
<1>2. /\ h \in Seq(All) /\ Len(h) = 2 /\ h[1] = UsbipHeaderBasic(m) /\ h[2] = f
      /\ more \in Seq(All)
  OBVIOUS
<1>3. Pair(All, h, more)
  <2> HIDE DEF h, All
  <2> QED  BY <1>2, TwoParts, Zenon
<1> HIDE DEF h, All
<1>4. /\ Len(more) \in Nat /\ Len(s) = 2 + Len(more)
      /\ s[1] = UsbipHeaderBasic(m) /\ s[2] = f /\ SubSeq(s, 3, Len(s)) = more
  BY <1>2, <1>3, Zenon DEF Pair
<1> HIDE DEF s
<1>5. m.command \in {"CmdUnlink", "RetUnlink"}
  BY DEF Unlinks, CmdUnlinks, RetUnlinks
<1>6. /\ s[1].w = "header" /\ s[1].command = m.command /\ s[1].seqnum = m.seqnum
      /\ s[1].direction = m.direction /\ s[1].ep = m.ep
  BY <1>4 DEF UsbipHeaderBasic
<1>7. read_urb_message(s) = ReadUnlink(s)
  <2>1. Len(s) # 0 /\ Len(s) # 1
    BY <1>4
  <2>2. IsHeader(s)
    BY <1>5, <1>6 DEF IsHeader, Commands
  <2> QED
    BY <1>5, <1>6, <2>1, <2>2 DEF read_urb_message
<1>8. ReadUnlink(s) = Ok(m, 2, s)
  <2>1. CASE m \in CmdUnlinks(Value)
    <3>1. m.command = "CmdUnlink" /\ s[2].unlink_seqnum = m.unlink_seqnum
      BY <1>4, <2>1 DEF CmdUnlinks
    <3>2. m = [command |-> "CmdUnlink", seqnum |-> m.seqnum, direction |-> m.direction,
               ep |-> m.ep, unlink_seqnum |-> m.unlink_seqnum]
      BY <2>1 DEF CmdUnlinks
    <3> QED
      BY <1>6, <3>1, <3>2, Zenon DEF ReadUnlink
  <2>2. CASE m \in RetUnlinks(Value)
    <3>1. m.command = "RetUnlink" /\ m.command # "CmdUnlink" /\ s[2].status = m.status
      BY <1>4, <2>2 DEF RetUnlinks
    <3>2. m = [command |-> "RetUnlink", seqnum |-> m.seqnum, direction |-> m.direction,
               ep |-> m.ep, status |-> m.status]
      BY <2>2 DEF RetUnlinks
    <3> QED
      BY <1>6, <3>1, <3>2, Zenon DEF ReadUnlink
  <2> QED
    BY <2>1, <2>2 DEF Unlinks
<1>9. 2 + 1 = 3
  OBVIOUS
<1> QED
  BY <1>1, <1>4, <1>7, <1>8, <1>9, Zenon DEF Ok, s

\* The header of an unlink alone leaves the reader waiting.
LEMMA UnlinkPartIsAwaited ==
    ASSUME NEW Value, NEW m \in Unlinks(Value),
           NEW k \in 0..(Len(write_urb_message(m)) - 1)
    PROVE  read_urb_message(SubSeq(write_urb_message(m), 1, k)) = Wait
<1> DEFINE w == write_urb_message(m)
           s == SubSeq(w, 1, k)
<1>1. PICK f : w = <<UsbipHeaderBasic(m), f>>
  BY DEF write_urb_message, Unlinks, CmdUnlinks, RetUnlinks, CmdUnlink_encode, RetUnlink_encode
<1> HIDE DEF w
<1>2. Len(w) = 2 /\ k \in {0, 1}
  BY <1>1 DEF w
<1>3. Len(s) = k /\ (k = 1 => s[1] = UsbipHeaderBasic(m))
  BY <1>1, <1>2
<1> HIDE DEF s
<1>4. k = 1 => IsHeader(s)
  BY <1>3 DEF IsHeader, UsbipHeaderBasic, Commands, Unlinks, CmdUnlinks, RetUnlinks
<1> QED
  BY <1>2, <1>3, <1>4 DEF read_urb_message, s, w

-----------------------------------------------------------------------------
\* What write_urb_message writes of a message whose counts are true and within
\* the limits, read_urb_message reads back, all four commands, and it is left
\* at the first word of what follows: the next message is found where it is.
THEOREM MessageIsReadBack ==
    ASSUME NEW Word, NEW Value, NEW m \in Submits(Word, Value) \union Unlinks(Value), Fits(m),
           NEW more \in Seq(Word)
    PROVE  read_urb_message(write_urb_message(m) \o more) =
               [is |-> "ok", msg |-> Carried(m), rest |-> more]
<1>1. CASE m \in Submits(Word, Value)
  <2>1. m.command \in {"CmdSubmit", "RetSubmit"}
    BY <1>1 DEF Submits, CmdSubmits, RetSubmits
  <2> QED
    BY <1>1, <2>1, SubmitIsReadBack, Zenon DEF Fits, Carried
<1>2. CASE m \in Unlinks(Value)
  <2>1. m.command \notin {"CmdSubmit", "RetSubmit"}
    BY <1>2 DEF Unlinks, CmdUnlinks, RetUnlinks
  <2> QED
    BY <1>2, <2>1, UnlinkIsReadBack, Zenon DEF Carried
<1> QED
  BY <1>1, <1>2

\* As long as a part of such a message is missing, however it is cut, the
\* reader waits: it neither refuses the part nor takes it for a shorter message.
THEOREM PartIsAwaited ==
    ASSUME NEW Word, NEW Value, NEW m \in Submits(Word, Value) \union Unlinks(Value), Fits(m),
           NEW k \in 0..(Len(write_urb_message(m)) - 1)
    PROVE  read_urb_message(SubSeq(write_urb_message(m), 1, k)) = Wait
<1>1. CASE m \in Submits(Word, Value)
  <2>1. m.command \in {"CmdSubmit", "RetSubmit"}
    BY <1>1 DEF Submits, CmdSubmits, RetSubmits
  <2> QED
    BY <1>1, <2>1, SubmitPartIsAwaited, Zenon DEF Fits
<1>2. CASE m \in Unlinks(Value)
  BY <1>2, UnlinkPartIsAwaited, Zenon
<1> QED
  BY <1>1, <1>2

\* On every stream of words the decoders of urb.rs and the reader of codec.rs
\* accept the same and read the same message.
THEOREM DecodersReadTheSame ==
    ASSUME NEW Word, NEW s \in Seq(Word) PROVE DecodersAgreeOn(s)
<1> DEFINE r == read_urb_message(s)
           decoded == {CmdSubmit_decode(s), RetSubmit_decode(s),
                       CmdUnlink_decode(s), RetUnlink_decode(s)}
<1> HIDE DEF r, decoded
<1>1. Wait # Err /\ Wait.is # "ok" /\ Err.is # "ok"
  BY DEF Wait, Err
<1>2. \A msg, n : Ok(msg, n, s) # Err /\ Ok(msg, n, s).is = "ok"
  BY <1>1, OkRest, Zenon
<1>3. Len(s) \in Nat
  OBVIOUS
<1>4. CASE Len(s) = 0 \/ Len(s) = 1 \/ ~IsHeader(s)
  <2>1. r = Wait \/ r = Err
    BY <1>4, Zenon DEF r, read_urb_message
  <2>2. \A c \in Commands : ~IsMessage(s, c)
    <3>1. CASE Len(s) = 0 \/ Len(s) = 1
      <4>1. \A n : n = 0 \/ n = 1 => ~(n >= 2)
        OBVIOUS
      <4> QED
        BY <3>1, <4>1, Zenon DEF IsMessage
    <3>2. CASE ~IsHeader(s)
      BY <3>2, Zenon DEF IsMessage, IsHeader
    <3> QED
      BY <1>4, <3>1, <3>2, Zenon
  <2>3. decoded = {Err}
    BY <2>2 DEF decoded, Commands, CmdSubmit_decode, RetSubmit_decode, CmdUnlink_decode,
       RetUnlink_decode
  <2> QED
    BY <1>1, <2>1, <2>3, Zenon DEF DecodersAgreeOn, r, decoded
<1>5. CASE Len(s) # 0 /\ Len(s) # 1 /\ IsHeader(s)
  <2>1. s[1].command \in Commands /\ \A c \in Commands : IsMessage(s, c) <=> s[1].command = c
    <3>1. Len(s) >= 2
      BY <1>3, <1>5
    <3> QED
      BY <1>5, <3>1, Zenon DEF IsHeader, IsMessage
  <2>2. Len(s) # 0 /\ Len(s) # 1
    BY <1>5
  <2>3. \A d : \/ ReadSubmit(s, d, Wait) = ReadSubmit(s, d, Err)
                  /\ ReadSubmit(s, d, Err).is = "ok" /\ ReadSubmit(s, d, Err) # Err
               \/ ReadSubmit(s, d, Wait) \in {Wait, Err} /\ ReadSubmit(s, d, Err) = Err
    BY <1>2, Zenon DEF ReadSubmit
  <2>4. ReadUnlink(s).is = "ok" /\ ReadUnlink(s) # Err
    BY <1>2, Zenon DEF ReadUnlink
  <2>5. CASE s[1].command = "CmdSubmit"
    <3>1. r = ReadSubmit(s, DirOut, Wait) /\ decoded = {ReadSubmit(s, DirOut, Err), Err}
      BY <1>5, <2>1, <2>2, <2>5 DEF r, decoded, read_urb_message, Commands, CmdSubmit_decode,
         RetSubmit_decode, CmdUnlink_decode, RetUnlink_decode
    <3> QED
      BY <1>1, <2>3, <3>1, Zenon DEF DecodersAgreeOn, r, decoded
  <2>6. CASE s[1].command = "RetSubmit"
    <3>1. r = ReadSubmit(s, DirIn, Wait) /\ decoded = {ReadSubmit(s, DirIn, Err), Err}
      BY <1>5, <2>1, <2>2, <2>6 DEF r, decoded, read_urb_message, Commands, CmdSubmit_decode,
         RetSubmit_decode, CmdUnlink_decode, RetUnlink_decode
    <3> QED
      BY <1>1, <2>3, <3>1, Zenon DEF DecodersAgreeOn, r, decoded
  <2>7. CASE s[1].command \in {"CmdUnlink", "RetUnlink"}
    <3>1. r = ReadUnlink(s) /\ decoded = {ReadUnlink(s), Err}
      BY <1>5, <2>1, <2>2, <2>7 DEF r, decoded, read_urb_message, Commands, CmdSubmit_decode,
         RetSubmit_decode, CmdUnlink_decode, RetUnlink_decode
    <3> QED
      BY <1>1, <2>4, <3>1, Zenon DEF DecodersAgreeOn, r, decoded
  <2> QED
    BY <2>1, <2>5, <2>6, <2>7 DEF Commands
<1> QED
  BY <1>4, <1>5, Zenon

-----------------------------------------------------------------------------
(* The messages of the discovery phase. *)

Devices(Value) == [busid : Value, num_interfaces : Nat, interfaces : Seq(Value)]

RepImports(Value) == [op : {"RepImport"}, status : Nat, device : Seq(Devices(Value))]

\* What handle_import sends: a device if and only if the status is 0.
RepImportFits(m) == Len(m.device) = IF m.status = 0 THEN 1 ELSE 0

\* The device of an import is written without its interfaces.
Bare(d) == [busid |-> d.busid, num_interfaces |-> d.num_interfaces, interfaces |-> <<>>]

\* An import request is read back, and nothing of what follows it is taken.
THEOREM ImportRequestIsReadBack ==
    ASSUME NEW Word, NEW busid, NEW more \in Seq(Word)
    PROVE  LET m == [op |-> "ReqImport", busid |-> busid] IN
           read_op_message(write_op_message(m) \o more) =
               [is |-> "ok", msg |-> m, rest |-> more]
<1> DEFINE m == [op |-> "ReqImport", busid |-> busid]
           f == [w |-> "status", status |-> 0, busid |-> busid]
           h == <<Prefix("ReqImport"), f>>
           All == Word \union {Prefix("ReqImport"), f}
           s == h \o more
<1>1. write_op_message(m) = h
  BY DEF write_op_message, OpReqImport_encode
<1>2. /\ h \in Seq(All) /\ Len(h) = 2 /\ h[1] = Prefix("ReqImport") /\ h[2] = f
      /\ more \in Seq(All)
  OBVIOUS
<1>3. Pair(All, h, more)
  <2> HIDE DEF h, All
  <2> QED  BY <1>2, TwoParts, Zenon
<1> HIDE DEF h, All
<1>4. /\ Len(more) \in Nat /\ Len(s) = 2 + Len(more)
      /\ s[1] = Prefix("ReqImport") /\ s[2] = f /\ SubSeq(s, 3, Len(s)) = more
  BY <1>2, <1>3, Zenon DEF Pair
<1> HIDE DEF s
<1>5. s[1].w = "prefix" /\ s[1].op = "ReqImport" /\ s[2].busid = busid
  BY <1>4 DEF Prefix
<1>6. read_op_message(s) = OpReqImport_decode(s)
  BY <1>4, <1>5 DEF read_op_message, OpCodes
<1>7. 2 + 1 = 3
  OBVIOUS
<1> QED
  BY <1>1, <1>4, <1>5, <1>6, <1>7, Zenon DEF OpReqImport_decode, Ok, s

\* A reply that holds a device exactly when its status is 0 is read back, the
\* device without its interfaces, up to the first word of what follows: the
\* URB phase starts on the first word of the first URB message.
THEOREM ImportReplyIsReadBack ==
    ASSUME NEW Word, NEW Value, NEW m \in RepImports(Value), RepImportFits(m),
           NEW more \in Seq(Word)
    PROVE  read_op_message(write_op_message(m) \o more) =
               [is |-> "ok",
                msg |-> [m EXCEPT !.device = [i \in 1..Len(m.device) |-> Bare(m.device[i])]],
                rest |-> more]
<1> DEFINE f == [w |-> "status", status |-> m.status]
           h == <<Prefix("RepImport"), f>>
           t == [i \in 1..Len(m.device) |-> UsbDevice_encode(m.device[i])]
           All == Word \union {Prefix("RepImport"), f}
                    \union {UsbDevice_encode(d) : d \in Devices(Value)}
           s == h \o t \o <<>> \o more
<1>0. m.op = "RepImport" /\ m.status \in Nat /\ m.device \in Seq(Devices(Value))
  BY DEF RepImports
<1>1. write_op_message(m) = h \o t
  BY <1>0 DEF write_op_message, OpRepImport_encode
<1>2. /\ h \in Seq(All) /\ Len(h) = 2 /\ h[1] = Prefix("RepImport") /\ h[2] = f
      /\ more \in Seq(All) /\ <<>> \in Seq(All) /\ Len(<<>>) = 0
  OBVIOUS
<1>3. t \in Seq(All) /\ Len(t) = Len(m.device) /\ Len(m.device) \in Nat
  BY <1>0
<1>4. Parts(All, h, t, <<>>, more) /\ h \o t \in Seq(All)
  <2> HIDE DEF h, t, All
  <2> QED  BY <1>2, <1>3, FourParts, JoinedLength, Zenon
<1> HIDE DEF h, t, All
<1>5. h \o t \o <<>> = h \o t
  BY <1>4, ConcatEmptySeq, Zenon
<1>6. /\ s \in Seq(All) /\ s[1] = Prefix("RepImport") /\ s[2] = f
      /\ Len(more) \in Nat /\ Len(s) = 2 + Len(t) + 0 + Len(more)
      /\ SubSeq(s, 3, 2 + Len(t)) = t
      /\ SubSeq(s, 2 + Len(t) + 0 + 1, Len(s)) = more
  BY <1>2, <1>4, Zenon DEF Parts
<1> HIDE DEF s
<1>7. s[1].w = "prefix" /\ s[1].op = "RepImport" /\ s[2].status = m.status
  BY <1>6 DEF Prefix
<1>8. read_op_message(s) = OpRepImport_decode(s, Wait)
  BY <1>3, <1>6, <1>7 DEF read_op_message, OpCodes
<1>9. CASE m.status = 0
  <2>1. Len(m.device) = 1
    BY <1>9 DEF RepImportFits
  <2>2. t = <<UsbDevice_encode(m.device[1])>>
    BY <2>1 DEF t
  <2>3. s[3] = UsbDevice_encode(m.device[1]) /\ ~(Len(s) < 3) /\ Len(t) = 1
    <3>1. Len(t) = 1 /\ Len(more) \in Nat /\ Len(s) = 2 + Len(t) + 0 + Len(more)
      BY <1>3, <1>6, <2>1, Zenon
    <3>2. Len(s) >= 3 /\ 2 + Len(t) = 3
      BY <3>1
    <3>3. SubSeq(s, 3, 3) = t
      BY <1>6, <3>2
    <3>4. SubSeq(s, 3, 3)[1] = s[3]
      BY <1>6, <3>2
    <3>5. t[1] = UsbDevice_encode(m.device[1])
      BY <2>2
    <3> QED
      BY <3>1, <3>2, <3>3, <3>4, <3>5
  <2>4. UsbDevice_decode(s, 3) = Bare(m.device[1])
    BY <2>3 DEF UsbDevice_decode, UsbDevice_encode, Bare
  <2>5. SubSeq(s, 3 + 1, Len(s)) = more
    BY <1>6, <2>3
  <2>6. <<UsbDevice_decode(s, 3)>> = [i \in 1..Len(m.device) |-> Bare(m.device[i])]
    BY <2>1, <2>4
  <2>7. OpRepImport_decode(s, Wait) =
            Ok([op |-> "RepImport", status |-> 0, device |-> <<UsbDevice_decode(s, 3)>>], 3, s)
    BY <1>7, <1>9, <2>3, Zenon DEF OpRepImport_decode
  <2>8. [m EXCEPT !.device = <<UsbDevice_decode(s, 3)>>] =
            [op |-> "RepImport", status |-> 0, device |-> <<UsbDevice_decode(s, 3)>>]
    BY <1>9 DEF RepImports
  <2> QED
    BY <1>1, <1>5, <1>8, <2>5, <2>6, <2>7, <2>8, Zenon DEF Ok, s
<1>10. CASE m.status # 0
  <2>1. Len(m.device) = 0 /\ Len(t) = 0
    BY <1>3, <1>10 DEF RepImportFits
  <2>2. [i \in 1..Len(m.device) |-> Bare(m.device[i])] = <<>>
    BY <2>1
  <2>3. SubSeq(s, 2 + 1, Len(s)) = more
    BY <1>6, <2>1
  <2>4. OpRepImport_decode(s, Wait) =
            Ok([op |-> "RepImport", status |-> m.status, device |-> <<>>], 2, s)
    BY <1>7, <1>10, Zenon DEF OpRepImport_decode
  <2>5. [m EXCEPT !.device = <<>>] = [op |-> "RepImport", status |-> m.status, device |-> <<>>]
    BY DEF RepImports
  <2> QED
    BY <1>1, <1>5, <1>8, <2>2, <2>3, <2>4, <2>5, Zenon DEF Ok, s
<1> QED
  BY <1>9, <1>10
=============================================================================
