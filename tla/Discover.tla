------------------------------ MODULE Discover ------------------------------
(***************************************************************************)
(* discover_servers (discover.rs): the servers found on the network while  *)
(* browsing, from mDNS events on Linux and from the printed records of     *)
(* dns-sd on macOS.  Addresses are numbers, in the order of their texts.   *)
(***************************************************************************)
EXTENDS Integers, Sequences, SequencesExt

Server(name, addr, devices) == [hostname |-> name, addr |-> addr, devices |-> devices]

\* ServiceResolved: one entry for every address of the service.
Resolved(info) == [i \in 1..Len(info.addrs) |-> Server(info.name, info.addrs[i], info.devices)]

\* sort_by_key is stable.
sort_by_key(servers) ==
    LET addrs == SetToSortSeq({servers[i].addr : i \in 1..Len(servers)}, <)
    IN  FlattenSeq([a \in 1..Len(addrs) |-> SelectSeq(servers, LAMBDA s : s.addr = addrs[a])])

\* An entry goes when the one before it has its address.
dedup_by(servers) ==
    LET kept == {i \in 1..Len(servers) : i = 1 \/ servers[i].addr # servers[i - 1].addr}
    IN  [k \in 1..Len(SetToSortSeq(kept, <)) |-> servers[SetToSortSeq(kept, <)[k]]]

\* Mutated form of discover_servers_blocking: the entries are not sorted.
discover_servers_blocking_Unsorted(events) ==
    dedup_by(FlattenSeq([i \in 1..Len(events) |-> Resolved(events[i])]))

discover_servers_blocking(events) ==
    dedup_by(sort_by_key(FlattenSeq([i \in 1..Len(events) |-> Resolved(events[i])])))

-----------------------------------------------------------------------------
\* What is carried from line to line; host is the addresses the host name of
\* the SRV record resolves to.
NoRecord == [name |-> "", port |-> 0, host |-> <<>>, devices |-> 0]

\* line.contains(word): a line has the type of its record in it, and the name
\* of the service.
contains(line, word) == line.type = word \/ word \in line.info.words

\* A line of dns-sd -Z.  Lines with SRV in them are taken for SRV records, and
\* skipped when they have too few parts to be one.  After a line with TXT in it
\* the service is complete; of its addresses (positive ones are IPv4) the first
\* IPv4 address is taken.
parse_line(st, line) ==
    IF contains(line, "SRV")
    THEN IF line.type # "SRV" THEN st
         ELSE [st EXCEPT !.current.name = line.info.name, !.current.port = line.info.port,
                         !.current.host = line.info.addrs]
    ELSE IF ~contains(line, "TXT") THEN st
    ELSE LET c == [st.current EXCEPT !.devices = IF line.type = "TXT" THEN line.info.devices ELSE @]
             v4 == SelectSeq(c.host, LAMBDA a : a > 0)
             addr == IF v4 # <<>> THEN {v4[1]} ELSE IF c.host # <<>> THEN {c.host[1]} ELSE {}
             known == \E i \in 1..Len(st.servers) : st.servers[i].hostname = c.name
         IN  IF c.port = 0 THEN [st EXCEPT !.current = c]
             ELSE [current |-> NoRecord,
                   servers |-> IF addr = {} \/ known THEN st.servers
                               ELSE Append(st.servers,
                                           Server(c.name, CHOOSE a \in addr : TRUE, c.devices))]

parse_dns_sd_output(lines) ==
    FoldLeft(parse_line, [current |-> NoRecord, servers |-> <<>>], lines).servers

\* dns-sd prints the records of one service after the other.
discover_servers_macos(events) ==
    parse_dns_sd_output(FlattenSeq([i \in 1..Len(events) |->
        [k \in 1..3 |-> [type |-> <<"PTR", "SRV", "TXT">>[k], info |-> events[i]]]]))
=============================================================================
