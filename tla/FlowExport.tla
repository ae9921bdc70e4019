----------------------------- MODULE FlowExport -----------------------------
(***************************************************************************)
(* The other source of packets (backend/nettrace/flowexport): an exporter  *)
(* aggregates a capture into unidirectional flow records, closes them on   *)
(* two timeouts and writes them as NetFlow v5 datagrams or IPFIX messages; *)
(* ingestion decodes the file, learning templates on the way, and expands  *)
(* every record into evenly spaced packets for the batch path.             *)
(*                                                                         *)
(* A record is [src, dst, proto, packets, start, end]; octets and the OR   *)
(* of TCP flags travel with it, change nothing below and are left out.     *)
(* A time is a whole number of the resolution of the format.               *)
(***************************************************************************)
EXTENDS FlowReconstruction, TLC

CONSTANTS Inactive, Active,  \* the exporter's timeouts
          PerMessage,        \* records of a datagram or message
          V6,                \* the addresses that are not IPv4
          Exported,          \* the captures, in the order of their files
          Foreign            \* the record of another exporter in the file

ASSUME ExportAssumption ==
    /\ Inactive \in Nat /\ Active \in Nat /\ PerMessage \in Nat \ {0}
    /\ Foreign.packets \in Nat

VARIABLE export

NoExport == [step |-> "none"]

Formats == {"v5", "ipfix"}

\* IPv6 is not exported to NetFlow v5.
Exportable(format, p) == format = "v5" => Address(p) \cap V6 = {}

ExportInit(captures) ==
    \E capture \in captures, format \in Formats :
        export = [step |-> "reading", capture |-> capture, format |-> format,
                  rest |-> capture, live |-> <<>>, done |-> <<>>]

-----------------------------------------------------------------------------
(* The exporter.                                                            *)

ExportKey(r) == <<r.src, r.dst, r.proto>>

\* Mistaken form of Expired: only the age of a record closes it.
ExpiredByAge(r, t) == t - r.start > Active

Expired(r, t) == t - r.end > Inactive \/ t - r.start > Active

NewRecord(p) ==
    [src |-> p.src, dst |-> p.dst, proto |-> p.proto,
     packets |-> 1, start |-> p.ts, end |-> p.ts]

\* `live' is a dictionary: a record that is closed and opened again moves to
\* its end.
ReadPacket ==
    /\ export.step = "reading" /\ export.rest # <<>>
    /\ LET p == Head(export.rest)
           same == {i \in DOMAIN export.live : ExportKey(export.live[i]) = ExportKey(p)}
           old == CHOOSE i \in same : TRUE
           Opened(records) == Append(records, NewRecord(p))
       IN  export' =
             IF ~Exportable(export.format, p) THEN [export EXCEPT !.rest = Tail(@)]
             ELSE IF same = {} THEN [export EXCEPT !.rest = Tail(@), !.live = Opened(@)]
             ELSE IF Expired(export.live[old], p.ts)
             THEN [export EXCEPT !.rest = Tail(@), !.live = Opened(RemoveAt(@, old)),
                                 !.done = Append(@, export.live[old])]
             ELSE [export EXCEPT !.rest = Tail(@), !.live[old].packets = @ + 1,
                                 !.live[old].end = p.ts]

\* sorted by (start, src_ip, dst_ip, src_port)
InExportOrder(records) ==
    LET BySourcePort(r) == r.src[2]
        ByDestination(r) == r.dst[1]
        BySource(r) == r.src[1]
        ByStart(r) == r.start
    IN  SortedBy(SortedBy(SortedBy(SortedBy(records, BySourcePort), ByDestination),
                          BySource), ByStart)

-----------------------------------------------------------------------------
(* The wire.  A datagram of v5 is the records in `sent'; an IPFIX message   *)
(* carries what it stands for there, for the properties alone.              *)

Chunked(s) ==
    [i \in 1..((Len(s) + PerMessage - 1) \div PerMessage) |->
        SubSeq(s, (i - 1) * PerMessage + 1, Min({i * PerMessage, Len(s)}))]

OwnLayout == <<"src", "dst", "rest">>

\* The elements of a record in the order of a layout; "rest" stands for those
\* every layout has.
DataRecord(r, layout) ==
    LET Element == [src |-> r.src, dst |-> r.dst, other |-> 0,
                    rest |-> [proto |-> r.proto, packets |-> r.packets,
                              start |-> r.start, end |-> r.end]]
    IN  [i \in DOMAIN layout |-> Element[layout[i]]]

TemplateSet(layouts) == [id |-> 2, body |-> layouts]
DataSet(id, records, layout) ==
    [id |-> id, body |-> [i \in DOMAIN records |-> DataRecord(records[i], layout)]]

IsV6(r) == r.src[1] \in V6

\* The templates are in the first message alone.
IpfixMessage(chunk, first) ==
    LET v4 == SelectSeq(chunk, LAMBDA r : ~IsV6(r))
        v6 == SelectSeq(chunk, IsV6)
        Group(id, records) ==
            IF records = <<>> THEN <<>> ELSE <<DataSet(id, records, OwnLayout)>>
    IN  [domain |-> 1, sent |-> v4 \o v6,
         sets |-> (IF first THEN <<TemplateSet(256 :> OwnLayout @@ 257 :> OwnLayout)>> ELSE <<>>)
                  \o Group(256, v4) \o Group(257, v6)]

Encoded(format, records) ==
    LET chunks == Chunked(records)
    IN  [i \in DOMAIN chunks |->
            IF format = "v5" THEN [sent |-> chunks[i]]
            ELSE IpfixMessage(chunks[i], i = 1)]

\* At the end of the capture what is live is closed and everything is written.
WriteExport ==
    /\ export.step = "reading" /\ export.rest = <<>>
    /\ LET records == InExportOrder(export.done \o export.live)
       IN  export' = [step |-> "written", capture |-> export.capture,
                      format |-> export.format, records |-> records,
                      messages |-> Encoded(export.format, records)]

\* Another IPFIX exporter, with the same template number and a layout of its own.
ForeignLayouts == {<<"dst", "other", "src", "rest">>, <<"src", "rest">>}

ForeignMessage(layout) ==
    [domain |-> 2, sent |-> <<Foreign>>,
     sets |-> <<TemplateSet(256 :> layout), DataSet(256, <<Foreign>>, layout)>>]

\* The file is a concatenation of messages: some may be missing, and another
\* exporter's may be among them.
Collected(messages, kept, others, position) ==
    LET own == SelectSeq([i \in DOMAIN messages |-> <<i, messages[i]>>],
                         LAMBDA m : m[1] \in kept)
    IN  SubSeq([i \in DOMAIN own |-> own[i][2]], 1, position)
        \o others
        \o SubSeq([i \in DOMAIN own |-> own[i][2]], position + 1, Len(own))

CollectExport ==
    /\ export.step = "written"
    /\ \E kept \in SUBSET DOMAIN export.messages,
          others \in {<<>>} \cup (IF export.format = "v5" THEN {}
                                  ELSE {<<ForeignMessage(l)>> : l \in ForeignLayouts}) :
       \E position \in 0..Cardinality(kept) :
          LET file == Collected(export.messages, kept, others, position)
          IN  /\ others = <<>> => position = 0
              /\ export' = [step |-> "decoding", capture |-> export.capture,
                            format |-> export.format, sent |-> export.records,
                            whole |-> kept = DOMAIN export.messages /\ others = <<>>,
                            file |-> file, rest |-> file,
                            templates |-> <<>>, records |-> <<>>]

-----------------------------------------------------------------------------
(* Ingestion: all of the file or nothing.                                   *)

\* Mistaken form of Learned: templates are known by their number alone.
LearnedByNumber(templates, domain, layouts) ==
    [k \in DOMAIN templates \cup ((1..2) \X DOMAIN layouts) |->
        IF k[2] \in DOMAIN layouts THEN layouts[k[2]] ELSE templates[k]]

Learned(templates, domain, layouts) ==
    [k \in DOMAIN templates \cup ({domain} \X DOMAIN layouts) |->
        IF k[1] = domain /\ k[2] \in DOMAIN layouts THEN layouts[k[2]] ELSE templates[k]]

Required == {"src", "dst", "rest"}

\* Elements are found by the layout; unknown ones are skipped.
Parsed(body, layout) ==
    LET Value(field) == body[CHOOSE i \in DOMAIN layout : layout[i] = field]
    IN  [src |-> Value("src"), dst |-> Value("dst"), proto |-> Value("rest").proto,
         packets |-> Value("rest").packets, start |-> Value("rest").start,
         end |-> Value("rest").end]

\* One set of a message, over d = [ok, templates, records].
DecodeSet(d, domain, set) ==
    IF ~d.ok THEN d
    ELSE IF set.id = 2
    THEN [d EXCEPT !.templates = Learned(@, domain, set.body)]
    ELSE IF <<domain, set.id>> \notin DOMAIN d.templates
    THEN [d EXCEPT !.ok = FALSE]
    ELSE LET layout == d.templates[<<domain, set.id>>]
         IN  IF Required \subseteq Range(layout)
             THEN [d EXCEPT !.records =
                     @ \o [i \in DOMAIN set.body |-> Parsed(set.body[i], layout)]]
             ELSE [d EXCEPT !.ok = FALSE]

Decode(m) ==
    LET before == [ok |-> TRUE, templates |-> export.templates, records |-> export.records]
    IN  IF export.format = "v5"
        THEN [before EXCEPT !.ok = \A i \in DOMAIN m.sent : m.sent[i].start <= m.sent[i].end,
                            !.records = @ \o m.sent]
        ELSE FoldLeft(LAMBDA d, set : DecodeSet(d, m.domain, set), before, m.sets)

DecodeMessage ==
    /\ export.step = "decoding" /\ export.rest # <<>>
    /\ LET d == Decode(Head(export.rest))
       IN  export' = IF d.ok
                     THEN [export EXCEPT !.rest = Tail(@), !.templates = d.templates,
                                         !.records = d.records]
                     ELSE [export EXCEPT !.step = "refused"]

\* Evenly from the first time to the last, rounded to the resolution.
Spread(r, i, n) ==
    IF n = 1 THEN r.start ELSE r.start + ((r.end - r.start) * i) \div (n - 1)

\* records_to_packets: at least one packet for each record, without flags.
Expanded(records) ==
    LET Staged(r) ==
            LET n == Max({r.packets, 1})
            IN  [i \in 1..n |-> [ts |-> Spread(r, i - 1, n), src |-> r.src,
                                 dst |-> r.dst, proto |-> r.proto, flag |-> ""]]
        staged == SortedBy(FlattenSeq([i \in DOMAIN records |-> Staged(records[i])]), Stamp)
    IN  [i \in DOMAIN staged |-> staged[i] @@ [no |-> i]]

\* ingest_flow_export: a file without packets is refused too.
StorePackets ==
    /\ export.step = "decoding" /\ export.rest = <<>>
    /\ export' = IF export.file = <<>> \/ export.records = <<>>
                 THEN [export EXCEPT !.step = "refused"]
                 ELSE [export EXCEPT !.step = "stored"]
                      @@ [packets |-> Expanded(export.records)]

ExportNext ==
    ReadPacket \/ WriteExport \/ CollectExport \/ DecodeMessage \/ StorePackets

-----------------------------------------------------------------------------
(* Properties.                                                              *)

Original(capture, format) == SelectSeq(capture, LAMBDA p : Exportable(format, p))

TimeOrdered(capture) == \A i, j \in DOMAIN capture : i < j => capture[i].ts <= capture[j].ts

\* What was decoded is what the messages of the file stand for, in their order,
\* each read with the template of its own exporter; and a file is refused for
\* a reason: a record of v5 that ends before it starts, a lost template, a
\* layout without an element that is needed, or nothing in it.
DecodedAsSent ==
    LET SentBy(file) == FlattenSeq([i \in DOMAIN file |-> file[i].sent])
    IN  /\ export.step = "stored" => export.records = SentBy(export.file)
        /\ export.step = "refused" =>
              \/ export.file = <<>> \/ SentBy(export.file) = <<>>
              \/ export.format = "v5" /\ ~TimeOrdered(export.capture)
              \/ export.format = "ipfix" /\ ~export.whole

WithoutHandshakes(edges) == {[e EXCEPT !.confidence.established = FALSE] : e \in edges}

\* "the same real pcap through path A (pcap) and path B (export -> ingest) gives
\* identical node sets, edge sets": whatever the timeouts cut, the packets of
\* every direction of a five-tuple are all there; and when the capture is in
\* order of time, the nodes have the same times and the edges the same flows,
\* sessions and counts, and differ in the evidence of handshakes alone,
\* provided the exporter's idle timeout is not longer than the sessions'.
OnlyHandshakesAreLost ==
    (export.step = "stored" /\ export.whole) =>
        LET original == Original(export.capture, export.format)
            Count(packets, r) == Cardinality({i \in DOMAIN packets :
                                                 ExportKey(packets[i]) = ExportKey(r)})
            before == OrderFree(BatchGraph(original))
            after == OrderFree(BatchGraph(export.packets))
        IN  /\ Len(original) = Len(export.packets)
            /\ \A i \in DOMAIN original :
                  Count(export.packets, original[i]) = Count(original, original[i])
            /\ {e.ends : e \in after.edges} = {e.ends : e \in before.edges}
            /\ (TimeOrdered(export.capture) /\ Inactive <= UdpIdle) =>
                  /\ after.nodes = before.nodes
                  /\ after.edges = WithoutHandshakes(before.edges)

ExportIsFaithful == export # NoExport => DecodedAsSent /\ OnlyHandshakesAreLost
=============================================================================
