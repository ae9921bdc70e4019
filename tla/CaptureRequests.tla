-------------------------- MODULE CaptureRequests --------------------------
(***************************************************************************)
(* Requests that compute over the files of one capture                     *)
(* (backend/app/api/routes), each in a thread of the server, and a caller  *)
(* that lists the flows page by page                                       *)
(* (sdk/python/netscope_client/client.py).                                 *)
(*                                                                         *)
(* Nothing is cached: every GET /flows and GET /topology (and every        *)
(* question about a capture, which keeps no topology and is left out)      *)
(* normalizes raw.pcap again (a flow export was normalized when it was     *)
(* ingested), reads the packets, writes them back with their directions,   *)
(* and writes the flows.  A file is written through a temporary one whose  *)
(* name is the same for all writers: opening it truncates it, the data     *)
(* goes where the opened file is by then (under the temporary name, under  *)
(* the real one, or unlinked), and it is renamed.                          *)
(*                                                                         *)
(* Content is what the text says of the whole capture: all its packets,    *)
(* with directions or without (the values of the enumeration are equally   *)
(* long, so the two files are as well), all its flows, a graph of it; or   *)
(* nothing, which reads as an empty list.                                  *)
(***************************************************************************)
EXTENDS Integers, Sequences, FiniteSets, SequencesExt

CONSTANTS Handlers,     \* threads of the server
          Captured,     \* kinds of captures: "pcap", "export"
          AllFlows,     \* the flows of the capture, in order
          PageSize,     \* limit
          Retries,      \* retries of a read
          MaxRequests   \* bound on requests

ASSUME RequestsAssumption ==
    /\ Captured \subseteq {"pcap", "export"} /\ AllFlows \in Seq(ToSet(AllFlows))
    /\ PageSize \in Nat \ {0} /\ Retries \in Nat /\ MaxRequests \in Nat

VARIABLES captured,    \* the kind of the capture
          paths,       \* file -> content, or Absent
          temps,       \* the same of its temporary file
          handlers,    \* handler -> what it does
          caller,      \* the one who pages
          requests,    \* bound
          overlapped   \* history: two requests were under way at a time

service == <<captured, paths, temps, handlers, caller, requests, overlapped>>

Files == {"packets", "flows", "topology"}
Kinds == {"flows", "topology"}
Absent == "absent"
Nothing == "nothing"

Resting == [kind |-> "flows", todo |-> <<>>, fd |-> "closed", packets |-> Nothing,
            status |-> 0, body |-> Nothing, alone |-> FALSE]

ServiceInit ==
    /\ captured \in Captured
    /\ paths = [f \in Files |-> IF f = "packets" /\ captured = "export" THEN "undirected" ELSE Absent]
    /\ temps = [f \in Files |-> Absent]
    /\ handlers = [h \in Handlers |-> Resting]
    /\ caller = [pc |-> "ready", handler |-> {}, attempt |-> 0, offset |-> 0, items |-> <<>>]
    /\ requests = 0
    /\ overlapped = FALSE

-----------------------------------------------------------------------------
(* A request.                                                               *)

Recompute == <<"read_packets", "write_packets", "write_flows">>

\* Mistaken form of Steps: packets that are there are not normalized again.
StepsNormalizedOnce(kind) ==
    (IF captured = "pcap" /\ paths["packets"] = Absent THEN <<"normalize">> ELSE <<>>)
    \o Recompute
    \o (IF kind = "flows" THEN <<>> ELSE <<"read_nodes", "read_edges", "write_topology">>)

\* What is left to do for a request.
Steps(kind) ==
    (IF captured = "pcap" THEN <<"normalize">> ELSE <<>>)
    \o Recompute
    \o (IF kind = "flows" THEN <<>> ELSE <<"read_nodes", "read_edges", "write_topology">>)

Working(h) == handlers[h].todo # <<>>

Begin(h, kind) ==
    LET others == {k \in Handlers \ {h} : Working(k)}
    IN  /\ ~Working(h)
        /\ requests < MaxRequests
        /\ requests' = requests + 1
        /\ overlapped' = (overlapped \/ others # {})
        /\ handlers' = [k \in Handlers |->
               IF k = h THEN [Resting EXCEPT !.kind = kind, !.todo = Steps(kind),
                                             !.alone = (others = {})]
               ELSE [handlers[k] EXCEPT !.alone = @ /\ ~Working(k)]]
        /\ UNCHANGED <<captured, paths, temps>>

Doing(h, step) == Working(h) /\ Head(handlers[h].todo) = step

\* The file a step writes, and what it writes there.
Target(step) ==
    CASE step \in {"normalize", "write_packets"} -> "packets"
      [] step = "write_flows" -> "flows"
      [] step = "write_topology" -> "topology"
      [] OTHER -> "none"

Directed(packets) == IF packets = Nothing THEN Nothing ELSE "directed"
FlowsFrom(packets) == IF packets = Nothing THEN Nothing ELSE "flows"

Data(h) ==
    CASE Doing(h, "normalize") -> "undirected"
      [] Doing(h, "write_packets") -> Directed(handlers[h].packets)
      [] Doing(h, "write_flows") -> FlowsFrom(handlers[h].packets)
      [] OTHER -> handlers[h].body

Length ==
    [nothing |-> 0, undirected |-> 1, directed |-> 1, flows |-> 1,
     empty_graph |-> 1, nodes |-> 2, graph |-> 3, mixed |-> 4]

\* Data written from the start of a file that holds `old'.
Over(old, data) ==
    IF data = Nothing THEN old ELSE IF Length[data] < Length[old] THEN "mixed" ELSE data

\* A step is over; the last one answers 200.
Advance(h, changed) ==
    handlers' = [handlers EXCEPT ![h] =
        [changed EXCEPT !.todo = Tail(@),
                        !.status = IF Len(changed.todo) = 1 THEN 200 ELSE 0]]

OpenTemp(h) ==
    /\ Working(h) /\ Target(Head(handlers[h].todo)) \in Files
    /\ handlers[h].fd = "closed"
    /\ temps' = [temps EXCEPT ![Target(Head(handlers[h].todo))] = Nothing]
    /\ handlers' = [handlers EXCEPT ![h].fd = "temp",
           ![h].body = IF Doing(h, "write_flows") THEN Data(h) ELSE @]
    /\ UNCHANGED <<captured, paths, caller, requests, overlapped>>

WriteData(h) ==
    LET f == Target(Head(handlers[h].todo))
        fd == handlers[h].fd
    IN  /\ fd \in {"temp", "path", "gone"}
        /\ temps' = IF fd = "temp" THEN [temps EXCEPT ![f] = Over(@, Data(h))] ELSE temps
        /\ paths' = IF fd = "path" THEN [paths EXCEPT ![f] = Over(@, Data(h))] ELSE paths
        /\ handlers' = [handlers EXCEPT ![h].fd = "written"]
        /\ UNCHANGED <<captured, caller, requests, overlapped>>

\* Where the others' opened files are once f has been renamed.
Moved(h, f) ==
    [k \in Handlers |->
        IF k # h /\ Working(k) /\ Target(Head(handlers[k].todo)) = f
        THEN [handlers[k] EXCEPT !.fd = CASE @ = "path" -> "gone" [] @ = "temp" -> "path" [] OTHER -> @]
        ELSE handlers[k]]

\* Without the temporary file the rename fails, and with it the request.
Rename(h) ==
    LET f == Target(Head(handlers[h].todo))
    IN  /\ handlers[h].fd = "written"
        /\ \/ /\ temps[f] # Absent
              /\ paths' = [paths EXCEPT ![f] = temps[f]]
              /\ temps' = [temps EXCEPT ![f] = Absent]
              /\ handlers' = [Moved(h, f) EXCEPT ![h] =
                     [handlers[h] EXCEPT
                               !.todo = Tail(@), !.fd = "closed",
                               !.packets = IF Doing(h, "write_flows") THEN Nothing ELSE @,
                               !.status = IF Len(handlers[h].todo) = 1 THEN 200 ELSE 0]]
           \/ /\ temps[f] = Absent
              /\ handlers' = [handlers EXCEPT
                     ![h] = [Resting EXCEPT !.status = 500, !.alone = handlers[h].alone]]
              /\ UNCHANGED <<paths, temps>>
        /\ UNCHANGED <<captured, caller, requests, overlapped>>

\* Reads are of what the file holds now.
ReadFile(h) ==
    /\ \/ Doing(h, "read_packets") /\ Advance(h, [handlers[h] EXCEPT !.packets = paths["packets"]])
       \/ /\ Doing(h, "read_nodes")
          /\ Advance(h, [handlers[h] EXCEPT !.body =
                            IF paths["packets"] = Nothing THEN "empty_graph" ELSE "nodes"])
       \/ /\ Doing(h, "read_edges")
          /\ Advance(h, [handlers[h] EXCEPT !.body =
                            IF @ = "nodes" /\ paths["flows"] = "flows" THEN "graph" ELSE @])
    /\ UNCHANGED <<captured, paths, temps, caller, requests, overlapped>>

-----------------------------------------------------------------------------
(* paginate() over flows(), with the retries of _request.                   *)

AskPage ==
    /\ caller.pc = "ready"
    /\ \E h \in Handlers :
          /\ Begin(h, "flows")
          /\ caller' = [caller EXCEPT !.pc = "waiting", !.handler = {h}]

TakePage ==
    /\ caller.pc = "waiting"
    /\ \E h \in caller.handler :
          LET listed == IF handlers[h].body = "flows" THEN AllFlows ELSE <<>>
              page == SubSeq(listed, caller.offset + 1,
                             Min({caller.offset + PageSize, Len(listed)}))
              offset == caller.offset + Len(page)
          IN  /\ ~Working(h)
              /\ caller' =
                    IF handlers[h].status # 200 THEN [caller EXCEPT !.pc = "raised", !.handler = {}]
                    ELSE [caller EXCEPT
                             !.pc = IF page = <<>> \/ offset >= Len(listed) THEN "done" ELSE "ready",
                             !.handler = {}, !.attempt = 0, !.offset = offset,
                             !.items = @ \o page]
    /\ UNCHANGED <<captured, paths, temps, handlers, requests, overlapped>>

\* No answer, in time or at all: asked again, or given up.
Unanswered ==
    [caller EXCEPT !.handler = {},
                   !.pc = IF caller.attempt < Retries THEN "ready" ELSE "raised",
                   !.attempt = @ + 1]

\* The handler it waited for goes on.
TimeOut ==
    /\ caller.pc = "waiting"
    /\ caller' = Unanswered
    /\ UNCHANGED <<captured, paths, temps, handlers, requests, overlapped>>

\* Another request for the capture.
Disturb ==
    /\ \E h \in Handlers \ caller.handler, kind \in Kinds : Begin(h, kind)
    /\ UNCHANGED caller

\* The server is killed and started again.
Restart ==
    /\ \E h \in Handlers : Working(h)
    /\ handlers' = [h \in Handlers |-> Resting]
    /\ caller' = IF caller.pc = "waiting" THEN Unanswered ELSE caller
    /\ UNCHANGED <<captured, paths, temps, requests, overlapped>>

ServiceNext ==
    \/ \E h \in Handlers : OpenTemp(h) \/ WriteData(h) \/ Rename(h) \/ ReadFile(h)
    \/ AskPage \/ TakePage \/ TimeOut \/ Disturb \/ Restart

-----------------------------------------------------------------------------
(* Properties.                                                              *)

Right(kind) == IF kind = "flows" THEN "flows" ELSE "graph"

\* A request that nothing runs beside answers with all of the capture, whatever
\* overlapping requests and kills have left in the files; for a flow export, as
\* long as requests never overlapped.  (The routes recompute from raw.pcap.)
LoneRequestIsRight ==
    \A h \in Handlers :
        (handlers[h].status # 0 /\ handlers[h].alone /\ (captured = "pcap" \/ ~overlapped)) =>
            handlers[h].status = 200 /\ handlers[h].body = Right(handlers[h].kind)

\* However the pages were retried, no flow is listed twice, left out or out of
\* order; and unless requests overlapped the list is complete ("Yields every
\* item of a paginated list method").
PagesAreExact ==
    /\ IsPrefix(caller.items, AllFlows)
    /\ caller.pc = "done" /\ ~overlapped => caller.items = AllFlows

\* Both: what a request answers, and what a caller puts together from answers.
AnswersAreWhole == LoneRequestIsRight /\ PagesAreExact

\* While no request runs, a file that is there is whole: "so a killed process
\* never leaves a partial file".  (atomic_write_bytes.)
FilesAreWhole ==
    (\A h \in Handlers : ~Working(h)) =>
        \A f \in {"packets", "flows"} : paths[f] # Nothing
=============================================================================
