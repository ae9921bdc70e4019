----------------------- MODULE CaptureConsumersProofs -----------------------
(* The requests and the pages of CaptureConsumers.                          *)
(*   AnswersAreWhole, for any number of threads and requests, any flows,    *)
(* page size and number of retries.  Four invariants are inductive          *)
(* together: the records of the handlers and what is left of their plans    *)
(* (ServiceTyped), who is alone (Apart), what a request that is alone finds *)
(* and leaves in the files (AllWhole), and what the caller has of the list  *)
(* (Listed).                                                                *)
(*   PagesShowWhatTheySay, for any captures and number of clicks: what is   *)
(* asked for fits what is on the page (ExplorerInv, AttributionInv).        *)
EXTENDS CaptureConsumers, SequenceTheorems, TLAPS

ServiceSpec == ServiceInit /\ [][ServiceNext]_service

\* The requests of a composed behaviour are those of the service alone.
LEMMA ComposedService == Spec => ServiceSpec
<1>1. Init => ServiceInit
  BY DEF Init
<1>2. [Next]_vars => [ServiceNext]_service
  BY DEF Next, vars, Receive, Ask, Watch, End, Collect, Archive, Serve, Export, Browse
<1> QED
  BY <1>1, <1>2, PTL DEF Spec, ServiceSpec

StepNames == {"normalize", "read_packets", "write_packets", "write_flows",
              "read_nodes", "read_edges", "write_topology"}
Words == {Absent, Nothing, "undirected", "directed", "flows",
          "empty_graph", "nodes", "graph", "mixed"}
WholePackets == {"undirected", "directed"}

\* The steps are numbered so that the flows are done at 0 and the graph at -3.
RankOf(step) ==
    CASE step = "normalize" -> 4
      [] step = "read_packets" -> 3
      [] step = "write_packets" -> 2
      [] step = "write_flows" -> 1
      [] step = "read_nodes" -> 0
      [] step = "read_edges" -> 0 - 1
      [] OTHER -> 0 - 2
Rank == [step \in StepNames |-> RankOf(step)]

\* s is the steps from a certain number down, each after the one before.
RunsDown(s, from) ==
    s \in Seq(StepNames) /\ \A n \in 1..Len(s) : Rank[s[n]] = from - n + 1

Remaining(kind, todo) == IF kind = "flows" THEN Len(todo) ELSE Len(todo) - 3
OnPlan(kind, todo) == RunsDown(todo, Remaining(kind, todo))
Left(h) == Remaining(handlers[h].kind, handlers[h].todo)

Statuses == {0, 200, 500}
FileStates == {"closed", "temp", "path", "gone", "written"}
HandlerRecords ==
    [kind : Kinds, todo : Seq(StepNames), fd : FileStates, packets : Words, status : Statuses,
     body : Words, alone : BOOLEAN]

\* A request with steps to do has not answered; one with an open file is at a step
\* that writes.
OfPlan(w) ==
    /\ OnPlan(w.kind, w.todo)
    /\ w.todo # <<>> => w.status = 0
    /\ w.fd # "closed" => w.todo # <<>> /\ Target(Head(w.todo)) \in Files

File(h) == Target(Head(handlers[h].todo))

ServiceTyped ==
    /\ captured \in {"pcap", "export"}
    /\ paths \in [Files -> Words] /\ temps \in [Files -> Words]
    /\ handlers \in [Handlers -> HandlerRecords] /\ \A h \in Handlers : OfPlan(handlers[h])
    /\ overlapped \in BOOLEAN

\* Nothing runs beside a request that is alone, and until requests overlap each is.
Apart ==
    /\ \A h, k \in Handlers : Working(h) /\ handlers[h].alone /\ Working(k) => h = k
    /\ overlapped \/ \A h \in Handlers : Working(h) \/ handlers[h].status # 0 => handlers[h].alone

\* What a request finds and leaves in the files is whole as far as it has come.
Sound(h) == handlers[h].alone /\ (captured = "pcap" \/ ~overlapped)

Come(h, left) ==
    /\ left < 4 => paths["packets"] \in WholePackets
    /\ left \in {1, 2} => handlers[h].packets \in WholePackets
    /\ left < 2 => paths["packets"] = "directed"
    /\ left < 1 => paths["flows"] = "flows"
    /\ left = 0 - 1 => handlers[h].body = "nodes"
    /\ left = 0 - 2 => handlers[h].body = "graph"

\* And so is what it is writing.
Writing(h) ==
    /\ handlers[h].fd \in {"closed", "temp", "written"}
    /\ handlers[h].fd = "temp" => temps[File(h)] = Nothing
    /\ handlers[h].fd = "written" => temps[File(h)] = Data(h)
    /\ handlers[h].fd # "closed" /\ Left(h) = 1 => handlers[h].body = "flows"

AnsweredWhole(h) == handlers[h].status = 200 /\ handlers[h].body = Right(handlers[h].kind)

Fine(h) ==
    /\ Working(h) => Come(h, Left(h)) /\ Writing(h)
    /\ ~Working(h) /\ handlers[h].status # 0 => AnsweredWhole(h)

AllWhole ==
    /\ \A h \in Handlers : Sound(h) => Fine(h)
    /\ captured = "export" /\ ~overlapped => paths["packets"] \in WholePackets

CallerRecords ==
    [pc : {"ready", "waiting", "done", "raised"}, handler : SUBSET Handlers, attempt : Int,
     offset : 0..Len(AllFlows), items : Seq(ToSet(AllFlows))]

\* The caller waits for a request for the flows, and has the first of them.
Listed ==
    /\ caller \in CallerRecords
    /\ caller.pc = "waiting" => \E h \in Handlers :
          /\ caller.handler = {h} /\ handlers[h].kind = "flows"
          /\ Working(h) \/ handlers[h].status # 0
    /\ caller.pc # "waiting" => caller.handler = {}
    /\ caller.items = SubSeq(AllFlows, 1, caller.offset)
    /\ caller.pc = "done" /\ ~overlapped => caller.offset = Len(AllFlows)

-----------------------------------------------------------------------------
(* The plan of a request. *)

LEMMA RankIs ==
    /\ Rank["normalize"] = 4 /\ Rank["read_packets"] = 3 /\ Rank["write_packets"] = 2
    /\ Rank["write_flows"] = 1 /\ Rank["read_nodes"] = 0 /\ Rank["read_edges"] = 0 - 1
    /\ Rank["write_topology"] = 0 - 2
    /\ "normalize" \in StepNames /\ "read_packets" \in StepNames /\ "write_packets" \in StepNames
    /\ "write_flows" \in StepNames /\ "read_nodes" \in StepNames /\ "read_edges" \in StepNames
    /\ "write_topology" \in StepNames
<1>1. \A step \in StepNames : Rank[step] = RankOf(step)
  BY DEF Rank
<1>2. /\ RankOf("normalize") = 4 /\ RankOf("read_packets") = 3 /\ RankOf("write_packets") = 2
      /\ RankOf("write_flows") = 1 /\ RankOf("read_nodes") = 0 /\ RankOf("read_edges") = 0 - 1
      /\ RankOf("write_topology") = 0 - 2
  BY DEF RankOf
<1>3. /\ "normalize" \in StepNames /\ "read_packets" \in StepNames /\ "write_packets" \in StepNames
      /\ "write_flows" \in StepNames /\ "read_nodes" \in StepNames /\ "read_edges" \in StepNames
      /\ "write_topology" \in StepNames
  BY DEF StepNames
<1> QED
  BY <1>1, <1>2, <1>3

LEMMA RunsTogether ==
    ASSUME NEW from \in Int, NEW s, NEW t, RunsDown(s, from), RunsDown(t, from - Len(s))
    PROVE  RunsDown(s \o t, from) /\ Len(s \o t) = Len(s) + Len(t)
<1>1. s \in Seq(StepNames) /\ t \in Seq(StepNames)
  BY DEF RunsDown
<1>2. /\ s \o t \in Seq(StepNames) /\ Len(s \o t) = Len(s) + Len(t)
      /\ \A n \in 1..(Len(s) + Len(t)) :
            (s \o t)[n] = IF n <= Len(s) THEN s[n] ELSE t[n - Len(s)]
  BY <1>1, ConcatProperties
<1>3. ASSUME NEW n \in 1..(Len(s) + Len(t)) PROVE Rank[(s \o t)[n]] = from - n + 1
  <2>1. CASE n <= Len(s)
    <3>1. n \in 1..Len(s)
      BY <2>1, <1>1
    <3> QED BY <1>2, <2>1, <3>1 DEF RunsDown
  <2>2. CASE n > Len(s)
    <3>1. n - Len(s) \in 1..Len(t)
      BY <2>2, <1>1
    <3>2. Rank[t[n - Len(s)]] = (from - Len(s)) - (n - Len(s)) + 1
      BY <3>1 DEF RunsDown
    <3>3. (s \o t)[n] = t[n - Len(s)]
      BY <1>1, <1>2, <2>2
    <3> QED BY <1>1, <3>2, <3>3
  <2> QED BY <1>1, <2>1, <2>2
<1> QED
  BY <1>2, <1>3 DEF RunsDown

\* The parts of a plan.
LEMMA PartsOnPlan ==
    /\ RunsDown(<<"normalize">>, 4) /\ Len(<<"normalize">>) = 1
    /\ RunsDown(Recompute, 3) /\ Len(Recompute) = 3
    /\ RunsDown(<<"read_nodes", "read_edges", "write_topology">>, 0)
    /\ Len(<<"read_nodes", "read_edges", "write_topology">>) = 3
    /\ \A k \in Int : RunsDown(<<>>, k)
<1>1. ASSUME NEW a \in StepNames, NEW k \in Int, Rank[a] = k
      PROVE  RunsDown(<<a>>, k) /\ Len(<<a>>) = 1
  <2> DEFINE s == <<a>>
  <2>1. s \in Seq(StepNames) /\ Len(s) = 1 /\ s[1] = a
    OBVIOUS
  <2> HIDE DEF s
  <2>2. \A n \in 1..1 : Rank[s[n]] = k - n + 1
    BY <1>1, <2>1
  <2>3. RunsDown(s, k)
    BY <2>1, <2>2 DEF RunsDown
  <2> QED BY <2>1, <2>3 DEF s
<1>2. ASSUME NEW a \in StepNames, NEW b \in StepNames, NEW c \in StepNames, NEW k \in Int,
             Rank[a] = k, Rank[b] = k - 1, Rank[c] = k - 2
      PROVE  RunsDown(<<a, b, c>>, k) /\ Len(<<a, b, c>>) = 3
  <2> DEFINE s == <<a, b, c>>
  <2>1. s \in Seq(StepNames) /\ Len(s) = 3 /\ s[1] = a /\ s[2] = b /\ s[3] = c
    OBVIOUS
  <2> HIDE DEF s
  <2>2. ASSUME NEW n \in 1..3 PROVE Rank[s[n]] = k - n + 1
    <3>1. n = 1 \/ n = 2 \/ n = 3
      OBVIOUS
    <3> QED BY <1>2, <2>1, <3>1
  <2>3. RunsDown(s, k)
    BY <2>1, <2>2 DEF RunsDown
  <2> QED BY <2>1, <2>3 DEF s
<1>3. RunsDown(<<"normalize">>, 4) /\ Len(<<"normalize">>) = 1
  <2>1. "normalize" \in StepNames /\ Rank["normalize"] = 4 /\ 4 \in Int
    BY RankIs
  <2> QED BY <1>1, <2>1, Zenon
<1>4. RunsDown(Recompute, 3) /\ Len(Recompute) = 3
  <2>1. /\ "read_packets" \in StepNames /\ "write_packets" \in StepNames
        /\ "write_flows" \in StepNames /\ Rank["read_packets"] = 3
        /\ Rank["write_packets"] = 3 - 1 /\ Rank["write_flows"] = 3 - 2 /\ 3 \in Int
    BY RankIs
  <2> QED BY <1>2, <2>1, Zenon DEF Recompute
<1>5. /\ RunsDown(<<"read_nodes", "read_edges", "write_topology">>, 0)
      /\ Len(<<"read_nodes", "read_edges", "write_topology">>) = 3
  <2>1. /\ "read_nodes" \in StepNames /\ "read_edges" \in StepNames
        /\ "write_topology" \in StepNames /\ Rank["read_nodes"] = 0
        /\ Rank["read_edges"] = 0 - 1 /\ Rank["write_topology"] = 0 - 2 /\ 0 \in Int
    BY RankIs
  <2> QED BY <1>2, <2>1, Zenon
<1>6. \A k \in Int : RunsDown(<<>>, k)
  BY DEF RunsDown
<1> QED
  BY <1>3, <1>4, <1>5, <1>6, Zenon

LEMMA StepsOnPlan ==
    ASSUME NEW kind \in Kinds
    PROVE  /\ OnPlan(kind, Steps(kind)) /\ Steps(kind) # <<>>
           /\ Remaining(kind, Steps(kind)) = IF captured = "pcap" THEN 4 ELSE 3
<1> DEFINE first == IF captured = "pcap" THEN <<"normalize">> ELSE <<>>
           last == IF kind = "flows" THEN <<>> ELSE <<"read_nodes", "read_edges", "write_topology">>
           from == IF captured = "pcap" THEN 4 ELSE 3
<1>1. Steps(kind) = (first \o Recompute) \o last
  BY Zenon DEF Steps
<1>2. from \in Int /\ RunsDown(first, from) /\ from - Len(first) = 3 /\ Len(first) \in Nat
  <2>1. CASE captured = "pcap"
    BY <2>1, PartsOnPlan
  <2>2. CASE captured # "pcap"
    BY <2>2, PartsOnPlan
  <2> QED BY <2>1, <2>2
<1>3. RunsDown(last, 0) /\ Len(last) = (IF kind = "flows" THEN 0 ELSE 3)
  <2>1. CASE kind = "flows"
    BY <2>1, PartsOnPlan
  <2>2. CASE kind # "flows"
    BY <2>2, PartsOnPlan
  <2> QED BY <2>1, <2>2
<1>4. from = IF captured = "pcap" THEN 4 ELSE 3
  OBVIOUS
<1> HIDE DEF first, last, from
<1>5. /\ RunsDown(first \o Recompute, from)
      /\ Len(first \o Recompute) = Len(first) + 3
  <2>1. RunsDown(Recompute, from - Len(first)) /\ Len(Recompute) = 3
    BY <1>2, PartsOnPlan
  <2>2. /\ RunsDown(first \o Recompute, from)
        /\ Len(first \o Recompute) = Len(first) + Len(Recompute)
    BY <1>2, <2>1, RunsTogether, Zenon
  <2> QED BY <2>1, <2>2
<1>6. from - Len(first \o Recompute) = 0
  BY <1>2, <1>5
<1>7. RunsDown(Steps(kind), from) /\ Len(Steps(kind)) = Len(first) + 3 + Len(last)
  <2>1. RunsDown(last, from - Len(first \o Recompute))
    BY <1>3, <1>6, Zenon
  <2>2. /\ RunsDown(Steps(kind), from)
        /\ Len(Steps(kind)) = Len(first \o Recompute) + Len(last)
    BY <1>1, <1>2, <1>5, <2>1, RunsTogether, Zenon
  <2> QED BY <1>5, <2>2, Zenon
<1>8. Remaining(kind, Steps(kind)) = from /\ Steps(kind) # <<>>
  <2>1. Len(Steps(kind)) = IF kind = "flows" THEN from ELSE from + 3
    BY <1>2, <1>3, <1>7
  <2>2. from > 0 /\ from + 3 > 0
    BY <1>4
  <2> QED BY <1>2, <2>1, <2>2 DEF Remaining
<1> QED
  BY <1>4, <1>7, <1>8 DEF OnPlan

LEMMA NextOnPlan ==
    ASSUME NEW kind \in Kinds, NEW todo, OnPlan(kind, todo), todo # <<>>
    PROVE  /\ Head(todo) \in StepNames /\ Rank[Head(todo)] = Remaining(kind, todo)
           /\ OnPlan(kind, Tail(todo)) /\ Tail(todo) \in Seq(StepNames)
           /\ Remaining(kind, Tail(todo)) = Remaining(kind, todo) - 1
           /\ Len(todo) \in Nat /\ Len(todo) > 0 /\ Len(Tail(todo)) = Len(todo) - 1
           /\ (Tail(todo) = <<>> <=> Len(todo) = 1)
<1>1. /\ todo \in Seq(StepNames) /\ Len(todo) \in Nat /\ Len(todo) > 0
      /\ Head(todo) = todo[1] /\ Tail(todo) \in Seq(StepNames)
      /\ Len(Tail(todo)) = Len(todo) - 1
      /\ \A n \in 1..(Len(todo) - 1) : Tail(todo)[n] = todo[n + 1]
      /\ todo[1] \in StepNames
  BY DEF OnPlan, RunsDown
<1>2. Rank[Head(todo)] = Remaining(kind, todo)
  BY <1>1 DEF OnPlan, RunsDown, Remaining
<1>3. Remaining(kind, Tail(todo)) = Remaining(kind, todo) - 1
  BY <1>1 DEF Remaining
<1>4. OnPlan(kind, Tail(todo))
  <2> SUFFICES ASSUME NEW n \in 1..(Len(todo) - 1)
               PROVE  Rank[Tail(todo)[n]] = Remaining(kind, Tail(todo)) - n + 1
    BY <1>1 DEF OnPlan, RunsDown
  <2>1. n + 1 \in 1..Len(todo) /\ Tail(todo)[n] = todo[n + 1]
    BY <1>1
  <2>2. Rank[todo[n + 1]] = Remaining(kind, todo) - (n + 1) + 1
    BY <2>1 DEF OnPlan, RunsDown
  <2>3. Remaining(kind, todo) \in Int
    BY <1>1 DEF Remaining
  <2> QED BY <1>3, <2>1, <2>2, <2>3
<1>5. Tail(todo) = <<>> <=> Len(todo) = 1
  <2>1. Tail(todo) = <<>> <=> Len(Tail(todo)) = 0
    BY <1>1
  <2> QED BY <1>1, <2>1
<1> QED
  BY <1>1, <1>2, <1>3, <1>4, <1>5

-----------------------------------------------------------------------------
(* Types. *)

LEMMA StepIs ==
    ASSUME NEW step \in StepNames
    PROVE  /\ step = "normalize" <=> Rank[step] = 4
           /\ step = "read_packets" <=> Rank[step] = 3
           /\ step = "write_packets" <=> Rank[step] = 2
           /\ step = "write_flows" <=> Rank[step] = 1
           /\ step = "read_nodes" <=> Rank[step] = 0
           /\ step = "read_edges" <=> Rank[step] = 0 - 1
           /\ step = "write_topology" <=> Rank[step] = 0 - 2
           /\ Rank[step] \in Int
           /\ Target(step) = IF Rank[step] \in {4, 2} THEN "packets"
                             ELSE IF Rank[step] = 1 THEN "flows"
                             ELSE IF Rank[step] = 0 - 2 THEN "topology" ELSE "none"
  BY RankIs DEF StepNames, Target

\* What a request under way does next.
LEMMA AtWork ==
    ASSUME ServiceTyped, NEW h \in Handlers, Working(h)
    PROVE  /\ handlers[h] \in HandlerRecords /\ handlers[h].status = 0
           /\ Head(handlers[h].todo) \in StepNames /\ Rank[Head(handlers[h].todo)] = Left(h)
           /\ Left(h) \in Int
           /\ OnPlan(handlers[h].kind, Tail(handlers[h].todo))
           /\ Tail(handlers[h].todo) \in Seq(StepNames)
           /\ Remaining(handlers[h].kind, Tail(handlers[h].todo)) = Left(h) - 1
           /\ Len(handlers[h].todo) \in Nat /\ Len(handlers[h].todo) > 0
           /\ Tail(handlers[h].todo) = <<>> <=> Len(handlers[h].todo) = 1
           /\ Left(h) = (IF handlers[h].kind = "flows" THEN Len(handlers[h].todo)
                         ELSE Len(handlers[h].todo) - 3)
<1>1. /\ handlers[h] \in HandlerRecords /\ OfPlan(handlers[h]) /\ handlers[h].todo # <<>>
  BY DEF ServiceTyped, Working
<1>2. handlers[h].kind \in Kinds
  BY <1>1 DEF HandlerRecords
<1>3. /\ OnPlan(handlers[h].kind, handlers[h].todo) /\ handlers[h].status = 0
  BY <1>1 DEF OfPlan
<1>4. Len(handlers[h].todo) \in Nat /\ Left(h) = Remaining(handlers[h].kind, handlers[h].todo)
  BY <1>2, <1>1, <1>3, NextOnPlan DEF Left
<1>5. Left(h) \in Int
  BY <1>4 DEF Remaining
<1> QED
  BY <1>1, <1>2, <1>3, <1>4, <1>5, NextOnPlan DEF Remaining

LEMMA DataIsWords ==
    ASSUME ServiceTyped, NEW h \in Handlers
    PROVE  Data(h) \in Words /\ \A old \in Words : Over(old, Data(h)) \in Words
<1>1. handlers[h].packets \in Words /\ handlers[h].body \in Words
  BY DEF ServiceTyped, HandlerRecords
<1>2. Data(h) \in Words
  BY <1>1 DEF Data, Directed, FlowsFrom, Words, Nothing
<1> QED
  BY <1>2 DEF Over, Words

LEMMA RestingTyped == Resting \in HandlerRecords /\ OfPlan(Resting)
<1>1. Resting \in HandlerRecords
  BY DEF Resting, HandlerRecords, Kinds, FileStates, Words, Nothing, Statuses
<1>2. RunsDown(<<>>, 0)
  BY PartsOnPlan
<1>3. Remaining("flows", <<>>) = 0
  BY DEF Remaining
<1> QED
  BY <1>1, <1>2, <1>3 DEF OfPlan, OnPlan, Resting

LEMMA InitTyped == ServiceInit => ServiceTyped
<1> SUFFICES ASSUME ServiceInit PROVE ServiceTyped
  OBVIOUS
<1>1. captured \in {"pcap", "export"}
  BY RequestsAssumption DEF ServiceInit
<1>2. paths \in [Files -> Words] /\ temps \in [Files -> Words]
  BY DEF ServiceInit, Words, Absent
<1>3. Resting \in HandlerRecords /\ OfPlan(Resting)
  BY RestingTyped
<1> QED
  BY <1>1, <1>2, <1>3 DEF ServiceInit, ServiceTyped

\* What the steps do to the one handler they are steps of, and to the others.
LEMMA OpenTempDoes ==
    ASSUME ServiceTyped, NEW h \in Handlers, OpenTemp(h)
    PROVE  /\ Working(h) /\ File(h) \in Files /\ handlers[h].fd = "closed"
           /\ temps' = [temps EXCEPT ![File(h)] = Nothing]
           /\ handlers' = [handlers EXCEPT ![h] =
                 [handlers[h] EXCEPT !.fd = "temp",
                    !.body = IF Doing(h, "write_flows") THEN Data(h) ELSE handlers[h].body]]
           /\ UNCHANGED <<captured, paths, caller, requests, overlapped>>
<1> DEFINE b == IF Doing(h, "write_flows") THEN Data(h) ELSE handlers[h].body
<1>1. handlers' = [handlers EXCEPT ![h].fd = "temp", ![h].body = b]
  BY DEF OpenTemp
<1>2. h \in DOMAIN handlers /\ handlers[h] \in HandlerRecords
  BY DEF ServiceTyped
<1> HIDE DEF b
<1>3. handlers' = [handlers EXCEPT ![h] = [handlers[h] EXCEPT !.fd = "temp", !.body = b]]
  BY <1>1, <1>2 DEF HandlerRecords
<1>4. handlers' = [handlers EXCEPT ![h] =
         [handlers[h] EXCEPT !.fd = "temp",
            !.body = IF Doing(h, "write_flows") THEN Data(h) ELSE handlers[h].body]]
  BY <1>3 DEF b
<1> QED
  BY <1>4 DEF OpenTemp, File

LEMMA WriteDataDoes ==
    ASSUME ServiceTyped, NEW h \in Handlers, WriteData(h)
    PROVE  /\ Working(h) /\ File(h) \in Files /\ handlers[h].fd \in {"temp", "path", "gone"}
           /\ temps' = IF handlers[h].fd = "temp"
                       THEN [temps EXCEPT ![File(h)] = Over(temps[File(h)], Data(h))] ELSE temps
           /\ paths' = IF handlers[h].fd = "path"
                       THEN [paths EXCEPT ![File(h)] = Over(paths[File(h)], Data(h))] ELSE paths
           /\ handlers' = [handlers EXCEPT ![h] = [handlers[h] EXCEPT !.fd = "written"]]
           /\ UNCHANGED <<captured, caller, requests, overlapped>>
  BY DEF WriteData, File, ServiceTyped, HandlerRecords, OfPlan, Working

\* The handler k, which h's rename may take the open file away from.
Displaced(k) ==
    \/ handlers'[k] = handlers[k]
    \/ /\ Working(k) /\ handlers[k].fd # "closed"
       /\ \E fd \in FileStates \ {"closed"} : handlers'[k] = [handlers[k] EXCEPT !.fd = fd]

Finished(h, p) ==
    [handlers[h] EXCEPT !.todo = Tail(handlers[h].todo), !.fd = "closed", !.packets = p,
                        !.status = IF Len(handlers[h].todo) = 1 THEN 200 ELSE 0]

Renamed(h) ==
    /\ temps[File(h)] # Absent
    /\ paths' = [paths EXCEPT ![File(h)] = temps[File(h)]]
    /\ temps' = [temps EXCEPT ![File(h)] = Absent]
    /\ handlers'[h] = Finished(h, IF Doing(h, "write_flows") THEN Nothing ELSE handlers[h].packets)
    /\ \A k \in Handlers \ {h} : Displaced(k)

NotThere(h) ==
    /\ temps[File(h)] = Absent
    /\ handlers'[h] = [Resting EXCEPT !.status = 500, !.alone = handlers[h].alone]
    /\ \A k \in Handlers \ {h} : handlers'[k] = handlers[k]
    /\ UNCHANGED <<paths, temps>>

LEMMA RenameDoes ==
    ASSUME ServiceTyped, NEW h \in Handlers, Rename(h)
    PROVE  /\ Working(h) /\ File(h) \in Files /\ handlers[h].fd = "written"
           /\ UNCHANGED <<captured, caller, requests, overlapped>>
           /\ handlers' \in [Handlers -> {handlers'[k] : k \in Handlers}]
           /\ Renamed(h) \/ NotThere(h)
<1>1. Working(h) /\ File(h) \in Files
  BY DEF Rename, ServiceTyped, OfPlan, Working, File
<1>2. CASE temps[File(h)] # Absent
  <2>1. handlers' = [Moved(h, File(h)) EXCEPT ![h] = [handlers[h] EXCEPT
             !.todo = Tail(handlers[h].todo), !.fd = "closed",
             !.packets = IF Doing(h, "write_flows") THEN Nothing ELSE handlers[h].packets,
             !.status = IF Len(handlers[h].todo) = 1 THEN 200 ELSE 0]]
    BY <1>2 DEF Rename, File
  <2>2. Moved(h, File(h))[h] = handlers[h] /\ DOMAIN Moved(h, File(h)) = Handlers
    BY DEF Moved
  <2>3. ASSUME NEW k \in Handlers \ {h}
        PROVE  \/ Moved(h, File(h))[k] = handlers[k]
               \/ /\ Working(k) /\ handlers[k].fd # "closed"
                  /\ \E fd \in FileStates \ {"closed"} :
                        Moved(h, File(h))[k] = [handlers[k] EXCEPT !.fd = fd]
    <3>1. handlers[k].fd \in FileStates /\ handlers[k] \in HandlerRecords
      BY DEF ServiceTyped, HandlerRecords
    <3>2. CASE Working(k) /\ Target(Head(handlers[k].todo)) = File(h)
      <4>1. Moved(h, File(h))[k] = [handlers[k] EXCEPT !.fd =
               CASE @ = "path" -> "gone" [] @ = "temp" -> "path" [] OTHER -> @]
        BY <3>2 DEF Moved
      <4>2. CASE handlers[k].fd = "path"
        BY <3>2, <4>1, <4>2 DEF FileStates
      <4>3. CASE handlers[k].fd = "temp"
        BY <3>2, <4>1, <4>3 DEF FileStates
      <4>4. CASE handlers[k].fd \notin {"path", "temp"}
        <5>1. Moved(h, File(h))[k] = [handlers[k] EXCEPT !.fd = handlers[k].fd]
          BY <4>1, <4>4
        <5> QED BY <3>1, <5>1 DEF HandlerRecords
      <4> QED BY <4>2, <4>3, <4>4
    <3>3. CASE ~(Working(k) /\ Target(Head(handlers[k].todo)) = File(h))
      BY <3>3 DEF Moved
    <3> QED BY <3>2, <3>3
  <2>4. /\ paths' = [paths EXCEPT ![File(h)] = temps[File(h)]]
        /\ temps' = [temps EXCEPT ![File(h)] = Absent]
        /\ handlers[h].fd = "written"
        /\ UNCHANGED <<captured, caller, requests, overlapped>>
    BY <1>2 DEF Rename, File
  <2> DEFINE m == Moved(h, File(h))
             w == [handlers[h] EXCEPT
                     !.todo = Tail(handlers[h].todo), !.fd = "closed",
                     !.packets = IF Doing(h, "write_flows") THEN Nothing ELSE handlers[h].packets,
                     !.status = IF Len(handlers[h].todo) = 1 THEN 200 ELSE 0]
  <2>5. handlers' = [m EXCEPT ![h] = w] /\ DOMAIN m = Handlers
    BY <2>1, <2>2, Zenon
  <2> HIDE DEF m, w
  <2>8. /\ handlers'[h] = w /\ \A k \in Handlers \ {h} : handlers'[k] = m[k]
        /\ handlers' \in [Handlers -> {handlers'[k] : k \in Handlers}]
    BY <2>5
  <2>9. \A k \in Handlers \ {h} : handlers'[k] = Moved(h, File(h))[k]
    BY <2>8 DEF m
  <2>10. handlers'[h] = Finished(h, IF Doing(h, "write_flows") THEN Nothing
                                     ELSE handlers[h].packets)
    BY <2>8, Zenon DEF w, Finished
  <2>11. \A k \in Handlers \ {h} : Displaced(k)
    BY <2>3, <2>9, Zenon DEF Displaced
  <2>12. Renamed(h)
    BY <1>2, <2>4, <2>10, <2>11, Zenon DEF Renamed
  <2> QED BY <1>1, <2>4, <2>8, <2>12
<1>3. CASE temps[File(h)] = Absent
  <2>1. handlers' = [handlers EXCEPT
             ![h] = [Resting EXCEPT !.status = 500, !.alone = handlers[h].alone]]
    BY <1>3 DEF Rename, File
  <2>2. DOMAIN handlers = Handlers
    BY DEF ServiceTyped
  <2>3. /\ handlers'[h] = [Resting EXCEPT !.status = 500, !.alone = handlers[h].alone]
        /\ \A k \in Handlers \ {h} : handlers'[k] = handlers[k]
        /\ handlers' \in [Handlers -> {handlers'[k] : k \in Handlers}]
    <3>1. PICK w : w = [Resting EXCEPT !.status = 500, !.alone = handlers[h].alone]
      OBVIOUS
    <3>2. handlers' = [handlers EXCEPT ![h] = w]
      BY <2>1, <3>1, Zenon
    <3>3. /\ handlers'[h] = w /\ \A k \in Handlers \ {h} : handlers'[k] = handlers[k]
          /\ handlers' \in [Handlers -> {handlers'[k] : k \in Handlers}]
      BY <2>2, <3>2
    <3> QED BY <3>1, <3>3, Zenon
  <2>4. /\ handlers[h].fd = "written" /\ UNCHANGED <<paths, temps>>
        /\ UNCHANGED <<captured, caller, requests, overlapped>>
    BY <1>3 DEF Rename, File
  <2>5. NotThere(h)
    BY <1>3, <2>3, <2>4, Zenon DEF NotThere
  <2> QED BY <1>1, <2>3, <2>4, <2>5
<1> QED
  BY <1>2, <1>3

ReadAs(h, p, b) ==
    /\ handlers' = [handlers EXCEPT ![h] = [handlers[h] EXCEPT
            !.packets = p, !.body = b, !.todo = Tail(handlers[h].todo),
            !.status = IF Len(handlers[h].todo) = 1 THEN 200 ELSE 0]]
    /\ p = IF Left(h) = 3 THEN paths["packets"] ELSE handlers[h].packets
    /\ Left(h) = 0 => b = IF paths["packets"] = Nothing THEN "empty_graph" ELSE "nodes"
    /\ Left(h) = 0 - 1 =>
          b = IF handlers[h].body = "nodes" /\ paths["flows"] = "flows" THEN "graph"
              ELSE handlers[h].body

LEMMA ReadFileDoes ==
    ASSUME ServiceTyped, NEW h \in Handlers, ReadFile(h)
    PROVE  /\ Working(h) /\ UNCHANGED <<captured, paths, temps, caller, requests, overlapped>>
           /\ Left(h) \in {3, 0, 0 - 1}
           /\ \E p, b \in Words : ReadAs(h, p, b)
<1> DEFINE ReadTo(p, b) == [handlers[h] EXCEPT
               !.packets = p, !.body = b, !.todo = Tail(handlers[h].todo),
               !.status = IF Len(handlers[h].todo) = 1 THEN 200 ELSE 0]
           w == handlers[h]
<1>1. Working(h) /\ UNCHANGED <<captured, paths, temps, caller, requests, overlapped>>
  BY DEF ReadFile, Doing
<1>2. /\ w \in HandlerRecords /\ Head(w.todo) \in StepNames
      /\ Rank[Head(w.todo)] = Left(h)
  BY <1>1, AtWork
<1>3. /\ w.packets \in Words /\ w.body \in Words /\ paths["packets"] \in Words
      /\ w = [kind |-> w.kind, todo |-> w.todo, fd |-> w.fd, packets |-> w.packets,
              status |-> w.status, body |-> w.body, alone |-> w.alone]
  BY <1>2 DEF ServiceTyped, HandlerRecords, Files
<1>4. CASE Doing(h, "read_packets")
  <2>1. Left(h) = 3
    BY <1>2, <1>4, StepIs DEF Doing
  <2>2. Advance(h, [handlers[h] EXCEPT !.packets = paths["packets"]])
    BY <1>4 DEF ReadFile, Doing
  <2>3. [[w EXCEPT !.packets = paths["packets"]] EXCEPT !.todo = Tail(@),
            !.status = IF Len([w EXCEPT !.packets = paths["packets"]].todo) = 1 THEN 200 ELSE 0]
          = ReadTo(paths["packets"], w.body)
    BY <1>3
  <2>4. handlers' = [handlers EXCEPT ![h] = ReadTo(paths["packets"], w.body)]
    BY <2>2, <2>3, Zenon DEF Advance
  <2>5. ReadAs(h, paths["packets"], w.body)
    BY <2>1, <2>4 DEF ReadAs
  <2> QED BY <1>1, <1>3, <2>1, <2>5, Zenon
<1>5. CASE Doing(h, "read_nodes")
  <2> DEFINE b == IF paths["packets"] = Nothing THEN "empty_graph" ELSE "nodes"
  <2>1. Left(h) = 0
    BY <1>2, <1>5, StepIs DEF Doing
  <2>2. Advance(h, [handlers[h] EXCEPT !.body = b]) /\ b \in Words
    BY <1>5 DEF ReadFile, Doing, Words
  <2> HIDE DEF b
  <2>3. [[w EXCEPT !.body = b] EXCEPT !.todo = Tail(@),
            !.status = IF Len([w EXCEPT !.body = b].todo) = 1 THEN 200 ELSE 0]
          = ReadTo(w.packets, b)
    BY <1>3
  <2>4. handlers' = [handlers EXCEPT ![h] = ReadTo(w.packets, b)]
    BY <2>2, <2>3, Zenon DEF Advance
  <2>5. ReadAs(h, w.packets, b)
    BY <2>1, <2>4 DEF b, ReadAs
  <2> QED BY <1>1, <1>3, <2>1, <2>2, <2>5, Zenon
<1>6. CASE Doing(h, "read_edges")
  <2> DEFINE b == IF w.body = "nodes" /\ paths["flows"] = "flows" THEN "graph" ELSE w.body
  <2>1. Left(h) = 0 - 1
    BY <1>2, <1>6, StepIs DEF Doing
  <2>2. Advance(h, [handlers[h] EXCEPT !.body = b]) /\ b \in Words
    BY <1>3, <1>6 DEF ReadFile, Doing, Words
  <2> HIDE DEF b
  <2>3. [[w EXCEPT !.body = b] EXCEPT !.todo = Tail(@),
            !.status = IF Len([w EXCEPT !.body = b].todo) = 1 THEN 200 ELSE 0]
          = ReadTo(w.packets, b)
    BY <1>3
  <2>4. handlers' = [handlers EXCEPT ![h] = ReadTo(w.packets, b)]
    BY <2>2, <2>3, Zenon DEF Advance
  <2>5. ReadAs(h, w.packets, b)
    BY <2>1, <2>4 DEF b, ReadAs
  <2> QED BY <1>1, <1>3, <2>1, <2>2, <2>5, Zenon
<1> QED
  BY <1>4, <1>5, <1>6 DEF ReadFile

\* Which steps there are.
LEMMA ServiceSteps ==
    ASSUME [ServiceNext]_service
    PROVE  \/ UNCHANGED service
           \/ \E h \in Handlers : OpenTemp(h) \/ WriteData(h) \/ Rename(h) \/ ReadFile(h)
           \/ \E h \in Handlers, kind \in Kinds : Begin(h, kind)
           \/ UNCHANGED <<captured, paths, temps, handlers, overlapped>>
           \/ Restart
<1>1. ASSUME AskPage PROVE \E h \in Handlers, kind \in Kinds : Begin(h, kind)
  BY <1>1 DEF AskPage, Kinds
<1>2. ASSUME Disturb PROVE \E h \in Handlers, kind \in Kinds : Begin(h, kind)
  BY <1>2 DEF Disturb
<1>3. ASSUME TakePage \/ TimeOut PROVE UNCHANGED <<captured, paths, temps, handlers, overlapped>>
  BY <1>3 DEF TakePage, TimeOut
<1> QED
  BY <1>1, <1>2, <1>3 DEF ServiceNext

\* The request that begins at h.
Begun(h, kind, single) ==
    /\ handlers'[h] = [Resting EXCEPT !.kind = kind, !.todo = Steps(kind), !.alone = single]
    /\ single <=> ~\E k \in Handlers \ {h} : Working(k)

LEMMA BeginDoes ==
    ASSUME ServiceTyped, NEW h \in Handlers, NEW kind \in Kinds, Begin(h, kind)
    PROVE  /\ UNCHANGED <<captured, paths, temps>> /\ ~Working(h) /\ overlapped' \in BOOLEAN
           /\ overlapped \/ (\E k \in Handlers \ {h} : Working(k)) => overlapped'
           /\ handlers' \in [Handlers -> {handlers'[k] : k \in Handlers}]
           /\ \E single \in BOOLEAN : Begun(h, kind, single)
           /\ \A k \in Handlers \ {h} : handlers'[k] =
                 [handlers[k] EXCEPT !.alone = handlers[k].alone /\ ~Working(k)]
<1> DEFINE others == {k \in Handlers \ {h} : Working(k)}
           new(k) == IF k = h THEN [Resting EXCEPT !.kind = kind, !.todo = Steps(kind),
                                                   !.alone = (others = {})]
                     ELSE [handlers[k] EXCEPT !.alone = handlers[k].alone /\ ~Working(k)]
<1>1. /\ UNCHANGED <<captured, paths, temps>> /\ ~Working(h)
      /\ overlapped' = (overlapped \/ others # {})
      /\ handlers' = [k \in Handlers |-> new(k)]
  BY Zenon DEF Begin
<1> HIDE DEF new
<1>2. /\ handlers' \in [Handlers -> {handlers'[k] : k \in Handlers}]
      /\ \A k \in Handlers : handlers'[k] = new(k)
  BY <1>1
<1>3. /\ handlers'[h] = [Resting EXCEPT !.kind = kind, !.todo = Steps(kind), !.alone = (others = {})]
      /\ \A k \in Handlers \ {h} : handlers'[k] =
            [handlers[k] EXCEPT !.alone = handlers[k].alone /\ ~Working(k)]
  BY <1>2, Zenon DEF new
<1>4. (others = {}) <=> ~\E k \in Handlers \ {h} : Working(k)
  OBVIOUS
<1> HIDE DEF others
<1>5. \E single \in BOOLEAN : Begun(h, kind, single)
  <2> WITNESS (others = {}) \in BOOLEAN
  <2> QED BY <1>3, <1>4, Zenon DEF Begun
<1>6. /\ overlapped' \in BOOLEAN
      /\ overlapped \/ (\E k \in Handlers \ {h} : Working(k)) => overlapped'
  BY <1>1, <1>4 DEF ServiceTyped
<1> QED
  BY <1>1, <1>2, <1>3, <1>5, <1>6, Zenon

\* The records of handlers, changed as the steps change them.
RecordIs(w, kind, todo, fd, packets, status, body, alone) ==
    /\ w \in HandlerRecords
    /\ w.kind = kind /\ w.todo = todo /\ w.fd = fd /\ w.packets = packets
    /\ w.status = status /\ w.body = body /\ w.alone = alone

LEMMA RecordBegun ==
    ASSUME NEW r \in HandlerRecords, NEW kind \in Kinds, NEW todo \in Seq(StepNames),
           NEW alone \in BOOLEAN, NEW w, w = [r EXCEPT !.kind = kind, !.todo = todo, !.alone = alone]
    PROVE  RecordIs(w, kind, todo, r.fd, r.packets, r.status, r.body, alone)
  BY DEF HandlerRecords, RecordIs

LEMMA RecordFinished ==
    ASSUME NEW r \in HandlerRecords, NEW todo \in Seq(StepNames), NEW p \in Words,
           NEW status \in Statuses, NEW fd \in FileStates, NEW w,
           w = [r EXCEPT !.todo = todo, !.fd = fd, !.packets = p, !.status = status]
    PROVE  RecordIs(w, r.kind, todo, fd, p, status, r.body, r.alone)
  BY DEF HandlerRecords, RecordIs

LEMMA RecordFailed ==
    ASSUME NEW r \in HandlerRecords, NEW alone \in BOOLEAN,
           NEW status \in Statuses, NEW w, w = [r EXCEPT !.status = status, !.alone = alone]
    PROVE  RecordIs(w, r.kind, r.todo, r.fd, r.packets, status, r.body, alone)
  BY DEF HandlerRecords, RecordIs

LEMMA RecordJoined ==
    ASSUME NEW r \in HandlerRecords, NEW alone \in BOOLEAN, NEW w, w = [r EXCEPT !.alone = alone]
    PROVE  RecordIs(w, r.kind, r.todo, r.fd, r.packets, r.status, r.body, alone)
  BY DEF HandlerRecords, RecordIs

\* The records of handlers one step on.
LEMMA SteppedTyped ==
    ASSUME ServiceTyped, NEW h \in Handlers, Working(h), NEW w \in HandlerRecords,
           w.kind = handlers[h].kind, w.todo = Tail(handlers[h].todo), w.fd = "closed",
           w.status = IF Len(handlers[h].todo) = 1 THEN 200 ELSE 0
    PROVE  OfPlan(w)
<1>1. OnPlan(w.kind, w.todo)
  BY AtWork
<1>2. w.todo # <<>> => w.status = 0
  BY AtWork
<1> QED
  BY <1>1, <1>2 DEF OfPlan

-----------------------------------------------------------------------------
(* What a step makes of the fields. *)

\* Of the handlers that the step is not one of.
LeftAlone(k) ==
    /\ handlers'[k].kind = handlers[k].kind /\ handlers'[k].todo = handlers[k].todo
    /\ handlers'[k].status = handlers[k].status /\ handlers'[k].alone = handlers[k].alone
    /\ ~Working(k) => handlers'[k] = handlers[k]

HandlerBecomes(h, todo, fd, packets, status, body) ==
    RecordIs(handlers'[h], handlers[h].kind, todo, fd, packets, status, body, handlers[h].alone)

Answer(h) == IF Len(handlers[h].todo) = 1 THEN 200 ELSE 0

LEMMA OpenTempFields ==
    ASSUME ServiceTyped, NEW h \in Handlers, OpenTemp(h)
    PROVE  /\ HandlerBecomes(h, handlers[h].todo, "temp", handlers[h].packets, 0,
                      IF Left(h) = 1 THEN FlowsFrom(handlers[h].packets) ELSE handlers[h].body)
           /\ \A k \in Handlers \ {h} : handlers'[k] = handlers[k]
<1> DEFINE b == IF Doing(h, "write_flows") THEN Data(h) ELSE handlers[h].body
           w == [handlers[h] EXCEPT !.fd = "temp", !.body = b]
<1>1. handlers' = [handlers EXCEPT ![h] = w] /\ Working(h)
  BY OpenTempDoes
<1>2. b = IF Left(h) = 1 THEN FlowsFrom(handlers[h].packets) ELSE handlers[h].body
  <2>1. Doing(h, "write_flows") <=> Left(h) = 1
    BY <1>1, AtWork, StepIs DEF Doing
  <2>2. Doing(h, "write_flows") => Data(h) = FlowsFrom(handlers[h].packets)
    BY DEF Doing, Data
  <2> QED BY <2>1, <2>2
<1>3. b \in Words
  BY DataIsWords DEF ServiceTyped, HandlerRecords
<1> HIDE DEF b
<1>4. handlers[h] \in HandlerRecords /\ "temp" \in FileStates /\ handlers[h].status = 0
  BY <1>1, AtWork DEF FileStates
<1>5. RecordIs(w, handlers[h].kind, handlers[h].todo, "temp", handlers[h].packets, 0, b,
         handlers[h].alone)
  BY <1>3, <1>4 DEF HandlerRecords, RecordIs
<1> HIDE DEF w
<1>6. handlers'[h] = w /\ \A k \in Handlers \ {h} : handlers'[k] = handlers[k]
  BY <1>1 DEF ServiceTyped
<1> QED
  BY <1>2, <1>5, <1>6, Zenon DEF HandlerBecomes

LEMMA WriteDataFields ==
    ASSUME ServiceTyped, NEW h \in Handlers, WriteData(h)
    PROVE  /\ HandlerBecomes(h, handlers[h].todo, "written", handlers[h].packets, 0, handlers[h].body)
           /\ \A k \in Handlers \ {h} : handlers'[k] = handlers[k]
<1> DEFINE w == [handlers[h] EXCEPT !.fd = "written"]
<1>1. handlers' = [handlers EXCEPT ![h] = w] /\ Working(h)
  BY WriteDataDoes
<1>2. handlers[h] \in HandlerRecords /\ "written" \in FileStates /\ handlers[h].status = 0
  BY <1>1, AtWork DEF FileStates
<1>3. RecordIs(w, handlers[h].kind, handlers[h].todo, "written", handlers[h].packets, 0,
         handlers[h].body, handlers[h].alone)
  BY <1>2 DEF HandlerRecords, RecordIs
<1> HIDE DEF w
<1>4. handlers'[h] = w /\ \A k \in Handlers \ {h} : handlers'[k] = handlers[k]
  BY <1>1 DEF ServiceTyped
<1> QED
  BY <1>3, <1>4, Zenon DEF HandlerBecomes

LEMMA RenamedFields ==
    ASSUME ServiceTyped, NEW h \in Handlers, Working(h), Renamed(h)
    PROVE  HandlerBecomes(h, Tail(handlers[h].todo), "closed",
                   IF Left(h) = 1 THEN Nothing ELSE handlers[h].packets,
                   Answer(h), handlers[h].body)
<1> DEFINE q == IF Doing(h, "write_flows") THEN Nothing ELSE handlers[h].packets
<1>1. Doing(h, "write_flows") <=> Left(h) = 1
  BY AtWork, StepIs DEF Doing
<1>2. q = IF Left(h) = 1 THEN Nothing ELSE handlers[h].packets
  BY <1>1
<1>3. handlers'[h] = Finished(h, q)
  BY Zenon DEF Renamed
<1>4. q \in Words
  BY DEF ServiceTyped, HandlerRecords, Words, Nothing
<1> HIDE DEF q
<1>5. /\ handlers[h] \in HandlerRecords /\ Tail(handlers[h].todo) \in Seq(StepNames)
      /\ Answer(h) \in Statuses /\ "closed" \in FileStates
  BY AtWork DEF FileStates, Statuses, Answer
<1>6. handlers'[h] = [handlers[h] EXCEPT !.todo = Tail(handlers[h].todo), !.fd = "closed",
                                         !.packets = q, !.status = Answer(h)]
  BY <1>3, Zenon DEF Finished, Answer
<1>7. HandlerBecomes(h, Tail(handlers[h].todo), "closed", q, Answer(h), handlers[h].body)
  <2>1. PICK r \in HandlerRecords, todo \in Seq(StepNames), status \in Statuses,
             fd \in FileStates, p \in Words :
           /\ r = handlers[h] /\ todo = Tail(handlers[h].todo) /\ status = Answer(h)
           /\ fd = "closed" /\ p = q
    BY <1>4, <1>5
  <2>2. handlers'[h] = [r EXCEPT !.todo = todo, !.fd = fd, !.packets = p, !.status = status]
    BY <1>6, <2>1, Zenon
  <2>3. RecordIs(handlers'[h], r.kind, todo, fd, p, status, r.body, r.alone)
    BY <2>2, RecordFinished, Zenon
  <2> QED BY <2>1, <2>3, Zenon DEF HandlerBecomes
<1> QED
  BY <1>2, <1>7, Zenon

LEMMA ReadFields ==
    ASSUME ServiceTyped, NEW h \in Handlers, ReadFile(h), NEW p \in Words, NEW b \in Words,
           ReadAs(h, p, b)
    PROVE  /\ HandlerBecomes(h, Tail(handlers[h].todo), "closed", p, Answer(h), b)
           /\ \A k \in Handlers \ {h} : handlers'[k] = handlers[k]
<1> DEFINE w == [handlers[h] EXCEPT !.packets = p, !.body = b, !.todo = Tail(handlers[h].todo),
                                    !.status = Answer(h)]
<1>1. Working(h) /\ Left(h) \in {3, 0, 0 - 1}
  BY ReadFileDoes
<1>2. handlers' = [handlers EXCEPT ![h] = w]
  BY Zenon DEF ReadAs, Answer
<1>3. /\ handlers[h] \in HandlerRecords /\ Tail(handlers[h].todo) \in Seq(StepNames)
      /\ handlers[h].fd = "closed" /\ Answer(h) \in Statuses
  <2>1. File(h) \notin Files
    <3>1. Head(handlers[h].todo) \in StepNames /\ Rank[Head(handlers[h].todo)] = Left(h)
      BY <1>1, AtWork
    <3>2. PICK step \in StepNames : step = Head(handlers[h].todo)
      BY <3>1
    <3>3. Rank[step] \in {3, 0, 0 - 1}
      BY <1>1, <3>1, <3>2
    <3>4. Target(step) = "none"
      BY <3>3, StepIs
    <3> QED BY <3>2, <3>4 DEF File, Files
  <2>2. handlers[h].fd = "closed"
    <3>1. OfPlan(handlers[h])
      BY DEF ServiceTyped
    <3> QED BY <2>1, <3>1, Zenon DEF OfPlan, File
  <2>3. Answer(h) \in Statuses
    BY ONLY DEF Answer, Statuses
  <2> QED BY <1>1, <2>2, <2>3, AtWork
<1>4. RecordIs(w, handlers[h].kind, Tail(handlers[h].todo), "closed", p, Answer(h), b,
         handlers[h].alone)
  BY <1>3 DEF HandlerRecords, RecordIs
<1> HIDE DEF w
<1>5. handlers'[h] = w /\ \A k \in Handlers \ {h} : handlers'[k] = handlers[k]
  BY <1>2 DEF ServiceTyped
<1> QED
  BY <1>4, <1>5, Zenon DEF HandlerBecomes

LEMMA NotThereFields ==
    ASSUME ServiceTyped, NEW h \in Handlers, NotThere(h)
    PROVE  RecordIs(handlers'[h], "flows", <<>>, "closed", Nothing, 500, Nothing, handlers[h].alone)
<1>1. Resting \in HandlerRecords /\ handlers[h].alone \in BOOLEAN /\ 500 \in Statuses
  BY RestingTyped DEF ServiceTyped, HandlerRecords, Statuses
<1>2. handlers'[h] = [Resting EXCEPT !.status = 500, !.alone = handlers[h].alone]
  BY Zenon DEF NotThere
<1>3. PICK alone \in BOOLEAN, status \in Statuses, r \in HandlerRecords :
         alone = handlers[h].alone /\ status = 500 /\ r = Resting
  BY <1>1
<1>4. handlers'[h] = [r EXCEPT !.status = status, !.alone = alone]
  BY <1>2, <1>3, Zenon
<1>5. RecordIs(handlers'[h], r.kind, r.todo, r.fd, r.packets, status, r.body, alone)
  BY <1>4, RecordFailed, Zenon
<1>6. /\ r.kind = "flows" /\ r.todo = <<>> /\ r.fd = "closed" /\ r.packets = Nothing
      /\ r.body = Nothing
  BY <1>3 DEF Resting
<1> QED
  BY <1>3, <1>5, <1>6, Zenon

LEMMA DisplacedFields ==
    ASSUME ServiceTyped, NEW k \in Handlers, Displaced(k)
    PROVE  LeftAlone(k)
<1>1. handlers[k] \in HandlerRecords
  BY DEF ServiceTyped
<1>2. CASE handlers'[k] = handlers[k]
  BY <1>2 DEF LeftAlone
<1>3. ASSUME NEW fd \in FileStates, Working(k), handlers'[k] = [handlers[k] EXCEPT !.fd = fd]
      PROVE  LeftAlone(k)
  BY <1>1, <1>3 DEF LeftAlone, HandlerRecords
<1> QED
  BY <1>2, <1>3, Zenon DEF Displaced

LEMMA BeginFields ==
    ASSUME ServiceTyped, NEW h \in Handlers, NEW kind \in Kinds, Begin(h, kind)
    PROVE  /\ \E single \in BOOLEAN :
                 /\ RecordIs(handlers'[h], kind, Steps(kind), "closed", Nothing, 0, Nothing, single)
                 /\ single <=> ~\E k \in Handlers \ {h} : Working(k)
           /\ \A k \in Handlers \ {h} :
                 RecordIs(handlers'[k], handlers[k].kind, handlers[k].todo, handlers[k].fd,
                    handlers[k].packets, handlers[k].status, handlers[k].body,
                    handlers[k].alone /\ ~Working(k))
<1>1. captured \in {"pcap", "export"}
  BY DEF ServiceTyped
<1>2. PICK single \in BOOLEAN :
         /\ handlers'[h] = [Resting EXCEPT !.kind = kind, !.todo = Steps(kind), !.alone = single]
         /\ single <=> ~\E k \in Handlers \ {h} : Working(k)
  <2>1. \E single \in BOOLEAN : Begun(h, kind, single)
    BY BeginDoes
  <2> QED BY <2>1, Zenon DEF Begun
<1>3. RecordIs(handlers'[h], kind, Steps(kind), "closed", Nothing, 0, Nothing, single)
  <2>1. Resting \in HandlerRecords /\ Steps(kind) \in Seq(StepNames)
    BY <1>1, RestingTyped, StepsOnPlan DEF OnPlan, RunsDown
  <2>2. PICK todo \in Seq(StepNames), r \in HandlerRecords : todo = Steps(kind) /\ r = Resting
    BY <2>1
  <2>3. handlers'[h] = [r EXCEPT !.kind = kind, !.todo = todo, !.alone = single]
    BY <1>2, <2>2, Zenon
  <2>4. RecordIs(handlers'[h], kind, todo, r.fd, r.packets, r.status, r.body, single)
    BY ONLY <2>3, RecordBegun, ZenonT(60)
  <2>5. r.fd = "closed" /\ r.packets = Nothing /\ r.status = 0 /\ r.body = Nothing
    BY <2>2 DEF Resting
  <2> QED BY <2>2, <2>4, <2>5, Zenon
<1>4. ASSUME NEW k \in Handlers \ {h}
      PROVE  RecordIs(handlers'[k], handlers[k].kind, handlers[k].todo, handlers[k].fd,
                handlers[k].packets, handlers[k].status, handlers[k].body,
                handlers[k].alone /\ ~Working(k))
  <2>1. handlers'[k] = [handlers[k] EXCEPT !.alone = handlers[k].alone /\ ~Working(k)]
    BY BeginDoes
  <2>2. handlers[k] \in HandlerRecords /\ (handlers[k].alone /\ ~Working(k)) \in BOOLEAN
    BY DEF ServiceTyped
  <2>3. PICK alone \in BOOLEAN, r \in HandlerRecords :
           alone = (handlers[k].alone /\ ~Working(k)) /\ r = handlers[k]
    BY <2>2
  <2>4. handlers'[k] = [r EXCEPT !.alone = alone]
    BY <2>1, <2>3, Zenon
  <2>5. RecordIs(handlers'[k], r.kind, r.todo, r.fd, r.packets, r.status, r.body, alone)
    BY <2>4, RecordJoined, Zenon
  <2> QED BY <2>3, <2>5, Zenon
<1> QED
  BY <1>2, <1>3, <1>4

LEMMA ExceptIsOn ==
    ASSUME ServiceTyped, NEW h \in Handlers, NEW w, handlers' = [handlers EXCEPT ![h] = w]
    PROVE  handlers' \in [Handlers -> {handlers'[k] : k \in Handlers}]
  BY DEF ServiceTyped

LEMMA StepTyped ==
    ASSUME ServiceTyped, [ServiceNext]_service
    PROVE  ServiceTyped'
<1>0. captured \in {"pcap", "export"} /\ \A k \in Handlers : handlers[k] \in HandlerRecords
  BY DEF ServiceTyped
<1>1. ASSUME NEW h \in Handlers, OpenTemp(h) PROVE ServiceTyped'
  <2>1. /\ temps' = [temps EXCEPT ![File(h)] = Nothing] /\ File(h) \in Files
        /\ Working(h) /\ UNCHANGED <<captured, paths, overlapped>>
        /\ handlers' \in [Handlers -> {handlers'[k] : k \in Handlers}]
    BY <1>1, OpenTempDoes, ExceptIsOn
  <2>2. handlers'[h] \in HandlerRecords /\ OfPlan(handlers'[h])
    BY <1>1, <2>1, OpenTempFields DEF HandlerBecomes, RecordIs, OfPlan, File, Working, ServiceTyped
  <2>3. \A k \in Handlers \ {h} : handlers'[k] = handlers[k]
    BY <1>1, OpenTempFields
  <2>4. temps' \in [Files -> Words]
    BY <2>1 DEF ServiceTyped, Words, Nothing
  <2> QED BY <2>1, <2>2, <2>3, <2>4 DEF ServiceTyped
<1>2. ASSUME NEW h \in Handlers, WriteData(h) PROVE ServiceTyped'
  <2>1. /\ Working(h) /\ File(h) \in Files /\ UNCHANGED <<captured, overlapped>>
        /\ handlers' \in [Handlers -> {handlers'[k] : k \in Handlers}]
    BY <1>2, WriteDataDoes, ExceptIsOn
  <2>2. paths' \in [Files -> Words] /\ temps' \in [Files -> Words]
    BY <1>2, WriteDataDoes, DataIsWords DEF ServiceTyped
  <2>3. handlers'[h] \in HandlerRecords /\ OfPlan(handlers'[h])
    BY <1>2, <2>1, WriteDataFields DEF HandlerBecomes, RecordIs, OfPlan, File, Working, ServiceTyped
  <2>4. \A k \in Handlers \ {h} : handlers'[k] = handlers[k]
    BY <1>2, WriteDataFields
  <2> QED BY <2>1, <2>2, <2>3, <2>4 DEF ServiceTyped
<1>3. ASSUME NEW h \in Handlers, Rename(h) PROVE ServiceTyped'
  <2>1. /\ Working(h) /\ File(h) \in Files /\ UNCHANGED <<captured, overlapped>>
        /\ handlers' \in [Handlers -> {handlers'[k] : k \in Handlers}]
        /\ Renamed(h) \/ NotThere(h)
    BY <1>3, RenameDoes
  <2>2. paths' \in [Files -> Words] /\ temps' \in [Files -> Words]
    <3>1. \/ /\ paths' = [paths EXCEPT ![File(h)] = temps[File(h)]]
             /\ temps' = [temps EXCEPT ![File(h)] = Absent]
          \/ UNCHANGED <<paths, temps>>
      BY <2>1 DEF Renamed, NotThere
    <3>2. Absent \in Words
      BY DEF Words
    <3> QED BY <2>1, <3>1, <3>2 DEF ServiceTyped
  <2>3. handlers'[h] \in HandlerRecords /\ OfPlan(handlers'[h])
    <3>1. CASE Renamed(h)
      BY <2>1, <3>1, RenamedFields, SteppedTyped DEF HandlerBecomes, RecordIs, Answer
    <3>2. CASE NotThere(h)
      <4>1. /\ handlers'[h] \in HandlerRecords /\ handlers'[h].kind = "flows"
            /\ handlers'[h].todo = <<>> /\ handlers'[h].fd = "closed"
        BY <3>2, NotThereFields DEF RecordIs
      <4>2. OnPlan("flows", <<>>)
        BY PartsOnPlan DEF OnPlan, Remaining
      <4> QED BY <4>1, <4>2 DEF OfPlan
    <3> QED BY <2>1, <3>1, <3>2
  <2>4. ASSUME NEW k \in Handlers \ {h} PROVE handlers'[k] \in HandlerRecords /\ OfPlan(handlers'[k])
    <3>1. CASE handlers'[k] = handlers[k]
      BY <3>1 DEF ServiceTyped
    <3>2. ASSUME NEW fd \in FileStates \ {"closed"}, Working(k), handlers[k].fd # "closed",
                 handlers'[k] = [handlers[k] EXCEPT !.fd = fd]
          PROVE  handlers'[k] \in HandlerRecords /\ OfPlan(handlers'[k])
      <4>1. /\ handlers'[k] \in HandlerRecords /\ handlers'[k].kind = handlers[k].kind
            /\ handlers'[k].todo = handlers[k].todo /\ handlers'[k].status = handlers[k].status
        BY <1>0, <3>2 DEF HandlerRecords
      <4> QED BY <3>2, <4>1 DEF OfPlan, Working, ServiceTyped
    <3>3. handlers'[k] = handlers[k] \/ Displaced(k)
      BY <2>1, Zenon DEF Renamed, NotThere
    <3> QED BY <3>1, <3>2, <3>3, Zenon DEF Displaced
  <2> QED BY <2>1, <2>2, <2>3, <2>4 DEF ServiceTyped
<1>4. ASSUME NEW h \in Handlers, ReadFile(h) PROVE ServiceTyped'
  <2>1. PICK p, b \in Words : ReadAs(h, p, b)
    BY <1>4, ReadFileDoes
  <2>2. /\ Working(h) /\ UNCHANGED <<captured, paths, temps, overlapped>>
        /\ handlers' \in [Handlers -> {handlers'[k] : k \in Handlers}]
    <3>1. Working(h) /\ UNCHANGED <<captured, paths, temps, overlapped>>
      BY <1>4, ReadFileDoes
    <3>2. PICK w : handlers' = [handlers EXCEPT ![h] = w]
      BY <2>1, Zenon DEF ReadAs
    <3>3. handlers' \in [Handlers -> {handlers'[k] : k \in Handlers}]
      BY <3>2, ExceptIsOn, Zenon
    <3> QED BY <3>1, <3>3, Zenon
  <2>3. handlers'[h] \in HandlerRecords /\ OfPlan(handlers'[h])
    BY <1>4, <2>1, <2>2, ReadFields, SteppedTyped DEF HandlerBecomes, RecordIs, Answer
  <2>4. \A k \in Handlers \ {h} : handlers'[k] = handlers[k]
    BY <1>4, <2>1, ReadFields
  <2> QED BY <2>2, <2>3, <2>4 DEF ServiceTyped
<1>5. ASSUME NEW h \in Handlers, NEW kind \in Kinds, Begin(h, kind) PROVE ServiceTyped'
  <2>1. /\ UNCHANGED <<captured, paths, temps>> /\ overlapped' \in BOOLEAN
        /\ handlers' \in [Handlers -> {handlers'[k] : k \in Handlers}]
    BY <1>5, BeginDoes
  <2>2. handlers'[h] \in HandlerRecords /\ OfPlan(handlers'[h])
    <3>1. /\ handlers'[h] \in HandlerRecords /\ handlers'[h].kind = kind
          /\ handlers'[h].todo = Steps(kind) /\ handlers'[h].fd = "closed"
          /\ handlers'[h].status = 0
      BY <1>5, BeginFields DEF RecordIs
    <3> QED BY <3>1, StepsOnPlan DEF OfPlan
  <2>3. ASSUME NEW k \in Handlers \ {h} PROVE handlers'[k] \in HandlerRecords /\ OfPlan(handlers'[k])
    <3>1. /\ handlers'[k] \in HandlerRecords /\ handlers'[k].kind = handlers[k].kind
          /\ handlers'[k].todo = handlers[k].todo /\ handlers'[k].status = handlers[k].status
          /\ handlers'[k].fd = handlers[k].fd
      BY <1>5, BeginFields DEF RecordIs
    <3> QED BY <3>1 DEF OfPlan, ServiceTyped
  <2> QED BY <2>1, <2>2, <2>3 DEF ServiceTyped
<1>6. ASSUME Restart PROVE ServiceTyped'
  BY <1>6, RestingTyped DEF Restart, ServiceTyped
<1>7. ASSUME UNCHANGED <<captured, paths, temps, handlers, overlapped>> PROVE ServiceTyped'
  BY <1>7 DEF ServiceTyped
<1> QED
  BY <1>1, <1>2, <1>3, <1>4, <1>5, <1>6, <1>7, ServiceSteps DEF service

-----------------------------------------------------------------------------
(* Who is alone. *)

\* What any step of a request does.
Goes(h) ==
    /\ Working(h) /\ UNCHANGED <<captured, caller, overlapped>>
    /\ handlers'[h].alone = handlers[h].alone
    /\ handlers'[h].kind \in {handlers[h].kind, "flows"}
    /\ handlers'[h].todo # <<>> \/ handlers'[h].status # 0
    /\ \A k \in Handlers \ {h} : LeftAlone(k)

LEMMA StepGoes ==
    ASSUME ServiceTyped, NEW h \in Handlers,
           OpenTemp(h) \/ WriteData(h) \/ Rename(h) \/ ReadFile(h)
    PROVE  Goes(h)
<1>1. ASSUME Working(h) PROVE Tail(handlers[h].todo) # <<>> \/ Answer(h) # 0
  BY <1>1, AtWork DEF Answer
<1>2. CASE OpenTemp(h)
  BY <1>2, OpenTempDoes, OpenTempFields DEF Goes, HandlerBecomes, RecordIs, LeftAlone, Working
<1>3. CASE WriteData(h)
  BY <1>3, WriteDataDoes, WriteDataFields DEF Goes, HandlerBecomes, RecordIs, LeftAlone, Working
<1>4. CASE Rename(h)
  <2>1. /\ Working(h) /\ UNCHANGED <<captured, caller, overlapped>>
        /\ Renamed(h) \/ NotThere(h)
    BY <1>4, RenameDoes
  <2>2. CASE Renamed(h)
    <3>1. \A k \in Handlers \ {h} : LeftAlone(k)
      BY <2>2, DisplacedFields DEF Renamed
    <3> QED BY <1>1, <2>1, <2>2, <3>1, RenamedFields DEF Goes, HandlerBecomes, RecordIs
  <2>3. CASE NotThere(h)
    <3>1. \A k \in Handlers \ {h} : LeftAlone(k)
      BY <2>3 DEF NotThere, LeftAlone
    <3> QED BY <2>1, <2>3, <3>1, NotThereFields DEF Goes, RecordIs
  <2> QED BY <2>1, <2>2, <2>3
<1>5. CASE ReadFile(h)
  <2>1. /\ Working(h) /\ UNCHANGED <<captured, caller, overlapped>>
        /\ \E p, b \in Words : ReadAs(h, p, b)
    BY <1>5, ReadFileDoes
  <2> QED BY <1>1, <1>5, <2>1, ReadFields DEF Goes, HandlerBecomes, RecordIs, LeftAlone
<1> QED
  BY <1>2, <1>3, <1>4, <1>5

LEMMA StepApart ==
    ASSUME ServiceTyped, Apart, [ServiceNext]_service
    PROVE  Apart'
<1>1. ASSUME NEW h \in Handlers, Goes(h) PROVE Apart'
  BY <1>1 DEF Goes, LeftAlone, Apart, Working
<1>2. ASSUME NEW h \in Handlers, NEW kind \in Kinds, Begin(h, kind) PROVE Apart'
  <2>1. PICK single \in BOOLEAN :
           /\ handlers'[h].todo # <<>> /\ handlers'[h].alone = single
           /\ single <=> ~\E k \in Handlers \ {h} : Working(k)
    BY <1>2, BeginFields, StepsOnPlan DEF RecordIs
  <2>2. \A k \in Handlers \ {h} :
           /\ handlers'[k].todo = handlers[k].todo /\ handlers'[k].status = handlers[k].status
           /\ handlers'[k].alone = (handlers[k].alone /\ ~Working(k))
    BY <1>2, BeginFields DEF RecordIs
  <2>3. /\ overlapped' \in BOOLEAN
        /\ overlapped \/ (\E k \in Handlers \ {h} : Working(k)) => overlapped'
    BY <1>2, BeginDoes
  <2>4. (\A k, g \in Handlers : Working(k) /\ handlers[k].alone /\ Working(g) => k = g)'
    BY <2>1, <2>2 DEF Apart, Working
  <2>5. (overlapped \/ \A k \in Handlers :
            Working(k) \/ handlers[k].status # 0 => handlers[k].alone)'
    BY <2>1, <2>2, <2>3 DEF Apart, Working
  <2> QED BY <2>4, <2>5 DEF Apart
<1>3. ASSUME Restart PROVE Apart'
  BY <1>3 DEF Restart, Apart, Working, Resting
<1>4. ASSUME UNCHANGED <<captured, paths, temps, handlers, overlapped>> PROVE Apart'
  BY <1>4 DEF Apart, Working
<1> QED
  BY <1>1, <1>2, <1>3, <1>4, StepGoes, ServiceSteps DEF service

-----------------------------------------------------------------------------
(* What a request finds and leaves in the files. *)

\* What a sound request writes.
LEMMA SoundData ==
    ASSUME ServiceTyped, NEW h \in Handlers, Working(h), Come(h, Left(h)), Writing(h),
           File(h) \in Files
    PROVE  /\ Left(h) \in {4, 2, 1, 0 - 2}
           /\ File(h) = IF Left(h) \in {4, 2} THEN "packets"
                        ELSE IF Left(h) = 1 THEN "flows" ELSE "topology"
           /\ Left(h) = 1 => FlowsFrom(handlers[h].packets) = "flows"
           /\ Left(h) # 1 \/ handlers[h].fd # "closed" =>
                 Data(h) = IF Left(h) = 4 THEN "undirected" ELSE IF Left(h) = 2 THEN "directed"
                           ELSE IF Left(h) = 1 THEN "flows" ELSE "graph"
<1>1. /\ Head(handlers[h].todo) \in StepNames /\ Rank[Head(handlers[h].todo)] = Left(h)
      /\ Left(h) \in Int
  BY AtWork
<1>2. /\ Left(h) \in {4, 2, 1, 0 - 2}
      /\ File(h) = IF Left(h) \in {4, 2} THEN "packets"
                   ELSE IF Left(h) = 1 THEN "flows" ELSE "topology"
  BY <1>1, StepIs DEF File, Files
<1>3. /\ Doing(h, "normalize") <=> Left(h) = 4
      /\ Doing(h, "write_packets") <=> Left(h) = 2
      /\ Doing(h, "write_flows") <=> Left(h) = 1
  BY <1>1, StepIs DEF Doing
<1>4. Left(h) \in {1, 2} => /\ FlowsFrom(handlers[h].packets) = "flows"
                            /\ Directed(handlers[h].packets) = "directed"
  BY DEF Come, FlowsFrom, Directed, WholePackets, Nothing
<1>5. Data(h) = IF Left(h) = 4 THEN "undirected"
                ELSE IF Left(h) = 2 THEN Directed(handlers[h].packets)
                ELSE IF Left(h) = 1 THEN FlowsFrom(handlers[h].packets) ELSE handlers[h].body
  BY <1>2, <1>3 DEF Data
<1>6. Left(h) = 0 - 2 => handlers[h].body = "graph"
  BY DEF Come
<1> QED
  BY <1>2, <1>4, <1>5, <1>6

LEMMA OverNothing ==
    /\ Over(Nothing, "undirected") = "undirected" /\ Over(Nothing, "directed") = "directed"
    /\ Over(Nothing, "flows") = "flows" /\ Over(Nothing, "graph") = "graph"
  BY DEF Over, Length, Nothing

LEMMA OpenTempWhole ==
    ASSUME ServiceTyped, NEW h \in Handlers, OpenTemp(h), Come(h, Left(h)), Writing(h)
    PROVE  Fine(h)'
<1>1. /\ Working(h) /\ File(h) \in Files /\ temps' = [temps EXCEPT ![File(h)] = Nothing]
      /\ UNCHANGED paths
  BY OpenTempDoes
<1>2. /\ handlers'[h].kind = handlers[h].kind /\ handlers'[h].todo = handlers[h].todo
      /\ handlers'[h].fd = "temp" /\ handlers'[h].packets = handlers[h].packets
      /\ handlers'[h].body = IF Left(h) = 1 THEN FlowsFrom(handlers[h].packets)
                             ELSE handlers[h].body
  BY OpenTempFields DEF HandlerBecomes, RecordIs
<1>3. Left(h)' = Left(h) /\ File(h)' = File(h) /\ Working(h)'
  BY <1>1, <1>2 DEF Left, File, Working
<1>4. Left(h) \in {4, 2, 1, 0 - 2} /\ (Left(h) = 1 => FlowsFrom(handlers[h].packets) = "flows")
  BY <1>1, SoundData
<1>5. Come(h, Left(h))'
  BY <1>1, <1>2, <1>3, <1>4 DEF Come
<1>6. Writing(h)'
  BY <1>1, <1>2, <1>3, <1>4 DEF Writing, ServiceTyped
<1> QED
  BY <1>3, <1>5, <1>6 DEF Fine

LEMMA WriteDataWhole ==
    ASSUME ServiceTyped, NEW h \in Handlers, WriteData(h), Come(h, Left(h)), Writing(h)
    PROVE  Fine(h)' /\ paths' = paths
<1>1. /\ Working(h) /\ File(h) \in Files /\ handlers[h].fd = "temp" /\ UNCHANGED paths
      /\ temps' = [temps EXCEPT ![File(h)] = Over(temps[File(h)], Data(h))]
  BY WriteDataDoes DEF Writing
<1>2. /\ handlers'[h].kind = handlers[h].kind /\ handlers'[h].todo = handlers[h].todo
      /\ handlers'[h].fd = "written" /\ handlers'[h].packets = handlers[h].packets
      /\ handlers'[h].body = handlers[h].body
  BY WriteDataFields DEF HandlerBecomes, RecordIs
<1>3. /\ Left(h)' = Left(h) /\ File(h)' = File(h) /\ Working(h)' /\ Data(h)' = Data(h)
  BY <1>1, <1>2 DEF Left, File, Working, Data, Doing
<1>4. Left(h) \in {4, 2, 1, 0 - 2} /\ Over(Nothing, Data(h)) = Data(h)
  BY <1>1, SoundData, OverNothing
<1>5. temps'[File(h)] = Data(h)
  BY <1>1, <1>4 DEF Writing, ServiceTyped
<1>6. Come(h, Left(h))'
  BY <1>1, <1>2, <1>3 DEF Come
<1>7. Writing(h)'
  BY <1>1, <1>2, <1>3, <1>5 DEF Writing
<1> QED
  BY <1>1, <1>3, <1>6, <1>7 DEF Fine

LEMMA RenameWhole ==
    ASSUME ServiceTyped, NEW h \in Handlers, Rename(h), Come(h, Left(h)), Writing(h)
    PROVE  /\ Fine(h)'
           /\ paths["packets"] \in WholePackets => paths'["packets"] \in WholePackets
<1>1. /\ Working(h) /\ File(h) \in Files /\ handlers[h].fd = "written"
      /\ Renamed(h) \/ NotThere(h)
  BY RenameDoes
<1>0. /\ Len(handlers[h].todo) \in Nat
      /\ Left(h) = IF handlers[h].kind = "flows" THEN Len(handlers[h].todo)
                   ELSE Len(handlers[h].todo) - 3
  BY <1>1, AtWork
<1>2. /\ temps[File(h)] = Data(h) /\ Left(h) \in {4, 2, 1, 0 - 2}
      /\ Data(h) = IF Left(h) = 4 THEN "undirected" ELSE IF Left(h) = 2 THEN "directed"
                   ELSE IF Left(h) = 1 THEN "flows" ELSE "graph"
      /\ File(h) = IF Left(h) \in {4, 2} THEN "packets"
                   ELSE IF Left(h) = 1 THEN "flows" ELSE "topology"
  BY <1>1, SoundData DEF Writing
<1>3. Renamed(h)
  BY <1>1, <1>2 DEF NotThere, Absent
<1>4. paths' = [paths EXCEPT ![File(h)] = Data(h)] /\ paths \in [Files -> Words]
  BY <1>2, <1>3 DEF Renamed, ServiceTyped
<1>5. /\ paths'["packets"] = IF Left(h) = 4 THEN "undirected" ELSE IF Left(h) = 2 THEN "directed"
                             ELSE paths["packets"]
      /\ paths'["flows"] = IF Left(h) = 1 THEN "flows" ELSE paths["flows"]
  BY <1>2, <1>4 DEF Files
<1>6. /\ handlers'[h].kind = handlers[h].kind /\ handlers'[h].todo = Tail(handlers[h].todo)
      /\ handlers'[h].fd = "closed" /\ handlers'[h].status = Answer(h)
      /\ Left(h) # 1 => handlers'[h].packets = handlers[h].packets
      /\ handlers'[h].body = handlers[h].body
  BY <1>1, <1>3, RenamedFields DEF HandlerBecomes, RecordIs
<1>7. /\ Left(h)' = Left(h) - 1 /\ (Working(h)' <=> Len(handlers[h].todo) # 1)
  BY <1>1, <1>6, AtWork DEF Left, Working
<1>8. Come(h, Left(h))'
  <2>1. PICK left \in Int : left = Left(h)
    BY <1>2
  <2>2. Come(h, left)
    BY <2>1, Zenon
  <2>3. /\ left \in {4, 2, 1, 0 - 2}
        /\ paths'["packets"] = IF left = 4 THEN "undirected" ELSE IF left = 2 THEN "directed"
                               ELSE paths["packets"]
        /\ paths'["flows"] = IF left = 1 THEN "flows" ELSE paths["flows"]
        /\ left # 1 => handlers'[h].packets = handlers[h].packets
        /\ handlers'[h].body = handlers[h].body
    BY <1>2, <1>5, <1>6, <2>1
  <2>4. Come(h, left - 1)'
    BY <2>2, <2>3 DEF Come, WholePackets
  <2> QED BY <1>7, <2>1, <2>4
<1>9. Writing(h)'
  BY <1>6 DEF Writing
<1>10. ASSUME ~Working(h)' PROVE AnsweredWhole(h)'
  <2>1. Len(handlers[h].todo) = 1
    BY <1>7, <1>10
  <2>2. Left(h) = IF handlers[h].kind = "flows" THEN 1 ELSE 0 - 2
    BY <1>0, <2>1
  <2>3. handlers[h].body = Right(handlers[h].kind)
    BY <1>1, <2>2 DEF Right, Writing, Come
  <2> QED BY <1>6, <2>1, <2>3 DEF AnsweredWhole, Answer
<1> QED
  BY <1>5, <1>7, <1>8, <1>9, <1>10 DEF Fine, WholePackets

LEMMA ReadFileWhole ==
    ASSUME ServiceTyped, NEW h \in Handlers, ReadFile(h), Come(h, Left(h)), Writing(h)
    PROVE  Fine(h)'
<1>1. /\ Working(h) /\ UNCHANGED paths /\ Left(h) \in {3, 0, 0 - 1}
  BY ReadFileDoes
<1>0. /\ Len(handlers[h].todo) \in Nat
      /\ Left(h) = IF handlers[h].kind = "flows" THEN Len(handlers[h].todo)
                   ELSE Len(handlers[h].todo) - 3
  BY <1>1, AtWork
<1>2. PICK p, b \in Words : ReadAs(h, p, b)
  BY ReadFileDoes
<1>3. /\ p = IF Left(h) = 3 THEN paths["packets"] ELSE handlers[h].packets
      /\ Left(h) = 0 => b = IF paths["packets"] = Nothing THEN "empty_graph" ELSE "nodes"
      /\ Left(h) = 0 - 1 =>
            b = IF handlers[h].body = "nodes" /\ paths["flows"] = "flows" THEN "graph"
                ELSE handlers[h].body
  BY <1>2 DEF ReadAs
<1>4. /\ handlers'[h].kind = handlers[h].kind /\ handlers'[h].todo = Tail(handlers[h].todo)
      /\ handlers'[h].fd = "closed" /\ handlers'[h].packets = p /\ handlers'[h].body = b
  BY <1>2, ReadFields DEF HandlerBecomes, RecordIs
<1>5. /\ Left(h)' = Left(h) - 1 /\ (Working(h)' <=> Len(handlers[h].todo) # 1)
  BY <1>1, <1>4, AtWork DEF Left, Working
<1>6. Working(h)'
  <2>1. PICK left \in Int, n \in Nat : left = Left(h) /\ n = Len(handlers[h].todo)
    BY <1>0, <1>1
  <2>2. left \in {3, 0, 0 - 1} /\ (left = n \/ left = n - 3)
    BY <1>0, <1>1, <2>1
  <2>3. n # 1
    BY <2>2
  <2> QED BY <1>5, <2>1, <2>3
<1>7. Come(h, Left(h))'
  <2>1. PICK left \in Int : left = Left(h)
    BY <1>1
  <2>2. Come(h, left) /\ left \in {3, 0, 0 - 1} /\ UNCHANGED paths
    BY <1>1, <2>1
  <2>3. /\ handlers'[h].packets = p /\ handlers'[h].body = b
        /\ p = IF left = 3 THEN paths["packets"] ELSE handlers[h].packets
        /\ left = 0 => b = IF paths["packets"] = Nothing THEN "empty_graph" ELSE "nodes"
        /\ left = 0 - 1 =>
              b = IF handlers[h].body = "nodes" /\ paths["flows"] = "flows" THEN "graph"
                  ELSE handlers[h].body
    BY <1>3, <1>4, <2>1
  <2>4. Come(h, left - 1)'
    BY <2>2, <2>3 DEF Come, WholePackets, Nothing
  <2> QED BY <1>5, <2>1, <2>4
<1>8. Writing(h)'
  BY <1>4 DEF Writing
<1> QED
  BY <1>5, <1>6, <1>7, <1>8 DEF Fine

LEMMA StepWhole ==
    ASSUME ServiceTyped, Apart, AllWhole, [ServiceNext]_service
    PROVE  AllWhole'
<1>1. ASSUME NEW h \in Handlers, OpenTemp(h) \/ WriteData(h) \/ Rename(h) \/ ReadFile(h)
      PROVE  AllWhole'
  <2>1. Goes(h)
    BY <1>1, StepGoes
  <2>2. ASSUME NEW k \in Handlers \ {h}, Sound(k)' PROVE Fine(k)'
    <3>1. Sound(k) /\ LeftAlone(k)
      BY <2>1, <2>2 DEF Goes, LeftAlone, Sound
    <3>2. ~Working(k)
      BY <2>1, <3>1 DEF Goes, Apart, Sound
    <3>3. handlers'[k] = handlers[k] /\ Fine(k)
      BY <3>1, <3>2 DEF LeftAlone, AllWhole
    <3> QED BY <3>2, <3>3 DEF Fine, Working, AnsweredWhole
  <2>3. ASSUME Sound(h)
        PROVE  /\ Fine(h)'
               /\ paths["packets"] \in WholePackets => paths'["packets"] \in WholePackets
    <3>1. Come(h, Left(h)) /\ Writing(h)
      BY <2>1, <2>3 DEF Goes, AllWhole, Fine
    <3>2. CASE OpenTemp(h)
      BY <3>1, <3>2, OpenTempWhole, OpenTempDoes
    <3>3. CASE WriteData(h)
      BY <3>1, <3>3, WriteDataWhole
    <3>4. CASE Rename(h)
      BY <3>1, <3>4, RenameWhole
    <3>5. CASE ReadFile(h)
      BY <3>1, <3>5, ReadFileWhole, ReadFileDoes
    <3> QED BY <1>1, <3>2, <3>3, <3>4, <3>5
  <2>4. Sound(h)' => Sound(h)
    BY <2>1 DEF Goes, Sound
  <2>5. captured' = "export" /\ ~overlapped' => paths'["packets"] \in WholePackets
    <3> SUFFICES ASSUME captured' = "export", ~overlapped'
                 PROVE  paths'["packets"] \in WholePackets
      OBVIOUS
    <3>1. captured = "export" /\ ~overlapped /\ Working(h)
      BY <2>1 DEF Goes
    <3>2. Sound(h) /\ paths["packets"] \in WholePackets
      BY <3>1 DEF Apart, AllWhole, Sound
    <3> QED BY <2>3, <3>2
  <2> QED BY <2>2, <2>3, <2>4, <2>5 DEF AllWhole
<1>2. ASSUME NEW h \in Handlers, NEW kind \in Kinds, Begin(h, kind) PROVE AllWhole'
  <2>1. /\ UNCHANGED <<captured, paths, temps>> /\ (overlapped => overlapped')
    BY <1>2, BeginDoes
  <2>2. /\ handlers'[h].kind = kind /\ handlers'[h].todo = Steps(kind)
        /\ handlers'[h].fd = "closed" /\ handlers'[h].status = 0
    BY <1>2, BeginFields DEF RecordIs
  <2>3. ASSUME Sound(h)' PROVE Fine(h)'
    <3>1. Working(h)' /\ Left(h)' = IF captured = "pcap" THEN 4 ELSE 3
      BY <2>2, StepsOnPlan DEF Working, Left
    <3>2. captured \in {"pcap", "export"}
      BY DEF ServiceTyped
    <3>3. captured = "export" => paths'["packets"] \in WholePackets
      BY <2>1, <2>3 DEF Sound, AllWhole
    <3>4. Come(h, Left(h))'
      BY <3>1, <3>2, <3>3 DEF Come
    <3>5. Writing(h)'
      BY <2>2 DEF Writing
    <3> QED BY <3>1, <3>4, <3>5 DEF Fine
  <2>4. ASSUME NEW k \in Handlers \ {h}, Sound(k)' PROVE Fine(k)'
    <3>1. /\ handlers'[k].kind = handlers[k].kind /\ handlers'[k].todo = handlers[k].todo
          /\ handlers'[k].status = handlers[k].status /\ handlers'[k].body = handlers[k].body
          /\ handlers'[k].alone = (handlers[k].alone /\ ~Working(k))
      BY <1>2, BeginFields DEF RecordIs
    <3>2. Sound(k) /\ ~Working(k)
      BY <2>1, <2>4, <3>1 DEF Sound
    <3>3. Fine(k)
      BY <3>2 DEF AllWhole
    <3> QED BY <3>1, <3>2, <3>3 DEF Fine, Working, AnsweredWhole
  <2> QED BY <2>1, <2>3, <2>4 DEF AllWhole
<1>3. ASSUME Restart PROVE AllWhole'
  <2>1. UNCHANGED <<captured, paths, overlapped>> /\ \A h \in Handlers : handlers'[h] = Resting
    BY <1>3 DEF Restart
  <2> QED BY <2>1 DEF AllWhole, Fine, Working, Resting
<1>4. ASSUME UNCHANGED <<captured, paths, temps, handlers, overlapped>> PROVE AllWhole'
  <2>1. ASSUME NEW h \in Handlers PROVE (Sound(h)' <=> Sound(h)) /\ (Fine(h)' <=> Fine(h))
    BY <1>4 DEF Sound, Fine, Working, Come, Left, Writing, File, Data, Doing, AnsweredWhole
  <2> QED BY <1>4, <2>1 DEF AllWhole
<1> QED
  BY <1>1, <1>2, <1>3, <1>4, ServiceSteps DEF service

-----------------------------------------------------------------------------
(* The pages of a listing. *)

LEMMA MinOfTwo ==
    ASSUME NEW a \in Int, NEW b \in Int
    PROVE  Min({a, b}) = IF a <= b THEN a ELSE b
  BY DEF Min

LEMMA FlowsAre == AllFlows \in Seq(ToSet(AllFlows)) /\ Len(AllFlows) \in Nat
  BY RequestsAssumption

\* A part continues the list.
LEMMA PageContinues ==
    ASSUME NEW offset \in 0..Len(AllFlows), NEW last \in offset..Len(AllFlows)
    PROVE  /\ SubSeq(AllFlows, offset + 1, last) \in Seq(ToSet(AllFlows))
           /\ Len(SubSeq(AllFlows, offset + 1, last)) = last - offset
           /\ SubSeq(AllFlows, 1, offset) \o SubSeq(AllFlows, offset + 1, last) =
                 SubSeq(AllFlows, 1, last)
<1>1. AllFlows \in Seq(ToSet(AllFlows)) /\ Len(AllFlows) \in Nat
  BY FlowsAre
<1>2. \A i \in (offset + 1)..last : AllFlows[i] \in ToSet(AllFlows)
  BY <1>1, ElementOfSeq
<1>3. /\ SubSeq(AllFlows, offset + 1, last) \in Seq(ToSet(AllFlows))
      /\ Len(SubSeq(AllFlows, offset + 1, last)) =
            IF offset + 1 <= last THEN last - (offset + 1) + 1 ELSE 0
  BY <1>1, <1>2, SubSeqProperties
<1>4. Len(SubSeq(AllFlows, offset + 1, last)) = last - offset
  BY <1>1, <1>3
<1>5. /\ 1 \in 1..(Len(AllFlows) + 1) /\ offset \in (1 - 1)..Len(AllFlows)
      /\ last \in offset..Len(AllFlows)
  BY <1>1
<1>6. SubSeq(AllFlows, 1, offset) \o SubSeq(AllFlows, offset + 1, last) =
         SubSeq(AllFlows, 1, last)
  BY <1>1, <1>5, ConcatAdjacentSubSeq
<1> QED
  BY <1>3, <1>4, <1>6

\* What a caller makes of an answer that lists the flows, or none of them.
Continues(offset, items, listed, part) ==
    /\ offset + Len(part) \in 0..Len(AllFlows)
    /\ items \o part \in Seq(ToSet(AllFlows))
    /\ items \o part = SubSeq(AllFlows, 1, offset + Len(part))
    /\ listed = AllFlows /\ (part = <<>> \/ offset + Len(part) >= Len(listed)) =>
          offset + Len(part) = Len(AllFlows)

LEMMA PageIs ==
    ASSUME NEW offset \in 0..Len(AllFlows), NEW items, items = SubSeq(AllFlows, 1, offset),
           NEW listed, listed = AllFlows \/ listed = <<>>,
           NEW part, part = SubSeq(listed, offset + 1, Min({offset + PageSize, Len(listed)}))
    PROVE  Continues(offset, items, listed, part)
<1>1. /\ AllFlows \in Seq(ToSet(AllFlows)) /\ Len(AllFlows) \in Nat
      /\ PageSize \in Nat /\ PageSize > 0
  BY FlowsAre, RequestsAssumption
<1>2. CASE listed = AllFlows
  <2>1. PICK last \in offset..Len(AllFlows) :
           /\ last = Min({offset + PageSize, Len(listed)})
           /\ last = offset => offset = Len(AllFlows)
    <3>1. Min({offset + PageSize, Len(listed)}) =
             IF offset + PageSize <= Len(AllFlows) THEN offset + PageSize ELSE Len(AllFlows)
      BY <1>1, <1>2, MinOfTwo
    <3> QED BY <1>1, <3>1
  <2>2. part = SubSeq(AllFlows, offset + 1, last)
    BY <1>2, <2>1
  <2>3. /\ Len(part) = last - offset /\ items \o part = SubSeq(AllFlows, 1, last)
        /\ part \in Seq(ToSet(AllFlows))
    BY <2>2, PageContinues
  <2>4. offset + Len(part) = last
    BY <1>1, <2>3
  <2>5. part = <<>> \/ offset + Len(part) >= Len(listed) => last = Len(AllFlows)
    <3>1. CASE part = <<>>
      <4>1. last - offset = 0
        BY <2>3, <3>1
      <4> QED BY <1>1, <2>1, <4>1
    <3>2. CASE offset + Len(part) >= Len(listed)
      <4>1. last >= Len(AllFlows)
        BY <1>2, <2>4, <3>2
      <4> QED BY <1>1, <4>1
    <3> QED BY <3>1, <3>2
  <2>6. 0 \in 0..Len(AllFlows) /\ last \in 0..Len(AllFlows)
    BY <1>1
  <2>7. SubSeq(AllFlows, 1, last) \in Seq(ToSet(AllFlows))
    <3>1. \A i \in 1..last : AllFlows[i] \in ToSet(AllFlows)
      BY <1>1, ElementOfSeq
    <3> QED BY <1>1, <3>1, SubSeqProperties
  <2> QED BY <1>2, <2>3, <2>4, <2>5, <2>6, <2>7 DEF Continues
<1>3. CASE listed = <<>> /\ listed # AllFlows
  <2>1. part = <<>>
    <3>1. Min({offset + PageSize, Len(listed)}) = 0
      BY <1>1, <1>3, MinOfTwo
    <3>2. 0 < offset + 1
      BY <1>1
    <3> QED BY <1>3, <3>1, <3>2, SubSeqEmpty
  <2>2. items \in Seq(ToSet(AllFlows))
    <3>1. \A i \in 1..offset : AllFlows[i] \in ToSet(AllFlows)
      BY <1>1, ElementOfSeq
    <3> QED BY <1>1, <3>1, SubSeqProperties
  <2>3. items \o part = items /\ Len(part) = 0
    BY <2>1, <2>2, ConcatEmptySeq
  <2>4. offset + Len(part) = offset
    <3>1. offset \in Int
      BY <1>1
    <3>2. Len(part) = 0
      BY ONLY <2>1
    <3> QED BY ONLY <3>1, <3>2
  <2> QED BY <1>3, <2>2, <2>3, <2>4 DEF Continues
<1> QED
  BY <1>2, <1>3

LEMMA InitListed == ServiceInit => Listed
<1> SUFFICES ASSUME ServiceInit PROVE Listed
  OBVIOUS
<1>1. caller = [pc |-> "ready", handler |-> {}, attempt |-> 0, offset |-> 0, items |-> <<>>]
  BY DEF ServiceInit
<1>2. 0 \in 0..Len(AllFlows) /\ 0 < 1
  BY FlowsAre
<1>3. SubSeq(AllFlows, 1, 0) = <<>>
  BY SubSeqEmpty
<1>4. caller \in CallerRecords
  BY <1>1, <1>2 DEF CallerRecords
<1> QED
  BY <1>1, <1>3, <1>4 DEF Listed

\* The records of the caller.
CallerIs(w, pc, handler, offset, items) ==
    /\ w \in CallerRecords
    /\ w.pc = pc /\ w.handler = handler /\ w.offset = offset /\ w.items = items

LEMMA RecordUnanswered ==
    ASSUME NEW r \in CallerRecords, NEW pc \in {"ready", "raised"}, NEW attempt \in Int, NEW w,
           w = [r EXCEPT !.handler = {}, !.pc = pc, !.attempt = attempt]
    PROVE  CallerIs(w, pc, {}, r.offset, r.items)
  BY DEF CallerRecords, CallerIs

LEMMA RecordTaken ==
    ASSUME NEW r \in CallerRecords, NEW pc \in {"ready", "done"},
           NEW offset \in 0..Len(AllFlows), NEW items \in Seq(ToSet(AllFlows)), NEW w,
           w = [r EXCEPT !.pc = pc, !.handler = {}, !.attempt = 0, !.offset = offset,
                         !.items = items]
    PROVE  CallerIs(w, pc, {}, offset, items)
<1>1. ASSUME NEW Pcs, NEW Hs, NEW Offsets, NEW Lists,
             NEW s \in [pc : Pcs, handler : Hs, attempt : Int, offset : Offsets, items : Lists],
             NEW p \in Pcs, NEW none \in Hs, NEW zero \in Int, NEW o \in Offsets,
             NEW list \in Lists, NEW v,
             v = [s EXCEPT !.pc = p, !.handler = none, !.attempt = zero, !.offset = o,
                           !.items = list]
      PROVE  /\ v \in [pc : Pcs, handler : Hs, attempt : Int, offset : Offsets, items : Lists]
             /\ v.pc = p /\ v.handler = none /\ v.offset = o /\ v.items = list
  BY ONLY <1>1
<1>2. /\ pc \in {"ready", "waiting", "done", "raised"} /\ {} \in SUBSET Handlers /\ 0 \in Int
  OBVIOUS
<1> QED
  BY <1>1, <1>2, ZenonT(60) DEF CallerIs, CallerRecords

\* A caller that is not answered has the same flows as before.
LEMMA UnansweredListed ==
    ASSUME Listed, caller' = Unanswered, overlapped' = overlapped, caller.pc = "waiting"
    PROVE  Listed'
<1>1. caller \in CallerRecords
  BY DEF Listed
<1>2. /\ caller' \in CallerRecords /\ caller'.pc \in {"ready", "raised"} /\ caller'.handler = {}
      /\ caller'.offset = caller.offset /\ caller'.items = caller.items
  <2>1. caller.attempt \in Int
    BY <1>1 DEF CallerRecords
  <2>2. PICK pc \in {"ready", "raised"}, attempt \in Int :
           /\ pc = IF caller.attempt < Retries THEN "ready" ELSE "raised"
           /\ attempt = caller.attempt + 1
    BY <2>1
  <2>3. caller' = [caller EXCEPT !.handler = {}, !.pc = pc, !.attempt = attempt]
    BY <2>2, Zenon DEF Unanswered
  <2>4. CallerIs(caller', pc, {}, caller.offset, caller.items)
    BY ONLY <1>1, <2>3, RecordUnanswered, ZenonT(60)
  <2> QED BY <2>4 DEF CallerIs
<1> QED
  BY <1>2 DEF Listed

LEMMA TakePageListed ==
    ASSUME ServiceTyped, Apart, AllWhole, Listed, TakePage
    PROVE  Listed'
<1>1. PICK h \in Handlers :
         /\ caller.handler = {h} /\ handlers[h].kind = "flows"
         /\ Working(h) \/ handlers[h].status # 0
  BY DEF TakePage, Listed
<1> DEFINE listed == IF handlers[h].body = "flows" THEN AllFlows ELSE <<>>
           part == SubSeq(listed, caller.offset + 1,
                          Min({caller.offset + PageSize, Len(listed)}))
           offset == caller.offset + Len(part)
           pc == IF part = <<>> \/ offset >= Len(listed) THEN "done" ELSE "ready"
<1>2. /\ ~Working(h) /\ UNCHANGED <<handlers, overlapped>>
      /\ caller' = IF handlers[h].status # 200
                   THEN [caller EXCEPT !.pc = "raised", !.handler = {}]
                   ELSE [caller EXCEPT !.pc = pc, !.handler = {}, !.attempt = 0,
                                       !.offset = offset, !.items = caller.items \o part]
  <2>1. TakePage /\ h \in caller.handler /\ \A k \in caller.handler : k = h
    BY <1>1
  <2>2. ~Working(h) /\ UNCHANGED <<handlers, overlapped>>
    BY <2>1 DEF TakePage
  <2>3. caller' = IF handlers[h].status # 200
                  THEN [caller EXCEPT !.pc = "raised", !.handler = {}]
                  ELSE [caller EXCEPT !.pc = pc, !.handler = {}, !.attempt = 0,
                                      !.offset = offset, !.items = caller.items \o part]
    BY <2>1, ZenonT(60) DEF TakePage
  <2> QED BY <2>2, <2>3, Zenon
<1>3. caller \in CallerRecords /\ caller.items = SubSeq(AllFlows, 1, caller.offset)
  BY DEF Listed
<1>4. CASE handlers[h].status # 200
  <2>1. caller' = [caller EXCEPT !.pc = "raised", !.handler = {}]
    BY <1>2, <1>4, Zenon
  <2>2. /\ caller' \in CallerRecords /\ caller'.pc = "raised" /\ caller'.handler = {}
        /\ caller'.offset = caller.offset /\ caller'.items = caller.items
    BY <1>3, <2>1 DEF CallerRecords
  <2> QED BY <1>3, <2>2 DEF Listed
<1>5. CASE handlers[h].status = 200
  <2>1. overlapped \/ listed = AllFlows
    <3>1. ~overlapped => Sound(h) /\ AnsweredWhole(h)
      BY <1>1, <1>2 DEF Apart, AllWhole, Fine, Sound
    <3> QED BY <1>1, <3>1 DEF AnsweredWhole, Right
  <2>2. listed = AllFlows \/ listed = <<>>
    OBVIOUS
  <2> HIDE DEF listed
  <2>3. caller.offset \in 0..Len(AllFlows)
    BY <1>3 DEF CallerRecords
  <2>4. /\ offset \in 0..Len(AllFlows) /\ caller.items \o part \in Seq(ToSet(AllFlows))
        /\ caller.items \o part = SubSeq(AllFlows, 1, offset)
        /\ listed = AllFlows /\ (part = <<>> \/ offset >= Len(listed)) => offset = Len(AllFlows)
    <3>1. part = SubSeq(listed, caller.offset + 1,
                        Min({caller.offset + PageSize, Len(listed)}))
      OBVIOUS
    <3> HIDE DEF part
    <3>2. Continues(caller.offset, caller.items, listed, part)
      BY ONLY <1>3, <2>2, <2>3, <3>1, PageIs, Zenon
    <3> QED BY <3>2 DEF Continues
  <2> HIDE DEF part, offset
  <2>5. pc \in {"ready", "done"} /\ (pc = "done" /\ ~overlapped => offset = Len(AllFlows))
    BY <2>1, <2>4
  <2> HIDE DEF pc
  <2>6. caller' = [caller EXCEPT !.pc = pc, !.handler = {}, !.attempt = 0,
                                 !.offset = offset, !.items = caller.items \o part]
    BY <1>2, <1>5, Zenon
  <2>7. PICK items \in Seq(ToSet(AllFlows)) : items = caller.items \o part
    BY <2>4
  <2>8. caller' = [caller EXCEPT !.pc = pc, !.handler = {}, !.attempt = 0,
                                 !.offset = offset, !.items = items]
    BY <2>6, <2>7, Zenon
  <2>9. CallerIs(caller', pc, {}, offset, items)
    <3>1. /\ caller \in CallerRecords /\ pc \in {"ready", "done"}
          /\ offset \in 0..Len(AllFlows) /\ items \in Seq(ToSet(AllFlows))
      BY <1>3, <2>4, <2>5
    <3> QED BY <3>1, <2>8, RecordTaken, ZenonT(60)
  <2> QED BY <1>2, <2>4, <2>5, <2>7, <2>9 DEF Listed, CallerIs
<1> QED
  BY <1>4, <1>5

LEMMA StepListed ==
    ASSUME ServiceTyped, Apart, AllWhole, Listed, [ServiceNext]_service
    PROVE  Listed'
<1>1. ASSUME NEW h \in Handlers, OpenTemp(h) \/ WriteData(h) \/ Rename(h) \/ ReadFile(h)
      PROVE  Listed'
  <2>1. Goes(h)
    BY <1>1, StepGoes
  <2>2. ASSUME NEW k \in Handlers, handlers[k].kind = "flows", Working(k) \/ handlers[k].status # 0
        PROVE  handlers'[k].kind = "flows" /\ (Working(k)' \/ handlers'[k].status # 0)
    BY <2>1, <2>2 DEF Goes, LeftAlone, Working
  <2> QED BY <2>1, <2>2 DEF Goes, Listed
<1>2. ASSUME AskPage PROVE Listed'
  <2>1. PICK h \in Handlers : /\ Begin(h, "flows")
                              /\ caller' = [caller EXCEPT !.pc = "waiting", !.handler = {h}]
    BY <1>2 DEF AskPage
  <2>2. "flows" \in Kinds
    BY DEF Kinds
  <2>3. handlers'[h].kind = "flows" /\ Working(h)'
    BY <2>1, <2>2, BeginFields, StepsOnPlan DEF RecordIs, Working
  <2>4. /\ caller' \in CallerRecords /\ caller'.pc = "waiting" /\ caller'.handler = {h}
        /\ caller'.offset = caller.offset /\ caller'.items = caller.items
    BY <2>1 DEF Listed, CallerRecords
  <2> QED BY <2>3, <2>4 DEF Listed
<1>3. ASSUME TakePage PROVE Listed'
  BY <1>3, TakePageListed
<1>4. ASSUME TimeOut PROVE Listed'
  BY <1>4, UnansweredListed DEF TimeOut
<1>5. ASSUME Disturb PROVE Listed'
  <2>1. PICK h \in Handlers \ caller.handler, kind \in Kinds : Begin(h, kind)
    BY <1>5 DEF Disturb
  <2>2. UNCHANGED caller /\ (overlapped => overlapped')
    BY <1>5, <2>1, BeginDoes DEF Disturb
  <2>3. ASSUME NEW k \in Handlers, caller.handler = {k}
        PROVE  /\ handlers'[k].kind = handlers[k].kind /\ handlers'[k].todo = handlers[k].todo
               /\ handlers'[k].status = handlers[k].status
    BY <2>1, <2>3, BeginFields DEF RecordIs
  <2> QED BY <2>2, <2>3 DEF Listed, Working
<1>6. ASSUME Restart PROVE Listed'
  <2>1. CASE caller.pc = "waiting"
    BY <1>6, <2>1, UnansweredListed DEF Restart
  <2>2. CASE caller.pc # "waiting"
    BY <1>6, <2>2 DEF Restart, Listed
  <2> QED BY <2>1, <2>2
<1>7. ASSUME UNCHANGED service PROVE Listed'
  BY <1>7 DEF service, Listed, Working
<1> QED
  BY <1>1, <1>2, <1>3, <1>4, <1>5, <1>6, <1>7 DEF ServiceNext

-----------------------------------------------------------------------------
(* The theorem. *)

LEMMA InitWhole == ServiceInit => Apart /\ AllWhole
<1> SUFFICES ASSUME ServiceInit PROVE Apart /\ AllWhole
  OBVIOUS
<1>1. \A h \in Handlers : handlers[h].todo = <<>> /\ handlers[h].status = 0
  BY DEF ServiceInit, Resting
<1>2. captured = "export" => paths["packets"] = "undirected"
  BY DEF ServiceInit, Files
<1> QED
  BY <1>1, <1>2 DEF Apart, AllWhole, Fine, Working, WholePackets

LEMMA WholeAnswers ==
    ASSUME ServiceTyped, AllWhole, Listed
    PROVE  AnswersAreWhole
<1>1. LoneRequestIsRight
  <2> SUFFICES ASSUME NEW h \in Handlers, handlers[h].status # 0, handlers[h].alone,
                      captured = "pcap" \/ ~overlapped
               PROVE  handlers[h].status = 200 /\ handlers[h].body = Right(handlers[h].kind)
    BY DEF LoneRequestIsRight
  <2>1. ~Working(h)
    BY DEF ServiceTyped, OfPlan, Working
  <2> QED BY <2>1 DEF AllWhole, Sound, Fine, AnsweredWhole
<1>2. PagesAreExact
  <2>1. /\ AllFlows \in Seq(ToSet(AllFlows)) /\ Len(AllFlows) \in Nat
        /\ caller.offset \in 0..Len(AllFlows) /\ caller.items = SubSeq(AllFlows, 1, caller.offset)
        /\ caller.items \in Seq(ToSet(AllFlows))
    BY FlowsAre DEF Listed, CallerRecords
  <2>2. Len(caller.items) = caller.offset
    <3>1. \A i \in 1..caller.offset : AllFlows[i] \in ToSet(AllFlows)
      BY <2>1, ElementOfSeq
    <3>2. Len(SubSeq(AllFlows, 1, caller.offset)) =
             IF 1 <= caller.offset THEN caller.offset - 1 + 1 ELSE 0
      BY <2>1, <3>1, SubSeqProperties
    <3> QED BY <2>1, <3>2
  <2>3. SubSeq(caller.items, 1, Len(caller.items)) = caller.items
    BY <2>1, SubSeqFull
  <2>4. IsPrefix(caller.items, AllFlows)
    BY <2>1, <2>2, <2>3 DEF IsPrefix
  <2>5. caller.pc = "done" /\ ~overlapped => caller.items = AllFlows
    BY <2>1, SubSeqFull DEF Listed
  <2> QED BY <2>4, <2>5 DEF PagesAreExact
<1> QED
  BY <1>1, <1>2 DEF AnswersAreWhole

\* A request that nothing runs beside answers with all of the capture, whatever
\* overlapping requests and kills have left in the files, and the pages a caller
\* puts together are the first of its flows, and all of them when it is done:
\* with any number of threads, requests, flows and retries.
THEOREM RequestsAnswersAreWhole == Spec => []AnswersAreWhole
<1> DEFINE Inv == ServiceTyped /\ Apart /\ AllWhole /\ Listed
<1>1. ServiceInit => Inv
  BY InitTyped, InitWhole, InitListed
<1>2. Inv /\ [ServiceNext]_service => Inv'
  BY StepTyped, StepApart, StepWhole, StepListed
<1>3. Inv => AnswersAreWhole
  BY WholeAnswers
<1> QED
  BY <1>1, <1>2, <1>3, ComposedService, PTL DEF ServiceSpec

-----------------------------------------------------------------------------
(* The pages.  What is on a page and what is still asked for fit together:   *)
(* an effect has one request under way at a time, for what is on the page    *)
(* since it last ran, and the list is asked for once by the explorer.        *)

Captures == DOMAIN SnapshotsOf
Subjects == [capture : Captures, number : Nat]
Marked == Subjects \cup {None}

\* What is under way of one page.
ListRequests == [asks : {"list"}, capture : Captures, live : {TRUE}]
GraphRequests ==
    [asks : {"graphs"}, capture : Captures, live : {TRUE},
     current : Subjects, previous : Marked, numbers : SUBSET Nat]
EventRequests ==
    [asks : {"events"}, capture : Captures, live : BOOLEAN,
     current : Subjects, previous : Marked, numbers : SUBSET Nat]
AttributionRequests == [asks : {"attribution"}, capture : Captures, live : {TRUE}, of : Subjects]
Requests == ListRequests \cup GraphRequests \cup EventRequests \cup AttributionRequests

GraphSets == UNION {[N -> Subjects] : N \in SUBSET Nat}

PageRecords ==
    [view : {"topology", "attribution"}, input : Captures, list : Seq(Subjects),
     error : BOOLEAN, sent : Seq(Requests), stale : BOOLEAN, clicks : Nat,
     steady : BOOLEAN, inOrder : BOOLEAN, index : Nat, graphs : GraphSets,
     events : Marked, loading : BOOLEAN, playing : BOOLEAN,
     selected : Marked, data : Marked]

Asks(sent, what) == {i \in 1..Len(sent) : sent[i].asks = what}

\* One of a kind.
Once(sent, what) == \A i, j \in Asks(sent, what) : i = j

\* The snapshots on the page.
Watched(p) == {CurrentOf(p), PreviousOf(p)} \ {None}

\* The position is on the list, and not the last while the play mode runs.
OnList(p) ==
    /\ p.list # <<>> => p.index < Len(p.list)
    /\ p.playing /\ ~p.stale => p.index < Len(p.list) - 1

\* A list is asked for while the page is loading: once, and for what is to be shown.
OneList(p) ==
    /\ p.loading <=> Asks(p.sent, "list") # {}
    /\ Once(p.sent, "list")
    /\ p.steady => \A i \in Asks(p.sent, "list") : p.sent[i].capture = p.input
    /\ p.steady /\ ~p.loading /\ ~p.error => p.list = Items(p.input, SnapshotsOf)

\* One effect at a time asks for graphs, those of the capture in the input field.
GraphsFit(p) ==
    /\ Asks(p.sent, "attribution") = {}
    /\ Once(p.sent, "graphs")
    /\ \A i \in Asks(p.sent, "graphs") : p.sent[i].capture = p.input
    /\ p.steady => \A n \in DOMAIN p.graphs : p.graphs[n] = [capture |-> p.input, number |-> n]

\* s has its graph, or it is asked for.
Provided(p, s) ==
    s.number \in DOMAIN p.graphs
       \/ \E i \in Asks(p.sent, "graphs") : s.number \in p.sent[i].numbers

\* What is on the page has its graphs, or they are asked for.
GraphsCome(p) == ~p.stale /\ ~p.error => \A s \in Watched(p) : Provided(p, s)

\* The last request is that of the last effect.
AskedLast(p) ==
    LET r == p.sent[Len(p.sent)]
    IN  \/ r.asks = "graphs"
        \/ r.asks = "events" /\ r.live /\ r.current = CurrentOf(p) /\ r.capture = p.input

\* The changes on the page are those of its snapshot, or they come last.
EventsCome(p) ==
    ~p.stale /\ ~p.error /\ p.inOrder /\ p.steady
          /\ CurrentOf(p) # None /\ PreviousOf(p) # None =>
       IF p.sent = <<>> THEN p.events = CurrentOf(p) ELSE AskedLast(p)

\* What holds of an explorer, and of an attribution page.
ExplorerInv(p) ==
    OnList(p) /\ OneList(p) /\ GraphsFit(p) /\ GraphsCome(p) /\ EventsCome(p)

\* One attribution is asked for: of the dependency that is selected.
OneAsked(p) ==
    /\ ~p.stale
    /\ Asks(p.sent, "graphs") = {} /\ Asks(p.sent, "events") = {}
    /\ Once(p.sent, "attribution")
    /\ \A i \in Asks(p.sent, "attribution") : p.sent[i].of = p.selected /\ p.sent[i].capture = p.input

\* The attribution on the page is of the dependency that is selected.
DataFits(p) ==
    p.data # None => p.data = p.selected /\ (p.steady => p.data.capture = p.input)

LastList(sent, i) == i \in Asks(sent, "list") /\ \A j \in Asks(sent, "list") : j <= i

\* The list on the page is of the capture that was loaded, or that one comes last.
ListComes(p) ==
    p.steady /\ p.inOrder /\ ~p.error =>
       IF Asks(p.sent, "list") = {} THEN p.list = Items(p.input, DependenciesOf)
       ELSE \A i \in Asks(p.sent, "list") : LastList(p.sent, i) => p.sent[i].capture = p.input

AttributionInv(p) == OneAsked(p) /\ DataFits(p) /\ ListComes(p)

-----------------------------------------------------------------------------
(* The requests under way. *)

Ignored(r) == r.asks \in {"graphs", "attribution"}
OneIgnored(sent) == \A i, j \in 1..Len(sent) : Ignored(sent[i]) /\ Ignored(sent[j]) => i = j

\* s has the loadings of a list that t has, in their order.
SameLists(s, t) ==
    /\ Asks(s, "list") = {} <=> Asks(t, "list") = {}
    /\ Once(t, "list") => Once(s, "list")
    /\ \A i \in Asks(s, "list") : \E j \in Asks(t, "list") :
          s[i].capture = t[j].capture /\ (LastList(s, i) => LastList(t, j))

LEMMA RemoveAtIs ==
    ASSUME NEW S, NEW s \in Seq(S), NEW k \in 1..Len(s)
    PROVE  /\ RemoveAt(s, k) \in Seq(S) /\ Len(RemoveAt(s, k)) = Len(s) - 1
           /\ \A n \in 1..(Len(s) - 1) : RemoveAt(s, k)[n] = IF n < k THEN s[n] ELSE s[n + 1]
<1> DEFINE a == SubSeq(s, 1, k - 1)
           b == SubSeq(s, k + 1, Len(s))
<1>1. Len(s) \in Nat /\ \A n \in 1..Len(s) : s[n] \in S
  BY LenProperties, ElementOfSeq
<1>2. a \in Seq(S) /\ Len(a) = k - 1 /\ \A n \in 1..(k - 1) : a[n] = s[n]
  BY <1>1, SubSeqProperties
<1>3. b \in Seq(S) /\ Len(b) = Len(s) - k /\ \A n \in 1..(Len(s) - k) : b[n] = s[n + k]
  BY <1>1, SubSeqProperties
<1>4. RemoveAt(s, k) = a \o b
  BY DEF RemoveAt
<1> HIDE DEF a, b
<1>5. /\ a \o b \in Seq(S) /\ Len(a \o b) = Len(a) + Len(b)
      /\ \A n \in 1..(Len(a) + Len(b)) : (a \o b)[n] = IF n <= Len(a) THEN a[n] ELSE b[n - Len(a)]
  BY <1>2, <1>3, ConcatProperties
<1>6. ASSUME NEW n \in 1..(Len(s) - 1)
      PROVE  (a \o b)[n] = IF n < k THEN s[n] ELSE s[n + 1]
  <2>1. CASE n < k
    <3>1. n \in 1..(k - 1) /\ n \in 1..(Len(a) + Len(b)) /\ n <= Len(a)
      BY <1>1, <1>2, <1>3, <2>1
    <3> QED BY <1>2, <1>5, <2>1, <3>1
  <2>2. CASE ~(n < k)
    <3>1. /\ n - Len(a) \in 1..(Len(s) - k) /\ n \in 1..(Len(a) + Len(b)) /\ ~(n <= Len(a))
          /\ (n - Len(a)) + k = n + 1
      BY <1>1, <1>2, <1>3, <2>2
    <3>2. (a \o b)[n] = b[n - Len(a)]
      BY <1>5, <3>1
    <3> QED BY <1>3, <2>2, <3>1, <3>2
  <2> QED BY <2>1, <2>2
<1> QED
  BY <1>1, <1>2, <1>3, <1>4, <1>5, <1>6

LEMMA AppendIs ==
    ASSUME NEW s \in Seq(Requests), NEW r \in Requests
    PROVE  /\ Append(s, r) \in Seq(Requests) /\ Len(Append(s, r)) = Len(s) + 1
           /\ Append(s, r)[Len(s) + 1] = r /\ \A i \in 1..Len(s) : Append(s, r)[i] = s[i]
           /\ \A what : Asks(Append(s, r), what) =
                 Asks(s, what) \cup (IF r.asks = what THEN {Len(s) + 1} ELSE {})
           /\ \A what : r.asks # what => Asks(Append(s, r), what) = Asks(s, what)
           /\ Append(s, r) # <<>>
<1>1. /\ Append(s, r) \in Seq(Requests) /\ Len(Append(s, r)) = Len(s) + 1
      /\ Append(s, r)[Len(s) + 1] = r /\ \A i \in 1..Len(s) : Append(s, r)[i] = s[i]
      /\ Len(s) \in Nat
  BY AppendProperties, LenProperties
<1>2. ASSUME NEW what
      PROVE  Asks(Append(s, r), what) =
                Asks(s, what) \cup (IF r.asks = what THEN {Len(s) + 1} ELSE {})
  BY <1>1 DEF Asks
<1>3. \A what : r.asks # what => Asks(Append(s, r), what) = Asks(s, what)
  BY <1>2
<1>4. Append(s, r) # <<>>
  BY <1>1, EmptySeq
<1> QED
  BY <1>1, <1>2, <1>3, <1>4

LEMMA RequestIs ==
    ASSUME NEW r \in Requests
    PROVE  /\ r.asks \in {"list", "graphs", "events", "attribution"} /\ r.capture \in Captures
           /\ r.live \in BOOLEAN /\ (r.asks # "events" => r.live)
           /\ r.asks = "list" => r \in ListRequests
           /\ r.asks = "graphs" => r \in GraphRequests
           /\ r.asks = "events" => r \in EventRequests
           /\ r.asks = "attribution" => r \in AttributionRequests
<1> QED
  BY DEF Requests, ListRequests, GraphRequests, EventRequests, AttributionRequests

LEMMA DroppedEvents ==
    ASSUME NEW r \in EventRequests
    PROVE  /\ [r EXCEPT !.live = FALSE] \in EventRequests
           /\ [r EXCEPT !.live = FALSE].asks = r.asks
           /\ [r EXCEPT !.live = FALSE].capture = r.capture
<1>1. /\ [r EXCEPT !.live = FALSE].asks = r.asks
      /\ [r EXCEPT !.live = FALSE].capture = r.capture
  BY DEF EventRequests
<1>2. [r EXCEPT !.live = FALSE] \in EventRequests
  BY DEF EventRequests
<1> QED BY <1>1, <1>2

LEMMA RemovedLists ==
    ASSUME NEW s \in Seq(Requests), NEW k \in 1..Len(s), s[k].asks # "list"
    PROVE  SameLists(RemoveAt(s, k), s)
<1> DEFINE t == RemoveAt(s, k)
<1>1. /\ Len(s) \in Nat /\ Len(t) = Len(s) - 1
      /\ \A n \in 1..(Len(s) - 1) : t[n] = IF n < k THEN s[n] ELSE s[n + 1]
  BY RemoveAtIs, LenProperties
<1> HIDE DEF t
<1>2. ASSUME NEW i \in Asks(t, "list")
      PROVE  LET j == IF i < k THEN i ELSE i + 1 IN j \in Asks(s, "list") /\ t[i] = s[j]
  BY <1>1, <1>2 DEF Asks
<1>3. ASSUME NEW j \in Asks(s, "list")
      PROVE  LET i == IF j < k THEN j ELSE j - 1 IN i \in Asks(t, "list") /\ t[i] = s[j]
  BY <1>1, <1>3 DEF Asks
<1>4. \A what : Asks(t, what) \subseteq Int /\ Asks(s, what) \subseteq Int
  BY <1>1 DEF Asks
<1>5. Asks(t, "list") = {} <=> Asks(s, "list") = {}
  BY <1>2, <1>3
<1>6. ASSUME Once(s, "list"), NEW i \in Asks(t, "list"), NEW j \in Asks(t, "list") PROVE i = j
  BY <1>2, <1>4, <1>6 DEF Once
<1>7. ASSUME NEW i \in Asks(t, "list")
      PROVE  \E j \in Asks(s, "list") :
                t[i].capture = s[j].capture /\ (LastList(t, i) => LastList(s, j))
  <2> DEFINE j == IF i < k THEN i ELSE i + 1
  <2>1. j \in Asks(s, "list") /\ t[i] = s[j]
    BY <1>2
  <2>2. ASSUME LastList(t, i), NEW l \in Asks(s, "list") PROVE l <= j
    <3>1. (IF l < k THEN l ELSE l - 1) <= i
      BY <1>3, <2>2 DEF LastList
    <3>2. l # k /\ k \in Int /\ i \in Int /\ l \in Int
      BY <1>1, <1>4 DEF Asks
    <3> QED BY <3>1, <3>2
  <2> QED BY <2>1, <2>2 DEF LastList
<1> QED
  BY <1>5, <1>6, <1>7 DEF SameLists, Once, t

LEMMA SameListsCompose ==
    ASSUME NEW s, NEW t, NEW u, SameLists(s, t), SameLists(t, u)
    PROVE  SameLists(s, u)
<1>1. ASSUME NEW i \in Asks(s, "list")
      PROVE  \E j \in Asks(u, "list") : s[i].capture = u[j].capture /\ (LastList(s, i) => LastList(u, j))
  <2>1. PICK l \in Asks(t, "list") : s[i].capture = t[l].capture /\ (LastList(s, i) => LastList(t, l))
    BY <1>1 DEF SameLists
  <2>2. PICK j \in Asks(u, "list") : t[l].capture = u[j].capture /\ (LastList(t, l) => LastList(u, j))
    BY <2>1 DEF SameLists
  <2> QED BY <2>1, <2>2
<1> QED
  BY <1>1 DEF SameLists

\* What is left when an effect is cancelled.
LEMMA CancelIs ==
    ASSUME NEW s \in Seq(Requests), OneIgnored(s)
    PROVE  /\ Cancel(s) \in Seq(Requests) /\ SameLists(Cancel(s), s)
           /\ Asks(Cancel(s), "graphs") = {} /\ Asks(Cancel(s), "attribution") = {}
           /\ Asks(s, "events") = {} => Asks(Cancel(s), "events") = {}
<1> DEFINE ignored == {i \in DOMAIN s : s[i].asks \in {"graphs", "attribution"}}
           left == IF ignored = {} THEN s ELSE RemoveAt(s, CHOOSE i \in ignored : TRUE)
<1>1. Len(s) \in Nat /\ DOMAIN s = 1..Len(s) /\ \A n \in 1..Len(s) : s[n] \in Requests
  BY LenProperties, ElementOfSeq
<1>2. /\ left \in Seq(Requests) /\ SameLists(left, s)
      /\ \A n \in 1..Len(left) : left[n].asks \in {"list", "events"}
      /\ Asks(s, "events") = {} => Asks(left, "events") = {}
  <2>1. CASE ignored = {}
    <3>1. left = s
      BY <2>1
    <3>2. SameLists(s, s)
      BY DEF SameLists
    <3>3. \A n \in 1..Len(s) : s[n].asks \in {"list", "events"}
      BY <1>1, <2>1, RequestIs
    <3> HIDE DEF left
    <3> QED BY <3>1, <3>2, <3>3
  <2>2. CASE ignored # {}
    <3>1. PICK k : k = CHOOSE i \in ignored : TRUE
      OBVIOUS
    <3>2. k \in 1..Len(s) /\ Ignored(s[k])
      BY <1>1, <2>2, <3>1 DEF Ignored
    <3>3. left = RemoveAt(s, k)
      BY <2>2, <3>1
    <3> HIDE DEF left
    <3>4. /\ left \in Seq(Requests) /\ Len(left) = Len(s) - 1
          /\ \A n \in 1..(Len(s) - 1) : left[n] = IF n < k THEN s[n] ELSE s[n + 1]
      BY <3>2, <3>3, RemoveAtIs
    <3>5. SameLists(left, s)
      BY <3>2, <3>3, RemovedLists DEF Ignored
    <3>6. ASSUME NEW n \in 1..Len(left)
          PROVE  /\ left[n].asks \in {"list", "events"}
                 /\ Asks(s, "events") = {} => left[n].asks # "events"
      <4> DEFINE m == IF n < k THEN n ELSE n + 1
      <4>1. m \in 1..Len(s) /\ m # k /\ left[n] = s[m]
        BY <1>1, <3>2, <3>4
      <4>2. ~Ignored(s[m]) /\ s[m] \in Requests
        BY <1>1, <3>2, <4>1 DEF OneIgnored
      <4> HIDE DEF m
      <4> QED BY <4>1, <4>2, RequestIs DEF Ignored, Asks
    <3> QED BY <3>4, <3>5, <3>6 DEF Asks
  <2> QED BY <2>1, <2>2
<1>3. Cancel(s) = [i \in DOMAIN left |-> IF left[i].asks = "list" THEN left[i]
                                     ELSE [left[i] EXCEPT !.live = FALSE]]
  BY DEF Cancel
<1> HIDE DEF left, ignored
<1>4. PICK c : c = Cancel(s)
  OBVIOUS
<1>5. Len(left) \in Nat /\ DOMAIN left = 1..Len(left) /\ \A n \in 1..Len(left) : left[n] \in Requests
  BY <1>2, LenProperties, ElementOfSeq
<1>6. ASSUME NEW n \in 1..Len(left)
      PROVE  c[n] \in Requests /\ c[n].asks = left[n].asks /\ c[n].capture = left[n].capture
  <2>1. c[n] = IF left[n].asks = "list" THEN left[n] ELSE [left[n] EXCEPT !.live = FALSE]
    BY <1>3, <1>4, <1>5
  <2>2. left[n] \in Requests /\ left[n].asks \in {"list", "events"}
    BY <1>2, <1>5
  <2>3. CASE left[n].asks = "list"
    <3>1. left[n] \in ListRequests
      BY <2>2, <2>3, RequestIs
    <3>2. c[n] \in ListRequests /\ c[n].asks = left[n].asks /\ c[n].capture = left[n].capture
      BY <2>1, <2>3, <3>1 DEF ListRequests
    <3> QED BY <3>2 DEF Requests
  <2>4. CASE left[n].asks = "events"
    <3>1. left[n] \in EventRequests
      BY <2>2, <2>4, RequestIs
    <3>2. c[n] = [left[n] EXCEPT !.live = FALSE]
      BY <2>1, <2>4
    <3>3. c[n] \in EventRequests /\ c[n].asks = left[n].asks /\ c[n].capture = left[n].capture
      BY <3>1, <3>2, DroppedEvents
    <3> QED BY <3>3 DEF Requests
  <2> QED BY <2>2, <2>3, <2>4
<1>7. c = [i \in 1..Len(left) |-> c[i]]
  BY <1>3, <1>4, <1>5
<1>8. c \in Seq(Requests) /\ Len(c) = Len(left)
  BY <1>5, <1>6, <1>7, SeqDef, LenProperties
<1>9. \A what : Asks(c, what) = Asks(left, what)
  BY <1>6, <1>8 DEF Asks
<1>10. SameLists(c, left)
  BY <1>6, <1>9 DEF SameLists, Once, LastList, Asks
<1>11. SameLists(c, s)
  BY <1>2, <1>10, SameListsCompose
<1>12. /\ Asks(left, "graphs") = {} /\ Asks(left, "attribution") = {}
  BY <1>2 DEF Asks
<1> QED
  BY <1>2, <1>4, <1>8, <1>9, <1>11, <1>12

-----------------------------------------------------------------------------
(* The effect of the explorer. *)

\* The effect leaves the rest of the page alone.
SameRest(q, p) ==
    /\ q.view = p.view /\ q.input = p.input /\ q.list = p.list /\ q.error = p.error
    /\ q.clicks = p.clicks /\ q.steady = p.steady /\ q.inOrder = p.inOrder
    /\ q.index = p.index /\ q.graphs = p.graphs /\ q.loading = p.loading

LEMMA PageFields ==
    ASSUME NEW p \in PageRecords
    PROVE  /\ p.input \in Captures /\ p.list \in Seq(Subjects) /\ p.sent \in Seq(Requests)
           /\ p.error \in BOOLEAN /\ p.stale \in BOOLEAN /\ p.steady \in BOOLEAN
           /\ p.inOrder \in BOOLEAN /\ p.loading \in BOOLEAN /\ p.playing \in BOOLEAN
           /\ p.clicks \in Nat /\ p.index \in Nat /\ p.graphs \in GraphSets
           /\ p.events \in Marked /\ p.selected \in Marked /\ p.data \in Marked
           /\ p.view \in {"topology", "attribution"}
           /\ Len(p.list) \in Nat /\ DOMAIN p.list = 1..Len(p.list)
           /\ Len(p.sent) \in Nat /\ DOMAIN p.sent = 1..Len(p.sent)
<1>1. p.list \in Seq(Subjects) /\ p.sent \in Seq(Requests)
  BY DEF PageRecords
<1> QED
  BY <1>1, LenProperties DEF PageRecords

\* None stands for no snapshot and no dependency.
LEMMA NoneIs == None \notin Subjects
<1>1. \A s \in Subjects : DOMAIN s = {"capture", "number"}
  BY DEF Subjects
<1>2. DOMAIN None = {}
  BY DEF None
<1> QED
  BY <1>1, <1>2

LEMMA ItemIs ==
    ASSUME NEW p \in PageRecords
    PROVE  /\ CurrentOf(p) \in Marked /\ PreviousOf(p) \in Marked
           /\ CurrentOf(p) # None => CurrentOf(p) \in Subjects
           /\ PreviousOf(p) # None => PreviousOf(p) \in Subjects
           /\ p.index < Len(p.list) => CurrentOf(p) = p.list[p.index + 1] /\ CurrentOf(p) # None
           /\ CurrentOf(p) # None => p.index < Len(p.list)
<1>1. /\ p.list \in Seq(Subjects) /\ Len(p.list) \in Nat /\ p.index \in Nat
      /\ \A n \in 1..Len(p.list) : p.list[n] \in Subjects
  BY PageFields, ElementOfSeq
<1>2. ASSUME NEW i \in Int
      PROVE  /\ i \in 0..(Len(p.list) - 1) => ItemAt(p.list, i) = p.list[i + 1] /\ ItemAt(p.list, i) \in Subjects
             /\ i \notin 0..(Len(p.list) - 1) => ItemAt(p.list, i) = None
  <2>1. i \in 0..(Len(p.list) - 1) => i + 1 \in 1..Len(p.list)
    BY <1>1
  <2> QED BY <1>1, <2>1 DEF ItemAt
<1>3. p.index \in Int /\ p.index - 1 \in Int
  BY <1>1
<1>4. CurrentOf(p) = ItemAt(p.list, p.index) /\ PreviousOf(p) = ItemAt(p.list, p.index - 1)
  BY DEF CurrentOf, PreviousOf
<1>5. p.index < Len(p.list) <=> p.index \in 0..(Len(p.list) - 1)
  BY <1>1
<1> QED
  BY <1>2, <1>3, <1>4, <1>5, NoneIs DEF Marked

LEMMA SameItems ==
    ASSUME NEW p, NEW q, q.list = p.list, q.index = p.index
    PROVE  CurrentOf(q) = CurrentOf(p) /\ PreviousOf(q) = PreviousOf(p) /\ Watched(q) = Watched(p)
<1> QED
  BY DEF CurrentOf, PreviousOf, Watched

\* What an effect needs to find.
Explorable(p) ==
    /\ p \in PageRecords /\ p.view = "topology"
    /\ p.list # <<>> => p.index < Len(p.list)
    /\ OneList(p)
    /\ OneIgnored(p.sent) /\ Asks(p.sent, "attribution") = {}
    /\ p.steady => \A n \in DOMAIN p.graphs : p.graphs[n] = [capture |-> p.input, number |-> n]

\* And what it has cancelled then.
Cancelled(p) ==
    /\ Explorable(p) /\ ~p.stale /\ OnList(p)
    /\ Asks(p.sent, "graphs") = {}

LEMMA CancelPage ==
    ASSUME NEW p, Explorable(p), NEW q,
           q = [p EXCEPT !.sent = Cancel(@), !.stale = FALSE,
                         !.playing = IF p.index < Len(p.list) - 1 THEN @ ELSE FALSE]
    PROVE  Cancelled(q) /\ SameRest(q, p)
<1>1. p \in PageRecords
  BY DEF Explorable
<1>2. /\ Cancel(p.sent) \in Seq(Requests) /\ SameLists(Cancel(p.sent), p.sent)
      /\ Asks(Cancel(p.sent), "graphs") = {} /\ Asks(Cancel(p.sent), "attribution") = {}
  BY <1>1, CancelIs, PageFields DEF Explorable
<1>3. /\ q \in PageRecords /\ SameRest(q, p) /\ q.sent = Cancel(p.sent) /\ q.stale = FALSE
      /\ q.playing = IF p.index < Len(p.list) - 1 THEN p.playing ELSE FALSE
  BY <1>1, <1>2 DEF PageRecords, SameRest
<1>4. OneList(q)
  BY <1>2, <1>3 DEF Explorable, OneList, SameRest, SameLists
<1>5. OnList(q)
  BY <1>3 DEF Explorable, OnList, SameRest
<1>6. OneIgnored(q.sent)
  BY <1>2, <1>3 DEF OneIgnored, Ignored, Asks
<1> QED
  BY <1>2, <1>3, <1>4, <1>5, <1>6 DEF Explorable, Cancelled, SameRest

\* Nothing to ask for: there is no snapshot, or none before it.
LEMMA NothingAsked ==
    ASSUME NEW p, Cancelled(p), CurrentOf(p) = None \/ PreviousOf(p) = None,
           \A s \in Watched(p) : s.number \in DOMAIN p.graphs
    PROVE  ExplorerInv(p)
<1> QED
  BY DEF Cancelled, Explorable, ExplorerInv, GraphsFit, GraphsCome, EventsCome, Provided, Once

\* Another request does not disturb the loading of the list.
LEMMA AsksNoList ==
    ASSUME NEW p \in PageRecords, OneList(p), NEW r \in Requests, r.asks # "list",
           NEW q, q.sent = Append(p.sent, r), q.loading = p.loading, q.steady = p.steady,
           q.error = p.error, q.input = p.input, q.list = p.list
    PROVE  OneList(q)
<1>1. p.sent \in Seq(Requests) /\ p.loading \in BOOLEAN
  BY PageFields
<1>2. /\ Asks(q.sent, "list") = Asks(p.sent, "list")
      /\ \A i \in 1..Len(p.sent) : q.sent[i] = p.sent[i]
  BY <1>1, AppendIs
<1>3. \A i \in Asks(p.sent, "list") : q.sent[i] = p.sent[i]
  BY <1>2 DEF Asks
<1>4. q.loading <=> Asks(q.sent, "list") # {}
  BY <1>1, <1>2 DEF OneList
<1>5. Once(q.sent, "list")
  BY <1>2 DEF OneList, Once
<1>6. q.steady => \A i \in Asks(q.sent, "list") : q.sent[i].capture = q.input
  BY <1>2, <1>3 DEF OneList
<1>7. q.steady /\ ~q.loading /\ ~q.error => q.list = Items(q.input, SnapshotsOf)
  BY DEF OneList
<1> QED
  BY <1>4, <1>5, <1>6, <1>7 DEF OneList

Sends(q, p, r) == q = [p EXCEPT !.sent = Append(@, r)]

\* The request that the effect sends is the last, and for what is on the page.
LEMMA EffectAsks ==
    ASSUME NEW p, Cancelled(p), NEW r \in GraphRequests \cup EventRequests,
           r.live, r.capture = p.input, r.current = CurrentOf(p),
           \A s \in Watched(p) :
              s.number \in DOMAIN p.graphs \/ (r.asks = "graphs" /\ s.number \in r.numbers),
           NEW q, Sends(q, p, r)
    PROVE  q \in PageRecords /\ SameRest(q, p) /\ ExplorerInv(q)
<1>1. p \in PageRecords
  BY DEF Cancelled, Explorable
<1>2. r \in Requests /\ r.asks \in {"graphs", "events"}
  BY DEF Requests, GraphRequests, EventRequests
<1>3. p.sent \in Seq(Requests) /\ Len(p.sent) \in Nat
  BY <1>1, PageFields
<1>4. /\ Append(p.sent, r) \in Seq(Requests) /\ Len(Append(p.sent, r)) = Len(p.sent) + 1
      /\ Append(p.sent, r)[Len(p.sent) + 1] = r
      /\ \A i \in 1..Len(p.sent) : Append(p.sent, r)[i] = p.sent[i]
      /\ \A what : Asks(Append(p.sent, r), what) =
            Asks(p.sent, what) \cup (IF r.asks = what THEN {Len(p.sent) + 1} ELSE {})
      /\ Append(p.sent, r) # <<>>
  BY <1>2, <1>3, AppendIs
<1>5. /\ q \in PageRecords /\ SameRest(q, p) /\ q.sent = Append(p.sent, r) /\ q.stale = p.stale
      /\ q.playing = p.playing
  BY <1>1, <1>4 DEF PageRecords, SameRest, Sends
<1>6. CurrentOf(q) = CurrentOf(p) /\ PreviousOf(q) = PreviousOf(p) /\ Watched(q) = Watched(p)
  BY <1>5, SameItems DEF SameRest
<1>7. OneList(q)
  BY <1>1, <1>2, <1>5, AsksNoList DEF Cancelled, Explorable, SameRest
<1>8. Asks(q.sent, "graphs") = IF r.asks = "graphs" THEN {Len(p.sent) + 1} ELSE {}
  BY <1>4, <1>5 DEF Cancelled
<1>9. GraphsFit(q)
  <2>1. Asks(q.sent, "attribution") = {}
    BY <1>2, <1>4, <1>5 DEF Cancelled, Explorable
  <2> QED BY <1>4, <1>5, <1>8, <2>1 DEF GraphsFit, Once, Cancelled, Explorable, SameRest
<1>10. GraphsCome(q)
  BY <1>4, <1>5, <1>6, <1>8 DEF GraphsCome, Provided, SameRest
<1>11. EventsCome(q)
  BY <1>2, <1>3, <1>4, <1>5, <1>6 DEF EventsCome, AskedLast, SameRest
<1>12. OnList(q)
  BY <1>5 DEF OnList, Cancelled, SameRest
<1> QED
  BY <1>5, <1>7, <1>9, <1>10, <1>11, <1>12 DEF ExplorerInv

LEMMA ExploreIs ==
    ASSUME NEW p, Explorable(p)
    PROVE  Explore(p) \in PageRecords /\ SameRest(Explore(p), p) /\ ExplorerInv(Explore(p))
<1> DEFINE q == [p EXCEPT !.sent = Cancel(@), !.stale = FALSE,
                          !.playing = IF p.index < Len(p.list) - 1 THEN @ ELSE FALSE]
           missing == {s \in {CurrentOf(p), PreviousOf(p)} \ {None} : s.number \notin DOMAIN p.graphs}
           r == [asks |-> "graphs", capture |-> p.input, live |-> TRUE,
                 current |-> CurrentOf(p), previous |-> PreviousOf(p),
                 numbers |-> {s.number : s \in missing}]
<1>1. Explore(p) = IF CurrentOf(p) = None THEN q
                   ELSE IF missing = {} THEN AskEvents(q, r)
                   ELSE [q EXCEPT !.sent = Append(@, r)]
  BY DEF Explore
<1>2. Cancelled(q) /\ SameRest(q, p)
  BY CancelPage
<1>3. p \in PageRecords /\ q \in PageRecords /\ q.view = "topology"
  BY <1>2 DEF Explorable, Cancelled
<1> HIDE DEF q
<1>4. CurrentOf(q) = CurrentOf(p) /\ PreviousOf(q) = PreviousOf(p) /\ Watched(q) = Watched(p)
  BY <1>2, SameItems DEF SameRest
<1>5. /\ missing = {s \in Watched(q) : s.number \notin DOMAIN q.graphs}
      /\ missing \subseteq Subjects
  BY <1>2, <1>3, <1>4, ItemIs DEF Watched, SameRest
<1> HIDE DEF missing
<1>6. CASE CurrentOf(p) = None
  <2>1. Explore(p) = q
    BY <1>1, <1>6
  <2>2. PreviousOf(p) = None
    BY <1>3, <1>6, ItemIs, PageFields DEF PreviousOf, ItemAt, Explorable
  <2>3. Watched(q) = {}
    BY <1>4, <1>6, <2>2 DEF Watched
  <2> QED BY <1>2, <1>3, <1>4, <1>6, <2>1, <2>3, NothingAsked
<1>7. CASE CurrentOf(p) # None
  <2>1. CurrentOf(p) \in Subjects /\ PreviousOf(p) \in Marked /\ p.input \in Captures
    BY <1>3, <1>7, ItemIs, PageFields
  <2>2. {s.number : s \in missing} \in SUBSET Nat
    BY <1>5 DEF Subjects
  <2>3. /\ r \in GraphRequests /\ r.live /\ r.capture = q.input /\ r.current = CurrentOf(q)
        /\ r.previous = PreviousOf(q) /\ r.asks = "graphs"
        /\ r.numbers = {s.number : s \in missing}
    BY <1>2, <1>4, <2>1, <2>2 DEF GraphRequests, SameRest
  <2> HIDE DEF r
  <2>4. CASE missing # {}
    <3>1. Explore(p) = [q EXCEPT !.sent = Append(@, r)]
      BY <1>1, <1>7, <2>4
    <3>2. \A s \in Watched(q) :
             s.number \in DOMAIN q.graphs \/ (r.asks = "graphs" /\ s.number \in r.numbers)
      BY <1>5, <2>3
    <3>3. /\ Explore(p) \in PageRecords /\ SameRest(Explore(p), q)
          /\ ExplorerInv(Explore(p))
      BY <1>2, <2>3, <3>1, <3>2, EffectAsks DEF Sends
    <3> QED BY <1>2, <3>3 DEF SameRest
  <2>5. CASE missing = {}
    <3>1. Explore(p) = AskEvents(q, r)
      BY <1>1, <1>7, <2>5
    <3>2. \A s \in Watched(q) : s.number \in DOMAIN q.graphs
      BY <1>5, <2>5
    <3>3. CASE r.previous = None
      <4>1. Explore(p) = [q EXCEPT !.events = None]
        BY <3>1, <3>3 DEF AskEvents
      <4>2. PICK e : e = Explore(p)
        OBVIOUS
      <4>3. /\ e \in PageRecords /\ SameRest(e, q) /\ e.sent = q.sent /\ e.stale = q.stale
            /\ e.playing = q.playing
        BY <1>3, <4>1, <4>2 DEF PageRecords, SameRest, Marked
      <4>4. CurrentOf(e) = CurrentOf(q) /\ PreviousOf(e) = PreviousOf(q) /\ Watched(e) = Watched(q)
        BY <4>3, SameItems DEF SameRest
      <4>5. Cancelled(e)
        BY <1>2, <4>3 DEF Cancelled, Explorable, OneList, OnList, SameRest
      <4>6. PreviousOf(e) = None /\ \A s \in Watched(e) : s.number \in DOMAIN e.graphs
        BY <2>3, <3>2, <3>3, <4>3, <4>4 DEF SameRest
      <4>7. ExplorerInv(e)
        BY <4>5, <4>6, NothingAsked
      <4> QED BY <1>2, <4>2, <4>3, <4>7 DEF SameRest
    <3>4. CASE r.previous # None
      <4>1. PICK x : x = [r EXCEPT !.asks = "events"]
        OBVIOUS
      <4>2. /\ x \in EventRequests /\ x.live /\ x.capture = q.input /\ x.current = CurrentOf(q)
        BY <2>3, <4>1 DEF GraphRequests, EventRequests
      <4>3. Explore(p) = [q EXCEPT !.sent = Append(@, x)]
        BY <3>1, <3>4, <4>1 DEF AskEvents
      <4>4. Explore(p) \in PageRecords /\ SameRest(Explore(p), q) /\ ExplorerInv(Explore(p))
        BY <1>2, <3>2, <4>2, <4>3, EffectAsks DEF Sends
      <4> QED BY <1>2, <4>4 DEF SameRest
    <3> QED BY <3>3, <3>4
  <2> QED BY <2>4, <2>5
<1> QED
  BY <1>6, <1>7

-----------------------------------------------------------------------------
(* The user of the explorer. *)

\* An explorer in order.
Exploring(p) == p \in PageRecords /\ p.view = "topology" /\ ExplorerInv(p)

LEMMA ExploringIsExplorable ==
    ASSUME NEW p, Exploring(p)
    PROVE  Explorable(p)
<1>1. OneIgnored(p.sent)
  BY DEF Exploring, ExplorerInv, GraphsFit, Once, Asks, OneIgnored, Ignored
<1> QED
  BY <1>1 DEF Exploring, ExplorerInv, GraphsFit, OnList, Explorable

\* Only what is read of a page matters to what holds of it.
LEMMA SameExploring ==
    ASSUME NEW p, Exploring(p), NEW q, q \in PageRecords, SameRest(q, [p EXCEPT !.clicks = q.clicks]),
           q.sent = p.sent, q.stale = p.stale, q.events = p.events,
           q.playing => p.playing \/ p.index < Len(p.list) - 1
    PROVE  Exploring(q)
<1>1. /\ q.view = p.view /\ q.input = p.input /\ q.list = p.list /\ q.error = p.error
      /\ q.steady = p.steady /\ q.inOrder = p.inOrder
      /\ q.index = p.index /\ q.graphs = p.graphs /\ q.loading = p.loading
  BY DEF Exploring, PageRecords, SameRest
<1>2. CurrentOf(q) = CurrentOf(p) /\ PreviousOf(q) = PreviousOf(p) /\ Watched(q) = Watched(p)
  BY <1>1, SameItems
<1>3. OnList(p) /\ OneList(p) /\ GraphsFit(p) /\ GraphsCome(p) /\ EventsCome(p)
  BY DEF Exploring, ExplorerInv
<1>4. OnList(q)
  BY <1>1, <1>3 DEF OnList
<1>5. OneList(q)
  BY <1>1, <1>3 DEF OneList
<1>6. GraphsFit(q)
  BY <1>1, <1>3 DEF GraphsFit
<1>7. GraphsCome(q)
  BY <1>1, <1>2, <1>3 DEF GraphsCome, Provided
<1>8. EventsCome(q)
  BY <1>1, <1>2, <1>3 DEF EventsCome, AskedLast
<1> QED
  BY <1>1, <1>4, <1>5, <1>6, <1>7, <1>8 DEF Exploring, ExplorerInv

LEMMA ClickIs ==
    ASSUME NEW p, Exploring(p), NEW q, q = [p EXCEPT !.clicks = @ + 1]
    PROVE  Exploring(q)
<1>1. /\ q \in PageRecords /\ SameRest(q, [p EXCEPT !.clicks = q.clicks])
      /\ q.sent = p.sent /\ q.stale = p.stale /\ q.events = p.events /\ q.playing = p.playing
  BY DEF Exploring, PageRecords, SameRest
<1> QED
  BY <1>1, SameExploring

LEMMA PlayingIs ==
    ASSUME NEW p, Exploring(p), NEW b \in BOOLEAN, b => p.index < Len(p.list) - 1,
           NEW q, q = [p EXCEPT !.playing = b]
    PROVE  Exploring(q) /\ q.list = p.list /\ q.index = p.index
<1>1. /\ q \in PageRecords /\ SameRest(q, [p EXCEPT !.clicks = q.clicks])
      /\ q.sent = p.sent /\ q.stale = p.stale /\ q.events = p.events /\ q.playing = b
      /\ q.list = p.list /\ q.index = p.index
  BY DEF Exploring, PageRecords, SameRest
<1> QED
  BY <1>1, SameExploring

LEMMA Explored ==
    ASSUME NEW p, Explorable(p)
    PROVE  /\ Exploring(Explore(p)) /\ Explore(p).list = p.list /\ Explore(p).index = p.index
<1> QED
  BY ExploreIs DEF Exploring, Explorable, SameRest

LEMMA MoveToIs ==
    ASSUME NEW p, Exploring(p), NEW i \in Nat, i < Len(p.list)
    PROVE  Exploring(MoveTo(p, i)) /\ MoveTo(p, i).list = p.list /\ MoveTo(p, i).index = i
<1>1. CASE i = p.index
  BY <1>1 DEF MoveTo
<1>2. CASE i # p.index
  <2>1. PICK q : q = [p EXCEPT !.index = i]
    OBVIOUS
  <2>2. MoveTo(p, i) = Explore(q)
    BY <1>2, <2>1 DEF MoveTo
  <2>3. Explorable(p)
    BY ExploringIsExplorable
  <2>4. /\ q \in PageRecords /\ q.view = p.view /\ q.list = p.list /\ q.index = i
        /\ q.sent = p.sent /\ q.loading = p.loading /\ q.steady = p.steady /\ q.error = p.error
        /\ q.input = p.input /\ q.graphs = p.graphs
    BY <2>1 DEF Exploring, PageRecords
  <2>5. OneList(q)
    BY <2>3, <2>4 DEF Explorable, OneList
  <2>6. Explorable(q)
    BY <2>3, <2>4, <2>5 DEF Explorable
  <2> QED BY <2>2, <2>4, <2>6, Explored
<1> QED
  BY <1>1, <1>2

LEMMA EditExplorer ==
    ASSUME Exploring(page), NEW capture \in Captures, Edit(capture)
    PROVE  Exploring(page')
<1>1. PICK q : q = [page EXCEPT !.input = capture, !.steady = FALSE]
  OBVIOUS
<1>2. Explorable(page)
  BY ExploringIsExplorable
<1>3. /\ q \in PageRecords /\ q.view = page.view /\ q.list = page.list /\ q.index = page.index
      /\ q.sent = page.sent /\ q.loading = page.loading /\ q.steady = FALSE
  BY <1>1 DEF Exploring, PageRecords
<1>4. OneList(q)
  BY <1>2, <1>3 DEF Explorable, OneList
<1>5. Explorable(q)
  BY <1>2, <1>3, <1>4 DEF Explorable
<1>6. page' = [Explore(q) EXCEPT !.clicks = @ + 1]
  BY <1>1, <1>3 DEF Edit, Click, Effect, Exploring
<1> QED
  BY <1>5, <1>6, Explored, ClickIs

LEMMA ExplorerLoads ==
    ASSUME NEW p, Explorable(p), ~p.loading
    PROVE  Exploring(Loading(p))
<1>1. PICK r : r = [asks |-> "list", capture |-> p.input, live |-> TRUE]
  OBVIOUS
<1>2. PICK asked : asked = [p EXCEPT !.error = FALSE, !.steady = TRUE, !.sent = Append(@, r)]
  OBVIOUS
<1>3. PICK q : q = [asked EXCEPT !.loading = TRUE, !.graphs = <<>>]
  OBVIOUS
<1>4. Loading(p) = Explore(q)
  BY <1>1, <1>2, <1>3 DEF Loading, Explorable
<1>5. p \in PageRecords /\ p.sent \in Seq(Requests) /\ Len(p.sent) \in Nat /\ p.input \in Captures
  BY PageFields DEF Explorable
<1>6. r \in Requests /\ r.asks = "list" /\ r.capture = p.input
  BY <1>1, <1>5 DEF Requests, ListRequests
<1>7. /\ Append(p.sent, r) \in Seq(Requests) /\ Len(Append(p.sent, r)) = Len(p.sent) + 1
      /\ Append(p.sent, r)[Len(p.sent) + 1] = r
      /\ \A i \in 1..Len(p.sent) : Append(p.sent, r)[i] = p.sent[i]
      /\ \A what : Asks(Append(p.sent, r), what) =
            Asks(p.sent, what) \cup (IF r.asks = what THEN {Len(p.sent) + 1} ELSE {})
  BY <1>5, <1>6, AppendIs
<1>8. <<>> \in GraphSets
  <2>1. <<>> = [n \in {} |-> [capture |-> p.input, number |-> n]]
    OBVIOUS
  <2>2. [n \in {} |-> [capture |-> p.input, number |-> n]] \in [{} -> Subjects]
    OBVIOUS
  <2> QED BY <2>1, <2>2 DEF GraphSets
<1>9. /\ asked \in PageRecords /\ asked.view = p.view /\ asked.list = p.list
      /\ asked.index = p.index /\ asked.sent = Append(p.sent, r) /\ asked.steady = TRUE
      /\ asked.input = p.input
  BY <1>2, <1>5, <1>7 DEF PageRecords
<1>10. /\ q \in PageRecords /\ q.view = p.view /\ q.list = p.list /\ q.index = p.index
       /\ q.sent = Append(p.sent, r) /\ q.steady = TRUE /\ q.input = p.input
       /\ q.loading = TRUE /\ q.graphs = <<>>
  BY <1>3, <1>8, <1>9 DEF PageRecords
<1>11. Asks(p.sent, "list") = {}
  BY DEF Explorable, OneList
<1>12. Asks(q.sent, "list") = {Len(p.sent) + 1}
  <2>1. Asks(q.sent, "list") =
           Asks(p.sent, "list") \cup (IF r.asks = "list" THEN {Len(p.sent) + 1} ELSE {})
    BY <1>7, <1>10
  <2> QED BY <1>6, <1>11, <2>1
<1>13. OneList(q)
  BY <1>6, <1>7, <1>10, <1>12 DEF OneList, Once
<1>14. OneIgnored(q.sent) /\ Asks(q.sent, "attribution") = {}
  <2>1. \A i \in 1..Len(q.sent) : i \in 1..Len(p.sent) \/ (i = Len(p.sent) + 1 /\ q.sent[i] = r)
    BY <1>5, <1>7, <1>10
  <2>2. \A i \in 1..Len(q.sent) :
           q.sent[i].asks # "list" => i \in 1..Len(p.sent) /\ q.sent[i] = p.sent[i]
    BY <1>6, <1>7, <1>10, <2>1
  <2>3. OneIgnored(q.sent)
    BY <2>2 DEF Explorable, OneIgnored, Ignored
  <2> QED BY <2>2, <2>3 DEF Explorable, Asks
<1>15. DOMAIN q.graphs = {}
  BY <1>10
<1>16. Explorable(q)
  BY <1>10, <1>13, <1>14, <1>15 DEF Explorable
<1> QED
  BY <1>4, <1>16, Explored

LEMMA LoadExplorer ==
    ASSUME Exploring(page), Load
    PROVE  Exploring(page')
<1>1. Explorable(page) /\ ~page.loading /\ page' = [Loading(page) EXCEPT !.clicks = @ + 1]
  BY ExploringIsExplorable DEF Load, Click, Exploring
<1> QED
  BY <1>1, ExplorerLoads, ClickIs

LEMMA StepToExplorer ==
    ASSUME Exploring(page), NEW i \in DOMAIN page.list, StepTo(i - 1)
    PROVE  Exploring(page')
<1>1. i \in 1..Len(page.list) /\ Len(page.list) \in Nat
  BY PageFields DEF Exploring
<1>2. PICK q : q = [page EXCEPT !.playing = FALSE]
  OBVIOUS
<1>3. Exploring(q) /\ q.list = page.list
  BY <1>2, PlayingIs
<1>4. page' = [MoveTo(q, i - 1) EXCEPT !.clicks = @ + 1]
  BY <1>2 DEF StepTo, Click
<1>5. i - 1 \in Nat /\ i - 1 < Len(q.list)
  BY <1>1, <1>3
<1> QED
  BY <1>3, <1>4, <1>5, MoveToIs, ClickIs

LEMMA PlayExplorer ==
    ASSUME Exploring(page), Play
    PROVE  Exploring(page')
<1>1. PICK i : i = IF page.index >= Len(page.list) - 1 THEN 0 ELSE page.index
  OBVIOUS
<1>2. PICK p : p = MoveTo(page, i)
  OBVIOUS
<1>3. page.index \in Nat /\ Len(page.list) \in Nat /\ page.index < Len(page.list)
  BY PageFields, ItemIs DEF Play, Exploring
<1>4. i \in Nat /\ i < Len(page.list)
  BY <1>1, <1>3
<1>5. Exploring(p)
  BY <1>2, <1>4, MoveToIs
<1>6. PICK b \in BOOLEAN : b = (~page.playing /\ p.index < Len(p.list) - 1)
  OBVIOUS
<1>7. page' = [[p EXCEPT !.playing = ~page.playing /\ p.index < Len(p.list) - 1]
                  EXCEPT !.clicks = @ + 1]
  BY <1>1, <1>2, Zenon DEF Play, Click
<1>8. PICK q : q = [p EXCEPT !.playing = b]
  OBVIOUS
<1>9. page' = [q EXCEPT !.clicks = @ + 1]
  BY <1>6, <1>7, <1>8, Zenon
<1>10. b => p.index < Len(p.list) - 1
  BY <1>6
<1> QED
  BY <1>5, <1>8, <1>9, <1>10, PlayingIs, ClickIs

LEMMA TickExplorer ==
    ASSUME Exploring(page), Tick
    PROVE  Exploring(page')
<1>1. /\ page.index \in Nat /\ Len(page.list) \in Nat /\ page.index < Len(page.list) - 1
      /\ page' = MoveTo(page, page.index + 1)
  BY PageFields DEF Tick, Exploring, ExplorerInv, OnList
<1>2. page.index + 1 \in Nat /\ page.index + 1 < Len(page.list)
  BY <1>1
<1> QED
  BY <1>1, <1>2, MoveToIs

LEMMA RenderExplorer ==
    ASSUME Exploring(page), Render
    PROVE  Exploring(page')
<1>1. page' = Explore(page)
  BY DEF Render, Effect, Exploring
<1> QED
  BY <1>1, Explored, ExploringIsExplorable

-----------------------------------------------------------------------------
(* The answers to the explorer. *)

\* t is s without its k-th request.
Lost(t, s, k) ==
    /\ t \in Seq(Requests)
    /\ \A what : \A i \in Asks(t, what) : \E j \in Asks(s, what) \ {k} : t[i] = s[j]
    /\ \A what : \A j \in Asks(s, what) \ {k} : \E i \in Asks(t, what) : t[i] = s[j]
    /\ \A what : Once(s, what) => Once(t, what)
    /\ \A what : Once(s, what) /\ s[k].asks = what => Asks(t, what) = {}
    /\ Len(s) = 1 => t = <<>>
    /\ k < Len(s) => t # <<>> /\ t[Len(t)] = s[Len(s)]

LEMMA RemovedIs ==
    ASSUME NEW s \in Seq(Requests), NEW k \in 1..Len(s), NEW t, t = RemoveAt(s, k)
    PROVE  Lost(t, s, k)
<1>1. /\ Len(s) \in Nat /\ t \in Seq(Requests) /\ Len(t) = Len(s) - 1
      /\ \A n \in 1..(Len(s) - 1) : t[n] = IF n < k THEN s[n] ELSE s[n + 1]
  BY RemoveAtIs, LenProperties
<1>2. ASSUME NEW what, NEW i \in Asks(t, what)
      PROVE  LET j == IF i < k THEN i ELSE i + 1 IN j \in Asks(s, what) \ {k} /\ t[i] = s[j]
  BY <1>1, <1>2 DEF Asks
<1>3. ASSUME NEW what, NEW j \in Asks(s, what) \ {k}
      PROVE  LET i == IF j < k THEN j ELSE j - 1 IN i \in Asks(t, what) /\ t[i] = s[j]
  BY <1>1, <1>3 DEF Asks
<1>4. \A what : Asks(t, what) \subseteq Int /\ Asks(s, what) \subseteq Int
  BY <1>1 DEF Asks
<1>5. ASSUME NEW what, Once(s, what), NEW i \in Asks(t, what), NEW j \in Asks(t, what) PROVE i = j
  <2>1. (IF i < k THEN i ELSE i + 1) = (IF j < k THEN j ELSE j + 1)
    BY <1>2, <1>5 DEF Once
  <2> QED BY <1>4, <2>1
<1>6. ASSUME NEW what, Once(s, what), s[k].asks = what PROVE Asks(t, what) = {}
  <2>1. k \in Asks(s, what)
    BY <1>6 DEF Asks
  <2> QED BY <1>2, <1>6, <2>1 DEF Once
<1>7. Len(s) = 1 => t = <<>>
  BY <1>1, EmptySeq
<1>8. ASSUME k < Len(s) PROVE t # <<>> /\ t[Len(t)] = s[Len(s)]
  <2>1. Len(s) - 1 \in 1..(Len(s) - 1) /\ ~(Len(s) - 1 < k) /\ (Len(s) - 1) + 1 = Len(s)
    BY <1>1, <1>8
  <2>2. t[Len(s) - 1] = s[Len(s)]
    BY <1>1, <2>1
  <2>3. t # <<>>
    BY <1>1, <2>1, EmptySeq
  <2> QED BY <1>1, <2>2, <2>3
<1> QED
  <2>1. \A what : \A i \in Asks(t, what) : \E j \in Asks(s, what) \ {k} : t[i] = s[j]
    BY <1>2
  <2>2. \A what : \A j \in Asks(s, what) \ {k} : \E i \in Asks(t, what) : t[i] = s[j]
    BY <1>3
  <2>3. \A what : Once(s, what) => Once(t, what)
    BY <1>5 DEF Once
  <2>4. \A what : Once(s, what) /\ s[k].asks = what => Asks(t, what) = {}
    BY <1>6
  <2> QED BY <1>1, <1>7, <1>8, <2>1, <2>2, <2>3, <2>4 DEF Lost

\* The page that an answer finds: a request of the page `old' is gone.
Taken(p, old, k) ==
    /\ p = [old EXCEPT !.sent = RemoveAt(@, k), !.inOrder = IF k = 1 THEN @ ELSE FALSE]
    /\ k \in 1..Len(old.sent)

\* What is left of the page then.
Relieved(p, old, k) ==
    /\ p \in PageRecords
    /\ p.view = old.view /\ p.input = old.input /\ p.list = old.list
    /\ p.error = old.error /\ p.stale = old.stale /\ p.steady = old.steady
    /\ p.inOrder = (IF k = 1 THEN old.inOrder ELSE FALSE)
    /\ p.index = old.index /\ p.graphs = old.graphs /\ p.events = old.events
    /\ p.loading = old.loading /\ p.playing = old.playing
    /\ p.selected = old.selected /\ p.data = old.data /\ p.clicks = old.clicks
    /\ p.sent = RemoveAt(old.sent, k)
    /\ old.sent \in Seq(Requests) /\ Len(old.sent) \in Nat /\ old.sent[k] \in Requests
    /\ k \in 1..Len(old.sent)

LEMMA TakenIs ==
    ASSUME NEW old \in PageRecords, NEW p, NEW k, Taken(p, old, k)
    PROVE  Relieved(p, old, k)
<1>1. /\ old.sent \in Seq(Requests) /\ Len(old.sent) \in Nat /\ k \in 1..Len(old.sent)
  BY PageFields DEF Taken
<1>2. RemoveAt(old.sent, k) \in Seq(Requests)
  BY <1>1, RemoveAtIs
<1>3. old.sent[k] \in Requests
  BY <1>1, ElementOfSeq
<1> QED
  BY <1>1, <1>2, <1>3 DEF Taken, PageRecords, Relieved

\* What does not depend on the order of the answers survives the loss of any
\* request but the loading of the list.
LEMMA TakenExplorer ==
    ASSUME NEW old, Exploring(old), NEW p, NEW k, Taken(p, old, k)
    PROVE  /\ OnList(p) /\ GraphsFit(p)
           /\ old.sent[k].asks # "list" => OneList(p)
           /\ old.sent[k].asks = "list" => Asks(p.sent, "list") = {}
           /\ old.sent[k].asks = "graphs" => Asks(p.sent, "graphs") = {}
<1>1. OnList(old) /\ OneList(old) /\ GraphsFit(old) /\ old \in PageRecords
  BY DEF Exploring, ExplorerInv
<1>2. Relieved(p, old, k)
  BY <1>1, TakenIs
<1>3. Lost(p.sent, old.sent, k)
  BY <1>2, RemovedIs DEF Relieved
<1>4. /\ p.input = old.input /\ p.list = old.list /\ p.error = old.error /\ p.stale = old.stale
      /\ p.steady = old.steady /\ p.index = old.index /\ p.graphs = old.graphs
      /\ p.loading = old.loading /\ p.playing = old.playing
  BY <1>2 DEF Relieved
<1>5. OnList(p)
  BY <1>1, <1>4 DEF OnList
<1>6. GraphsFit(p)
  <2>1. Asks(p.sent, "attribution") = {} /\ Once(p.sent, "graphs")
    BY <1>1, <1>3 DEF GraphsFit, Lost
  <2>2. \A i \in Asks(p.sent, "graphs") : p.sent[i].capture = p.input
    BY <1>1, <1>3, <1>4 DEF GraphsFit, Lost
  <2>3. p.steady => \A n \in DOMAIN p.graphs : p.graphs[n] = [capture |-> p.input, number |-> n]
    BY <1>1, <1>4 DEF GraphsFit
  <2> QED BY <2>1, <2>2, <2>3 DEF GraphsFit
<1>7. ASSUME old.sent[k].asks # "list" PROVE OneList(p)
  <2>1. Asks(p.sent, "list") = {} <=> Asks(old.sent, "list") = {}
    <3>1. k \notin Asks(old.sent, "list")
      BY <1>7 DEF Asks
    <3> QED BY <1>3, <3>1 DEF Lost
  <2>2. Once(p.sent, "list")
    BY <1>1, <1>3 DEF OneList, Lost
  <2>3. p.steady => \A i \in Asks(p.sent, "list") : p.sent[i].capture = p.input
    BY <1>1, <1>3, <1>4 DEF OneList, Lost
  <2>4. p.loading <=> Asks(p.sent, "list") # {}
    <3>1. old.loading \in BOOLEAN
      BY <1>1, PageFields
    <3> QED BY <1>1, <1>4, <2>1, <3>1 DEF OneList
  <2>5. p.steady /\ ~p.loading /\ ~p.error => p.list = Items(p.input, SnapshotsOf)
    BY <1>1, <1>4 DEF OneList
  <2> QED BY <2>2, <2>3, <2>4, <2>5 DEF OneList
<1>8. old.sent[k].asks = "list" => Asks(p.sent, "list") = {}
  BY <1>1, <1>3 DEF OneList, Lost
<1>9. old.sent[k].asks = "graphs" => Asks(p.sent, "graphs") = {}
  BY <1>1, <1>3 DEF GraphsFit, Lost
<1> QED
  BY <1>5, <1>6, <1>7, <1>8, <1>9

\* An effect that is due makes up for the graphs and the changes, and so does an
\* error.
LEMMA Excused ==
    ASSUME NEW p, p.stale \/ p.error, OnList(p), OneList(p), GraphsFit(p)
    PROVE  ExplorerInv(p)
<1> QED
  BY DEF ExplorerInv, GraphsCome, EventsCome

LEMMA ItemsAre ==
    ASSUME NEW capture \in Captures, NEW count, count \in {SnapshotsOf, DependenciesOf}
    PROVE  /\ count[capture] \in Nat
           /\ Items(capture, count) \in Seq(Subjects) /\ Len(Items(capture, count)) = count[capture]
           /\ \A n \in 1..count[capture] : Items(capture, count)[n].capture = capture
<1>1. count[capture] \in Nat
  BY PagesAssumption DEF Captures
<1>2. Items(capture, count) \in [1..count[capture] -> Subjects]
  BY <1>1 DEF Items, Subjects
<1>3. Items(capture, count) \in Seq(Subjects)
  BY <1>1, <1>2, SeqDef
<1>4. Len(Items(capture, count)) = count[capture]
  BY <1>1, <1>2, <1>3, LenProperties
<1> QED
  BY <1>1, <1>3, <1>4 DEF Items

LEMMA ListToExplorer ==
    ASSUME NEW old, Exploring(old), NEW p, NEW k, Taken(p, old, k), old.sent[k].asks = "list",
           NEW q, q = Answered(p, old.sent[k]) \/ q = Failed(p, old.sent[k])
    PROVE  Exploring(q)
<1> DEFINE r == old.sent[k]
<1>1. /\ p \in PageRecords /\ p.view = "topology" /\ r \in Requests /\ k \in 1..Len(old.sent)
      /\ p.input = old.input /\ p.steady = old.steady
  BY TakenIs DEF Exploring, Relieved
<1>2. r.capture \in Captures
  BY <1>1, RequestIs
<1>3. /\ OnList(p) /\ GraphsFit(p) /\ Asks(p.sent, "list") = {}
  BY TakenExplorer
<1>4. p.steady => r.capture = p.input
  <2>1. k \in Asks(old.sent, "list")
    BY <1>1 DEF Asks
  <2> QED BY <1>1, <2>1 DEF Exploring, ExplorerInv, OneList
<1>5. /\ SnapshotsOf[r.capture] \in Nat /\ Items(r.capture, SnapshotsOf) \in Seq(Subjects)
      /\ Len(Items(r.capture, SnapshotsOf)) = SnapshotsOf[r.capture]
  BY <1>2, ItemsAre
<1> HIDE DEF r
<1>6. CASE q = Answered(p, r)
  <2>1. q = [p EXCEPT !.list = Items(r.capture, SnapshotsOf), !.loading = FALSE, !.stale = TRUE,
                      !.index = IF SnapshotsOf[r.capture] = 0 THEN 0 ELSE SnapshotsOf[r.capture] - 1]
    BY <1>1, <1>6 DEF Answered, r
  <2>2. (IF SnapshotsOf[r.capture] = 0 THEN 0 ELSE SnapshotsOf[r.capture] - 1) \in Nat
    BY <1>5
  <2>3. /\ q \in PageRecords /\ q.view = p.view /\ q.list = Items(r.capture, SnapshotsOf)
        /\ q.loading = FALSE /\ q.stale = TRUE /\ q.steady = p.steady /\ q.input = p.input
        /\ q.index = (IF SnapshotsOf[r.capture] = 0 THEN 0 ELSE SnapshotsOf[r.capture] - 1)
        /\ q.sent = p.sent /\ q.graphs = p.graphs
    BY <1>1, <1>5, <2>1, <2>2 DEF PageRecords
  <2>4. OnList(q)
    <3>1. q.list # <<>> => SnapshotsOf[r.capture] # 0
      BY <1>5, <2>3, EmptySeq
    <3> QED BY <1>5, <2>3, <3>1 DEF OnList
  <2>5. OneList(q)
    BY <1>3, <1>4, <2>3 DEF OneList, Once
  <2>6. GraphsFit(q)
    BY <1>3, <2>3 DEF GraphsFit
  <2> QED BY <1>1, <2>3, <2>4, <2>5, <2>6, Excused DEF Exploring
<1>7. CASE q = Failed(p, r)
  <2>1. q = [p EXCEPT !.error = TRUE, !.list = <<>>, !.loading = FALSE, !.stale = TRUE]
    BY <1>1, <1>7 DEF Failed, r
  <2>2. /\ q \in PageRecords /\ q.view = p.view /\ q.list = <<>> /\ q.error = TRUE
        /\ q.loading = FALSE /\ q.stale = TRUE /\ q.steady = p.steady /\ q.input = p.input
        /\ q.sent = p.sent /\ q.graphs = p.graphs
    BY <1>1, <2>1, EmptySeq DEF PageRecords
  <2>3. OnList(q) /\ OneList(q) /\ GraphsFit(q)
    BY <1>3, <2>2 DEF OnList, OneList, GraphsFit, Once
  <2> QED BY <1>1, <2>2, <2>3, Excused DEF Exploring
<1> QED
  BY <1>6, <1>7 DEF r

\* The changes asked for, or the graphs: the kinds of request an effect sends.
LEMMA GraphsToExplorer ==
    ASSUME NEW old, Exploring(old), NEW p, NEW k, Taken(p, old, k), old.sent[k].asks = "graphs",
           NEW q, q = Answered(p, old.sent[k]) \/ q = Failed(p, old.sent[k])
    PROVE  Exploring(q)
<1>1. PICK r : r = old.sent[k]
  OBVIOUS
<1>2. /\ p \in PageRecords /\ p.view = "topology" /\ k \in 1..Len(old.sent)
      /\ p.input = old.input /\ p.steady = old.steady /\ r \in Requests
  BY <1>1, TakenIs DEF Exploring, Relieved
<1>3. r \in GraphRequests /\ r.live /\ r.asks = "graphs"
  BY <1>1, <1>2, RequestIs DEF GraphRequests
<1>4. /\ OnList(p) /\ GraphsFit(p) /\ OneList(p)
  BY <1>1, <1>3, TakenExplorer
<1>5. r.capture = p.input
  <2>1. k \in Asks(old.sent, "graphs")
    BY <1>1, <1>2, <1>3 DEF Asks
  <2> QED BY <1>1, <1>2, <2>1 DEF Exploring, ExplorerInv, GraphsFit
<1>6. CASE q = Answered(p, r)
  <2>1. PICK graphs : graphs = [n \in r.numbers \cup DOMAIN p.graphs |->
                                   IF n \in r.numbers THEN [capture |-> r.capture, number |-> n]
                                   ELSE p.graphs[n]]
    OBVIOUS
  <2>2. PICK g : g = [p EXCEPT !.stale = TRUE, !.graphs = graphs]
    OBVIOUS
  <2>3. q = AskEvents(g, r)
    BY <1>2, <1>3, <1>6, <2>1, <2>2 DEF Answered
  <2>4. graphs \in GraphSets
    <3>1. PICK N \in SUBSET Nat : p.graphs \in [N -> Subjects]
      BY <1>2, PageFields DEF GraphSets
    <3>2. r.numbers \in SUBSET Nat /\ r.capture \in Captures
      BY <1>3 DEF GraphRequests
    <3>3. graphs \in [r.numbers \cup N -> Subjects]
      BY <2>1, <3>1, <3>2 DEF Subjects
    <3> QED BY <3>1, <3>2, <3>3 DEF GraphSets
  <2>5. /\ g \in PageRecords /\ g.view = p.view /\ g.list = p.list /\ g.error = p.error
        /\ g.loading = p.loading /\ g.stale = TRUE /\ g.steady = p.steady /\ g.input = p.input
        /\ g.index = p.index /\ g.sent = p.sent /\ g.graphs = graphs /\ g.playing = p.playing
    BY <1>2, <2>2, <2>4 DEF PageRecords
  <2>6. OnList(g)
    BY <1>4, <2>5 DEF OnList
  <2>7. OneList(g)
    BY <1>4, <2>5 DEF OneList
  <2>8. GraphsFit(g)
    <3>1. g.steady => \A n \in DOMAIN g.graphs : g.graphs[n] = [capture |-> g.input, number |-> n]
      BY <1>4, <1>5, <2>1, <2>5 DEF GraphsFit
    <3> QED BY <1>4, <2>5, <3>1 DEF GraphsFit
  <2>9. CASE r.previous = None
    <3>1. q = [g EXCEPT !.events = None]
      BY <2>3, <2>9 DEF AskEvents
    <3>2. /\ q \in PageRecords /\ q.view = g.view /\ q.list = g.list /\ q.error = g.error
          /\ q.loading = g.loading /\ q.stale = TRUE /\ q.steady = g.steady /\ q.input = g.input
          /\ q.index = g.index /\ q.sent = g.sent /\ q.graphs = g.graphs /\ q.playing = g.playing
      BY <2>5, <3>1 DEF PageRecords, Marked
    <3>3. OnList(q)
      BY <2>6, <3>2 DEF OnList
    <3>4. OneList(q)
      BY <2>7, <3>2 DEF OneList
    <3>5. GraphsFit(q)
      BY <2>8, <3>2 DEF GraphsFit
    <3> QED BY <1>2, <2>5, <3>2, <3>3, <3>4, <3>5, Excused DEF Exploring
  <2>10. CASE r.previous # None
    <3>1. PICK x : x = [r EXCEPT !.asks = "events"]
      OBVIOUS
    <3>2. x \in EventRequests /\ x \in Requests /\ x.asks = "events"
      BY <1>3, <3>1 DEF GraphRequests, EventRequests, Requests
    <3>3. q = [g EXCEPT !.sent = Append(@, x)]
      BY <2>3, <2>10, <3>1 DEF AskEvents
    <3>4. g.sent \in Seq(Requests)
      BY <2>5, PageFields
    <3>5. /\ Append(g.sent, x) \in Seq(Requests)
          /\ \A i \in 1..Len(g.sent) : Append(g.sent, x)[i] = g.sent[i]
          /\ \A what : Asks(Append(g.sent, x), what) =
                Asks(g.sent, what) \cup (IF x.asks = what THEN {Len(g.sent) + 1} ELSE {})
      BY <3>2, <3>4, AppendIs
    <3>6. /\ q \in PageRecords /\ q.view = g.view /\ q.list = g.list /\ q.error = g.error
          /\ q.loading = g.loading /\ q.stale = TRUE /\ q.steady = g.steady /\ q.input = g.input
          /\ q.index = g.index /\ q.sent = Append(g.sent, x) /\ q.graphs = g.graphs
          /\ q.playing = g.playing
      BY <2>5, <3>3, <3>5 DEF PageRecords
    <3>7. /\ Asks(q.sent, "graphs") = Asks(g.sent, "graphs")
          /\ Asks(q.sent, "attribution") = Asks(g.sent, "attribution")
      BY <3>2, <3>4, <3>6, AppendIs
    <3>8. \A i \in 1..Len(g.sent) : q.sent[i] = g.sent[i]
      BY <3>5, <3>6
    <3>9. \A i \in Asks(g.sent, "graphs") : q.sent[i] = g.sent[i]
      BY <3>8 DEF Asks
    <3>10. OneList(q)
      BY <2>5, <2>7, <3>2, <3>6, AsksNoList
    <3>11. OnList(q)
      BY <2>6, <3>6 DEF OnList
    <3>12. Asks(q.sent, "attribution") = {} /\ Once(q.sent, "graphs")
      BY <2>8, <3>7 DEF GraphsFit, Once
    <3>13. q.input = g.input /\ q.graphs = g.graphs /\ q.steady = g.steady
      BY <3>6
    <3>14. \A i \in Asks(q.sent, "graphs") : q.sent[i].capture = q.input
      BY <2>8, <3>7, <3>9, <3>13 DEF GraphsFit
    <3>15. q.steady => \A n \in DOMAIN q.graphs : q.graphs[n] = [capture |-> q.input, number |-> n]
      BY <2>8, <3>13 DEF GraphsFit
    <3>16. GraphsFit(q)
      BY <3>12, <3>14, <3>15 DEF GraphsFit
    <3> QED BY <1>2, <2>5, <3>6, <3>10, <3>11, <3>16, Excused DEF Exploring
  <2> QED BY <2>9, <2>10
<1>7. CASE q = Failed(p, r)
  <2>1. q = [p EXCEPT !.error = TRUE]
    BY <1>2, <1>3, <1>7 DEF Failed
  <2>2. /\ q \in PageRecords /\ q.view = p.view /\ q.list = p.list /\ q.error = TRUE
        /\ q.loading = p.loading /\ q.stale = p.stale /\ q.steady = p.steady /\ q.input = p.input
        /\ q.index = p.index /\ q.sent = p.sent /\ q.graphs = p.graphs /\ q.playing = p.playing
    BY <1>2, <2>1 DEF PageRecords
  <2>3. OnList(q)
    BY <1>4, <2>2 DEF OnList
  <2>4. OneList(q)
    BY <1>4, <2>2 DEF OneList
  <2>5. GraphsFit(q)
    BY <1>4, <2>2 DEF GraphsFit
  <2> QED BY <1>2, <2>2, <2>3, <2>4, <2>5, Excused DEF Exploring
<1> QED
  BY <1>1, <1>6, <1>7

\* Changes are due for the page as it is.
Due(p) ==
    /\ ~p.stale /\ ~p.error /\ p.inOrder /\ p.steady
    /\ CurrentOf(p) # None /\ PreviousOf(p) # None

LEMMA EventTaken ==
    ASSUME NEW old, Exploring(old), NEW p, NEW k, Taken(p, old, k), old.sent[k].asks = "events"
    PROVE  /\ GraphsCome(p)
           /\ Due(p) /\ p.sent # <<>> => AskedLast(p)
           /\ Due(p) /\ p.sent = <<>> =>
                 /\ old.sent[k].live /\ old.sent[k].current = CurrentOf(p)
                 /\ old.sent[k].capture = p.input
<1>1. GraphsCome(old) /\ EventsCome(old) /\ old \in PageRecords
  BY DEF Exploring, ExplorerInv
<1>2. Relieved(p, old, k)
  BY <1>1, TakenIs
<1>3. Lost(p.sent, old.sent, k)
  BY <1>2, RemovedIs DEF Relieved
<1>4. k \in 1..Len(old.sent) /\ Len(old.sent) \in Nat
  BY <1>2 DEF Relieved
<1>5. /\ p.input = old.input /\ p.list = old.list /\ p.error = old.error /\ p.stale = old.stale
      /\ p.steady = old.steady /\ p.index = old.index /\ p.graphs = old.graphs
      /\ p.inOrder = (IF k = 1 THEN old.inOrder ELSE FALSE)
  BY <1>2 DEF Relieved
<1>6. CurrentOf(p) = CurrentOf(old) /\ PreviousOf(p) = PreviousOf(old) /\ Watched(p) = Watched(old)
  BY <1>5, SameItems
<1>7. GraphsCome(p)
  <2>1. k \notin Asks(old.sent, "graphs")
    BY DEF Asks
  <2>2. ASSUME NEW s, Provided(old, s) PROVE Provided(p, s)
    BY <1>3, <1>5, <2>1, <2>2 DEF Provided, Lost
  <2> QED BY <1>1, <1>5, <1>6, <2>2 DEF GraphsCome
<1>8. ASSUME Due(p)
      PROVE  /\ p.sent # <<>> => AskedLast(p)
             /\ p.sent = <<>> => /\ old.sent[k].live /\ old.sent[k].current = CurrentOf(p)
                                 /\ old.sent[k].capture = p.input
  <2>1. k = 1 /\ old.inOrder
    BY <1>5, <1>8 DEF Due
  <2>2. old.sent # <<>>
    BY <1>4, EmptySeq
  <2>3. AskedLast(old)
    BY <1>1, <1>5, <1>6, <1>8, <2>1, <2>2 DEF EventsCome, Due
  <2>4. CASE Len(old.sent) = 1
    <3>1. p.sent = <<>>
      BY <1>3, <2>4 DEF Lost
    <3>2. old.sent[k].live /\ old.sent[k].current = CurrentOf(p) /\ old.sent[k].capture = p.input
      BY <1>5, <1>6, <2>1, <2>3, <2>4 DEF AskedLast
    <3> QED BY <3>1, <3>2
  <2>5. CASE Len(old.sent) # 1
    <3>1. k < Len(old.sent)
      <4>1. k = 1 /\ Len(old.sent) \in Nat /\ 1 <= Len(old.sent)
        BY <1>4, <2>1
      <4>2. ASSUME NEW n \in Nat, 1 <= n, n # 1 PROVE 1 < n
        BY <4>2
      <4> QED BY <2>5, <4>1, <4>2
    <3>2. p.sent # <<>> /\ p.sent[Len(p.sent)] = old.sent[Len(old.sent)]
      BY <1>3, <3>1 DEF Lost
    <3>3. AskedLast(p)
      BY <1>5, <1>6, <2>3, <3>2 DEF AskedLast
    <3> QED BY <3>2, <3>3
  <2> QED BY <2>4, <2>5
<1> QED
  BY <1>7, <1>8

LEMMA EventsToExplorer ==
    ASSUME NEW old, Exploring(old), NEW p, NEW k, Taken(p, old, k), old.sent[k].asks = "events",
           NEW q, q = Answered(p, old.sent[k]) \/ q = Failed(p, old.sent[k])
    PROVE  Exploring(q)
<1>1. PICK r : r = old.sent[k]
  OBVIOUS
<1>2. /\ p \in PageRecords /\ p.view = "topology" /\ r \in Requests
  BY <1>1, TakenIs DEF Exploring, Relieved
<1>3. r \in EventRequests /\ r.asks = "events"
  BY <1>1, <1>2, RequestIs DEF EventRequests
<1>4. OnList(p) /\ GraphsFit(p) /\ OneList(p)
  BY <1>1, <1>3, TakenExplorer
<1>5. /\ GraphsCome(p)
      /\ Due(p) /\ p.sent # <<>> => AskedLast(p)
      /\ Due(p) /\ p.sent = <<>> => r.live /\ r.current = CurrentOf(p) /\ r.capture = p.input
  BY <1>1, EventTaken
<1>6. CASE q = Answered(p, r)
  <2>1. PICK e : e = IF r.current.capture = r.capture THEN r.current ELSE None
    OBVIOUS
  <2>2. q = [p EXCEPT !.events = e]
    BY <1>2, <1>3, <1>6, <2>1 DEF Answered
  <2>3. e \in Marked
    BY <1>3, <2>1 DEF EventRequests, Marked
  <2>4. /\ q \in PageRecords /\ q.view = p.view /\ q.list = p.list /\ q.error = p.error
        /\ q.loading = p.loading /\ q.stale = p.stale /\ q.steady = p.steady /\ q.input = p.input
        /\ q.index = p.index /\ q.sent = p.sent /\ q.graphs = p.graphs /\ q.playing = p.playing
        /\ q.events = e /\ q.inOrder = p.inOrder
    BY <1>2, <2>2, <2>3 DEF PageRecords
  <2>5. CurrentOf(q) = CurrentOf(p) /\ PreviousOf(q) = PreviousOf(p) /\ Watched(q) = Watched(p)
    BY <2>4, SameItems
  <2>6. OnList(q)
    BY <1>4, <2>4 DEF OnList
  <2>7. OneList(q)
    BY <1>4, <2>4 DEF OneList
  <2>8. GraphsFit(q)
    BY <1>4, <2>4 DEF GraphsFit
  <2>9. GraphsCome(q)
    BY <1>5, <2>4, <2>5 DEF GraphsCome, Provided
  <2>10. EventsCome(q)
    <3>1. SUFFICES ASSUME Due(q) PROVE IF q.sent = <<>> THEN q.events = CurrentOf(q) ELSE AskedLast(q)
      BY DEF EventsCome, Due
    <3>2. Due(p)
      BY <2>4, <2>5, <3>1 DEF Due
    <3>3. CASE q.sent # <<>>
      BY <1>5, <2>4, <2>5, <3>2, <3>3 DEF AskedLast
    <3>4. CASE q.sent = <<>>
      <4>1. r.current = CurrentOf(p) /\ r.capture = p.input
        BY <1>5, <2>4, <3>2, <3>4
      <4>2. Asks(p.sent, "list") = {}
        <5>1. Len(p.sent) = 0
          BY <2>4, <3>4, EmptySeq
        <5> QED BY <5>1 DEF Asks
      <4>3. p.list = Items(p.input, SnapshotsOf)
        BY <1>2, <1>4, <3>2, <4>2, PageFields DEF OneList, Due
      <4>4. /\ CurrentOf(p) = p.list[p.index + 1] /\ p.index < Len(p.list)
        BY <1>2, <3>2, ItemIs DEF Due
      <4>5. /\ p.input \in Captures /\ p.index \in Nat
        BY <1>2, PageFields
      <4>6. CurrentOf(p).capture = p.input
        <5>1. /\ SnapshotsOf[p.input] \in Nat /\ Len(p.list) = SnapshotsOf[p.input]
              /\ \A n \in 1..SnapshotsOf[p.input] : p.list[n].capture = p.input
          BY <4>3, <4>5, ItemsAre
        <5>2. p.index + 1 \in 1..SnapshotsOf[p.input]
          BY <4>4, <4>5, <5>1
        <5> QED BY <4>4, <5>1, <5>2
      <4> QED BY <2>1, <2>4, <2>5, <3>4, <4>1, <4>6
    <3> QED BY <3>3, <3>4
  <2> QED BY <1>2, <2>4, <2>6, <2>7, <2>8, <2>9, <2>10 DEF Exploring, ExplorerInv
<1>7. CASE q = Failed(p, r)
  <2>1. q = [p EXCEPT !.error = IF r.live THEN TRUE ELSE @]
    BY <1>2, <1>3, <1>7 DEF Failed
  <2>2. /\ q \in PageRecords /\ q.view = p.view /\ q.list = p.list
        /\ q.error = (IF r.live THEN TRUE ELSE p.error)
        /\ q.loading = p.loading /\ q.stale = p.stale /\ q.steady = p.steady /\ q.input = p.input
        /\ q.index = p.index /\ q.sent = p.sent /\ q.graphs = p.graphs /\ q.playing = p.playing
        /\ q.events = p.events /\ q.inOrder = p.inOrder
    BY <1>2, <2>1 DEF PageRecords
  <2>3. OnList(q)
    BY <1>4, <2>2 DEF OnList
  <2>4. OneList(q)
    <3>1. p.error => q.error
      BY <2>2
    <3> QED BY <1>4, <2>2, <3>1 DEF OneList
  <2>5. GraphsFit(q)
    BY <1>4, <2>2 DEF GraphsFit
  <2>6. CASE r.live
    BY <1>2, <2>2, <2>3, <2>4, <2>5, <2>6, Excused DEF Exploring
  <2>7. CASE ~r.live
    <3>1. CurrentOf(q) = CurrentOf(p) /\ PreviousOf(q) = PreviousOf(p) /\ Watched(q) = Watched(p)
      BY <2>2, SameItems
    <3>2. GraphsCome(q)
      BY <1>5, <2>2, <2>7, <3>1 DEF GraphsCome, Provided
    <3>3. EventsCome(q)
      <4>1. SUFFICES ASSUME Due(q) PROVE q.sent # <<>> /\ AskedLast(q)
        BY DEF EventsCome, Due
      <4>2. Due(p)
        BY <2>2, <2>7, <3>1, <4>1 DEF Due
      <4>3. q.sent # <<>>
        BY <1>5, <2>2, <2>7, <4>2
      <4> QED BY <1>5, <2>2, <3>1, <4>2, <4>3 DEF AskedLast
    <3> QED BY <1>2, <2>2, <2>3, <2>4, <2>5, <3>2, <3>3 DEF Exploring, ExplorerInv
  <2> QED BY <2>6, <2>7
<1> QED
  BY <1>1, <1>6, <1>7

LEMMA ReceivesExplorer ==
    ASSUME Exploring(page), NEW k \in DOMAIN page.sent, NEW ok \in BOOLEAN, Receives(k, ok)
    PROVE  Exploring(page')
<1>1. PICK p : p = [page EXCEPT !.sent = RemoveAt(@, k), !.inOrder = IF k = 1 THEN @ ELSE FALSE]
  OBVIOUS
<1>2. k \in 1..Len(page.sent) /\ page.sent[k] \in Requests
  BY PageFields, ElementOfSeq DEF Exploring
<1>3. Taken(p, page, k)
  BY <1>1, <1>2 DEF Taken
<1>4. page' = Answered(p, page.sent[k]) \/ page' = Failed(p, page.sent[k])
  BY <1>1 DEF Receives
<1>5. page.sent[k].asks # "attribution"
  BY <1>2 DEF Exploring, ExplorerInv, GraphsFit, Asks
<1>6. page.sent[k].asks \in {"list", "graphs", "events"}
  BY <1>2, <1>5, RequestIs
<1> QED
  BY <1>3, <1>4, <1>6, ListToExplorer, GraphsToExplorer, EventsToExplorer

-----------------------------------------------------------------------------
(* The attribution. *)

\* An attribution page in order.
Attributing(p) == p \in PageRecords /\ p.view = "attribution" /\ AttributionInv(p)

\* The list that comes last is still the one that comes last.
LEMMA ListStillComes ==
    ASSUME NEW p, ListComes(p), NEW q, SameLists(q.sent, p.sent), q.steady => p.steady,
           q.inOrder => p.inOrder, p.error => q.error, q.input = p.input, q.list = p.list
    PROVE  ListComes(q)
<1>1. SUFFICES ASSUME q.steady, q.inOrder, ~q.error
               PROVE  IF Asks(q.sent, "list") = {} THEN q.list = Items(q.input, DependenciesOf)
                      ELSE \A i \in Asks(q.sent, "list") :
                              LastList(q.sent, i) => q.sent[i].capture = q.input
  BY DEF ListComes
<1>2. IF Asks(p.sent, "list") = {} THEN p.list = Items(p.input, DependenciesOf)
      ELSE \A i \in Asks(p.sent, "list") : LastList(p.sent, i) => p.sent[i].capture = p.input
  BY <1>1 DEF ListComes
<1> QED
  BY <1>2 DEF SameLists

LEMMA AppendedLists ==
    ASSUME NEW s \in Seq(Requests), NEW r \in Requests, r.asks # "list"
    PROVE  SameLists(Append(s, r), s)
<1>1. PICK t : t = Append(s, r)
  OBVIOUS
<1>2. Asks(t, "list") = Asks(s, "list") /\ \A i \in 1..Len(s) : t[i] = s[i]
  BY <1>1, AppendIs
<1>3. \A i \in Asks(s, "list") : t[i] = s[i]
  BY <1>2 DEF Asks
<1> QED
  BY <1>1, <1>2, <1>3 DEF SameLists, Once, LastList

\* What an effect needs to find.
Attributable(p) ==
    /\ p \in PageRecords /\ p.view = "attribution" /\ ~p.stale
    /\ Asks(p.sent, "graphs") = {} /\ Asks(p.sent, "events") = {}
    /\ Once(p.sent, "attribution")
    /\ p.selected = None => Asks(p.sent, "attribution") = {}
    /\ DataFits(p) /\ ListComes(p)

LEMMA Attributed ==
    ASSUME NEW p, Attributable(p)
    PROVE  Attributing(Attribute(p))
<1>1. p \in PageRecords /\ p.sent \in Seq(Requests) /\ p.selected \in Marked /\ p.input \in Captures
  BY PageFields DEF Attributable
<1>2. CASE p.selected = None
  <2>1. Attribute(p) = p
    BY <1>2 DEF Attribute
  <2> QED BY <1>2, <2>1 DEF Attributable, Attributing, AttributionInv, OneAsked
<1>3. CASE p.selected # None
  <2>1. PICK r : r = [asks |-> "attribution", capture |-> p.input, live |-> TRUE, of |-> p.selected]
    OBVIOUS
  <2>2. r \in Requests /\ r.asks = "attribution" /\ r.capture = p.input /\ r.of = p.selected
    BY <1>1, <1>3, <2>1 DEF Requests, AttributionRequests, Marked
  <2>3. OneIgnored(p.sent)
    BY DEF Attributable, OneIgnored, Ignored, Asks, Once
  <2>4. PICK c : c = Cancel(p.sent)
    OBVIOUS
  <2>5. /\ c \in Seq(Requests) /\ SameLists(c, p.sent)
        /\ Asks(c, "graphs") = {} /\ Asks(c, "attribution") = {} /\ Asks(c, "events") = {}
    BY <1>1, <2>3, <2>4, CancelIs DEF Attributable
  <2>6. PICK q : q = [p EXCEPT !.sent = Append(Cancel(@), r)]
    OBVIOUS
  <2>7. Attribute(p) = q
    BY <1>3, <2>1, <2>6 DEF Attribute
  <2>8. Append(c, r) \in Seq(Requests) /\ SameLists(Append(c, r), c)
    BY <2>2, <2>5, AppendIs, AppendedLists
  <2>9. /\ q \in PageRecords /\ q.view = p.view /\ q.stale = p.stale /\ q.sent = Append(c, r)
        /\ q.selected = p.selected /\ q.data = p.data /\ q.steady = p.steady /\ q.input = p.input
        /\ q.list = p.list /\ q.inOrder = p.inOrder /\ q.error = p.error
    BY <1>1, <2>4, <2>6, <2>8 DEF PageRecords
  <2>10. SameLists(q.sent, p.sent)
    BY <2>5, <2>8, <2>9, SameListsCompose
  <2>11. ListComes(q)
    BY <2>9, <2>10, ListStillComes DEF Attributable
  <2>12. DataFits(q)
    BY <2>9 DEF Attributable, DataFits
  <2>13. /\ Asks(q.sent, "graphs") = {} /\ Asks(q.sent, "events") = {}
         /\ Len(c) \in Nat /\ q.sent[Len(c) + 1] = r
    BY <2>2, <2>5, <2>9, AppendIs, LenProperties
  <2>14. Asks(q.sent, "attribution") = {Len(c) + 1}
    <3>1. Asks(q.sent, "attribution") =
             Asks(c, "attribution") \cup (IF r.asks = "attribution" THEN {Len(c) + 1} ELSE {})
      BY <2>2, <2>5, <2>9, AppendIs
    <3> QED BY <2>2, <2>5, <3>1
  <2>15. OneAsked(q)
    BY <2>2, <2>9, <2>13, <2>14 DEF Attributable, OneAsked, Once
  <2> QED BY <2>7, <2>9, <2>11, <2>12, <2>15 DEF Attributing, AttributionInv, Attributable
<1> QED
  BY <1>2, <1>3

\* A click counts, which nothing depends on.
LEMMA ClickAttribution ==
    ASSUME NEW p, Attributing(p), NEW q, q = [p EXCEPT !.clicks = @ + 1]
    PROVE  Attributing(q)
<1>1. /\ q \in PageRecords /\ q.view = p.view /\ q.stale = p.stale /\ q.sent = p.sent
      /\ q.selected = p.selected /\ q.data = p.data /\ q.steady = p.steady /\ q.input = p.input
      /\ q.list = p.list /\ q.inOrder = p.inOrder /\ q.error = p.error
  BY DEF Attributing, PageRecords
<1>2. OneAsked(q)
  BY <1>1 DEF Attributing, AttributionInv, OneAsked
<1>3. DataFits(q)
  BY <1>1 DEF Attributing, AttributionInv, DataFits
<1>4. ListComes(q)
  BY <1>1 DEF Attributing, AttributionInv, ListComes
<1> QED
  BY <1>1, <1>2, <1>3, <1>4 DEF Attributing, AttributionInv

\* A request for the attribution has a dependency that is selected.
LEMMA SelectedAsked ==
    ASSUME NEW p, Attributing(p), p.selected = None
    PROVE  Asks(p.sent, "attribution") = {}
<1>1. p.sent \in Seq(Requests) /\ \A i \in 1..Len(p.sent) : p.sent[i] \in Requests
  BY PageFields, ElementOfSeq DEF Attributing
<1>2. ASSUME NEW i \in Asks(p.sent, "attribution") PROVE FALSE
  <2>1. p.sent[i] \in AttributionRequests
    BY <1>1, <1>2, RequestIs DEF Asks
  <2>2. p.sent[i].of \in Subjects
    BY <2>1 DEF AttributionRequests
  <2>3. p.sent[i].of = None
    BY <1>2 DEF Attributing, AttributionInv, OneAsked
  <2> QED BY <2>2, <2>3, NoneIs
<1> QED
  BY <1>2

LEMMA EditAttribution ==
    ASSUME Attributing(page), NEW capture \in Captures, Edit(capture)
    PROVE  Attributing(page')
<1>1. PICK q : q = [page EXCEPT !.input = capture, !.steady = FALSE]
  OBVIOUS
<1>2. /\ q \in PageRecords /\ q.view = page.view /\ q.stale = page.stale /\ q.sent = page.sent
      /\ q.selected = page.selected /\ q.data = page.data /\ q.steady = FALSE
  BY <1>1 DEF Attributing, PageRecords
<1>3. Attributable(q)
  <2>1. ListComes(q)
    BY <1>2 DEF ListComes
  <2>2. DataFits(q)
    BY <1>2 DEF Attributing, AttributionInv, DataFits
  <2> QED BY <1>2, <2>1, <2>2, SelectedAsked DEF Attributing, AttributionInv, OneAsked, Attributable
<1>4. page' = [Attribute(q) EXCEPT !.clicks = @ + 1]
  BY <1>1, <1>2 DEF Edit, Click, Effect, Attributing
<1> QED
  BY <1>3, <1>4, Attributed, ClickAttribution

LEMMA AttributionLoads ==
    ASSUME NEW p \in PageRecords, p.view = "attribution", OneAsked(p)
    PROVE  Attributing(Loading(p))
<1>1. PICK r : r = [asks |-> "list", capture |-> p.input, live |-> TRUE]
  OBVIOUS
<1>2. PICK asked : asked = [p EXCEPT !.error = FALSE, !.steady = TRUE, !.sent = Append(@, r)]
  OBVIOUS
<1>3. PICK q : q = [asked EXCEPT !.data = None]
  OBVIOUS
<1>4. Loading(p) = q
  BY <1>1, <1>2, <1>3 DEF Loading
<1>5. p.sent \in Seq(Requests) /\ Len(p.sent) \in Nat /\ p.input \in Captures
  BY PageFields
<1>6. r \in Requests /\ r.asks = "list" /\ r.capture = p.input
  BY <1>1, <1>5 DEF Requests, ListRequests
<1>7. PICK t : t = Append(p.sent, r)
  OBVIOUS
<1>8. /\ t \in Seq(Requests) /\ Len(t) = Len(p.sent) + 1 /\ t[Len(p.sent) + 1] = r
      /\ \A i \in 1..Len(p.sent) : t[i] = p.sent[i]
      /\ Asks(t, "graphs") = Asks(p.sent, "graphs") /\ Asks(t, "events") = Asks(p.sent, "events")
      /\ Asks(t, "attribution") = Asks(p.sent, "attribution")
  BY <1>5, <1>6, <1>7, AppendIs
<1>9. asked \in PageRecords /\ asked.sent = t /\ asked.view = p.view /\ asked.stale = p.stale
      /\ asked.selected = p.selected /\ asked.input = p.input
  BY <1>2, <1>7, <1>8 DEF PageRecords
<1>10. q \in PageRecords /\ q.sent = t /\ q.view = p.view /\ q.stale = p.stale
       /\ q.selected = p.selected /\ q.input = p.input /\ q.data = None
  BY <1>3, <1>9 DEF PageRecords, Marked
<1>11. OneAsked(q)
  <2>1. \A i \in Asks(p.sent, "attribution") : t[i] = p.sent[i]
    BY <1>8 DEF Asks
  <2> QED BY <1>8, <1>10, <2>1 DEF OneAsked, Once
<1>12. DataFits(q)
  BY <1>10 DEF DataFits
<1>13. ListComes(q)
  <2>1. Len(t) \in Asks(t, "list") /\ t[Len(t)].capture = p.input
    BY <1>5, <1>6, <1>8 DEF Asks
  <2>2. ASSUME NEW i \in Asks(t, "list"), LastList(t, i) PROVE i = Len(t)
    <3>1. i \in Int /\ i <= Len(t) /\ Len(t) <= i /\ Len(t) \in Int
      BY <1>5, <1>8, <2>1, <2>2 DEF LastList, Asks
    <3> QED BY <3>1
  <2> QED BY <1>10, <2>1, <2>2 DEF ListComes
<1> QED
  BY <1>4, <1>10, <1>11, <1>12, <1>13 DEF Attributing, AttributionInv

LEMMA LoadAttribution ==
    ASSUME Attributing(page), Load
    PROVE  Attributing(page')
<1>1. page' = [Loading(page) EXCEPT !.clicks = @ + 1]
  BY DEF Load, Click
<1>2. Attributing(Loading(page))
  BY AttributionLoads DEF Attributing, AttributionInv
<1> QED
  BY <1>1, <1>2, ClickAttribution

LEMMA ChooseAttribution ==
    ASSUME Attributing(page), NEW i \in DOMAIN page.list, Choose(page.list[i])
    PROVE  Attributing(page')
<1>1. page.list[i] \in Subjects
  BY PageFields, ElementOfSeq DEF Attributing
<1>2. PICK p : p = [page EXCEPT !.data = None, !.selected = page.list[i]]
  OBVIOUS
<1>3. /\ p \in PageRecords /\ p.view = page.view /\ p.stale = page.stale /\ p.sent = page.sent
      /\ p.selected = page.list[i] /\ p.data = None /\ p.steady = page.steady
      /\ p.input = page.input /\ p.list = page.list /\ p.inOrder = page.inOrder
      /\ p.error = page.error
  BY <1>1, <1>2 DEF Attributing, PageRecords, Marked
<1>4. DataFits(p)
  BY <1>3 DEF DataFits
<1>5. ListComes(p)
  BY <1>3 DEF Attributing, AttributionInv, ListComes
<1>6. page' = [(IF page.list[i] = page.selected THEN p ELSE Attribute(p)) EXCEPT !.clicks = @ + 1]
  BY <1>2 DEF Choose, Click
<1>7. CASE page.list[i] = page.selected
  <2>1. OneAsked(p)
    BY <1>3, <1>7 DEF Attributing, AttributionInv, OneAsked
  <2>2. Attributing(p)
    BY <1>3, <1>4, <1>5, <2>1 DEF Attributing, AttributionInv
  <2> QED BY <1>6, <1>7, <2>2, ClickAttribution
<1>8. CASE page.list[i] # page.selected
  <2>1. p.selected # None
    BY <1>1, <1>3, NoneIs
  <2>2. Attributable(p)
    BY <1>3, <1>4, <1>5, <2>1 DEF Attributing, AttributionInv, OneAsked, Attributable
  <2> QED BY <1>6, <1>8, <2>2, Attributed, ClickAttribution
<1> QED
  BY <1>7, <1>8

-----------------------------------------------------------------------------
(* The answers to the attribution. *)

LEMMA TakenAttribution ==
    ASSUME NEW old, Attributing(old), NEW p, NEW k, Taken(p, old, k)
    PROVE  /\ OneAsked(p) /\ DataFits(p)
           /\ old.sent[k].asks # "list" => ListComes(p)
           /\ old.sent[k].asks = "attribution" => Asks(p.sent, "attribution") = {}
<1>1. OneAsked(old) /\ DataFits(old) /\ ListComes(old) /\ old \in PageRecords
  BY DEF Attributing, AttributionInv
<1>2. Relieved(p, old, k)
  BY <1>1, TakenIs
<1>3. Lost(p.sent, old.sent, k)
  BY <1>2, RemovedIs DEF Relieved
<1>4. /\ p.input = old.input /\ p.list = old.list /\ p.error = old.error /\ p.stale = old.stale
      /\ p.steady = old.steady /\ p.selected = old.selected /\ p.data = old.data
      /\ p.inOrder = (IF k = 1 THEN old.inOrder ELSE FALSE)
      /\ p.sent = RemoveAt(old.sent, k)
  BY <1>2 DEF Relieved
<1>5. OneAsked(p)
  <2>1. Asks(p.sent, "graphs") = {} /\ Asks(p.sent, "events") = {} /\ Once(p.sent, "attribution")
    BY <1>1, <1>3 DEF OneAsked, Lost
  <2>2. \A i \in Asks(p.sent, "attribution") :
           p.sent[i].of = p.selected /\ p.sent[i].capture = p.input
    BY <1>1, <1>3, <1>4 DEF OneAsked, Lost
  <2> QED BY <1>1, <1>4, <2>1, <2>2 DEF OneAsked
<1>6. DataFits(p)
  BY <1>1, <1>4 DEF DataFits
<1>7. ASSUME old.sent[k].asks # "list" PROVE ListComes(p)
  <2>1. SameLists(p.sent, old.sent)
    BY <1>2, <1>7, RemovedLists DEF Relieved
  <2> QED BY <1>1, <1>4, <2>1, ListStillComes
<1>8. old.sent[k].asks = "attribution" => Asks(p.sent, "attribution") = {}
  BY <1>1, <1>3 DEF OneAsked, Lost
<1> QED
  BY <1>5, <1>6, <1>7, <1>8

\* The first request for the list is answered: another is under way, which is then
\* the last as it was before, or this one was the last.
LEMMA FirstListTaken ==
    ASSUME NEW s \in Seq(Requests), 1 \in Asks(s, "list"), NEW t, t = RemoveAt(s, 1)
    PROVE  /\ Asks(t, "list") = {} => LastList(s, 1)
           /\ \A i \in Asks(t, "list") : LastList(t, i) =>
                 \E j \in Asks(s, "list") : LastList(s, j) /\ t[i] = s[j]
<1>1. 1 \in 1..Len(s) /\ Len(s) \in Nat
  BY LenProperties DEF Asks
<1>2. Len(t) = Len(s) - 1 /\ \A n \in 1..(Len(s) - 1) : t[n] = s[n + 1]
  <2>1. \A n \in 1..(Len(s) - 1) : ~(n < 1)
    BY <1>1
  <2> QED BY <1>1, <2>1, RemoveAtIs
<1>3. \A j \in Asks(s, "list") : j \in Int /\ 1 <= j /\ (j = 1 \/ j - 1 \in Asks(t, "list"))
  BY <1>1, <1>2 DEF Asks
<1>4. \A i \in Asks(t, "list") : i \in Int /\ i + 1 \in Asks(s, "list") /\ t[i] = s[i + 1] /\ 1 <= i
  BY <1>1, <1>2 DEF Asks
<1>5. ASSUME Asks(t, "list") = {} PROVE LastList(s, 1)
  BY <1>3, <1>5 DEF LastList
<1>6. ASSUME NEW i \in Asks(t, "list"), LastList(t, i)
      PROVE  \E j \in Asks(s, "list") : LastList(s, j) /\ t[i] = s[j]
  <2>1. ASSUME NEW j \in Asks(s, "list") PROVE j <= i + 1
    <3>1. CASE j = 1
      BY <1>4, <3>1
    <3>2. CASE j # 1
      <4>1. j - 1 <= i
        BY <1>3, <1>6, <3>2 DEF LastList
      <4> QED BY <1>3, <1>4, <4>1
    <3> QED BY <3>1, <3>2
  <2> QED BY <1>4, <2>1 DEF LastList
<1> QED
  BY <1>5, <1>6

LEMMA ListToAttribution ==
    ASSUME NEW old, Attributing(old), NEW p, NEW k, Taken(p, old, k), old.sent[k].asks = "list",
           NEW q, q = Answered(p, old.sent[k]) \/ q = Failed(p, old.sent[k])
    PROVE  Attributing(q)
<1>1. PICK r : r = old.sent[k]
  OBVIOUS
<1>2. old \in PageRecords /\ ListComes(old) /\ old.view = "attribution"
  BY DEF Attributing, AttributionInv
<1>3. Relieved(p, old, k)
  BY <1>2, TakenIs
<1>4. /\ p \in PageRecords /\ p.view = "attribution" /\ r \in Requests /\ k \in 1..Len(old.sent)
      /\ p.input = old.input /\ p.steady = old.steady /\ p.error = old.error
      /\ p.sent = RemoveAt(old.sent, k) /\ old.sent \in Seq(Requests)
      /\ p.inOrder = (IF k = 1 THEN old.inOrder ELSE FALSE)
  BY <1>1, <1>2, <1>3 DEF Relieved
<1>5. OneAsked(p) /\ DataFits(p)
  BY TakenAttribution
<1>6. r.asks = "list" /\ r.live /\ r.capture \in Captures
  BY <1>1, <1>4, RequestIs
<1>7. CASE q = Answered(p, r)
  <2>1. q = [p EXCEPT !.list = Items(r.capture, DependenciesOf)]
    BY <1>4, <1>6, <1>7 DEF Answered
  <2>2. Items(r.capture, DependenciesOf) \in Seq(Subjects)
    BY <1>6, ItemsAre
  <2>3. /\ q \in PageRecords /\ q.view = p.view /\ q.list = Items(r.capture, DependenciesOf)
        /\ q.stale = p.stale /\ q.steady = p.steady /\ q.input = p.input /\ q.sent = p.sent
        /\ q.selected = p.selected /\ q.data = p.data /\ q.inOrder = p.inOrder
        /\ q.error = p.error
    BY <1>4, <2>1, <2>2 DEF PageRecords
  <2>4. OneAsked(q)
    BY <1>5, <2>3 DEF OneAsked
  <2>5. DataFits(q)
    BY <1>5, <2>3 DEF DataFits
  <2>6. ListComes(q)
    <3>1. SUFFICES ASSUME q.steady, q.inOrder, ~q.error
                   PROVE  IF Asks(q.sent, "list") = {} THEN q.list = Items(q.input, DependenciesOf)
                          ELSE \A i \in Asks(q.sent, "list") :
                                  LastList(q.sent, i) => q.sent[i].capture = q.input
      BY DEF ListComes
    <3>2. k = 1
      BY <1>4, <2>3, <3>1
    <3>3. old.steady /\ old.inOrder /\ ~old.error
      BY <1>4, <2>3, <3>1
    <3>4. 1 \in Asks(old.sent, "list")
      BY <1>4, <3>2 DEF Asks
    <3>5. \A i \in Asks(old.sent, "list") :
             LastList(old.sent, i) => old.sent[i].capture = old.input
      BY <1>2, <3>3, <3>4 DEF ListComes
    <3>6. /\ Asks(q.sent, "list") = {} => LastList(old.sent, 1)
          /\ \A i \in Asks(q.sent, "list") : LastList(q.sent, i) =>
                \E j \in Asks(old.sent, "list") : LastList(old.sent, j) /\ q.sent[i] = old.sent[j]
      BY <1>4, <2>3, <3>2, <3>4, FirstListTaken
    <3>7. CASE Asks(q.sent, "list") = {}
      <4>1. r.capture = old.input
        BY <1>1, <3>2, <3>4, <3>5, <3>6, <3>7
      <4> QED BY <1>4, <2>3, <3>7, <4>1
    <3>8. CASE Asks(q.sent, "list") # {}
      BY <1>4, <2>3, <3>5, <3>6, <3>8
    <3> QED BY <3>7, <3>8
  <2> QED BY <1>4, <2>3, <2>4, <2>5, <2>6 DEF Attributing, AttributionInv
<1>8. CASE q = Failed(p, r)
  <2>1. q = [p EXCEPT !.error = TRUE]
    BY <1>4, <1>6, <1>8 DEF Failed
  <2>2. /\ q \in PageRecords /\ q.view = p.view /\ q.error = TRUE /\ q.stale = p.stale
        /\ q.steady = p.steady /\ q.input = p.input /\ q.sent = p.sent
        /\ q.selected = p.selected /\ q.data = p.data
    BY <1>4, <2>1 DEF PageRecords
  <2>3. OneAsked(q)
    BY <1>5, <2>2 DEF OneAsked
  <2>4. DataFits(q)
    BY <1>5, <2>2 DEF DataFits
  <2>5. ListComes(q)
    BY <2>2 DEF ListComes
  <2> QED BY <1>4, <2>2, <2>3, <2>4, <2>5 DEF Attributing, AttributionInv
<1> QED
  BY <1>1, <1>7, <1>8

LEMMA DataToAttribution ==
    ASSUME NEW old, Attributing(old), NEW p, NEW k, Taken(p, old, k),
           old.sent[k].asks = "attribution",
           NEW q, \/ q = Answered(p, old.sent[k]) /\ Answerable(old.sent[k])
                  \/ q = Failed(p, old.sent[k])
    PROVE  Attributing(q)
<1>1. PICK r : r = old.sent[k]
  OBVIOUS
<1>2. old \in PageRecords /\ OneAsked(old) /\ old.view = "attribution"
  BY DEF Attributing, AttributionInv
<1>3. Relieved(p, old, k)
  BY <1>2, TakenIs
<1>4. /\ p \in PageRecords /\ p.view = "attribution" /\ r \in Requests /\ k \in 1..Len(old.sent)
      /\ p.input = old.input /\ p.selected = old.selected
  BY <1>1, <1>2, <1>3 DEF Relieved
<1>5. OneAsked(p) /\ DataFits(p) /\ ListComes(p)
  BY TakenAttribution
<1>6. r \in AttributionRequests /\ r.asks = "attribution"
  BY <1>1, <1>4, RequestIs
<1>7. r.live /\ r.of \in Subjects /\ r.of = p.selected /\ r.capture = p.input
  <2>1. k \in Asks(old.sent, "attribution")
    BY <1>4 DEF Asks
  <2> QED BY <1>1, <1>2, <1>4, <1>6, <2>1 DEF OneAsked, AttributionRequests
<1>8. CASE q = Answered(p, r) /\ Answerable(r)
  <2>1. q = [p EXCEPT !.data = r.of] /\ r.of.capture = r.capture
    BY <1>4, <1>6, <1>8 DEF Answered, Answerable
  <2>2. /\ q \in PageRecords /\ q.view = p.view /\ q.list = p.list /\ q.stale = p.stale
        /\ q.steady = p.steady /\ q.input = p.input /\ q.sent = p.sent
        /\ q.selected = p.selected /\ q.data = r.of /\ q.inOrder = p.inOrder
        /\ q.error = p.error
    BY <1>4, <1>7, <2>1 DEF PageRecords, Marked
  <2>3. OneAsked(q)
    BY <1>5, <2>2 DEF OneAsked
  <2>4. DataFits(q)
    BY <1>7, <2>1, <2>2 DEF DataFits
  <2>5. ListComes(q)
    BY <1>5, <2>2 DEF ListComes
  <2> QED BY <1>4, <2>2, <2>3, <2>4, <2>5 DEF Attributing, AttributionInv
<1>9. CASE q = Failed(p, r)
  <2>1. q = [p EXCEPT !.error = TRUE]
    BY <1>4, <1>6, <1>7, <1>9 DEF Failed
  <2>2. /\ q \in PageRecords /\ q.view = p.view /\ q.error = TRUE /\ q.stale = p.stale
        /\ q.steady = p.steady /\ q.input = p.input /\ q.sent = p.sent
        /\ q.selected = p.selected /\ q.data = p.data
    BY <1>4, <2>1 DEF PageRecords
  <2>3. OneAsked(q)
    BY <1>5, <2>2 DEF OneAsked
  <2>4. DataFits(q)
    BY <1>5, <2>2 DEF DataFits
  <2>5. ListComes(q)
    BY <2>2 DEF ListComes
  <2> QED BY <1>4, <2>2, <2>3, <2>4, <2>5 DEF Attributing, AttributionInv
<1> QED
  BY <1>1, <1>8, <1>9

LEMMA ReceivesAttribution ==
    ASSUME Attributing(page), NEW k \in DOMAIN page.sent, NEW ok \in BOOLEAN, Receives(k, ok)
    PROVE  Attributing(page')
<1>1. PICK p : p = [page EXCEPT !.sent = RemoveAt(@, k), !.inOrder = IF k = 1 THEN @ ELSE FALSE]
  OBVIOUS
<1>2. k \in 1..Len(page.sent) /\ page.sent[k] \in Requests
  BY PageFields, ElementOfSeq DEF Attributing
<1>3. Taken(p, page, k)
  BY <1>1, <1>2 DEF Taken
<1>4. \/ page' = Answered(p, page.sent[k]) /\ Answerable(page.sent[k])
      \/ page' = Failed(p, page.sent[k])
  BY <1>1 DEF Receives
<1>5. page.sent[k].asks # "graphs" /\ page.sent[k].asks # "events"
  BY <1>2 DEF Attributing, AttributionInv, OneAsked, Asks
<1>6. page.sent[k].asks \in {"list", "attribution"}
  BY <1>2, <1>5, RequestIs
<1> QED
  BY <1>3, <1>4, <1>6, ListToAttribution, DataToAttribution

-----------------------------------------------------------------------------
(* Both pages. *)

\* The inductive invariant.
PageInOrder(p) == Exploring(p) \/ Attributing(p)

LEMMA OpenedIs ==
    ASSUME NEW view \in {"topology", "attribution"}, NEW capture \in Captures
    PROVE  PageInOrder(Loading(Opened(view, capture)))
<1>1. PICK p : p = Opened(view, capture)
  OBVIOUS
<1>2. <<>> \in Seq(Subjects) /\ <<>> \in Seq(Requests) /\ Len(<<>>) = 0
  BY EmptySeq
<1>3. <<>> \in GraphSets
  <2>1. <<>> = [n \in {} |-> [capture |-> capture, number |-> n]]
    OBVIOUS
  <2>2. [n \in {} |-> [capture |-> capture, number |-> n]] \in [{} -> Subjects]
    OBVIOUS
  <2> QED BY <2>1, <2>2 DEF GraphSets
<1>4. /\ p \in PageRecords /\ p.view = view /\ p.sent = <<>> /\ p.list = <<>>
      /\ p.loading = FALSE /\ p.steady = FALSE /\ p.stale = FALSE
  BY <1>1, <1>2, <1>3 DEF Opened, PageRecords, Marked, None
<1>5. \A what : Asks(p.sent, what) = {}
  BY <1>2, <1>4 DEF Asks
<1>6. CASE view = "topology"
  <2>1. OneIgnored(p.sent)
    BY <1>2, <1>4 DEF OneIgnored
  <2>2. Explorable(p)
    BY <1>4, <1>5, <1>6, <2>1 DEF Explorable, OneList, Once
  <2> QED BY <1>1, <1>4, <2>2, ExplorerLoads DEF PageInOrder
<1>7. CASE view = "attribution"
  <2>1. OneAsked(p)
    BY <1>4, <1>5 DEF OneAsked, Once
  <2> QED BY <1>1, <1>4, <1>7, <2>1, AttributionLoads DEF PageInOrder
<1> QED
  BY <1>6, <1>7

LEMMA PagesStep ==
    ASSUME PageInOrder(page), PagesNext
    PROVE  PageInOrder(page')
<1>1. CASE Exploring(page)
  <2>1. ~(\E i \in DOMAIN page.list : Choose(page.list[i]))
    BY <1>1 DEF Choose, Exploring
  <2> QED
    BY <1>1, <2>1, RenderExplorer, EditExplorer, LoadExplorer, StepToExplorer, PlayExplorer,
       TickExplorer, ReceivesExplorer DEF PagesNext, PageInOrder, Captures
<1>2. CASE Attributing(page)
  <2>1. ~Render /\ ~Play /\ ~Tick /\ ~(\E i \in DOMAIN page.list : StepTo(i - 1))
    BY <1>2 DEF Render, Play, Tick, StepTo, Attributing, AttributionInv, OneAsked
  <2> QED
    BY <1>2, <2>1, EditAttribution, LoadAttribution, ChooseAttribution, ReceivesAttribution
       DEF PagesNext, PageInOrder, Captures
<1> QED
  BY <1>1, <1>2 DEF PageInOrder

LEMMA InOrderShows ==
    ASSUME PageInOrder(page)
    PROVE  PagesShowWhatTheySay
<1>1. ASSUME Exploring(page) PROVE ExplorerShowsItsSnapshot
  <2>1. page \in PageRecords /\ OnList(page) /\ OneList(page) /\ GraphsFit(page) /\ GraphsCome(page)
        /\ EventsCome(page)
    BY <1>1 DEF Exploring, ExplorerInv
  <2>2. page.list # <<>> => CurrentOf(page) # None
    BY <2>1, ItemIs DEF OnList
  <2>3. page.steady => \A n \in DOMAIN page.graphs :
           page.graphs[n] = [capture |-> page.input, number |-> n]
    BY <2>1 DEF GraphsFit
  <2>4. page.steady /\ ~page.loading /\ ~page.error => page.list = Items(page.input, SnapshotsOf)
    BY <2>1 DEF OneList
  <2>5. ASSUME Quiet, NEW s \in Watched(page) PROVE s.number \in DOMAIN page.graphs
    <3>1. Asks(page.sent, "graphs") = {}
      <4>1. Len(page.sent) = 0
        BY <2>5, EmptySeq DEF Quiet
      <4> QED BY <4>1 DEF Asks
    <3> QED BY <2>1, <2>5, <3>1 DEF Quiet, GraphsCome, Provided
  <2>6. Quiet /\ CurrentOf(page) # None =>
           /\ CurrentOf(page).number \in DOMAIN page.graphs
           /\ PreviousOf(page) # None => PreviousOf(page).number \in DOMAIN page.graphs
    BY <2>5 DEF Watched
  <2>7. Quiet /\ CurrentOf(page) # None /\ PreviousOf(page) # None /\ page.steady /\ page.inOrder =>
           page.events = CurrentOf(page)
    BY <2>1 DEF Quiet, EventsCome
  <2> QED BY <2>2, <2>3, <2>4, <2>6, <2>7 DEF ExplorerShowsItsSnapshot
<1>2. ASSUME Attributing(page) PROVE AttributionShowsItsSelection
  <2>1. DataFits(page) /\ ListComes(page)
    BY <1>2 DEF Attributing, AttributionInv
  <2>2. Quiet => Asks(page.sent, "list") = {}
    <3>1. Quiet => Len(page.sent) = 0
      BY EmptySeq DEF Quiet
    <3> QED BY <3>1 DEF Asks
  <2> QED BY <2>1, <2>2 DEF AttributionShowsItsSelection, DataFits, ListComes, Quiet
<1> QED
  BY <1>1, <1>2 DEF PageInOrder, Exploring, Attributing, PagesShowWhatTheySay
\* However the requests of a page overlap, fail and overtake each other, it shows
\* the snapshots, graphs, changes and attributions of what it says it shows, and
\* the explorer does not wait for ever: for any captures and any number of clicks.
THEOREM PagesAreRight == Spec => []PagesShowWhatTheySay
<1> DEFINE Inv == IF client = "browser" THEN PageInOrder(page) ELSE page = NoPage
<1>1. Init => Inv
  <2> SUFFICES ASSUME Init PROVE Inv
    OBVIOUS
  <2>1. CASE client = "browser"
    <3>1. PICK view \in {"topology", "attribution"}, capture \in Captures :
             page = Loading(Opened(view, capture))
      BY <2>1 DEF Init, PagesInit, Captures
    <3> QED BY <2>1, <3>1, OpenedIs
  <2>2. CASE client # "browser"
    BY <2>2 DEF Init
  <2> QED BY <2>1, <2>2
<1>2. Inv /\ [Next]_vars => Inv'
  <2> SUFFICES ASSUME Inv, [Next]_vars PROVE Inv'
    OBVIOUS
  <2>1. CASE Browse
    <3>1. client = "browser" /\ client' = client /\ PagesNext
      BY <2>1 DEF Browse
    <3> QED BY <3>1, PagesStep
  <2>2. CASE UNCHANGED <<client, page>>
    BY <2>2
  <2> QED
    BY <2>1, <2>2 DEF Next, vars, Receive, Ask, Watch, End, Collect, Archive, Serve, Export
<1>3. Inv => PagesShowWhatTheySay
  <2>1. page = NoPage => PagesShowWhatTheySay
    BY DEF NoPage, PagesShowWhatTheySay
  <2> QED BY <2>1, InOrderShows
<1> QED
  BY <1>1, <1>2, <1>3, PTL DEF Spec
=============================================================================
