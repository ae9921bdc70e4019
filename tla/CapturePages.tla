---------------------------- MODULE CapturePages ----------------------------
(***************************************************************************)
(* The two pages of the web frontend that follow a capture: the topology   *)
(* explorer (frontend/src/Explorer.tsx), which steps through the recorded  *)
(* snapshots, and the causal attribution (Attribution.tsx), with the       *)
(* routes that answer them.  A click updates the page and asks the server; *)
(* several requests are under way at a time, answers come in any order,    *)
(* and any may fail.  An effect of React runs again when what it depends   *)
(* on has changed, after cancelling what it was doing: at once after a     *)
(* click, by the next rendering after an answer.                           *)
(*                                                                         *)
(* A snapshot, its graph and the changes that lead to it are all           *)
(* [capture, number], a dependency and its attribution too: which of them  *)
(* is on the page is what can be wrong.  None stands for undefined, null   *)
(* and the empty list of changes.                                          *)
(***************************************************************************)
EXTENDS Integers, Sequences, SequencesExt

CONSTANTS SnapshotsOf,     \* capture -> the number of its snapshots
          DependenciesOf,  \* capture -> the number of its dependencies
          MaxClicks        \* bound on what the user does

ASSUME PagesAssumption ==
    /\ DOMAIN DependenciesOf = DOMAIN SnapshotsOf
    /\ \A c \in DOMAIN SnapshotsOf : SnapshotsOf[c] \in Nat /\ DependenciesOf[c] \in Nat
    /\ MaxClicks \in Nat

\* `steady': the capture id was not edited since it was last loaded; `inOrder':
\* every answer so far was that of the oldest request under way.
VARIABLE page

None == <<>>
NoPage == [view |-> "none"]

Items(capture, count) == [n \in 1..count[capture] |-> [capture |-> capture, number |-> n]]

-----------------------------------------------------------------------------
(* The effects.                                                             *)

\* The position counts from 0 and may be off the list.
ItemAt(list, i) == IF i \in 0..(Len(list) - 1) THEN list[i + 1] ELSE None
CurrentOf(p) == ItemAt(p.list, p.index)
PreviousOf(p) == ItemAt(p.list, p.index - 1)

\* Mistaken form of Cancel: an effect without a cleanup.
CancelNothing(sent) == sent

\* The cleanup of an effect: what it still asks for is ignored, whether it comes
\* or fails, and no longer counted as under way; but the changes are put on the
\* page all the same, and the loading of a list belongs to no effect.  An effect
\* waits for its graphs or its attribution before it asks again.
Cancel(sent) ==
    LET ignored == {i \in DOMAIN sent : sent[i].asks \in {"graphs", "attribution"}}
        left == IF ignored = {} THEN sent ELSE RemoveAt(sent, CHOOSE i \in ignored : TRUE)
    IN  [i \in DOMAIN left |-> IF left[i].asks = "list" THEN left[i]
                               ELSE [left[i] EXCEPT !.live = FALSE]]

\* The graphs that are missing, and then the changes, which need a snapshot
\* before.
AskEvents(p, r) ==
    IF r.previous = None THEN [p EXCEPT !.events = None]
    ELSE [p EXCEPT !.sent = Append(@, [r EXCEPT !.asks = "events"])]

Explore(p) ==
    LET q == [p EXCEPT !.sent = Cancel(@), !.stale = FALSE,
                       !.playing = IF p.index < Len(p.list) - 1 THEN @ ELSE FALSE]
        missing == {s \in {CurrentOf(p), PreviousOf(p)} \ {None} : s.number \notin DOMAIN p.graphs}
        r == [asks |-> "graphs", capture |-> p.input, live |-> TRUE,
              current |-> CurrentOf(p), previous |-> PreviousOf(p),
              numbers |-> {s.number : s \in missing}]
    IN  IF CurrentOf(p) = None THEN q
        ELSE IF missing = {} THEN AskEvents(q, r)
        ELSE [q EXCEPT !.sent = Append(@, r)]

Attribute(p) ==
    IF p.selected = None THEN p
    ELSE [p EXCEPT !.sent = Append(Cancel(@), [asks |-> "attribution", capture |-> p.input,
                                               live |-> TRUE, of |-> p.selected])]

Effect(p) == IF p.view = "topology" THEN Explore(p) ELSE Attribute(p)

Render ==
    /\ page.stale
    /\ page' = Effect(page)

-----------------------------------------------------------------------------
(* The user.                                                                *)

\* The graphs or the attribution are dropped; only the explorer waits for the
\* list, and only its effect depends on what was dropped.
Loading(p) ==
    LET asked == [p EXCEPT !.error = FALSE, !.steady = TRUE,
                           !.sent = Append(@, [asks |-> "list", capture |-> p.input, live |-> TRUE])]
    IN  IF p.view = "topology"
        THEN Explore([asked EXCEPT !.loading = TRUE, !.graphs = <<>>])
        ELSE [asked EXCEPT !.data = None]

\* Each page has what both need, and leaves alone what only the other has.
Opened(view, capture) ==
    [view |-> view, input |-> capture, list |-> <<>>, error |-> FALSE, sent |-> <<>>,
     stale |-> FALSE, clicks |-> 0, steady |-> FALSE, inOrder |-> TRUE,
     index |-> 0, graphs |-> <<>>, events |-> None, loading |-> FALSE, playing |-> FALSE,
     selected |-> None, data |-> None]

\* With a capture in its address a page loads it.
PagesInit ==
    \E view \in {"topology", "attribution"}, capture \in DOMAIN SnapshotsOf :
        page = Loading(Opened(view, capture))

Click(p) ==
    /\ ~page.stale /\ page.clicks < MaxClicks
    /\ page' = [p EXCEPT !.clicks = @ + 1]

Edit(capture) ==
    /\ capture # page.input
    /\ Click(Effect([page EXCEPT !.input = capture, !.steady = FALSE]))

Load ==
    /\ page.view = "topology" => ~page.loading
    /\ Click(Loading(page))

MoveTo(p, i) == IF i = p.index THEN p ELSE Explore([p EXCEPT !.index = i])

\* Earlier, later, or a mark of the time line.
StepTo(i) ==
    /\ page.view = "topology" /\ CurrentOf(page) # None
    /\ ItemAt(page.list, i) # None
    /\ Click(MoveTo([page EXCEPT !.playing = FALSE], i))

Play ==
    /\ page.view = "topology" /\ CurrentOf(page) # None
    /\ LET atEnd == page.index >= Len(page.list) - 1
           p == MoveTo(page, IF atEnd THEN 0 ELSE page.index)
       IN  Click([p EXCEPT !.playing = ~page.playing /\ p.index < Len(p.list) - 1])

\* The timer of the play mode.
Tick ==
    /\ page.view = "topology" /\ page.playing /\ ~page.stale
    /\ page' = MoveTo(page, page.index + 1)

Choose(dependency) ==
    /\ page.view = "attribution"
    /\ LET p == [page EXCEPT !.data = None, !.selected = dependency]
       IN  Click(IF dependency = page.selected THEN p ELSE Attribute(p))

-----------------------------------------------------------------------------
(* The answers.                                                             *)

\* A capture nobody recorded has no snapshots; a snapshot or dependency of
\* another capture is not found.
Answerable(r) ==
    CASE r.asks = "graphs" -> r.numbers \subseteq 1..SnapshotsOf[r.capture]
      [] r.asks = "attribution" -> r.of.capture = r.capture
      [] OTHER -> TRUE

\* All changes of the capture, of which those that lead to the snapshot are kept.
Answered(p, r) ==
    CASE r.asks = "list" /\ p.view = "topology" ->
            [p EXCEPT !.list = Items(r.capture, SnapshotsOf), !.loading = FALSE, !.stale = TRUE,
                      !.index = IF SnapshotsOf[r.capture] = 0 THEN 0 ELSE SnapshotsOf[r.capture] - 1]
      [] r.asks = "list" /\ p.view = "attribution" ->
            [p EXCEPT !.list = Items(r.capture, DependenciesOf)]
      [] r.asks = "graphs" ->
            AskEvents([p EXCEPT !.stale = TRUE,
                                !.graphs = [n \in r.numbers \cup DOMAIN p.graphs |->
                                               IF n \in r.numbers
                                               THEN [capture |-> r.capture, number |-> n]
                                               ELSE p.graphs[n]]],
                      r)
      [] r.asks = "events" ->
            [p EXCEPT !.events = IF r.current.capture = r.capture THEN r.current ELSE None]
      [] r.asks = "attribution" -> [p EXCEPT !.data = r.of]
      [] OTHER -> p

Failed(p, r) ==
    IF r.asks = "list" /\ p.view = "topology"
    THEN [p EXCEPT !.error = TRUE, !.list = <<>>, !.loading = FALSE, !.stale = TRUE]
    ELSE [p EXCEPT !.error = IF r.live THEN TRUE ELSE @]

Receives(i, ok) ==
    LET r == page.sent[i]
        p == [page EXCEPT !.sent = RemoveAt(@, i), !.inOrder = IF i = 1 THEN @ ELSE FALSE]
    IN  /\ ok => Answerable(r)
        /\ page' = IF ok THEN Answered(p, r) ELSE Failed(p, r)

PagesNext ==
    \/ Render
    \/ \E capture \in DOMAIN SnapshotsOf : Edit(capture)
    \/ Load
    \/ \E i \in DOMAIN page.list : StepTo(i - 1)
    \/ Play
    \/ Tick
    \/ \E i \in DOMAIN page.list : Choose(page.list[i])
    \/ \E i \in DOMAIN page.sent, ok \in BOOLEAN : Receives(i, ok)

-----------------------------------------------------------------------------
(* Properties.                                                              *)

Quiet == page.sent = <<>> /\ ~page.stale /\ ~page.error

\* However requests overlap, fail and overtake each other, the graphs on the
\* page are those of the capture that was loaded, each under its own version,
\* and so is the list once it is there.  When all is answered and nothing
\* failed, the snapshot on the page and the one before it have their graphs
\* (the page does not wait for ever), and, unless an answer was overtaken, the
\* changes listed are those that lead to it.
ExplorerShowsItsSnapshot ==
    LET current == CurrentOf(page)
        previous == PreviousOf(page)
    IN  /\ page.list # <<>> => current # None
        /\ page.steady =>
              /\ \A n \in DOMAIN page.graphs :
                    page.graphs[n] = [capture |-> page.input, number |-> n]
              /\ (~page.loading /\ ~page.error) =>
                    page.list = Items(page.input, SnapshotsOf)
        /\ Quiet /\ current # None =>
              /\ current.number \in DOMAIN page.graphs
              /\ previous # None => previous.number \in DOMAIN page.graphs
              /\ previous # None /\ page.steady /\ page.inOrder => page.events = current

\* The attribution on the page is that of the dependency that is selected, and
\* of the capture that was loaded; when all is answered in order and nothing
\* failed, the list is that capture's too.
AttributionShowsItsSelection ==
    /\ page.data # None =>
          /\ page.data = page.selected
          /\ page.steady => page.data.capture = page.input
    /\ Quiet /\ page.steady /\ page.inOrder => page.list = Items(page.input, DependenciesOf)

PagesShowWhatTheySay ==
    /\ page.view = "topology" => ExplorerShowsItsSnapshot
    /\ page.view = "attribution" => AttributionShowsItsSelection
=============================================================================
