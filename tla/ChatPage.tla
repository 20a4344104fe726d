------------------------------ MODULE ChatPage ------------------------------
(***************************************************************************)
(* The planner chat of the editor page: the chat store, the effect that    *)
(* loads the history of the selected conversation, the handler of a sent   *)
(* message, which reads the planner's stream of events, and Stop.          *)
(*                                                                         *)
(* The store holds one list of messages, one streaming flag and one abort  *)
(* controller for every conversation.  A handler awaits requests that Stop *)
(* does not abort, so that it may outlive its stream and meet the next.    *)
(***************************************************************************)
EXTENDS Naturals, Sequences, SequencesExt

CONSTANTS
    Workflows,   \* the workflows whose editors are opened
    Nodes,       \* the nodes the selector offers
    MaxStreams,  \* bound on the messages that are sent
    MaxSelects,  \* bound on the changes of the conversation and of the tab
    MaxNotes,    \* bound on the messages of the list
    MayStop,     \* whether the user stops streams
    Failing      \* what may fail: "chat", "stream", "get", "history"

ASSUME ChatPageAssumption ==
    /\ Workflows # {} /\ Nodes # {} /\ MaxStreams \in Nat \ {0}
    /\ {MaxSelects, MaxNotes} \subseteq Nat
    /\ MayStop \in BOOLEAN /\ Failing \subseteq {"chat", "stream", "get", "history"}

Streams == 1 .. MaxStreams
None == 0
Convs == Workflows \X Nodes
NoConv == <<>>

\* generate(): its events and, between them, its commits, which the page skips.
\* The action between the state and the plan fills a blank as the plan does.
Steps == <<"text", "draft", "checkpoint", "answer", "ui", "plan">>
End == Len(Steps)

VARIABLES
    rows,      \* the server's messages of each conversation
    streams,   \* the messages sent, with the server's and the handler's progress
    used,      \* how many have been sent
    cur, node, \* currentWorkflowId and selectedNodeId: the selected conversation
    mounted,   \* the chat is the tab that is shown
    messages, key, streaming, loadingHistory, \* the chat store
    ctl,       \* abortController: the stream it belongs to
    fetch,     \* the load of a history that is not cancelled
    selects,   \* changes of the conversation and of the tab, up to the bound
    stray,     \* history: a stopped handler has gone on
    early      \* history: a message was sent before its conversation was loaded

store == <<messages, key, streaming, loadingHistory, ctl>>
vars == <<rows, streams, used, cur, node, mounted, store, fetch, selects, stray, early>>

\* A message: who speaks, and the stream it comes from, None for a notice.  A
\* blank is the assistant's message that has no text yet.
Message == {"user", "assistant", "blank"} \X (Streams \cup {None})
Notice == <<"assistant", None>>
\* A handler: n steps of the server are done, read ones are handled; cut when it
\* is aborted, with the events of its last chunk up to end.
Stream == [conv: Convs \cup {NoConv}, n: 0 .. End, read: 0 .. End, end: 0 .. End, cut: BOOLEAN,
           at: {"off", "fetch", "read", "await", "last", "done", "over"}]
Off == [conv |-> NoConv, n |-> 0, read |-> 0, end |-> 0, cut |-> FALSE, at |-> "off"]
Fetch == {<<>>} \cup [conv: Convs, st: {"sent", "ok", "failed"}, rows: Seq(Message)]

TypeOK ==
    /\ rows \in [Convs -> Seq(Message)] /\ streams \in [Streams -> Stream]
    /\ used \in 0 .. MaxStreams /\ cur \in Workflows /\ node \in Nodes
    /\ messages \in Seq(Message) /\ key \in Convs \cup {NoConv}
    /\ {mounted, streaming, loadingHistory, stray, early} \subseteq BOOLEAN
    /\ ctl \in Streams \cup {None} /\ selects \in 0 .. MaxSelects
    /\ fetch = <<>> \/ fetch.conv \in Convs

Init ==
    /\ rows = [c \in Convs |-> <<>>] /\ streams = [s \in Streams |-> Off] /\ used = 0
    /\ cur \in Workflows /\ node \in Nodes /\ mounted = FALSE
    /\ messages = <<>> /\ key = NoConv /\ streaming = FALSE /\ loadingHistory = FALSE
    /\ ctl = None /\ fetch = <<>> /\ selects = 0 /\ stray = FALSE /\ early = FALSE

Selected == <<cur, node>>

-----------------------------------------------------------------------------
(* The history.                                                            *)

\* What the effect asks before it loads.
MutWanted(sel, busy, k, msgs) == k # sel \/ msgs = <<>>
MutOnce(sel, busy, k, msgs) == ~busy /\ msgs = <<>>
Wanted(sel, busy, k, msgs) == ~busy /\ (k # sel \/ msgs = <<>>)

\* The effect: it runs when the tab is shown and when one of its dependencies
\* changes; the clean-up cancels the load before, and leaves its spinner.
Effect ==
    LET changed == \/ mounted' # mounted \/ <<cur', node'>> # <<cur, node>>
                   \/ streaming' # streaming \/ key' # key \/ Len(messages') # Len(messages)
        wanted == mounted' /\ Wanted(<<cur', node'>>, streaming', key', messages')
    IN  fetch' = IF ~changed THEN (IF mounted' THEN fetch ELSE <<>>)
                 ELSE IF wanted THEN [conv |-> <<cur', node'>>, st |-> "sent", rows |-> <<>>]
                 ELSE <<>>
Spins(before) == loadingHistory' = (before \/ (fetch' # <<>> /\ fetch' # fetch))
Rerun == Effect /\ Spins(loadingHistory)

ServeHistory ==
    /\ fetch # <<>> /\ fetch.st = "sent"
    /\ \/ fetch' = [fetch EXCEPT !.st = "ok", !.rows = rows[fetch.conv]]
       \/ "history" \in Failing /\ fetch' = [fetch EXCEPT !.st = "failed"]
    /\ UNCHANGED <<rows, streams, used, cur, node, mounted, store, selects, stray, early>>

\* loadHistory: the key is set with the messages, and not when the load failed;
\* the effect that this runs again starts with the spinner off.
HistoryAnswer ==
    /\ fetch # <<>> /\ fetch.st # "sent"
    /\ messages' = fetch.rows
    /\ key' = IF fetch.st = "ok" THEN fetch.conv ELSE key
    /\ UNCHANGED <<rows, streams, used, cur, node, mounted, streaming, ctl, selects, stray, early>>
    /\ LET again == (key' # key \/ Len(messages') # Len(messages))
                        /\ Wanted(Selected, streaming, key', messages')
       IN  /\ fetch' = IF again THEN [conv |-> Selected, st |-> "sent", rows |-> <<>>] ELSE <<>>
           /\ loadingHistory' = again

-----------------------------------------------------------------------------
(* The server.                                                             *)

\* The user's message is committed with the checkpoint of the draft, the answer
\* at the end; a cut stream may still get that far, or be cancelled before.
ServerStep(s) ==
    LET st == streams[s]
    IN  /\ st.at \notin {"off", "fetch"} /\ st.n < End /\ (st.cut => st.n < st.end + 2)
        /\ streams' = [streams EXCEPT ![s].n = st.n + 1]
        /\ rows' = [rows EXCEPT ![st.conv] =
             CASE Steps[st.n + 1] = "checkpoint" -> Append(@, <<"user", s>>)
               [] Steps[st.n + 1] = "answer" -> Append(@, <<"assistant", s>>)
               [] OTHER -> @]
        /\ UNCHANGED <<used, cur, node, mounted, store, fetch, selects, stray, early>>

-----------------------------------------------------------------------------
(* The handler of a message.                                               *)

\* setMessages of a text: it replaces whatever assistant's message is the last.
Written(s) == IF messages # <<>> /\ Last(messages)[1] # "user"
              THEN [messages EXCEPT ![Len(messages)] = <<"assistant", s>>] ELSE messages
Filled(s) == IF messages # <<>> /\ Last(messages)[1] = "blank" THEN Written(s) ELSE messages
Noted == IF Len(messages) < MaxNotes THEN Append(messages, Notice) ELSE messages
StopNoted == IF messages # <<>> /\ Last(messages) = Notice THEN messages ELSE Noted

\* handleSend up to its request.
MaySend == ~streaming
Send ==
    /\ mounted /\ MaySend /\ used < MaxStreams /\ Len(messages) < MaxNotes
    /\ used' = used + 1
    /\ streams' = [streams EXCEPT ![used + 1] = [Off EXCEPT !.conv = Selected, !.at = "fetch"]]
    /\ messages' = Append(messages, <<"user", used + 1>>)
    /\ streaming' = TRUE /\ ctl' = used + 1
    /\ early' = (early \/ key # Selected)
    /\ UNCHANGED <<rows, cur, node, mounted, key, selects, stray>>
    /\ Rerun

\* finishStream: whichever stream is running.
Finish == streaming' = FALSE /\ ctl' = None
GoesOn(s) == stray' = (stray \/ streams[s].cut)
Rest == UNCHANGED <<rows, used, node, mounted, key, selects, early>>

\* The response: a blank message to write into, or a notice.
Respond(s) ==
    /\ streams[s].at = "fetch"
    /\ \/ /\ streams' = [streams EXCEPT ![s].at = "read"]
          /\ messages' = Append(messages, <<"blank", s>>)
          /\ UNCHANGED <<streaming, ctl>>
       \/ /\ "chat" \in Failing
          /\ streams' = [streams EXCEPT ![s].at = "over"]
          /\ messages' = Noted /\ Finish
    /\ UNCHANGED <<cur, stray>> /\ Rest /\ Rerun

Available(st) == IF st.cut THEN st.end ELSE st.n
\* One event of the stream; a committed plan or state is read from the server.
Read(s) ==
    LET st == streams[s] step == Steps[st.read + 1]
    IN  /\ st.at = "read" /\ st.read < Available(st)
        /\ streams' = [streams EXCEPT ![s].read = st.read + 1,
                                      ![s].at = IF step \in {"ui", "plan"} THEN "await" ELSE "read"]
        /\ messages' = CASE step = "text" -> Written(s)
                         [] step \in {"draft", "plan"} -> Filled(s)
                         [] OTHER -> messages
        /\ UNCHANGED <<cur, streaming, ctl>> /\ GoesOn(s) /\ Rest /\ Rerun

\* The stream has ended: the workflow is read once more.
LoopEnds(s) ==
    /\ streams[s].at = "read" /\ ~streams[s].cut /\ streams[s].read = End
    /\ streams' = [streams EXCEPT ![s].at = "last"]
    /\ UNCHANGED <<rows, used, cur, node, mounted, store, fetch, selects, stray, early>>

\* The answer of getWorkflow: loadWorkflow makes it the current one.  A failure
\* is skipped in the loop and reported after it.
Got(s) ==
    LET st == streams[s]
    IN  /\ st.at \in {"await", "last"}
        /\ \/ /\ cur' = st.conv[1]
              /\ messages' = IF st.at = "last" THEN Filled(s) ELSE messages
              /\ streams' = [streams EXCEPT ![s].at = IF st.at = "last" THEN "done" ELSE "read"]
           \/ /\ "get" \in Failing /\ UNCHANGED cur
              /\ messages' = IF st.at = "last" THEN Noted ELSE messages
              /\ streams' = [streams EXCEPT ![s].at = IF st.at = "last" THEN "over" ELSE "read"]
        /\ IF st.at = "last" THEN Finish ELSE UNCHANGED <<streaming, ctl>>
        /\ stray' = (stray \/ st.cut) /\ Rest /\ Rerun

\* read() throws: the abort of a stopped stream, or a lost connection.
Throws(s) ==
    LET st == streams[s]
    IN  /\ st.at = "read" /\ st.read = Available(st)
        /\ st.cut \/ "stream" \in Failing
        /\ streams' = [streams EXCEPT ![s].at = "over", ![s].cut = TRUE, ![s].end = st.read]
        /\ messages' = IF st.cut THEN StopNoted ELSE Noted
        /\ Finish /\ GoesOn(s)
        /\ UNCHANGED cur /\ Rest /\ Rerun

\* stopStream.  A handler that reads is through at once; one that awaits a
\* request goes on with the events of its chunk, or has left its loop.
Stop ==
    /\ MayStop /\ streaming /\ ctl # None /\ mounted
    /\ LET st == streams[ctl]
           said == IF \E i \in DOMAIN messages : messages[i][1] # "user"
                   THEN messages ELSE Append(messages, Notice)
       IN  IF st.at \in {"fetch", "read"}
           THEN /\ streams' = [streams EXCEPT ![ctl].at = "over", ![ctl].cut = TRUE,
                                              ![ctl].end = st.read]
                /\ messages' = IF said[Len(said)] = Notice \/ Len(said) >= MaxNotes
                               THEN said ELSE Append(said, Notice)
           ELSE /\ \E e \in st.read .. st.n :
                     streams' = [streams EXCEPT ![ctl].cut = TRUE, ![ctl].end = e]
                /\ messages' = said
    /\ Finish
    /\ UNCHANGED <<cur, stray>> /\ Rest /\ Rerun

-----------------------------------------------------------------------------
(* The user chooses a node or another workflow, and shows the tab or hides it. *)

Choose == selects < MaxSelects /\ selects' = selects + 1
Select(c) ==
    /\ Choose /\ mounted /\ c # Selected
    /\ cur' = c[1] /\ node' = c[2]
    /\ UNCHANGED <<rows, streams, used, mounted, messages, key, streaming, ctl, stray, early>>
    /\ Rerun
Show ==
    /\ ~mounted /\ mounted' = TRUE
    /\ UNCHANGED <<rows, streams, used, cur, node, messages, key, streaming, ctl, selects, stray, early>>
    /\ Rerun
Hide ==
    /\ Choose /\ mounted /\ mounted' = FALSE
    /\ UNCHANGED <<rows, streams, used, cur, node, messages, key, streaming, ctl, stray, early>>
    /\ Rerun

Handle(s) == Respond(s) \/ Read(s) \/ LoopEnds(s) \/ Got(s) \/ Throws(s)
Next ==
    \/ ServeHistory \/ HistoryAnswer \/ Send \/ Stop \/ Show \/ Hide
    \/ \E s \in Streams : ServerStep(s) \/ Respond(s) \/ Read(s) \/ LoopEnds(s) \/ Got(s) \/ Throws(s)
    \/ \E c \in Convs : Select(c)

Spec == Init /\ [][Next]_vars

\* Requests are answered, streams come to an end, and what arrives is handled;
\* the user, who may do nothing, comes back to the tab.  A stream has finitely many
\* steps, so that no stream is kept waiting by another.
Fairness ==
    /\ WF_vars(ServeHistory \/ HistoryAnswer) /\ WF_vars(Show)
    /\ WF_vars(\E s \in Streams : ServerStep(s) \/ Handle(s))
FairSpec == Spec /\ Fairness

-----------------------------------------------------------------------------
(* Properties.                                                             *)

Quiet == \A s \in Streams : streams[s].at \in {"off", "done", "over"}
Settled == mounted /\ Quiet /\ key = Selected
Shown(s, who) == \E i \in DOMAIN messages : messages[i] = <<who, s>>

\* Unless a stopped handler has gone on, or a message was sent before the history
\* of its conversation had come, a conversation shows no message of another one,
\* whatever was selected while its streams ran.
OwnMessages ==
    Settled /\ ~stray /\ ~early =>
        \A i \in DOMAIN messages : messages[i][2] # None => streams[messages[i][2]].conv = key

\* A turn that ran to its end is not lost: the conversation shows the question
\* and the answer, as the server has them, whichever loads raced with the stream.
TurnKept ==
    Settled /\ ~stray =>
        \A s \in Streams : streams[s].at = "done" /\ streams[s].conv = key =>
            /\ Shown(s, "user") /\ Shown(s, "assistant")
            /\ {<<"user", s>>, <<"assistant", s>>} \subseteq ToSet(rows[key])

\* The chat comes to rest with the selected conversation.
Settles == <>[]Settled

\* What does not hold: a message that is sent early leaves its conversation under
\* the key of the one before; a stopped handler writes into the conversation that
\* is selected next and ends the next stream's flags; a cancelled load leaves its spinner.
OwnMessagesAlways ==
    Settled /\ ~stray => \A i \in DOMAIN messages :
                   messages[i][2] # None => streams[messages[i][2]].conv = key
FlagTrue == \A s \in Streams : streams[s].at \in {"fetch", "read", "await"} /\ ~streams[s].cut => streaming
SpinnerStops == <>[](Quiet => ~loadingHistory)
=============================================================================
