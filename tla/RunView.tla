------------------------------ MODULE RunView ------------------------------
(***************************************************************************)
(* The browser's view of a run: the run store with its batching and its    *)
(* set of known event ids, the WebSocket hook (socket, back-fill, reconnect*)
(* timer, fall-back poll), the loading and leaving of the editor page, and *)
(* the toolbar's Run, Resume and Cancel.                                   *)
(*                                                                         *)
(* The server is what the page can tell of it: per run a status and a log  *)
(* of events.  A request is a record in calls; the server answers it in    *)
(* one step and the page handles the answer in another, so that answers    *)
(* are stale, late and reordered.                                          *)
(* React runs the effects of a change of the store before the next event,  *)
(* so that Rerender belongs to the step that changes it.                   *)
(***************************************************************************)
EXTENDS Naturals, Sequences, SequencesExt, FiniteSets, Filters

CONSTANTS
    MaxRuns,       \* runs of the workflow that are ever started
    MaxLog,        \* bound on the events of one run
    MaxCalls,      \* bound on the requests in flight
    Slots,         \* WebSocket objects that exist at the same time
    MAX_PENDING,   \* buffered events that are flushed without waiting for a frame
    MAX_EVENT_IDS, \* event ids that are remembered
    MaxDrops,      \* bound on the connections that are lost
    MaxClicks,     \* bound on what the user does
    Failing,       \* the requests that may fail
    Outcomes,      \* how a run that is not cancelled may end
    Keyboard       \* whether the user starts runs with Ctrl+Enter, too

Runs == 1 .. MaxRuns
NoRun == 0
NoSlot == 0
Ended == {"completed", "failed", "cancelled"}
Ops == {"load", "backfill", "poll", "trigger", "resume", "cancel"}

ASSUME RunViewAssumption ==
    /\ {MaxRuns, MaxLog, MaxCalls, MaxDrops, MaxClicks, MAX_PENDING, MAX_EVENT_IDS} \subseteq Nat \ {0}
    /\ Slots \subseteq Nat \ {0} /\ IsFiniteSet(Slots)
    /\ Failing \subseteq Ops /\ Outcomes \subseteq {"completed", "failed"} /\ Keyboard \in BOOLEAN

VARIABLES
    \* the server
    srv,       \* [Runs -> status], "none" before the run is started
    log,       \* [Runs -> the kinds of its persisted events]
    latest,    \* the run started last
    \* the page
    page,      \* "away", "loading", "shown", "error"
    calls,     \* requests in flight
    socks,     \* the WebSocket objects
    ref,       \* wsRef: the slot of the hook's socket
    timer,     \* reconnectTimerRef is set
    manual,    \* manualCloseRef
    polling,   \* the fall-back poll waits for its ten seconds
    \* the run store
    runId, status,
    evs,       \* events that were applied: << run, number >>
    pending,   \* events that wait for the next frame
    ids,       \* _eventIds
    drops, clicks, \* connections lost and clicks, up to their bounds
    stray      \* history: a late callback has changed what is not its own, or a run
               \* was triggered while another was shown

server == <<srv, log, latest>>
hook == <<socks, ref, timer, manual, polling>>
store == <<runId, status, evs, pending, ids>>
bounds == <<drops, clicks>>
vars == <<server, page, calls, hook, store, stray, bounds>>

Kinds == {"node_started", "node_completed", "run_resumed",
          "run_completed", "run_failed", "run_cancelled"}
Statuses == {"idle", "running", "cancelling"} \cup Ended
EventIds == Runs \X (1 .. MaxLog)

\* A request: what it asks for, the run it is about, whether the effect or the
\* page that sent it is still there, and the server's answer (a status, a
\* length of the log, success).
Request == [op: Ops, step: {"first", "second"}, run: Runs \cup {NoRun},
            live: BOOLEAN, answered: BOOLEAN, ok: BOOLEAN,
            st: Statuses \cup {"none"}, n: 0 .. MaxLog]
Ask(op, r) == [op |-> op, step |-> "first", run |-> r, live |-> TRUE,
               answered |-> FALSE, ok |-> FALSE, st |-> "none", n |-> 0]

Free == [st |-> "free", run |-> NoRun, q |-> <<>>, live |-> FALSE, mine |-> FALSE]
Socket == [st: {"free", "connecting", "open", "closing"}, run: Runs \cup {NoRun},
           q: Seq(EventIds), live: BOOLEAN, mine: BOOLEAN]

TypeOK ==
    /\ srv \in [Runs -> Statuses \cup {"none"}]
    /\ log \in [Runs -> Seq(Kinds)]
    /\ latest \in Runs \cup {NoRun}
    /\ page \in {"away", "loading", "shown", "error"}
    /\ calls \subseteq Request
    /\ socks \in [Slots -> Socket] /\ ref \in Slots \cup {NoSlot}
    /\ timer \in BOOLEAN /\ manual \in BOOLEAN /\ polling \in BOOLEAN
    /\ runId \in Runs \cup {NoRun} /\ status \in Statuses
    /\ drops \in 0 .. MaxDrops /\ clicks \in 0 .. MaxClicks
    /\ evs \in Seq(EventIds) /\ pending \in Seq(EventIds) /\ ids \subseteq EventIds
    /\ stray \in BOOLEAN

Init ==
    /\ srv = [r \in Runs |-> "none"] /\ log = [r \in Runs |-> <<>>]
    /\ latest = NoRun
    /\ page = "away" /\ calls = {}
    /\ socks = [k \in Slots |-> Free] /\ ref = NoSlot
    /\ timer = FALSE /\ manual = FALSE /\ polling = FALSE
    /\ runId = NoRun /\ status = "idle"
    /\ evs = <<>> /\ pending = <<>> /\ ids = {} /\ stray = FALSE
    /\ drops = 0 /\ clicks = 0

Kind(e) == log[e[1]][e[2]]
History(r, n) == [i \in 1 .. n |-> <<r, i>>]

-----------------------------------------------------------------------------
(* The run store.                                                          *)

\* _applyEvents: what a batch makes of the run's status.  A cancelled run has
\* no event that the store knows of.
StatusOf(kind, st) ==
    CASE kind = "run_resumed" -> "running"
      [] kind = "run_completed" -> "completed"
      [] kind = "run_failed" -> "failed"
      [] OTHER -> st
StatusAfter(st, batch) == FoldLeft(LAMBDA s, e : StatusOf(Kind(e), s), st, batch)

\* What the store shows of the run's agent, by the order of application.
NodeStatusOf(kind, st) ==
    CASE kind = "node_started" -> "running"
      [] kind = "node_completed" -> "completed"
      [] OTHER -> st
NodeStatus == FoldLeft(LAMBDA s, e : NodeStatusOf(Kind(e), s), "idle", evs)

\* The filter of hydrateEvents and mergeEvents.
MutUnknown(batch, known) == batch
Unknown(batch, known) == Without(batch, known)

\* _trimEventIds: the ids of the last applied events, without those that wait.
Trimmed(known) ==
    IF Cardinality(known) <= MAX_EVENT_IDS THEN known
    ELSE {evs[i] : i \in {j \in DOMAIN evs : j > Len(evs) - MAX_EVENT_IDS}}

-----------------------------------------------------------------------------
(* The hook: its effects after the store has changed.                      *)

FreeSlots == {k \in Slots : socks[k].st = "free"}
ASlot == CHOOSE k \in FreeSlots : TRUE
Connecting(r) == [Free EXCEPT !.st = "connecting", !.run = r, !.live = TRUE, !.mine = TRUE]
MutShut(k, s) == s
Shut(k, s) == IF k = NoSlot THEN s ELSE [s EXCEPT ![k].st = "closing", ![k].q = <<>>]
Orphan(s) == [k \in Slots |-> [s[k] EXCEPT !.live = FALSE]]

\* The requests whose effect is cleaned up no longer see themselves as current.
Stop(ops, cs) == {IF c.op \in ops THEN [c EXCEPT !.live = FALSE] ELSE c : c \in cs}

\* A render with another run id (the connecting effect), another status (the
\* terminal effect) or either (the poll's effect), from the sockets ss.
Rerender(r2, s2, cs, ss) ==
    LET moved == r2 # runId
        over == s2 # status /\ s2 \in {"completed", "failed"}
        opens == moved /\ r2 # NoRun
        left == IF moved THEN Orphan(Shut(ref, ss)) ELSE ss
        made == IF opens THEN [left EXCEPT ![ASlot] = Connecting(r2)] ELSE left
        now == IF opens THEN ASlot ELSE IF moved THEN NoSlot ELSE ref
        moves == moved \/ s2 # status
    IN  /\ runId' = r2 /\ status' = s2
        /\ IF page \in {"loading", "shown", "error"}
           THEN /\ opens => FreeSlots # {}
                /\ socks' = IF over THEN Shut(now, made) ELSE made
                /\ ref' = IF over THEN NoSlot ELSE now
                /\ timer' = (timer /\ ~moved /\ ~over)
                /\ manual' = (over \/ (manual /\ ~opens))
                /\ polling' = IF moves THEN r2 # NoRun /\ s2 = "running" ELSE polling
                /\ calls' = Stop((IF moved THEN {"backfill"} ELSE {})
                                 \cup (IF moves THEN {"poll"} ELSE {}), cs)
           ELSE calls' = cs /\ socks' = ss /\ UNCHANGED <<ref, timer, manual, polling>>

\* _applyEvents.
Apply(batch, cs, ss) ==
    /\ evs' = evs \o batch
    /\ Rerender(runId, StatusAfter(status, batch), cs, ss)

\* mergeEvents.
Merge(batch, cs) ==
    LET new == Unknown(batch, ids) IN
    /\ ids' = ids \cup Range(new)
    /\ Apply(new, cs, socks)
    /\ UNCHANGED pending

\* The frame: _flushPending.
Flush ==
    /\ pending # <<>>
    /\ pending' = <<>>
    /\ Apply(pending, calls, socks)
    /\ UNCHANGED <<server, page, ids, stray>>

-----------------------------------------------------------------------------
(* The server.                                                             *)

\* An event is persisted, then published to the open sockets of its run.  What a
\* socket that opens between the two sees is what one sees that opened before.
Emit(r, k) ==
    /\ log' = [log EXCEPT ![r] = Append(@, k)]
    /\ socks' = [s \in Slots |->
           IF socks[s].st = "open" /\ socks[s].run = r
           THEN [socks[s] EXCEPT !.q = Append(@, <<r, Len(log[r]) + 1>>)] ELSE socks[s]]

\* An agent is started and completed by turns.
Work(r) ==
    /\ srv[r] \in {"running", "cancelling"} /\ Len(log[r]) < MaxLog - 1
    /\ Emit(r, IF log[r] # <<>> /\ Last(log[r]) = "node_started"
               THEN "node_completed" ELSE "node_started")
    /\ UNCHANGED <<srv, latest, page, calls, ref, timer, manual, polling, store, stray>>

\* _finish_run: the row, then the event.
Finish(r) ==
    /\ \/ srv[r] = "running" /\ \E st \in Outcomes : srv' = [srv EXCEPT ![r] = st]
       \/ srv[r] = "cancelling" /\ srv' = [srv EXCEPT ![r] = "cancelled"]
    /\ UNCHANGED <<log, latest, page, calls, hook, store, stray>>

EndEvent(r) == CASE srv[r] = "completed" -> "run_completed"
                 [] srv[r] = "failed" -> "run_failed"
                 [] OTHER -> "run_cancelled"
Told(r) == log[r] # <<>> /\ Last(log[r]) = EndEvent(r)
Tell(r) ==
    /\ srv[r] \in Ended /\ ~Told(r) /\ Len(log[r]) < MaxLog
    /\ Emit(r, EndEvent(r))
    /\ UNCHANGED <<srv, latest, page, calls, ref, timer, manual, polling, store, stray>>

\* A run is resumed, its end being told: the row is running again, and the event
\* comes first.
Resumed(r) ==
    /\ srv' = [srv EXCEPT ![r] = "running"]
    /\ Emit(r, "run_resumed")

\* The server answers request c with effect or refusal; the answer may be lost.
Answer(c, d) == calls' = (calls \ {c}) \cup {[d EXCEPT !.answered = TRUE]}
Good(c) == Answer(c, [c EXCEPT !.ok = TRUE])
Bad(c) == Answer(c, [c EXCEPT !.ok = FALSE])

ServeRead(c) ==
    /\ c.op \in {"load", "backfill", "poll"}
    /\ Answer(c, [c EXCEPT !.ok = TRUE,
           !.run = IF c.op = "load" /\ c.step = "first" THEN latest ELSE @,
           !.st = IF c.step = "second" \/ c.op = "backfill" THEN @
                  ELSE IF c.op = "load" THEN (IF latest = NoRun THEN "none" ELSE srv[latest])
                  ELSE srv[c.run],
           !.n = IF c.step = "second" \/ c.op = "backfill" THEN Len(log[c.run]) ELSE @])
    /\ UNCHANGED <<server, socks>>

ServeTrigger(c) ==
    /\ c.op = "trigger"
    /\ IF c.step = "second" THEN Good(c) /\ UNCHANGED <<server, socks>>
       ELSE IF latest = MaxRuns THEN Bad(c) /\ UNCHANGED <<server, socks>>
       ELSE /\ latest' = latest + 1 /\ srv' = [srv EXCEPT ![latest + 1] = "running"]
            /\ \/ Answer(c, [c EXCEPT !.run = latest + 1, !.ok = TRUE])
               \/ "trigger" \in Failing /\ Bad(c)
            /\ UNCHANGED <<log, socks>>

ServeResume(c) ==
    /\ c.op = "resume"
    /\ IF srv[c.run] \in Ended /\ Told(c.run) /\ Len(log[c.run]) < MaxLog
       THEN Resumed(c.run) /\ Good(c) /\ UNCHANGED latest
       ELSE Bad(c) /\ UNCHANGED <<server, socks>>

ServeCancel(c) ==
    /\ c.op = "cancel"
    /\ IF srv[c.run] = "running"
       THEN /\ srv' = [srv EXCEPT ![c.run] = "cancelling"]
            /\ Good(c) \/ ("cancel" \in Failing /\ Bad(c))
            /\ UNCHANGED <<log, latest, socks>>
       ELSE Bad(c) /\ UNCHANGED <<server, socks>>

Serve(c) ==
    /\ ~c.answered
    /\ \/ ServeRead(c) \/ ServeTrigger(c) \/ ServeResume(c) \/ ServeCancel(c)
       \/ c.op \in Failing /\ Bad(c) /\ UNCHANGED <<server, socks>>
    /\ UNCHANGED <<page, ref, timer, manual, polling, store, stray>>

-----------------------------------------------------------------------------
(* The socket.                                                             *)

\* The server accepts it; the first of a run is sent what the bus still has.
\* onopen asks for the history.
Open(k) ==
    /\ socks[k].st = "connecting" /\ Cardinality(calls) < MaxCalls
    /\ \E q \in {<<>>, History(socks[k].run, Len(log[socks[k].run]))} :
           socks' = [socks EXCEPT ![k].st = "open", ![k].q = q]
    /\ calls' = IF socks[k].live THEN calls \cup {Ask("backfill", socks[k].run)} ELSE calls
    /\ UNCHANGED <<server, page, ref, timer, manual, polling, store, stray>>

\* onmessage: addEvent, which flushes at once when too much waits.
Message(k) ==
    LET e == Head(socks[k].q)
        wait == Append(pending, e)
        popped == [socks EXCEPT ![k].q = Tail(@)]
    IN  /\ socks[k].st = "open" /\ socks[k].q # <<>>
        /\ stray' = (stray \/ ~socks[k].live)
        /\ IF e \in ids \/ Len(wait) < MAX_PENDING
           THEN /\ socks' = popped
                /\ pending' = IF e \in ids THEN pending ELSE wait
                /\ ids' = IF e \in ids THEN ids ELSE Trimmed(ids \cup {e})
                /\ UNCHANGED <<runId, status, evs, calls, ref, timer, manual, polling>>
           ELSE /\ pending' = <<>> /\ ids' = Trimmed(ids \cup {e})
                /\ Apply(wait, calls, popped)
        /\ UNCHANGED <<server, page>>

\* Whether a close is followed by a reconnection.
Rearms(k, clean) == ~manual /\ ~clean /\ socks[k].live

\* onclose: clears wsRef, whatever it refers to by now, and sets the timer
\* after an abnormal close.
OnClose(k, clean) ==
    /\ socks' = [socks EXCEPT ![k] = Free]
    /\ IF socks[k].mine
       THEN /\ ref' = NoSlot
            /\ stray' = (stray \/ ref \notin {NoSlot, k})
            /\ timer' = (timer \/ Rearms(k, clean))
       ELSE UNCHANGED <<ref, stray, timer>>
    /\ UNCHANGED <<server, page, calls, manual, polling, store>>

Closed(k) == socks[k].st = "closing" /\ OnClose(k, TRUE)
Dropped(k) ==
    /\ socks[k].st \in {"connecting", "open"} /\ drops < MaxDrops
    /\ drops' = drops + 1
    /\ OnClose(k, FALSE)

\* The three seconds are over.
Reconnect ==
    /\ timer /\ ~manual /\ FreeSlots # {}
    /\ timer' = FALSE /\ ref' = ASlot
    /\ socks' = [socks EXCEPT ![ASlot] = Connecting(runId)]
    /\ UNCHANGED <<server, page, calls, manual, polling, store, stray>>

BackfillReturns(c) ==
    /\ c.op = "backfill" /\ c.answered
    /\ IF c.ok /\ c.live
       THEN Merge(History(c.run, c.n), calls \ {c})
       ELSE calls' = calls \ {c} /\ UNCHANGED <<hook, store>>
    /\ UNCHANGED <<server, page, stray>>

-----------------------------------------------------------------------------
(* The fall-back poll.                                                     *)

Poll ==
    /\ polling /\ Cardinality(calls) < MaxCalls
    /\ polling' = FALSE
    /\ calls' = calls \cup {Ask("poll", runId)}
    /\ UNCHANGED <<server, page, socks, ref, timer, manual, store, stray>>

\* The loop goes on unless its effect was cleaned up meanwhile.
PollAgain(c) ==
    /\ calls' = calls \ {c} /\ polling' = (polling \/ c.live)
    /\ UNCHANGED <<socks, ref, timer, manual, store, stray>>

\* What the polled status makes of the shown one.
MutPolledStatus(st, shown) == IF st \in {"completed", "failed"} THEN st ELSE shown
PolledStatus(st, shown) ==
    IF st \in {"completed", "failed"} THEN st ELSE IF st = "cancelled" THEN "failed" ELSE shown

\* getRun, then listRunEvents; both are applied without another look at whether
\* the effect is still there.
PollReturns(c) ==
    /\ c.op = "poll" /\ c.answered
    /\ IF ~c.ok THEN PollAgain(c)
       ELSE IF c.step = "first"
       THEN /\ calls' = (calls \ {c}) \cup {[c EXCEPT !.step = "second", !.answered = FALSE]}
            /\ UNCHANGED <<hook, store, stray>>
       ELSE LET new == Unknown(History(c.run, c.n), ids)
                s2 == PolledStatus(c.st, StatusAfter(status, new))
                goes == c.st \notin Ended /\ c.live /\ s2 = status
            IN  /\ evs' = evs \o new /\ ids' = ids \cup Range(new)
                /\ stray' = (stray \/ ~c.live)
                /\ UNCHANGED pending
                /\ IF goes
                   THEN /\ calls' = calls \ {c} /\ polling' = TRUE
                        /\ UNCHANGED <<runId, status, socks, ref, timer, manual>>
                   ELSE Rerender(runId, s2, calls \ {c}, socks)
    /\ UNCHANGED <<server, page>>

-----------------------------------------------------------------------------
(* The page.                                                               *)

MutClear == evs' = <<>> /\ ids' = {} /\ UNCHANGED pending
Clear == evs' = <<>> /\ pending' = <<>> /\ ids' = {}

\* The editor is opened: its effects run, its load starts.
Mount ==
    LET opens == runId # NoRun IN
    /\ page = "away" /\ Cardinality(calls) < MaxCalls
    /\ page' = "loading"
    /\ opens => FreeSlots # {}
    /\ socks' = IF opens THEN [socks EXCEPT ![ASlot] =
                    [Connecting(runId) EXCEPT !.st =
                        IF status \in {"completed", "failed"} THEN "closing" ELSE "connecting"]]
                ELSE socks
    /\ manual' = (status \in {"completed", "failed"})
    /\ ref' = IF opens /\ ~manual' THEN ASlot ELSE NoSlot
    /\ timer' = FALSE /\ polling' = (opens /\ status = "running")
    /\ calls' = calls \cup {Ask("load", NoRun)}
    /\ UNCHANGED <<server, store, stray>>

ClearTimers == polling' = FALSE /\ timer' = FALSE

\* The editor is left: every effect is cleaned up, the stores are reset.
Leave ==
    /\ page \in {"loading", "shown", "error"}
    /\ page' = "away" /\ runId' = NoRun /\ status' = "idle" /\ Clear
    /\ socks' = [k \in Slots |-> [Shut(ref, socks)[k] EXCEPT !.live = FALSE, !.mine = FALSE]]
    /\ ref' = NoSlot /\ manual' = FALSE /\ ClearTimers
    /\ calls' = Stop(Ops, calls)
    /\ UNCHANGED <<server, stray>>

\* The load: the last run, then its history, each time unless the page was left.
LoadFails(c) ==
    /\ page' = "error" /\ calls' = calls \ {c}
    /\ UNCHANGED <<hook, store>>

NoRunYet(c) ==
    /\ page' = "shown" /\ Clear
    /\ Rerender(NoRun, "idle", calls \ {c}, socks)

HasRun(c) ==
    /\ page' = page
    /\ calls' = (calls \ {c}) \cup {[c EXCEPT !.step = "second", !.answered = FALSE]}
    /\ UNCHANGED <<hook, store>>

\* hydrateEvents, setStatus and setRunId.
Hydrate(c) ==
    /\ page' = "shown"
    /\ evs' = History(c.run, c.n) /\ ids' = Range(evs') /\ pending' = <<>>
    /\ Rerender(c.run, c.st, calls \ {c}, socks)

LoadReturns(c) ==
    /\ c.op = "load" /\ c.answered
    /\ CASE ~c.live -> calls' = calls \ {c} /\ UNCHANGED <<page, hook, store>>
         [] c.live /\ ~c.ok -> LoadFails(c)
         [] c.live /\ c.ok /\ c.step = "second" -> Hydrate(c)
         [] c.live /\ c.ok /\ c.step = "first" /\ c.run = NoRun -> NoRunYet(c)
         [] OTHER -> HasRun(c)
    /\ UNCHANGED <<server, stray>>

-----------------------------------------------------------------------------
(* The toolbar.                                                            *)

Asked(ops) == \E c \in calls : c.op \in ops /\ c.live
CanResume == runId # NoRun /\ status \in Ended

\* The Run button, disabled while one of its requests is on its way, and its key,
\* which is not.  While it triggers another run, the socket of one that is shown
\* and has not ended goes on filling the store.
ClickRun ==
    /\ page = "shown" /\ status # "running" /\ Cardinality(calls) < MaxCalls
    /\ Keyboard \/ ~Asked({"trigger", "resume"})
    /\ IF CanResume
       THEN calls' = calls \cup {Ask("resume", runId)} /\ UNCHANGED <<evs, pending, ids, stray>>
       ELSE /\ calls' = calls \cup {Ask("trigger", NoRun)} /\ Clear
            /\ stray' = (stray \/ runId # NoRun)
    /\ UNCHANGED <<server, page, hook, runId, status>>

ClickCancel ==
    /\ page = "shown" /\ status = "running" /\ runId # NoRun /\ Cardinality(calls) < MaxCalls
    /\ calls' = calls \cup {Ask("cancel", runId)}
    /\ UNCHANGED <<server, page, hook, store, stray>>

\* The answers are applied to the run that is shown by now.
TriggerReturns(c) ==
    /\ c.op = "trigger" /\ c.answered
    /\ CASE ~c.ok -> Rerender(runId, "idle", calls \ {c}, socks)
         [] c.ok /\ c.step = "first" ->
                Rerender(c.run, "running",
                    (calls \ {c}) \cup {[c EXCEPT !.step = "second", !.answered = FALSE]}, socks)
         [] OTHER -> calls' = calls \ {c} /\ UNCHANGED <<hook, runId, status>>
    /\ stray' = (stray \/ (~(c.ok /\ c.step = "second")
                          /\ (~c.live \/ runId # IF c.step = "first" THEN NoRun ELSE c.run)))
    /\ UNCHANGED <<server, page, evs, pending, ids>>

ResumeReturns(c) ==
    /\ c.op = "resume" /\ c.answered
    /\ IF c.ok THEN Rerender(runId, "running", calls \ {c}, socks)
               ELSE calls' = calls \ {c} /\ UNCHANGED <<hook, runId, status>>
    /\ stray' = (stray \/ (c.ok /\ (~c.live \/ runId # c.run)))
    /\ UNCHANGED <<server, page, evs, pending, ids>>

CancelReturns(c) ==
    /\ c.op = "cancel" /\ c.answered
    /\ IF c.ok THEN Rerender(NoRun, "idle", calls \ {c}, socks)
               ELSE calls' = calls \ {c} /\ UNCHANGED <<hook, runId, status>>
    /\ stray' = (stray \/ (c.ok /\ (~c.live \/ runId # c.run)))
    /\ UNCHANGED <<server, page, evs, pending, ids>>

-----------------------------------------------------------------------------
Returns(c) ==
    \/ BackfillReturns(c) \/ PollReturns(c) \/ LoadReturns(c)
    \/ TriggerReturns(c) \/ ResumeReturns(c) \/ CancelReturns(c)

Clicked == clicks < MaxClicks /\ clicks' = clicks + 1

Next ==
    \/ /\ \/ \E r \in Runs : Work(r) \/ Finish(r) \/ Tell(r)
          \/ \E c \in calls : Serve(c) \/ Returns(c)
          \/ \E k \in Slots : Open(k) \/ Message(k) \/ Closed(k)
          \/ Flush \/ Reconnect \/ Poll
       /\ UNCHANGED bounds
    \/ \E k \in Slots : Dropped(k) /\ UNCHANGED clicks
    \/ (Mount \/ Leave \/ ClickRun \/ ClickCancel) /\ Clicked /\ UNCHANGED drops

Spec == Init /\ [][Next]_vars

\* Timers fire, the server answers, answers are handled; requests of the poll do
\* not fail for ever.
FairSpec ==
    /\ Spec
    /\ SF_vars(Poll /\ UNCHANGED bounds)
    /\ WF_vars((\E c \in calls : Serve(c)) /\ UNCHANGED bounds)
    /\ WF_vars((\E c \in calls : Returns(c)) /\ UNCHANGED bounds)
    /\ \A s \in {"first", "second"} :
           SF_vars((\E c \in calls : c.op = "poll" /\ c.step = s /\ Serve(c) /\ ServeRead(c))
                   /\ UNCHANGED bounds)

-----------------------------------------------------------------------------
(* Properties.                                                             *)

\* No event is applied twice, whichever way it came: replayed, live, back-filled
\* or polled (_eventIds), as long as fewer than MAX_EVENT_IDS are known.
NoRepeat == IsInjective(evs \o pending)

\* Unless a late callback interfered, or a run was triggered while another was
\* shown, all that is shown under a run's id is that run's: clearing, hydrating
\* and the guards of the effects suffice (runStore.ts, useWebSocket.ts).
OwnEvents == ~stray /\ runId # NoRun => \A e \in Range(evs \o pending) : e[1] = runId

\* Unless a late callback interfered, there is one live socket at most, the hook
\* can close it, and none is left when the run has ended or the page was left.
OneSocket ==
    ~stray => LET up == {k \in Slots : socks[k].st \in {"connecting", "open"}} IN
              /\ up \subseteq {ref}
              /\ status \in {"completed", "failed"} \/ page = "away" => up = {} /\ ~timer

\* A run that is shown as running and has ended is shown as ended at last, though
\* the events of its end may be lost and a cancelled run has none that count: the
\* fall-back poll.
Settles == \A r \in Runs :
    (runId = r /\ status = "running" /\ srv[r] \in Ended /\ page = "shown")
        ~> (status # "running" \/ runId # r \/ srv[r] \notin Ended \/ page = "away")
=============================================================================
