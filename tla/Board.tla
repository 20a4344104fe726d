------------------------------- MODULE Board -------------------------------
(***************************************************************************)
(* The task board of the editor page: the task store, the tabs of the left *)
(* panel that mount and unmount the board, the search for a run with tasks *)
(* when none is known, the fetching of the tasks of the run that is        *)
(* followed, and the user's work on tasks, shown before the server answers.*)
(*                                                                         *)
(* The board follows currentRunId || runId: the first is the store's own   *)
(* and is set by the page's load, by the socket and by the board itself,   *)
(* the second is the run store's.  Requests are answered and handled in    *)
(* steps of their own; the effects of a change of the stores belong to the *)
(* step that changes them.                                                 *)
(***************************************************************************)
EXTENDS Naturals, Sequences, FiniteSets, Functions

CONSTANTS
    MaxRuns,    \* runs of all workflows
    Foreign,    \* the runs of other workflows, which have ended
    PerRun,     \* tasks of one run
    MaxTitle,   \* titles a task may be given
    MaxCalls,   \* bound on the requests in flight
    MaxClicks,  \* bound on what the user does
    Failing     \* the requests that may fail

Runs == 1 .. MaxRuns
NoRun == 0
Tasks == Runs \X (1 .. PerRun)
RunOf(t) == t[1]
Ops == {"scan", "fetch", "create", "assign", "restart", "update", "send"}

ASSUME BoardAssumption ==
    /\ {MaxRuns, PerRun, MaxCalls, MaxClicks} \subseteq Nat \ {0} /\ MaxTitle \in Nat
    /\ Foreign \subseteq Runs /\ Failing \subseteq Ops

VARIABLES
    \* the server
    rs,       \* [Runs -> "none", "running", "ended"]
    db,       \* [Tasks -> task]
    said,     \* [Tasks -> whether the user's message was received]
    \* the page
    page,     \* "away", "loading", "open"
    view,     \* the tab of the left panel; the tasks tab has two views
    runId, status,  \* of the run store
    current,  \* currentRunId
    tasks,    \* [Tasks -> task] that are shown
    talk,     \* [Tasks -> the user's messages that are shown]
    form,     \* the task that is being edited or assigned
    calls,    \* requests in flight
    clicks    \* what the user has done, up to the bound

server == <<rs, db, said>>
store == <<tasks, talk>>
follow == <<runId, status, current, view>>
vars == <<server, page, follow, store, form, calls, clicks>>

TaskStatuses == {"pending", "assigned", "running", "completed", "failed"}
Task == [st: TaskStatuses \cup {"absent"}, node: BOOLEAN, title: 0 .. MaxTitle]
Absent == [st |-> "absent", node |-> FALSE, title |-> 0]
Views == {"overview", "goal", "topology", "flat"}
Form == [kind: {"none", "edit", "assign"}, task: Tasks, title: 0 .. MaxTitle]
NoForm == [kind |-> "none", task |-> <<1, 1>>, title |-> 0]

\* A request: the run it names, the task, the title or node it carries, and the
\* answer: success, the tasks of the run or the task as it is now.
Request == [op: Ops, step: {"first", "second"}, run: Runs \cup {NoRun}, task: Tasks,
            title: 0 .. MaxTitle, live: BOOLEAN, answered: BOOLEAN, ok: BOOLEAN,
            list: [1 .. PerRun -> Task], heard: [1 .. PerRun -> BOOLEAN]]
None == [n \in 1 .. PerRun |-> Absent]
Ask(op, r, t, title) ==
    [op |-> op, step |-> "first", run |-> r, task |-> t, title |-> title, live |-> TRUE,
     answered |-> FALSE, ok |-> FALSE, list |-> None, heard |-> [n \in 1 .. PerRun |-> FALSE]]
AskList(op, r) == Ask(op, r, <<1, 1>>, 0)

TypeOK ==
    /\ rs \in [Runs -> {"none", "running", "ended"}]
    /\ db \in [Tasks -> Task] /\ said \in [Tasks -> BOOLEAN]
    /\ page \in {"away", "loading", "open"} /\ view \in Views
    /\ {runId, current} \subseteq Runs \cup {NoRun} /\ status \in {"idle", "running", "ended"}
    /\ tasks \in [Tasks -> Task] /\ talk \in [Tasks -> SUBSET {"sent", "local"}]
    /\ form \in Form /\ calls \subseteq Request
    /\ clicks \in 0 .. MaxClicks

Shown(t) == tasks[t] # Absent
Bare == [t \in Tasks |-> Absent]
Silent == [t \in Tasks |-> {}]

Init ==
    /\ rs = [r \in Runs |-> IF r \in Foreign THEN "ended" ELSE "none"]
    /\ db = [t \in Tasks |-> IF RunOf(t) \in Foreign /\ t[2] = 1
                             THEN [st |-> "failed", node |-> TRUE, title |-> 0] ELSE Absent]
    /\ said = [t \in Tasks |-> FALSE]
    /\ page = "away" /\ view = "overview"
    /\ runId = NoRun /\ status = "idle" /\ current = NoRun
    /\ tasks = Bare /\ talk = Silent /\ form = NoForm
    /\ calls = {} /\ clicks = 0

-----------------------------------------------------------------------------
(* The effects.                                                            *)

Followed(c, r) == IF c # NoRun THEN c ELSE r
Board(v) == v \in {"topology", "flat"}
Followed0 == Followed(current, runId)
Polls == page = "open" /\ Board(view) /\ status = "running" /\ Followed0 # NoRun

\* The requests of the effects whose dependencies changed are disowned.
MutDisown(cs) == cs
Disown(cs) == {IF c.op \in {"scan", "fetch"} THEN [c EXCEPT !.live = FALSE] ELSE c : c \in cs}

\* LeftPanel: the tasks tab comes up when a run starts.
TabFor(s2, v) == IF s2 = "running" /\ status # "running" /\ ~Board(v) THEN "topology" ELSE v

\* The store's values after a step, and what the effects of the board do then: a
\* followed run is fetched at once, without one the other runs are searched.
Rerender(c2, r2, s2, v, cs) ==
    LET v2 == TabFor(s2, v)
        f == Followed(c2, r2)
        moved == \/ <<c2, r2, s2>> # <<current, runId, status>>
                 \/ Board(v2) # Board(view) \/ page' # page
        up == page' = "open" /\ Board(v2)
        asks == IF ~moved \/ ~up THEN {} ELSE {AskList(IF f = NoRun THEN "scan" ELSE "fetch", f)}
    IN  /\ current' = c2 /\ runId' = r2 /\ status' = s2 /\ view' = v2
        /\ calls' = (IF moved THEN Disown(cs) ELSE cs) \cup asks
        /\ Cardinality(calls') <= MaxCalls

\* What is left of the form once the tasks are the new ones: its leaf may be gone,
\* and a new title replaces the draft.
FormAfter(new, v) ==
    IF form.kind = "none" \/ v # "flat" \/ new[form.task] = Absent THEN NoForm
    ELSE IF new[form.task].title # tasks[form.task].title
         THEN [form EXCEPT !.title = new[form.task].title] ELSE form

ShowTasks(new) == tasks' = new /\ form' = FormAfter(new, view')

\* setTasks: the list replaces what is shown, of whichever run.
MutMerged(c) == [t \in Tasks |-> IF RunOf(t) = c.run THEN c.list[t[2]] ELSE tasks[t]]
MutKept(c) == [t \in Tasks |->
    IF RunOf(t) # c.run THEN Absent ELSE IF Shown(t) THEN tasks[t] ELSE c.list[t[2]]]
Listed(c) == [t \in Tasks |-> IF RunOf(t) = c.run THEN c.list[t[2]] ELSE Absent]
Any(c) == \E n \in 1 .. PerRun : c.list[n] # Absent

\* setTaskMessages for every task of the list: a local message is replaced, too.
Talks(c) == [t \in Tasks |->
    IF RunOf(t) = c.run /\ c.list[t[2]] # Absent
    THEN (IF c.heard[t[2]] THEN {"sent"} ELSE {}) ELSE talk[t]]

-----------------------------------------------------------------------------
(* Reading.                                                                *)

\* Every three seconds, whether the last fetch was answered or not.
Tick ==
    /\ Polls /\ Cardinality(calls) < MaxCalls
    /\ calls' = calls \cup {AskList("fetch", Followed0)}
    /\ UNCHANGED <<server, page, follow, store, form>>

Drop(c) == calls' = calls \ {c} /\ UNCHANGED <<follow, store, form>>
GoesOn(c) == (calls \ {c}) \cup {[c EXCEPT !.step = "second", !.answered = FALSE]}

\* The tasks are shown if there are any and the effect is still there; artifacts
\* and messages follow; then the run becomes the store's own, whatever happened.
FetchReturns(c) ==
    /\ c.op = "fetch" /\ c.answered
    /\ UNCHANGED <<server, page, clicks>>
    /\ IF ~c.ok \/ (c.step = "first" /\ ~(c.live /\ Any(c))) THEN Drop(c)
       ELSE IF c.step = "first"
       THEN /\ calls' = GoesOn(c) /\ UNCHANGED <<follow, talk>>
            /\ ShowTasks(Listed(c))
       ELSE /\ talk' = IF c.live THEN Talks(c) ELSE talk
            /\ Rerender(IF current = NoRun THEN c.run ELSE current, runId, status, view, calls \ {c})
            /\ ShowTasks(tasks)

\* The search takes the newest run of ANY workflow that has tasks; whether it is
\* still wanted is asked before a request and not after.
ScanReturns(c) ==
    /\ c.op = "scan" /\ c.answered
    /\ UNCHANGED <<server, page, clicks>>
    /\ CASE ~c.ok \/ (c.step = "first" /\ ~c.live) -> Drop(c)
         [] c.ok /\ c.step = "first" /\ c.live ->
                calls' = GoesOn(c) /\ UNCHANGED <<follow, store, form>>
         [] c.ok /\ c.step = "second" /\ ~Any(c) -> Drop(c)
         [] OTHER -> /\ UNCHANGED talk
                     /\ Rerender(c.run, runId, status, view, calls \ {c})
                     /\ ShowTasks(Listed(c))

-----------------------------------------------------------------------------
(* The user's work on tasks.                                               *)

\* What a leaf offers for a task in that state, in the flat view.
CanAssign(t) == tasks[t].st \in {"pending", "failed", "completed"}
CanRestart(t) == tasks[t].st \in {"failed", "completed"}
CanSend(t) == tasks[t].st \notin {"failed", "completed"}
Offers(t) ==
    {"edit"} \cup (IF CanRestart(t) THEN {"restart"} ELSE {})
             \cup (IF CanSend(t) THEN {"send"} ELSE {})
             \cup (IF CanAssign(t) /\ (tasks[t].node \/ tasks[t].st = "pending")
                   THEN {"assign"} ELSE {})

\* Every leaf's handler names the run that is followed now.
Request1(op, t, title) ==
    /\ Followed0 # NoRun /\ Cardinality(calls) < MaxCalls
    /\ calls' = calls \cup {Ask(op, Followed0, t, title)}

Optimistic(t, task) ==
    /\ tasks' = [tasks EXCEPT ![t] = task]
    /\ form' = FormAfter(tasks', view)

Leaf(t) == page = "open" /\ view = "flat" /\ Shown(t)

Restart(t) ==
    /\ Leaf(t) /\ form.kind # "edit" /\ "restart" \in Offers(t)
    /\ Request1("restart", t, 0)
    /\ Optimistic(t, [tasks[t] EXCEPT !.st = IF tasks[t].node THEN "assigned" ELSE "pending"])
    /\ UNCHANGED <<server, page, follow, talk>>

OpenForm(t, kind) ==
    /\ Leaf(t) /\ form.kind = "none" /\ kind \in Offers(t) \cap {"edit", "assign"}
    /\ form' = [kind |-> kind, task |-> t, title |-> tasks[t].title]
    /\ UNCHANGED <<server, page, follow, store, calls>>

Type ==
    /\ form.kind = "edit" /\ form.title < MaxTitle
    /\ form' = [form EXCEPT !.title = @ + 1]
    /\ UNCHANGED <<server, page, follow, store, calls>>

\* handleSaveEdit and handleAssignSubmit.
Submit ==
    /\ form.kind # "none"
    /\ Request1(IF form.kind = "edit" THEN "update" ELSE "assign", form.task, form.title)
    /\ tasks' = [tasks EXCEPT ![form.task] =
                    IF form.kind = "edit" THEN [@ EXCEPT !.title = form.title]
                    ELSE [@ EXCEPT !.st = "assigned", !.node = TRUE]]
    /\ form' = NoForm
    /\ UNCHANGED <<server, page, follow, talk>>

\* Without a run, or with none at work and no task, the board offers nothing.
Create ==
    /\ page = "open" /\ Board(view) /\ ~(status = "idle" /\ tasks = Bare)
    /\ Request1("create", <<1, 1>>, 0)
    /\ UNCHANGED <<server, page, follow, store, form>>

Send(t) ==
    /\ Leaf(t) /\ form.kind # "edit" /\ "send" \in Offers(t)
    /\ Request1("send", t, 0)
    /\ UNCHANGED <<server, page, follow, store, form>>

\* The answer, wherever the user is by now: the task as the server has it replaces
\* the one that is shown, if it is; a created task is added; a message that could
\* not be sent is shown as if it was.
WorkReturns(c) ==
    /\ c.op \in {"create", "assign", "restart", "update", "send"} /\ c.answered
    /\ calls' = calls \ {c}
    /\ IF c.op = "send"
       THEN /\ talk' = IF c.ok THEN talk ELSE [talk EXCEPT ![c.task] = @ \cup {"local"}]
            /\ UNCHANGED <<tasks, form>>
       ELSE /\ UNCHANGED talk
            /\ IF c.ok /\ (c.op = "create" \/ Shown(c.task))
               THEN /\ tasks' = [tasks EXCEPT ![c.task] = c.list[c.task[2]]]
                    /\ form' = FormAfter(tasks', view)
               ELSE UNCHANGED <<tasks, form>>
    /\ UNCHANGED <<server, page, follow, clicks>>

-----------------------------------------------------------------------------
(* The page: the run store's values as the rest of the editor sets them.   *)

OwnRuns == {r \in Runs \ Foreign : rs[r] # "none"}
LatestOwn == IF OwnRuns = {} THEN NoRun ELSE CHOOSE r \in OwnRuns : \A q \in OwnRuns : q <= r

\* The editor is mounted, then its load has found the last run or none.
Enter ==
    /\ page = "away" /\ page' = "loading"
    /\ UNCHANGED <<server, follow, store, form, calls>>

Loaded ==
    /\ page = "loading" /\ page' = "open"
    /\ Rerender(LatestOwn, LatestOwn, IF LatestOwn = NoRun THEN "idle" ELSE rs[LatestOwn],
                "overview", calls)
    /\ IF LatestOwn = NoRun THEN ShowTasks(Bare) /\ talk' = Silent
                            ELSE ShowTasks(tasks) /\ UNCHANGED talk
    /\ UNCHANGED <<server, clicks>>

Leave ==
    /\ page \in {"loading", "open"} /\ page' = "away"
    /\ Rerender(NoRun, NoRun, "idle", "overview", calls)
    /\ tasks' = Bare /\ talk' = Silent /\ form' = NoForm
    /\ UNCHANGED <<server>>

SelectTab(v) ==
    /\ page = "open" /\ v # view /\ UNCHANGED page
    /\ Rerender(current, runId, status, v, calls)
    /\ ShowTasks(tasks)
    /\ UNCHANGED <<server, talk>>

\* The toolbar has started a run; its socket opens some time later; its end is seen.
Started ==
    /\ page = "open" /\ status # "running" /\ UNCHANGED page
    /\ \E r \in Runs \ Foreign :
          /\ rs[r] = "none" /\ \A q \in Runs \ Foreign : q < r => rs[q] = "ended"
          /\ rs' = [rs EXCEPT ![r] = "running"]
          /\ Rerender(current, r, "running", view, calls)
    /\ ShowTasks(tasks)
    /\ UNCHANGED <<db, said, talk>>

SocketOpens ==
    /\ page = "open" /\ status = "running" /\ current # runId /\ UNCHANGED page
    /\ Rerender(runId, runId, status, view, calls)
    /\ ShowTasks(tasks)
    /\ UNCHANGED <<server, talk, clicks>>

EndSeen ==
    /\ page = "open" /\ status = "running" /\ rs[runId] = "ended" /\ UNCHANGED page
    /\ Rerender(current, runId, "ended", view, calls)
    /\ ShowTasks(tasks)
    /\ UNCHANGED <<server, talk, clicks>>

\* The toolbar's Cancel was accepted: the run store forgets the run, the board
\* does not if the run is its own.
Cancelled ==
    /\ page = "open" /\ status = "running" /\ UNCHANGED page
    /\ Rerender(current, NoRun, "idle", view, calls)
    /\ ShowTasks(tasks)
    /\ UNCHANGED <<server, talk>>

-----------------------------------------------------------------------------
(* The server.                                                             *)

RunEnds(r) ==
    /\ rs[r] = "running" /\ rs' = [rs EXCEPT ![r] = "ended"]
    /\ UNCHANGED <<db, said, page, follow, store, form, calls, clicks>>

\* A task that was started in the background is done.
TaskDone(t) ==
    /\ db[t].st = "assigned"
    /\ \E st \in {"completed", "failed"} : db' = [db EXCEPT ![t].st = st]
    /\ UNCHANGED <<rs, said, page, follow, store, form, calls, clicks>>

Answer(c, d) == calls' = (calls \ {c}) \cup {[d EXCEPT !.answered = TRUE]}
Refuse(c) == Answer(c, [c EXCEPT !.ok = FALSE]) /\ UNCHANGED server

\* What the handler of the request makes of the task.
Change(c, task) ==
    CASE c.op = "create" -> [st |-> "pending", node |-> FALSE, title |-> 0]
      [] c.op = "assign" -> [task EXCEPT !.st = "assigned", !.node = TRUE]
      [] c.op = "restart" -> [task EXCEPT !.st = IF task.node THEN "assigned" ELSE "pending"]
      [] c.op = "update" -> [task EXCEPT !.title = c.title]
Allowed(c, task) ==
    /\ RunOf(c.task) = c.run /\ task # Absent
    /\ c.op \in {"assign", "restart"} => task.st \in {"pending", "failed", "completed"}

ServeWork(c, t) ==
    /\ db' = [db EXCEPT ![t] = Change(c, db[t])]
    /\ Answer(c, [c EXCEPT !.ok = TRUE, !.task = t,
                           !.list = [@ EXCEPT ![t[2]] = Change(c, db[t])]])
    /\ UNCHANGED <<rs, said>>

WithTasks == {r \in Runs : \E n \in 1 .. PerRun : db[<<r, n>>] # Absent}
Newest == CHOOSE r \in WithTasks : \A q \in WithTasks : q <= r

Serve(c) ==
    /\ ~c.answered
    /\ \/ c.op \in Failing /\ Refuse(c)
       \/ /\ c.op = "fetch" \/ (c.op = "scan" /\ (c.step = "first" \/ WithTasks = {}))
          /\ Answer(c, [c EXCEPT !.ok = TRUE,
                 !.list = IF c.op = "fetch" THEN [n \in 1 .. PerRun |-> db[<<c.run, n>>]] ELSE @,
                 !.heard = IF c.op = "fetch" THEN [n \in 1 .. PerRun |-> said[<<c.run, n>>]] ELSE @])
          /\ UNCHANGED server
       \/ /\ c.op = "scan" /\ c.step = "second" /\ WithTasks # {}
          /\ Answer(c, [c EXCEPT !.ok = TRUE, !.run = Newest,
                                 !.list = [n \in 1 .. PerRun |-> db[<<Newest, n>>]]])
          /\ UNCHANGED server
       \/ /\ c.op = "create"
          /\ \E n \in 1 .. PerRun : /\ db[<<c.run, n>>] = Absent
                                    /\ \A m \in 1 .. n - 1 : db[<<c.run, m>>] # Absent
                                    /\ ServeWork(c, <<c.run, n>>)
       \/ /\ c.op = "create" /\ \A n \in 1 .. PerRun : db[<<c.run, n>>] # Absent
          /\ Refuse(c)
       \/ /\ c.op \in {"assign", "restart", "update"}
          /\ IF Allowed(c, db[c.task]) THEN ServeWork(c, c.task) ELSE Refuse(c)
       \/ /\ c.op = "send"
          /\ IF Allowed(c, db[c.task])
             THEN /\ said' = [said EXCEPT ![c.task] = TRUE]
                  /\ Answer(c, [c EXCEPT !.ok = TRUE]) /\ UNCHANGED <<rs, db>>
             ELSE Refuse(c)
    /\ UNCHANGED <<page, follow, store, form, clicks>>

-----------------------------------------------------------------------------
Returns(c) == FetchReturns(c) \/ ScanReturns(c) \/ WorkReturns(c)

Clicks ==
    /\ clicks < MaxClicks /\ clicks' = clicks + 1
    /\ \/ Enter \/ Leave \/ Started \/ Cancelled \/ Create \/ Type \/ Submit
       \/ \E v \in Views : SelectTab(v)
       \/ \E t \in Tasks : Restart(t) \/ Send(t) \/ OpenForm(t, "edit") \/ OpenForm(t, "assign")

Next ==
    \/ Clicks \/ Loaded \/ SocketOpens \/ EndSeen
    \/ Tick /\ UNCHANGED clicks
    \/ \E c \in calls : Serve(c) \/ Returns(c)
    \/ \E r \in Runs : RunEnds(r)
    \/ \E t \in Tasks : TaskDone(t)

Spec == Init /\ [][Next]_vars

\* The interval ticks, requests are answered and their answers handled; the lists
\* of tasks that are fetched are not all refused.
Listing(c) == c.op = "fetch" /\ c.step = "first"
FairSpec ==
    /\ Spec
    /\ SF_vars(Tick /\ UNCHANGED clicks)
    /\ WF_vars(\E c \in calls : Serve(c))
    /\ WF_vars(\E c \in calls : ~(Listing(c) /\ c.ok) /\ Returns(c))
    /\ WF_vars(\E c \in calls : Listing(c) /\ c.ok /\ Returns(c))
    /\ SF_vars(\E c \in calls : Listing(c) /\ Serve(c) /\ \E d \in calls' \ calls : d.ok)

-----------------------------------------------------------------------------
(* Properties.                                                             *)

\* A task that was not shown comes up only on the board that follows its run (the
\* `cancelled' flag of fetchTasks), or in answer to its own creation, which the board
\* takes wherever it has moved.
NewOnesOwn == [][\A t \in Tasks :
    ~Shown(t) /\ tasks'[t] # Absent =>
        \/ RunOf(t) = Followed(current', runId')
        \/ \E c \in calls \ calls' : c.op = "create" /\ c.task = t]_vars

\* While the board polls, a task that differs from the server's is shown as it is
\* there at last: whatever was shown too early, refused or overtaken.
CatchesUp == \A t \in Tasks :
    (Polls /\ Followed0 = RunOf(t) /\ db[t] # tasks[t])
        ~> (~Polls \/ Followed0 # RunOf(t) \/ db[t] = tasks[t])

\* While the board polls a run that has tasks, what it still shows of another run,
\* the one before or the one a search has found, goes at last: an answer that
\* lists none leaves the old tasks, and a late one may bring them back.
OnlyItsOwn == \A r \in Runs :
    (Polls /\ Followed0 = r /\ \E t \in Tasks : RunOf(t) = r /\ db[t] # Absent)
        ~> (~Polls \/ Followed0 # r \/ \A t \in Tasks : Shown(t) => RunOf(t) = r)

\* What does not hold: an empty list of a new run leaves the tasks of the one before
\* (`fetched.length > 0'), so that the tasks of two runs stand side by side; and a
\* search that goes on over awaits turns away a board that follows a run by now.
OneRun == \A t, u \in Tasks : Shown(t) /\ Shown(u) => RunOf(t) = RunOf(u)
NotTurnedAway == [][\A c \in calls :
    ScanReturns(c) /\ current' # current => Followed0 = NoRun]_vars
=============================================================================
