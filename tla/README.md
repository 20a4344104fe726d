# A verification project for Multi-Agent Studio

Multi-Agent Studio runs a software project by letting a *planner* model decide one
step at a time and letting *agents* (coder, explorer, shell) carry the steps out in
a sandbox copy of the user's directory. This directory holds TLA+ modules translated
from its source, TLC configurations that check them on small instances, and proofs
checked by TLAPS. Paths below are relative to `src/apps/orchestrator/app/` unless they
say otherwise. (`src/README.md` still describes an earlier architecture -
`local_engine.py`, `task_scheduler.py`, a DAG compiler - none of which exists any
more; everything here is translated from the code.)

## 1. Inventory

| Component | State it keeps | Operations | Talks to |
|---|---|---|---|
| **Director loop** `core/director_loop.py`, `director_tools.py`, `world_model.py` | `_runs[run_id]` (status, task, cancel event); per activation the locals of `_dispatch_loop` and a `WorldModel` | `start_run`, `cancel`, `get_status`, `recover_interrupted_runs`, the loop itself (ask the planner, run an agent, review, commit, checkpoint, finish) | database, sandbox, node runner, event bus |
| **Run API** `api/runs.py`, `core/database.py` | the row `runs` (status, checkpoint_json) | trigger, get, list, cancel, resume, approve/reject, diff, merge, rollback | director loop, database |
| **Event bus and WebSocket hub** `core/local_bus.py`, `ws/hub.py` | per channel a buffer of 200 events and a list of callbacks; per run a list of clients, one subscription, clean-up timers | publish, subscribe (replay), unsubscribe; connect, disconnect, broadcast, delayed clean-up | browser |
| **Node and agent runner** `core/node_runner.py`, `agent_runner.py`, `agent_llm.py`, `agent_tools.py` | the message list, counters of turns, retries, self reviews; a snapshot of the workspace | one agent's turn loop: LLM call with retries, tools, self review, result parsing | sandbox, LLM, event bus |
| **Sandbox** `core/local_sandbox.py`, `sandbox/checkpoint.py` | `_sandboxes`, `_last_sync_back`, the directories themselves, a git repository per sandbox | create, clone, re_register, sync_back, destroy, read/write/exec; init, auto_commit, merge, rollback, diff | the user's directory |
| **Planner chat** `api/planner_chat.py`, `planner_tools.py` | chat messages, the draft DAG, the stage of the conversation | streamed answers, tool calls, DAG validation and repair | LLM, database |
| **Task board** `api/tasks.py`, `models/task.py` | task rows, their status and dependencies | list, assign, restart, edit, topology | director loop, event bus |
| **Workflows, settings, models, documents, artifacts, workspace** `api/*.py` | rows and files | CRUD | database, disk |
| **Web client: run view** `src/apps/web/src/stores/runStore.ts`, `hooks/useWebSocket.ts`, `Toolbar.tsx` | the run, its status, its events with their known ids and the batch that waits for a frame; one socket, its timers | load, connect with back-off, back-fill, poll, de-duplicate; Run, Resume, Cancel | run API, hub |
| **Web client: task board** `taskStore.ts`, `TaskBoard.tsx` | the tasks of a run, shown before the server has confirmed them | find a run with tasks, poll, create, edit, assign, restart, message | task board |
| **Web client: editor** `workflowStore.ts`, `WorkflowEditor.tsx`, `Toolbar.tsx` | the plan on the canvas, name, goal, directory, the armed autosave | load, autosave, save, run, take over the chat's plans | workflows |
| **Web client: planner chat** `PlannerChatTab.tsx`, `plannerChatStore.ts` | the messages of the selected conversation, one streaming flag, one abort controller | load a history, send and read a stream, stop | planner chat |
| **Web client: settings** `settingsStore.ts`, `SettingsModal.tsx`, `ModelSelector.tsx` | the settings, numeric drafts, the form that fetches models, the log that is shown | load, save, fetch, add, test, follow the log | settings |
| **Web client: files, output, layout** `FileBrowserPanel.tsx`, `DirectoryPicker.tsx`, `OutputPanel.tsx`, `LLMOutput.tsx`, `layoutDagNodes` of `workflowStore.ts` | tree and tabs; the panel's tab, size and filter | list, open, validate; open and turn by itself; group an agent's output; lay out a plan | workspace, run store |
| **Start-up** `main.py`, `launcher.py`, `config.py`, `debug_logger.py` | - | schema migration, wiring, recovery, shutdown | everything |

What is hard here is that the program is one asyncio process in which nothing is
locked. Every `await` is a point where a handler, another activation or the hub may
run; a handler reads a row, awaits, and writes back what it read; an activation is
cancelled by a flag that it looks at between agents; a run's sandbox is a directory
whose name is a function of the run, so that two activations of one run share it; the
process may be killed or shut down anywhere and starts again from what the row and the
disk say. The hazards are listed, at their lines, in `PROJECT.json`.

What makes each component correct:

- *Director loop*: no unreviewed coder's work is committed; cancellation takes effect
  within one agent; a run has one activation at a time; its row ends in what the
  activation decided; a checkpoint is never overwritten by an older one; a run that did
  not end cleanly can be resumed; every activation ends.
- *Bus and hub*: a connected client gets each event of its run once and in order, also
  the events published before it came; nobody's subscription is dropped while it is
  connected.
- *Node and agent runner*: the turn loop ends within its limits; "completed" is
  reported only when the reviews it is configured for passed.
- *Sandbox*: what the user changes is not overwritten by an agent that did not change
  it; work that was synced is not lost by clean-up; a checkpoint can be returned to.
- *Planner chat*: the DAG that is saved is acyclic and references only its own nodes.
- *Run view*: an event is shown once and under its own run; one socket at most, none that
  nobody can close; a run that ended is shown as ended at last.
- *Task board*: a task comes up on its own run's board or for who created it; what is shown
  becomes what the server has, and of one run.
- *Editor*: a workflow is saved with its own plan; a shown page and the server never come apart
  for good, and agree when the user rests.
- *Planner chat*: a conversation shows its own messages and loses no turn.
- *Settings, files, output*: what is shown is not overtaken by an older answer; the panel
  does not push the user about; output is grouped without losing or reordering any of it.

## 2. Modules and plan

| Module | What | Section |
|---|---|---|
| `DirectorRun`, `RunActivation`, `MCDirectorRun`, `DirectorRun_proofs` | one run: activations, handlers, process; the promise of one activation | 3 |
| `RunStream`, `EventFeed`, `MCRunStream`, `RunStream_proofs` | the way of a run's events to the browsers; the feed of a lone connection | 4 |
| `Workspace`, `MCWorkspace` | the user's directory, sandboxes, containers, merges, syncs, commits | 5 |
| `AgentRun` | one agent's turn loop and self review | 6 |
| `Agents_proofs` | proofs about both | 15 |
| `RunView`, `MCRunView`, `RunView_proofs` | the browser's view of a run | 7 |
| `Board`, `Board_proofs` | the task board, page and server | 8 |
| `EditorPage`, `EditorPage_proofs` | the editor and the rows it writes | 9 |
| `ChatPage` | the planner chat | 10 |
| `SettingsDialog`, `ModelsForm`, `DebugLog` | the settings dialog and the model selector | 11 |
| `FilePanel`, `OutputPanel`, `LLMOutput`, `DagLayout` | the other panels and the layout of a plan | 12 |
| `MCPages` | the instance of sections 10 to 12 | 13 |
| `Panels_proofs` | proofs about `ChatPage`, `SettingsDialog`, `ModelsForm`, `OutputPanel`, `DagLayout` | 15 |
| `Filters` | `Without`, the filtering of a list, and lemmas about lists | 15 |

`DirectorRun` implements `RunActivation` and `RunStream` implements `EventFeed` (the refinement
mapping is at the end of each module). The web modules do not extend the server's: what a page can
tell of the server - statuses, logs, rows, the order of answers - is a few variables of the
page's module, so that the page meets everything the server could answer.

Left, in this order:

1. `ModelClient` and `AgentTools`: the conversion of conversations between providers, path
   containment, the replacers of the edit tool, as operators against reference definitions.
2. The server's side of the planner chat: the stages of a conversation, its rounds of tool
   calls, the repair and validation of plans.
3. Rollback, diff, merge and clone of a workspace; approve and reject.
4. The list of workflows and the access gate of the web client.
5. Proofs: the safety half of what `LogsFollow` and `PanelSettles` say.

Every module declares its parameters as constants with a named assumption, has one action
per operation between two awaits (on the page: per event of the browser, the effects that
React runs for it included), and avoids recursive operators, so that it can be proved
about. A component's proofs are in a module of their own (`*_proofs`). Operators whose name
begins with `Mut` are mutated forms of the definition that follows them; no specification
uses them, they are there to show that each property can fail.

## 3. DirectorRun: one run

### State

| Variable | Code |
|---|---|
| `status`, `ckpt` | columns `status` and `checkpoint_json` of the run's row; of the checkpoint only `checkpoint_iteration`, -1 for none |
| `cur`, `est` | `DirectorLoop._runs[run_id]`: which activation's entry it is, and its `status` |
| `lp[l]` | activation `l`'s program counter, its cancel event `ev`, whether its sandbox id is set, its outcome, `clean_finish`, whether it is in an exception handler; `late` is a history variable: agents started after the event was set |
| `wd[l]` | locals and world model: iteration, laps of the loop, `consecutive_no_decision`, kind of step, review attempt, last verdict |
| `src[l]` | `resume_from` and `sandbox_existed` as given to `start_run` |
| `dir`, `reg` | does `ws-director-<run>` exist on disk, and in `LocalSandbox._sandboxes` |
| `req[r]` | a request in flight and what it has read |
| `mode`, `stops` | the server process |
| `decided` | history: the outcomes that activations reached |

Each activation is a sequence of steps between awaits: `Boot`/`BootFails`, the top of
the loop (`TopCancelled`, `TimeLimit`, `Ask`), the planner's answer (`NoDecision`,
`DecideEnd`, `DecideUnknown`, `DecideStep`), the agent's (`WorkReturns`,
`AgentRaises`), the review loop (`Gate`, `ReviewReturns`, `ReworkReturns`), `Commit`,
`Save`/`SaveFailed`, and the ending: `_finish_run` is its synchronous part
(`FinishRun`), the write of the row (`WriteOutcome`) and the `finally` block
(`Cleanup`). A handler is its `SELECT` and first test (`...Select`), the engine call,
and the commit. `Crash`, `Shutdown`, `Exit` and `Restart` are the process; `Shutdown`
delivers asyncio's `CancelledError` to every task, wherever it is.

Abstractions: one run (runs meet only in SQLite's write lock and in the user's
directory, which `Workspace` models); the answers of planner, reviewer and agents
are choices; a `SELECT` followed by a commit in a session of its own
(`_update_run_status_db`) is one step, because the write is last-wins whatever was
read; SQLite's write lock is modelled where a handler holds it over other steps
(`resume_run`, from its flush to its commit: `Unlocked`); `destroy` is one step;
events and chat messages have no effect on this state and are left out, as is
`auto_commit`.

### Runs

| Run | Question | Bounds |
|---|---|---|
| `run_safety` | review gate, cancellation bound, outcomes, checkpoints, and that each activation implements `RunActivation` (`ReviewGate`, `CancelBound`, `NoInventedOutcome`, `CheckpointMonotone`, `RefinesActivation`) | 2 interchangeable requests (cancel, get), 2 activations, 2 laps, 1 stop, 2 review attempts, every write may fail |
| `run_one_client` | is there never more than one activation at work, and none under a row that says it ended, when one client at a time cancels and resumes (`OneDispatcher`, `TerminalMeansStopped`)? | 1 request, 3 activations, 1 stop, every write may fail |
| `run_live` | does every activation end, and every running row settle, though outcomes and checkpoints may fail to be written (`EveryLoopEnds`, `RunSettles`)? | 1 request (get, resume), 2 activations, 2 laps, 1 stop, fair polling |

`FailingWrites` names the writes of the row that may fail; that of recovery does not in
`run_live`, as nothing repeats a recovery before the next start.

Two requests suffice for every race of two handlers with each other and an activation;
a third would only queue at the same lock. Three activations are a first, its
successor, and the successor of a successor that is still ending. Two laps let a step
fail or be cancelled after another was saved; two review attempts give a rejected
review before a last one. `CHECK_DEADLOCK FALSE` because a server whose run has ended
and whose bounds are used up rightly has nothing to do.

### Fairness

`LoopStep(l)` and `HandlerStep(r)` are weakly fair: everything they await returns - LLM
calls and tools have timeouts, the agent a limit of turns, SQLite a busy timeout - and
asyncio runs every ready callback. `Exit` is fair because a stopping server waits only
for its tasks. Nothing is assumed of users, crashes or restarts, and of the choices
inside a step (the planner may answer "unknown action" for ever: `max_duration` ends
it, `TimeLimit`). `PolledSpec` adds that the page polls (`useWebSocket.ts`).

## 4. RunStream: the events of a run

`InProcessEventBus.publish` appends to the channel's buffer and awaits every callback;
every callback is the hub's `broadcast`, which awaits a send to every connection.
`subscribe` replays a snapshot of the buffer through the callback, awaiting it per event,
and only then registers it. A client that leaves the list empty starts a `_cleanup_run`
task, which sleeps under a per-run lock and then looks again.

| Variable | Code |
|---|---|
| `published`, `subs` | `_buffers[channel]` (the last `MAX_BUFFER` numbers up to `published`) and `_subscribers[channel]` (all its callbacks do the same) |
| `pub[p]` | the broadcasts that publisher `p`'s `publish` awaits, each with the connections it took |
| `conns`, `hb` | `_connections[run]`, `_heartbeat_tasks[run]` |
| `hand[c]` | the endpoint of connection `c` inside `hub.connect`: replaying, waiting for the lock, receiving |
| `clean`, `lock` | the `_cleanup_run` tasks and which lock object `_cleanup_locks[run]` is |
| `sock`, `seen`, `due` | the peer, what it was sent, and (history) what it should get |

`Publish`, `Begin`/`End` (a broadcast around its gather), `ConnectFirst`, `Replay`/
`ReplayEnd`, `Register`, `Unlock`, `ConnectLater`, `Receive`, `Leave`, `Heartbeat` and
`Cleanup` are the pieces between awaits. `End` models the code's `zip` of results with the
list as it is by then, and `Disconnect` its `ValueError` for a connection that is not in it.
One timing assumption is made and named: `GraceOver`, that the five seconds of grace
outlast a replay that has nobody left to send to. The 60 s rule for silent peers is left
out (a peer that is gone is found by a failed send or ping), and so is `close()`.

| Run | Question | Bounds |
|---|---|---|
| `stream_safety` | is everybody connected served (`Served`) and sent what is broadcast (`Delivered`); do subscriptions and heartbeats go when nobody watches (`CleanedUp`)? | 2 connections, buffer 2, 2 events, fair |
| `stream_feed` | does a lone connection get an `EventFeed` (`RefinesFeed`)? | 1 connection, buffer 2, 7 events: the buffer overflows and a replay can fall behind it |

Two connections are one that leaves and one that comes in its grace period, or beside it. Fairness (`FairSpec`): sends return because uvicorn's own pings end those to a
hung peer, a clean-up's sleep ends, and asyncio runs what is ready; nobody has to come,
leave or publish, and the heartbeat is not assumed to find anybody.

## 5. Workspace: the files and their copies

A version of a file is its modification time, its author and one bit of its size - what
`_sync_changed_files` compares; every copy keeps the time (`shutil.copy2`). `user` is the
project directory, `work[s]` the workspace of sandbox `s`, `box[h][n]` the container of
node `n` under the `.mas` of `h`. A director's `.mas` is a link to the user's, so that its
containers survive its sandbox and are shared by the runs of a directory; a restarted
task's is its own (`Home`). `st[s]` is where the activation or task is (agent at work,
merge, sync, final sync, close), `recent[s]` the debounce, `git[s]` what the two git
directories hold. History: `st[s].wrote` is what the agent wrote in this step, `done[s]` what the
steps that completed wrote themselves, `half` the writes that no completed step stands behind: a
write leaves `half` when a step of the same node ends well with it in its container, because that
agent had it before it.

| Run | Question | Bounds |
|---|---|---|
| `ws_safety` | what a step left half done leaves its container only with a later step of its node that completes (`NothingHalfDone`); nothing a run completed is lost (`Kept`); later steps build on earlier ones (`StepsBuildOn`) | 2 files, 2 nodes with a file each, one run, one restarted task, 3 writes, 1 crash; no quick steps, no failing copies |

Three writes are a file, the user's change of it, and a second step's: 6.4 million states. A merge
copies the whole container, so that a step that writes nothing and ends well carries out what a
failed one before it left there: `OnlyFinishedWork`, which asks that each file was written by a step
that completed, does not hold (section 14); `NothingHalfDone` is what does. `ws_safety` holds
for nodes that write different files, for a single run on the directory, for steps that take
more than the debounce's two seconds (`Quick`) and for copies that succeed (`IOMayFail`); the
counterexamples of section 14 show that each of these is necessary.

Merge and sync are one step each (they do not await between files). Left out: deletions -
no copy the code makes removes a file -, `clone`, rollback and diff, and the fall-back that
copies `.mas` when linking fails. The runs assume that a workspace directory is set and
that agents write below their container.

## 6. AgentRun: one agent

`at` is the await or loop head that `AgentRunner.run` is at, `phase` the work or the self
review (the same loop with other limits and exits), `turn` and `attempt` the loop
counters, `talk` the messages (role, and number of tool calls or results), `ok`,
`changed`, `claims` the parts of `AgentResult`, `cancel` the event; `why`, `late`, `worked` (how and
with which turn the work ended) and `since` (where the cancellation came) are history. Every exit of the loop is an action: `LastTurn`, `HearCancel`, `Inactive`,
`Transient` (retried up to `LLM_MAX_RETRIES` times), `Refused`, `Broken` (exceptions that
`agent_llm.py` does not map), `Says`, `StopTools`. `Over` is what follows `_run_loop`: the
self review or the end; an exception in either phase is `Raise`, a failed node.
`Inactive` is there because the code has it, although every turn's last act is an emit that
has just reset the clock.

`agent_safety` (3 turns, 2 review turns, 2 retries, 2 tool calls in one answer) checks
`Conversation`, `Earned`, `CancelBound` and, under fairness, `Ends`; the counters are compared with
their limits only, so that small limits take every branch. `Earned` speaks of every end, also of one
in the review, by what the work before it came to: a cancellation in the middle of the work is never
reported as a success, one in the very turn with which the work ends, or in the review, may be. Fairness: every await ends, by httpx's
time-outs (15 s to connect, 300 s to read) and the shell tool's 120 s.

The paths of sections 7 to 13 are relative to `src/apps/web/src/`. The pages have one pattern
in common, which all their modules follow: a request is *sent*, *answered* by the server in
one step (with what its rows say at that moment, or with a failure), and *handled* by the page
in another, so that answers are stale, late and out of order; a change of a store and the
effects that React runs for it are one step, since no other event of the browser comes
between. Where the code remembers that a request is no longer wanted (`cancelled`, an aborted
controller, a request number), so does the record of the request. A history variable `stray`
records that a callback which the code does not hold back has changed what is not its own:
the properties below that say "unless a late callback interfered" are about everything else,
and section 14 shows the late callbacks.

## 7. RunView: the browser's view of a run

`runStore.ts`, `useWebSocket.ts`, the loading of `WorkflowEditor.tsx` and the toolbar's Run,
Resume and Cancel. `socks` are the WebSocket objects (one that was replaced still delivers
its close event), `ref`, `timer`, `manual`, `polling` the hook's refs; `runId`, `status`,
`evs`, `pending`, `ids` the store; `srv`, `log`, `latest` what the page can tell of the
server. An event is a run and its place in that run's log.

| Actions | Code |
|---|---|
| `Mount`, `LoadReturns` (two requests), `Leave` | the load effect of the editor and its clean-up |
| `ClickRun`, `ClickCancel`, `TriggerReturns`, `ResumeReturns`, `CancelReturns` | the toolbar |
| `Open`, `Message`, `Closed`, `Dropped`, `Reconnect`, `BackfillReturns` | the socket's life, back-off and back-fill |
| `Poll`, `PollReturns` | the fall-back poll, two requests in a row |
| `Flush`, `Merge`, `Apply`, `Trimmed` | batching, de-duplication and the forgetting of ids |
| `Work`, `Finish`, `Tell`, `Serve` | the server: events, ends, statuses, answers |

| Run | Question | Bounds |
|---|---|---|
| `view_safety` | is no event applied twice (`NoRepeat`), nothing shown under another run (`OwnEvents`), and one socket at most open, which the hook can close (`OneSocket`)? | 2 runs, 2 events each, 2 requests in flight, 2 sockets, 1 lost connection, 4 clicks, nothing fails |
| `view_live` | is a run that ended shown as ended at last (`Settles`)? | 3 events, 1 request at a time; the poll and Cancel may fail |

Two runs and two sockets are one and its successor; two requests in flight suffice for one
answer to overtake another; four clicks open the page, start a run, leave and come back. The
batch limit of 2 makes both kinds of flush happen; `MAX_EVENT_IDS` is above the number of
events, as 5000 is meant to be above a run's (section 14 shows what happens when it is not). Fairness of `FairSpec`: the poll's timer fires (strongly,
as the page may leave and come back), requests are answered and answers handled, and the
poll's requests are not refused for ever; nothing is assumed of the socket.

`stray` is also set when Run triggers a new run while one is shown that has not ended (a run that
is being cancelled, for instance): its socket goes on filling the store
that the click has emptied, and the new run then stands over the events of both. `OwnEvents` also
supposes that runs are started with the button, which is disabled while its request is under way,
and not with the key, which is not (`Keyboard`; section 14).

Left out: progress summaries, the planner's decisions, the tree of child nodes, the label of
the phase.

## 8. Board: the task board

`taskStore.ts`, `TaskBoard.tsx` and the handlers of `api/tasks.py` as the page meets them. `rs`,
`db`, `said` are the server's runs, tasks and messages; `page`, `view`, `runId`, `status`,
`current` decide which run is followed; `tasks` and `talk` are what is shown, `form` what is
being edited, `calls` the requests. `Tick`, `FetchReturns` and `ScanReturns` are the interval,
the list that it fetches (and the second request that follows) and the search of the newest
run with tasks; `Create`, `Restart`, `Submit`, `Send` change what is shown before the server
answers (`WorkReturns`); `ServeWork` is what the server makes of each; the other actions are the
page, the toolbar and the runs around it.

| Run | Question | Bounds |
|---|---|---|
| `board` | does a task come up only on its run's board or in answer to its creation (`NewOnesOwn`), is every difference from the server made up (`CatchesUp`), and does what is shown of another run go (`OnlyItsOwn`)? | 2 runs, the first of another workflow and ended; 1 task each with 2 titles, 2 requests in flight, 5 clicks; fetches and restarts may be refused |

A foreign run is there because the search takes the newest run of *any* workflow. Five clicks
are opening the board, two changes and two moves of the page. That the tasks shown together are of
one run is no invariant (`OneRun`, section 14): a list that is empty leaves the tasks that are shown,
a created task is put beside whatever is, and a late search brings a run nobody follows.
`OnlyItsOwn` says that this passes, on a board that polls a run that has tasks. Fairness: the interval ticks
(strongly: it is cleared and set again), requests are answered and handled, and the lists that
are fetched are not all refused. Left out: artifacts, descriptions, the drawing of the topology.

## 9. EditorPage: the editor and its writes

`workflowStore.ts`, `WorkflowEditor.tsx`, the toolbar's Save and Run, `api/workflows.py`'s
`update_workflow`. `db` are the rows, `store` what the page holds (it outlives the page), `timer`
the armed autosave with the plan it has captured, `calls` the requests in the order they were
sent. `Open`, `LoadAnswer`, `Leave` are the page; `Armed` is the effect that arms the autosave
and `Autosave` its expiry; `EditNode`, `Rename`, `TypeGoal`, `ChooseDirectory`, `Save` (two
writes), `Run`, `Draft` and `Commit` (the plan that the chat puts into the same store) are what
changes it; `Update` with `Protected` is the server's handler.

| Run | Question | Bounds |
|---|---|---|
| `editor` | is a workflow saved with its own plan (`OwnPlan`), does nothing put a shown page and the server apart for good (`NeverApart`), and do they agree when the user rests (`Converges`)? | 2 workflows, 2 plans or names, 2 requests in flight, 2 visits, 2 clicks; a load, its runs, Run and the read after it may fail, writes of a plan and rereads do not; writes are handled in the order they are sent |

Two visits are a workflow and another one, with the first one's timer and answers still under
way. Fairness: requests are served and handled, timers expire. `InOrder` is an assumption: HTTP
requests of one page may overtake each other, and then an older autosave is the last (section
14). So is that a write of a plan does not fail: the code logs a failed autosave and does not repeat
it. `NeverApart` says of a page that is *shown* that its plan is armed, or underway behind no other
plan, or the server's, or that the server's is being read; it is about what the page shows, not about
every edit: a stale answer may take an edit back, on the page and then on the server, and leaving the
page within the autosave's two seconds loses it (`LeftSaved`, section 14). Left out: dragging and selecting, the fields of a node, versions.

## 10. ChatPage: the planner chat

`PlannerChatTab.tsx`, `plannerChatStore.ts` and the order of `generate()`'s events and commits in
`api/planner_chat.py`. A conversation is a workflow and a node. `streams[s]` is the stream of the
`s`-th message: the server's progress `n`, the handler's `read` and where it awaits (`at`),
whether it was `cut` by Stop. `Effect` is the effect that loads the history of the selected
conversation, run after every change of what it depends on; `Send`, `Respond`, `Read`, `Got`,
`LoopEnds`, `Throws` are `handleSend` between its awaits, `Stop`, `Select`, `Show` and `Hide` the
user. `OwnMessages`, `TurnKept` and `ChatSettles` are checked by the run `pages`.

## 11. SettingsDialog, ModelsForm, DebugLog

`SettingsDialog` is `settingsStore.ts` with its request numbers, the dialog's tabs and numeric
drafts, and `ModelSelector.tsx`; the other settings than the model are one value, the server
counts its changes, and `NeverBack` says that the store never returns to an older count.
`ModelsForm` is the models tab's form: the endpoint that is asked, the list it answers with, the
models that are added from it. `DebugLog` is the debug tab's reads, levels, interval and clearing;
reads are a set, as two alike that are answered alike change nothing.

## 12. FilePanel, OutputPanel, LLMOutput, DagLayout

`FilePanel` is `FileBrowserPanel.tsx` with `DirectoryPicker.tsx`: which workspace the tree, the
folder, the tabs and the verdict on the typed path come from. Nothing compares an answer with what
is shown when it comes, so that `PanelSettles` assumes answers in the order of the requests
(`Answered`). `OutputPanel` has the three effects by which the panel opens and turns by itself,
after every commit of the page (`Commit`). `LLMOutput` folds the run's events into blocks, for
every sequence of events within the bound. `DagLayout` is the loop of `layoutDagNodes`; its queue
is a set, because a node that is queued twice is visited in vain and the result does not depend on
the order - which is what `Layered` shows.

## 13. The run `pages`

The modules of sections 10 to 12 share no state, so that `MCPages` checks them in one instance:
each of its behaviours uses one page and leaves the others as they are at first, and the number of
states is the sum, not the product, of the pages'.

| Property | What | Bounds of its page |
|---|---|---|
| `OwnMessages` | a conversation shows no other's messages, unless a stopped handler or a message sent before its history interfered | 2 workflows, 1 node, 2 streams of six steps, 1 change of conversation, 6 messages; requests and streams fail, Stop |
| `TurnKept` | a turn that ran to its end is shown and stored, whichever loads raced with it | the same |
| `ChatSettles` | the chat comes to rest with the selected conversation | the same |
| `NeverBack` | what the server told is not replaced by something older | 3 values, 2 requests in flight, 2 openings (a dialog and an editor, or one twice), another browser |
| `ListedThere` | an added model keeps the endpoint that listed it, and is there once | 2 formats, 2 urls, 2 names, 2 additions, 2 changes |
| `LogsFollow` | a followed log comes to be the server's, at the chosen level | 2 levels, 1 line, 5 clicks or failures |
| `PanelSettles` | tree, folder and verdict come to be the workspace's | 2 directories, 2 files, 4 acts, 2 requests |
| `OneNudge` | the panel opens and turns by itself once | 1 node, 5 moves |
| `AllInOrder` | all that agents write is shown once, in order, unmixed | 2 agents, 4 events of 6 kinds |
| `Layered` | a plan is laid out in the fewest rows | every graph on 3 nodes, 4 rows |

Two streams are one that was stopped and the next; two requests are one that overtakes another;
four events hold every alternation of two kinds with white space between. The chat alone, with two
changes of conversation, also holds (1.7 million states). Fairness: `DFairness`,
`FFairness` and the chat's `Fairness` - timers fire, requests are answered and handled; a user who
has turned away from the chat's tab comes back (`Show`), without which nothing can be said of what it
shows. The steps of all streams share one formula of weak fairness: a stream has
finitely many steps, so that none is kept waiting for ever.

## 14. Counterexamples

The configurations below are not among the runs of `PROJECT.json`: TLC finds each of them
violated. They are counterexamples to statements of the code's comments, or to what the runs
check when one of their restrictions is dropped; each is a few steps long, and the formula's
comment cites the code. They are run as `tlc -config X.cfg M`.

| Configuration (module) | Formula | What happens |
|---|---|---|
| `run_double_resume` (`MCDirectorRun`) | `ResumeOnlyStopped` | two resumes that both read the row before either commits start two activations on one sandbox |
| `run_poll_resume` | `TerminalMeansStopped` | a poll that read the engine's old status commits it over the row of a run that was resumed meanwhile |
| `run_preserved` | `PreservedForResume` | an ending activation destroys the sandbox that a resumed one has taken up |
| `run_stuck_cancel` | `CancellingSettles` | a cancel that commits after the outcome leaves the row "cancelling" for good |
| `run_early_cancel` | `CancelHeard` | a cancel between `trigger_run`'s commit and `start_run` is acknowledged and never heard |
| `stream_missed` (`MCRunStream`) | `NoneMissed` | what is published during the replay to a new subscriber does not reach it |
| `stream_dropped` | `OnlyStaleRemoved` | a failed send is charged to the wrong connection, because the list changed during the broadcast |
| `ws_user` (`MCWorkspace`) | `NeverOlder` | a sync puts the sandbox's older copy over the user's newer edit when the sizes differ |
| `ws_two_nodes` | `StepsBuildOn` | a node's container keeps files of its earlier step, and its merge copies them over another node's newer ones |
| `ws_two_runs` | `NothingHalfDone` | two runs on one directory share containers: one merges what the other left unfinished |
| `ws_git` | `CheckpointTaken` | a completed node's work is never committed: the repository that is committed is not the container it worked in |
| `ws_restart` | `RestartKept` | a restarted task works in an empty sandbox that is destroyed with its work |
| `agent_claim` (`AgentRun`) | `ReviewClaim` | the review reports "[Self-Review completed]" also when it was cancelled or its model failed |
| `view_double` (`MCRunView`) | `OneTrigger` | Ctrl+Enter starts a second run while the first request is under way |
| `view_order` | `InOrder` | a back-fill is applied after newer events of the socket: a finished agent is shown running |

More of them are a run's configuration with this formula instead of its properties, and with one
change where the first column names one:

| Configuration, change | Formula | What happens |
|---|---|---|
| `run_safety`, `Kinds = {"resume"}`, 3 activations | `CheckpointMonotone` | two resumes that both read the row start two activations from one checkpoint, and the slower one replaces what the other has saved |
| `stream_feed`, a second publisher | `RefinesFeed` | the broadcast of the later of two events that are published side by side may start first |
| `stream_feed`, a second connection | `RefinesFeed` | a client that comes first again has the buffer replayed to it beside what the earlier subscription broadcasts |
| `stream_safety` | `LateReplayed` | a second client of a run is replayed nothing |
| `stream_safety` | `OneSubscription` | a client that comes back in the grace period makes a second subscription: every event is sent twice (the page drops the double by its id) |
| `ws_safety` | `OnlyFinishedWork` | a step fails and leaves a file half done in its container, a later step of the node ends well without touching it, and the merge copies it |
| `ws_safety`, `Quick = TRUE` | `Kept` | the last sync falls into the debounce's two seconds and the sandbox is destroyed |
| `ws_safety`, `IOMayFail = TRUE` | `Kept` | the last sync fails and the sandbox is destroyed all the same |
| `view_safety` | `Reachable` | a late close event of an earlier socket clears the reference to the next, which nobody can close any more |
| `view_safety` | `OwnEventsAlways` | a poll's answer is applied after its run was left |
| `view_safety`, `Keyboard = TRUE` | `OwnEvents` | the answer to a second Ctrl+Enter comes when the first run was shown and cancelled: its events stand under the second run |
| `view_safety`, `MAX_EVENT_IDS = 1` | `NoRepeat` | a forgotten id comes again with a poll and is applied twice |
| `editor` | `OwnPlanAlways` | after a failed load the store still holds the workflow before, and the armed autosave writes that plan under the new id |
| `board` | `OneRun` | the first list of the run that is followed now is empty and leaves the tasks of the one before (`fetched.length > 0`), beside which a new one comes up |
| `board` | `NotTurnedAway` | a search that was begun without a run ends when the board follows one, and turns it to the run that was found, of any workflow |
| `editor` | `LeftSaved` | the page is left within two seconds of an edit: the effect's clean-up clears the armed autosave, and the edit is lost |
| `editor`, "autosave" in `Failing` | `NeverApart` | a failed autosave is logged and not repeated: the page shows what nothing will save |
| `editor`, "reread" in `Failing` | `NeverApart` | a plan of the chat is committed and its reading fails: the page shows the plan before |
| `editor`, `InOrder = FALSE` | `NeverApart` | of two writes the older is handled last, and nothing is on its way |
| `editor` | `GoalConverges` | the answer to Run, read before the goal that was typed last was written, takes the goal back on the page |
| `editor` | `NameKept` | after a failed load the autosave writes the page's name, which is still "untitled" |
| `editor`, `InOrder = FALSE` | `Converges` | an older autosave is handled last |
| `pages`, `MaxSelects = 2`, "history" in `Failing` | `TurnKept` | a history that could not be read empties the list |
| `pages`, `MaxSelects = 2` | `OwnMessagesAlways` | a message that is sent before its history has come stays under the other conversation's key |
| `pages` | `FlagTrue` | a stopped handler that awaits a request ends the next stream's flag |
| `pages` | `SpinnerStops` | a cancelled load leaves its spinner |
| `pages` | `ListedThereAlways` | a late list is shown under the form's new endpoint, and what is added from it is stored with an endpoint that never listed it |
| `pages` | `LogsRight` | without the interval a late answer shows the lines of the level before |
| `pages`, `Answered = "any order"` | `PanelSettles` | the tree of the workspace before comes last and stays |
| `pages` | `OneTab` | two reads of a file under way open two tabs of it |
| `pages` | `ClickFilters`, `LeavesTab` | a click on the node that was chosen last does not filter again; the user is taken back to the agent tab that he leaves |
| `pages` | `OneSpeaker` | with all agents chosen, two that write at once become one paragraph |
| `SettingsDialog` with `SSpec` | `SelectorRests` | without a configured model the selector asks for ever |

On a cycle that a root reaches, `layoutDagNodes` never ends: in `DagLayout` the queue is never
empty and rows grow up to `MaxRow`.

## 15. What is proved

Each theorem is about its module's specification without fairness, for every value of the
constants that its module's assumption allows; further hypotheses are named with the theorem,
and each of them is one that a run's configuration satisfies and that TLC shows to be necessary
(section 14), unless it is said otherwise. The proofs follow one pattern: an inductive
invariant, one lemma per control operator that says what it makes of the state, one lemma per
action or group of actions, and the temporal step. Every invariant was checked by TLC on the
run's instance before it was proved. `Filters` holds lemmas about lists that several proofs
need - what `Without`, the hub's filtering of a list, leaves; members of appended and
concatenated lists; a least number in a set.

### `DirectorRun_proofs`

From `ConstantsOK`, for every number of requests, activations, laps, stops and retries:

- `TypeCorrect`: `Spec => []TypeOK`.
- `StepEffect`: seen from one activation, a step of the system is a step of its own, or
  it is started, told, killed, interrupted or left alone. Everything below is proved
  over these seven cases instead of over all actions.
- `ReviewGateHolds`: `ReviewGate` is inductive relative to the types.
- `CancelBoundHolds`: `CancelBound` is not inductive - nothing in it says that the event
  is looked at before the next agent. `LateOnce` adds where an activation with a late
  agent can be (in that agent's step, at the gate, or ending).
- `NoInventedOutcomeHolds`: strengthened to `OutcomesDecided`: wherever an outcome is
  kept on its way to the row (registry, activation, a poll's stale copy), somebody
  decided it.
- `ActivationsKeepPromise`: each activation implements `RunActivation`. Besides
  `LateOnce` it needs `Lively`: the registry says "running" only of an activation that
  has not ended, so that `cancel` never tells one that has.
- `OneDispatcherHolds`, `TerminalMeansStoppedHolds`: assuming one client at a time and no
  polls (`run_double_resume`, `run_poll_resume`).
  `Exclusive` says why: as long as an activation is busy, up to the commit of its
  outcome, the row does not say that it ended, except while the resume that started it
  still holds the write lock.
- `CheckpointMonotoneHolds`: assuming that nobody resumes, as in `run_safety`, or one client
  at a time and no polls. `Carried` says that an activation's iteration is not behind what it
  was resumed from, and that not behind the row; with `Exclusive`, no two activations save
  beside each other. Two resumes at once violate it.

### `RunStream_proofs`

From `StreamConstants`, for any connections, publishers, events and buffer:

- `TypeCorrect`.
- `ServedHolds`: with nobody in the middle of a replay, a connected client implies a
  callback and a heartbeat. The invariant needs nothing about buffers or sends, only that a
  clean-up looks at the connections in the same step in which it unsubscribes, and that a
  replay ends in a registration. The proof uses `GraceOver`.
- `DeliveredHolds`: `Delivered` says too little to be inductive. `Delivering` adds, for every
  connection and every event that is due to it, where the event still is when it has not been
  sent: ahead in the snapshot of the replay, or in a broadcast that has yet to begin and will
  find the connection in the list.
- `FeedKept`: `RunStream` implements `EventFeed` (`RefinesFeed`) for one connection and one
  publisher, whatever the buffer and the run. `FeedInv` says what the connection has seen at each
  moment: while it is replayed to (`Replayed`), all from the snapshot's first event to the
  one being sent, with one gap at most, and no callback is registered; afterwards (`Live`) there
  is one callback, and once the second gap is there nothing is missing but the event that is
  about to be broadcast, because `publish` awaits the broadcast of the last one. Every step maps
  to one of `EventFeed` or to a stutter. With a second connection, or a second publisher, it is
  violated (section 14).

### `Agents_proofs`

Of `Workspace`, from `WorkspaceConstants`:

- `TypeCorrect`.
- `NothingHalfDoneHolds`, assuming a single run on the directory (`ws_two_runs`). It is not
  inductive: a merge copies the whole container, and nothing in it says that what is merged has a
  completed step behind it. `Backed` does, from the end of the agent to the merge; it needs that
  nobody else writes in the container meanwhile or left a write there (`Owned`: the user's `.mas`
  holds that run's files only, a task's its own), and that a new write is no old one (`Dated`).
- `KeptHolds`, `StepsBuildOnHolds`, assuming also that nodes write different files
  (`Disjoint`, `ws_two_nodes`), that steps outlast the debounce (`~Quick`) and that copies
  succeed (`~IOMayFail`). `KInv` is about times: nothing is newer than the clock; a container
  holds only its own node's files, none of them older than a completed step left it; the
  sandbox has what completed steps left, or something newer, as long as it is open, and the
  user's directory has it once the sandbox is closing or a sync has just been made. `Kept` is
  the second half at the end of a run, `StepsBuildOn` the first at the start of a step.

Of `AgentRun` (its names begin with `A`, where `Workspace` has the same), from `AgentConstants`:

- `CancelBoundHolds`: `CancelBound` counts; the invariant (`Counters`) bounds the late
  requests by the attempts of the turn in which the cancellation came, and the late tools
  by where the agent is.
- `ConversationHolds`: the invariant (`Talk`) says how the last message relates to `at`, so
  that no request follows tool calls without all their results.
- `EarnedHolds`: the invariant (`Judged`) says that a cancelled agent in its work is still in
  the turn in which it was cancelled, since the head of the next turn looks at the event, and
  that one in its review had a work that ended well (`WorkedWell`): the review may fail, be
  cancelled or used up without changing that.

### `RunView_proofs`

From `RunViewAssumption`, for any runs, sockets, requests, lengths of the log, clicks and losses.
`Sound` is what all three need: sockets bring events of their own run, in the log's order; a
socket or request whose effect is still there is about the run that is shown; a page that was
left has none.

- `NoRepeatHolds`, assuming that `MAX_EVENT_IDS` is above the number of events (`Roomy`): the
  known ids are those of what is shown and of the batch that waits (`Known`), and both hold
  each event once, whichever of socket, replay, back-fill and poll brings it.
- `OneSocketHolds`: unless a late callback interfered, what is up is the socket of `ref`, and
  nothing is up while a reconnection waits. `Held` keeps this through the hook's clean-ups; it
  needs `Calm` (no socket, no batch and no request but the load while no run is shown) and
  `OneLoad` (one load is cared for).
- `OwnEventsHolds`, assuming that Ctrl+Enter does not start a run (`~Keyboard`: the button is
  disabled while it waits for its request, the key is not): `Waits` says that one request for
  a run is under way, `Owned` that the store is empty when its answer comes. `stray` excludes a run that is
  triggered over one that is shown (section 7).

### `Board_proofs`

From `BoardAssumption`, for any runs of any workflows, tasks, requests and clicks. `BoardInv`
adds to the types what the requests in flight know (`OwnAsks`): a fetch whose effect is
still there asks for the run that is followed, since every change of that run disowns the
requests of the effects before it; a search that lists tasks has found their run; a created
task is in the run that the request named; and the leaf whose form is open is shown
(`LeafThere`), so that submitting it changes a task and does not add one.

- `TypeCorrect`, and the action property `NewOnesOwnHolds`.

### `EditorPage_proofs`

From `EditorPageAssumption`, for any workflows, plans, requests, visits and failures. `PageInv`
says that one request of the page's load at most is in flight, only while the page is loading,
and that nothing is armed meanwhile (`OneLive`, `Fine`); that from the last answer on the plan
of the page, every plan that is to be saved, every plan that was read and every row is its
workflow's own, unless the page was marked (`Owned`).

- `OwnPlanHolds`: the clean-up of the autosave's effect when the page is left is what keeps
  one workflow's plan from being written under the next one's id.
- `NeverApartHolds`, assuming that writes keep their order and that no write of a plan and no
  reread fails (`Sure`; section 14 shows each to be necessary). It is proved as `Together`, `NeverApart` over any
  sequence of requests: an edit arms the autosave, its expiry sends the plan behind all others,
  and the server's handling of the last write of the plan, all others having been handled before
  it, makes the row the page's; whatever an answer puts on the page arms the autosave again.

### `Panels_proofs`

*Layout*, from `DagLayoutAssumption`:

- `LayoutInvariant` and `LayoutIsLayered`: for every plan and every layout `d` in which edges
  lead down, `Layered` holds of the rows the loop leaves. The invariant (`LInv`) says that no
  row is lower than in `d`, and that a node with a row is above its children or waits in the
  queue. That every node has a row at the end takes a node whose `d` is the least of those
  without one: it has a parent, higher in `d`, without one too (well-founded minimum).

*Settings dialog*, from `SettingsDialogAssumption`:

- `NeverGoesBack`: `NeverBack` for any number of requests, edits and openings. The invariant
  (`Orderly`) says that one request at most is the newest, and that what it was answered is
  neither older than the store nor newer than the server; the store's count moves with the
  newest request's answer alone, which leaves no other that counts.

*Models form*, from `ModelsFormAssumption`:

- `ListedThereHolds`: the invariant is `ListedThere` and, of the list that is shown and of
  the answers under way, which endpoint they are from (`LInvariant`): changing the endpoint
  forgets the list.

*Output panel*:

- `OneNudgeHolds`: every action is one `Commit`, and the refs remember what the history counts
  (`Remembered`), as they are given up together.

*Planner chat*, from `ChatPageAssumption`, for any conversations, streams and messages:

- `OwnMessagesHolds` and, assuming that histories can be read, as in the run `pages`,
  `TurnKeptHolds`. `ChatInv` says that one handler at most is running and has the flag and the
  abort controller (`OneHandler`), that no load of a history is in flight beside it
  (`Unloaded`), that the last message is the one it writes into (`Writing`), that what the
  server has told it has been committed (`Committed`), and that the list, and every history on
  its way, holds both messages of each turn that is done (`Whole`) and none of another
  conversation (`OfConv`). `Unloaded` is the heart of it: a load that is answered while a
  handler writes would replace what it has written.

*Agent tab*, from nothing, for any agents and any number of events:

- `AllInOrderHolds`. The invariant is over the events that have been put together, not over the
  run's steps: blocks and buffers hold these events in their order (`Held`), each block and
  buffer is of one kind, and the buffer that is not being filled holds white space at most
  (`Tidy`), so that flushing it or not does not change the order of what can be read. The
  induction over the events is a descent to a least counterexample (`Least` in `Filters`), as
  it is for `Without` and for `FlattenSeq`; an event that is added keeps it (`PieceMore`).

### What is only model-checked

All liveness properties (out of the prover's reach): `EveryLoopEnds`, `RunSettles`, `CleanedUp`,
`Ends`, `Settles`, `CatchesUp`, `OnlyItsOwn`, `Converges`, `LogsFollow`, `PanelSettles`, `ChatSettles`. Every
safety property of the runs is proved, some under a named hypothesis. The types of the web modules are proved as far as the other theorems need them; TLC
checks them whole (`PagesTypeOK` and each module's `TypeOK`).

## 16. What is not modelled

*Out of reach or without state:* prompts, schemas, logging and the wording and layout of the
user interface; the induction that recursive conversions (the model clients', the edit tool's)
would need. *Left for later:* section 2. *Not used by the program:* `sandbox_backend.py` is
imported by nobody and `provision.py` only constructed; of the web client no page mounts
`ConfigPanel.tsx`, `canvas/PlannerChat.tsx`, `Sidebar`, `GoalInput` and `ApprovalModal`, and
nothing that is mounted calls `onConnect` and `updateAutoChildModelMap`; `addDynamicNode` is called
by `useWebSocket.ts` (152, 210) on events that no part of the server emits (`task_created`,
`child_created`). `i18n.ts` is a
dictionary; lists of events, the drawing of the graphs and the texts are functions of the
stores' state.

What a modelled component leaves out is in its section and in `PROJECT.json`. Hazards that
no property covers are listed there with the reason, most of them with the counterexample of
section 14 that shows them.
