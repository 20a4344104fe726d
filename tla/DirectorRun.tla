---------------------------- MODULE DirectorRun ----------------------------
(***************************************************************************)
(* The life of ONE run of Multi-Agent Studio.  Three parties share it:     *)
(*   - the activations of DirectorLoop._dispatch_loop (one asyncio task    *)
(*     per call of start_run), core/director_loop.py;                      *)
(*   - the handlers of api/runs.py (trigger, cancel, resume, get), each of *)
(*     which reads the run's row, awaits, and writes it back;              *)
(*   - the process that holds them, which may crash, be shut down and come *)
(*     back through recover_interrupted_runs.                              *)
(* Every step of an activation or a handler is the code between two        *)
(* awaits, which asyncio runs without interruption.  Runs meet only in the *)
(* database's write lock and in the user's directory, so one is enough.    *)
(*                                                                         *)
(* Operators whose name begins with Mut are mutated forms of the           *)
(* definition that follows them; the specification never uses them.        *)
(***************************************************************************)
EXTENDS Integers

CONSTANTS
    Requests,            \* HTTP requests that may be in flight together
    Kinds,               \* the endpoints they call: cancel, resume, get
    MaxLoops,            \* BOUND: activations of _dispatch_loop
    MaxLaps,             \* BOUND: laps of the while loop within max_duration
    MaxStops,            \* BOUND: crashes and shutdowns of the server
    MAX_REVIEW_RETRIES,
    MAX_NO_DECISION,
    FailingWrites        \* the writes of the row that may fail

ASSUME ConstantsOK ==
    /\ Kinds \subseteq {"cancel", "resume", "get"}
    /\ MaxLoops \in Nat \ {0}
    /\ MaxLaps \in Nat
    /\ MaxStops \in Nat
    /\ MAX_REVIEW_RETRIES \in Nat \ {0}
    /\ MAX_NO_DECISION \in Nat \ {0}
    /\ FailingWrites \subseteq {"checkpoint", "outcome", "recovery"}

VARIABLES
    mode,     \* the server process: "up", "stopping" (graceful), "down"
    stops,    \* stops so far
    status,   \* runs.status: the committed column of the run's row
    ckpt,     \* runs.checkpoint_json: its checkpoint_iteration, or NoCkpt
    cur,      \* the activation that _runs[run_id] belongs to, 0 for no entry
    est,      \* _runs[run_id]["status"]
    dir,      \* does the sandbox directory ws-director-{run_id[:8]} exist?
    reg,      \* is it registered in LocalSandbox._sandboxes?
    lp,       \* per activation: program counter and how it ends
    wd,       \* per activation: the locals and the WorldModel
    src,      \* per activation: what start_run was given to resume from
    req,      \* the API requests in flight
    decided   \* history: the outcomes that some activation reached

vars == <<mode, stops, status, ckpt, cur, est, dir, reg, lp, wd, src, req, decided>>
server == <<mode, stops>>
row == <<status, ckpt>>
entry == <<cur, est>>
sandbox == <<dir, reg>>

-----------------------------------------------------------------------------
Loops == 1..MaxLoops
NoCkpt == -1

Outcomes == {"completed", "failed", "cancelled"}
\* "pending" and "paused" are tested for in the code and written nowhere.
Statuses == {"none", "running", "cancelling"} \cup Outcomes

\* Where an activation inside the try block of _dispatch_loop can be.
Dispatching == {"boot", "top", "plan", "work", "gate", "review", "rework",
                "commit", "save", "savefail"}
PCs == {"off", "finish", "final", "gone"} \cup Dispatching

\* MutAckStatus: cancel_run answers for the loop.
MutAckStatus == "cancelled"
\* What cancel_run writes.
AckStatus == "cancelling"

\* MutResumable: a run that is still being cancelled may be resumed.
MutResumable == Outcomes \cup {"cancelling"}
\* The statuses resume_run accepts.
Resumable == Outcomes

\* MutReported: the engine's "failed" is not passed on.
MutReported == {"completed", "cancelled"}
\* The engine statuses that get_run copies into the row.
Reported == Outcomes

\* MutUnrecoverable: a run that cannot be recovered is left as it is.
MutUnrecoverable == "running"
\* What recovery writes when there is no checkpoint or no directory.
Unrecoverable == "failed"

\* MutRestored: the world model of a resumed run starts over.
MutRestored(c) == 0
\* WorldModel.from_json(resume_from["world_model_json"]).iteration
Restored(c) == IF c = NoCkpt THEN 0 ELSE c

\* clean_finish after the planner said done or failed.
CleanFinish(s) == s = "completed"

\* MutPasses: an unanswered review counts as a pass.
MutPasses(verdict) == verdict # "reject"
\* review and review.get("result") == "pass"; "none" is a failed call.
Passes(verdict) == verdict = "pass"

\* MutGateStops: the review loop does not look at the cancel event.
MutGateStops(l) == FALSE
\* The review loop's test at the top of each attempt.
GateStops(l) == lp[l].ev

\* MutTimeUp: there is no time limit.
MutTimeUp(l) == FALSE
\* time.monotonic() - start_time > max_duration may hold on any lap, and
\* does once the laps that fit in max_duration are used up.
TimeUp(l) == TRUE

-----------------------------------------------------------------------------
NewLoop == [pc |-> "off", ev |-> FALSE, sid |-> FALSE, out |-> "none",
            clean |-> FALSE, exc |-> FALSE, late |-> 0]
NewWorld == [iter |-> 0, laps |-> 0, nodec |-> 0, act |-> "other",
             attempt |-> 0, verdict |-> "none"]
NoSource == [ckpt |-> NoCkpt, existed |-> FALSE]
IdleReq == [pc |-> "idle", st |-> "none", ck |-> NoCkpt, ex |-> FALSE]

Init ==
    /\ mode = "up" /\ stops = 0
    /\ status = "none" /\ ckpt = NoCkpt
    /\ cur = 0 /\ est = "unknown"
    /\ dir = FALSE /\ reg = FALSE
    /\ lp = [l \in Loops |-> NewLoop]
    /\ wd = [l \in Loops |-> NewWorld]
    /\ src = [l \in Loops |-> NoSource]
    /\ req = [r \in Requests |-> IdleReq]
    /\ decided = {}

\* resume_run holds SQLite's write lock from its flush to its commit; every
\* other writer of the row waits for it.
Unlocked == \A r \in Requests : req[r].pc \notin {"resumeLock", "resumePut"}

\* start_run: a new registry entry, a new cancel event, a new task.  The
\* lowest unused identifier names the activation.
StartRun(l, checkpoint, existed) ==
    /\ lp[l].pc = "off"
    /\ \A k \in Loops : k < l => lp[k].pc # "off"
    /\ lp' = [lp EXCEPT ![l].pc = "boot"]
    /\ src' = [src EXCEPT ![l] = [ckpt |-> checkpoint, existed |-> existed]]
    /\ cur' = l
    /\ est' = "running"

\* The synchronous part of _finish_run: it marks whatever entry the registry
\* holds for the run, be it this activation's or a later one's.
FinishRun(l, outcome, clean) ==
    /\ lp' = [lp EXCEPT ![l] =
                [@ EXCEPT !.pc = "finish", !.out = outcome, !.clean = clean]]
    /\ est' = outcome
    /\ decided' = decided \cup {outcome}
    /\ UNCHANGED cur

\* except Exception: the same, called from the exception handler.
FailRun(l) ==
    /\ lp' = [lp EXCEPT ![l] =
                [@ EXCEPT !.pc = "finish", !.out = "failed", !.clean = FALSE, !.exc = TRUE]]
    /\ est' = "failed"
    /\ decided' = decided \cup {"failed"}
    /\ UNCHANGED cur

\* Control moves on; nothing is finished.
Goto(l, p) ==
    /\ lp' = [lp EXCEPT ![l].pc = p]
    /\ UNCHANGED <<entry, decided>>

\* _run_sub_agent -> NodeRunner.execute_node: without a registered sandbox
\* resolve_virtual_path raises and the run fails.  late counts the agents
\* started although the run was already being cancelled.
StartAgent(l, p) ==
    \/ /\ reg
       /\ lp' = [lp EXCEPT ![l] =
                    [@ EXCEPT !.pc = p, !.late = IF lp[l].ev THEN lp[l].late + 1 ELSE lp[l].late]]
       /\ UNCHANGED <<entry, decided>>
    \/ /\ ~reg
       /\ FailRun(l)

-----------------------------------------------------------------------------
(* One activation of _dispatch_loop.                                       *)

\* Planner history, then the sandbox: re_register an existing directory, or
\* create it (a fresh run, or one whose directory is gone).
Boot(l) ==
    /\ lp[l].pc = "boot"
    /\ \/ /\ src[l].existed /\ dir
          /\ reg' = TRUE
          /\ UNCHANGED dir
       \/ /\ ~(src[l].existed /\ dir)
          /\ dir' = TRUE /\ reg' = TRUE
    /\ lp' = [lp EXCEPT ![l] = [@ EXCEPT !.pc = "top", !.sid = TRUE]]
    /\ wd' = [wd EXCEPT ![l].iter = Restored(src[l].ckpt)]
    /\ src' = [src EXCEPT ![l] = NoSource]
    /\ UNCHANGED <<server, row, entry, req, decided>>

\* create() raised, before or after it made the directory.  A fresh run fails
\* through the exception handler, a resumed one by a handler of its own.
BootFails(l) ==
    /\ lp[l].pc = "boot"
    /\ ~(src[l].existed /\ dir)
    /\ dir' \in {dir, TRUE}
    /\ \/ src[l].ckpt = NoCkpt /\ FailRun(l)
       \/ src[l].ckpt # NoCkpt /\ FinishRun(l, "failed", FALSE)
    /\ UNCHANGED <<server, row, reg, wd, src, req>>

\* while not cancel_event.is_set(): the loop ends by cancellation ...
TopCancelled(l) ==
    /\ lp[l].pc = "top"
    /\ lp[l].ev
    /\ FinishRun(l, "cancelled", TRUE)
    /\ UNCHANGED <<server, row, sandbox, wd, src, req>>

\* ... or by the time limit ...
TimeLimit(l) ==
    /\ lp[l].pc = "top"
    /\ ~lp[l].ev
    /\ TimeUp(l)
    /\ FinishRun(l, "failed", FALSE)
    /\ UNCHANGED <<server, row, sandbox, wd, src, req>>

\* ... or asks the planner what to do next.
Ask(l) ==
    /\ lp[l].pc = "top"
    /\ ~lp[l].ev
    /\ wd[l].laps < MaxLaps
    /\ wd' = [wd EXCEPT ![l].laps = @ + 1]
    /\ Goto(l, "plan")
    /\ UNCHANGED <<server, row, sandbox, src, req>>

\* _call_planner_decide returned None: no model, no answer, no tool call.
NoDecision(l) ==
    /\ lp[l].pc = "plan"
    /\ IF wd[l].nodec + 1 >= MAX_NO_DECISION
       THEN /\ FinishRun(l, "failed", FALSE)
            /\ UNCHANGED wd
       ELSE /\ wd' = [wd EXCEPT ![l] = [@ EXCEPT !.nodec = wd[l].nodec + 1,
                                              !.iter = wd[l].iter + 1]]
            /\ Goto(l, "top")
    /\ UNCHANGED <<server, row, sandbox, src, req>>

\* The planner ends the run; the cancel event is not looked at.
DecideEnd(l, outcome) ==
    /\ lp[l].pc = "plan"
    /\ FinishRun(l, outcome, CleanFinish(outcome))
    /\ UNCHANGED <<server, row, sandbox, wd, src, req>>

\* An action without a system prompt is skipped.
DecideUnknown(l) ==
    /\ lp[l].pc = "plan"
    /\ wd' = [wd EXCEPT ![l] = [@ EXCEPT !.nodec = 0, !.iter = wd[l].iter + 1]]
    /\ Goto(l, "top")
    /\ UNCHANGED <<server, row, sandbox, src, req>>

\* A step for a sub-agent: a coder's is reviewed, the others' are not.
DecideStep(l, action) ==
    /\ lp[l].pc = "plan"
    /\ wd' = [wd EXCEPT ![l] =
                [@ EXCEPT !.nodec = 0, !.act = action, !.verdict = "none"]]
    /\ StartAgent(l, "work")
    /\ UNCHANGED <<server, row, sandbox, src, req>>

\* The agent's result: cancellation is looked at before the result is.
WorkReturns(l, completed) ==
    /\ lp[l].pc = "work"
    /\ \/ /\ lp[l].ev
          /\ FinishRun(l, "cancelled", TRUE)
          /\ UNCHANGED wd
       \/ /\ ~lp[l].ev /\ ~completed
          /\ Goto(l, "savefail")
          /\ UNCHANGED wd
       \/ /\ ~lp[l].ev /\ completed /\ wd[l].act = "coder"
          /\ wd' = [wd EXCEPT ![l].attempt = 1]
          /\ Goto(l, "gate")
       \/ /\ ~lp[l].ev /\ completed /\ wd[l].act # "coder"
          /\ Goto(l, "commit")
          /\ UNCHANGED wd
    /\ UNCHANGED <<server, row, sandbox, src, req>>

\* The agent raised, in the step or in a retry: except Exception.
AgentRaises(l) ==
    /\ lp[l].pc \in {"work", "rework"}
    /\ FailRun(l)
    /\ UNCHANGED <<server, row, sandbox, wd, src, req>>

\* _review_loop, top of an attempt: "return False" and, in the caller, the
\* cancelled ending; or the review call.
Gate(l) ==
    /\ lp[l].pc = "gate"
    /\ \/ GateStops(l) /\ FinishRun(l, "cancelled", TRUE)
       \/ ~GateStops(l) /\ Goto(l, "review")
    /\ UNCHANGED <<server, row, sandbox, wd, src, req>>

\* The verdict: a pass commits, anything else has the worker run again, after
\* the last attempt too.
ReviewReturns(l, verdict) ==
    /\ lp[l].pc = "review"
    /\ wd' = [wd EXCEPT ![l].verdict = IF Passes(verdict) THEN verdict ELSE "none"]
    /\ \/ Passes(verdict) /\ Goto(l, "commit")
       \/ ~Passes(verdict) /\ StartAgent(l, "rework")
    /\ UNCHANGED <<server, row, sandbox, src, req>>

\* The retry's result: another attempt, or the step is given up.
ReworkReturns(l, completed) ==
    /\ lp[l].pc = "rework"
    /\ \/ /\ completed /\ wd[l].attempt < MAX_REVIEW_RETRIES
          /\ wd' = [wd EXCEPT ![l].attempt = @ + 1]
          /\ Goto(l, "gate")
       \/ /\ ~completed \/ wd[l].attempt >= MAX_REVIEW_RETRIES
          /\ \/ lp[l].ev /\ FinishRun(l, "cancelled", TRUE)
             \/ ~lp[l].ev /\ Goto(l, "savefail")
          /\ UNCHANGED wd
    /\ UNCHANGED <<server, row, sandbox, src, req>>

\* auto_commit (its failure is swallowed) and world.iteration += 1.
Commit(l) ==
    /\ lp[l].pc = "commit"
    /\ wd' = [wd EXCEPT ![l].iter = @ + 1]
    /\ Goto(l, "save")
    /\ UNCHANGED <<server, row, sandbox, src, req>>

\* _save_checkpoint: a failed write is logged and forgotten.
WriteCheckpoint(l) ==
    /\ Unlocked
    /\ \/ ckpt' = wd[l].iter
       \/ "checkpoint" \in FailingWrites /\ UNCHANGED ckpt
    /\ UNCHANGED status

Save(l) ==
    /\ lp[l].pc = "save"
    /\ WriteCheckpoint(l)
    /\ Goto(l, "top")
    /\ UNCHANGED <<server, sandbox, wd, src, req>>

\* A failed step: the world with its failure is saved, the run has failed.
SaveFailed(l) ==
    /\ lp[l].pc = "savefail"
    /\ WriteCheckpoint(l)
    /\ FinishRun(l, "failed", FALSE)
    /\ UNCHANGED <<server, sandbox, wd, src, req>>

\* _update_run_status_db, in a session of its own.
WriteOutcome(l) ==
    /\ lp[l].pc = "finish"
    /\ Unlocked
    /\ \/ status' = lp[l].out
       \/ "outcome" \in FailingWrites /\ UNCHANGED status
    /\ Goto(l, "final")
    /\ UNCHANGED <<server, ckpt, sandbox, wd, src, req>>

\* The run_* event and the finally block: sync_back, then destroy if the
\* ending was clean.  destroy skips a sandbox that is not registered.
Cleanup(l) ==
    /\ lp[l].pc = "final"
    /\ IF lp[l].sid /\ lp[l].clean /\ reg
       THEN dir' = FALSE /\ reg' = FALSE
       ELSE UNCHANGED sandbox
    /\ wd' = [wd EXCEPT ![l] = NewWorld]
    /\ Goto(l, "gone")
    /\ UNCHANGED <<server, row, src, req>>

LoopStep(l) ==
    \/ Boot(l)
    \/ BootFails(l)
    \/ TopCancelled(l)
    \/ TimeLimit(l)
    \/ Ask(l)
    \/ NoDecision(l)
    \/ \E outcome \in {"completed", "failed"} : DecideEnd(l, outcome)
    \/ DecideUnknown(l)
    \/ \E action \in {"coder", "other"} : DecideStep(l, action)
    \/ \E completed \in BOOLEAN : WorkReturns(l, completed)
    \/ AgentRaises(l)
    \/ Gate(l)
    \/ \E verdict \in {"pass", "reject", "none"} : ReviewReturns(l, verdict)
    \/ \E completed \in BOOLEAN : ReworkReturns(l, completed)
    \/ Commit(l)
    \/ Save(l)
    \/ SaveFailed(l)
    \/ WriteOutcome(l)
    \/ Cleanup(l)

-----------------------------------------------------------------------------
(* The handlers of api/runs.py.  A request that its first test refuses     *)
(* (400, 404) changes nothing and is not a step.                           *)

\* trigger_run commits the row ...
TriggerCommit(r) ==
    /\ mode = "up"
    /\ req[r].pc = "idle"
    /\ status = "none"
    /\ status' = "running"
    /\ req' = [req EXCEPT ![r].pc = "trigger"]
    /\ UNCHANGED <<server, ckpt, entry, sandbox, lp, wd, src, decided>>

\* ... and only then, after two more awaits, calls start_run.
TriggerStart(r) ==
    /\ req[r].pc = "trigger"
    /\ \E l \in Loops : StartRun(l, NoCkpt, FALSE)
    /\ req' = [req EXCEPT ![r] = IdleReq]
    /\ UNCHANGED <<server, row, sandbox, wd, decided>>

\* cancel_run: the SELECT and the test of the status it returned.
CancelSelect(r) ==
    /\ mode = "up" /\ "cancel" \in Kinds
    /\ req[r].pc = "idle"
    /\ status = "running"
    /\ req' = [req EXCEPT ![r].pc = "cancelGot"]
    /\ UNCHANGED <<server, row, entry, sandbox, lp, wd, src, decided>>

\* engine.cancel: only a run the registry calls "running" hears of it.
EngineCancel(r) ==
    /\ req[r].pc = "cancelGot"
    /\ \/ /\ cur # 0 /\ est = "running"
          /\ lp' = [lp EXCEPT ![cur].ev = TRUE]
          /\ est' = "cancelling"
       \/ /\ ~(cur # 0 /\ est = "running")
          /\ UNCHANGED <<lp, est>>
    /\ req' = [req EXCEPT ![r].pc = "cancelPut"]
    /\ UNCHANGED <<server, row, cur, sandbox, wd, src, decided>>

\* run.status = "cancelling", flushed here and committed by get_db: the row
\* is written as it was read, whatever became of it in between.
CancelCommit(r) ==
    /\ req[r].pc = "cancelPut"
    /\ Unlocked
    /\ status' = AckStatus
    /\ req' = [req EXCEPT ![r] = IdleReq]
    /\ UNCHANGED <<server, ckpt, entry, sandbox, lp, wd, src, decided>>

\* get_run: only a row that says "running" is compared with the engine.
GetSelect(r) ==
    /\ mode = "up" /\ "get" \in Kinds
    /\ req[r].pc = "idle"
    /\ status = "running"
    /\ req' = [req EXCEPT ![r].pc = "getGot"]
    /\ UNCHANGED <<server, row, entry, sandbox, lp, wd, src, decided>>

GetEnrich(r) ==
    /\ req[r].pc = "getGot"
    /\ req' = [req EXCEPT ![r] = IF est \in Reported
                                 THEN [IdleReq EXCEPT !.pc = "getPut", !.st = est]
                                 ELSE IdleReq]
    /\ UNCHANGED <<server, row, entry, sandbox, lp, wd, src, decided>>

\* The answer is committed by get_db like any other change of the row.
GetCommit(r) ==
    /\ req[r].pc = "getPut"
    /\ Unlocked
    /\ status' = req[r].st
    /\ req' = [req EXCEPT ![r] = IdleReq]
    /\ UNCHANGED <<server, ckpt, entry, sandbox, lp, wd, src, decided>>

\* resume_run: the SELECT, the tests of status and checkpoint, and whether
\* the sandbox directory exists.
ResumeSelect(r) ==
    /\ mode = "up" /\ "resume" \in Kinds
    /\ req[r].pc = "idle"
    /\ status \in Resumable
    /\ ckpt # NoCkpt
    /\ \E l \in Loops : lp[l].pc = "off"
    /\ req' = [req EXCEPT ![r] = [pc |-> "resumeGot", st |-> "none",
                                  ck |-> ckpt, ex |-> dir]]
    /\ UNCHANGED <<server, row, entry, sandbox, lp, wd, src, decided>>

\* db.flush() takes the write lock ...
ResumeFlush(r) ==
    /\ req[r].pc = "resumeGot"
    /\ Unlocked
    /\ \E l \in Loops : lp[l].pc = "off"
    /\ req' = [req EXCEPT ![r].pc = "resumeLock"]
    /\ UNCHANGED <<server, row, entry, sandbox, lp, wd, src, decided>>

\* ... start_run runs under it ...
ResumeStart(r) ==
    /\ req[r].pc = "resumeLock"
    /\ \E l \in Loops : StartRun(l, req[r].ck, req[r].ex)
    /\ req' = [req EXCEPT ![r] = [IdleReq EXCEPT !.pc = "resumePut"]]
    /\ UNCHANGED <<server, row, sandbox, wd, decided>>

\* ... and get_db commits "running".
ResumeCommit(r) ==
    /\ req[r].pc = "resumePut"
    /\ status' = "running"
    /\ req' = [req EXCEPT ![r] = IdleReq]
    /\ UNCHANGED <<server, ckpt, entry, sandbox, lp, wd, src, decided>>

\* What a handler does once it is past its first test.
HandlerStep(r) ==
    \/ TriggerStart(r)
    \/ EngineCancel(r)
    \/ CancelCommit(r)
    \/ GetEnrich(r)
    \/ GetCommit(r)
    \/ ResumeFlush(r)
    \/ ResumeStart(r)
    \/ ResumeCommit(r)

Call(r) ==
    \/ TriggerCommit(r)
    \/ CancelSelect(r)
    \/ GetSelect(r)
    \/ ResumeSelect(r)

-----------------------------------------------------------------------------
(* The server process.                                                     *)

\* Everything in memory is lost; the row and the directory stay.
Crash ==
    /\ mode \in {"up", "stopping"}
    /\ stops < MaxStops
    /\ mode' = "down" /\ stops' = stops + 1
    /\ cur' = 0 /\ est' = "unknown" /\ reg' = FALSE
    /\ lp' = [l \in Loops |-> IF lp[l].pc = "off" THEN lp[l]
                              ELSE [lp[l] EXCEPT !.pc = "gone"]]
    /\ wd' = [l \in Loops |-> NewWorld]
    /\ req' = [r \in Requests |-> IdleReq]
    /\ UNCHANGED <<row, dir, src, decided>>

\* A graceful shutdown: the server has answered its requests, then asyncio
\* raises CancelledError once in every task that is left.  In the try block,
\* _finish_run included, it is caught and the run ends as "cancelled"; in an
\* exception handler it cuts _finish_run short; in the finally block it skips
\* the rest.  emitting: who is still in the emit of _finish_run.
Interrupted(l, emitting) ==
    LET caught == [lp[l] EXCEPT !.pc = "finish", !.out = "cancelled",
                                !.clean = TRUE, !.exc = TRUE]
    IN CASE lp[l].pc \in Dispatching -> caught
         [] lp[l].pc = "finish" /\ ~lp[l].exc -> caught
         [] lp[l].pc = "finish" /\ lp[l].exc -> [lp[l] EXCEPT !.pc = "final"]
         [] lp[l].pc = "final" /\ l \in emitting /\ ~lp[l].exc -> caught
         [] lp[l].pc = "final" /\ l \notin emitting -> [lp[l] EXCEPT !.pc = "gone"]
         [] OTHER -> lp[l]

Shutdown ==
    /\ mode = "up"
    /\ stops < MaxStops
    /\ \A r \in Requests : req[r].pc = "idle"
    /\ mode' = "stopping" /\ stops' = stops + 1
    /\ \E emitting \in SUBSET {l \in Loops : lp[l].pc = "final"} :
         lp' = [l \in Loops |-> Interrupted(l, emitting)]
    /\ IF \E l \in Loops : lp'[l].pc = "finish"
       THEN est' = "cancelled" /\ decided' = decided \cup {"cancelled"}
       ELSE UNCHANGED <<est, decided>>
    /\ UNCHANGED <<row, cur, sandbox, wd, src, req>>

\* The process has exited.
Exit ==
    /\ mode = "stopping"
    /\ \A l \in Loops : lp[l].pc \in {"off", "gone"}
    /\ mode' = "down"
    /\ cur' = 0 /\ est' = "unknown" /\ reg' = FALSE
    /\ UNCHANGED <<stops, row, dir, lp, wd, src, req, decided>>

\* recover_interrupted_runs, before the first request is served.  A failed read
\* or commit is logged and the run left as it is.
Restart ==
    /\ mode = "down"
    /\ mode' = "up"
    /\ \/ /\ status \in {"running", "cancelling"}
          /\ ckpt # NoCkpt /\ dir
          /\ status' = "running"
          /\ \E l \in Loops : StartRun(l, ckpt, TRUE)
       \/ /\ status \in {"running", "cancelling"}
          /\ ckpt = NoCkpt \/ ~dir
          /\ status' = Unrecoverable
          /\ UNCHANGED <<lp, src, entry>>
       \/ /\ status \notin {"running", "cancelling"} \/ "recovery" \in FailingWrites
          /\ UNCHANGED <<status, lp, src, entry>>
    /\ UNCHANGED <<stops, ckpt, sandbox, wd, req, decided>>

-----------------------------------------------------------------------------
Next ==
    \/ \E l \in Loops : LoopStep(l)
    \/ \E r \in Requests : HandlerStep(r) \/ Call(r)
    \/ Crash
    \/ Shutdown
    \/ Exit
    \/ Restart

Spec == Init /\ [][Next]_vars

\* Every await of an activation or a handler returns: LLM calls and tools have
\* timeouts, the agent its turn limit, SQLite its busy timeout.  Nothing is
\* assumed of users, of crashes or of restarts.
Fairness ==
    /\ \A l \in Loops : WF_vars(LoopStep(l))
    /\ \A r \in Requests : WF_vars(HandlerStep(r))
    /\ WF_vars(Exit)

FairSpec == Spec /\ Fairness

\* The page of a run polls GET /runs/{id} every ten seconds while the run is
\* shown as running (hooks/useWebSocket.ts).
PolledSpec == FairSpec /\ \A r \in Requests : WF_vars(GetSelect(r))

-----------------------------------------------------------------------------
LoopState == [pc : PCs, ev : BOOLEAN, sid : BOOLEAN, out : {"none"} \cup Outcomes,
              clean : BOOLEAN, exc : BOOLEAN, late : Nat]
WorldState == [iter : Nat, laps : Nat, nodec : Nat, act : {"coder", "other"},
               attempt : Nat, verdict : {"none", "pass"}]
Source == [ckpt : Nat \cup {NoCkpt}, existed : BOOLEAN]
Request == [pc : {"idle", "trigger", "cancelGot", "cancelPut", "getGot", "getPut",
                  "resumeGot", "resumeLock", "resumePut"},
            st : {"none"} \cup Outcomes, ck : Nat \cup {NoCkpt}, ex : BOOLEAN]

\* Every variable keeps its type: in particular the status column only ever
\* holds a status that the handlers and the recovery know how to treat.
TypeOK ==
    /\ mode \in {"up", "stopping", "down"}
    /\ stops \in Nat
    /\ status \in Statuses
    /\ ckpt \in Nat \cup {NoCkpt}
    /\ cur \in Loops \cup {0}
    /\ est \in {"unknown", "running", "cancelling"} \cup Outcomes
    /\ dir \in BOOLEAN /\ reg \in BOOLEAN
    /\ lp \in [Loops -> LoopState]
    /\ wd \in [Loops -> WorldState]
    /\ src \in [Loops -> Source]
    /\ req \in [Requests -> Request]
    /\ decided \in SUBSET Outcomes

\* No coder's step is committed or checkpointed as done unless the planner
\* passed the very output that is committed: a retry, a failed review call, a
\* resumed world or a late cancellation never lets one through (_review_loop
\* and its caller).
ReviewGate ==
    \A l \in Loops : lp[l].pc \in {"commit", "save"} /\ wd[l].act = "coder"
                        => wd[l].verdict = "pass"

\* Once an activation has been told to cancel it starts at most one more
\* agent, wherever it was told: the event is looked at after every agent run
\* and before every review.
CancelBound == \A l \in Loops : lp[l].late <= 1

\* The row never says "completed" or "cancelled" unless some activation ended
\* so: not by a stale read of the engine's status in get_run, nor by the
\* cancel endpoint or recovery writing an outcome of their own.
NoInventedOutcome ==
    status \in {"completed", "cancelled"} => status \in decided

\* A row in a final status has no activation at work behind it, so that resume
\* ("Only failed/completed/cancelled runs can be resumed") starts a second
\* one only when the first has ended.  (While a resume holds the write lock
\* its own "running" is not committed yet.)
TerminalMeansStopped ==
    status \in Outcomes /\ Unlocked => \A l \in Loops : lp[l].pc \notin Dispatching

\* An activation is started only while no other is at work: "Only
\* failed/completed/cancelled runs can be resumed."
ResumeOnlyStopped ==
    [][\A l \in Loops : lp[l].pc = "off" /\ lp'[l].pc = "boot"
          => \A k \in Loops : lp[k].pc \notin Dispatching]_lp

\* At most one activation at a time plans, works and writes checkpoints, and it
\* is the one the registry knows, whose event cancel() sets.
OneDispatcher ==
    \A l \in Loops : lp[l].pc \in Dispatching => cur = l

\* A saved step is never forgotten: no later checkpoint has a lower iteration,
\* through failures, crashes, recoveries and resumes (_save_checkpoint,
\* WorldModel.from_json).
CheckpointMonotone == [][ckpt' >= ckpt]_ckpt

\* A run that failed still has its sandbox on disk when its activation is gone,
\* so that it can be resumed where it stopped ("Preserving sandbox %s for
\* resume").
PreservedForResume ==
    \A l \in Loops :
        /\ cur = l /\ lp[l].pc = "gone"
        /\ lp[l].sid /\ lp[l].out = "failed"
        => dir

\* A run that is being cancelled and has an activation at work has told that
\* activation so.
CancelHeard ==
    /\ mode = "up" /\ status = "cancelling"
    /\ \A r \in Requests : req[r].pc = "idle"
    => \A l \in Loops : lp[l].pc \in Dispatching => lp[l].ev

\* What an activation looks like from outside.
Phase(l) == CASE lp[l].pc = "off" -> "off"
              [] lp[l].pc \in Dispatching -> "running"
              [] OTHER -> "ended"
\* It is told by its event, or by the CancelledError of a shutdown.
Told(l) == lp[l].ev \/ (lp[l].exc /\ lp[l].out = "cancelled")

Activation(l) == INSTANCE RunActivation WITH
    phase <- Phase(l), told <- Told(l), result <- lp[l].out, late <- lp[l].late

\* Each activation keeps the promise of RunActivation: one start, one end,
\* "cancelled" only when told, at most one agent started late.
KeepsPromise(l) == Activation(l)!Spec

\* Every activation comes to its end, whatever planner, agents and reviewers
\* answer, as long as their calls return.
EveryLoopEnds == \A l \in Loops : lp[l].pc = "boot" ~> lp[l].pc = "gone"

\* A run that its row calls running gets an outcome, or the server goes down:
\* a restarted server leaves no run behind that nobody executes, and an outcome
\* that could not be written is written by the next poll of the page.
RunSettles ==
    (mode = "up" /\ status = "running") ~> (status \in Outcomes \/ mode # "up")

\* A run that is being cancelled does not stay so.
CancellingSettles ==
    (mode = "up" /\ status = "cancelling") ~> (status # "cancelling" \/ mode # "up")
=============================================================================
