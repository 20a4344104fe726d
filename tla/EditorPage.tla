----------------------------- MODULE EditorPage -----------------------------
(***************************************************************************)
(* The editor page and what it writes to the server: the loading of a      *)
(* workflow into the workflow store, the autosave that a change of the     *)
(* store arms, the toolbar's Save and Run, the name, the goal and the      *)
(* workspace directory, and the plans of the chat that shares the store.   *)
(*                                                                         *)
(* The store outlives the page: leaving does not clear it, and a request   *)
(* that the page does not cancel writes its answer into whatever is shown. *)
(* A request is sent, answered by the server, and handled, in three steps. *)
(***************************************************************************)
EXTENDS Naturals, Sequences, SequencesExt

CONSTANTS
    Workflows,  \* the workflows of the server, numbered from 1
    MaxMade,    \* bound on the plans, names and goals that are ever made
    MaxCalls,   \* bound on the requests in flight
    MaxVisits,  \* bound on the openings of the page
    MaxClicks,  \* bound on Save, Run and choices of a directory
    Failing,    \* the requests that may fail
    InOrder     \* whether the server handles writes in the order they are sent

NoWorkflow == 0
Reads == {"load", "runs", "trigger", "refresh", "reread", "assess"}
Writes == {"autosave", "save", "resave", "goal", "dir", "firstdir"}

ASSUME EditorPageAssumption ==
    /\ Workflows \subseteq Nat \ {NoWorkflow}
    /\ MaxMade \in Nat \ {0} /\ {MaxCalls, MaxVisits, MaxClicks} \subseteq Nat
    /\ Failing \subseteq Reads \cup Writes /\ InOrder \in BOOLEAN

VARIABLES
    db,      \* the rows of the server
    page,    \* the editor: its workflow, and "away", "loading", "shown", "error"
    current, \* currentWorkflowId of the store
    store,   \* what the page holds: the workflow store, and the component's name
    timer,   \* the autosave that is armed: << the captured plan >>, or << >>
    calls,   \* the requests in flight, in the order they were sent
    made, visits, clicks,  \* what has been made and done, up to the bounds
    stray,   \* history: the workflows whose page has held something of another
    resaved  \* history: the workflows that Save's second write gave an older plan

bounds == <<made, visits, clicks>>
vars == <<db, page, current, store, timer, calls, bounds, stray, resaved>>

\* A plan is the workflow it was made for and a number; the empty one is no one's.
Empty == <<NoWorkflow, 0>>
Plans == (Workflows \X (1 .. MaxMade)) \cup {Empty}
Untitled == 0
Row == [name: 0 .. MaxMade, dag: Plans, goal: 0 .. MaxMade, dir: {"", "p"},
        phase: {"draft", "planning", "review"}]
\* A new workflow, and one that has a plan.
Blank == [name |-> 1, dag |-> Empty, goal |-> 0, dir |-> "", phase |-> "draft"]
Planned(w) == [Blank EXCEPT !.dag = <<w, 1>>, !.dir = "p", !.phase = "planning"]

\* The row of a request is its body, and the answer once a read is served.
Call == [op: Reads \cup Writes, wf: Workflows, row: Row, live: BOOLEAN,
         st: {"sent", "ok", "failed"}]
Ask(op, w, row) == [op |-> op, wf |-> w, row |-> row, live |-> TRUE, st |-> "sent"]

TypeOK ==
    /\ db \in [Workflows -> Row]
    /\ page \in [wf: Workflows \cup {NoWorkflow}, at: {"away", "loading", "shown", "error"}]
    /\ current \in Workflows \cup {NoWorkflow} /\ store \in Row
    /\ timer \in {<<>>} \cup {<<d>> : d \in Plans}
    /\ calls \in Seq(Call) /\ Len(calls) <= MaxCalls
    /\ made \in 1 .. MaxMade /\ visits \in 0 .. MaxVisits /\ clicks \in 0 .. MaxClicks
    /\ stray \subseteq Workflows /\ resaved \subseteq Workflows

Init ==
    /\ \E new \in SUBSET Workflows :
         db = [w \in Workflows |-> IF w \in new THEN Blank ELSE Planned(w)]
    /\ page = [wf |-> NoWorkflow, at |-> "away"]
    /\ current = NoWorkflow /\ store = [Blank EXCEPT !.name = Untitled]
    /\ timer = <<>> /\ calls = <<>>
    /\ made = 1 /\ visits = 0 /\ clicks = 0
    /\ stray = {} /\ resaved = {}

-----------------------------------------------------------------------------
(* The server.                                                             *)

\* update_workflow: an empty plan does not replace one that is being worked on.
Protected(row, dag) == dag = Empty /\ row.phase = "planning"
Update(row, op, body) ==
    CASE op \in {"autosave", "save", "resave"} ->
           [row EXCEPT !.name = body.name,
                       !.dag = IF Protected(row, body.dag) THEN row.dag ELSE body.dag]
      [] op = "goal" -> [row EXCEPT !.goal = body.goal]
      [] op \in {"dir", "firstdir"} -> [row EXCEPT !.dir = body.dir]
      [] op = "assess" -> [row EXCEPT !.phase = IF row.dir = "" THEN "review" ELSE "planning"]
      [] OTHER -> row

\* Requests may overtake each other; writes do not if the connection is one.
MayServe(i) ==
    InOrder /\ calls[i].op \in Writes =>
        \A j \in 1 .. i - 1 : calls[j].op \in Writes => calls[j].st # "sent"

Serve(i) ==
    /\ calls[i].st = "sent" /\ MayServe(i)
    /\ LET c == calls[i]
           row == Update(db[c.wf], c.op, c.row)
           refused == c.op = "assess" /\ row.phase = "review"
           answer == IF c.op \in Reads THEN row ELSE c.row
       IN  /\ db' = [db EXCEPT ![c.wf] = row]
           /\ calls' = [calls EXCEPT ![i] =
                 [c EXCEPT !.st = IF refused THEN "failed" ELSE "ok", !.row = answer]]
    /\ UNCHANGED <<page, current, store, timer, bounds, stray, resaved>>

Fail(i) ==
    /\ calls[i].st = "sent" /\ calls[i].op \in Failing
    /\ calls' = [calls EXCEPT ![i].st = "failed"]
    /\ UNCHANGED <<db, page, current, store, timer, bounds, stray, resaved>>

-----------------------------------------------------------------------------
(* The page.                                                               *)

Room == Len(calls) < MaxCalls
Send(op, w, row) == Room /\ calls' = Append(calls, Ask(op, w, row))
\* The handler of an answer sends another request.
GoesOn(i, op, w, row) == calls' = Append(RemoveAt(calls, i), Ask(op, w, row))

\* The autosave effect: it runs when the plan or loading changes, and its
\* clean-up clears the timer of the plan before.
MutEager(at, dag) == <<dag>>
MutArmed(at, dag) == IF timer # <<>> THEN timer ELSE <<dag>>
Armed(at, dag) == IF at \in {"shown", "error"} THEN <<dag>> ELSE <<>>

\* The user opens a workflow: the component is new, the store is not.
Open(w) ==
    /\ page.at = "away" /\ visits < MaxVisits
    /\ visits' = visits + 1
    /\ page' = [wf |-> w, at |-> "loading"]
    /\ store' = [store EXCEPT !.name = Untitled]
    /\ timer' = Armed("loading", store.dag)
    /\ Send("load", w, Blank)
    /\ UNCHANGED <<db, current, made, clicks, stray, resaved>>

\* Leaving runs the clean-ups: cancelled is set and the autosave is dropped.
Leave ==
    /\ page.at # "away"
    /\ page' = [page EXCEPT !.at = "away"]
    /\ timer' = <<>>
    /\ calls' = [i \in DOMAIN calls |->
                   IF calls[i].op \in {"load", "runs"} THEN [calls[i] EXCEPT !.live = FALSE]
                                                       ELSE calls[i]]
    /\ UNCHANGED <<db, current, store, bounds, stray, resaved>>

\* loadWorkflow: the store takes a row, whichever page is shown.
MutHolds(w, row) ==
    /\ store' = [row EXCEPT !.name = store.name] /\ current' = w
    /\ stray' = IF page.at # "away" /\ page.wf # w THEN stray \cup {page.wf} ELSE stray
    /\ UNCHANGED timer
Holds(w, row) ==
    /\ store' = [row EXCEPT !.name = store.name] /\ current' = w
    /\ timer' = Armed(page.at, row.dag)
    /\ stray' = IF page.at # "away" /\ page.wf # w THEN stray \cup {page.wf} ELSE stray

\* The load effect: the workflow, then its runs; it stops when it is cancelled.
LoadAnswer(i, c) ==
    \/ /\ ~c.live
       /\ calls' = RemoveAt(calls, i)
       /\ UNCHANGED <<page, current, store, timer, stray>>
    \/ /\ c.live /\ c.op = "load" /\ c.st = "ok"
       /\ GoesOn(i, "runs", c.wf, Blank)
       /\ store' = c.row /\ current' = c.wf
       /\ UNCHANGED <<page, timer, stray>>
    \/ /\ c.live /\ (c.op = "runs" \/ c.st = "failed")
       /\ calls' = RemoveAt(calls, i)
       /\ page' = [page EXCEPT !.at = IF c.st = "ok" THEN "shown" ELSE "error"]
       /\ timer' = Armed(page'.at, store.dag)
       /\ stray' = IF c.st = "ok" THEN stray ELSE stray \cup {c.wf}
       /\ UNCHANGED <<current, store>>

\* What follows the answer to a request: Save saves once more by onSave, Run
\* reads the workflow again, and so does its catch; "" when nothing follows.
Follows(c) ==
    CASE c.op = "save" /\ c.st = "ok" -> "resave"
      [] c.op = "firstdir" /\ c.st = "ok" -> "assess"
      [] c.op = "trigger" -> IF c.st = "ok" THEN "refresh" ELSE "reread"
      [] c.op = "refresh" /\ c.st = "failed" -> "reread"
      [] OTHER -> ""
Answer(i) ==
    /\ calls[i].st # "sent"
    /\ LET c == calls[i] next == Follows(c)
       IN  \/ c.op \in {"load", "runs"} /\ LoadAnswer(i, c) /\ UNCHANGED resaved
           \/ /\ c.op \notin {"load", "runs"} /\ next # ""
              /\ GoesOn(i, next, c.wf, c.row)
              /\ resaved' = IF next = "resave" /\ <<c.wf, c.row.dag>> # <<page.wf, store.dag>>
                            THEN resaved \cup {c.wf} ELSE resaved
              /\ UNCHANGED <<page, current, store, timer, stray>>
           \/ /\ c.op \in {"refresh", "reread", "assess"} /\ c.st = "ok"
              /\ calls' = RemoveAt(calls, i)
              /\ Holds(c.wf, c.row) /\ UNCHANGED <<page, resaved>>
           \/ /\ c.op \in Writes \cup {"reread", "assess"} /\ next = ""
              /\ c.op \in Writes \/ c.st = "failed"
              /\ calls' = RemoveAt(calls, i)
              /\ UNCHANGED <<page, current, store, timer, stray, resaved>>
    /\ UNCHANGED <<db, bounds>>

\* Two seconds after the last change: the captured plan, the name of now.
Autosave ==
    /\ timer # <<>>
    /\ Send("autosave", page.wf, [store EXCEPT !.dag = timer[1]])
    /\ timer' = <<>>
    /\ UNCHANGED <<db, page, current, store, bounds, stray, resaved>>

-----------------------------------------------------------------------------
(* The user, and the chat that shares the store.                           *)

Editing == page.at = "shown" /\ made < MaxMade
\* Without a directory an overlay covers the page; the keyboard still works.
Uncovered == store.dir # ""
Make == made' = made + 1 /\ UNCHANGED <<visits, clicks>>
Click == page.at = "shown" /\ clicks < MaxClicks /\ clicks' = clicks + 1 /\ UNCHANGED <<made, visits>>

\* updateNodeData: the model of a node.
EditNode ==
    /\ Editing /\ Uncovered /\ store.dag # Empty /\ Make
    /\ store' = [store EXCEPT !.dag = <<store.dag[1], made + 1>>]
    /\ timer' = Armed(page.at, store'.dag)
    /\ UNCHANGED <<db, page, current, calls, stray, resaved>>

\* A new name is not a change that arms the autosave.
Rename ==
    /\ Editing /\ Uncovered /\ Make
    /\ store' = [store EXCEPT !.name = made + 1]
    /\ UNCHANGED <<db, page, current, timer, calls, stray, resaved>>

\* updateGoal: a request for every change of the text.
TypeGoal ==
    /\ Editing /\ Uncovered /\ Make
    /\ store' = [store EXCEPT !.goal = made + 1]
    /\ Send("goal", current, store')
    /\ UNCHANGED <<db, page, current, timer, stray, resaved>>

\* updateWorkspaceDirectory: the first one of a draft has the project assessed.
ChooseDirectory(d) ==
    /\ Click
    /\ store' = [store EXCEPT !.dir = d]
    /\ Send(IF store.dir = "" /\ d # "" /\ store.phase = "draft" THEN "firstdir" ELSE "dir",
            current, store')
    /\ UNCHANGED <<db, page, current, timer, stray, resaved>>

Save ==
    /\ Click /\ Send("save", page.wf, store)
    /\ UNCHANGED <<db, page, current, store, timer, stray, resaved>>

Run ==
    /\ Click /\ Send("trigger", page.wf, Blank)
    /\ UNCHANGED <<db, page, current, store, timer, stray, resaved>>

\* The chat: a draft is shown at once, a plan that is committed is read again.
Draft ==
    /\ Editing /\ Uncovered /\ Make
    /\ store' = [store EXCEPT !.dag = <<page.wf, made + 1>>]
    /\ timer' = Armed(page.at, store'.dag)
    /\ UNCHANGED <<db, page, current, calls, stray, resaved>>
Commit ==
    /\ Editing /\ Uncovered /\ Make
    /\ db' = [db EXCEPT ![page.wf].dag = <<page.wf, made + 1>>, ![page.wf].phase = "planning"]
    /\ Send("reread", page.wf, Blank)
    /\ UNCHANGED <<page, current, store, timer, stray, resaved>>

Next ==
    \/ \E w \in Workflows : Open(w)
    \/ Leave \/ Autosave
    \/ \E i \in DOMAIN calls : Serve(i) \/ Fail(i) \/ Answer(i)
    \/ EditNode \/ Rename \/ TypeGoal \/ Save \/ Run \/ Draft \/ Commit
    \/ \E d \in {"", "p"} : ChooseDirectory(d)

Spec == Init /\ [][Next]_vars

\* The server answers, the browser handles what is answered, timers expire.
Fairness ==
    /\ WF_vars(\E i \in DOMAIN calls : Serve(i))
    /\ WF_vars(\E i \in DOMAIN calls : Answer(i))
    /\ WF_vars(Autosave)
FairSpec == Spec /\ Fairness

-----------------------------------------------------------------------------
(* Properties.                                                             *)

\* Unless a failed load or a late answer has put something of another workflow
\* on its page, a workflow is only ever saved with its own plan: the store
\* still holds the workflow before while the page loads.
OwnPlan == \A w \in Workflows \ stray : db[w].dag[1] \in {w, NoWorkflow}

\* The writes of the page's plan that the server has yet to handle.
PlanWrites == {"autosave", "save", "resave"}
Unserved(i) == calls[i].wf = page.wf /\ calls[i].op \in PlanWrites /\ calls[i].st = "sent"

\* What the page shows is on its way to the server, behind any other plan, or there.
Underway ==
    \/ \E i \in DOMAIN calls : /\ Unserved(i) /\ calls[i].row.dag = store.dag
                               /\ \A j \in DOMAIN calls : j > i => ~Unserved(j)
    \/ db[page.wf].dag = store.dag /\ \A i \in DOMAIN calls : ~Unserved(i)

\* A shown page and the server never come apart for good: whatever plan an edit, a
\* late answer or another writer has put on either side, the autosave is armed with
\* the page's, or it is underway, or the server's is being read.  Marked pages are
\* left out, and an empty page once the server has begun to plan.
NeverApart ==
    page.at = "shown" /\ page.wf \notin stray \cup resaved =>
        \/ timer = <<store.dag>>
        \/ timer = <<>> /\ Underway
        \/ timer = <<>> /\ \E i \in DOMAIN calls :
               calls[i].wf = page.wf /\ calls[i].op = "reread" /\ calls[i].st # "failed"
        \/ timer = <<>> /\ store.dag = Empty /\ db[page.wf].phase # "draft"

\* When the user rests on a page, it shows the plan that the server has: the
\* autosave also follows a load, so that a stale answer does not keep them apart.
\* Save's second write, of what the page showed at the first, may; and the server
\* protects its plan from a page that an answer from before the plan has emptied.
Converges ==
    <>[](page.at = "shown" /\ page.wf \notin stray \cup resaved =>
            db[page.wf].dag = store.dag \/ Protected(db[page.wf], store.dag))

\* What does not hold: a plan of another workflow is saved after a failed load or
\* a late answer, writes overtake each other, an answer takes the goal back, and
\* leaving within two seconds of an edit drops it with the autosave's timer.
OwnPlanAlways == \A w \in Workflows : db[w].dag[1] \in {w, NoWorkflow}
GoalConverges == <>[](page.at = "shown" /\ page.wf \notin stray => db[page.wf].goal = store.goal)
LeftSaved == [][page.at # "away" /\ page'.at = "away" =>
                  timer = <<>> \/ db[page.wf].dag = timer[1]]_vars
NameKept == [][\A w \in Workflows : db'[w].name # Untitled]_vars
=============================================================================
