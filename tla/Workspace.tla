----------------------------- MODULE Workspace -----------------------------
(***************************************************************************)
(* The files of a project and their copies: the user's directory, the      *)
(* sandboxes copied from it (core/local_sandbox.py), the node containers   *)
(* in which the agents write (core/node_runner.py), the merge of a         *)
(* container into its sandbox (sandbox/checkpoint.py) and the sync of a    *)
(* sandbox back to the user's directory.  Sandboxes belong to the          *)
(* activations of runs (core/director_loop.py) and, for one step, to       *)
(* restarted tasks (api/tasks.py).                                         *)
(*                                                                         *)
(* A version of a file is its time of modification, its author and one bit *)
(* of its size; every copy the code makes keeps the time (shutil.copy2).   *)
(* A director's .mas is a link to the user's, so that its containers       *)
(* outlive its sandbox; a restarted task has its own.                      *)
(***************************************************************************)
EXTENDS Integers, FiniteSets

CONSTANTS
    Files,
    Nodes,        \* nodes of the workflow
    Writes,       \* per node: the files that its agent may write
    Directors,    \* runs on the user's directory, by their sandboxes' names
    Restarts,     \* restarted or reassigned tasks, by their sandboxes' names
    User,
    Quick,        \* may a step end within two seconds of the last sync?
    IOMayFail,    \* may copies fail?
    MaxVersions,  \* BOUND: writes of files
    MaxStops      \* BOUND: crashes of the process

Sandboxes == Directors \cup Restarts

ASSUME WorkspaceConstants ==
    /\ User \notin Sandboxes
    /\ Directors \cap Restarts = {}
    /\ Writes \in [Nodes -> SUBSET Files]
    /\ MaxVersions \in Nat
    /\ MaxStops \in Nat
    /\ Quick \in BOOLEAN
    /\ IOMayFail \in BOOLEAN

VARIABLES
    clock,      \* writes so far
    user,       \* the user's directory: a version per file
    work,       \* per sandbox: its workspace directory
    box,        \* per owner of a .mas, node and file: containers/<node>
    st,         \* per sandbox: where its activation or task is
    recent,     \* per sandbox: was it synced in the last two seconds?
    git,        \* per sandbox: its git directories
    done,       \* history: what completed steps wrote themselves, by sandbox
    half,       \* history: the writes that no completed step stands behind yet
    stops

vars == <<clock, user, work, box, st, recent, git, done, half, stops>>

Missing == [t |-> 0, by |-> User, big |-> FALSE]
Empty == [f \in Files |-> Missing]

\* SANDBOX/workspace/.mas: the link to the user's, or a directory of its own.
Home(s) == IF s \in Directors THEN User ELSE s
Container(s) == box[Home(s)][st[s].node]

NoGit == [meta |-> "none", tree |-> "none", committed |-> FALSE]

\* A file that was just written.
NewVersion(who, big) == [t |-> clock + 1, by |-> who, big |-> big]

\* Nobody's locals: the activation at a point between two steps.  wrote is
\* history: the files that the agent has written in this step.
At(pc) == [pc |-> pc, node |-> "none", wrote |-> {}, ok |-> FALSE, clean |-> FALSE]

Open(s) == st[s].pc \notin {"none", "gone", "kept"}

-----------------------------------------------------------------------------
\* MutTakes: a file is copied when it is newer and of another size.
MutTakes(src, dst) ==
    src # Missing /\ (dst = Missing \/ (src.big # dst.big /\ src.t > dst.t))
\* _sync_changed_files copies a file that is new, of another size or newer.
Takes(src, dst) ==
    src # Missing /\ (dst = Missing \/ src.big # dst.big \/ src.t > dst.t)

\* MutMerges: the container of a failed node is merged too.
MutMerges(s) == TRUE
\* execute_node: the container of a node that completed is merged.
Merges(s) == st[s].ok

\* MutReregistered: the user's files are copied into the sandbox again.
MutReregistered(d) ==
    [f \in Files |-> IF user[f] # Missing THEN user[f] ELSE work[d][f]]
\* re_register leaves the files alone.
Reregistered(d) == work[d]

\* Which git directory _resolve_paths selects, and whether git works in it:
\* create() makes sandbox-meta/.git an empty directory.
Selected(s) == IF git[s].meta # "none" THEN git[s].meta ELSE git[s].tree

\* Which files a copying loop gets through.
Copied == IF IOMayFail THEN SUBSET Files ELSE {Files}

-----------------------------------------------------------------------------
Init ==
    /\ clock = 0
    /\ user = Empty
    /\ work = [s \in Sandboxes |-> Empty]
    /\ box = [h \in {User} \cup Restarts |-> [n \in Nodes |-> Empty]]
    /\ st = [s \in Sandboxes |-> At("none")]
    /\ recent = [s \in Sandboxes |-> FALSE]
    /\ git = [s \in Sandboxes |-> NoGit]
    /\ done = [s \in Sandboxes |-> [f \in Files |-> {}]]
    /\ half = {}
    /\ stops = 0

\* The user saves a file in the project directory.
UserEdits(f, big) ==
    /\ clock < MaxVersions
    /\ clock' = clock + 1
    /\ user' = [user EXCEPT ![f] = NewVersion(User, big)]
    /\ UNCHANGED <<work, box, st, recent, git, done, half, stops>>

\* LocalSandbox.create, for a run (also one that is resumed after its sandbox
\* was destroyed) or, with no template and no workspace, for a task.
Create(s) ==
    /\ st[s].pc = "none" \/ (s \in Directors /\ st[s].pc = "gone")
    /\ st' = [st EXCEPT ![s] = At("idle")]
    /\ work' = [work EXCEPT ![s] = IF s \in Directors THEN user ELSE Empty]
    /\ git' = [git EXCEPT ![s] =
                 [meta |-> "empty",
                  tree |-> IF s \in Directors THEN "repo" ELSE "none",
                  committed |-> FALSE]]
    /\ UNCHANGED <<clock, user, box, recent, done, half, stops>>

\* A resumed or recovered run whose sandbox is still on the disk.
ReRegister(d) ==
    /\ st[d].pc = "kept"
    /\ st' = [st EXCEPT ![d] = At("idle")]
    /\ work' = [work EXCEPT ![d] = Reregistered(d)]
    /\ UNCHANGED <<clock, user, box, recent, git, done, half, stops>>

\* git add, git commit: they fail in a directory that is no repository.
Commit(s) ==
    git' = [git EXCEPT ![s].committed = Selected(s) = "repo"]

\* execute_node up to the agent: the container, the commit before the node.
StartNode(s, n) ==
    /\ st[s].pc = "idle"
    /\ st' = [st EXCEPT ![s].pc = "agent", ![s].node = n]
    /\ recent' = [recent EXCEPT ![s] = recent[s] /\ Quick]
    /\ Commit(s)
    /\ UNCHANGED <<clock, user, work, box, done, half, stops>>

\* The agent's write, edit and shell tools, in its container.
AgentWrites(s, f, big) ==
    /\ st[s].pc = "agent"
    /\ f \in Writes[st[s].node]
    /\ clock < MaxVersions
    /\ clock' = clock + 1
    /\ box' = [box EXCEPT ![Home(s)][st[s].node][f] = NewVersion(s, big)]
    /\ half' = half \cup {clock + 1}
    /\ st' = [st EXCEPT ![s].wrote = @ \cup {f}]
    /\ UNCHANGED <<user, work, recent, git, done, stops>>

\* What s has written of what is in its container, in this step or an earlier one.
Left(s) == {Container(s)[f].t : f \in {g \in Files : Container(s)[g].by = s}}

\* The agent succeeds - it had the whole container before it, also what earlier
\* steps of its node had left - or it fails or is cancelled.
AgentEnds(s, ok) ==
    /\ st[s].pc = "agent"
    /\ st' = [st EXCEPT ![s].pc = "merge", ![s].ok = ok]
    /\ half' = IF ok THEN half \ Left(s) ELSE half
    /\ UNCHANGED <<clock, user, work, box, recent, git, done, stops>>

\* commit_node_changes and merge_node_to_main: every file of the container,
\* whichever step of the node wrote it.
Merge(s) ==
    /\ st[s].pc = "merge"
    /\ st' = [st EXCEPT ![s].pc = "sync", ![s].wrote = {}]
    /\ IF Merges(s)
       THEN /\ \E S \in Copied :
                 work' = [work EXCEPT ![s] = [f \in Files |->
                            IF f \in S /\ Container(s)[f] # Missing
                            THEN Container(s)[f] ELSE work[s][f]]]
            /\ Commit(s)
       ELSE UNCHANGED <<work, git>>
    /\ done' = [done EXCEPT ![s] = [f \in Files |->
                  IF st[s].ok /\ f \in st[s].wrote /\ Container(s)[f].by = s
                  THEN done[s][f] \cup {Container(s)[f]} ELSE done[s][f]]]
    /\ UNCHANGED <<clock, user, box, recent, half, stops>>

\* sync_back: skipped within two seconds of the last one; a failure is
\* reported as False, which no caller looks at.
SyncBack(d) ==
    IF recent[d] THEN UNCHANGED <<user, recent>>
    ELSE \E S \in Copied, synced \in BOOLEAN :
           /\ synced \/ IOMayFail
           /\ user' = [f \in Files |->
                         IF f \in S /\ Takes(work[d][f], user[f])
                         THEN work[d][f] ELSE user[f]]
           /\ recent' = [recent EXCEPT ![d] = synced]

\* LocalSandbox.destroy; the link is removed, not what it leads to.
Destroy(s) ==
    /\ st' = [st EXCEPT ![s] = At("gone")]
    /\ work' = [work EXCEPT ![s] = Empty]
    /\ box' = [box EXCEPT ![Home(s)] =
                 IF s \in Directors THEN box[User] ELSE [n \in Nodes |-> Empty]]
    /\ git' = [git EXCEPT ![s] = NoGit]

\* execute_node's finally, for a run: the step is over.
NodeSync(d) ==
    /\ d \in Directors
    /\ st[d].pc = "sync"
    /\ SyncBack(d)
    /\ st' = [st EXCEPT ![d] = At("idle")]
    /\ UNCHANGED <<clock, work, box, git, done, half, stops>>

\* execute_node's finally, for a task: no workspace, so nothing to sync to.
TaskEnds(r) ==
    /\ r \in Restarts
    /\ st[r].pc = "sync"
    /\ Destroy(r)
    /\ UNCHANGED <<clock, user, recent, done, half, stops>>

\* The director's loop ends, cleanly or not.
LoopEnds(d, clean) ==
    /\ d \in Directors
    /\ st[d].pc = "idle"
    /\ st' = [st EXCEPT ![d].pc = "final", ![d].clean = clean]
    /\ UNCHANGED <<clock, user, work, box, recent, git, done, half, stops>>

\* The loop's finally: the last sync.
FinalSync(d) ==
    /\ st[d].pc = "final"
    /\ SyncBack(d)
    /\ st' = [st EXCEPT ![d].pc = "close"]
    /\ UNCHANGED <<clock, work, box, git, done, half, stops>>

\* The loop's finally: a clean finish destroys the sandbox.
Close(d) ==
    /\ st[d].pc = "close"
    /\ IF st[d].clean
       THEN /\ Destroy(d)
            /\ recent' = [recent EXCEPT ![d] = FALSE]
       ELSE /\ st' = [st EXCEPT ![d] = At("kept")]
            /\ UNCHANGED <<work, box, git, recent>>
    /\ UNCHANGED <<clock, user, done, half, stops>>

\* Two seconds pass.
SyncAges(d) ==
    /\ recent[d]
    /\ recent' = [recent EXCEPT ![d] = FALSE]
    /\ UNCHANGED <<clock, user, work, box, st, git, done, half, stops>>

\* The process ends; the directories stay.
Crash ==
    /\ stops < MaxStops
    /\ stops' = stops + 1
    /\ st' = [s \in Sandboxes |->
                IF Open(s) THEN At("kept") ELSE st[s]]
    /\ recent' = [s \in Sandboxes |-> FALSE]
    /\ UNCHANGED <<clock, user, work, box, git, done, half>>

Next ==
    \/ \E f \in Files, big \in BOOLEAN : UserEdits(f, big)
    \/ \E s \in Sandboxes : Create(s) \/ Merge(s)
    \/ \E s \in Sandboxes, n \in Nodes : StartNode(s, n)
    \/ \E s \in Sandboxes, f \in Files, big \in BOOLEAN : AgentWrites(s, f, big)
    \/ \E s \in Sandboxes, ok \in BOOLEAN : AgentEnds(s, ok)
    \/ \E r \in Restarts : TaskEnds(r)
    \/ \E d \in Directors :
         \/ ReRegister(d) \/ NodeSync(d) \/ FinalSync(d) \/ Close(d)
         \/ SyncAges(d)
         \/ \E clean \in BOOLEAN : LoopEnds(d, clean)
    \/ Crash

Spec == Init /\ [][Next]_vars

-----------------------------------------------------------------------------
Versions == [t : 0 .. MaxVersions, by : Sandboxes \cup {User}, big : BOOLEAN]
Tree == [Files -> Versions]

\* Every variable has its type.  The steps are those of execute_node
\* (node_runner.py) and of the loop's finally (director_loop.py).
TypeOK ==
    /\ clock \in 0 .. MaxVersions
    /\ user \in Tree
    /\ work \in [Sandboxes -> Tree]
    /\ box \in [{User} \cup Restarts -> [Nodes -> Tree]]
    /\ st \in [Sandboxes ->
                 [pc : {"none", "idle", "agent", "merge", "sync", "final",
                        "close", "kept", "gone"},
                  node : Nodes \cup {"none"}, wrote : SUBSET Files,
                  ok : BOOLEAN, clean : BOOLEAN]]
    /\ recent \in [Sandboxes -> BOOLEAN]
    /\ git \in [Sandboxes -> [meta : {"none", "empty"}, tree : {"none", "repo"},
                              committed : BOOLEAN]]
    /\ done \in [Sandboxes -> [Files -> SUBSET Versions]]
    /\ half \in SUBSET (1 .. MaxVersions)
    /\ stops \in 0 .. MaxStops

\* What a step left half done gets out of its container only with a later step
\* of its node that completes, whatever is merged, synced, destroyed and taken up
\* again meanwhile (checkpoint.py:163 copies all that the container holds).
NothingHalfDone ==
    \A f \in Files : /\ user[f].t \notin half
                     /\ \A s \in Sandboxes : work[s][f].t \notin half

\* What a completed step of s left is in the user's directory or in a sandbox
\* that is still there, unless something newer is.
SafeWork(s) ==
    \A f \in Files : \A v \in done[s][f] :
        user[f].t >= v.t \/ (st[s].pc # "gone" /\ work[s][f].t >= v.t)

\* No completed work of a run is lost, through syncs that skip files,
\* destroyed, kept and re-registered sandboxes.
Kept == \A d \in Directors : SafeWork(d)

\* A later step of a run builds on what its earlier steps completed: no merge,
\* no re-registration and no new sandbox puts an older file in its place.
StepsBuildOn ==
    \A d \in Directors : Open(d) =>
        \A f \in Files : \A v \in done[d][f] : work[d][f].t >= v.t

\* "changed files from container" (checkpoint.py:144): what leaves a container
\* was written by a step that completed, and not by a failed one before it.
OnlyFinishedWork ==
    \A f \in Files : user[f].by # User => user[f] \in done[user[f].by][f]

\* What a restarted task completed is not lost (api/tasks.py:166).
RestartKept == \A r \in Restarts : SafeWork(r)

\* When a node has completed, its changes are committed.
CheckpointTaken ==
    \A d \in Directors : st[d].pc = "sync" /\ st[d].ok => git[d].committed

\* A sync never replaces a file of the user's directory by an older one.
NeverOlder == [][\A f \in Files : user'[f].t >= user[f].t]_vars
=============================================================================
