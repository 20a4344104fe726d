----------------------------- MODULE FilePanel -----------------------------
(***************************************************************************)
(* The file browser of the editor and the directory picker: the tree of    *)
(* the workspace, its folders, the tabs of opened files, the debounced     *)
(* validation of a typed path and the listing of a server's directory.     *)
(* No answer is compared with what is shown when it comes.                 *)
(***************************************************************************)
EXTENDS Naturals, Sequences, SequencesExt

CONSTANTS
    Dirs,       \* workspace directories, numbered from 1; all have the folder and Files
    Files,      \* the paths of the files
    MaxActs,    \* bound on what the user does
    MaxFetches, \* bound on the requests in flight
    Answered    \* "in order", or "any order"

NoDir == 0
ASSUME FilePanelAssumption ==
    /\ Dirs \subseteq Nat \ {NoDir} /\ {MaxActs, MaxFetches} \subseteq Nat
    /\ Answered \in {"in order", "any order"}

VARIABLES
    dir,       \* workspaceDirectory: the one of the store, and the path in the picker
    tree,      \* entries: the workspaces that the tree and its folder come from
    unfolded,  \* the folder is unfolded
    tabs,      \* the open tabs: a path, and the workspace it was read from
    active,    \* activeTab: a path, or ""
    timer,     \* the validation waits for its delay
    verdict,   \* the path that the shown validation is about
    listing,   \* the server's directory that the picker shows
    fetches,   \* the requests in flight
    acts

fvars == <<dir, tree, unfolded, tabs, active, timer, verdict, listing, fetches, acts>>

Places == Dirs \cup {NoDir}
Paths == {tabs[i].path : i \in DOMAIN tabs}
FTypeOK ==
    /\ dir \in Places /\ tree \in [root: Places, folder: Places] /\ unfolded \in BOOLEAN
    /\ tabs \in Seq([path: Files, of: Dirs]) /\ active \in Files \cup {""}
    /\ timer \in BOOLEAN /\ verdict \in Places /\ listing \in Places
    /\ fetches \in Seq([op: {"tree", "folder", "file", "check", "list"}, of: Dirs,
                        path: Files \cup {""}, st: {"sent", "ok", "failed"}])
    /\ acts \in 0 .. MaxActs

FInit ==
    /\ dir = NoDir /\ tree = [root |-> NoDir, folder |-> NoDir] /\ unfolded = FALSE
    /\ tabs = <<>> /\ active = "" /\ timer = FALSE /\ verdict = NoDir /\ listing = NoDir
    /\ fetches = <<>> /\ acts = 0

Act == acts < MaxActs /\ acts' = acts + 1
Ask(op, d, path) ==
    /\ Len(fetches) < MaxFetches
    /\ fetches' = Append(fetches, [op |-> op, of |-> d, path |-> path, st |-> "sent"])

-----------------------------------------------------------------------------
(* The panel.                                                              *)

\* A directory is typed or chosen: the tree of the new one is loaded, and the
\* timer of the validation starts again.  Without one nothing is loaded, and the
\* validation is cleared.
MutReload(d) == dir = NoDir
Reload(d) == d # NoDir
SetDirectory(d) ==
    /\ Act /\ d # dir /\ dir' = d
    /\ IF Reload(d) THEN Ask("tree", d, "") ELSE UNCHANGED fetches
    /\ timer' = (d # NoDir)
    /\ verdict' = IF d = NoDir THEN NoDir ELSE verdict
    /\ UNCHANGED <<tree, unfolded, tabs, active, listing>>
Refresh ==
    /\ Act /\ dir # NoDir /\ Ask("tree", dir, "")
    /\ UNCHANGED <<dir, tree, unfolded, tabs, active, timer, verdict, listing>>

\* handleToggle: the folder's children are fetched when it is unfolded.
Toggle ==
    /\ Act /\ dir # NoDir /\ tree.root # NoDir
    /\ unfolded' = ~unfolded
    /\ IF unfolded THEN UNCHANGED fetches ELSE Ask("folder", dir, "")
    /\ UNCHANGED <<dir, tree, tabs, active, timer, verdict, listing>>

\* handleSelectFile: a file with a tab is not read again.
SelectFile(f) ==
    /\ Act /\ dir # NoDir /\ tree.root # NoDir
    /\ IF f \in Paths THEN active' = f /\ UNCHANGED fetches
                      ELSE Ask("file", dir, f) /\ UNCHANGED active
    /\ UNCHANGED <<dir, tree, unfolded, tabs, timer, verdict, listing>>

\* closeTab: all tabs of the path; the last of the others becomes active.
TabsBut(f) == SelectSeq(tabs, LAMBDA tab : tab.path # f)
Fallback(f) == IF TabsBut(f) # <<>> THEN Last(TabsBut(f)).path ELSE ""
CloseTab(f) ==
    /\ Act /\ f \in Paths
    /\ tabs' = TabsBut(f)
    /\ active' = IF active = f THEN Fallback(f) ELSE active
    /\ UNCHANGED <<dir, tree, unfolded, timer, verdict, listing, fetches>>

-----------------------------------------------------------------------------
(* The picker.                                                             *)

\* The path that the timer has captured is the one typed last.
Validate ==
    /\ timer /\ timer' = FALSE /\ Ask("check", dir, "")
    /\ UNCHANGED <<dir, tree, unfolded, tabs, active, verdict, listing, acts>>
Browse(d) ==
    /\ Act /\ Ask("list", d, "")
    /\ UNCHANGED <<dir, tree, unfolded, tabs, active, timer, verdict, listing>>
\* selectBrowserPath: the directory that is shown, whichever was clicked last.
ChooseListed ==
    /\ listing # NoDir /\ SetDirectory(listing)

-----------------------------------------------------------------------------
(* The answers.                                                            *)

FirstOpen(i) == Answered = "in order" => \A j \in 1 .. i - 1 : fetches[j].st # "sent"
ServeFetch(i) ==
    /\ fetches[i].st = "sent" /\ FirstOpen(i)
    /\ \E st \in {"ok", "failed"} : fetches' = [fetches EXCEPT ![i].st = st]
    /\ UNCHANGED <<dir, tree, unfolded, tabs, active, timer, verdict, listing, acts>>

\* loadTree, injectChildren, the new tab, the validation, the listing.  A failed
\* load empties the tree, a failed check clears the validation.
GotTree(q) == IF q.st = "ok" THEN [root |-> q.of, folder |-> q.of]
                             ELSE [root |-> NoDir, folder |-> NoDir]
GotFolder(q) == IF q.st = "ok" /\ tree.root # NoDir THEN [tree EXCEPT !.folder = q.of] ELSE tree
FetchAnswer(i) ==
    /\ fetches[i].st # "sent"
    /\ Answered = "in order" => i = 1
    /\ fetches' = RemoveAt(fetches, i)
    /\ LET q == fetches[i] ok == q.st = "ok"
       IN  /\ tree' = CASE q.op = "tree" -> GotTree(q)
                        [] q.op = "folder" -> GotFolder(q)
                        [] OTHER -> tree
           /\ tabs' = IF q.op = "file" /\ ok THEN Append(tabs, [path |-> q.path, of |-> q.of]) ELSE tabs
           /\ active' = IF q.op = "file" /\ ok THEN q.path ELSE active
           /\ verdict' = IF q.op = "check" THEN (IF ok THEN q.of ELSE NoDir) ELSE verdict
           /\ listing' = IF q.op = "list" /\ ok THEN q.of ELSE listing
    /\ UNCHANGED <<dir, unfolded, timer, acts>>

FNext ==
    \/ \E d \in Places : SetDirectory(d)
    \/ \E d \in Dirs : Browse(d)
    \/ \E f \in Files : SelectFile(f) \/ CloseTab(f)
    \/ Refresh \/ Toggle \/ Validate \/ ChooseListed
    \/ \E i \in DOMAIN fetches : ServeFetch(i) \/ FetchAnswer(i)

FFairness ==
    /\ WF_fvars(\E i \in DOMAIN fetches : ServeFetch(i) \/ FetchAnswer(i))
    /\ WF_fvars(Validate)

-----------------------------------------------------------------------------
(* Properties.                                                             *)

\* If answers come in the order of the requests, the panel ends with the tree and
\* the folder of the workspace, or with none after a failure, and the picker's
\* verdict is about its path.
PanelSettles ==
    <>[](dir # NoDir => /\ tree.root \in {dir, NoDir} /\ tree.folder \in {tree.root, dir}
                        /\ verdict \in {dir, NoDir})

\* What does not hold: one tab for a path.
OneTab == \A i, j \in DOMAIN tabs : tabs[i].path = tabs[j].path => i = j
=============================================================================
