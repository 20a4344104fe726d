--------------------------- MODULE Agents_proofs ---------------------------
(***************************************************************************)
(* Proofs about the agents' files and the agents: Workspace and AgentRun.  *)
(*                                                                         *)
(* Workspace.  The types, with the fact that an activation whose agent is  *)
(* at work has a node, are inductive.  For NothingHalfDone one has to know *)
(* whose files a container holds - with a single director in the user's    *)
(* directory, nobody but its owner writes there - and that a time is given *)
(* to one write.  For Kept and StepsBuildOn one has to know how new what a *)
(* container holds is.                                                     *)
(***************************************************************************)
EXTENDS Workspace, AgentRun, TLAPS

\* An agent at work, or just back, has a node.
InStep == \A s \in Sandboxes : st[s].pc \in {"agent", "merge"} => st[s].node \in Nodes

TInv == TypeOK /\ InStep

LEMMA Nothing == Missing \in Versions /\ Empty \in Tree
BY WorkspaceConstants DEF Missing, Empty, Versions, Tree

LEMMA Homes ==
  ASSUME NEW s \in Sandboxes
  PROVE  Home(s) \in {User} \cup Restarts
BY DEF Home, Sandboxes

\* A version just written is one, as long as the clock has not run out.
LEMMA Written ==
  ASSUME TypeOK, clock < MaxVersions,
         NEW who \in Sandboxes \cup {User}, NEW big \in BOOLEAN
  PROVE  /\ NewVersion(who, big) \in Versions
         /\ NewVersion(who, big).by = who
         /\ clock + 1 \in 0 .. MaxVersions
BY WorkspaceConstants DEF TypeOK, NewVersion, Versions

\* What a sync does to the user's directory: each file stays or is the
\* sandbox's.
LEMMA Synced ==
  ASSUME TypeOK, NEW d \in Sandboxes, SyncBack(d)
  PROVE  /\ user' \in Tree
         /\ \A f \in Files : user'[f] \in {user[f], work[d][f]}
         /\ recent' \in [Sandboxes -> BOOLEAN]
<1>1. CASE recent[d]
  BY <1>1 DEF SyncBack, TypeOK, Tree
<1>2. CASE ~recent[d]
  <2>1. PICK S \in Copied, synced \in BOOLEAN :
          /\ user' = [f \in Files |->
                        IF f \in S /\ Takes(work[d][f], user[f])
                        THEN work[d][f] ELSE user[f]]
          /\ recent' = [recent EXCEPT ![d] = synced]
    BY <1>2 DEF SyncBack
  <2> QED BY <2>1 DEF TypeOK, Tree
<1> QED BY <1>1, <1>2

LEMMA Destroyed ==
  ASSUME TypeOK, NEW s \in Sandboxes, Destroy(s)
  PROVE  /\ work' \in [Sandboxes -> Tree]
         /\ box' \in [{User} \cup Restarts -> [Nodes -> Tree]]
         /\ git' \in [Sandboxes -> [meta : {"none", "empty"},
                                    tree : {"none", "repo"}, committed : BOOLEAN]]
         /\ st' = [st EXCEPT ![s] = At("gone")]
<1>1. work' \in [Sandboxes -> Tree]
  BY Nothing DEF Destroy, TypeOK
<1>2. (IF s \in Directors THEN box[User] ELSE [n \in Nodes |-> Empty]) \in [Nodes -> Tree]
  BY Nothing DEF TypeOK
<1>3. box' \in [{User} \cup Restarts -> [Nodes -> Tree]]
  BY <1>2, Homes DEF Destroy, TypeOK
<1>4. NoGit \in [meta : {"none", "empty"}, tree : {"none", "repo"}, committed : BOOLEAN]
  BY DEF NoGit
<1> QED BY <1>1, <1>3, <1>4 DEF Destroy, TypeOK

LEMMA Committed ==
  ASSUME TypeOK, NEW s \in Sandboxes, Commit(s)
  PROVE  git' \in [Sandboxes -> [meta : {"none", "empty"},
                                 tree : {"none", "repo"}, committed : BOOLEAN]]
<1> DEFINE Gits == [meta : {"none", "empty"}, tree : {"none", "repo"},
                    committed : BOOLEAN]
           good == Selected(s) = "repo"
<1>1. git \in [Sandboxes -> Gits] /\ good \in BOOLEAN
  BY DEF TypeOK
<1>2. git' = [git EXCEPT ![s].committed = good]
  BY DEF Commit
<1> HIDE DEF good
<1> QED BY <1>1, <1>2

\* The activations' records after a step that moves one of them, and after it
\* left its step.
States == [pc : {"none", "idle", "agent", "merge", "sync", "final",
                 "close", "kept", "gone"},
           node : Nodes \cup {"none"}, wrote : SUBSET Files,
           ok : BOOLEAN, clean : BOOLEAN]

LEMMA Record ==
  ASSUME TypeOK, NEW s \in Sandboxes
  PROVE  st[s] \in States /\ st[s].wrote \in SUBSET Files
BY DEF TypeOK, States

LEMMA Rests ==
  ASSUME TInv, NEW s \in Sandboxes, NEW pc \in {"none", "idle", "kept", "gone"},
         st' = [st EXCEPT ![s] = At(pc)]
  PROVE  st' \in [Sandboxes -> States] /\ InStep'
<1>1. At(pc) \in States /\ At(pc).pc \notin {"agent", "merge"}
  BY DEF At, States
<1> QED BY <1>1 DEF TInv, TypeOK, InStep, States

LEMMA Moves ==
  ASSUME TInv, NEW s \in Sandboxes, NEW r \in States,
         r.pc \in {"agent", "merge"} => r.node \in Nodes,
         st' = [st EXCEPT ![s] = r]
  PROVE  st' \in [Sandboxes -> States] /\ InStep'
BY DEF TInv, TypeOK, InStep, States

LEMMA InitTypes == Init => TInv
<1> SUFFICES ASSUME Init PROVE TInv
  OBVIOUS
<1>1. At("none") \in States /\ At("none").pc = "none"
  BY DEF At, States
<1>2. NoGit \in [meta : {"none", "empty"}, tree : {"none", "repo"}, committed : BOOLEAN]
  BY DEF NoGit
<1> QED BY <1>1, <1>2, Nothing, WorkspaceConstants DEF Init, TInv, TypeOK, InStep, States

LEMMA NextTypes == TInv /\ [Next]_vars => TInv'
<1> SUFFICES ASSUME TInv, [Next]_vars PROVE TInv'
  OBVIOUS
<1> USE DEF TInv
<1>1. ASSUME NEW f \in Files, NEW big \in BOOLEAN, UserEdits(f, big)
      PROVE  TInv'
  <2>1. clock' \in 0 .. MaxVersions /\ user' \in Tree
    BY <1>1, Written DEF UserEdits, TypeOK, Tree
  <2> QED BY <1>1, <2>1 DEF UserEdits, TypeOK, InStep
<1>2. ASSUME NEW s \in Sandboxes, Create(s)
      PROVE  TInv'
  <2>1. st' \in [Sandboxes -> States] /\ InStep'
    BY <1>2, Rests DEF Create
  <2>2. work' \in [Sandboxes -> Tree]
    BY <1>2, Nothing DEF Create, TypeOK
  <2>3. git' \in [Sandboxes -> [meta : {"none", "empty"},
                                tree : {"none", "repo"}, committed : BOOLEAN]]
    BY <1>2 DEF Create, TypeOK
  <2> QED BY <1>2, <2>1, <2>2, <2>3 DEF Create, TypeOK, States
<1>3. ASSUME NEW s \in Sandboxes, Merge(s)
      PROVE  TInv'
  <2>1. Container(s) \in Tree
    BY <1>3, Homes DEF Merge, Container, TypeOK, InStep
  <2>2. work' \in [Sandboxes -> Tree]
    <3>1. CASE Merges(s)
      <4>1. PICK S \in Copied :
              work' = [work EXCEPT ![s] = [f \in Files |->
                         IF f \in S /\ Container(s)[f] # Missing
                         THEN Container(s)[f] ELSE work[s][f]]]
        BY <1>3, <3>1 DEF Merge
      <4>2. [f \in Files |-> IF f \in S /\ Container(s)[f] # Missing
                             THEN Container(s)[f] ELSE work[s][f]] \in Tree
        BY <2>1 DEF TypeOK, Tree
      <4> QED BY <4>1, <4>2 DEF TypeOK
    <3> QED BY <1>3, <3>1 DEF Merge, TypeOK
  <2>3. git' \in [Sandboxes -> [meta : {"none", "empty"},
                                tree : {"none", "repo"}, committed : BOOLEAN]]
    BY <1>3, Committed DEF Merge, TypeOK
  <2>4. done' \in [Sandboxes -> [Files -> SUBSET Versions]]
    <3>1. [f \in Files |-> IF st[s].ok /\ f \in st[s].wrote /\ Container(s)[f].by = s
                           THEN done[s][f] \cup {Container(s)[f]} ELSE done[s][f]]
            \in [Files -> SUBSET Versions]
      BY <2>1 DEF TypeOK, Tree
    <3> QED BY <1>3, <3>1 DEF Merge, TypeOK
  <2>5. st' \in [Sandboxes -> States] /\ InStep'
    <3> DEFINE r == [st[s] EXCEPT !.pc = "sync", !.wrote = {}]
    <3>1. r \in States /\ r.pc = "sync"
      BY Record DEF States
    <3>2. st' = [st EXCEPT ![s] = r]
      BY <1>3 DEF Merge
    <3> HIDE DEF r
    <3> QED BY <3>1, <3>2, Moves
  <2> QED BY <1>3, <2>2, <2>3, <2>4, <2>5 DEF Merge, TypeOK, States
<1>4. ASSUME NEW s \in Sandboxes, NEW n \in Nodes, StartNode(s, n)
      PROVE  TInv'
  <2>1. st' \in [Sandboxes -> States] /\ InStep'
    <3> DEFINE r == [st[s] EXCEPT !.pc = "agent", !.node = n]
    <3>1. r \in States /\ r.node = n
      BY Record DEF States
    <3>2. st' = [st EXCEPT ![s] = r]
      BY <1>4 DEF StartNode, TypeOK
    <3> HIDE DEF r
    <3> QED BY <3>1, <3>2, Moves
  <2>2. git' \in [Sandboxes -> [meta : {"none", "empty"},
                                tree : {"none", "repo"}, committed : BOOLEAN]]
    BY <1>4, Committed DEF StartNode
  <2>3. recent' \in [Sandboxes -> BOOLEAN]
    BY <1>4, WorkspaceConstants DEF StartNode, TypeOK
  <2> QED BY <1>4, <2>1, <2>2, <2>3 DEF StartNode, TypeOK, States
<1>5. ASSUME NEW s \in Sandboxes, NEW f \in Files, NEW big \in BOOLEAN,
             AgentWrites(s, f, big)
      PROVE  TInv'
  <2>1. NewVersion(s, big) \in Versions /\ clock + 1 \in 0 .. MaxVersions
    BY <1>5, Written DEF AgentWrites
  <2>2. Home(s) \in {User} \cup Restarts /\ st[s].node \in Nodes
    BY <1>5, Homes DEF AgentWrites, InStep
  <2>3. box' \in [{User} \cup Restarts -> [Nodes -> Tree]]
    BY <1>5, <2>1, <2>2 DEF AgentWrites, TypeOK, Tree
  <2>4. st' \in [Sandboxes -> States] /\ InStep'
    <3> DEFINE r == [st[s] EXCEPT !.wrote = st[s].wrote \cup {f}]
    <3>1. r \in States /\ r.node = st[s].node
      BY Record DEF States
    <3>2. st' = [st EXCEPT ![s] = r] /\ st[s].node \in Nodes
      BY <1>5, <2>2 DEF AgentWrites, TypeOK
    <3> HIDE DEF r
    <3> QED BY <3>1, <3>2, Moves
  <2>5. half' \in SUBSET (1 .. MaxVersions)
    <3>1. clock + 1 \in 1 .. MaxVersions
      BY <1>5, <2>1, WorkspaceConstants DEF TypeOK
    <3> QED BY <1>5, <3>1 DEF AgentWrites, TypeOK
  <2> QED BY <1>5, <2>1, <2>3, <2>4, <2>5 DEF AgentWrites, TypeOK, States
<1>6. ASSUME NEW s \in Sandboxes, NEW well \in BOOLEAN, AgentEnds(s, well)
      PROVE  TInv'
  <2>1. st' \in [Sandboxes -> States] /\ InStep'
    <3> DEFINE r == [st[s] EXCEPT !.pc = "merge", !.ok = well]
    <3>1. r \in States /\ r.node = st[s].node
      BY Record DEF States
    <3>2. st' = [st EXCEPT ![s] = r] /\ st[s].node \in Nodes
      BY <1>6 DEF AgentEnds, TypeOK, InStep
    <3> HIDE DEF r
    <3> QED BY <3>1, <3>2, Moves
  <2> QED BY <1>6, <2>1 DEF AgentEnds, TypeOK, States
<1>7. ASSUME NEW r \in Restarts, TaskEnds(r)
      PROVE  TInv'
  <2>1. r \in Sandboxes
    BY DEF Sandboxes
  <2>2. st' = [st EXCEPT ![r] = At("gone")]
    BY <1>7, <2>1, Destroyed DEF TaskEnds
  <2>3. st' \in [Sandboxes -> States] /\ InStep'
    BY <2>1, <2>2, Rests
  <2> QED BY <1>7, <2>1, <2>3, Destroyed DEF TaskEnds, TypeOK, States
<1>8. ASSUME NEW d \in Directors, ReRegister(d)
      PROVE  TInv'
  <2>1. d \in Sandboxes
    BY DEF Sandboxes
  <2>2. st' \in [Sandboxes -> States] /\ InStep'
    BY <1>8, <2>1, Rests DEF ReRegister
  <2>3. work' \in [Sandboxes -> Tree]
    BY <1>8, <2>1 DEF ReRegister, Reregistered, TypeOK
  <2> QED BY <1>8, <2>2, <2>3 DEF ReRegister, TypeOK, States
<1>9. ASSUME NEW d \in Directors, NodeSync(d)
      PROVE  TInv'
  <2>1. d \in Sandboxes
    BY DEF Sandboxes
  <2>2. st' \in [Sandboxes -> States] /\ InStep'
    BY <1>9, <2>1, Rests DEF NodeSync
  <2> QED BY <1>9, <2>1, <2>2, Synced DEF NodeSync, TypeOK, States
<1>10. ASSUME NEW d \in Directors, FinalSync(d)
       PROVE  TInv'
  <2>1. d \in Sandboxes
    BY DEF Sandboxes
  <2>2. st' \in [Sandboxes -> States] /\ InStep'
    <3> DEFINE r == [st[d] EXCEPT !.pc = "close"]
    <3>1. r \in States /\ r.pc = "close"
      BY <2>1, Record DEF States
    <3>2. st' = [st EXCEPT ![d] = r]
      BY <1>10, <2>1 DEF FinalSync, TypeOK
    <3> HIDE DEF r
    <3> QED BY <2>1, <3>1, <3>2, Moves
  <2> QED BY <1>10, <2>1, <2>2, Synced DEF FinalSync, TypeOK, States
<1>11. ASSUME NEW d \in Directors, Close(d)
       PROVE  TInv'
  <2>1. d \in Sandboxes
    BY DEF Sandboxes
  <2>2. CASE st[d].clean
    <3>1. Destroy(d)
      BY <1>11, <2>2 DEF Close
    <3>2. st' = [st EXCEPT ![d] = At("gone")]
      BY <2>1, <3>1, Destroyed
    <3>3. st' \in [Sandboxes -> States] /\ InStep'
      BY <2>1, <3>2, Rests
    <3>4. recent' \in [Sandboxes -> BOOLEAN]
      BY <1>11, <2>2 DEF Close, TypeOK
    <3> QED BY <1>11, <2>1, <3>1, <3>3, <3>4, Destroyed DEF Close, TypeOK, States
  <2>3. CASE ~st[d].clean
    <3>1. st' \in [Sandboxes -> States] /\ InStep'
      BY <1>11, <2>1, <2>3, Rests DEF Close
    <3> QED BY <1>11, <2>3, <3>1 DEF Close, TypeOK, States
  <2> QED BY <2>2, <2>3
<1>12. ASSUME NEW d \in Directors, SyncAges(d)
       PROVE  TInv'
  BY <1>12 DEF SyncAges, TypeOK, InStep
<1>13. ASSUME NEW d \in Directors, NEW clean \in BOOLEAN, LoopEnds(d, clean)
       PROVE  TInv'
  <2>1. st' \in [Sandboxes -> States] /\ InStep'
    <3> DEFINE r == [st[d] EXCEPT !.pc = "final", !.clean = clean]
    <3>0. d \in Sandboxes
      BY DEF Sandboxes
    <3>1. r \in States /\ r.pc = "final"
      BY <3>0, Record DEF States
    <3>2. st' = [st EXCEPT ![d] = r]
      BY <1>13, <3>0 DEF LoopEnds, TypeOK
    <3> HIDE DEF r
    <3> QED BY <3>0, <3>1, <3>2, Moves
  <2> QED BY <1>13, <2>1 DEF LoopEnds, TypeOK, States
<1>14. ASSUME Crash
       PROVE  TInv'
  <2>1. At("kept") \in States /\ At("kept").pc = "kept"
    BY DEF At, States
  <2>2. st' \in [Sandboxes -> States] /\ InStep'
    BY <1>14, <2>1 DEF Crash, TypeOK, InStep, States
  <2> QED BY <1>14, <2>2, WorkspaceConstants DEF Crash, TypeOK, States
<1>15. ASSUME UNCHANGED vars
       PROVE  TInv'
  BY <1>15 DEF vars, TypeOK, InStep
<1> QED
  BY <1>1, <1>2, <1>3, <1>4, <1>5, <1>6, <1>7, <1>8, <1>9, <1>10, <1>11,
     <1>12, <1>13, <1>14, <1>15 DEF Next

\* Every variable keeps its type, for any number of files, nodes, runs, tasks,
\* writes and crashes.
THEOREM TypeCorrect == Spec => []TypeOK
<1>1. TInv => TypeOK
  BY DEF TInv
<1> QED BY <1>1, InitTypes, NextTypes, PTL DEF Spec

-----------------------------------------------------------------------------
(* What a step left half done stays in its container.                      *)

\* What lies in a container was written by the one who owns it.
Owned(d) ==
    /\ \A n \in Nodes, f \in Files : box[User][n][f] = Missing \/ box[User][n][f].by = d
    /\ \A r \in Restarts, n \in Nodes, f \in Files :
         box[r][n][f] = Missing \/ box[r][n][f].by = r

\* Nothing is newer than the clock.
Dated ==
    /\ half \subseteq 1 .. clock
    /\ \A f \in Files : user[f].t <= clock /\ \A s \in Sandboxes : work[s][f].t <= clock
    /\ \A h \in {User} \cup Restarts, n \in Nodes, f \in Files : box[h][n][f].t <= clock

\* What is about to be merged has a completed step behind it.
Backed == \A s \in Sandboxes : st[s].pc = "merge" /\ st[s].ok =>
              \A f \in Files : Container(s)[f].t \notin half

FInv(d) == TInv /\ Owned(d) /\ Dated /\ Backed /\ NothingHalfDone

\* Nobody shares a container, as long as there is one director.
LEMMA Apart ==
  ASSUME NEW d, Directors = {d}, NEW s \in Sandboxes, NEW x \in Sandboxes, s # x
  PROVE  Home(s) # Home(x)
BY WorkspaceConstants DEF Home, Sandboxes

LEMMA NeverWritten == Missing.t = 0 /\ \A f \in Files : Empty[f] = Missing
BY DEF Missing, Empty

LEMMA InitHalf ==
  ASSUME NEW d, Directors = {d}
  PROVE  Init => FInv(d)
<1> SUFFICES ASSUME Init PROVE FInv(d)
  OBVIOUS
<1>1. TInv
  BY InitTypes
<1>2. Owned(d) /\ Dated
  BY NeverWritten DEF Init, Owned, Dated
<1>3. Backed
  BY DEF Init, Backed
<1>4. NothingHalfDone
  BY DEF Init, NothingHalfDone
<1> QED BY <1>1, <1>2, <1>3, <1>4 DEF FInv

\* Where no container and no history changes, and no activation comes to its
\* merge, it is enough to look at the user's directory and the sandboxes.
LEMMA CopiesHalf ==
  ASSUME NEW d, FInv(d), UNCHANGED <<clock, box, half>>,
         \A s \in Sandboxes : st'[s] = st[s] \/ st'[s].pc # "merge",
         \A f \in Files : \/ user'[f] = user[f]
                          \/ \E s \in Sandboxes : user'[f] = work[s][f],
         \A s \in Sandboxes, f \in Files :
            \/ work'[s][f] \in {work[s][f], user[f], Missing}
            \/ /\ st[s].pc = "merge" /\ st[s].ok /\ st[s].node \in Nodes
               /\ work'[s][f] = Container(s)[f]
  PROVE  Owned(d)' /\ Dated' /\ Backed' /\ NothingHalfDone'
<1> USE DEF FInv, TInv
<1>0. 0 \notin half /\ clock \in Nat
  BY WorkspaceConstants DEF TypeOK
<1>1. Owned(d)'
  BY DEF Owned
<1>2. Dated'
  <2>1. \A f \in Files : user'[f].t <= clock
    BY DEF Dated
  <2>2. ASSUME NEW s \in Sandboxes, NEW f \in Files
        PROVE  work'[s][f].t <= clock
    <3>1. CASE work'[s][f] \in {work[s][f], user[f], Missing}
      BY <1>0, <3>1, NeverWritten DEF Dated
    <3>2. CASE work'[s][f] = Container(s)[f] /\ st[s].node \in Nodes
      BY <3>2, Homes DEF Dated, Container
    <3> QED BY <3>1, <3>2
  <2> QED BY <2>1, <2>2 DEF Dated
<1>3. Backed'
  BY DEF Backed, Container
<1>4. NothingHalfDone'
  <2>1. \A f \in Files : user'[f].t \notin half
    BY DEF NothingHalfDone
  <2>2. ASSUME NEW s \in Sandboxes, NEW f \in Files
        PROVE  work'[s][f].t \notin half
    <3>1. CASE work'[s][f] \in {work[s][f], user[f], Missing}
      BY <1>0, <3>1, NeverWritten DEF NothingHalfDone
    <3>2. CASE st[s].pc = "merge" /\ st[s].ok /\ work'[s][f] = Container(s)[f]
      BY <3>2 DEF Backed
    <3> QED BY <3>1, <3>2
  <2> QED BY <2>1, <2>2 DEF NothingHalfDone
<1> QED BY <1>1, <1>2, <1>3, <1>4

\* A container that a sandbox loses was its own.
LEMMA DestroyHalf ==
  ASSUME NEW d, Directors = {d}, FInv(d), NEW s \in Sandboxes, Destroy(s),
         UNCHANGED <<clock, user, half>>
  PROVE  Owned(d)' /\ Dated' /\ Backed' /\ NothingHalfDone'
<1> USE DEF FInv, TInv
<1>0. 0 \notin half /\ clock \in Nat /\ st'[s].pc # "merge"
  BY WorkspaceConstants DEF TypeOK, Destroy, At
<1>1. /\ work'[s] = Empty
      /\ \A x \in Sandboxes \ {s} : work'[x] = work[x] /\ st'[x] = st[x]
  BY DEF Destroy, TypeOK
<1>2. \A h \in {User} \cup Restarts, n \in Nodes :
         box'[h][n] = box[h][n] \/ (h = Home(s) /\ box'[h][n] = Empty)
  <2>1. CASE s \in Directors
    BY <2>1 DEF Destroy, Home, TypeOK
  <2>2. CASE s \notin Directors
    BY <2>2, Homes DEF Destroy, TypeOK
  <2> QED BY <2>1, <2>2
<1>3. Owned(d)'
  BY <1>2, NeverWritten DEF Owned
<1>4. Dated'
  <2>1. \A x \in Sandboxes, f \in Files : work'[x][f].t <= clock
    BY <1>0, <1>1, NeverWritten DEF Dated
  <2>2. \A h \in {User} \cup Restarts, n \in Nodes, f \in Files : box'[h][n][f].t <= clock
    BY <1>0, <1>2, NeverWritten DEF Dated
  <2> QED BY <2>1, <2>2 DEF Dated
<1>5. Backed'
  <2> SUFFICES ASSUME NEW x \in Sandboxes, st'[x].pc = "merge", st'[x].ok, NEW f \in Files
               PROVE  (Container(x)[f].t \notin half)'
    BY DEF Backed
  <2>1. x # s /\ st'[x] = st[x] /\ st[x].node \in Nodes
    BY <1>0, <1>1 DEF InStep
  <2>2. box'[Home(x)][st[x].node] = box[Home(x)][st[x].node]
    BY <1>2, <2>1, Apart, Homes
  <2> QED BY <2>1, <2>2 DEF Backed, Container
<1>6. NothingHalfDone'
  BY <1>0, <1>1, NeverWritten DEF NothingHalfDone
<1> QED BY <1>3, <1>4, <1>5, <1>6

\* The user's edits are as new as nothing else.
LEMMA EditHalf ==
  ASSUME NEW d, FInv(d), NEW f \in Files, NEW big \in BOOLEAN, UserEdits(f, big)
  PROVE  Owned(d)' /\ Dated' /\ Backed' /\ NothingHalfDone'
<1> USE DEF FInv, TInv
<1>0. UNCHANGED <<work, box, st, half>> /\ clock' = clock + 1 /\ clock \in Nat
  BY WorkspaceConstants DEF UserEdits, TypeOK
<1>1. \A g \in Files : user'[g] = user[g] \/ user'[g].t = clock + 1
  BY DEF UserEdits, NewVersion, TypeOK, Tree
<1>2. Owned(d)' /\ Backed'
  BY <1>0 DEF Owned, Backed, Container
<1>3. /\ \A g \in Files : user[g].t \in Nat /\ \A s \in Sandboxes : work[s][g].t \in Nat
      /\ \A h \in {User} \cup Restarts, n \in Nodes, g \in Files : box[h][n][g].t \in Nat
  BY WorkspaceConstants DEF TypeOK, Tree, Versions
<1>4. half \subseteq 1 .. clock' /\ clock + 1 \notin half
  BY <1>0 DEF Dated
<1>5. Dated'
  <2>1. \A g \in Files : user'[g].t <= clock'
    BY <1>0, <1>1, <1>3 DEF Dated
  <2>2. \A g \in Files, s \in Sandboxes : work[s][g].t <= clock'
    BY <1>0, <1>3 DEF Dated
  <2>3. \A h \in {User} \cup Restarts, n \in Nodes, g \in Files : box[h][n][g].t <= clock'
    BY <1>0, <1>3 DEF Dated
  <2> QED BY <1>0, <1>4, <2>1, <2>2, <2>3 DEF Dated
<1>6. NothingHalfDone'
  BY <1>0, <1>1, <1>4 DEF NothingHalfDone
<1> QED BY <1>2, <1>5, <1>6

\* What an agent writes is nowhere else.
LEMMA WriteHalf ==
  ASSUME NEW d, Directors = {d}, FInv(d), NEW s \in Sandboxes, NEW f \in Files,
         NEW big \in BOOLEAN, AgentWrites(s, f, big)
  PROVE  Owned(d)' /\ Dated' /\ Backed' /\ NothingHalfDone'
<1> USE DEF FInv, TInv
<1> DEFINE v == NewVersion(s, big)
<1>0. UNCHANGED <<user, work>> /\ clock' = clock + 1 /\ clock \in Nat
      /\ half' = half \cup {clock + 1}
  BY WorkspaceConstants DEF AgentWrites, TypeOK
<1>1. v.by = s /\ v.t = clock + 1
  BY DEF NewVersion
<1>2. box' = [box EXCEPT ![Home(s)][st[s].node][f] = v]
  BY DEF AgentWrites
<1> HIDE DEF v
<1>3. \A h \in {User} \cup Restarts, n \in Nodes, g \in Files :
         box'[h][n][g] = box[h][n][g] \/ (h = Home(s) /\ box'[h][n][g] = v)
  BY <1>2 DEF TypeOK, Tree
<1>4. Owned(d)'
  <2>1. ASSUME NEW n \in Nodes, NEW g \in Files
        PROVE  box'[User][n][g] = Missing \/ box'[User][n][g].by = d
    BY <1>1, <1>3, WorkspaceConstants DEF Owned, Home, Sandboxes
  <2>2. ASSUME NEW r \in Restarts, NEW n \in Nodes, NEW g \in Files
        PROVE  box'[r][n][g] = Missing \/ box'[r][n][g].by = r
    BY <1>1, <1>3, WorkspaceConstants DEF Owned, Home, Sandboxes
  <2> QED BY <2>1, <2>2 DEF Owned
<1>5. /\ \A g \in Files : user[g].t \in Nat /\ \A x \in Sandboxes : work[x][g].t \in Nat
      /\ \A h \in {User} \cup Restarts, n \in Nodes, g \in Files : box[h][n][g].t \in Nat
  BY WorkspaceConstants DEF TypeOK, Tree, Versions
<1>6. Dated'
  <2>1. \A g \in Files : user[g].t <= clock' /\ \A x \in Sandboxes : work[x][g].t <= clock'
    BY <1>0, <1>5 DEF Dated
  <2>2. \A h \in {User} \cup Restarts, n \in Nodes, g \in Files : box'[h][n][g].t <= clock'
    BY <1>0, <1>1, <1>3, <1>5 DEF Dated
  <2>3. half' \subseteq 1 .. clock'
    <3>1. \A i \in 1 .. clock : i \in 1 .. clock + 1
      BY <1>0
    <3>2. clock + 1 \in 1 .. clock + 1
      BY <1>0
    <3> QED BY <1>0, <3>1, <3>2 DEF Dated
  <2> QED BY <1>0, <2>1, <2>2, <2>3 DEF Dated
<1>7. Backed'
  <2> SUFFICES ASSUME NEW x \in Sandboxes, st'[x].pc = "merge", st'[x].ok, NEW g \in Files
               PROVE  (Container(x)[g].t \notin half)'
    BY DEF Backed
  <2>1. st'[s].pc = "agent"
    BY DEF AgentWrites, TypeOK
  <2>2. x # s /\ st'[x] = st[x] /\ st[x].node \in Nodes
    BY <2>1 DEF AgentWrites, TypeOK, InStep
  <2>3. box'[Home(x)][st[x].node][g] = box[Home(x)][st[x].node][g]
    BY <1>3, <2>2, Apart, Homes
  <2>4. box[Home(x)][st[x].node][g].t <= clock /\ box[Home(x)][st[x].node][g].t \in Nat
    BY <1>5, <2>2, Homes DEF Dated
  <2>5. Container(x)[g].t \notin half
    BY <2>2 DEF Backed
  <2> QED BY <1>0, <2>2, <2>3, <2>4, <2>5 DEF Container
<1>8. NothingHalfDone'
  <2>1. \A g \in Files : user[g].t <= clock /\ \A x \in Sandboxes : work[x][g].t <= clock
    BY DEF Dated
  <2> QED BY <1>0, <1>5, <2>1 DEF NothingHalfDone
<1> QED BY <1>4, <1>6, <1>7, <1>8

\* The end of an agent leaves the files alone.
LEMMA EndHalf ==
  ASSUME NEW d, Directors = {d}, FInv(d), NEW s \in Sandboxes, NEW well \in BOOLEAN,
         AgentEnds(s, well)
  PROVE  Owned(d)' /\ Dated' /\ Backed' /\ NothingHalfDone'
<1> USE DEF FInv, TInv
<1>1. half' \subseteq half /\ UNCHANGED <<clock, user, work, box>>
  BY DEF AgentEnds
<1>2. Owned(d)' /\ Dated' /\ NothingHalfDone'
  BY <1>1 DEF Owned, Dated, NothingHalfDone
<1>3. Backed'
  <2> SUFFICES ASSUME NEW x \in Sandboxes, st'[x].pc = "merge", st'[x].ok, NEW f \in Files
               PROVE  (Container(x)[f].t \notin half)'
    BY DEF Backed
  <2>1. CASE x # s
    <3>1. st'[x] = st[x]
      BY <2>1 DEF AgentEnds, TypeOK
    <3> QED BY <1>1, <3>1 DEF Backed, Container
  <2>2. CASE x = s
    <3>1. st'[s].ok = well /\ st'[s].node = st[s].node /\ st[s].node \in Nodes
      BY DEF AgentEnds, TypeOK, InStep
    <3>2. half' = half \ Left(s)
      BY <2>2, <3>1 DEF AgentEnds
    <3>3. Container(s)[f] = Missing \/ Container(s)[f].by = s
      BY <3>1, WorkspaceConstants DEF Owned, Container, Home, Sandboxes
    <3>4. CASE Container(s)[f] = Missing
      BY <1>1, <2>2, <3>1, <3>4, NeverWritten DEF TypeOK, Container
    <3>5. CASE Container(s)[f].by = s
      BY <1>1, <2>2, <3>1, <3>2, <3>5 DEF Left, Container
    <3> QED BY <3>3, <3>4, <3>5
  <2> QED BY <2>1, <2>2
<1> QED BY <1>2, <1>3

LEMMA NextHalf ==
  ASSUME NEW d, Directors = {d}
  PROVE  FInv(d) /\ [Next]_vars => FInv(d)'
<1> SUFFICES ASSUME FInv(d), [Next]_vars PROVE FInv(d)'
  OBVIOUS
<1>t. TInv /\ TInv'
  BY NextTypes DEF FInv
<1> DEFINE Goal == Owned(d)' /\ Dated' /\ Backed' /\ NothingHalfDone'
<1>1. ASSUME NEW s \in Sandboxes, Create(s)
      PROVE  Goal
  <2>1. \A x \in Sandboxes : st'[x] = st[x] \/ st'[x].pc # "merge"
    BY <1>1, <1>t DEF Create, At, TInv, TypeOK
  <2>2. \A x \in Sandboxes, f \in Files : work'[x][f] \in {work[x][f], user[f], Missing}
    BY <1>1, <1>t, NeverWritten DEF Create, TInv, TypeOK
  <2> QED BY <1>1, <2>1, <2>2, CopiesHalf DEF Create
<1>2. ASSUME NEW s \in Sandboxes, Merge(s)
      PROVE  Goal
  <2>1. \A x \in Sandboxes : st'[x] = st[x] \/ st'[x].pc # "merge"
    BY <1>2, <1>t DEF Merge, TInv, TypeOK
  <2>2. st[s].pc = "merge" /\ st[s].node \in Nodes /\ (Merges(s) => st[s].ok)
    BY <1>2, <1>t DEF Merge, Merges, TInv, InStep
  <2>3. \A f \in Files : \/ work'[s][f] = work[s][f]
                         \/ Merges(s) /\ work'[s][f] = Container(s)[f]
    BY <1>2, <1>t DEF Merge, TInv, TypeOK
  <2>4. \A x \in Sandboxes \ {s} : work'[x] = work[x]
    BY <1>2, <1>t DEF Merge, TInv, TypeOK
  <2> QED BY <1>2, <2>1, <2>2, <2>3, <2>4, CopiesHalf DEF Merge
<1>3. ASSUME NEW s \in Sandboxes, NEW n \in Nodes, StartNode(s, n)
      PROVE  Goal
  <2>1. \A x \in Sandboxes : st'[x] = st[x] \/ st'[x].pc # "merge"
    BY <1>3, <1>t DEF StartNode, TInv, TypeOK
  <2> QED BY <1>3, <2>1, CopiesHalf DEF StartNode
<1>4. ASSUME NEW r \in Restarts, TaskEnds(r)
      PROVE  Goal
  <2>1. r \in Sandboxes
    BY DEF Sandboxes
  <2> QED BY <1>4, <2>1, DestroyHalf DEF TaskEnds
<1>5. ASSUME NEW x \in Directors, ReRegister(x) \/ (Close(x) /\ ~st[x].clean)
      PROVE  Goal
  <2>1. work' = work /\ UNCHANGED <<clock, user, box, half>>
    BY <1>5, <1>t DEF ReRegister, Reregistered, Close, TInv, TypeOK
  <2>2. \A y \in Sandboxes : st'[y] = st[y] \/ st'[y].pc # "merge"
    BY <1>5, <1>t DEF ReRegister, Close, At, TInv, TypeOK
  <2> QED BY <2>1, <2>2, CopiesHalf
<1>6. ASSUME NEW x \in Directors, NodeSync(x) \/ FinalSync(x)
      PROVE  Goal
  <2>1. SyncBack(x) /\ UNCHANGED <<clock, work, box, half>> /\ x \in Sandboxes
    BY <1>6 DEF NodeSync, FinalSync, Sandboxes
  <2>2. \A f \in Files : user'[f] \in {user[f], work[x][f]}
    BY <1>t, <2>1, Synced DEF TInv
  <2>3. \A y \in Sandboxes : st'[y] = st[y] \/ st'[y].pc # "merge"
    BY <1>6, <1>t DEF NodeSync, FinalSync, At, TInv, TypeOK
  <2> QED BY <2>1, <2>2, <2>3, CopiesHalf
<1>7. ASSUME NEW x \in Directors, Close(x), st[x].clean
      PROVE  Goal
  <2>1. Destroy(x) /\ UNCHANGED <<clock, user, half>> /\ x \in Sandboxes
    BY <1>7 DEF Close, Sandboxes
  <2> QED BY <2>1, DestroyHalf
<1>8. ASSUME NEW x \in Directors, NEW clean \in BOOLEAN, LoopEnds(x, clean)
      PROVE  Goal
  <2>1. \A y \in Sandboxes : st'[y] = st[y] \/ st'[y].pc # "merge"
    BY <1>8, <1>t DEF LoopEnds, TInv, TypeOK
  <2> QED BY <1>8, <2>1, CopiesHalf DEF LoopEnds
<1>9. ASSUME NEW x \in Directors, SyncAges(x)
      PROVE  Goal
  BY <1>9, CopiesHalf DEF SyncAges
<1>10. ASSUME Crash
       PROVE  Goal
  <2>1. \A y \in Sandboxes : st'[y] = st[y] \/ st'[y].pc # "merge"
    BY <1>10 DEF Crash, At
  <2> QED BY <1>10, <2>1, CopiesHalf DEF Crash
<1>11. ASSUME UNCHANGED vars
       PROVE  Goal
  BY <1>11, CopiesHalf DEF vars
<1>12. Goal
  <2> HIDE DEF Goal
  <2>1. ASSUME NEW x \in Directors, Close(x)
        PROVE  Goal
    BY <1>5, <1>7, <2>1
  <2> QED BY <1>1, <1>2, <1>3, <1>4, <1>5, <1>6, <1>8, <1>9, <1>10, <1>11, <2>1,
             EditHalf, WriteHalf, EndHalf DEF Next, Goal
<1> QED BY <1>t, <1>12 DEF FInv

\* With one director in the user's directory, what a step left half done gets out
\* of its container only with a later step of its node that completes, whatever
\* fails, however often the process ends and whatever the user and restarted tasks
\* do meanwhile.
THEOREM NothingHalfDoneHolds ==
  ASSUME NEW d, Directors = {d}
  PROVE  Spec => []NothingHalfDone
<1>1. Init => FInv(d)
  BY InitHalf
<1>2. FInv(d) /\ [Next]_vars => FInv(d)'
  BY NextHalf
<1>3. FInv(d) => NothingHalfDone
  BY DEF FInv
<1> QED BY <1>1, <1>2, <1>3, PTL DEF Spec

-----------------------------------------------------------------------------
(* No completed work is lost.  What a container holds of a file is as new  *)
(* as whatever a step completed of it, since one node alone writes the     *)
(* file; so a merge never puts an older one into the sandbox, and a sync   *)
(* never leaves an older one in the user's directory.                      *)

\* The nodes of a plan write different files.
Disjoint == \A n, m \in Nodes : n # m => Writes[n] \cap Writes[m] = {}

\* A tree has what d's completed steps left, or something newer.
Saved(d, tree) == \A f \in Files : \A v \in done[d][f] : tree[f].t >= v.t

InTime(d) ==
    /\ \A f \in Files : \A v \in done[d][f] : v.t <= clock
    /\ \A n \in Nodes, f \in Files :
         /\ box[User][n][f].t <= clock
         /\ box[User][n][f] # Missing =>
                f \in Writes[n] /\ \A v \in done[d][f] : box[User][n][f].t >= v.t
KeepsWork(d) ==
    /\ st[d].pc \notin {"none", "gone"} => Saved(d, work[d])
    /\ st[d].pc \in {"none", "close", "gone"} \/ recent[d] => Saved(d, user)
    /\ st[d].pc \in {"agent", "merge", "sync"} => ~recent[d]

KInv(d) == TInv /\ InTime(d) /\ KeepsWork(d)

\* A version that was written, and the times of all of them.
LEMMA Times ==
    ASSUME TypeOK
    PROVE  /\ clock \in Nat /\ \A f \in Files : user[f].t \in Nat
           /\ \A s \in Sandboxes, f \in Files : work[s][f].t \in Nat
           /\ \A s \in Sandboxes, f \in Files : \A v \in done[s][f] : v.t \in Nat
           /\ \A h \in {User} \cup Restarts, n \in Nodes, f \in Files : box[h][n][f].t \in Nat
BY WorkspaceConstants DEF TypeOK, Tree, Versions

LEMMA InitKept ==
    ASSUME NEW d, Directors = {d}
    PROVE  Init => KInv(d)
<1> SUFFICES ASSUME Init PROVE KInv(d)
  OBVIOUS
<1>1. d \in Sandboxes /\ st[d].pc = "none" /\ ~recent[d] /\ \A f \in Files : done[d][f] = {}
  BY DEF Init, Sandboxes, At
<1>2. \A n \in Nodes, f \in Files : box[User][n][f] = Missing
  BY DEF Init, Empty
<1>3. Missing.t = 0 /\ clock = 0
  BY DEF Init, Missing
<1>4. InTime(d)
  BY <1>1, <1>2, <1>3 DEF InTime
<1>5. KeepsWork(d)
  BY <1>1 DEF KeepsWork, Saved
<1> QED BY <1>4, <1>5, InitTypes DEF KInv

\* A sync that gets through all files leaves nothing older than the sandbox's.
LEMMA SyncSaves ==
    ASSUME TypeOK, ~IOMayFail, NEW d \in Sandboxes, SyncBack(d), done' = done,
           Saved(d, work[d]), recent[d] => Saved(d, user)
    PROVE  Saved(d, user)'
<1>1. CASE recent[d]
  BY <1>1 DEF SyncBack, Saved
<1>2. CASE ~recent[d]
  <2>1. user' = [f \in Files |-> IF Takes(work[d][f], user[f]) THEN work[d][f] ELSE user[f]]
    BY <1>2 DEF SyncBack, Copied
  <2>2. ASSUME NEW f \in Files, NEW v \in done[d][f]
        PROVE  user'[f].t >= v.t
    <3>1. work[d][f].t >= v.t /\ user[f].t \in Nat /\ work[d][f].t \in Nat /\ v.t \in Nat
      BY Times DEF Saved
    <3>2. CASE Takes(work[d][f], user[f])
      BY <2>1, <3>1, <3>2
    <3>3. CASE ~Takes(work[d][f], user[f])
      <4>1. user'[f] = user[f]
        BY <2>1, <3>3
      <4>2. work[d][f] = Missing \/ work[d][f].t <= user[f].t
        BY <3>1, <3>3 DEF Takes
      <4>3. Missing.t = 0
        BY DEF Missing
      <4> QED BY <3>1, <4>1, <4>2, <4>3
    <3> QED BY <3>2, <3>3
  <2> QED BY <2>2 DEF Saved
<1> QED BY <1>1, <1>2

\* What a completed step left is no older than what was there, nor newer than
\* what any container holds of the same file.
LEMMA MergeSaves ==
    ASSUME NEW d, Directors = {d}, Disjoint, ~IOMayFail, KInv(d), NEW s \in Sandboxes, Merge(s)
    PROVE  InTime(d)' /\ KeepsWork(d)'
<1> USE DEF KInv, TInv
<1>0. d \in Sandboxes /\ UNCHANGED <<clock, user, box, recent>>
  BY DEF Merge, Sandboxes
<1>1. CASE s # d
  <2>1. done'[d] = done[d] /\ work'[d] = work[d] /\ st'[d] = st[d]
    BY <1>0, <1>1 DEF Merge, TypeOK
  <2> QED BY <1>0, <2>1 DEF InTime, KeepsWork, Saved
<1>2. CASE s = d
  <2> DEFINE n == st[d].node
             c == Container(d)
  <2>1. n \in Nodes /\ st[d].pc = "merge" /\ c = box[User][n]
    BY <1>2 DEF Merge, InStep, Container, Home
  <2>2. st'[d].pc = "sync" /\ ~recent[d] /\ Saved(d, work[d])
    BY <1>0, <1>2, <2>1 DEF Merge, TypeOK, KeepsWork
  <2>3. ASSUME NEW f \in Files, NEW v \in done'[d][f]
        PROVE  v \in done[d][f] \/ (st[d].ok /\ v = c[f] /\ c[f] # Missing)
    <3>1. done'[d][f] = IF st[d].ok /\ f \in st[d].wrote /\ c[f].by = d THEN done[d][f] \cup {c[f]} ELSE done[d][f]
      BY <1>0, <1>2 DEF Merge, TypeOK
    <3>2. Missing.by # d
      BY <1>0, WorkspaceConstants DEF Missing
    <3> QED BY <2>3, <3>1, <3>2
  <2> HIDE DEF n, c
  <2>4. ASSUME NEW f \in Files
        PROVE  /\ c[f].t <= clock
               /\ c[f] # Missing => /\ f \in Writes[n]
                                    /\ \A v \in done[d][f] : c[f].t >= v.t
    BY <2>1 DEF InTime
  <2>5. ASSUME NEW f \in Files, NEW v \in done'[d][f]
        PROVE  v.t <= clock
    BY <2>3, <2>4, <2>5 DEF InTime
  <2>6. ASSUME NEW m \in Nodes, NEW f \in Files, box[User][m][f] # Missing,
               NEW v \in done'[d][f]
        PROVE  box[User][m][f].t >= v.t
    <3>1. CASE v \in done[d][f]
      BY <2>6, <3>1 DEF InTime
    <3>2. CASE v = c[f] /\ c[f] # Missing
      <4>1. f \in Writes[n] /\ f \in Writes[m]
        BY <2>4, <2>6, <3>2 DEF InTime
      <4>2. n = m
        BY <2>1, <4>1 DEF Disjoint
      <4>3. box[User][m][f] = v /\ v.t \in Nat
        BY <2>1, <3>2, <4>2, Times
      <4> QED BY <4>3
    <3> QED BY <2>3, <2>6, <3>1, <3>2
  <2>7. InTime(d)'
    BY <1>0, <2>5, <2>6 DEF InTime
  <2>8. Saved(d, work[d])'
    <3>1. CASE ~Merges(d)
      <4>1. work' = work /\ \A f \in Files : done'[d][f] \subseteq done[d][f]
        BY <1>2, <2>3, <3>1 DEF Merge, Merges
      <4> QED BY <2>2, <4>1 DEF Saved
    <3>2. CASE Merges(d)
      <4>1. \A f \in Files : work'[d][f] = IF c[f] # Missing THEN c[f] ELSE work[d][f]
        BY <1>0, <1>2, <3>2 DEF Merge, Copied, TypeOK, c
      <4>2. ASSUME NEW f \in Files, NEW v \in done'[d][f]
            PROVE  work'[d][f].t >= v.t
        <5>1. CASE c[f] = Missing
          BY <2>2, <2>3, <4>1, <4>2, <5>1 DEF Saved
        <5>2. CASE c[f] # Missing
          <6>1. box[User][n][f].t >= v.t
            BY <2>1, <2>6, <4>2, <5>2
          <6> QED BY <2>1, <4>1, <5>2, <6>1
        <5> QED BY <5>1, <5>2
      <4> QED BY <4>2 DEF Saved
    <3> QED BY <3>1, <3>2
  <2> QED BY <1>0, <2>2, <2>7, <2>8 DEF KeepsWork
<1> QED BY <1>1, <1>2

\* A file is written: newer than all there is.
LEMMA WriteSaves ==
    ASSUME NEW d, Directors = {d}, KInv(d), NEW s \in Sandboxes, NEW f \in Files,
           NEW big \in BOOLEAN, AgentWrites(s, f, big)
    PROVE  InTime(d)' /\ KeepsWork(d)'
<1> USE DEF KInv, TInv
<1> DEFINE v == NewVersion(s, big)
<1>0. /\ d \in Sandboxes /\ UNCHANGED <<user, work, recent, done>> /\ clock' = clock + 1
      /\ clock \in Nat /\ st'[d].pc = st[d].pc
  BY Times DEF AgentWrites, Sandboxes, TypeOK
<1>1. v.t = clock + 1
  BY DEF NewVersion
<1>2. box' = [box EXCEPT ![Home(s)][st[s].node][f] = v] /\ f \in Writes[st[s].node]
  BY DEF AgentWrites
<1> HIDE DEF v
<1>3. \A n \in Nodes, g \in Files :
         \/ box'[User][n][g] = box[User][n][g]
         \/ n = st[s].node /\ g = f /\ box'[User][n][g] = v
  BY <1>2 DEF TypeOK, Tree
<1>4. ASSUME NEW n \in Nodes, NEW g \in Files
      PROVE  /\ box'[User][n][g].t <= clock'
             /\ box'[User][n][g] # Missing =>
                    g \in Writes[n] /\ \A w \in done'[d][g] : box'[User][n][g].t >= w.t
  <2>1. CASE box'[User][n][g] = box[User][n][g]
    <3>1. box[User][n][g].t <= clock /\ box[User][n][g].t \in Nat
      BY Times DEF InTime
    <3> QED BY <1>0, <2>1, <3>1 DEF InTime
  <2>2. CASE n = st[s].node /\ g = f /\ box'[User][n][g] = v
    <3>1. \A w \in done[d][g] : w.t <= clock /\ w.t \in Nat
      BY <1>0, Times DEF InTime
    <3> QED BY <1>0, <1>1, <1>2, <2>2, <3>1
  <2> QED BY <1>3, <2>1, <2>2
<1>5. \A g \in Files : \A w \in done'[d][g] : w.t <= clock'
  <2>1. \A g \in Files : \A w \in done[d][g] : w.t <= clock /\ w.t \in Nat
    BY <1>0, Times DEF InTime
  <2> QED BY <1>0, <2>1
<1>6. KeepsWork(d)'
  BY <1>0 DEF KeepsWork, Saved
<1> QED BY <1>4, <1>5, <1>6 DEF InTime

\* The user's own writes, too.
LEMMA EditSaves ==
    ASSUME NEW d, Directors = {d}, KInv(d), NEW f \in Files, NEW big \in BOOLEAN,
           UserEdits(f, big)
    PROVE  InTime(d)' /\ KeepsWork(d)'
<1> USE DEF KInv, TInv
<1>0. d \in Sandboxes /\ UNCHANGED <<work, box, st, recent, done>> /\ clock' = clock + 1
      /\ clock \in Nat
  BY Times DEF UserEdits, Sandboxes
<1>1. \A g \in Files : user'[g] = user[g] \/ user'[g].t = clock + 1
  BY DEF UserEdits, NewVersion, TypeOK, Tree
<1>2. \A g \in Files : \A w \in done[d][g] : w.t <= clock /\ w.t \in Nat
  BY <1>0, Times DEF InTime
<1>3. Saved(d, user) => Saved(d, user)'
  BY <1>0, <1>1, <1>2 DEF Saved
<1>4. Saved(d, work[d])' <=> Saved(d, work[d])
  BY <1>0 DEF Saved
<1>5. KeepsWork(d)'
  BY <1>0, <1>3, <1>4 DEF KeepsWork
<1>6. \A n \in Nodes, g \in Files : box[User][n][g].t <= clock /\ box[User][n][g].t \in Nat
  BY Times DEF InTime
<1>7. \A n \in Nodes, g \in Files : box[User][n][g].t <= clock + 1
  BY <1>0, <1>6
<1>8. InTime(d)'
  BY <1>0, <1>2, <1>7 DEF InTime
<1> QED BY <1>5, <1>8

\* Where containers, times and what was completed stay, as most steps leave them.
LEMMA TimeStays ==
    ASSUME NEW d, InTime(d), UNCHANGED <<clock, done>>, box'[User] = box[User]
    PROVE  InTime(d)'
BY DEF InTime

\* A director's sandbox is destroyed when the user's directory has all of it.
LEMMA DestroySaves ==
    ASSUME NEW d, Directors = {d}, KInv(d), NEW s \in Sandboxes, Destroy(s),
           UNCHANGED <<clock, user, done>>, recent' = [recent EXCEPT ![s] = FALSE] \/ recent' = recent,
           s = d => st[d].pc = "close" /\ recent'[d] = FALSE
    PROVE  InTime(d)' /\ KeepsWork(d)'
<1> USE DEF KInv, TInv
<1>0. d \in Sandboxes
  BY DEF Sandboxes
<1>1. box'[User] = box[User]
  BY WorkspaceConstants DEF Destroy, Home, TypeOK, Sandboxes
<1>2. CASE s # d
  <2>1. work'[d] = work[d] /\ st'[d] = st[d] /\ recent'[d] = recent[d]
    BY <1>0, <1>2 DEF Destroy, TypeOK
  <2> QED BY <1>1, <2>1, TimeStays DEF KeepsWork, Saved
<1>3. CASE s = d
  <2>1. st'[d].pc = "gone" /\ recent'[d] = FALSE /\ Saved(d, user)
    BY <1>0, <1>3 DEF Destroy, TypeOK, At, KeepsWork
  <2> QED BY <1>1, <2>1, TimeStays DEF KeepsWork, Saved
<1> QED BY <1>2, <1>3

LEMMA NextKept ==
    ASSUME NEW d, Directors = {d}, Disjoint, ~Quick, ~IOMayFail
    PROVE  KInv(d) /\ [Next]_vars => KInv(d)'
<1> SUFFICES ASSUME KInv(d), [Next]_vars PROVE KInv(d)'
  OBVIOUS
<1>t. TInv /\ TypeOK /\ TInv' /\ d \in Sandboxes
  BY NextTypes DEF KInv, TInv, Sandboxes
<1> DEFINE Goal == InTime(d)' /\ KeepsWork(d)'
<1>1. ASSUME NEW s \in Sandboxes, Create(s)
      PROVE  Goal
  <2>1. CASE s # d
    <3>1. work'[d] = work[d] /\ st'[d] = st[d]
      BY <1>1, <1>t, <2>1 DEF Create, TypeOK
    <3> QED BY <1>1, <3>1, TimeStays DEF Create, KInv, KeepsWork, Saved
  <2>2. CASE s = d
    <3>1. st[d].pc \in {"none", "gone"} /\ st'[d].pc = "idle" /\ work'[d] = user
      BY <1>1, <1>t, <2>2 DEF Create, TypeOK, At
    <3>2. Saved(d, user)
      BY <3>1 DEF KInv, KeepsWork
    <3> QED BY <1>1, <3>1, <3>2, TimeStays DEF Create, KInv, KeepsWork, Saved
  <2> QED BY <2>1, <2>2
\* Where only the activations' places change.
<1>2. ASSUME UNCHANGED <<clock, user, work, box, done>>,
             \/ st'[d].pc = st[d].pc
             \/ st'[d].pc \in {"idle", "merge", "agent", "final", "kept"}
                /\ st[d].pc \notin {"none", "gone"},
             recent'[d] \in {recent[d], FALSE},
             st'[d].pc \in {"agent", "merge", "sync"} => ~recent'[d]
      PROVE  Goal
  BY <1>2, TimeStays DEF KInv, KeepsWork, Saved
<1>3. ASSUME NEW s \in Sandboxes, NEW n \in Nodes, StartNode(s, n)
      PROVE  Goal
  <2>1. s = d => st[d].pc = "idle" /\ st'[d].pc = "agent" /\ recent'[d] = FALSE
    BY <1>3, <1>t DEF StartNode, TypeOK
  <2>2. s # d => st'[d] = st[d] /\ recent'[d] = recent[d]
    BY <1>3, <1>t DEF StartNode, TypeOK
  <2>3. recent[d] \in BOOLEAN /\ (st[d].pc \in {"agent", "merge", "sync"} => ~recent[d])
    BY <1>t DEF TypeOK, KInv, KeepsWork
  <2> QED BY <1>2, <1>3, <2>1, <2>2, <2>3 DEF StartNode
<1>4. ASSUME NEW s \in Sandboxes, NEW well \in BOOLEAN, AgentEnds(s, well)
      PROVE  Goal
  <2>1. s = d => st[d].pc = "agent" /\ st'[d].pc = "merge"
    BY <1>4, <1>t DEF AgentEnds, TypeOK
  <2>2. s # d => st'[d] = st[d]
    BY <1>4, <1>t DEF AgentEnds, TypeOK
  <2>3. recent' = recent /\ (st[d].pc \in {"agent", "merge", "sync"} => ~recent[d])
    BY <1>4 DEF AgentEnds, KInv, KeepsWork
  <2> QED BY <1>2, <1>4, <2>1, <2>2, <2>3 DEF AgentEnds
<1>5. ASSUME NEW r \in Restarts, TaskEnds(r)
      PROVE  Goal
  <2>1. r \in Sandboxes /\ r # d
    BY WorkspaceConstants DEF Sandboxes
  <2> QED BY <1>5, <2>1, DestroySaves DEF TaskEnds
<1>6. ASSUME ReRegister(d)
      PROVE  Goal
  <2>1. work' = work /\ st'[d].pc = "idle" /\ st[d].pc = "kept"
    BY <1>6, <1>t DEF ReRegister, Reregistered, TypeOK, At
  <2> QED BY <1>2, <1>6, <2>1 DEF ReRegister
<1>7. ASSUME NodeSync(d) \/ FinalSync(d)
      PROVE  Goal
  <2>1. /\ SyncBack(d) /\ UNCHANGED <<clock, work, box, done>>
        /\ st[d].pc \in {"sync", "final"} /\ st'[d].pc \in {"idle", "close"}
    BY <1>7, <1>t DEF NodeSync, FinalSync, TypeOK, At
  <2>2. Saved(d, work[d]) /\ (recent[d] => Saved(d, user))
    BY <2>1 DEF KInv, KeepsWork
  <2>3. Saved(d, user)'
    BY <1>t, <2>1, <2>2, SyncSaves
  <2>4. Saved(d, work[d])'
    BY <2>1, <2>2 DEF Saved
  <2> QED BY <2>1, <2>3, <2>4, TimeStays DEF KInv, KeepsWork
<1>8. ASSUME Close(d)
      PROVE  Goal
  <2>1. CASE st[d].clean
    BY <1>8, <1>t, <2>1, DestroySaves DEF Close, TypeOK
  <2>2. CASE ~st[d].clean
    <3>1. st[d].pc = "close" /\ st'[d].pc = "kept"
      BY <1>8, <1>t, <2>2 DEF Close, TypeOK, At
    <3> QED BY <1>2, <1>8, <2>2, <3>1 DEF Close
  <2> QED BY <2>1, <2>2
<1>9. ASSUME SyncAges(d)
      PROVE  Goal
  <2>1. recent'[d] = FALSE
    BY <1>9, <1>t DEF SyncAges, TypeOK
  <2> QED BY <1>2, <1>9, <2>1 DEF SyncAges
<1>10. ASSUME NEW clean \in BOOLEAN, LoopEnds(d, clean)
       PROVE  Goal
  <2>1. st[d].pc = "idle" /\ st'[d].pc = "final"
    BY <1>10, <1>t DEF LoopEnds, TypeOK
  <2> QED BY <1>2, <1>10, <2>1 DEF LoopEnds
<1>11. ASSUME Crash
       PROVE  Goal
  <2>1. recent'[d] = FALSE
    BY <1>11, <1>t DEF Crash
  <2>2. CASE Open(d)
    <3>1. st'[d].pc = "kept" /\ st[d].pc \notin {"none", "gone"}
      BY <1>11, <1>t, <2>2 DEF Crash, At, Open
    <3> QED BY <1>2, <1>11, <2>1, <3>1 DEF Crash
  <2>3. CASE ~Open(d)
    <3>1. st'[d] = st[d]
      BY <1>11, <1>t, <2>3 DEF Crash
    <3> QED BY <1>2, <1>11, <2>1, <3>1 DEF Crash
  <2> QED BY <2>2, <2>3
<1>12. ASSUME UNCHANGED vars
       PROVE  Goal
  BY <1>2, <1>12 DEF vars, KInv, KeepsWork
<1>13. Goal
  <2>1. \A x \in Directors : x = d
    OBVIOUS
  <2> HIDE DEF Goal
  <2> QED BY <1>1, <1>3, <1>4, <1>5, <1>6, <1>7, <1>8, <1>9, <1>10, <1>11, <1>12, <2>1,
             MergeSaves, WriteSaves, EditSaves DEF Next, Goal
<1> QED BY <1>t, <1>13 DEF KInv

\* With one director in the user's directory, whose nodes write different files,
\* no completed work is lost: provided that two seconds pass between the syncs of
\* two steps and copies succeed - each shown to be necessary by TLC.
THEOREM KeptHolds ==
    ASSUME NEW d, Directors = {d}, Disjoint, ~Quick, ~IOMayFail
    PROVE  Spec => []Kept
<1>1. Init => KInv(d)
  BY InitKept
<1>2. KInv(d) /\ [Next]_vars => KInv(d)'
  BY NextKept
<1>3. KInv(d) => Kept
  BY DEF KInv, KeepsWork, Kept, SafeWork, Saved
<1> QED BY <1>1, <1>2, <1>3, PTL DEF Spec

\* Under the same assumptions a step of the run finds what its earlier steps
\* completed, through crashes, kept sandboxes and new ones.
THEOREM StepsBuildOnHolds ==
    ASSUME NEW d, Directors = {d}, Disjoint, ~Quick, ~IOMayFail
    PROVE  Spec => []StepsBuildOn
<1>1. Init => KInv(d)
  BY InitKept
<1>2. KInv(d) /\ [Next]_vars => KInv(d)'
  BY NextKept
<1>3. KInv(d) => StepsBuildOn
  BY DEF KInv, KeepsWork, StepsBuildOn, Saved, Open
<1> QED BY <1>1, <1>2, <1>3, PTL DEF Spec

-----------------------------------------------------------------------------
(* AgentRun.  For every limit, what is sent to the model is a conversation *)
(* and a cancelled agent stops soon.  Both are about the same fact:        *)
(* between the look at cancel_event before a turn and the look before a    *)
(* tool, no step leads back to a request once it is set.                   *)


\* The counters, and what each await still allows after a cancellation.
Counters ==
    /\ at \in {"turn", "ask", "chat", "next", "call", "tool", "end"}
    /\ attempt \in 0 .. LLM_MAX_RETRIES
    /\ at = "ask" => attempt < LLM_MAX_RETRIES
    /\ late \in [{"chat", "tool"} -> Nat]
    /\ ~cancel => late["chat"] = 0 /\ late["tool"] = 0
    /\ late["chat"] <= LLM_MAX_RETRIES /\ late["tool"] <= 1
    /\ at \in {"ask", "chat"} => late["chat"] <= attempt
    /\ at \in {"ask", "chat", "call"} => late["tool"] = 0
    /\ cancel \in BOOLEAN

LEMMA CountersHold == AInit /\ [][ANext]_avars => []Counters
<1>1. AInit => Counters
  <2> SUFFICES ASSUME AInit PROVE Counters
    OBVIOUS
  <2>1. late \in [{"chat", "tool"} -> Nat] /\ late["chat"] = 0 /\ late["tool"] = 0
    BY DEF AInit
  <2>2. cancel \in BOOLEAN /\ at = "turn"
    BY DEF AInit
  <2>3. attempt \in 0 .. LLM_MAX_RETRIES
    BY AgentConstants DEF AInit
  <2>4. late["chat"] <= LLM_MAX_RETRIES /\ late["tool"] <= 1
    BY <2>1, AgentConstants
  <2> QED BY <2>1, <2>2, <2>3, <2>4 DEF Counters
<1>2. Counters /\ [ANext]_avars => Counters'
  <2> SUFFICES ASSUME Counters, [ANext]_avars PROVE Counters'
    OBVIOUS
  <2> USE AgentConstants DEF Counters
  \* The end of a phase begins no request and no tool.
  <2>1. ASSUME NEW b, NEW r, Over(b, r), UNCHANGED <<late, cancel>>
        PROVE  Counters'
    <3>1. at' \in {"turn", "end"} /\ attempt' \in {attempt, 0}
      BY <2>1 DEF Over
    <3> QED BY <2>1, <3>1
  <2>2. ASSUME NEW r, Raise(r), UNCHANGED <<late, cancel>>
        PROVE  Counters'
    BY <2>2 DEF Raise
  <2>3. CASE LastTurn \/ HearCancel \/ Refused \/ Says \/ StopTools
    BY <2>1, <2>3 DEF LastTurn, HearCancel, Refused, Says, StopTools
  <2>4. CASE Inactive \/ Broken
    BY <2>2, <2>4 DEF Inactive, Broken
  <2>5. CASE Turn
    BY <2>5 DEF Turn, Heard
  <2>6. CASE Ask
    BY <2>6 DEF Ask, Late, Counted
  <2>7. CASE Transient
    <3>1. CASE Retries
      BY <2>7, <3>1 DEF Transient, Retries
    <3>2. CASE ~Retries
      BY <2>7, <3>2, <2>1 DEF Transient
    <3> QED BY <3>1, <3>2
  <2>8. ASSUME NEW n \in 1 .. MaxCalls, Calls(n)
        PROVE  Counters'
    BY <2>8 DEF Calls
  <2>9. CASE NextTool
    BY <2>9 DEF NextTool, InFlight
  <2>10. CASE Execute
    BY <2>10 DEF Execute, Late
  <2>11. CASE ToolEnds \/ Answer
    BY <2>11 DEF ToolEnds, Answer
  <2>12. CASE Cancel
    BY <2>12 DEF Cancel
  <2>13. CASE UNCHANGED avars
    BY <2>13 DEF avars
  <2> QED
    BY <2>3, <2>4, <2>5, <2>6, <2>7, <2>8, <2>9, <2>10, <2>11, <2>12, <2>13
    DEF ANext, Step
<1> QED BY <1>1, <1>2, PTL

\* A cancelled agent begins at most one more tool and at most LLM_MAX_RETRIES
\* more requests, whatever the limits and wherever it is cancelled.
THEOREM CancelBoundHolds == ASpec => []CancelBound
<1>1. Counters => CancelBound
  BY DEF Counters, CancelBound
<1> QED BY <1>1, CountersHold, PTL DEF ASpec

-----------------------------------------------------------------------------
\* Every call of t has its result.
Paired(t) == \A i \in 1 .. Len(t) - 1 : t[i].role = "assistant" => t[i + 1].n = t[i].n

\* The messages so far, and who wrote the last one.  Only a cancelled agent at
\* the top of its loop may have left calls without results: it sends nothing.
Talk ==
    /\ at \in {"turn", "ask", "chat", "next", "call", "tool", "end"}
    /\ results \in Nat
    /\ talk \in Seq([role : {"user", "assistant"}, n : Nat]) /\ Len(talk) >= 1
    /\ talk[1] = Prompt
    /\ \A i \in 1 .. Len(talk) - 1 : talk[i].role # talk[i + 1].role
    /\ at \in {"turn", "ask", "chat"} => talk[Len(talk)].role = "user"
    /\ at \in {"next", "call", "tool"} => talk[Len(talk)].role = "assistant"
    /\ at = "end" \/ (at = "turn" /\ cancel) \/ Paired(talk)

LEMMA TalkHolds == AInit /\ [][ANext]_avars => []Talk
<1> DEFINE Msg == [role : {"user", "assistant"}, n : Nat]
<1>0. Prompt \in Msg /\ Prompt.role = "user"
  BY DEF Prompt
<1>a. AInit => Talk
  BY <1>0 DEF AInit, Talk, Paired
<1>b. Talk /\ [ANext]_avars => Talk'
  <2> SUFFICES ASSUME Talk, [ANext]_avars PROVE Talk'
    OBVIOUS
  <2> USE DEF Talk
  <2>1. ASSUME NEW b, NEW r, Over(b, r), at' = "end" \/ at' = "turn"
        PROVE  Talk'
    <3>1. CASE UNCHANGED <<talk, results>> /\ at' = "end"
      BY <3>1
    <3>2. CASE talk' = Prompted /\ results' = 0 /\ at' = "turn"
      BY <1>0, <3>2 DEF Prompted, Paired
    <3> QED BY <2>1, <3>1, <3>2 DEF Over
  <2>2. ASSUME NEW r, Raise(r)
        PROVE  Talk'
    BY <2>2 DEF Raise
  <2>3. CASE LastTurn \/ HearCancel \/ Refused \/ Says \/ StopTools
    <3>1. PICK b, r : Over(b, r)
      BY <2>3 DEF LastTurn, HearCancel, Refused, Says, StopTools
    <3>2. at' = "end" \/ at' = "turn"
      BY <3>1 DEF Over
    <3> QED BY <2>1, <3>1, <3>2
  <2>4. CASE Inactive \/ Broken
    BY <2>2, <2>4 DEF Inactive, Broken
  <2>5. CASE Turn
    BY <2>5 DEF Turn, Heard
  <2>6. CASE Ask
    BY <2>6 DEF Ask
  <2>7. CASE Transient
    <3>1. CASE Retries
      BY <2>7, <3>1 DEF Transient
    <3>2. CASE ~Retries
      <4>1. Over(FALSE, "llm")
        BY <2>7, <3>2 DEF Transient
      <4>2. at' = "end" \/ at' = "turn"
        BY <4>1 DEF Over
      <4> QED BY <2>1, <4>1, <4>2
    <3> QED BY <3>1, <3>2
  <2>8. ASSUME NEW n \in 1 .. MaxCalls, Calls(n)
        PROVE  Talk'
    <3> DEFINE m == [role |-> "assistant", n |-> n]
    <3>1. m \in Msg /\ m.role = "assistant"
      BY AgentConstants
    <3>2. talk' = Append(talk, m) /\ at = "chat" /\ at' = "next" /\ results' = 0
      BY <2>8 DEF Calls
    <3> HIDE DEF m
    <3>3. /\ talk' \in Seq(Msg) /\ Len(talk') = Len(talk) + 1
          /\ \A i \in 1 .. Len(talk) : talk'[i] = talk[i]
          /\ talk'[Len(talk) + 1] = m
      BY <3>1, <3>2
    <3>4. \A i \in 1 .. Len(talk') - 1 : talk'[i].role # talk'[i + 1].role
      BY <3>1, <3>2, <3>3
    <3>5. Paired(talk')
      BY <3>2, <3>3 DEF Paired
    <3> QED BY <3>1, <3>2, <3>3, <3>4, <3>5
  <2>9. CASE NextTool
    BY <2>9 DEF NextTool
  <2>10. CASE Execute
    BY <2>10 DEF Execute
  <2>11. CASE ToolEnds
    BY <2>11 DEF ToolEnds
  <2>12. CASE Answer
    <3> DEFINE m == [role |-> "user", n |-> results]
    <3>1. m \in Msg /\ m.role = "user" /\ m.n = results
      OBVIOUS
    <3>2. /\ talk' = Append(talk, m) /\ at = "next" /\ at' = "turn"
          /\ UNCHANGED <<results, cancel>>
          /\ results = Asked \/ cancel
      BY <2>12 DEF Answer, InFlight
    <3> HIDE DEF m
    <3>3. /\ talk' \in Seq(Msg) /\ Len(talk') = Len(talk) + 1
          /\ \A i \in 1 .. Len(talk) : talk'[i] = talk[i]
          /\ talk'[Len(talk) + 1] = m
      BY <3>1, <3>2
    <3>4. \A i \in 1 .. Len(talk') - 1 : talk'[i].role # talk'[i + 1].role
      BY <3>1, <3>2, <3>3
    <3>5. CASE results = Asked
      <4>1. Paired(talk')
        BY <3>1, <3>2, <3>3, <3>5 DEF Paired, Asked
      <4> QED BY <3>1, <3>2, <3>3, <3>4, <4>1
    <3>6. CASE cancel
      BY <3>1, <3>2, <3>3, <3>4, <3>6
    <3> QED BY <3>2, <3>5, <3>6
  <2>13. CASE Cancel
    BY <2>13 DEF Cancel
  <2>14. CASE UNCHANGED avars
    BY <2>14 DEF avars
  <2> QED
    BY <2>3, <2>4, <2>5, <2>6, <2>7, <2>8, <2>9, <2>10, <2>11, <2>12, <2>13,
       <2>14
    DEF ANext, Step
<1> QED BY <1>a, <1>b, PTL

\* Whatever the limits, the answers and the moment of a cancellation, every
\* request carries a conversation in which each tool call has its result.
THEOREM ConversationHolds == ASpec => []Conversation
<1>1. Talk => Conversation
  BY DEF Talk, Conversation, Paired
<1> QED BY <1>1, TalkHolds, PTL DEF ASpec

-----------------------------------------------------------------------------
\* What Earned says of an agent that has ended, for one in its review: how the
\* work before it ended.
WorkedWell ==
    /\ worked.why \in {"said", "limit"}
    /\ cancel /\ since.phase = "work" => since.turn = worked.turn

\* Once it is cancelled the work begins no other turn.
Judged ==
    /\ phase \in {"work", "review"}
    /\ phase = "work" /\ at # "end" /\ cancel => since = [phase |-> "work", turn |-> turn]
    /\ phase = "review" /\ at # "end" => WorkedWell
    /\ Earned

LEMMA JudgedHolds == AInit /\ [][ANext]_avars => []Judged
<1>1. AInit => Judged
  BY DEF AInit, Judged, Earned
<1>2. Judged /\ [ANext]_avars => Judged'
  <2> SUFFICES ASSUME Judged, [ANext]_avars PROVE Judged'
    OBVIOUS
  <2> USE DEF Judged, Earned, WorkedWell
  \* A phase ends: the work well or not, the review as it may.
  <2>1. ASSUME NEW b \in BOOLEAN, NEW r, Over(b, r), at # "end", UNCHANGED cancel,
               b => r \in {"said", "limit"}
        PROVE  Judged'
    <3>1. CASE phase = "work"
      <4>1. worked' = [why |-> r, turn |-> turn] /\ since' = since /\ ok' = b
        BY <2>1, <3>1 DEF Over, Ended
      <4>2. at' = "end" \/ (b /\ phase' = "review")
        BY <2>1, <3>1 DEF Over
      <4>3. phase' \in {"work", "review"} /\ (phase' = "work" => at' = "end")
        BY <2>1, <3>1 DEF Over
      <4>4. cancel' /\ since'.phase = "work" => since'.turn = worked'.turn
        BY <2>1, <3>1, <4>1
      <4> QED BY <2>1, <4>1, <4>2, <4>3, <4>4
    <3>2. CASE phase = "review"
      BY <2>1, <3>2 DEF Over, Ended
    <3> QED BY <3>1, <3>2
  <2>2. ASSUME NEW r, Raise(r) PROVE Judged'
    BY <2>2 DEF Raise
  <2>3. CASE LastTurn \/ Says
    BY <2>1, <2>3 DEF LastTurn, Says
  <2>4. CASE HearCancel \/ Refused \/ StopTools
    BY <2>1, <2>4 DEF HearCancel, Refused, StopTools, CutOff
  <2>5. CASE Inactive \/ Broken
    BY <2>2, <2>5 DEF Inactive, Broken
  <2>6. CASE Transient
    <3>1. CASE Retries
      BY <2>6, <3>1 DEF Transient, history
    <3>2. CASE ~Retries
      BY <2>1, <2>6, <3>2 DEF Transient
    <3> QED BY <3>1, <3>2
  <2>7. CASE Turn
    BY <2>7 DEF Turn, Heard, history
  <2>8. CASE Ask \/ NextTool \/ Execute \/ ToolEnds \/ Answer
    BY <2>8 DEF Ask, NextTool, Execute, ToolEnds, Answer, history
  <2>9. ASSUME NEW n \in 1 .. MaxCalls, Calls(n) PROVE Judged'
    BY <2>9 DEF Calls, history
  <2>10. CASE Cancel
    BY <2>10 DEF Cancel
  <2>11. CASE UNCHANGED avars
    BY <2>11 DEF avars, history
  <2> QED
    BY <2>3, <2>4, <2>5, <2>6, <2>7, <2>8, <2>9, <2>10, <2>11 DEF ANext, Step
<1> QED BY <1>1, <1>2, PTL

\* An agent is only reported successful when its work had its last word or used up
\* its turns; one that was cancelled in its work only when the cancellation came in
\* the very turn with which the work ended.
THEOREM EarnedHolds == ASpec => []Earned
<1>1. Judged => Earned
  BY DEF Judged
<1> QED BY <1>1, JudgedHolds, PTL DEF ASpec
=============================================================================
