--------------------------- MODULE Panels_proofs ---------------------------
(***************************************************************************)
(* Proofs about the pages' panels: the layout of a plan, the output panel, *)
(* the settings dialog, the form of the models, the planner's chat, the    *)
(* agent tab.                                                              *)
(***************************************************************************)
EXTENDS DagLayout, OutputPanel, SettingsDialog, ModelsForm, ChatPage, LLMOutput,
        Filters, FiniteSetTheorems, TLAPS

-----------------------------------------------------------------------------
(* DagLayout.  While a layout d descends, rows stay above d and only a     *)
(* node that waits in the queue can be as low as its child.  When nothing  *)
(* waits, a node without a row would have a parent without one, and so on  *)
(* upwards, which d does not allow for ever.                               *)

\* A row is unset or a number; the queue and the roots have one.
Numbered ==
    /\ \A n \in Cards : row[n] = Unset \/ row[n] \in Nat
    /\ \A n \in queue \cup roots(edges) : row[n] \in Nat

\* No row is lower than in d, and a visited node is above its children.
Bounded(d) == \A n \in Cards : row[n] <= d[n]
Above(n, c) == row[n] # Unset /\ n \notin queue => row[n] < row[c]
Visited == \A n, c \in Cards : <<n, c>> \in edges => Above(n, c)
LInv ==
    /\ LTypeOK /\ Numbered
    /\ \A d \in [Cards -> 0 .. MaxRow] : Descends(d) => Bounded(d) /\ Visited

\* Some card of a set is in a row of d above which no other card of the set is.
LEMMA Highest ==
  ASSUME NEW d \in [Cards -> Nat], NEW S \in SUBSET Cards, S # {}
  PROVE  \E n \in S : \A m \in S : ~(d[m] < d[n])
<1> DEFINE T == {d[n] : n \in S}
<1>1. T \in SUBSET Nat /\ T # {} OBVIOUS
<1>2. PICK x \in T : \A y \in T : x <= y BY <1>1, Least
<1>3. PICK n \in S : x = d[n] OBVIOUS
<1>4. ASSUME NEW m \in S PROVE ~(d[m] < d[n])
  <2>1. d[n] <= d[m] BY <1>2, <1>3
  <2>2. d[n] \in Nat /\ d[m] \in Nat OBVIOUS
  <2> QED BY <2>1, <2>2
<1> QED BY <1>4

\* Where edges descend there is a root, so that the layout starts at the roots.
LEMMA HasRoot ==
  ASSUME NEW d \in [Cards -> 0 .. MaxRow], Descends(d), edges \in SUBSET (Cards \X Cards)
  PROVE  roots(edges) # {}
<1>1. d \in [Cards -> Nat] BY DagLayoutAssumption
<1>2. PICK n \in Cards : \A m \in Cards : ~(d[m] < d[n])
  BY <1>1, Highest, DagLayoutAssumption
<1>3. ASSUME NEW e \in edges, e[2] = n PROVE FALSE
  <2>1. e[1] \in Cards /\ <<e[1], n>> \in edges BY <1>3
  <2> QED BY <2>1, <1>2 DEF Descends
<1> QED BY <1>3 DEF roots

\* With an empty queue every node of a plan without a cycle has its row.
LEMMA Complete ==
  ASSUME LInv, queue = {}, NEW d \in [Cards -> 0 .. MaxRow], Descends(d)
  PROVE  \A n \in Cards : row[n] \in Nat
<1> DEFINE S == {n \in Cards : row[n] = Unset}
<1>1. SUFFICES ASSUME S # {} PROVE FALSE BY DEF LInv, Numbered
<1>2. d \in [Cards -> Nat] BY DagLayoutAssumption
<1>3. PICK n \in S : \A m \in S : ~(d[m] < d[n]) BY <1>1, <1>2, Highest
<1>4. n \notin roots(edges)
  BY <1>3 DEF LInv, Numbered, Unset
<1>5. PICK e \in edges : e[2] = n BY <1>4 DEF roots
<1>6. e[1] \in Cards /\ <<e[1], n>> \in edges BY <1>5 DEF LInv, LTypeOK
<1>7. d[e[1]] < d[n] BY <1>6 DEF Descends
<1>8. row[e[1]] # Unset BY <1>3, <1>6, <1>7
<1>9. row[e[1]] < row[n] BY <1>6, <1>8 DEF LInv, Visited, Above
<1>10. row[e[1]] \in Nat BY <1>6, <1>8 DEF LInv, Numbered
<1> QED BY <1>3, <1>9, <1>10 DEF Unset

LEMMA LInitInv == LInit => LInv
<1> SUFFICES ASSUME LInit PROVE LInv OBVIOUS
<1> USE DagLayoutAssumption
<1>1. edges \in SUBSET (Cards \X Cards) BY DEF LInit
<1>2. Starts(edges) \subseteq Cards /\ roots(edges) \subseteq Starts(edges)
  BY DEF Starts, roots
<1>3. LTypeOK BY <1>1, <1>2 DEF LInit, LTypeOK, Unset
<1>4. Numbered BY <1>2 DEF LInit, Numbered, roots, Starts
<1>5. ASSUME NEW d \in [Cards -> 0 .. MaxRow] PROVE Bounded(d)
  BY DEF LInit, Bounded, Unset
<1>6. Visited BY DEF LInit, Visited, Above
<1> QED BY <1>3, <1>4, <1>5, <1>6 DEF LInv

LEMMA VisitInv ==
  ASSUME LInv, NEW n \in Cards, Visit(n)
  PROVE  LInv'
<1> USE DagLayoutAssumption DEF LInv, Visit, Raised
<1>1. row[n] \in Nat /\ n \in queue BY DEF Numbered
<1>2. \A c \in Cards : row'[c] = IF c \in Raised(n) THEN row[n] + 1 ELSE row[c]
  OBVIOUS
<1>3. LTypeOK' BY <1>1 DEF LTypeOK
<1>4. \A c \in Cards : row[c] \in Nat => row'[c] \in Nat BY <1>1, <1>2
<1>5. Numbered'
  <2>1. \A c \in Cards : row'[c] = Unset \/ row'[c] \in Nat BY <1>1, <1>2 DEF Numbered
  <2>2. \A c \in queue' : row'[c] \in Nat BY <1>1, <1>2 DEF Numbered, LTypeOK
  <2>3. \A c \in roots(edges) : row'[c] \in Nat BY <1>4 DEF Numbered, roots
  <2> QED BY <2>1, <2>2, <2>3 DEF Numbered, roots
<1>6. ASSUME NEW d \in [Cards -> 0 .. MaxRow], Descends(d) PROVE Bounded(d)' /\ Visited'
  <2>1. Bounded(d) /\ Visited BY <1>6
  <2>2. ASSUME NEW c \in Cards PROVE row'[c] <= d[c]
    <3>1. CASE c \in Raised(n)
      <4>1. d[n] < d[c] BY <3>1, <1>6 DEF Descends
      <4>2. row[n] <= d[n] BY <2>1 DEF Bounded
      <4> QED BY <3>1, <4>1, <4>2, <1>1, <1>2
    <3>2. CASE c \notin Raised(n) BY <3>2, <1>2, <2>1 DEF Bounded
    <3> QED BY <3>1, <3>2
  <2>3. ASSUME NEW a \in Cards, NEW c \in Cards, <<a, c>> \in edges,
               row'[a] # Unset, a \notin queue'
        PROVE  row'[a] < row'[c]
    <3>1. a \notin Raised(n) /\ row'[a] = row[a] BY <2>3, <1>2
    <3>2. row[a] \in Nat BY <3>1, <2>3 DEF Numbered
    <3>3. row[c] \in Int /\ row[c] <= row'[c] BY <1>1, <1>2 DEF LTypeOK
    <3>4. CASE a = n
      <4>1. CASE c \in Raised(n) BY <4>1, <3>4, <3>1, <1>1, <1>2
      <4>2. CASE c \notin Raised(n) BY <4>2, <3>4, <3>1, <3>3, <1>1, <1>2, <2>3
      <4> QED BY <4>1, <4>2
    <3>5. CASE a # n
      <4>1. a \notin queue BY <3>5, <3>1, <2>3
      <4>2. row[a] < row[c] BY <4>1, <3>1, <2>1, <2>3 DEF Visited, Above
      <4> QED BY <4>2, <3>1, <3>2, <3>3, <1>1, <1>2 DEF LTypeOK
    <3> QED BY <3>4, <3>5
  <2> QED BY <2>2, <2>3 DEF Bounded, Visited, Above
<1>7. \A d : Descends(d)' <=> Descends(d) BY DEF Descends
<1> QED BY <1>3, <1>5, <1>6, <1>7

LEMMA PlaceInv ==
  ASSUME LInv, NEW n \in Cards, Place(n)
  PROVE  LInv'
<1> USE DagLayoutAssumption DEF LInv, Place
<1> DEFINE placed == {c \in Cards : row[c] # Unset}
<1>1. Cardinality(placed) \in Nat
  BY FS_Subset, FS_CardinalityType
<1> HIDE DEF placed
<1>2. row' = [row EXCEPT ![n] = Cardinality(placed)] BY DEF placed
<1>3. LTypeOK' BY <1>1, <1>2 DEF LTypeOK
<1>4. Numbered' BY <1>1, <1>2 DEF Numbered, LTypeOK, roots
<1>5. ASSUME NEW d \in [Cards -> 0 .. MaxRow], Descends(d) PROVE FALSE
  BY <1>5, Complete DEF Unset
<1>6. \A d : Descends(d)' <=> Descends(d) BY DEF Descends
<1> QED BY <1>3, <1>4, <1>5, <1>6

\* The layout keeps its invariant, whatever order the queue is worked off in.
THEOREM LayoutInvariant == LSpec => []LInv
<1>1. LInv /\ [LNext]_lvars => LInv'
  <2> SUFFICES ASSUME LInv, [LNext]_lvars PROVE LInv' OBVIOUS
  <2>1. ASSUME NEW n \in Cards, Visit(n) PROVE LInv' BY <2>1, VisitInv
  <2>2. ASSUME NEW n \in Cards, Place(n) PROVE LInv' BY <2>2, PlaceInv
  <2>3. CASE UNCHANGED lvars
    BY <2>3 DEF lvars, LInv, LTypeOK, Numbered, Bounded, Visited, Above, Descends, roots
  <2> QED BY <2>1, <2>2, <2>3 DEF LNext
<1> QED BY <1>1, LInitInv, PTL DEF LSpec

\* Every plan without a cycle is laid out in the fewest rows, for every set of
\* nodes and every order of visits.
THEOREM LayoutIsLayered == LSpec => []Layered
<1>1. LInv => Layered
  <2> SUFFICES ASSUME LInv, queue = {}, NEW d \in [Cards -> 0 .. MaxRow], Descends(d)
               PROVE  /\ \A n \in Cards : 0 <= row[n] /\ row[n] <= d[n]
                      /\ Descends(row)
    BY DEF Layered
  <2>1. \A n \in Cards : row[n] \in Nat BY Complete
  <2>2. Bounded(d) /\ Visited BY DEF LInv
  <2> QED BY <2>1, <2>2 DEF Bounded, Visited, Above, Descends, Unset
<1> QED BY <1>1, LayoutInvariant, PTL

-----------------------------------------------------------------------------
(* OutputPanel.  Every action is one Commit: the two refs that it keeps    *)
(* remember what the panel has already done by itself, and they are given  *)
(* up only together with the count.                                        *)

\* What has been done by itself is remembered by its ref.
Remembered ==
    /\ nudges \in [opened: {0, 1}, turned: {0, 1}]
    /\ {autoExpanded, hasLLM} \subseteq BOOLEAN
    /\ nudges.opened = 1 => autoExpanded
    /\ nudges.turned = 1 => hasLLM

\* A commit of the page keeps count and memory together, whatever has changed.
LEMMA CommitRemembers ==
  ASSUME NEW r, NEW h, NEW wide, NEW t, NEW more, Remembered, Commit(r, h, wide, t, more)
  PROVE  Remembered'
<1>1. autoExpanded' \in BOOLEAN /\ hasLLM' \in BOOLEAN BY DEF Commit, Opens, Turns, Idle
<1>2. nudges'.opened \in {0, 1} /\ (nudges'.opened = 1 => autoExpanded')
  <2>1. CASE Opens(r, h)
    <3>1. nudges.opened = 0 BY <2>1 DEF Opens, Remembered
    <3>2. nudges'.opened = 1 BY <2>1, <3>1 DEF Commit, Count
    <3> QED BY <2>1, <3>2 DEF Commit, Opens
  <2>2. CASE ~Opens(r, h) /\ r # "active" BY <2>2 DEF Commit, Remembered
  <2>3. CASE ~Opens(r, h) /\ r = "active" BY <2>3 DEF Commit, Remembered
  <2> QED BY <2>1, <2>2, <2>3
<1>3. nudges'.turned \in {0, 1} /\ (nudges'.turned = 1 => hasLLM')
  <2>1. CASE Idle(r) BY <2>1 DEF Commit, Idle
  <2>2. CASE ~Idle(r) /\ Turns(h, t, more)
    <3>1. nudges.turned = 0 BY <2>2 DEF Turns, Remembered
    <3>2. ~(r = "idle" /\ r # run) BY <2>2 DEF Idle
    <3>3. nudges'.turned = Count(nudges.turned) BY <2>2, <3>2 DEF Commit
    <3>4. hasLLM' BY <2>2 DEF Commit
    <3> QED BY <3>1, <3>3, <3>4 DEF Count
  <2>3. CASE ~Idle(r) /\ ~Turns(h, t, more) BY <2>3 DEF Commit, Idle, Remembered
  <2> QED BY <2>1, <2>2, <2>3
<1>4. nudges' = [opened |-> nudges'.opened, turned |-> nudges'.turned] BY DEF Commit
<1> QED BY <1>1, <1>2, <1>3, <1>4 DEF Remembered

LEMMA InitRemembers == PInit => Remembered
BY DEF PInit, Remembered

\* Every action of the panel ends in a commit.
LEMMA StepRemembers == Remembered /\ [PNext]_ovars => Remembered'
<1> SUFFICES ASSUME Remembered, [PNext]_ovars PROVE Remembered' OBVIOUS
<1>1. CASE Trigger BY <1>1, CommitRemembers DEF Trigger
<1>2. ASSUME NEW r \in {"idle", "active"}, Triggered(r) PROVE Remembered'
  BY <1>2, CommitRemembers DEF Triggered
<1>3. CASE Resume BY <1>3, CommitRemembers DEF Resume
<1>4. CASE Cancel BY <1>4, CommitRemembers DEF Cancel
<1>5. ASSUME NEW h \in {"something", "wrote"}, NEW r \in {"active", "over"}, Come(h, r)
      PROVE  Remembered'
  BY <1>5, CommitRemembers DEF Come
<1>6. ASSUME NEW t \in Tabs, handleTabChange(t) PROVE Remembered'
  BY <1>6, CommitRemembers DEF handleTabChange
<1>7. CASE toggleExpanded BY <1>7, CommitRemembers DEF toggleExpanded
<1>8. CASE toggleFullscreen BY <1>8, CommitRemembers DEF toggleFullscreen
<1>9. CASE Escape BY <1>9, CommitRemembers DEF Escape
<1>10. CASE ClearFilter BY <1>10, CommitRemembers DEF ClearFilter
<1>11. ASSUME NEW n \in PlanNodes, onNodeClick(n) PROVE Remembered'
  BY <1>11, CommitRemembers DEF onNodeClick
<1>12. ASSUME NEW n \in PlanNodes \cup {AllNodes}, handleNodeFilter(n) PROVE Remembered'
  BY <1>12, CommitRemembers DEF handleNodeFilter
<1>13. CASE UNCHANGED ovars BY <1>13 DEF ovars, Remembered
<1> QED BY <1>1, <1>2, <1>3, <1>4, <1>5, <1>6, <1>7, <1>8, <1>9, <1>10, <1>11, <1>12, <1>13
        DEF PNext

\* The panel opens by itself at most once while a run is active, and turns to the
\* agent tab at most once until the run is given up (OutputPanel.tsx, the effects).
THEOREM OneNudgeHolds == PSpec => []OneNudge
<1>1. Remembered => OneNudge BY DEF Remembered, OneNudge
<1> QED BY <1>1, InitRemembers, StepRemembers, PTL DEF PSpec

-----------------------------------------------------------------------------
(* SettingsDialog.  The request numbers keep older answers out of the      *)
(* store.  One request at most is the newest, and what the server has      *)
(* answered it is neither older than the store, which only the newest      *)
(* request's answer moves on, nor newer than the server.                   *)

\* A row and a request as far as the argument needs them, without their bounds.
Pair == Nat \X Nat
Rows == [general: Nat, model: Pair, changes: Nat]
Asked == [op: {"load", "save"}, newest: BOOLEAN, st: {"sent", "ok", "failed"}, row: Rows]

Shaped ==
    /\ server \in Rows /\ settings \in Rows /\ requests \in Seq(Asked)
    /\ draft \in Pair /\ values \in Nat

OneNewest == \A i, j \in DOMAIN requests : requests[i].newest /\ requests[j].newest => i = j
InBetween(r) == settings.changes <= r.row.changes /\ r.row.changes <= server.changes
Current ==
    /\ settings.changes <= server.changes
    /\ \A i \in DOMAIN requests :
           requests[i].newest /\ requests[i].st = "ok" => InBetween(requests[i])
Orderly == Shaped /\ OneNewest /\ Current

\* Taking a request off leaves the others as they are, each in a place of its own.
LEMMA Removed ==
  ASSUME NEW s \in Seq(Asked), NEW i \in DOMAIN s
  PROVE  /\ RemoveAt(s, i) \in Seq(Asked)
         /\ Len(RemoveAt(s, i)) = Len(s) - 1
         /\ \A j \in DOMAIN RemoveAt(s, i) :
                RemoveAt(s, i)[j] = IF j < i THEN s[j] ELSE s[j + 1]
<1> DEFINE a == SubSeq(s, 1, i - 1)
           b == SubSeq(s, i + 1, Len(s))
<1>1. a \in Seq(Asked) /\ Len(a) = i - 1 OBVIOUS
<1>2. b \in Seq(Asked) /\ Len(b) = Len(s) - i OBVIOUS
<1>3. \A j \in 1 .. i - 1 : a[j] = s[j] OBVIOUS
<1>4. \A j \in 1 .. Len(s) - i : b[j] = s[j + i] OBVIOUS
<1>5. RemoveAt(s, i) = a \o b BY DEF RemoveAt
<1>6. i \in 1 .. Len(s) /\ Len(s) \in Nat OBVIOUS
<1> HIDE DEF a, b
<1>7. a \o b \in Seq(Asked) /\ Len(a \o b) = Len(s) - 1 BY <1>1, <1>2, <1>6
<1>8. ASSUME NEW j \in 1 .. Len(s) - 1 PROVE (a \o b)[j] = IF j < i THEN s[j] ELSE s[j + 1]
  <2>1. CASE j < i BY <2>1, <1>1, <1>2, <1>3, <1>6
  <2>2. CASE ~(j < i)
    <3>1. (a \o b)[j] = b[j - (i - 1)] BY <2>2, <1>1, <1>2, <1>6
    <3>2. j - (i - 1) \in 1 .. Len(s) - i BY <2>2, <1>6
    <3>3. b[j - (i - 1)] = s[(j - (i - 1)) + i] BY <3>2, <1>4
    <3>4. (j - (i - 1)) + i = j + 1 BY <1>6
    <3> QED BY <2>2, <3>1, <3>3, <3>4
  <2> QED BY <2>1, <2>2
<1>9. DOMAIN (a \o b) = 1 .. Len(s) - 1 BY <1>7, <1>6
<1> QED BY <1>5, <1>7, <1>8, <1>9

LEMMA InitOrderly == SInit /\ MaxEdits \in Nat => Orderly
BY DEF SInit, Orderly, Shaped, OneNewest, Current, InBetween, Rows, Pair, NoModel

LEMMA Fields ==
  ASSUME NEW q \in Asked
  PROVE  /\ q.row \in Rows /\ q.row.changes \in Nat
         /\ [q EXCEPT !.newest = FALSE] \in Asked /\ ~[q EXCEPT !.newest = FALSE].newest
<1>1. q.row \in Rows BY DEF Asked
<1>2. q.row.changes \in Nat BY <1>1 DEF Rows
<1>3. [q EXCEPT !.newest = FALSE] \in Asked BY DEF Asked
<1>4. ~[q EXCEPT !.newest = FALSE].newest BY DEF Asked
<1> QED BY <1>1, <1>2, <1>3, <1>4

\* What is done to the fields of the dialog leaves the count of changes alone.
LEMMA LocalOrderly ==
  ASSUME Orderly, UNCHANGED <<server, requests>>,
         settings' \in Rows, settings'.changes = settings.changes,
         draft' \in Pair, values' \in Nat
  PROVE  Orderly'
BY DEF Orderly, Shaped, OneNewest, Current, InBetween

\* A new request is the newest, and has no answer yet.
LEMMA IssueOrderly ==
  ASSUME Orderly, NEW op \in {"load", "save"}, NEW rw \in Rows, Issue(op, rw),
         UNCHANGED <<server, settings>>, draft' \in Pair, values' \in Nat
  PROVE  Orderly'
<1> DEFINE old == [i \in DOMAIN requests |-> [requests[i] EXCEPT !.newest = FALSE]]
           new == [op |-> op, newest |-> TRUE, st |-> "sent", row |-> rw]
<1>1. requests \in Seq(Asked) BY DEF Orderly, Shaped
<1>2. \A i \in DOMAIN requests : old[i] \in Asked /\ ~old[i].newest
  <2> TAKE i \in DOMAIN requests
  <2>1. requests[i] \in Asked BY <1>1
  <2>2. old[i] = [requests[i] EXCEPT !.newest = FALSE] OBVIOUS
  <2> QED BY <2>1, <2>2, Fields
<1>3. old \in Seq(Asked) /\ Len(old) = Len(requests) BY <1>1, <1>2
<1>4. new \in Asked BY DEF Asked
<1>5. requests' = Append(old, new) BY DEF Issue
<1>6. \A i \in DOMAIN old : ~old[i].newest BY <1>2
<1>7. new.newest /\ new.st = "sent" OBVIOUS
<1> HIDE DEF old, new
<1>8. requests' \in Seq(Asked) BY <1>3, <1>4, <1>5
<1>9. \A i \in DOMAIN requests' : requests'[i].newest => i = Len(old) + 1 /\ requests'[i].st = "sent"
  BY <1>3, <1>4, <1>5, <1>6, <1>7
<1>10. OneNewest' BY <1>9 DEF OneNewest
<1>11. Current' BY <1>9 DEF Orderly, Current
<1> QED BY <1>8, <1>10, <1>11 DEF Orderly, Shaped

\* The server's answer: the file as it is then.
LEMMA ServeOrderly ==
  ASSUME Orderly, NEW i \in DOMAIN requests, ServeSettings(i)
  PROVE  Orderly'
<1>1. requests[i] \in Asked /\ server \in Rows /\ settings \in Rows /\ requests \in Seq(Asked)
  BY DEF Orderly, Shaped
<1>2. server' \in Rows /\ server'.changes >= server.changes
  <2>1. requests[i].row \in Rows /\ server.changes \in Nat BY <1>1, Fields DEF Rows
  <2>2. CASE requests[i].op = "save"
    <3>1. server' = [requests[i].row EXCEPT !.changes = server.changes + 1]
      BY <2>2 DEF ServeSettings
    <3> QED BY <2>1, <3>1 DEF Rows
  <2>3. CASE requests[i].op # "save" BY <1>1, <2>1, <2>3 DEF ServeSettings
  <2> QED BY <2>2, <2>3
<1>3. [requests[i] EXCEPT !.st = "ok", !.row = server'] \in Asked BY <1>1, <1>2 DEF Asked
<1>4. requests' = [requests EXCEPT ![i] = [requests[i] EXCEPT !.st = "ok", !.row = server']]
  BY <1>1 DEF ServeSettings, Asked
<1>5. requests' \in Seq(Asked) /\ DOMAIN requests' = DOMAIN requests BY <1>1, <1>3, <1>4
<1>6. \A j \in DOMAIN requests : j # i => requests'[j] = requests[j] BY <1>1, <1>4
<1>7. /\ requests'[i].newest = requests[i].newest /\ requests'[i].row = server'
  BY <1>1, <1>4 DEF Asked
<1>8. OneNewest' BY <1>5, <1>6, <1>7 DEF Orderly, OneNewest
<1>9. Current'
  <2>1. server.changes \in Nat /\ server'.changes \in Nat /\ settings.changes \in Nat
    BY <1>1, <1>2 DEF Rows
  <2>2. settings' = settings BY DEF ServeSettings
  <2>3. settings'.changes <= server'.changes BY <1>2, <2>1, <2>2 DEF Orderly, Current
  <2>4. ASSUME NEW j \in DOMAIN requests', requests'[j].newest, requests'[j].st = "ok"
        PROVE  InBetween(requests[j])'
    <3>1. CASE j = i BY <3>1, <1>7, <2>1, <2>3 DEF InBetween
    <3>2. CASE j # i
      <4>1. InBetween(requests[j]) BY <3>2, <2>4, <1>5, <1>6 DEF Orderly, Current
      <4>2. requests[j].row.changes \in Nat
        <5>1. requests[j] \in Asked BY <1>1, <1>5
        <5> QED BY <5>1, Fields
      <4> QED BY <3>2, <4>1, <4>2, <1>2, <1>5, <1>6, <2>1, <2>2 DEF InBetween
    <3> QED BY <3>1, <3>2
  <2> QED BY <2>3, <2>4 DEF Current
<1>10. draft' = draft /\ values' = values /\ settings' = settings BY DEF ServeSettings
<1> QED BY <1>1, <1>2, <1>5, <1>8, <1>9, <1>10 DEF Orderly, Shaped

LEMMA FailOrderly ==
  ASSUME Orderly, NEW i \in DOMAIN requests, FailSettings(i)
  PROVE  Orderly'
<1>1. requests[i] \in Asked /\ requests \in Seq(Asked) BY DEF Orderly, Shaped
<1>2. [requests[i] EXCEPT !.st = "failed"] \in Asked BY <1>1 DEF Asked
<1>3. requests' = [requests EXCEPT ![i] = [requests[i] EXCEPT !.st = "failed"]]
  BY <1>1 DEF FailSettings, Asked
<1>4. requests' \in Seq(Asked) /\ DOMAIN requests' = DOMAIN requests BY <1>1, <1>2, <1>3
<1>5. \A j \in DOMAIN requests : j # i => requests'[j] = requests[j] BY <1>1, <1>3
<1>6. requests'[i].newest = requests[i].newest /\ requests'[i].st = "failed"
  BY <1>1, <1>3 DEF Asked
<1>7. OneNewest' BY <1>4, <1>5, <1>6 DEF Orderly, OneNewest
<1>8. UNCHANGED <<server, settings, draft, values>> BY DEF FailSettings
<1>9. Current' BY <1>4, <1>5, <1>6, <1>8 DEF Orderly, Current, InBetween
<1> QED BY <1>4, <1>7, <1>8, <1>9 DEF Orderly, Shaped

\* What the store makes of an answer keeps its count.
LEMMA Counted ==
  ASSUME NEW rw \in Rows, draft \in Pair
  PROVE  /\ Kept(rw) \in Pair
         /\ WrittenBack(rw) \in Rows /\ WrittenBack(rw).changes = rw.changes
<1>1. Kept(rw) \in Pair BY DEF Kept, Rows, Pair, NoModel
<1>2. WrittenBack(rw) \in Rows /\ WrittenBack(rw).changes = rw.changes
  BY <1>1 DEF WrittenBack, Rows
<1> QED BY <1>1, <1>2

\* The answer of the newest request leaves no other that counts.
LEMMA AnswerOrderly ==
  ASSUME Orderly, NEW i \in DOMAIN requests, SettingsAnswer(i)
  PROVE  Orderly' /\ settings'.changes >= settings.changes
<1> DEFINE r == requests[i]
<1>1. /\ requests \in Seq(Asked) /\ r \in Asked /\ r.row \in Rows /\ server \in Rows
      /\ settings \in Rows /\ draft \in Pair
  <2>1. requests \in Seq(Asked) /\ server \in Rows /\ settings \in Rows /\ draft \in Pair
    BY DEF Orderly, Shaped
  <2>2. r \in Asked BY <2>1
  <2> QED BY <2>1, <2>2, Fields
<1>2. UNCHANGED <<server, values>> BY DEF SettingsAnswer
<1>3. requests' = RemoveAt(requests, i) BY DEF SettingsAnswer
<1>4. /\ requests' \in Seq(Asked) /\ Len(requests') = Len(requests) - 1
      /\ \A j \in DOMAIN requests' :
             requests'[j] = IF j < i THEN requests[j] ELSE requests[j + 1]
  BY <1>1, <1>3, Removed
<1>5. \A j \in DOMAIN requests' : \E k \in DOMAIN requests :
          requests'[j] = requests[k] /\ k = (IF j < i THEN j ELSE j + 1) /\ k # i
  <2> TAKE j \in DOMAIN requests'
  <2>1. /\ j \in Nat /\ j >= 1 /\ j <= Len(requests) - 1 /\ Len(requests) \in Nat
        /\ DOMAIN requests = 1 .. Len(requests) /\ i \in 1 .. Len(requests)
    BY <1>1, <1>4
  <2>2. CASE j < i BY <2>1, <2>2, <1>4
  <2>3. CASE ~(j < i)
    <3>1. j + 1 \in DOMAIN requests /\ j + 1 # i BY <2>1, <2>3
    <3> QED BY <3>1, <2>3, <1>4
  <2> QED BY <2>2, <2>3
<1>6. OneNewest'
  <2> SUFFICES ASSUME NEW j \in DOMAIN requests', NEW l \in DOMAIN requests',
                      requests'[j].newest, requests'[l].newest
               PROVE  j = l
    BY DEF OneNewest
  <2>1. PICK k \in DOMAIN requests :
            requests'[j] = requests[k] /\ k = (IF j < i THEN j ELSE j + 1)
    BY <1>5
  <2>2. PICK m \in DOMAIN requests :
            requests'[l] = requests[m] /\ m = (IF l < i THEN l ELSE l + 1)
    BY <1>5
  <2>3. k = m BY <2>1, <2>2 DEF Orderly, OneNewest
  <2>4. j \in Nat /\ l \in Nat /\ i \in Nat BY <1>1, <1>4
  <2> QED BY <2>1, <2>2, <2>3, <2>4
<1>7. CASE r.newest /\ r.st = "ok"
  <2>1. settings' = WrittenBack(r.row) /\ draft' = Kept(r.row) BY <1>7 DEF SettingsAnswer, Counts
  <2>2. settings' \in Rows /\ settings'.changes = r.row.changes /\ draft' \in Pair
    BY <1>1, <2>1, Counted
  <2>3. settings.changes <= r.row.changes /\ r.row.changes <= server.changes
    BY <1>7 DEF Orderly, Current, InBetween
  <2>4. \A j \in DOMAIN requests' : ~requests'[j].newest
    BY <1>5, <1>7 DEF Orderly, OneNewest
  <2>5. Current' BY <2>2, <2>3, <2>4, <1>2 DEF Current
  <2>6. settings'.changes >= settings.changes BY <2>2, <2>3, <1>1 DEF Rows
  <2> QED BY <1>1, <1>2, <1>4, <1>6, <2>2, <2>5, <2>6 DEF Orderly, Shaped
<1>8. CASE ~(r.newest /\ r.st = "ok")
  <2>1. settings' = settings /\ draft' = draft BY <1>8 DEF SettingsAnswer, Counts
  <2>2. Current' BY <1>2, <1>5, <2>1 DEF Orderly, Current, InBetween
  <2>3. settings'.changes >= settings.changes BY <2>1, <1>1 DEF Rows
  <2> QED BY <1>1, <1>2, <1>4, <1>6, <2>1, <2>2, <2>3 DEF Orderly, Shaped
<1> QED BY <1>7, <1>8

\* Every other action is a request, or touches the fields only.
LEMMA StepOrderly ==
  ASSUME Orderly, SNext
  PROVE  Orderly' /\ settings'.changes >= settings.changes
<1>1. /\ server \in Rows /\ settings \in Rows /\ settings.changes \in Nat
      /\ settings.model \in Pair /\ draft \in Pair /\ values \in Nat
      /\ requests \in Seq(Asked)
  BY DEF Orderly, Shaped, Rows
<1>2. NoModel \in Pair BY DEF NoModel, Pair
<1>3. ASSUME NEW i \in DOMAIN requests, ServeSettings(i) \/ FailSettings(i)
      PROVE  Orderly' /\ settings'.changes >= settings.changes
  <2>1. Orderly' BY <1>3, ServeOrderly, FailOrderly
  <2>2. settings' = settings BY <1>3 DEF ServeSettings, FailSettings
  <2> QED BY <1>1, <2>1, <2>2
<1>4. ASSUME NEW i \in DOMAIN requests, SettingsAnswer(i)
      PROVE  Orderly' /\ settings'.changes >= settings.changes
  BY <1>4, AnswerOrderly
<1>5. CASE SelectorLoads \/ OpenModal \/ OpenEditor \/ Save
  <2>1. UNCHANGED <<server, settings, values>> /\ draft' \in Pair
    BY <1>1, <1>2, <1>5 DEF SelectorLoads, OpenModal, OpenEditor, Save
  <2>2. Issue("load", settings) \/ Issue("save", settings)
    BY <1>5 DEF SelectorLoads, OpenModal, OpenEditor, Save, loadFromServer
  <2>3. Orderly' BY <1>1, <2>1, <2>2, IssueOrderly
  <2> QED BY <1>1, <2>1, <2>3
<1>6. ASSUME UNCHANGED <<server, requests, settings>>, draft' \in Pair, values' \in Nat
      PROVE  Orderly' /\ settings'.changes >= settings.changes
  BY <1>1, <1>6, LocalOrderly
<1>7. CASE CloseModal \/ OpenNode \/ Back \/ (\E t \in SettingsTabs : ChooseTab(t))
  BY <1>1, <1>2, <1>6, <1>7 DEF CloseModal, OpenNode, Back, ChooseTab
<1>8. CASE TypeText
  <2>1. draft' \in Pair BY <1>1, <1>8 DEF TypeText, Pair
  <2> QED BY <1>1, <1>6, <1>8, <2>1 DEF TypeText
<1>9. CASE updateGeneral \/ updateDisplay \/ updateModelStrategy \/ updateDebugMode
  <2>1. OtherSetting
    BY <1>9 DEF updateGeneral, updateDisplay, updateModelStrategy, updateDebugMode
  <2>2. settings' = [settings EXCEPT !.general = values + 1] BY <2>1 DEF OtherSetting
  <2>3. settings' \in Rows /\ settings'.changes = settings.changes BY <1>1, <2>2 DEF Rows
  <2>4. UNCHANGED <<server, requests, draft>> /\ values' = values + 1
    BY <2>1 DEF OtherSetting, Typing
  <2> QED BY <1>1, <2>3, <2>4, LocalOrderly
<1>10. CASE updateModel \/ commitModelNumericField \/ addModel \/ removeModel
  <2>1. draft' \in Pair
    BY <1>1, <1>2, <1>10
       DEF updateModel, commitModelNumericField, addModel, removeModel, Pair, Default
  <2>2. settings' = [settings EXCEPT !.model = draft']
    BY <1>10 DEF updateModel, commitModelNumericField, addModel, removeModel
  <2>3. settings' \in Rows /\ settings'.changes = settings.changes
    BY <1>1, <2>1, <2>2 DEF Rows
  <2>4. UNCHANGED <<server, requests>> /\ values' \in Nat
    BY <1>1, <1>10
       DEF updateModel, commitModelNumericField, addModel, removeModel, Typing
  <2> QED BY <1>1, <2>1, <2>3, <2>4, LocalOrderly
<1>11. CASE OtherSaves
  <2>1. server' = [server EXCEPT !.general = values + 1, !.changes = server.changes + 1]
    BY <1>11 DEF OtherSaves
  <2>2. server' \in Rows /\ server'.changes = server.changes + 1 /\ server.changes \in Nat
    <3>1. server.changes \in Nat /\ values + 1 \in Nat BY <1>1 DEF Rows
    <3>2. server.changes + 1 \in Nat BY <3>1
    <3> QED BY <1>1, <2>1, <3>1, <3>2 DEF Rows
  <2>3. UNCHANGED <<settings, requests, draft>> /\ values' \in Nat BY <1>1, <1>11 DEF OtherSaves
  <2>4. \A i \in DOMAIN requests : requests[i].row.changes \in Nat
    <3> TAKE i \in DOMAIN requests
    <3>1. requests[i] \in Asked BY <1>1
    <3> QED BY <3>1, Fields
  <2>5. Current' BY <1>1, <2>2, <2>3, <2>4 DEF Orderly, Current, InBetween
  <2>6. OneNewest' BY <2>3 DEF Orderly, OneNewest
  <2> QED BY <1>1, <2>2, <2>3, <2>5, <2>6 DEF Orderly, Shaped
<1> QED BY <1>3, <1>4, <1>5, <1>7, <1>8, <1>9, <1>10, <1>11 DEF SNext

LEMMA StutterOrderly ==
  ASSUME Orderly, UNCHANGED svars
  PROVE  Orderly' /\ settings' = settings
BY DEF svars, Orderly, Shaped, OneNewest, Current, InBetween

\* However the answers of loads and saves overtake each other, the store never
\* goes back to an older state of the file (settingsStore.ts, settingsRequestSeq).
THEOREM NeverGoesBack == SSpec => NeverBack
<1>1. SInit => Orderly BY InitOrderly, SettingsDialogAssumption
<1>2. Orderly /\ [SNext]_svars => Orderly' BY StepOrderly, StutterOrderly
<1>3. Orderly /\ [SNext]_svars => [settings'.changes >= settings.changes]_svars
  BY StepOrderly
<1> QED BY <1>1, <1>2, <1>3, PTL DEF SSpec, NeverBack

-----------------------------------------------------------------------------
(* ModelsForm.  What is listed was listed by the endpoint that the form    *)
(* names, or late; so is what is added from it, under a key of its own.    *)

\* The list that is shown fits the form.
Fits == fetched # NoList => fetched.late \/ fetched.by = form

LInvariant ==
    /\ form \in Endpoints /\ fetched \in Lists /\ models \subseteq Entries
    /\ adds \in 0 .. MaxAdds /\ asked \in Endpoints \cup {NoEndpoint} /\ selected \subseteq Names
    /\ Fits /\ ListedThere

\* The form before anything is listed.
LEMMA NoListTyped == NoList \in Lists /\ NewForm \in Endpoints
<1>1. NoList \in Lists
  BY DEF NoList, Lists
<1>2. NewForm \in Endpoints
  BY ModelsFormAssumption DEF NewForm, Endpoints
<1> QED BY <1>1, <1>2

\* An entry that is added, and one that is switched.
LEMMA EntryTyped ==
    ASSUME LInvariant, adds < MaxAdds, NEW n \in Names, NEW list \in Lists
    PROVE  LET e == Entry(n, list) IN
           e \in Entries /\ e.list = list /\ e.endpoint = form /\ Name(e) = n
<1>1. <<adds, n>> \in (0 .. MaxAdds) \X Names /\ <<adds, n>>[2] = n
  BY DEF LInvariant
<1> QED BY <1>1 DEF LInvariant, Entry, Entries, Name

\* An entry that is switched stays the entry of its model.
LEMMA SwitchTyped ==
    ASSUME NEW m \in Entries
    PROVE  LET e == [m EXCEPT !.enabled = ~@] IN
           e \in Entries /\ e.list = m.list /\ Key(e) = Key(m) /\ e.endpoint = m.endpoint
BY DEF Entries, Key, Name

\* Fewer models are no worse.
LEMMA FewerListed ==
    ASSUME ListedThere, models' \subseteq models
    PROVE  ListedThere'
BY DEF ListedThere, Listed

\* Models that were not chosen from a list do not count.
LEMMA CustomListed ==
    ASSUME ListedThere, NEW e, e.list = NoList, models' = models \cup {e}
    PROVE  ListedThere'
BY DEF ListedThere, Listed

\* What is chosen from the list is stored as the list has it.
LEMMA BatchListed ==
    ASSUME LInvariant, handleBatchAdd
    PROVE  models' \subseteq Entries /\ ListedThere'
<1> DEFINE Added == {Entry(n, fetched) : n \in Absent}
<1>1. fetched # NoList /\ fetched \in Lists /\ adds < MaxAdds /\ models' = models \cup Added
  BY DEF handleBatchAdd, Adding, LInvariant
<1>2. ASSUME NEW e \in Added
      PROVE  /\ e \in Entries /\ e.list = fetched /\ e.endpoint = form
             /\ \A m \in models : Key(m) # Key(e)
  <2>1. PICK n \in Absent : e = Entry(n, fetched)
    OBVIOUS
  <2>2. n \in Names /\ <<form, n>> \notin {Key(m) : m \in models}
    BY DEF Absent, LInvariant
  <2>3. e \in Entries /\ e.list = fetched /\ e.endpoint = form /\ Name(e) = n
    BY <1>1, <2>1, <2>2, EntryTyped
  <2> QED BY <2>2, <2>3 DEF Key
<1>3. ASSUME NEW e \in Added, NEW x \in Added, Key(e) = Key(x)
      PROVE  e = x
  <2>1. PICK n \in Absent : e = Entry(n, fetched)
    OBVIOUS
  <2>2. PICK k \in Absent : x = Entry(k, fetched)
    OBVIOUS
  <2>3. n \in Names /\ k \in Names
    BY DEF Absent, LInvariant
  <2>4. Name(e) = n /\ Name(x) = k
    BY <1>1, <2>1, <2>2, <2>3, EntryTyped
  <2>5. n = k
    BY <1>3, <2>4 DEF Key
  <2> QED BY <2>1, <2>2, <2>5
<1> HIDE DEF Added
<1>4. models' \subseteq Entries
  BY <1>1, <1>2 DEF LInvariant
<1>5. ListedThere'
  BY <1>1, <1>2, <1>3 DEF LInvariant, ListedThere, Listed, Fits
<1> QED BY <1>4, <1>5

\* Switching an entry on or off leaves what it is.
LEMMA SwitchListed ==
    ASSUME LInvariant, NEW m \in models, ToggleEnabled(m)
    PROVE  models' \subseteq Entries /\ ListedThere'
<1> DEFINE e == [m EXCEPT !.enabled = ~@]
<1>1. e \in Entries /\ e.list = m.list /\ Key(e) = Key(m) /\ e.endpoint = m.endpoint
  BY SwitchTyped DEF LInvariant
<1>2. models' = (models \ {m}) \cup {e}
  BY DEF ToggleEnabled
<1> HIDE DEF e
<1> QED BY <1>1, <1>2 DEF LInvariant, ListedThere, Listed

\* Every step of the form keeps the invariant.
LEMMA ListedStep == LInvariant /\ [MNext]_mvars => LInvariant'
<1> SUFFICES ASSUME LInvariant, [MNext]_mvars PROVE LInvariant'
  OBVIOUS
<1> USE NoListTyped
\* Where the list is emptied, or neither it nor the form changes.
<1>1. ASSUME fetched' = NoList, form' \in Endpoints, models' = models, adds' = adds,
             asked' \in Endpoints \cup {NoEndpoint}, selected' \subseteq Names
      PROVE  LInvariant'
  BY <1>1, FewerListed DEF LInvariant, Fits
<1>2. ASSUME UNCHANGED <<form, fetched, asked>>, selected' \subseteq Names,
             adds' \in 0 .. MaxAdds, models' \subseteq Entries, ListedThere'
      PROVE  LInvariant'
  BY <1>2 DEF LInvariant, Fits
<1>3. ASSUME NEW f \in Formats, handleFormatChange(f)
      PROVE  LInvariant'
  <2>1. form' \in Endpoints
    BY <1>3, ModelsFormAssumption DEF handleFormatChange, Endpoints
  <2> QED BY <1>1, <1>3, <2>1 DEF handleFormatChange, Forgotten, LInvariant
<1>4. ASSUME NEW u \in Urls, TypeUrl(u)
      PROVE  LInvariant'
  <2>1. form' \in Endpoints
    BY <1>4 DEF TypeUrl, LInvariant, Endpoints
  <2> QED BY <1>1, <1>4, <2>1 DEF TypeUrl, LInvariant
<1>5. CASE handleFetchModels
  BY <1>1, <1>5 DEF handleFetchModels, LInvariant
<1>6. ASSUME NEW names \in SUBSET Names, FetchReturns(names)
      PROVE  LInvariant'
  <2>1. UNCHANGED <<form, models, adds>> /\ ListedThere' /\ asked' = NoEndpoint
    BY <1>6, FewerListed DEF FetchReturns, LInvariant
  <2>2. CASE names = {}
    BY <1>6, <2>1, <2>2 DEF FetchReturns, LInvariant, Fits
  <2>3. CASE names # {}
    <3> DEFINE l == [names |-> names, by |-> asked, late |-> form # asked]
    <3>1. l \in Lists /\ l.by = asked /\ (l.late <=> form # asked)
      BY DEF LInvariant, Lists
    <3>2. fetched' = l /\ selected' = names
      BY <1>6, <2>3 DEF FetchReturns
    <3> HIDE DEF l
    <3> QED BY <2>1, <3>1, <3>2 DEF LInvariant, Fits
  <2> QED BY <2>2, <2>3
<1>7. ASSUME NEW n \in Names, toggleModel(n)
      PROVE  LInvariant'
  BY <1>2, <1>7, FewerListed DEF toggleModel, LInvariant
<1>8. ASSUME NEW n \in Names, handleAddCustom(n)
      PROVE  LInvariant'
  <2>1. Entry(n, NoList) \in Entries /\ Entry(n, NoList).list = NoList
    BY <1>8, EntryTyped DEF handleAddCustom, Adding
  <2>2. ListedThere'
    BY <1>8, <2>1, CustomListed DEF handleAddCustom, LInvariant
  <2> QED BY <1>2, <1>8, <2>1, <2>2, ModelsFormAssumption DEF handleAddCustom, Adding, LInvariant
<1>9. CASE toggleAll
  <2>1. selected' \subseteq Names
    BY <1>9 DEF toggleAll, LInvariant, Lists
  <2> QED BY <1>2, <1>9, <2>1, FewerListed DEF toggleAll, LInvariant
<1>10. CASE handleBatchAdd
  <2>1. adds' \in 0 .. MaxAdds
    BY <1>10, ModelsFormAssumption DEF handleBatchAdd, Adding, LInvariant
  <2> QED BY <1>10, <2>1, BatchListed DEF handleBatchAdd, LInvariant, Fits
<1>11. CASE LeaveTab
  BY <1>1, <1>11 DEF LeaveTab, LInvariant
<1>12. ASSUME NEW m \in models, ToggleEnabled(m)
       PROVE  LInvariant'
  BY <1>2, <1>12, SwitchListed DEF ToggleEnabled, LInvariant
<1>13. ASSUME NEW m \in models, deleteModel(m) \/ handleTest(m)
       PROVE  LInvariant'
  BY <1>2, <1>13, FewerListed DEF deleteModel, handleTest, LInvariant
<1>14. ASSUME NEW id \in testing, TestReturns(id)
       PROVE  LInvariant'
  BY <1>2, <1>14, FewerListed DEF TestReturns, LInvariant
<1>15. CASE UNCHANGED mvars
  BY <1>2, <1>15, FewerListed DEF mvars, LInvariant
<1> QED BY <1>3, <1>4, <1>5, <1>6, <1>7, <1>8, <1>9, <1>10, <1>11, <1>12, <1>13, <1>14, <1>15
        DEF MNext

\* Unless its list came late, a model that was chosen from one is stored with the
\* endpoint that listed it and under a key of its own, for any endpoints, names
\* and changes of the form (SettingsModal.tsx).
THEOREM ListedThereHolds == MSpec => []ListedThere
<1>1. MInit => LInvariant
  <2> SUFFICES ASSUME MInit PROVE LInvariant
    OBVIOUS
  <2>1. models = {} /\ fetched = NoList /\ adds \in 0 .. MaxAdds
    BY ModelsFormAssumption DEF MInit
  <2> QED BY <2>1, NoListTyped DEF MInit, LInvariant, Fits, ListedThere, Listed
<1>2. LInvariant => ListedThere
  BY DEF LInvariant
<1> QED BY <1>1, <1>2, ListedStep, PTL DEF MSpec

-----------------------------------------------------------------------------
(* ChatPage.  While a handler runs, and none that was stopped has gone on, *)
(* it is the only one, no history is being loaded, and the last message is *)
(* the one it writes into.  So nothing of a turn is overwritten while it   *)
(* lasts, and a load that begins afterwards finds it in the rows.          *)

Active(st) == st.at \in {"fetch", "read", "await", "last"}
Both(s) == {<<"user", s>>, <<"assistant", s>>}
DoneIn(s, c) == streams[s].at = "done" /\ streams[s].conv = c

ChatTyped ==
    /\ rows \in [Convs -> Seq(Message)] /\ streams \in [Streams -> Stream]
    /\ used \in 0 .. MaxStreams /\ cur \in Workflows /\ node \in Nodes
    /\ messages \in Seq(Message) /\ streaming \in BOOLEAN /\ stray \in BOOLEAN /\ early \in BOOLEAN

\* Messages of streams that were sent, and of one conversation.
Begun(ms) == \A m \in Members(ms) : m[2] # None => m[2] <= used
OfConv(ms, c) == \A m \in Members(ms) : m[2] # None => streams[m[2]].conv = c

\* The server commits the question at the third step, the answer at the fourth.
StreamOK(st) ==
    /\ st.at # "off" => st.conv \in Convs
    /\ st.at = "fetch" => st.n = 0 /\ st.read = 0 /\ ~st.cut
    /\ st.read <= st.n /\ (st.cut => st.end <= st.n)
    /\ st.at \in {"last", "done"} => st.read = End
Committed(s) ==
    /\ streams[s].n >= 3 => <<"user", s>> \in Members(rows[streams[s].conv])
    /\ streams[s].n >= 4 => <<"assistant", s>> \in Members(rows[streams[s].conv])
ServerOK ==
    /\ \A s \in Streams : StreamOK(streams[s]) /\ (s > used <=> streams[s].at = "off")
    /\ \A s \in Streams : streams[s].at \notin {"off", "fetch"} => Committed(s)
    /\ \A c \in Convs : Begun(rows[c]) /\ OfConv(rows[c], c)

\* One handler, which has the flags, and no load beside it.
OneHandler ==
    \A s \in Streams : Active(streams[s]) =>
        IF streams[s].cut THEN streams[s].at \in {"await", "last"} ELSE streaming /\ s = ctl
Unloaded == fetch # <<>> => ~streaming

\* What the running handler has written is the end of the list.
Writing(s) ==
    /\ <<"user", s>> \in Members(messages)
    /\ streams[s].at # "fetch" =>
        /\ messages # <<>> /\ Last(messages) \in {<<"blank", s>>, <<"assistant", s>>}
        /\ streams[s].read > 0 => Last(messages) = <<"assistant", s>>
Whole(ms, c) == \A s \in Streams : DoneIn(s, c) => Both(s) \subseteq Members(ms)

FetchOK ==
    fetch # <<>> =>
        /\ fetch \in [conv: Convs, st: {"sent", "ok", "failed"}, rows: Seq(Message)]
        /\ Begun(fetch.rows) /\ OfConv(fetch.rows, fetch.conv)
        /\ fetch.st = "ok" /\ ~stray => Whole(fetch.rows, fetch.conv)
        /\ fetch.st = "failed" => "history" \in Failing
        /\ fetch.st # "ok" => fetch.rows = <<>>

ChatInv ==
    /\ ChatTyped /\ ServerOK /\ Unloaded /\ FetchOK /\ Begun(messages)
    /\ ~stray => /\ OneHandler
                 /\ \A s \in Streams : Active(streams[s]) /\ ~streams[s].cut => Writing(s)
                 /\ "history" \notin Failing => Whole(messages, key)
    /\ ~stray /\ ~early =>
           /\ OfConv(messages, key)
           /\ \A s \in Streams : Active(streams[s]) /\ ~streams[s].cut => streams[s].conv = key

\* What a step of the page may make of the load: nothing, what it was while the
\* flag stays, or, once no handler runs, a new one.
Fresh == [conv |-> <<cur', node'>>, st |-> "sent", rows |-> <<>>]
Loads == \/ fetch' = <<>>
         \/ fetch' = fetch /\ streaming' = streaming
         \/ fetch' = Fresh /\ ~streaming'

\* The effect does no more to the load than that.
LEMMA EffectLoads == Effect => Loads
BY DEF Effect, Loads, Fresh, Wanted

\* The steps that commit, and how many there are.
LEMMA StepNames == End = 6 /\ Steps[3] = "checkpoint" /\ Steps[4] = "answer"
BY DEF End, Steps

\* The messages of a turn, and the notice.
LEMMA MessageTyped ==
    /\ Notice \in Message /\ Notice[2] = None /\ None \notin Streams
    /\ \A s \in Streams : \A who \in {"user", "assistant", "blank"} :
          <<who, s>> \in Message /\ <<who, s>>[1] = who /\ <<who, s>>[2] = s
<1>1. None \notin Streams
  BY DEF None, Streams
<1> QED BY <1>1 DEF Notice, Message

\* The members of a list of messages, and its last one.
LEMMA MembersOf ==
    ASSUME NEW ms \in Seq(Message)
    PROVE  /\ Members(ms) \subseteq Message /\ Members(<<>>) = {}
           /\ ms # <<>> => Last(ms) \in Members(ms) /\ Last(ms) = ms[Len(ms)] /\ Len(ms) \in DOMAIN ms
BY DEF Members, Last

\* What a handler writes: its own messages or a notice are new, and no message
\* but its blank is gone.
New(s) == {Notice, <<"blank", s>>, <<"assistant", s>>}
Writes(s, ms) ==
    /\ ms \in Seq(Message) /\ Members(ms) \subseteq Members(messages) \cup New(s)
Spares(ms) == \A m \in Members(messages) : m[1] # "blank" => m \in Members(ms)

\* A text replaces the last message, if that is the assistant's.
LEMMA WrittenEffect ==
    ASSUME messages \in Seq(Message), NEW s \in Streams
    PROVE  /\ Writes(s, Written(s))
           /\ messages # <<>> /\ Last(messages) \in {<<"blank", s>>, <<"assistant", s>>} =>
                 /\ Spares(Written(s)) /\ Written(s) # <<>>
                 /\ Last(Written(s)) = <<"assistant", s>>
<1> DEFINE a == <<"assistant", s>>
           u == [messages EXCEPT ![Len(messages)] = a]
<1>0. a \in Message /\ a[1] = "assistant" /\ <<"blank", s>>[1] = "blank"
  BY MessageTyped
<1>1. CASE ~(messages # <<>> /\ Last(messages)[1] # "user")
  <2>1. Written(s) = messages
    BY <1>1 DEF Written
  <2>2. messages # <<>> => Last(messages)[1] = "user"
    BY <1>1
  <2>3. Last(messages) \notin {<<"blank", s>>, a} \/ messages = <<>>
    BY <1>0, <2>2
  <2> QED BY <2>1, <2>3 DEF Writes
<1>2. CASE messages # <<>> /\ Last(messages)[1] # "user"
  <2>1. Written(s) = u
    BY <1>2 DEF Written
  <2>2. Len(messages) \in DOMAIN messages /\ Last(messages) = messages[Len(messages)]
    BY <1>2, MembersOf
  <2>3. u \in Seq(Message) /\ DOMAIN u = DOMAIN messages /\ Len(u) = Len(messages)
        /\ \A i \in DOMAIN u : u[i] = IF i = Len(messages) THEN a ELSE messages[i]
    BY <1>0, <1>2, <2>2
  <2>4. u # <<>> /\ Last(u) = a
    BY <2>2, <2>3 DEF Last
  <2> HIDE DEF u
  <2>5. Members(u) \subseteq Members(messages) \cup {a}
    BY <2>3 DEF Members
  <2>6. ASSUME NEW m \in Members(messages), m # Last(messages)
        PROVE  m \in Members(u)
    <3>1. PICK i \in DOMAIN messages : messages[i] = m
      BY DEF Members
    <3>2. u[i] = m
      BY <2>2, <2>3, <2>6, <3>1
    <3> QED BY <2>3, <3>1, <3>2 DEF Members
  <2>7. a \in Members(u)
    BY <2>2, <2>3 DEF Members
  <2>8. Last(messages) \in {<<"blank", s>>, a} => Spares(u)
    BY <1>0, <2>6, <2>7 DEF Spares
  <2> QED BY <2>1, <2>3, <2>4, <2>5, <2>8 DEF Writes, New
<1> QED BY <1>1, <1>2

\* The text of a plan or of a state replaces a blank only.
LEMMA FilledEffect ==
    ASSUME messages \in Seq(Message), NEW s \in Streams
    PROVE  /\ Writes(s, Filled(s))
           /\ messages # <<>> /\ Last(messages) \in {<<"blank", s>>, <<"assistant", s>>} =>
                 /\ Spares(Filled(s)) /\ Filled(s) # <<>>
                 /\ Last(Filled(s)) = <<"assistant", s>>
<1>1. Filled(s) = Written(s) \/ (Filled(s) = messages /\ ~(messages # <<>> /\ Last(messages)[1] = "blank"))
  BY DEF Filled
<1>2. <<"blank", s>>[1] = "blank"
  OBVIOUS
<1>3. Writes(s, messages) /\ Spares(messages)
  BY DEF Writes, Spares
<1> QED BY <1>1, <1>2, <1>3, WrittenEffect

\* Appending loses nothing.
LEMMA AppendEffect ==
    ASSUME NEW ms \in Seq(Message), NEW m \in Message
    PROVE  /\ Append(ms, m) \in Seq(Message) /\ Append(ms, m) # <<>> /\ Last(Append(ms, m)) = m
           /\ Members(Append(ms, m)) = Members(ms) \cup {m}
<1>1. Append(ms, m) \in Seq(Message) /\ Members(Append(ms, m)) = Members(ms) \cup {m}
  BY MembersAppend
<1>2. Append(ms, m) # <<>> /\ Last(Append(ms, m)) = m
  BY DEF Last
<1> QED BY <1>1, <1>2

\* A notice, if there is room for it.
LEMMA NotedEffect ==
    ASSUME messages \in Seq(Message), NEW s \in Streams
    PROVE  /\ Writes(s, Noted) /\ Spares(Noted)
           /\ Writes(s, StopNoted) /\ Spares(StopNoted)
<1>1. Writes(s, messages) /\ Spares(messages)
  BY DEF Writes, Spares
<1>2. Writes(s, Append(messages, Notice)) /\ Spares(Append(messages, Notice))
  BY AppendEffect, MessageTyped DEF Writes, Spares, New
<1> QED BY <1>1, <1>2 DEF Noted, StopNoted

\* Stop says at most two notices.
Stopped == IF \E i \in DOMAIN messages : messages[i][1] # "user"
           THEN messages ELSE Append(messages, Notice)

\* They lose nothing either.
LEMMA StoppedEffect ==
    ASSUME messages \in Seq(Message), NEW s \in Streams
    PROVE  /\ Writes(s, Stopped) /\ Spares(Stopped)
           /\ Writes(s, Append(Stopped, Notice)) /\ Spares(Append(Stopped, Notice))
<1>1. /\ Stopped \in Seq(Message)
      /\ Members(messages) \subseteq Members(Stopped)
      /\ Members(Stopped) \subseteq Members(messages) \cup {Notice}
  BY AppendEffect, MessageTyped DEF Stopped
<1> HIDE DEF Stopped
<1>2. Append(Stopped, Notice) \in Seq(Message)
      /\ Members(Append(Stopped, Notice)) = Members(Stopped) \cup {Notice}
  BY <1>1, AppendEffect, MessageTyped
<1> QED BY <1>1, <1>2 DEF Writes, Spares, New

\* The parts of the invariant that hold whatever stopped handlers do.
Base == ChatTyped /\ ServerOK /\ Unloaded /\ FetchOK /\ Begun(messages)
\* The parts that a stopped handler may break.
Sole ==
    /\ OneHandler
    /\ \A s \in Streams : Active(streams[s]) /\ ~streams[s].cut => Writing(s)
    /\ "history" \notin Failing => Whole(messages, key)
OwnOnes ==
    /\ OfConv(messages, key)
    /\ \A s \in Streams : Active(streams[s]) /\ ~streams[s].cut => streams[s].conv = key

\* The invariant by what may break it.
LEMMA Parts == ChatInv <=> Base /\ (~stray => Sole) /\ (~stray /\ ~early => OwnOnes)
BY DEF ChatInv, Base, Sole, OwnOnes

\* Messages stay in their conversation when new streams begin.
LEMMA OfConvStays ==
    ASSUME NEW ms, NEW c, OfConv(ms, c), Begun(ms), ms \in Seq(Message),
           \A t \in Streams : t <= used => streams'[t].conv = streams[t].conv
    PROVE  \A m \in Members(ms) : m[2] # None => streams'[m[2]].conv = c
<1> TAKE m \in Members(ms)
<1> HAVE m[2] # None
<1>1. m \in Message
  BY MembersOf
<1>2. m[2] \in Streams
  BY <1>1 DEF Message
<1> QED BY <1>2 DEF OfConv, Begun

\* A new load: nothing is known of it yet.
LEMMA FreshOK ==
    ASSUME cur' \in Workflows, node' \in Nodes, fetch' = Fresh
    PROVE  FetchOK'
<1> DEFINE f == Fresh
<1>1. f \in [conv: Convs, st: {"sent", "ok", "failed"}, rows: Seq(Message)]
      /\ f.rows = <<>> /\ f.st = "sent"
  BY DEF Fresh, Convs
<1> HIDE DEF f
<1>2. Members(<<>>) = {}
  BY DEF Members
<1> QED BY <1>1, <1>2 DEF FetchOK, f, Begun, OfConv

\* One handler moves: the server's side of it and the rows stay.
Moves(s, st) ==
    /\ streams' = [streams EXCEPT ![s] = st] /\ st \in Stream /\ StreamOK(st)
    /\ streams[s].at # "off" /\ st.at # "off"
    /\ st.conv = streams[s].conv /\ st.n = streams[s].n
    /\ st.at = "fetch" => streams[s].at = "fetch"
    /\ UNCHANGED <<rows, used, key, early>>
    /\ cur' \in Workflows /\ node' \in Nodes /\ {streaming', stray'} \subseteq BOOLEAN
    /\ stray => stray'
    /\ Writes(s, messages') /\ Loads
    /\ st.at = "done" /\ fetch' = fetch => stray' \/ fetch = <<>> \/ streams[s].at = "done"

\* Whichever handler moves, also a stopped one, the first parts stay.
LEMMA MovesBase ==
    ASSUME Base, NEW s \in Streams, NEW st, Moves(s, st)
    PROVE  Base'
<1> USE DEF Base
<1>1. /\ streams' \in [Streams -> Stream] /\ streams'[s] = st
      /\ \A t \in Streams : t # s => streams'[t] = streams[t]
      /\ \A t \in Streams : streams'[t].conv = streams[t].conv /\ streams'[t].n = streams[t].n
  BY DEF Moves, ChatTyped
<1>2. ChatTyped'
  BY <1>1 DEF Moves, ChatTyped, Writes
<1>3. \A t \in Streams : /\ StreamOK(streams'[t]) /\ (t > used <=> streams'[t].at = "off")
                         /\ streams'[t].at \notin {"off", "fetch"} => Committed(t)'
  <2> TAKE t \in Streams
  <2>1. CASE t # s
    BY <1>1, <2>1 DEF Moves, ServerOK, Committed
  <2>2. CASE t = s
    <3>1. streams[s].at = "fetch" => streams[s].n = 0
      BY DEF ServerOK, StreamOK
    <3>2. StreamOK(st) /\ (s > used <=> st.at = "off")
      BY DEF Moves, ServerOK
    <3>3. Committed(s)'
      <4>1. CASE streams[s].at = "fetch"
        BY <1>1, <3>1, <4>1 DEF Committed
      <4>2. CASE streams[s].at # "fetch"
        BY <1>1, <4>2 DEF Committed, ServerOK, Moves
      <4> QED BY <4>1, <4>2
    <3> QED BY <1>1, <2>2, <3>2, <3>3
  <2> QED BY <2>1, <2>2
<1>4. \A c \in Convs : Begun(rows[c])' /\ OfConv(rows[c], c)'
  <2> TAKE c \in Convs
  <2>1. rows[c] \in Seq(Message) /\ rows' = rows /\ used' = used /\ Begun(rows[c]) /\ OfConv(rows[c], c)
    BY DEF Moves, ChatTyped, ServerOK
  <2> QED BY <1>1, <2>1, OfConvStays DEF Begun, OfConv
<1>5. ServerOK'
  BY <1>3, <1>4 DEF ServerOK, Moves
<1>6. Begun(messages)'
  <2>1. \A m \in New(s) : m[2] \in {None, s}
    BY MessageTyped DEF New
  <2>2. s <= used
    BY DEF Moves, ServerOK, ChatTyped, Streams
  <2> QED BY <2>1, <2>2 DEF Moves, Writes, Begun
<1>7. Unloaded'
  BY DEF Moves, Loads, Unloaded
<1>8. FetchOK'
  <2>1. CASE fetch' = <<>>
    BY <2>1 DEF FetchOK
  <2>2. CASE fetch' = Fresh
    BY <2>2, FreshOK DEF Moves
  <2>3. CASE fetch' = fetch /\ fetch # <<>>
    <3>1. Begun(fetch.rows)' /\ OfConv(fetch.rows, fetch.conv)'
      <4>1. fetch.rows \in Seq(Message) /\ Begun(fetch.rows) /\ OfConv(fetch.rows, fetch.conv)
        BY <2>3 DEF FetchOK
      <4> QED BY <1>1, <2>3, <4>1, OfConvStays DEF Begun, OfConv, Moves
    <3>2. fetch.st = "ok" /\ ~stray' => Whole(fetch.rows, fetch.conv)'
      BY <1>1, <2>3 DEF FetchOK, Whole, DoneIn, Moves
    <3> QED BY <2>3, <3>1, <3>2 DEF FetchOK
  <2> QED BY <2>1, <2>2, <2>3 DEF Moves, Loads
<1> QED BY <1>2, <1>5, <1>6, <1>7, <1>8

\* The running handler moves, none that was stopped goes on: it goes on writing,
\* or is over, with all of its turn in the list, or was cut where it awaits.
LEMMA MovesSole ==
    ASSUME Base, Sole, NEW s \in Streams, NEW st, Moves(s, st), Spares(messages'),
           \A t \in Streams : t # s /\ Active(streams[t]) => streams[t].cut,
           Active(st) /\ st.cut => st.at \in {"await", "last"},
           Active(st) /\ ~st.cut => /\ Active(streams[s]) /\ ~streams[s].cut
                                    /\ streaming' /\ ctl' = s /\ Writing(s)',
           st.at = "done" => streams[s].at = "done" \/ Both(s) \subseteq Members(messages')
    PROVE  Sole'
<1>1. /\ streams'[s] = st /\ \A t \in Streams : t # s => streams'[t] = streams[t]
      /\ \A t \in Streams : streams'[t].conv = streams[t].conv
  BY DEF Moves, Base, ChatTyped
<1>2. OneHandler'
  BY <1>1 DEF Sole, OneHandler
<1>3. \A t \in Streams : Active(streams'[t]) /\ ~streams'[t].cut => Writing(t)'
  BY <1>1
<1>4. ASSUME Whole(messages, key)
      PROVE  Whole(messages, key)'
  <2>1. \A t \in Streams : Both(t) \subseteq Members(messages) => Both(t) \subseteq Members(messages')
    BY DEF Spares, Both
  <2>2. ASSUME NEW t \in Streams, DoneIn(t, key)'
        PROVE  Both(t) \subseteq Members(messages')
    <3>1. key' = key /\ streams'[t].at = "done" /\ streams'[t].conv = key
      BY <2>2 DEF DoneIn, Moves
    <3>2. CASE streams[t].at = "done"
      BY <1>1, <1>4, <2>1, <3>1, <3>2 DEF Whole, DoneIn
    <3>3. CASE streams[t].at # "done"
      BY <1>1, <3>1, <3>3
    <3> QED BY <3>2, <3>3
  <2> QED BY <2>2 DEF Whole, Both
<1> QED BY <1>2, <1>3, <1>4 DEF Sole

\* A handler that runs writes its own conversation's messages, into its list.
LEMMA MovesOwn ==
    ASSUME Base, OwnOnes, NEW s \in Streams, NEW st, Moves(s, st),
           (Active(st) /\ ~st.cut) \/ messages' # messages =>
               (Active(streams[s]) /\ ~streams[s].cut) \/ Members(messages') \subseteq Members(messages) \cup {Notice},
           Active(st) /\ ~st.cut => Active(streams[s]) /\ ~streams[s].cut
    PROVE  OwnOnes'
<1>1. /\ streams'[s] = st /\ \A t \in Streams : t # s => streams'[t] = streams[t]
      /\ \A t \in Streams : streams'[t].conv = streams[t].conv
      /\ key' = key /\ Begun(messages) /\ messages \in Seq(Message)
  BY DEF Moves, Base, ChatTyped
<1>2. \A m \in Members(messages) : m[2] # None => streams'[m[2]].conv = key
  BY <1>1, OfConvStays DEF OwnOnes
<1>3. \A m \in New(s) : m[2] \in {None, s}
  BY MessageTyped DEF New
<1>4. \A m \in Members(messages') : m[2] # None => streams'[m[2]].conv = key
  <2>1. Notice[2] = None
    BY MessageTyped
  <2>2. CASE Active(streams[s]) /\ ~streams[s].cut
    <3>1. streams'[s].conv = key
      BY <1>1, <2>2 DEF OwnOnes
    <3> QED BY <1>2, <1>3, <3>1 DEF Moves, Writes
  <2>3. CASE Members(messages') \subseteq Members(messages) \cup {Notice}
    BY <1>2, <2>1, <2>3
  <2>4. CASE messages' = messages
    BY <1>2, <2>4
  <2> QED BY <2>2, <2>3, <2>4
<1>5. \A t \in Streams : Active(streams'[t]) /\ ~streams'[t].cut => streams'[t].conv = key
  BY <1>1 DEF OwnOnes
<1> QED BY <1>1, <1>4, <1>5 DEF OwnOnes, OfConv

\* Who runs when none that was stopped goes on.
LEMMA Running ==
    ASSUME ChatInv, ~stray, NEW s \in Streams, Active(streams[s]), ~streams[s].cut
    PROVE  /\ Sole /\ streaming /\ ctl = s /\ Writing(s) /\ fetch = <<>>
           /\ \A t \in Streams : t # s /\ Active(streams[t]) => streams[t].cut
<1>1. Sole /\ Unloaded
  BY DEF ChatInv, Sole
<1> QED BY <1>1 DEF Sole, OneHandler, Unloaded

\* The handler's steps, one by one: it may move if it runs or is marked.
LEMMA MovesInv ==
    ASSUME ChatInv, NEW s \in Streams, NEW st, Moves(s, st), Active(streams[s]),
           streams[s].cut => stray',
           ~stray' /\ Writing(s) /\ streaming =>
               /\ Spares(messages') /\ (Active(st) /\ st.cut => st.at \in {"await", "last"})
               /\ Active(st) /\ ~st.cut => streaming' /\ ctl' = s /\ Writing(s)'
               /\ st.at = "done" => Both(s) \subseteq Members(messages')
    PROVE  ChatInv'
<1>1. Base /\ Base'
  BY MovesBase, Parts
<1>2. CASE stray'
  BY <1>1, <1>2, Parts DEF ChatInv, Base
<1>3. CASE ~stray'
  <2>1. ~stray /\ ~streams[s].cut /\ Sole
    BY <1>3, Parts DEF Moves
  <2>2. streaming /\ Writing(s) /\ \A t \in Streams : t # s /\ Active(streams[t]) => streams[t].cut
    BY <2>1, Running
  <2>3. Sole'
    BY <1>1, <1>3, <2>1, <2>2, MovesSole
  <2>4. ~early' => OwnOnes'
    <3>1. early' = early
      BY DEF Moves
    <3> QED BY <1>1, <2>1, <3>1, Parts, MovesOwn
  <2> QED BY <1>1, <2>3, <2>4 DEF ChatInv, Base, Sole, OwnOnes
<1> QED BY <1>2, <1>3

\* The fields of a handler's record.
LEMMA StreamFields ==
    ASSUME NEW st \in Stream
    PROVE  /\ st.conv \in Convs \cup {NoConv} /\ st.n \in 0 .. End /\ st.read \in 0 .. End
           /\ st.end \in 0 .. End /\ st.cut \in BOOLEAN
           /\ st.at \in {"off", "fetch", "read", "await", "last", "done", "over"}
BY DEF Stream

\* The answer to the request of a message.
LEMMA RespondInv ==
    ASSUME ChatInv, NEW s \in Streams, Respond(s)
    PROVE  ChatInv'
<1> DEFINE st == streams[s]
<1>1. st \in Stream /\ StreamOK(st) /\ st.at = "fetch" /\ messages \in Seq(Message)
      /\ stray \in BOOLEAN /\ streaming \in BOOLEAN /\ cur \in Workflows /\ node \in Nodes
  BY DEF ChatInv, ChatTyped, ServerOK, Respond
<1>2. Loads /\ UNCHANGED <<rows, used, key, early, stray, cur, node>>
  BY EffectLoads DEF Respond, Rest, Rerun
<1>3. <<"blank", s>> \in Message /\ <<"blank", s>>[1] = "blank"
  BY MessageTyped
<1>4. CASE streams' = [streams EXCEPT ![s].at = "read"] /\ messages' = Append(messages, <<"blank", s>>)
           /\ UNCHANGED <<streaming, ctl>>
  <2> DEFINE t == [st EXCEPT !.at = "read"]
  <2>1. t \in Stream /\ t.at = "read" /\ t.conv = st.conv /\ t.n = st.n /\ t.read = st.read
        /\ t.cut = st.cut /\ t.end = st.end
    BY <1>1 DEF Stream
  <2>2. streams' = [streams EXCEPT ![s] = t]
    BY <1>4
  <2> HIDE DEF t
  <2>3. Writes(s, messages') /\ Spares(messages') /\ messages' # <<>> /\ Last(messages') = <<"blank", s>>
    BY <1>1, <1>3, <1>4, AppendEffect DEF Writes, Spares, New
  <2>4. StreamOK(t)
    BY <1>1, <2>1 DEF StreamOK
  <2>5. Moves(s, t)
    BY <1>1, <1>2, <1>4, <2>1, <2>2, <2>3, <2>4 DEF Moves
  <2>6. streams'[s] = t
    BY <2>2 DEF ChatInv, ChatTyped
  <2>7. Writing(s) => Writing(s)'
    BY <1>1, <2>1, <2>3, <2>6 DEF Writing, Spares, StreamOK
  <2>8. streaming => ctl = s \/ stray
    BY <1>1, Running DEF Active, StreamOK
  <2> QED BY <1>1, <1>2, <1>4, <2>1, <2>3, <2>5, <2>7, <2>8, MovesInv DEF Active, StreamOK
<1>5. CASE streams' = [streams EXCEPT ![s].at = "over"] /\ messages' = Noted /\ Finish
  <2> DEFINE t == [st EXCEPT !.at = "over"]
  <2>1. t \in Stream /\ t.at = "over" /\ t.conv = st.conv /\ t.n = st.n /\ t.read = st.read
        /\ t.cut = st.cut /\ t.end = st.end
    BY <1>1 DEF Stream
  <2>2. streams' = [streams EXCEPT ![s] = t]
    BY <1>5
  <2> HIDE DEF t
  <2>3. Writes(s, messages') /\ Spares(messages')
    BY <1>1, <1>5, NotedEffect
  <2>4. StreamOK(t)
    BY <1>1, <2>1 DEF StreamOK
  <2>5. Moves(s, t)
    BY <1>1, <1>2, <1>5, <2>1, <2>2, <2>3, <2>4 DEF Moves, Finish
  <2> QED BY <1>1, <2>1, <2>3, <2>5, MovesInv DEF Active, StreamOK
<1> QED BY <1>4, <1>5 DEF Respond

\* The stream begins with a text.
LEMMA FirstStep == Steps[1] = "text" /\ \A i \in 1 .. End : i = 1 <=> Steps[i] = "text"
BY DEF End, Steps

\* An event of the stream is handled.
LEMMA ReadInv ==
    ASSUME ChatInv, NEW s \in Streams, Read(s)
    PROVE  ChatInv'
<1> DEFINE st == streams[s]
           step == Steps[st.read + 1]
           a == IF step \in {"ui", "plan"} THEN "await" ELSE "read"
           r == st.read + 1
           t == [st EXCEPT !.read = r, !.at = a]
<1>1. st \in Stream /\ StreamOK(st) /\ st.at = "read" /\ messages \in Seq(Message)
      /\ stray \in BOOLEAN /\ streaming \in BOOLEAN /\ cur \in Workflows /\ node \in Nodes
  BY DEF ChatInv, ChatTyped, ServerOK, Read
<1>2. Loads /\ UNCHANGED <<rows, used, key, early, cur, node, streaming, ctl>>
      /\ stray' = (stray \/ st.cut)
  BY EffectLoads DEF Read, Rest, Rerun, GoesOn
<1>3. st.read < Available(st) /\ st.read \in 0 .. End /\ st.n \in 0 .. End /\ st.end \in 0 .. End
      /\ st.cut \in BOOLEAN
  BY <1>1, StreamFields DEF Read
<1>4. st.read + 1 \in 1 .. End /\ st.read + 1 <= st.n
  BY <1>1, <1>3, StepNames DEF Available, StreamOK
<1>5. t \in Stream /\ t.at = a /\ t.conv = st.conv /\ t.n = st.n /\ t.read = st.read + 1
      /\ t.cut = st.cut /\ t.end = st.end
  <2>1. r \in 0 .. End /\ a \in {"await", "read"}
    BY <1>4
  <2> HIDE DEF r, a
  <2>2. t \in Stream /\ t.at = a /\ t.conv = st.conv /\ t.n = st.n /\ t.read = r
        /\ t.cut = st.cut /\ t.end = st.end
    BY <1>1, <2>1 DEF Stream
  <2> QED BY <2>2 DEF r
<1>6. streams' = [streams EXCEPT ![s] = t]
  BY DEF Read
<1>7. \/ messages' = Written(s) /\ step = "text"
      \/ messages' = Filled(s) /\ step # "text"
      \/ messages' = messages /\ step # "text"
  BY DEF Read
<1>8. a \in {"await", "read"} /\ (step = "text" <=> st.read = 0)
  BY <1>3, <1>4, FirstStep
<1> HIDE DEF t, a, step
<1>9. Writes(s, messages')
  BY <1>1, <1>7, WrittenEffect, FilledEffect DEF Writes
<1>10. StreamOK(t)
  BY <1>1, <1>4, <1>5, <1>8 DEF StreamOK
<1>11. Moves(s, t)
  BY <1>1, <1>2, <1>3, <1>5, <1>6, <1>8, <1>9, <1>10 DEF Moves
<1>12. streams'[s] = t
  BY <1>6 DEF ChatInv, ChatTyped
<1>13. ASSUME Writing(s)
       PROVE  Spares(messages') /\ Writing(s)'
  <2>1. messages # <<>> /\ Last(messages) \in {<<"blank", s>>, <<"assistant", s>>}
        /\ (st.read > 0 => Last(messages) = <<"assistant", s>>) /\ <<"user", s>> \in Members(messages)
    BY <1>1, <1>13 DEF Writing
  <2>2. Spares(messages') /\ messages' # <<>> /\ Last(messages') = <<"assistant", s>>
    BY <1>1, <1>3, <1>7, <1>8, <2>1, WrittenEffect, FilledEffect DEF Spares
  <2>3. <<"user", s>>[1] = "user"
    OBVIOUS
  <2> QED BY <1>12, <2>1, <2>2, <2>3 DEF Writing, Spares
<1>14. streaming /\ ~st.cut => ctl = s \/ stray
  BY <1>1, Running DEF Active
<1> QED BY <1>1, <1>2, <1>3, <1>5, <1>8, <1>11, <1>13, <1>14, MovesInv DEF Active

\* The stream has ended.
LEMMA LoopEndsInv ==
    ASSUME ChatInv, NEW s \in Streams, LoopEnds(s)
    PROVE  ChatInv'
<1> DEFINE st == streams[s]
           t == [st EXCEPT !.at = "last"]
<1>1. st \in Stream /\ StreamOK(st) /\ st.at = "read" /\ ~st.cut /\ st.read = End
      /\ stray \in BOOLEAN /\ streaming \in BOOLEAN /\ cur \in Workflows /\ node \in Nodes
      /\ messages \in Seq(Message)
  BY DEF ChatInv, ChatTyped, ServerOK, LoopEnds
<1>2. UNCHANGED <<rows, used, key, early, stray, cur, node, streaming, ctl, messages, fetch>>
  BY DEF LoopEnds, store
<1>3. t \in Stream /\ t.at = "last" /\ t.conv = st.conv /\ t.n = st.n /\ t.read = st.read
      /\ t.cut = st.cut /\ t.end = st.end
  BY <1>1 DEF Stream
<1>4. streams' = [streams EXCEPT ![s] = t]
  BY DEF LoopEnds
<1> HIDE DEF t
<1>5. StreamOK(t)
  BY <1>1, <1>3 DEF StreamOK
<1>6. Moves(s, t)
  BY <1>1, <1>2, <1>3, <1>4, <1>5 DEF Moves, Writes, Loads
<1>7. streams'[s] = t
  BY <1>4 DEF ChatInv, ChatTyped
<1>8. Spares(messages') /\ (Writing(s) => Writing(s)')
  BY <1>1, <1>2, <1>3, <1>7 DEF Spares, Writing
<1>9. streaming => ctl = s \/ stray
  BY <1>1, Running DEF Active
<1> QED BY <1>1, <1>2, <1>3, <1>6, <1>8, <1>9, MovesInv DEF Active

\* The answer of getWorkflow, also to a handler that was stopped meanwhile.
LEMMA GotInv ==
    ASSUME ChatInv, NEW s \in Streams, Got(s)
    PROVE  ChatInv'
<1> DEFINE st == streams[s]
<1>1. st \in Stream /\ StreamOK(st) /\ st.at \in {"await", "last"} /\ messages \in Seq(Message)
      /\ stray \in BOOLEAN /\ streaming \in BOOLEAN /\ cur \in Workflows /\ node \in Nodes
      /\ st.cut \in BOOLEAN
  BY StreamFields DEF ChatInv, ChatTyped, ServerOK, Got
<1>2. Loads /\ UNCHANGED <<rows, used, key, early, node>> /\ stray' = (stray \/ st.cut)
  BY EffectLoads DEF Got, Rest, Rerun
<1>3. cur' \in Workflows
  <2>1. st.conv \in Workflows \X Nodes
    BY <1>1 DEF StreamOK, Convs
  <2>2. st.conv[1] \in Workflows
    BY <2>1
  <2> QED BY <1>1, <2>2 DEF Got
<1>4. PICK a \in {"done", "read", "over"} :
        /\ streams' = [streams EXCEPT ![s].at = a]
        /\ a = "done" => st.at = "last"
        /\ a = "read" <=> st.at = "await"
        /\ \/ messages' = Filled(s) /\ st.at = "last"
           \/ messages' = messages
           \/ messages' = Noted /\ a # "done" /\ st.at = "last"
        /\ a = "done" => messages' = Filled(s)
  BY <1>1 DEF Got
<1>5. /\ st.at = "last" => streaming' = FALSE
      /\ st.at # "last" => UNCHANGED <<streaming, ctl>>
  BY DEF Got, Finish
<1> DEFINE t == [st EXCEPT !.at = a]
<1>6. t \in Stream /\ t.at = a /\ t.conv = st.conv /\ t.n = st.n /\ t.read = st.read
      /\ t.cut = st.cut /\ t.end = st.end
  BY <1>1 DEF Stream
<1>7. streams' = [streams EXCEPT ![s] = t]
  BY <1>4
<1> HIDE DEF t
<1>8. Writes(s, messages')
  <2>1. Writes(s, messages)
    BY <1>1 DEF Writes
  <2> QED BY <1>1, <1>4, <2>1, FilledEffect, NotedEffect
<1>9. StreamOK(t)
  BY <1>1, <1>4, <1>6 DEF StreamOK
<1>10. ~stray' => streaming /\ ctl = s /\ Writing(s) /\ fetch = <<>>
  BY <1>1, <1>2, Running DEF Active
<1>11. Moves(s, t)
  BY <1>1, <1>2, <1>3, <1>4, <1>5, <1>6, <1>7, <1>8, <1>9, <1>10 DEF Moves
<1>12. streams'[s] = t
  BY <1>7 DEF ChatInv, ChatTyped
<1>13. ASSUME Writing(s)
       PROVE  /\ Spares(messages') /\ (a = "read" => Writing(s)')
              /\ a = "done" => Both(s) \subseteq Members(messages')
  <2>1. messages # <<>> /\ Last(messages) \in {<<"blank", s>>, <<"assistant", s>>}
        /\ (st.read > 0 => Last(messages) = <<"assistant", s>>) /\ <<"user", s>> \in Members(messages)
    BY <1>1, <1>13 DEF Writing
  <2>2. Spares(messages')
    BY <1>1, <1>4, <2>1, FilledEffect, NotedEffect DEF Spares
  <2>3. ASSUME a = "read"
        PROVE  Writing(s)'
    <3>1. messages' = messages
      BY <1>1, <1>4, <2>3
    <3> QED BY <1>6, <1>12, <2>1, <3>1 DEF Writing
  <2>4. ASSUME a = "done"
        PROVE  Both(s) \subseteq Members(messages')
    <3>1. messages' = Filled(s) /\ messages' \in Seq(Message)
      BY <1>4, <1>8, <2>4 DEF Writes
    <3>2. messages' # <<>> /\ Last(messages') = <<"assistant", s>>
      BY <1>1, <2>1, <3>1, FilledEffect
    <3>3. <<"assistant", s>> \in Members(messages')
      BY <3>1, <3>2, MembersOf
    <3>4. <<"user", s>>[1] = "user"
      OBVIOUS
    <3> QED BY <2>1, <2>2, <3>3, <3>4 DEF Both, Spares
  <2> QED BY <2>2, <2>3, <2>4
<1>14. a = "read" => streaming' = streaming /\ ctl' = ctl
  BY <1>1, <1>4, <1>5
<1>15. Active(t) => a = "read"
  BY <1>4, <1>6 DEF Active
<1>16. Active(st) /\ (st.cut => stray')
  BY <1>1, <1>2 DEF Active
<1>17. ~stray' => ~st.cut
  BY <1>1, <1>2
<1> QED BY <1>4, <1>6, <1>10, <1>11, <1>13, <1>14, <1>15, <1>16, <1>17, MovesInv

\* The stream breaks off, or is found stopped.
LEMMA ThrowsInv ==
    ASSUME ChatInv, NEW s \in Streams, Throws(s)
    PROVE  ChatInv'
<1> DEFINE st == streams[s]
           t == [st EXCEPT !.at = "over", !.cut = TRUE, !.end = st.read]
<1>1. st \in Stream /\ StreamOK(st) /\ st.at = "read" /\ messages \in Seq(Message)
      /\ stray \in BOOLEAN /\ streaming \in BOOLEAN /\ cur \in Workflows /\ node \in Nodes
      /\ st.cut \in BOOLEAN /\ st.read \in 0 .. End
  BY StreamFields DEF ChatInv, ChatTyped, ServerOK, Throws
<1>2. Loads /\ UNCHANGED <<rows, used, key, early, node, cur>> /\ stray' = (stray \/ st.cut)
      /\ streaming' = FALSE
  BY EffectLoads DEF Throws, Rest, Rerun, GoesOn, Finish
<1>3. t \in Stream /\ t.at = "over" /\ t.conv = st.conv /\ t.n = st.n /\ t.read = st.read
      /\ t.cut /\ t.end = st.read
  BY <1>1 DEF Stream
<1>4. streams' = [streams EXCEPT ![s] = t]
  BY DEF Throws
<1> HIDE DEF t
<1>5. Writes(s, messages') /\ Spares(messages')
  BY <1>1, NotedEffect DEF Throws
<1>6. StreamOK(t)
  BY <1>1, <1>3 DEF StreamOK
<1>7. Moves(s, t)
  BY <1>1, <1>2, <1>3, <1>4, <1>5, <1>6 DEF Moves
<1>8. Active(st) /\ ~Active(t)
  BY <1>1, <1>3 DEF Active
<1> QED BY <1>1, <1>2, <1>3, <1>5, <1>7, <1>8, MovesInv


\* The abort controller is that of a stream that was not stopped and whose
\* handler is not through, also when a stopped one has cleared the flags of another.
Controls == ctl # None => Active(streams[ctl]) /\ ~streams[ctl].cut /\ ctl \in Streams

\* Stop ends a handler that reads, and marks one that awaits a request.
LEMMA StopInv ==
    ASSUME ChatInv, Controls, Stop
    PROVE  ChatInv'
<1> DEFINE s == ctl
           st == streams[s]
<1>1. s \in Streams /\ Active(st) /\ ~st.cut /\ st \in Stream /\ StreamOK(st)
      /\ messages \in Seq(Message) /\ stray \in BOOLEAN /\ streaming \in BOOLEAN
      /\ cur \in Workflows /\ node \in Nodes
      /\ st.read \in 0 .. End /\ st.n \in 0 .. End
  BY StreamFields DEF ChatInv, ChatTyped, ServerOK, Stop, Controls
<1>2. Loads /\ UNCHANGED <<rows, used, key, early, node, cur, stray>> /\ streaming' = FALSE
  BY EffectLoads DEF Stop, Rest, Rerun, Finish
<1>3. PICK e \in st.read .. st.n :
        IF st.at \in {"fetch", "read"}
        THEN /\ streams' = [streams EXCEPT ![s].at = "over", ![s].cut = TRUE, ![s].end = st.read]
             /\ messages' = Stopped \/ messages' = Append(Stopped, Notice)
        ELSE /\ streams' = [streams EXCEPT ![s].cut = TRUE, ![s].end = e]
             /\ messages' = Stopped
  <2>1. CASE st.at \in {"fetch", "read"}
    <3>1. st.read \in st.read .. st.n
      BY <1>1 DEF StreamOK
    <3> QED BY <2>1, <3>1 DEF Stop, Stopped
  <2>2. CASE st.at \notin {"fetch", "read"}
    BY <2>2 DEF Stop, Stopped
  <2> QED BY <2>1, <2>2
<1>4. Writes(s, messages') /\ Spares(messages')
  BY <1>1, <1>3, StoppedEffect
<1>5. CASE st.at \in {"fetch", "read"}
  <2> DEFINE t == [st EXCEPT !.at = "over", !.cut = TRUE, !.end = st.read]
  <2>1. t \in Stream /\ t.at = "over" /\ t.conv = st.conv /\ t.n = st.n /\ t.read = st.read
        /\ t.cut /\ t.end = st.read
    BY <1>1 DEF Stream
  <2>2. streams' = [streams EXCEPT ![s] = t]
    BY <1>3, <1>5
  <2> HIDE DEF t
  <2>3. StreamOK(t)
    BY <1>1, <1>5, <2>1 DEF StreamOK
  <2>4. Moves(s, t)
    BY <1>1, <1>2, <1>4, <1>5, <2>1, <2>2, <2>3 DEF Moves
  <2> QED BY <1>1, <1>4, <2>1, <2>4, MovesInv DEF Active
<1>6. CASE st.at \notin {"fetch", "read"}
  <2> DEFINE t == [st EXCEPT !.cut = TRUE, !.end = e]
  <2>1. e \in 0 .. End /\ e <= st.n
    BY <1>1, <1>3, StepNames
  <2>2. t \in Stream /\ t.at = st.at /\ t.conv = st.conv /\ t.n = st.n /\ t.read = st.read
        /\ t.cut /\ t.end = e
    BY <1>1, <2>1 DEF Stream
  <2>3. streams' = [streams EXCEPT ![s] = t]
    BY <1>3, <1>6
  <2> HIDE DEF t
  <2>4. StreamOK(t)
    BY <1>1, <1>6, <2>1, <2>2 DEF StreamOK
  <2>5. st.at \in {"await", "last"}
    BY <1>1, <1>6 DEF Active
  <2>6. Moves(s, t)
    BY <1>1, <1>2, <1>4, <2>2, <2>3, <2>4, <2>5 DEF Moves
  <2> QED BY <1>1, <1>4, <2>2, <2>5, <2>6, MovesInv
<1> QED BY <1>5, <1>6

\* A message is sent: no handler runs that was not stopped, and no load goes on.
LEMMA SendInv ==
    ASSUME ChatInv, Send
    PROVE  ChatInv'
<1> DEFINE u == used + 1
           t == [Off EXCEPT !.conv = Selected, !.at = "fetch"]
           m == <<"user", u>>
<1>1. ChatTyped /\ ServerOK /\ FetchOK /\ Begun(messages) /\ ~streaming /\ used < MaxStreams
  BY DEF ChatInv, Send, MaySend
<1>2. UNCHANGED <<rows, cur, node, mounted, key, stray>> /\ streaming' = TRUE /\ ctl' = u
      /\ used' = u /\ early' = (early \/ key # Selected) /\ messages' = Append(messages, m)
      /\ streams' = [streams EXCEPT ![u] = t]
  BY DEF Send
<1>3. u \in Streams /\ used \in Nat /\ u \in 0 .. MaxStreams
  BY <1>1, ChatPageAssumption DEF ChatTyped, Streams
<1>4. /\ t \in Stream /\ t.conv = Selected /\ t.n = 0 /\ t.read = 0 /\ ~t.cut
      /\ t.at = "fetch" /\ Selected \in Convs
  <2>1. Selected \in Convs
    BY <1>1 DEF ChatTyped, Selected, Convs
  <2> HIDE DEF Selected
  <2>2. Off \in Stream /\ Off.n = 0 /\ Off.read = 0 /\ ~Off.cut
    BY StepNames DEF Off, Stream
  <2> HIDE DEF Off
  <2> QED BY <2>1, <2>2 DEF Stream
<1> HIDE DEF t
<1>5. /\ streams' \in [Streams -> Stream] /\ streams'[u] = t
      /\ \A r \in Streams : r # u => streams'[r] = streams[r]
  BY <1>1, <1>2, <1>3, <1>4 DEF ChatTyped
<1>6. \A r \in Streams : /\ r <= used => streams'[r] = streams[r]
                         /\ r > used' <=> (r > used /\ r # u)
  BY <1>2, <1>3, <1>5 DEF Streams
<1>7. m \in Message /\ m[2] = u
  BY <1>3, MessageTyped
<1> HIDE DEF m
<1>8. messages' \in Seq(Message) /\ Members(messages') = Members(messages) \cup {m}
  BY <1>1, <1>2, <1>7, AppendEffect DEF ChatTyped
<1>9. ChatTyped'
  BY <1>1, <1>2, <1>3, <1>5, <1>8 DEF ChatTyped
<1>10. fetch' = <<>>
  BY <1>1, <1>2 DEF Send, Rerun, Effect, Wanted
<1>11. FetchOK' /\ Unloaded'
  BY <1>10 DEF FetchOK, Unloaded
<1>12. ASSUME NEW ms \in Seq(Message), Begun(ms)
       PROVE  \A x \in Members(ms) : x[2] # None => x[2] <= used'
  <2> TAKE x \in Members(ms)
  <2> HAVE x[2] # None
  <2>1. x \in Message
    BY MembersOf
  <2>2. x[2] \in Streams /\ x[2] <= used
    BY <1>12, <2>1 DEF Message, Begun
  <2> QED BY <1>2, <1>3, <2>2 DEF Streams
<1>13. Begun(messages)'
  <2>1. messages \in Seq(Message) /\ u <= used'
    BY <1>1, <1>2, <1>3 DEF ChatTyped
  <2> QED BY <1>1, <1>7, <1>8, <1>12, <2>1 DEF Begun
<1>14. ServerOK'
  <2>1. \A r \in Streams : /\ StreamOK(streams'[r]) /\ (r > used' <=> streams'[r].at = "off")
                           /\ streams'[r].at \notin {"off", "fetch"} => Committed(r)'
    <3> TAKE r \in Streams
    <3>1. CASE r = u
      BY <1>3, <1>4, <1>5, <1>6, <3>1 DEF StreamOK
    <3>2. CASE r # u
      BY <1>1, <1>2, <1>5, <1>6, <3>2 DEF ServerOK, Committed
    <3> QED BY <3>1, <3>2
  <2>2. \A c \in Convs : Begun(rows[c])' /\ OfConv(rows[c], c)'
    <3> TAKE c \in Convs
    <3>1. rows[c] \in Seq(Message) /\ rows' = rows /\ Begun(rows[c]) /\ OfConv(rows[c], c)
      BY <1>1, <1>2 DEF ChatTyped, ServerOK
    <3> QED BY <1>6, <1>12, <3>1, OfConvStays DEF Begun, OfConv
  <2> QED BY <2>1, <2>2 DEF ServerOK
<1>15. ASSUME ~stray
       PROVE  Sole'
  <2>1. Sole
    BY <1>15, Parts
  <2>2. \A r \in Streams : Active(streams[r]) => streams[r].cut
    BY <1>1, <2>1 DEF Sole, OneHandler
  <2>3. OneHandler'
    BY <1>2, <1>4, <1>5, <2>1, <2>2 DEF Sole, OneHandler
  <2>4. \A r \in Streams : Active(streams'[r]) /\ ~streams'[r].cut => r = u
    BY <1>5, <2>2
  <2>5. \A r \in Streams : r = u => Writing(r)'
    BY <1>4, <1>5, <1>8 DEF Writing, m
  <2>6. Whole(messages, key) => Whole(messages, key)'
    BY <1>2, <1>4, <1>5, <1>8 DEF Whole, DoneIn, Both
  <2> QED BY <2>1, <2>3, <2>4, <2>5, <2>6 DEF Sole
<1>16. ASSUME ~stray, ~early'
       PROVE  OwnOnes'
  <2>1. Sole /\ OwnOnes /\ key = Selected /\ key' = key
    BY <1>2, <1>16, Parts
  <2>2. \A r \in Streams : Active(streams[r]) => streams[r].cut
    BY <1>1, <2>1 DEF Sole, OneHandler
  <2>3. \A x \in Members(messages) : x[2] # None => streams'[x[2]].conv = key
    BY <1>1, <1>6, <2>1, OfConvStays DEF OwnOnes, ChatTyped
  <2>4. streams'[m[2]].conv = key
    BY <1>4, <1>5, <1>7, <2>1
  <2>5. OfConv(messages, key)'
    BY <1>8, <2>1, <2>3, <2>4 DEF OfConv
  <2>6. \A r \in Streams : Active(streams'[r]) /\ ~streams'[r].cut => streams'[r].conv = key
    BY <1>4, <1>5, <2>1, <2>2
  <2> QED BY <2>1, <2>5, <2>6 DEF OwnOnes
<1> QED BY <1>2, <1>9, <1>11, <1>13, <1>14, <1>15, <1>16 DEF ChatInv, Sole, OwnOnes

\* The server goes on with a stream: it commits the question, then the answer.
LEMMA ServerStepInv ==
    ASSUME ChatInv, NEW s \in Streams, ServerStep(s)
    PROVE  ChatInv'
<1> DEFINE st == streams[s]
           k == st.n + 1
           t == [st EXCEPT !.n = k]
           q == <<"user", s>>
           a == <<"assistant", s>>
           c0 == st.conv
           v == IF k = 3 THEN Append(rows[c0], q)
                ELSE IF k = 4 THEN Append(rows[c0], a) ELSE rows[c0]
<1>1. /\ ChatTyped /\ ServerOK /\ Unloaded /\ FetchOK /\ Begun(messages)
      /\ st \in Stream /\ StreamOK(st) /\ st.at \notin {"off", "fetch"} /\ st.n \in 0 .. End /\ st.n < End
      /\ st.conv \in Convs /\ s <= used /\ Committed(s)
  <2>1. ChatTyped /\ ServerOK /\ st \in Stream /\ StreamOK(st) /\ st.at \notin {"off", "fetch"} /\ st.n < End
    BY DEF ChatInv, ChatTyped, ServerOK, ServerStep
  <2>2. st.n \in 0 .. End
    BY <2>1, StreamFields
  <2>3. s <= used
    BY <2>1 DEF ServerOK, ChatTyped, Streams
  <2> QED BY <2>1, <2>2, <2>3 DEF ServerOK, StreamOK, ChatInv
<1>2. k \in 0 .. End /\ k = st.n + 1
  BY <1>1, StepNames
<1>3. UNCHANGED <<used, cur, node, messages, key, streaming, ctl, fetch, stray, early>>
  BY DEF ServerStep, store
<1>4. k = 3 <=> Steps[k] = "checkpoint"
  BY <1>1, <1>2, StepNames DEF Steps
<1>5. k = 4 <=> Steps[k] = "answer"
  BY <1>1, <1>2, StepNames DEF Steps
<1>6. /\ streams' = [streams EXCEPT ![s] = t]
      /\ rows' = [rows EXCEPT ![st.conv] = v]
  BY <1>4, <1>5 DEF ServerStep
<1> HIDE DEF k
<1>7. t \in Stream /\ t.n = k /\ t.conv = st.conv /\ t.read = st.read /\ t.end = st.end
      /\ t.cut = st.cut /\ t.at = st.at
  BY <1>1, <1>2 DEF Stream
<1> HIDE DEF t
<1>8. /\ streams' \in [Streams -> Stream] /\ streams'[s] = t
      /\ \A r \in Streams : /\ r # s => streams'[r] = streams[r]
                            /\ streams'[r].at = streams[r].at /\ streams'[r].conv = streams[r].conv
                            /\ streams'[r].cut = streams[r].cut /\ streams'[r].read = streams[r].read
  BY <1>1, <1>6, <1>7 DEF ChatTyped
<1>9. q \in Message /\ a \in Message /\ q[2] = s /\ a[2] = s
  BY MessageTyped
<1> HIDE DEF q, a
<1>10. \A c \in Convs : rows[c] \in Seq(Message)
  BY <1>1 DEF ChatTyped
<1>11. /\ v \in Seq(Message)
       /\ Members(rows[c0]) \subseteq Members(v) /\ Members(v) \subseteq Members(rows[c0]) \cup {q, a}
       /\ k = 3 => q \in Members(v)
       /\ k = 4 => a \in Members(v)
  BY <1>1, <1>9, <1>10, AppendEffect
<1> HIDE DEF v
<1>12. /\ rows' \in [Convs -> Seq(Message)] /\ rows'[c0] = v
       /\ \A c \in Convs : c # c0 => rows'[c] = rows[c]
  BY <1>1, <1>6, <1>11 DEF ChatTyped
<1>13. \A c \in Convs : Members(rows[c]) \subseteq Members(rows'[c])
  BY <1>11, <1>12
<1>14. ChatTyped'
  BY <1>1, <1>3, <1>8, <1>12 DEF ChatTyped
<1>15. \A r \in Streams : /\ StreamOK(streams'[r]) /\ (r > used' <=> streams'[r].at = "off")
                          /\ streams'[r].at \notin {"off", "fetch"} => Committed(r)'
  <2> TAKE r \in Streams
  <2>1. CASE r # s
    <3>1. streams[r].at \notin {"off", "fetch"} => Committed(r) /\ streams[r].conv \in Convs
      BY <1>1 DEF ServerOK, StreamOK
    <3> QED BY <1>1, <1>3, <1>8, <1>13, <2>1, <3>1 DEF ServerOK, Committed
  <2>2. CASE r = s
    <3>1. StreamOK(t)
      <4>1. st.read \in 0 .. End /\ st.end \in 0 .. End
        BY <1>1, StreamFields
      <4>2. st.read <= k /\ (st.cut => st.end <= k)
        BY <1>1, <1>2, <4>1, StepNames DEF StreamOK
      <4> QED BY <1>1, <1>7, <4>2 DEF StreamOK
    <3>2. k >= 3 => q \in Members(v)
      BY <1>1, <1>2, <1>11 DEF Committed, q
    <3>3. k >= 4 => a \in Members(v)
      BY <1>1, <1>2, <1>11 DEF Committed, a
    <3>4. Committed(s)'
      BY <1>7, <1>8, <1>12, <3>2, <3>3 DEF Committed, q, a
    <3> QED BY <1>1, <1>3, <1>7, <1>8, <2>2, <3>1, <3>4 DEF ServerOK
  <2> QED BY <2>1, <2>2
<1>16. \A c \in Convs : Begun(rows[c])' /\ OfConv(rows[c], c)'
  <2> TAKE c \in Convs
  <2>1. Begun(rows[c]) /\ OfConv(rows[c], c)
    BY <1>1 DEF ServerOK
  <2>2. \A m \in Members(rows[c]) : m[2] # None => m[2] <= used' /\ streams'[m[2]].conv = c
    BY <1>3, <1>8, <1>10, <2>1, OfConvStays DEF Begun
  <2>3. CASE c # st.conv
    BY <1>12, <2>2, <2>3 DEF Begun, OfConv
  <2>4. CASE c = st.conv
    <3>1. ASSUME NEW m \in Members(rows'[c])
          PROVE  m \in Members(rows[c]) \/ m[2] = s
      BY <1>9, <1>11, <1>12, <2>4
    <3>2. s <= used' /\ streams'[s].conv = c
      BY <1>1, <1>3, <1>7, <1>8, <2>4
    <3> QED BY <2>2, <3>1, <3>2 DEF Begun, OfConv
  <2> QED BY <2>3, <2>4
<1>17. ServerOK'
  BY <1>15, <1>16 DEF ServerOK
<1>18. ASSUME NEW ms \in Seq(Message), Begun(ms), NEW c, OfConv(ms, c)
       PROVE  \A m \in Members(ms) : m[2] # None => m[2] <= used' /\ streams'[m[2]].conv = c
  BY <1>3, <1>8, <1>18, OfConvStays DEF Begun
<1>19. FetchOK'
  <2>1. fetch' = fetch /\ stray' = stray
    BY <1>3
  <2>2. ASSUME fetch # <<>>
        PROVE  /\ Begun(fetch.rows)' /\ OfConv(fetch.rows, fetch.conv)'
               /\ fetch.st = "ok" /\ ~stray => Whole(fetch.rows, fetch.conv)'
    <3>1. fetch.rows \in Seq(Message) /\ Begun(fetch.rows) /\ OfConv(fetch.rows, fetch.conv)
      BY <1>1, <2>2 DEF FetchOK
    <3>2. Begun(fetch.rows)' /\ OfConv(fetch.rows, fetch.conv)'
      BY <1>18, <2>1, <3>1 DEF Begun, OfConv
    <3>3. fetch.st = "ok" /\ ~stray => Whole(fetch.rows, fetch.conv)
      BY <1>1, <2>2 DEF FetchOK
    <3> QED BY <1>8, <2>1, <3>2, <3>3 DEF Whole, DoneIn
  <2> QED BY <1>1, <2>1, <2>2 DEF FetchOK
<1>20. Unloaded' /\ Begun(messages)'
  BY <1>1, <1>3 DEF Unloaded, Begun
<1>21. Sole => Sole'
  BY <1>3, <1>8 DEF Sole, OneHandler, Writing, Whole, DoneIn, Active
<1>22. OwnOnes => OwnOnes'
  <2> HAVE OwnOnes
  <2>1. OfConv(messages, key)'
    <3>1. messages \in Seq(Message) /\ OfConv(messages, key)
      BY <1>1 DEF OwnOnes, ChatTyped
    <3> QED BY <1>1, <1>3, <1>18, <3>1 DEF OfConv
  <2>2. \A r \in Streams : Active(streams'[r]) /\ ~streams'[r].cut => streams'[r].conv = key'
    BY <1>3, <1>8 DEF OwnOnes, Active
  <2> QED BY <2>1, <2>2 DEF OwnOnes
<1>23. (~stray => Sole) /\ (~stray /\ ~early => OwnOnes)
  BY Parts
<1> QED BY <1>3, <1>14, <1>17, <1>19, <1>20, <1>21, <1>22, <1>23 DEF ChatInv, Sole, OwnOnes

\* What the server reads of a conversation holds every turn that ran to its end.
LEMMA RowsWhole ==
    ASSUME ChatTyped, ServerOK, NEW c
    PROVE  \A s \in Streams : DoneIn(s, c) => Both(s) \subseteq Members(rows[c])
<1> TAKE s \in Streams
<1> HAVE DoneIn(s, c)
<1>1. streams[s] \in Stream /\ StreamOK(streams[s]) /\ Committed(s)
  BY DEF ChatTyped, ServerOK, DoneIn
<1>2. streams[s].n \in 0 .. End /\ streams[s].read = End /\ streams[s].read <= streams[s].n
  BY <1>1, StreamFields DEF StreamOK, DoneIn
<1>3. streams[s].n >= 4
  BY <1>2, StepNames
<1>4. streams[s].n >= 3
  BY <1>2, <1>3
<1> QED BY <1>1, <1>3, <1>4 DEF Committed, DoneIn, Both

\* The server reads a history, or fails to.
LEMMA ServeHistoryInv ==
    ASSUME ChatInv, ServeHistory
    PROVE  ChatInv'
<1>1. /\ ChatTyped /\ ServerOK /\ Unloaded /\ FetchOK /\ Begun(messages)
      /\ fetch # <<>> /\ fetch.st = "sent"
      /\ fetch \in [conv: Convs, st: {"sent", "ok", "failed"}, rows: Seq(Message)]
  BY DEF ChatInv, ServeHistory, FetchOK
<1>2. UNCHANGED <<rows, streams, used, cur, node, messages, key, streaming, ctl, stray, early>>
  BY DEF ServeHistory, store
<1>3. FetchOK'
  <2>1. CASE fetch' = [fetch EXCEPT !.st = "ok", !.rows = rows[fetch.conv]]
    <3> DEFINE r == rows[fetch.conv]
    <3>1. r \in Seq(Message) /\ Begun(r) /\ OfConv(r, fetch.conv) /\ Whole(r, fetch.conv)
      BY <1>1, RowsWhole DEF ChatTyped, ServerOK, Whole
    <3> HIDE DEF r
    <3> DEFINE f == [fetch EXCEPT !.st = "ok", !.rows = r]
    <3>2. f \in [conv: Convs, st: {"sent", "ok", "failed"}, rows: Seq(Message)]
          /\ f.conv = fetch.conv /\ f.st = "ok" /\ f.rows = r
      BY <1>1, <3>1
    <3>3. fetch' = f
      BY <2>1 DEF r
    <3> HIDE DEF f
    <3>4. Begun(fetch.rows)' /\ OfConv(fetch.rows, fetch.conv)' /\ Whole(fetch.rows, fetch.conv)'
      BY <1>2, <3>1, <3>2, <3>3 DEF Begun, OfConv, Whole, DoneIn
    <3> QED BY <3>2, <3>3, <3>4 DEF FetchOK
  <2>2. CASE fetch' = [fetch EXCEPT !.st = "failed"] /\ "history" \in Failing
    <3> DEFINE f == [fetch EXCEPT !.st = "failed"]
    <3>1. f \in [conv: Convs, st: {"sent", "ok", "failed"}, rows: Seq(Message)]
          /\ f.st = "failed" /\ f.rows = <<>>
      BY <1>1 DEF FetchOK
    <3>2. fetch' = f /\ Members(<<>>) = {}
      BY <2>2 DEF Members
    <3> HIDE DEF f
    <3> QED BY <2>2, <3>1, <3>2 DEF FetchOK, Begun, OfConv
  <2> QED BY <2>1, <2>2 DEF ServeHistory
<1>4. ChatTyped' /\ Unloaded' /\ Begun(messages)'
  BY <1>1, <1>2 DEF ChatTyped, Unloaded, Begun, ServeHistory
<1>5. ServerOK'
  BY <1>1, <1>2 DEF ServerOK, Committed, Begun, OfConv
<1>6. (~stray => Sole) /\ (~stray /\ ~early => OwnOnes)
  BY Parts
<1>7. (Sole => Sole') /\ (OwnOnes => OwnOnes')
  BY <1>2 DEF Sole, OneHandler, Writing, Whole, DoneIn, OwnOnes, OfConv
<1> QED BY <1>2, <1>3, <1>4, <1>5, <1>6, <1>7 DEF ChatInv, Sole, OwnOnes

\* A history arrives: no handler runs that was not stopped.
LEMMA HistoryAnswerInv ==
    ASSUME ChatInv, HistoryAnswer
    PROVE  ChatInv'
<1>1. /\ ChatTyped /\ ServerOK /\ Unloaded /\ FetchOK
      /\ fetch # <<>> /\ fetch.st # "sent" /\ ~streaming
  BY DEF ChatInv, HistoryAnswer, FetchOK, Unloaded
<1>2. /\ fetch.st \in {"sent", "ok", "failed"} /\ fetch.rows \in Seq(Message)
      /\ Begun(fetch.rows) /\ OfConv(fetch.rows, fetch.conv)
      /\ fetch.st = "ok" /\ ~stray => Whole(fetch.rows, fetch.conv)
      /\ fetch.st = "failed" => "history" \in Failing
      /\ fetch.st # "ok" => fetch.rows = <<>>
  BY <1>1 DEF FetchOK
<1>3. UNCHANGED <<rows, streams, used, cur, node, streaming, ctl, stray, early>>
      /\ messages' = fetch.rows /\ key' = IF fetch.st = "ok" THEN fetch.conv ELSE key
  BY DEF HistoryAnswer
<1>4. fetch' = <<>> \/ fetch' = Fresh
  BY <1>3 DEF HistoryAnswer, Fresh, Selected
<1>5. ChatTyped' /\ ServerOK' /\ Begun(messages)' /\ Unloaded'
  <2>1. ServerOK'
    BY <1>1, <1>3 DEF ServerOK, Committed, Begun, OfConv
  <2> QED BY <1>1, <1>2, <1>3, <2>1 DEF ChatTyped, Begun, Unloaded
<1>6. FetchOK'
  <2>1. cur' \in Workflows /\ node' \in Nodes
    BY <1>1, <1>3 DEF ChatTyped
  <2> QED BY <1>4, <2>1, FreshOK DEF FetchOK
<1>7. ASSUME ~stray
      PROVE  Sole'
  <2>1. Sole
    BY <1>7, Parts
  <2>2. \A s \in Streams : Active(streams[s]) => streams[s].cut
    BY <1>1, <2>1 DEF Sole, OneHandler
  <2>3. OneHandler'
    BY <1>3, <2>1 DEF Sole, OneHandler
  <2>4. "history" \notin Failing => Whole(messages, key)'
    BY <1>1, <1>2, <1>3, <1>7 DEF Whole, DoneIn
  <2> QED BY <1>3, <2>2, <2>3, <2>4 DEF Sole
<1>8. ASSUME ~stray, ~early
      PROVE  OwnOnes'
  <2>1. Sole
    BY <1>8, Parts
  <2>2. \A s \in Streams : Active(streams[s]) => streams[s].cut
    BY <1>1, <2>1 DEF Sole, OneHandler
  <2>3. OfConv(messages, key)'
    <3>1. CASE fetch.st = "ok"
      BY <1>2, <1>3, <3>1 DEF OfConv
    <3>2. CASE fetch.st # "ok"
      <4>1. Members(messages') = {}
        BY <1>2, <1>3, <3>2 DEF Members
      <4> QED BY <4>1 DEF OfConv
    <3> QED BY <3>1, <3>2
  <2> QED BY <1>3, <2>2, <2>3 DEF OwnOnes
<1> QED BY <1>3, <1>5, <1>6, <1>7, <1>8 DEF ChatInv, Sole, OwnOnes

\* The user chooses a conversation, or shows or hides the tab: only the load changes.
LEMMA ViewInv ==
    ASSUME ChatInv, Loads, cur' \in Workflows, node' \in Nodes,
           UNCHANGED <<rows, streams, used, messages, key, streaming, ctl, stray, early>>
    PROVE  ChatInv'
<1>1. ChatTyped /\ ServerOK /\ Unloaded /\ FetchOK /\ Begun(messages)
  BY DEF ChatInv
<1>2. ChatTyped' /\ ServerOK' /\ Begun(messages)' /\ Unloaded'
  <2>1. ServerOK'
    BY <1>1 DEF ServerOK, Committed, Begun, OfConv
  <2>2. Unloaded'
    BY <1>1 DEF Unloaded, Loads
  <2> QED BY <1>1, <2>1, <2>2 DEF ChatTyped, Begun
<1>3. FetchOK'
  <2>1. CASE fetch' = <<>>
    BY <2>1 DEF FetchOK
  <2>2. CASE fetch' = Fresh
    BY <2>2, FreshOK
  <2>3. CASE fetch' = fetch
    BY <1>1, <2>3 DEF FetchOK, Begun, OfConv, Whole, DoneIn
  <2> QED BY <2>1, <2>2, <2>3 DEF Loads
<1>4. (~stray => Sole) /\ (~stray /\ ~early => OwnOnes)
  BY Parts
<1>5. (Sole => Sole') /\ (OwnOnes => OwnOnes')
  BY DEF Sole, OneHandler, Writing, Whole, DoneIn, OwnOnes, OfConv
<1> QED BY <1>2, <1>3, <1>4, <1>5 DEF ChatInv, Sole, OwnOnes

\* A step that leaves the flags leaves a handler that runs running.
LEMMA ControlsKept ==
    ASSUME Controls, ctl' = ctl,
           \A s \in Streams : Active(streams[s]) /\ ~streams[s].cut => Active(streams'[s]) /\ ~streams'[s].cut
    PROVE  Controls'
BY DEF Controls

\* One of the handler's records changes, and stays that of one that runs.
LEMMA ControlsMoved ==
    ASSUME ChatTyped, Controls, ctl' = ctl, NEW s \in Streams, NEW t,
           streams' = [streams EXCEPT ![s] = t], Active(t), t.cut = streams[s].cut
    PROVE  Controls'
<1>1. streams'[s] = t /\ \A r \in Streams : r # s => streams'[r] = streams[r]
  BY DEF ChatTyped
<1> QED BY <1>1, ControlsKept

\* Whoever ends a handler clears the flags.
LEMMA ControlsStep ==
    ASSUME ChatInv, Controls, Next
    PROVE  Controls'
<1>1. ChatTyped /\ None \notin Streams
  BY MessageTyped DEF ChatInv
<1>2. CASE UNCHANGED <<streams, ctl>>
  BY <1>2 DEF Controls
<1>3. ASSUME Finish
      PROVE  Controls'
  BY <1>3 DEF Finish, Controls
<1>4. CASE Send
  <2> DEFINE u == used + 1
             t == [Off EXCEPT !.conv = Selected, !.at = "fetch"]
  <2>1. u \in Streams /\ streams' = [streams EXCEPT ![u] = t] /\ ctl' = u
    BY <1>1, <1>4, ChatPageAssumption DEF ChatTyped, Streams, Send
  <2>2. Active(t) /\ ~t.cut
    BY DEF Active, Off
  <2> HIDE DEF t, u
  <2>3. streams'[u] = t
    BY <1>1, <2>1 DEF ChatTyped
  <2> QED BY <2>1, <2>2, <2>3 DEF Controls
<1>5. ASSUME NEW s \in Streams, ServerStep(s)
      PROVE  Controls'
  <2> DEFINE k == streams[s].n + 1
             t == [streams[s] EXCEPT !.n = k]
  <2> HIDE DEF k
  <2>1. streams[s] \in Stream /\ streams' = [streams EXCEPT ![s] = t] /\ ctl' = ctl
    BY <1>1, <1>5 DEF ServerStep, ChatTyped, store, k
  <2>2. t.at = streams[s].at /\ t.cut = streams[s].cut
    BY <2>1 DEF Stream
  <2> HIDE DEF t
  <2>3. streams'[s] = t /\ \A r \in Streams : r # s => streams'[r] = streams[r]
    BY <1>1, <2>1 DEF ChatTyped
  <2> QED BY <2>1, <2>2, <2>3, ControlsKept DEF Active
<1>6. ASSUME NEW s \in Streams, Respond(s) \/ LoopEnds(s) \/ Got(s)
      PROVE  Controls'
  <2>1. CASE Finish
    BY <1>3, <2>1
  <2>2. CASE ~Finish
    <3>1. PICK a \in {"read", "last"} : streams' = [streams EXCEPT ![s].at = a] /\ ctl' = ctl
      BY <1>6, <2>2 DEF Respond, LoopEnds, Got, store
    <3> DEFINE t == [streams[s] EXCEPT !.at = a]
    <3>2. streams[s] \in Stream /\ streams' = [streams EXCEPT ![s] = t]
      BY <1>1, <3>1 DEF ChatTyped
    <3>3. t.at = a /\ t.cut = streams[s].cut
      BY <3>2 DEF Stream
    <3> HIDE DEF t
    <3> QED BY <1>1, <3>1, <3>2, <3>3, ControlsMoved DEF Active
  <2> QED BY <2>1, <2>2
<1>7. ASSUME NEW s \in Streams, Read(s)
      PROVE  Controls'
  <2> DEFINE r == streams[s].read + 1
             a == IF Steps[r] \in {"ui", "plan"} THEN "await" ELSE "read"
             t == [streams[s] EXCEPT !.read = r, !.at = a]
  <2>1. streams[s] \in Stream /\ streams' = [streams EXCEPT ![s] = t] /\ ctl' = ctl
        /\ a \in {"await", "read"}
    BY <1>1, <1>7 DEF Read, ChatTyped
  <2> HIDE DEF r, a
  <2>2. t.at = a /\ t.cut = streams[s].cut
    BY <2>1 DEF Stream
  <2> HIDE DEF t
  <2> QED BY <1>1, <2>1, <2>2, ControlsMoved DEF Active
<1>8. ASSUME NEW s \in Streams, Throws(s)
      PROVE  Controls'
  BY <1>3, <1>8 DEF Throws
<1>9. CASE Stop
  BY <1>3, <1>9 DEF Stop
<1>10. CASE ServeHistory \/ HistoryAnswer
  BY <1>2, <1>10 DEF ServeHistory, HistoryAnswer, store
<1>11. CASE Show \/ Hide \/ \E c \in Convs : Select(c)
  BY <1>2, <1>11 DEF Show, Hide, Select
<1> QED BY <1>4, <1>5, <1>6, <1>7, <1>8, <1>9, <1>10, <1>11 DEF Next

\* Every step of the chat keeps the invariant.
LEMMA ChatStep == ChatInv /\ Controls /\ [Next]_vars => ChatInv' /\ Controls'
<1> SUFFICES ASSUME ChatInv, Controls, [Next]_vars PROVE ChatInv' /\ Controls'
  OBVIOUS
<1>1. cur \in Workflows /\ node \in Nodes
  BY DEF ChatInv, ChatTyped
<1>2. CASE Next
  <2>1. Controls'
    BY <1>2, ControlsStep
  <2>2. CASE Show \/ Hide
    BY <1>1, <2>1, <2>2, EffectLoads, ViewInv DEF Show, Hide, Rerun
  <2>3. ASSUME NEW c \in Convs, Select(c)
        PROVE  ChatInv'
    <3>1. c[1] \in Workflows /\ c[2] \in Nodes
      BY DEF Convs
    <3> QED BY <2>3, <3>1, EffectLoads, ViewInv DEF Select, Rerun
  <2> QED BY <1>2, <2>1, <2>2, <2>3, SendInv, StopInv, ServeHistoryInv, HistoryAnswerInv,
             ServerStepInv, RespondInv, ReadInv, LoopEndsInv, GotInv, ThrowsInv DEF Next
<1>3. CASE UNCHANGED vars
  <2>1. ChatInv'
    <3>1. UNCHANGED <<rows, streams, used, messages, key, streaming, ctl, stray, early>>
          /\ fetch' = fetch /\ cur' = cur /\ node' = node
      BY <1>3 DEF vars, store
    <3>2. Loads
      BY <3>1 DEF Loads
    <3> QED BY <1>1, <3>1, <3>2, ViewInv
  <2>2. Controls'
    BY <1>3 DEF vars, store, Controls
  <2> QED BY <2>1, <2>2
<1> QED BY <1>2, <1>3

\* Nothing was sent yet.
LEMMA ChatInit == Init => ChatInv /\ Controls
<1> SUFFICES ASSUME Init PROVE ChatInv /\ Controls
  OBVIOUS
<1>1. Off \in Stream /\ Off.at = "off" /\ Off.conv = NoConv /\ Off.n = 0 /\ Off.read = 0 /\ ~Off.cut
  BY StepNames DEF Off, Stream
<1>2. \A s \in Streams : streams[s] = Off /\ s > 0
  BY DEF Init, Streams
<1>3. Members(<<>>) = {}
  BY DEF Members
<1> HIDE DEF Off
<1>4. ChatTyped
  <2>1. rows \in [Convs -> Seq(Message)] /\ messages \in Seq(Message)
    BY DEF Init
  <2>2. used \in 0 .. MaxStreams /\ streams \in [Streams -> Stream]
    BY <1>1, ChatPageAssumption DEF Init
  <2> QED BY <2>1, <2>2 DEF Init, ChatTyped
<1>5. ServerOK
  BY <1>1, <1>2, <1>3 DEF Init, ServerOK, StreamOK, Begun, OfConv
<1>6. Unloaded /\ FetchOK /\ Begun(messages) /\ OfConv(messages, key)
  BY <1>3 DEF Init, Unloaded, FetchOK, Begun, OfConv
<1>7. OneHandler /\ Whole(messages, key) /\ \A s \in Streams : ~Active(streams[s])
  BY <1>1, <1>2 DEF OneHandler, Active, Whole, DoneIn
<1>8. Controls
  BY DEF Init, Controls
<1> QED BY <1>4, <1>5, <1>6, <1>7, <1>8 DEF ChatInv

\* The invariant of the chat.
LEMMA ChatInvariant == Spec => [](ChatInv /\ Controls)
BY ChatInit, ChatStep, PTL DEF Spec

\* Unless a stopped handler has gone on, or a message was sent before the history
\* of its conversation had come, the list holds no message of a conversation but
\* the one that is selected (plannerChatStore.ts, PlannerChatTab.tsx), for any conversations
\* and any number of messages.
THEOREM OwnMessagesHolds == Spec => []OwnMessages
<1>1. ChatInv => OwnMessages
  <2> SUFFICES ASSUME ChatInv, ~stray, ~early, NEW i \in DOMAIN messages, messages[i][2] # None
               PROVE  streams[messages[i][2]].conv = key
    BY DEF OwnMessages, Settled
  <2>1. messages[i] \in Members(messages)
    BY DEF Members
  <2> QED BY <2>1 DEF ChatInv, OfConv
<1> QED BY <1>1, ChatInvariant, PTL

\* A turn that ran to its end stays in its conversation, the question and the
\* answer, and the server has committed both, if no load of a history fails.
THEOREM TurnKeptHolds ==
    ASSUME "history" \notin Failing
    PROVE  Spec => []TurnKept
<1>1. ChatInv => TurnKept
  <2> SUFFICES ASSUME ChatInv, ~stray, NEW s \in Streams, streams[s].at = "done",
                      streams[s].conv = key, key \in Convs
               PROVE  /\ Shown(s, "user") /\ Shown(s, "assistant")
                      /\ {<<"user", s>>, <<"assistant", s>>} \subseteq ToSet(rows[key])
    BY DEF TurnKept, Settled, ChatInv, ServerOK, StreamOK
  <2>1. Whole(messages, key) /\ DoneIn(s, key)
    BY DEF ChatInv, DoneIn
  <2>2. Both(s) \subseteq Members(messages)
    BY <2>1 DEF Whole
  <2>3. Both(s) \subseteq Members(rows[key])
    BY <2>1, RowsWhole DEF ChatInv
  <2>4. ToSet(rows[key]) = Members(rows[key])
    BY DEF ToSet, Members
  <2>5. Shown(s, "user") /\ Shown(s, "assistant")
    BY <2>2 DEF Shown, Both, Members
  <2> QED BY <2>3, <2>4, <2>5 DEF Both
<1> QED BY <1>1, ChatInvariant, PTL

-----------------------------------------------------------------------------
(* LLMOutput.  Whatever has arrived, the blocks and the two buffers hold    *)
(* the events that were put together, and the buffer that is not being      *)
(* filled holds white space at most.                                        *)

\* Flattening as its definition recurs.
FlatStep(g, m, bs) == IF m = 1 THEN bs[m] ELSE g[m - 1] \o bs[m]
Flats(g, n, bs) == g = [m \in 1..n |-> FlatStep(g, m, bs)]

LEMMA FlatsExist ==
    ASSUME NEW bs, NEW n \in Nat
    PROVE  \E g : Flats(g, n, bs)
<1> DEFINE T == {m \in Nat : ~\E g : Flats(g, m, bs)}
<1>1. SUFFICES ASSUME T # {} PROVE FALSE
  OBVIOUS
<1>2. PICK m \in T : \A k \in T : m <= k
  BY <1>1, Least
<1>3. m \in Nat /\ ~\E g : Flats(g, m, bs)
  BY <1>2
<1>4. m # 0
  <2>1. Flats([k \in 1..0 |-> <<>>], 0, bs)
    BY DEF Flats, FlatStep
  <2> QED
    BY <2>1, <1>3
<1>5. PICK g : Flats(g, m - 1, bs)
  <2>1. m - 1 \in Nat /\ m - 1 \notin T
    BY <1>2, <1>3, <1>4
  <2> QED
    BY <2>1
<1> DEFINE h == [k \in 1..m |-> IF k = m THEN FlatStep(g, m, bs) ELSE g[k]]
<1>6. ASSUME NEW k \in 1..m PROVE h[k] = FlatStep(h, k, bs)
  <2>1. CASE k = m
    <3>1. k # 1 => h[k - 1] = g[k - 1]
      BY <1>3, <2>1
    <3> QED
      BY <2>1, <3>1 DEF FlatStep
  <2>2. CASE k # m
    <3>1. k \in 1..(m - 1)
      BY <2>2, <1>3
    <3>2. g[k] = FlatStep(g, k, bs)
      BY <3>1, <1>5 DEF Flats
    <3>3. k # 1 => h[k - 1] = g[k - 1]
      BY <3>1, <1>3
    <3> QED
      BY <3>1, <3>2, <3>3, <2>2 DEF FlatStep
  <2> QED
    BY <2>1, <2>2
<1>7. Flats(h, m, bs)
  <2> HIDE DEF FlatStep
  <2> QED
    BY <1>6 DEF Flats
<1> QED
  BY <1>3, <1>7

LEMMA FlattenFlats ==
    ASSUME NEW bs, Len(bs) \in Nat \ {0}
    PROVE  \E g : Flats(g, Len(bs), bs) /\ FlattenSeq(bs) = g[Len(bs)]
<1>1. \E g : Flats(g, Len(bs), bs)
  BY FlatsExist
<1>2. FlattenSeq(bs) = (CHOOSE g : Flats(g, Len(bs), bs))[Len(bs)]
  BY DEF FlattenSeq, Flats, FlatStep
<1> QED
  BY <1>1, <1>2

\* One block more comes last.
LEMMA FlattenAppend ==
    ASSUME NEW D, NEW bs \in Seq(Seq(D)), NEW b \in Seq(D)
    PROVE  /\ FlattenSeq(bs) \in Seq(D)
           /\ FlattenSeq(Append(bs, b)) = FlattenSeq(bs) \o b
<1> DEFINE us == Append(bs, b)
           n == Len(bs)
<1>1. /\ n \in Nat /\ Len(us) = n + 1 /\ us[n + 1] = b
      /\ \A i \in 1..n : us[i] = bs[i] /\ bs[i] \in Seq(D)
      /\ n = 0 => bs = <<>>
  OBVIOUS
<1> HIDE DEF us, n
<1>2. PICK h : Flats(h, n + 1, us) /\ FlattenSeq(us) = h[n + 1]
  BY <1>1, FlattenFlats
<1>3. \A m \in 1..(n + 1) : h[m] = FlatStep(h, m, us)
  BY <1>2 DEF Flats
<1>4. h[n + 1] = FlatStep(h, n + 1, us)
  <2>1. n + 1 \in 1..(n + 1)
    BY <1>1
  <2> QED
    BY <1>3, <2>1
<1>5. CASE n = 0
  <2>1. FlattenSeq(bs) = <<>>
    BY <1>1, <1>5 DEF FlattenSeq
  <2>2. FlattenSeq(us) = b
    BY <1>1, <1>2, <1>4, <1>5 DEF FlatStep
  <2>3. <<>> \in Seq(D) /\ <<>> \o b = b
    BY ConcatEmptySeq
  <2> QED
    BY <2>1, <2>2, <2>3 DEF us
<1>6. CASE n # 0
  <2>1. PICK g : Flats(g, n, bs) /\ FlattenSeq(bs) = g[n]
    BY <1>1, <1>6, FlattenFlats DEF n
  <2>2. \A m \in 1..n : g[m] = FlatStep(g, m, bs)
    BY <2>1 DEF Flats
  <2> DEFINE T == {m \in 1..n : h[m] # g[m] \/ g[m] \notin Seq(D)}
  <2>3. T = {}
    <3> SUFFICES ASSUME T # {} PROVE FALSE
      OBVIOUS
    <3>1. T \in SUBSET Nat
      OBVIOUS
    <3>2. PICK m \in T : \A k \in T : m <= k
      BY <3>1, Least
    <3>3. m \in 1..n /\ m \in 1..(n + 1) /\ ~(h[m] = g[m] /\ g[m] \in Seq(D))
      BY <1>1, <3>2
    <3>4. g[m] = FlatStep(g, m, bs) /\ h[m] = FlatStep(h, m, us)
      BY <1>3, <2>2, <3>3
    <3>5. us[m] = bs[m] /\ bs[m] \in Seq(D)
      BY <1>1, <3>3
    <3>6. m # 1 => m - 1 \in 1..n /\ ~(m <= m - 1)
      BY <1>1, <3>3
    <3>7. m # 1 => h[m - 1] = g[m - 1] /\ g[m - 1] \in Seq(D)
      BY <3>2, <3>6
    <3>8. m # 1 => g[m - 1] \o bs[m] \in Seq(D)
      BY <3>5, <3>7, ConcatProperties
    <3> QED
      BY <3>3, <3>4, <3>5, <3>7, <3>8 DEF FlatStep
  <2>4. h[n] = g[n] /\ g[n] \in Seq(D)
    <3>1. n \in 1..n
      BY <1>1, <1>6
    <3> QED
      BY <2>3, <3>1
  <2>5. n + 1 # 1 /\ (n + 1) - 1 = n
    BY <1>1, <1>6
  <2> QED
    BY <1>1, <1>2, <1>4, <2>1, <2>4, <2>5 DEF FlatStep, us
<1> QED
  BY <1>5, <1>6

\* A buffer or a block of one kind; the blocks and buffers as they may be.
AllOf(kind, b) == \A i \in Members(b) : Kind(i) = kind
Outputs == [blocks: Seq(Seq(DOMAIN pieces)), assistant: Seq(DOMAIN pieces),
            thinking: Seq(DOMAIN pieces), inThinking: BOOLEAN]
Tidy(out) ==
    /\ out \in Outputs
    /\ IF out.inThinking THEN Trimmed(out.assistant) ELSE Trimmed(out.thinking)
    /\ AllOf("text", out.assistant) /\ AllOf("thinking", out.thinking)
    /\ \A b \in Members(out.blocks) : \E kind : AllOf(kind, b)

\* All that is in it, without the white space.
Seen(s) == Without(s, Blanks)
Held(out) == Seen(FlattenSeq(out.blocks)) \o (Seen(out.assistant) \o Seen(out.thinking))

LEMMA SeenTyped ==
    ASSUME NEW s \in Seq(DOMAIN pieces)
    PROVE  /\ Seen(s) \in Seq(DOMAIN pieces)
           /\ Trimmed(s) => Seen(s) = <<>>
<1>1. Trimmed(s) => Members(s) \subseteq Blanks
  BY DEF Trimmed, Members, Blanks
<1> QED
  BY <1>1, WithoutMembers, WithoutAll DEF Seen

LEMMA SeenParts ==
    ASSUME NEW s \in Seq(DOMAIN pieces), NEW t \in Seq(DOMAIN pieces)
    PROVE  Seen(s \o t) = Seen(s) \o Seen(t)
BY WithoutConcat DEF Seen

LEMMA SeenMore ==
    ASSUME NEW s \in Seq(DOMAIN pieces), NEW i \in DOMAIN pieces
    PROVE  Seen(Append(s, i)) = IF i \in Blanks THEN Seen(s) ELSE Append(Seen(s), i)
BY WithoutAppend DEF Seen

LEMMA NothingWritten ==
    /\ <<>> \in Seq(DOMAIN pieces) /\ <<>> \in Seq(Seq(DOMAIN pieces))
    /\ Trimmed(<<>>) /\ Seen(<<>>) = <<>> /\ \A kind : AllOf(kind, <<>>)
    /\ Members(<<>>) = {}
<1>1. <<>> \in Seq(DOMAIN pieces) /\ <<>> \in Seq(Seq(DOMAIN pieces))
  OBVIOUS
<1>2. Members(<<>>) = {} /\ Trimmed(<<>>)
  BY DEF Members, Trimmed
<1> QED
  BY <1>1, <1>2, WithoutEmpty DEF AllOf, Seen

\* A buffer becomes a block.
LEMMA Flushed ==
    ASSUME NEW bs \in Seq(Seq(DOMAIN pieces)), NEW b \in Seq(DOMAIN pieces)
    PROVE  /\ Append(bs, b) \in Seq(Seq(DOMAIN pieces))
           /\ Members(Append(bs, b)) = Members(bs) \cup {b}
           /\ Seen(FlattenSeq(Append(bs, b))) = Seen(FlattenSeq(bs)) \o Seen(b)
           /\ Seen(FlattenSeq(bs)) \in Seq(DOMAIN pieces)
<1>1. FlattenSeq(bs) \in Seq(DOMAIN pieces) /\ FlattenSeq(Append(bs, b)) = FlattenSeq(bs) \o b
  BY FlattenAppend
<1>2. Seen(FlattenSeq(bs) \o b) = Seen(FlattenSeq(bs)) \o Seen(b)
  BY <1>1, SeenParts
<1>3. Members(Append(bs, b)) = Members(bs) \cup {b} /\ Append(bs, b) \in Seq(Seq(DOMAIN pieces))
  BY MembersAppend
<1> QED
  BY <1>1, <1>2, <1>3, SeenTyped

LEMMA AssistantFlushed ==
    ASSUME NEW out, Tidy(out)
    PROVE  LET o == flushAssistant(out)
           IN  /\ Tidy(o) /\ Held(o) = Held(out) /\ Trimmed(o.assistant)
               /\ o.inThinking = out.inThinking
<1> DEFINE bs == out.blocks
           a == out.assistant
           t == out.thinking
           th == out.inThinking
           o == flushAssistant(out)
<1>1. /\ out \in Outputs /\ bs \in Seq(Seq(DOMAIN pieces)) /\ a \in Seq(DOMAIN pieces)
      /\ t \in Seq(DOMAIN pieces) /\ th \in BOOLEAN
  BY DEF Tidy, Outputs
<1>2. CASE Trimmed(a)
  BY <1>2 DEF flushAssistant
<1>3. CASE ~Trimmed(a)
  <2>1. o = [out EXCEPT !.blocks = Append(bs, a), !.assistant = <<>>]
    BY <1>3 DEF flushAssistant
  <2>2. /\ Append(bs, a) \in Seq(Seq(DOMAIN pieces))
        /\ Members(Append(bs, a)) = Members(bs) \cup {a}
        /\ Seen(FlattenSeq(Append(bs, a))) = Seen(FlattenSeq(bs)) \o Seen(a)
        /\ Seen(FlattenSeq(bs)) \in Seq(DOMAIN pieces)
    BY <1>1, Flushed
  <2> DEFINE ls == Append(bs, a)
  <2>3. ls \in Seq(Seq(DOMAIN pieces))
    BY <2>2
  <2> HIDE DEF ls
  <2>4. /\ o.blocks = ls /\ o.assistant = <<>> /\ o.thinking = t /\ o.inThinking = th
        /\ o \in Outputs
    BY <1>1, <2>1, <2>3, NothingWritten DEF Outputs, ls
  <2> HIDE DEF o
  <2>5. ~th /\ Trimmed(t) /\ AllOf("text", a) /\ AllOf("thinking", t)
    BY <1>3 DEF Tidy
  <2>6. \A b \in Members(ls) : \E kind : AllOf(kind, b)
    BY <2>2, <2>5 DEF Tidy, ls
  <2>7. Tidy(o) /\ Trimmed(o.assistant)
    BY <2>4, <2>5, <2>6, NothingWritten DEF Tidy
  <2>8. Held(o) = Held(out)
    <3> DEFINE f == Seen(FlattenSeq(bs))
               w == Seen(a)
    <3>1. Seen(t) = <<>> /\ f \in Seq(DOMAIN pieces) /\ w \in Seq(DOMAIN pieces)
      BY <1>1, <2>2, <2>5, SeenTyped
    <3>2. Held(o) = (f \o w) \o (<<>> \o <<>>) /\ Held(out) = f \o (w \o <<>>)
      BY <2>2, <2>4, <3>1, NothingWritten DEF Held, ls
    <3> HIDE DEF f, w
    <3>3. <<>> \o <<>> = <<>> /\ w \o <<>> = w
      BY <3>1, ConcatEmptySeq
    <3>4. f \o w \in Seq(DOMAIN pieces)
      BY <3>1, ConcatProperties
    <3>5. (f \o w) \o <<>> = f \o w
      BY <3>4, ConcatEmptySeq
    <3> QED
      BY <3>2, <3>3, <3>5
  <2> QED
    BY <2>4, <2>7, <2>8 DEF o
<1> QED
  BY <1>2, <1>3

LEMMA ThinkingLeft ==
    ASSUME NEW out, Tidy(out)
    PROVE  LET o == LeaveThinking(out)
           IN  /\ Tidy(o) /\ Held(o) = Held(out)
               /\ o.assistant = out.assistant /\ ~o.inThinking
<1> DEFINE bs == out.blocks
           a == out.assistant
           t == out.thinking
           th == out.inThinking
           o == LeaveThinking(out)
<1>1. /\ out \in Outputs /\ bs \in Seq(Seq(DOMAIN pieces)) /\ a \in Seq(DOMAIN pieces)
      /\ t \in Seq(DOMAIN pieces) /\ th \in BOOLEAN
  BY DEF Tidy, Outputs
<1>2. CASE ~th
  BY <1>2 DEF LeaveThinking
<1>3. CASE th /\ Trimmed(t)
  <2>1. o = [out EXCEPT !.inThinking = FALSE]
    BY <1>3 DEF LeaveThinking, flushThinking
  <2>2. /\ o.blocks = bs /\ o.assistant = a /\ o.thinking = t /\ ~o.inThinking
        /\ o \in Outputs
    BY <1>1, <2>1 DEF Outputs
  <2> HIDE DEF o
  <2>3. Tidy(o) /\ Held(o) = Held(out)
    BY <1>3, <2>2 DEF Tidy, Held
  <2> QED
    BY <2>2, <2>3 DEF o
<1>4. CASE th /\ ~Trimmed(t)
  <2>1. o = [[out EXCEPT !.blocks = Append(bs, t), !.thinking = <<>>] EXCEPT !.inThinking = FALSE]
    BY <1>4 DEF LeaveThinking, flushThinking
  <2>2. /\ Append(bs, t) \in Seq(Seq(DOMAIN pieces))
        /\ Members(Append(bs, t)) = Members(bs) \cup {t}
        /\ Seen(FlattenSeq(Append(bs, t))) = Seen(FlattenSeq(bs)) \o Seen(t)
        /\ Seen(FlattenSeq(bs)) \in Seq(DOMAIN pieces)
    BY <1>1, Flushed
  <2> DEFINE ls == Append(bs, t)
  <2>3. ls \in Seq(Seq(DOMAIN pieces))
    BY <2>2
  <2> HIDE DEF ls
  <2>4. /\ o.blocks = ls /\ o.assistant = a /\ o.thinking = <<>> /\ ~o.inThinking
        /\ o \in Outputs
    BY <1>1, <2>1, <2>3, NothingWritten DEF Outputs, ls
  <2> HIDE DEF o
  <2>5. Trimmed(a) /\ AllOf("text", a) /\ AllOf("thinking", t)
    BY <1>4 DEF Tidy
  <2>6. \A b \in Members(ls) : \E kind : AllOf(kind, b)
    BY <2>2, <2>5 DEF Tidy, ls
  <2>7. Tidy(o)
    BY <2>4, <2>5, <2>6, NothingWritten DEF Tidy
  <2>8. Held(o) = Held(out)
    <3> DEFINE f == Seen(FlattenSeq(bs))
               w == Seen(t)
    <3>1. Seen(a) = <<>> /\ f \in Seq(DOMAIN pieces) /\ w \in Seq(DOMAIN pieces)
      BY <1>1, <2>2, <2>5, SeenTyped
    <3>2. Held(o) = (f \o w) \o (<<>> \o <<>>) /\ Held(out) = f \o (<<>> \o w)
      BY <2>2, <2>4, <3>1, NothingWritten DEF Held, ls
    <3> HIDE DEF f, w
    <3>3. <<>> \o <<>> = <<>> /\ <<>> \o w = w
      BY <3>1, ConcatEmptySeq
    <3>4. f \o w \in Seq(DOMAIN pieces)
      BY <3>1, ConcatProperties
    <3>5. (f \o w) \o <<>> = f \o w
      BY <3>4, ConcatEmptySeq
    <3> QED
      BY <3>2, <3>3, <3>5
  <2> QED
    BY <2>4, <2>7, <2>8 DEF o
<1> QED
  BY <1>1, <1>2, <1>3, <1>4

\* What one event adds.
More(out, i, o) ==
    Tidy(o) /\ Held(o) = IF i \in Blanks THEN Held(out) ELSE Append(Held(out), i)

LEMMA SaidMore ==
    ASSUME NEW out, Tidy(out), NEW i \in DOMAIN pieces, Kind(i) = "text"
    PROVE  More(out, i, Said(out, i))
<1> DEFINE m == LeaveThinking(out)
           bs == m.blocks
           a == m.assistant
           t == m.thinking
           o == Said(out, i)
<1>1. o = [m EXCEPT !.assistant = Append(a, i)]
  BY DEF Said
<1>2. Tidy(m) /\ Held(m) = Held(out) /\ ~m.inThinking
  BY ThinkingLeft
<1> HIDE DEF m
<1>3. /\ m \in Outputs /\ bs \in Seq(Seq(DOMAIN pieces)) /\ a \in Seq(DOMAIN pieces)
      /\ t \in Seq(DOMAIN pieces)
  BY <1>2 DEF Tidy, Outputs
<1> DEFINE u == Append(a, i)
<1>4. /\ u \in Seq(DOMAIN pieces) /\ Members(u) = Members(a) \cup {i}
      /\ Seen(u) = IF i \in Blanks THEN Seen(a) ELSE Append(Seen(a), i)
  <2>1. u \in Seq(DOMAIN pieces) /\ Members(u) = Members(a) \cup {i}
    BY <1>3, MembersAppend
  <2>2. Seen(u) = IF i \in Blanks THEN Seen(a) ELSE Append(Seen(a), i)
    BY <1>3, SeenMore
  <2> QED
    BY <2>1, <2>2
<1> HIDE DEF u
<1>5. /\ o.blocks = bs /\ o.assistant = u /\ o.thinking = t /\ ~o.inThinking
      /\ o \in Outputs
  BY <1>1, <1>2, <1>3, <1>4 DEF Outputs, u
<1> HIDE DEF o
<1>6. AllOf("text", u)
  BY <1>2, <1>4 DEF Tidy, AllOf
<1>7. Tidy(o)
  BY <1>2, <1>5, <1>6 DEF Tidy
<1> DEFINE f == Seen(FlattenSeq(bs))
           w == Seen(a)
<1>8. Seen(t) = <<>> /\ f \in Seq(DOMAIN pieces) /\ w \in Seq(DOMAIN pieces)
  BY <1>2, <1>3, SeenTyped, Flushed DEF Tidy
<1>9. /\ Held(m) = f \o (w \o <<>>)
      /\ Held(o) = f \o ((IF i \in Blanks THEN w ELSE Append(w, i)) \o <<>>)
  BY <1>4, <1>5, <1>8 DEF Held
<1> HIDE DEF f, w
<1>10. /\ w \o <<>> = w /\ Append(w, i) \in Seq(DOMAIN pieces)
       /\ Append(w, i) \o <<>> = Append(w, i) /\ f \o Append(w, i) = Append(f \o w, i)
  BY <1>8, ConcatEmptySeq, ConcatAppend
<1> QED
  BY <1>2, <1>7, <1>9, <1>10 DEF More, o

LEMMA ThoughtMore ==
    ASSUME NEW out, Tidy(out), NEW i \in DOMAIN pieces, Kind(i) = "thinking"
    PROVE  More(out, i, Thought(out, i))
<1> DEFINE m == flushAssistant(out)
           bs == m.blocks
           a == m.assistant
           t == m.thinking
           o == Thought(out, i)
<1>1. o = [m EXCEPT !.inThinking = TRUE, !.thinking = Append(t, i)]
  BY DEF Thought
<1>2. Tidy(m) /\ Held(m) = Held(out) /\ Trimmed(a)
  BY AssistantFlushed
<1> HIDE DEF m
<1>3. /\ m \in Outputs /\ bs \in Seq(Seq(DOMAIN pieces)) /\ a \in Seq(DOMAIN pieces)
      /\ t \in Seq(DOMAIN pieces)
  BY <1>2 DEF Tidy, Outputs
<1> DEFINE u == Append(t, i)
<1>4. /\ u \in Seq(DOMAIN pieces) /\ Members(u) = Members(t) \cup {i}
      /\ Seen(u) = IF i \in Blanks THEN Seen(t) ELSE Append(Seen(t), i)
  <2>1. u \in Seq(DOMAIN pieces) /\ Members(u) = Members(t) \cup {i}
    BY <1>3, MembersAppend
  <2>2. Seen(u) = IF i \in Blanks THEN Seen(t) ELSE Append(Seen(t), i)
    BY <1>3, SeenMore
  <2> QED
    BY <2>1, <2>2
<1> HIDE DEF u
<1>5. /\ o.blocks = bs /\ o.assistant = a /\ o.thinking = u /\ o.inThinking
      /\ o \in Outputs
  BY <1>1, <1>2, <1>3, <1>4 DEF Outputs, u
<1> HIDE DEF o
<1>6. AllOf("thinking", u)
  BY <1>2, <1>4 DEF Tidy, AllOf
<1>7. Tidy(o)
  BY <1>2, <1>5, <1>6 DEF Tidy
<1> DEFINE f == Seen(FlattenSeq(bs))
           w == Seen(t)
<1>8. Seen(a) = <<>> /\ f \in Seq(DOMAIN pieces) /\ w \in Seq(DOMAIN pieces)
  BY <1>2, <1>3, SeenTyped, Flushed
<1>9. /\ Held(m) = f \o (<<>> \o w)
      /\ Held(o) = f \o (<<>> \o (IF i \in Blanks THEN w ELSE Append(w, i)))
  BY <1>4, <1>5, <1>8 DEF Held
<1> HIDE DEF f, w
<1>10. /\ <<>> \o w = w /\ Append(w, i) \in Seq(DOMAIN pieces)
       /\ <<>> \o Append(w, i) = Append(w, i) /\ f \o Append(w, i) = Append(f \o w, i)
  BY <1>8, ConcatEmptySeq, ConcatAppend
<1> QED
  BY <1>2, <1>7, <1>9, <1>10 DEF More, o

LEMMA RemarkedMore ==
    ASSUME NEW out, Tidy(out), NEW i \in DOMAIN pieces
    PROVE  More(out, i, Remarked(out, i))
<1> DEFINE m == LeaveThinking(flushAssistant(out))
           bs == m.blocks
           o == Remarked(out, i)
<1>1. o = [m EXCEPT !.blocks = Append(bs, <<i>>)]
  BY DEF Remarked
<1>2. Tidy(m) /\ Held(m) = Held(out) /\ ~m.inThinking /\ Trimmed(m.assistant)
  BY AssistantFlushed, ThinkingLeft
<1> HIDE DEF m
<1>3. /\ m \in Outputs /\ bs \in Seq(Seq(DOMAIN pieces)) /\ m.assistant \in Seq(DOMAIN pieces)
      /\ m.thinking \in Seq(DOMAIN pieces) /\ <<i>> \in Seq(DOMAIN pieces)
  BY <1>2 DEF Tidy, Outputs
<1> DEFINE ls == Append(bs, <<i>>)
<1>4. /\ ls \in Seq(Seq(DOMAIN pieces)) /\ Members(ls) = Members(bs) \cup {<<i>>}
      /\ Seen(FlattenSeq(ls)) = Seen(FlattenSeq(bs)) \o Seen(<<i>>)
  BY <1>3, Flushed
<1> HIDE DEF ls
<1>5. /\ o.blocks = ls /\ o.assistant = m.assistant /\ o.thinking = m.thinking /\ ~o.inThinking
      /\ o \in Outputs
  BY <1>1, <1>2, <1>3, <1>4 DEF Outputs, ls
<1> HIDE DEF o
<1>6. AllOf(Kind(i), <<i>>)
  BY DEF AllOf, Members
<1>7. Tidy(o)
  BY <1>2, <1>4, <1>5, <1>6 DEF Tidy
<1> DEFINE f == Seen(FlattenSeq(bs))
<1>8. /\ Seen(m.assistant) = <<>> /\ Seen(m.thinking) = <<>> /\ f \in Seq(DOMAIN pieces)
  BY <1>2, <1>3, SeenTyped, Flushed DEF Tidy
<1>9. Seen(<<i>>) = IF i \in Blanks THEN <<>> ELSE <<i>>
  <2>1. Append(<<>>, i) = <<i>>
    OBVIOUS
  <2>2. Append(<<>>, i) = <<i>> /\ Seen(Append(<<>>, i)) = IF i \in Blanks THEN <<>> ELSE Append(<<>>, i)
    BY <2>1, NothingWritten, SeenMore
  <2> QED
    BY <2>2
<1>10. Held(m) = f \o (<<>> \o <<>>) /\ Held(o) = (f \o Seen(<<i>>)) \o (<<>> \o <<>>)
  BY <1>4, <1>5, <1>8 DEF Held
<1> HIDE DEF f
<1>11. /\ <<>> \o <<>> = <<>> /\ f \o <<>> = f /\ f \o <<i>> = Append(f, i)
       /\ f \o <<i>> \in Seq(DOMAIN pieces)
  BY <1>3, <1>8, ConcatEmptySeq, AppendIsConcat, ConcatProperties
<1>12. (f \o <<i>>) \o <<>> = f \o <<i>>
  BY <1>11, ConcatEmptySeq
<1> QED
  BY <1>2, <1>7, <1>9, <1>10, <1>11, <1>12 DEF More, o

LEMMA PieceMore ==
    ASSUME NEW out, Tidy(out), NEW i \in DOMAIN pieces
    PROVE  More(out, i, Piece(out, i))
<1>1. CASE pieces[i].what \in Text
  <2>1. pieces[i].what \notin Thinking
    BY <1>1 DEF Text, Thinking
  <2>2. Kind(i) = "text" /\ Piece(out, i) = Said(out, i)
    BY <1>1, <2>1 DEF Kind, Piece
  <2> QED
    BY <2>2, SaidMore
<1>2. CASE pieces[i].what \notin Text /\ pieces[i].what \in Thinking
  <2>1. Kind(i) = "thinking" /\ Piece(out, i) = Thought(out, i)
    BY <1>2 DEF Kind, Piece
  <2> QED
    BY <2>1, ThoughtMore
<1>3. CASE pieces[i].what \notin Text /\ pieces[i].what \notin Thinking
  <2>1. Piece(out, i) = Remarked(out, i)
    BY <1>3 DEF Piece
  <2> QED
    BY <2>1, RemarkedMore
<1> QED
  BY <1>1, <1>2, <1>3

\* The recursion over the events is well defined.
Step(g, m, c) == IF m = 0 THEN Empty ELSE Piece(g[m - 1], c[m])
Builds(g, n, c) == g = [m \in 0..n |-> Step(g, m, c)]

LEMMA BuildsExist ==
    ASSUME NEW c, NEW n \in Nat
    PROVE  \E g : Builds(g, n, c)
<1> DEFINE T == {m \in Nat : ~\E g : Builds(g, m, c)}
<1>1. SUFFICES ASSUME T # {} PROVE FALSE
  OBVIOUS
<1>2. PICK m \in T : \A k \in T : m <= k
  BY <1>1, Least
<1>3. m \in Nat /\ ~\E g : Builds(g, m, c)
  BY <1>2
<1>4. m # 0
  <2>1. Builds([k \in 0..0 |-> Empty], 0, c)
    BY DEF Builds, Step
  <2> QED
    BY <2>1, <1>3
<1>5. PICK g : Builds(g, m - 1, c)
  <2>1. m - 1 \in Nat /\ m - 1 \notin T
    BY <1>2, <1>3, <1>4
  <2> QED
    BY <2>1
<1> DEFINE h == [k \in 0..m |-> IF k = m THEN Step(g, m, c) ELSE g[k]]
<1>6. ASSUME NEW k \in 0..m PROVE h[k] = Step(h, k, c)
  <2>1. CASE k = m
    <3>1. h[k - 1] = g[k - 1]
      BY <1>3, <1>4, <2>1
    <3> QED
      BY <2>1, <3>1 DEF Step
  <2>2. CASE k # m
    <3>1. k \in 0..(m - 1)
      BY <2>2, <1>3
    <3>2. g[k] = Step(g, k, c)
      BY <3>1, <1>5 DEF Builds
    <3>3. k # 0 => h[k - 1] = g[k - 1]
      BY <3>1, <1>3
    <3> QED
      BY <3>1, <3>2, <3>3, <2>2 DEF Step
  <2> QED
    BY <2>1, <2>2
<1>7. Builds(h, m, c)
  <2> HIDE DEF Step
  <2> QED
    BY <1>6 DEF Builds
<1> QED
  BY <1>3, <1>7

\* After n events, what was put together holds these n.
LEMMA BuildHolds ==
    ASSUME NEW c \in Seq(DOMAIN pieces), NEW g, Builds(g, Len(c), c)
    PROVE  Tidy(g[Len(c)]) /\ Held(g[Len(c)]) = Seen(c)
<1> DEFINE to(n) == SubSeq(c, 1, n)
           Holds(n) == Tidy(g[n]) /\ Held(g[n]) = Seen(to(n))
           T == {n \in 0..Len(c) : ~Holds(n)}
<1>1. \A n \in 0..Len(c) : g[n] = Step(g, n, c)
  BY DEF Builds
<1>2. T = {}
  <2> SUFFICES ASSUME T # {} PROVE FALSE
    OBVIOUS
  <2>1. T \in SUBSET Nat
    OBVIOUS
  <2>2. PICK n \in T : \A k \in T : n <= k
    BY <2>1, Least
  <2>3. n \in 0..Len(c) /\ ~Holds(n)
    BY <2>2
  <2>4. n # 0
    <3>1. to(0) = <<>> /\ g[0] = Empty
      BY <1>1, SubSeqEmpty DEF Step
    <3> HIDE DEF to
    <3>2. Tidy(Empty)
      BY NothingWritten DEF Tidy, Outputs, Empty
    <3>3. Held(Empty) = <<>>
      <4>1. FlattenSeq(<<>>) = <<>>
        BY DEF FlattenSeq
      <4>2. <<>> \o (<<>> \o <<>>) = <<>>
        BY NothingWritten, ConcatEmptySeq
      <4> QED
        BY <4>1, <4>2, NothingWritten DEF Held, Empty
    <3>4. Holds(0)
      BY <3>1, <3>2, <3>3, NothingWritten
    <3> QED
      BY <2>3, <3>4
  <2>5. n - 1 \in 0..Len(c) /\ Holds(n - 1)
    <3>1. n - 1 \in 0..Len(c) /\ ~(n <= n - 1)
      BY <2>3, <2>4
    <3> QED
      BY <2>2, <3>1
  <2>6. to(n - 1) \in Seq(DOMAIN pieces) /\ c[n] \in DOMAIN pieces
    <3>1. \A i \in 1..(n - 1) : c[i] \in DOMAIN pieces
      BY <2>3
    <3> QED
      BY <2>3, <2>4, <3>1, SubSeqProperties
  <2>7. to(n) = Append(to(n - 1), c[n])
    <3>1. 1 \in 1..Len(c) /\ n \in 1..Len(c)
      BY <2>3, <2>4
    <3>2. to(n) = to(n - 1) \o <<c[n]>>
      BY <3>1, SubSeqRecursiveSecond
    <3> HIDE DEF to
    <3> QED
      BY <2>6, <3>2, AppendIsConcat
  <2>8. g[n] = Piece(g[n - 1], c[n])
    BY <1>1, <2>3, <2>4 DEF Step
  <2>9. More(g[n - 1], c[n], g[n])
    BY <2>5, <2>6, <2>8, PieceMore
  <2>10. Seen(to(n)) = IF c[n] \in Blanks THEN Seen(to(n - 1)) ELSE Append(Seen(to(n - 1)), c[n])
    <3> HIDE DEF to
    <3> QED
      BY <2>6, <2>7, SeenMore
  <2>11. Holds(n)
    <3> HIDE DEF to
    <3> QED
      BY <2>5, <2>9, <2>10 DEF More
  <2> QED
    BY <2>3, <2>11
<1>3. Holds(Len(c))
  <2>1. Len(c) \in 0..Len(c)
    OBVIOUS
  <2> QED
    BY <1>2, <2>1
<1>4. to(Len(c)) = c
  BY SubSeqFull
<1> QED
  BY <1>3, <1>4

\* Both buffers are flushed at the end.
LEMMA MarkdownHolds ==
    ASSUME pieces \in Seq([node: Agents, what: Whats]), NEW agent
    PROVE  /\ Chosen(agent) \in Seq(DOMAIN pieces)
           /\ Seen(FlattenSeq(markdown(agent))) = Seen(Chosen(agent))
           /\ \A b \in Members(markdown(agent)) : \E kind : AllOf(kind, b)
<1> DEFINE c == Chosen(agent)
<1>1. c \in Seq(DOMAIN pieces)
  <2>1. [i \in DOMAIN pieces |-> i] \in Seq(DOMAIN pieces)
    BY IsASeq
  <2> QED
    BY <2>1, WithoutMembers DEF Chosen
<1>2. PICK g : Builds(g, Len(c), c) /\ markdown(agent) = LeaveThinking(flushAssistant(g[Len(c)])).blocks
  <2>1. \E g : Builds(g, Len(c), c)
    <3>1. Len(c) \in Nat
      BY <1>1
    <3> HIDE DEF c
    <3> QED
      BY <3>1, BuildsExist
  <2> DEFINE h == CHOOSE g : Builds(g, Len(c), c)
  <2>2. markdown(agent) = LeaveThinking(flushAssistant(h[Len(c)])).blocks
    BY DEF markdown, Builds, Step
  <2> QED
    BY <2>1, <2>2
<1> HIDE DEF c
<1> DEFINE out == g[Len(c)]
           o == LeaveThinking(flushAssistant(out))
<1>3. Tidy(out) /\ Held(out) = Seen(c)
  BY <1>1, <1>2, BuildHolds
<1> HIDE DEF out
<1>4. Tidy(o) /\ Held(o) = Seen(c) /\ Trimmed(o.assistant) /\ ~o.inThinking
  BY <1>3, AssistantFlushed, ThinkingLeft
<1>5. markdown(agent) = o.blocks
  BY <1>2 DEF out
<1> HIDE DEF o
<1>6. /\ o.assistant \in Seq(DOMAIN pieces) /\ o.thinking \in Seq(DOMAIN pieces)
      /\ o.blocks \in Seq(Seq(DOMAIN pieces)) /\ Trimmed(o.thinking)
  BY <1>4 DEF Tidy, Outputs
<1> DEFINE f == Seen(FlattenSeq(o.blocks))
<1>7. Seen(o.assistant) = <<>> /\ Seen(o.thinking) = <<>> /\ f \in Seq(DOMAIN pieces)
  BY <1>4, <1>6, SeenTyped, Flushed, NothingWritten
<1>8. Held(o) = f \o (<<>> \o <<>>)
  BY <1>7 DEF Held
<1> HIDE DEF f
<1>9. f \o (<<>> \o <<>>) = f
  BY <1>7, ConcatEmptySeq
<1> QED
  BY <1>1, <1>4, <1>5, <1>8, <1>9 DEF Tidy, c, f

\* The agent tab, for every run and every agent: all that was written is shown
\* once and in its order, and no block mixes text, thinking and notes.
THEOREM AllInOrderHolds == OInit /\ [][ONext]_pieces => []AllInOrder
<1> DEFINE Arrived == pieces \in Seq([node: Agents, what: Whats])
<1>1. OInit => Arrived
  BY DEF OInit
<1>2. Arrived /\ [ONext]_pieces => Arrived'
  <2> SUFFICES ASSUME Arrived, ONext PROVE Arrived'
    OBVIOUS
  <2>1. PICK agent \in Agents, what \in Whats : Arrives(agent, what)
    BY DEF ONext
  <2>2. [node |-> agent, what |-> what] \in [node: Agents, what: Whats]
    BY <2>1
  <2> QED
    BY <2>1, <2>2, MembersAppend DEF Arrives
<1>3. Arrived => AllInOrder
  <2> SUFFICES ASSUME Arrived, NEW agent \in Agents \cup {AllAgents}
               PROVE  /\ Without(FlattenSeq(markdown(agent)), Blanks) = Without(Chosen(agent), Blanks)
                      /\ \A b \in Members(markdown(agent)) : \A i, j \in Members(b) : Kind(i) = Kind(j)
    BY DEF AllInOrder
  <2>1. /\ Seen(FlattenSeq(markdown(agent))) = Seen(Chosen(agent))
        /\ \A b \in Members(markdown(agent)) : \E kind : AllOf(kind, b)
    BY MarkdownHolds
  <2> QED
    BY <2>1 DEF Seen, AllOf
<1> QED
  BY <1>1, <1>2, <1>3, PTL
=============================================================================
