------------------------- MODULE EditorPage_proofs -------------------------
(***************************************************************************)
(* Proofs about EditorPage: a workflow is saved with its own plan only and *)
(* the page and the server never come apart for good.                      *)
(*                                                                         *)
(* While the page loads, one request of its load is in flight and no       *)
(* autosave is armed.  From the last answer on the plan of the store is    *)
(* the workflow's own, unless the page was marked, and so is every plan    *)
(* that is on its way to the server or back.  An autosave that is armed    *)
(* holds what the page shows; once it is sent, its write is the last of    *)
(* the page's plan, and the server handles it after all the others.        *)
(***************************************************************************)
EXTENDS EditorPage, Filters, TLAPS

Loads == {"load", "runs"}
Live(c) == c.op \in Loads /\ c.live
Up == page.at \in {"shown", "error"}

\* A plan of no other workflow, unless the page of w has held something of another.
Owned(dag, w) == w \in stray \/ dag[1] \in {w, NoWorkflow}

Typed ==
    /\ db \in [Workflows -> Row] /\ store \in Row
    /\ page \in [wf: Workflows \cup {NoWorkflow}, at: {"away", "loading", "shown", "error"}]
    /\ page.at # "away" => page.wf \in Workflows
    /\ current \in Workflows \cup {NoWorkflow}
    /\ page.at = "shown" => current \in Workflows
    /\ timer \in {<<>>} \cup {<<d>> : d \in Plans}
    /\ calls \in Seq(Call) /\ made \in 1 .. MaxMade
    /\ stray \subseteq Workflows

\* A request: the page waits for it, if it loads; its plan is its workflow's, if it
\* is to be saved or was read.
Fine(c) ==
    /\ Live(c) => page.at = "loading" /\ c.wf = page.wf
    /\ Live(c) /\ c.op = "runs" => current \in Workflows /\ Owned(store.dag, page.wf)
    /\ c.op \in PlanWrites \/ (c.op \in Reads /\ c.st = "ok") => Owned(c.row.dag, c.wf)
AllFine == \A c \in Members(calls) : Fine(c)
OneLive == \A i, j \in DOMAIN calls : Live(calls[i]) /\ Live(calls[j]) => i = j

Armament == timer = <<>> \/ (Up /\ timer = <<store.dag>>)
OwnPlans ==
    /\ page.at = "error" => page.wf \in stray
    /\ Up => Owned(store.dag, page.wf)
    /\ \A w \in Workflows : Owned(db[w].dag, w)

PageInv == Typed /\ AllFine /\ OneLive /\ Armament /\ OwnPlans

-----------------------------------------------------------------------------
(* The requests.                                                           *)

\* A request that is sent.
LEMMA AskTyped ==
    ASSUME NEW op \in Reads \cup Writes, NEW w \in Workflows, NEW row \in Row
    PROVE  /\ Ask(op, w, row) \in Call /\ Ask(op, w, row).op = op /\ Ask(op, w, row).wf = w
           /\ Ask(op, w, row).row = row /\ Ask(op, w, row).st = "sent" /\ Ask(op, w, row).live
BY DEF Ask, Call

\* The fields of a request.
LEMMA CallFields ==
    ASSUME NEW c \in Call
    PROVE  /\ c.op \in Reads \cup Writes /\ c.wf \in Workflows /\ c.row \in Row
           /\ c.live \in BOOLEAN /\ c.st \in {"sent", "ok", "failed"}
BY DEF Call

\* The requests in flight.
LEMMA InFlight ==
    ASSUME PageInv, NEW i \in DOMAIN calls
    PROVE  calls[i] \in Call /\ calls[i] \in Members(calls) /\ Fine(calls[i])
BY DEF PageInv, Typed, AllFine, Members

\* Requests before, and one that is new, or another one now.
Takes(c) == calls' \in Seq(Call) /\ Members(calls') \subseteq Members(calls) \cup {c}

\* One more request is sent: a load, if there is none.
LEMMA AppendTakes ==
    ASSUME calls \in Seq(Call), NEW c \in Call, calls' = Append(calls, c), OneLive,
           Live(c) => \A k \in DOMAIN calls : ~Live(calls[k])
    PROVE  Takes(c) /\ OneLive'
<1> DEFINE u == Append(calls, c)
<1>1. u \in Seq(Call) /\ Members(u) = Members(calls) \cup {c}
  BY MembersAppend
<1>2. /\ DOMAIN u = 1 .. (Len(calls) + 1) /\ Len(calls) \in Nat /\ DOMAIN calls = 1 .. Len(calls)
      /\ u[Len(calls) + 1] = c /\ \A k \in DOMAIN calls : u[k] = calls[k]
  OBVIOUS
<1>3. calls' = u
  OBVIOUS
<1> HIDE DEF u
<1>4. \A k \in DOMAIN u : k \in DOMAIN calls \/ k = Len(calls) + 1
  BY <1>2
<1>5. \A k, l \in DOMAIN u : Live(u[k]) /\ Live(u[l]) => k = l
  BY <1>2, <1>4 DEF OneLive
<1> QED BY <1>1, <1>3, <1>5 DEF Takes, OneLive

\* A request is answered.
LEMMA ReplaceTakes ==
    ASSUME calls \in Seq(Call), NEW i \in DOMAIN calls, NEW c \in Call,
           calls' = [calls EXCEPT ![i] = c], OneLive, Live(c) => Live(calls[i])
    PROVE  Takes(c) /\ OneLive'
<1>1. /\ calls' \in Seq(Call) /\ DOMAIN calls' = DOMAIN calls /\ calls'[i] = c
      /\ \A k \in DOMAIN calls : k # i => calls'[k] = calls[k]
  OBVIOUS
<1>2. \A k \in DOMAIN calls' : calls'[k] \in Members(calls) \cup {c}
  BY <1>1 DEF Members
<1>3. Members(calls') \subseteq Members(calls) \cup {c}
  BY <1>2 DEF Members
<1>4. OneLive'
  BY <1>1 DEF OneLive
<1> QED BY <1>1, <1>3, <1>4 DEF Takes

\* Where the k-th was before the i-th was removed.
Before(i, k) == IF k < i THEN k ELSE k + 1

\* A sequence without its i-th.
LEMMA Removed ==
    ASSUME NEW D, NEW s \in Seq(D), NEW i \in DOMAIN s, NEW t, t = RemoveAt(s, i)
    PROVE  /\ t \in Seq(D) /\ DOMAIN t = 1 .. (Len(s) - 1)
           /\ \A k \in DOMAIN t :
                 Before(i, k) \in DOMAIN s /\ Before(i, k) # i /\ t[k] = s[Before(i, k)]
<1> DEFINE a == SubSeq(s, 1, i - 1)
           b == SubSeq(s, i + 1, Len(s))
           u == a \o b
<1>1. /\ Len(s) \in Nat /\ DOMAIN s = 1 .. Len(s) /\ i \in 1 .. Len(s)
  OBVIOUS
<1>2. a \in Seq(D) /\ Len(a) = i - 1 /\ \A k \in 1 .. (i - 1) : a[k] = s[k]
  BY <1>1
<1>3. b \in Seq(D) /\ Len(b) = Len(s) - i
      /\ \A k \in 1 .. (Len(s) - i) : b[k] = s[i + k]
  BY <1>1
<1> HIDE DEF a, b
<1>4. u \in Seq(D) /\ Len(u) = Len(s) - 1 /\ DOMAIN u = 1 .. (Len(s) - 1)
  <2>1. u \in Seq(D) /\ Len(u) = Len(a) + Len(b)
    BY <1>2, <1>3, ConcatProperties
  <2> HIDE DEF u
  <2>2. Len(u) = Len(s) - 1
    BY <1>1, <1>2, <1>3, <2>1
  <2>3. DOMAIN u = 1 .. Len(u)
    BY <2>1
  <2> QED BY <2>1, <2>2, <2>3
<1>5. ASSUME NEW k \in DOMAIN u
      PROVE  u[k] = s[Before(i, k)] /\ Before(i, k) \in DOMAIN s /\ Before(i, k) # i
  <2>1. k \in 1 .. (Len(s) - 1)
    BY <1>4
  <2>2. CASE k < i
    <3>1. u[k] = a[k] /\ k \in 1 .. (i - 1)
      BY <1>1, <1>2, <1>3, <2>1, <2>2
    <3> QED BY <1>1, <1>2, <2>1, <2>2, <3>1 DEF Before
  <2>3. CASE ~(k < i)
    <3>1. u[k] = b[k - (i - 1)] /\ k - (i - 1) \in 1 .. (Len(s) - i)
      BY <1>1, <1>2, <1>3, <2>1, <2>3
    <3>2. i + (k - (i - 1)) = k + 1
      BY <1>1, <2>1
    <3> QED BY <1>1, <1>3, <2>1, <2>3, <3>1, <3>2 DEF Before
  <2> QED BY <2>2, <2>3
<1>6. t = u
  BY DEF RemoveAt, a, b
<1> HIDE DEF u
<1> QED BY <1>4, <1>5, <1>6

\* Without one of the requests there is still one load at most.
LEMMA RemovedLoads ==
    ASSUME calls \in Seq(Call), NEW i \in DOMAIN calls, OneLive, NEW u, u = RemoveAt(calls, i)
    PROVE  /\ u \in Seq(Call) /\ Members(u) \subseteq Members(calls)
           /\ \A k, l \in DOMAIN u : Live(u[k]) /\ Live(u[l]) => k = l
           /\ Live(calls[i]) => \A k \in DOMAIN u : ~Live(u[k])
<1>1. /\ u \in Seq(Call) /\ DOMAIN u = 1 .. (Len(calls) - 1)
      /\ \A k \in DOMAIN u :
            Before(i, k) \in DOMAIN calls /\ Before(i, k) # i /\ u[k] = calls[Before(i, k)]
  BY Removed
<1>2. ASSUME NEW k \in DOMAIN u, NEW l \in DOMAIN u, Before(i, k) = Before(i, l)
      PROVE  k = l
  <2>1. k \in Int /\ l \in Int /\ i \in Int
    BY <1>1
  <2> QED BY <1>2, <2>1 DEF Before
<1>3. \A k, l \in DOMAIN u : Live(u[k]) /\ Live(u[l]) => k = l
  BY <1>1, <1>2 DEF OneLive
<1>4. Live(calls[i]) => \A k \in DOMAIN u : ~Live(u[k])
  BY <1>1 DEF OneLive
<1>5. Members(u) \subseteq Members(calls)
  BY <1>1 DEF Members
<1> QED BY <1>1, <1>3, <1>4, <1>5

\* A request is handled.
LEMMA RemoveTakes ==
    ASSUME calls \in Seq(Call), NEW i \in DOMAIN calls, calls' = RemoveAt(calls, i), OneLive
    PROVE  /\ calls' \in Seq(Call) /\ Members(calls') \subseteq Members(calls) /\ OneLive'
           /\ Live(calls[i]) => \A c \in Members(calls') : ~Live(c)
<1> DEFINE u == RemoveAt(calls, i)
<1>1. /\ u \in Seq(Call) /\ Members(u) \subseteq Members(calls)
      /\ \A k, l \in DOMAIN u : Live(u[k]) /\ Live(u[l]) => k = l
      /\ Live(calls[i]) => \A k \in DOMAIN u : ~Live(u[k])
  BY RemovedLoads
<1>2. calls' = u
  OBVIOUS
<1> HIDE DEF u
<1> QED BY <1>1, <1>2 DEF OneLive, Members

\* A request is handled and another one follows it.
LEMMA GoesOnTakes ==
    ASSUME calls \in Seq(Call), NEW i \in DOMAIN calls, NEW c \in Call, OneLive,
           calls' = Append(RemoveAt(calls, i), c), Live(c) => Live(calls[i])
    PROVE  Takes(c) /\ OneLive'
<1> DEFINE u == RemoveAt(calls, i)
           v == Append(u, c)
<1>1. /\ u \in Seq(Call) /\ Members(u) \subseteq Members(calls)
      /\ \A k, l \in DOMAIN u : Live(u[k]) /\ Live(u[l]) => k = l
      /\ Live(calls[i]) => \A k \in DOMAIN u : ~Live(u[k])
  BY RemovedLoads
<1> HIDE DEF u
<1>2. v \in Seq(Call) /\ Members(v) = Members(u) \cup {c}
  BY <1>1, MembersAppend
<1>3. /\ DOMAIN v = 1 .. (Len(u) + 1) /\ Len(u) \in Nat /\ DOMAIN u = 1 .. Len(u)
      /\ v[Len(u) + 1] = c /\ \A k \in DOMAIN u : v[k] = u[k]
  BY <1>1
<1>4. calls' = v
  BY DEF u
<1> HIDE DEF v
<1>5. \A k \in DOMAIN v : k \in DOMAIN u \/ k = Len(u) + 1
  BY <1>3
<1>6. \A k, l \in DOMAIN v : Live(v[k]) /\ Live(v[l]) => k = l
  BY <1>1, <1>3, <1>5
<1> QED BY <1>1, <1>2, <1>4, <1>6 DEF Takes, OneLive

-----------------------------------------------------------------------------
(* The steps.                                                              *)

\* A directory, or none.
Dirs == {"", "p"}

\* Rows that the page and the requests are made of.
LEMMA RowsTyped ==
    ASSUME MaxMade \in Nat \ {0}
    PROVE  /\ Blank \in Row /\ Blank.dag = Empty /\ [Blank EXCEPT !.name = Untitled] \in Row
           /\ \A w \in Workflows : Planned(w) \in Row /\ Planned(w).dag = <<w, 1>>
           /\ \A dag \in Plans, row \in Row :
                [row EXCEPT !.dag = dag] \in Row /\ [row EXCEPT !.dag = dag].dag = dag
           /\ \A n \in 0 .. MaxMade, row \in Row :
                /\ [row EXCEPT !.name = n] \in Row /\ [row EXCEPT !.name = n].dag = row.dag
                /\ [row EXCEPT !.goal = n] \in Row /\ [row EXCEPT !.goal = n].dag = row.dag
           /\ \A d \in Dirs, row \in Row :
                [row EXCEPT !.dir = d] \in Row /\ [row EXCEPT !.dir = d].dag = row.dag
<1>1. 0 \in 0 .. MaxMade /\ 1 \in 0 .. MaxMade /\ 1 \in 1 .. MaxMade
  OBVIOUS
<1>2. Empty \in Plans /\ \A w \in Workflows : <<w, 1>> \in Plans
  BY <1>1 DEF Plans, Empty
<1>3. Blank \in Row /\ Blank.dag = Empty
  BY <1>1, <1>2 DEF Blank, Row
<1> HIDE DEF Empty
<1>4. \A dag \in Plans, row \in Row :
        [row EXCEPT !.dag = dag] \in Row /\ [row EXCEPT !.dag = dag].dag = dag
  BY DEF Row
<1>5. \A n \in 0 .. MaxMade, row \in Row :
        /\ [row EXCEPT !.name = n] \in Row /\ [row EXCEPT !.name = n].dag = row.dag
        /\ [row EXCEPT !.goal = n] \in Row /\ [row EXCEPT !.goal = n].dag = row.dag
  BY DEF Row
<1>6. \A d \in Dirs, row \in Row :
        [row EXCEPT !.dir = d] \in Row /\ [row EXCEPT !.dir = d].dag = row.dag
  BY DEF Row, Dirs
<1>7. \A w \in Workflows : Planned(w) \in Row /\ Planned(w).dag = <<w, 1>>
  <2> TAKE w \in Workflows
  <2> DEFINE d == <<w, 1>>
  <2>1. d \in Plans
    BY <1>2
  <2> HIDE DEF d
  <2>2. [Blank EXCEPT !.dag = d, !.dir = "p", !.phase = "planning"] \in Row
        /\ [Blank EXCEPT !.dag = d, !.dir = "p", !.phase = "planning"].dag = d
    BY <1>3, <2>1 DEF Row
  <2> QED BY <2>2 DEF Planned, d
<1>8. [Blank EXCEPT !.name = Untitled] \in Row
  BY <1>1, <1>3, <1>5 DEF Untitled
<1> QED BY <1>3, <1>4, <1>5, <1>6, <1>7, <1>8

\* A request stays fine while the page's load goes on and no mark is lost.
LEMMA FineStays ==
    ASSUME NEW c, Fine(c), stray \subseteq stray',
           Live(c) => page' = page,
           Live(c) /\ c.op = "runs" => current' \in Workflows /\ Owned(store.dag, page.wf)'
    PROVE  Fine(c)'
BY DEF Fine, Owned, Live, Loads, PlanWrites

\* The page's own requests are sent when nothing is being loaded.
LEMMA NoLiveUp ==
    ASSUME PageInv, Up
    PROVE  \A c \in Members(calls) : ~Live(c)
BY DEF PageInv, AllFine, Fine, Up

\* The user or the page changes the store and perhaps sends a request: the plan of
\* the page stays its own, and the autosave is armed with it or was sent with it.
LEMMA UpInv ==
    ASSUME PageInv, Up, UNCHANGED <<page, current, stray>>,
           store' \in Row, Owned(store'.dag, page.wf),
           timer' \in {<<>>} \cup {<<d>> : d \in Plans},
           timer' = <<>> \/ timer' = <<store'.dag>>,
           made' \in 1 .. MaxMade,
           db' \in [Workflows -> Row], \A w \in Workflows : Owned(db'[w].dag, w),
           \/ calls' = calls
           \/ \E op \in (Reads \cup Writes) \ Loads, w \in Workflows, row \in Row :
                 /\ calls' = Append(calls, Ask(op, w, row))
                 /\ op \in PlanWrites => Owned(row.dag, w)
    PROVE  PageInv'
<1>1. calls \in Seq(Call) /\ OneLive /\ \A c \in Members(calls) : Fine(c) /\ ~Live(c)
  BY NoLiveUp DEF PageInv, Typed, AllFine
<1>2. \A c \in Members(calls) : Fine(c)'
  BY <1>1, FineStays
<1>3. calls' \in Seq(Call) /\ AllFine' /\ OneLive'
  <2>1. CASE calls' = calls
    BY <1>1, <1>2, <2>1 DEF AllFine, OneLive, Members
  <2>2. CASE calls' # calls
    <3>1. PICK op \in (Reads \cup Writes) \ Loads, w \in Workflows, row \in Row :
             /\ calls' = Append(calls, Ask(op, w, row))
             /\ op \in PlanWrites => Owned(row.dag, w)
      BY <2>2
    <3> DEFINE c == Ask(op, w, row)
    <3>2. c \in Call /\ c.op = op /\ c.wf = w /\ c.row = row /\ c.st = "sent"
      BY <3>1, AskTyped
    <3>3. calls' = Append(calls, c)
      BY <3>1
    <3> HIDE DEF c
    <3>4. ~Live(c)
      BY <3>2 DEF Live
    <3>5. Takes(c) /\ OneLive'
      BY <1>1, <3>2, <3>3, <3>4, AppendTakes
    <3>6. c.op \in PlanWrites => Owned(c.row.dag, c.wf)'
      BY <3>1, <3>2 DEF Owned
    <3>7. c.op = op /\ c.st = "sent" /\ ~Live(c)
      BY <3>2, <3>4
    <3>8. Fine(c)'
      BY <3>6, <3>7 DEF Fine, Live
    <3> QED BY <1>2, <3>5, <3>8 DEF Takes, AllFine
  <2> QED BY <2>1, <2>2
<1>4. Typed'
  BY <1>3 DEF PageInv, Typed
<1>5. Armament'
  BY DEF Armament, Up
<1>6. OwnPlans'
  BY DEF PageInv, OwnPlans, Owned
<1> QED BY <1>3, <1>4, <1>5, <1>6 DEF PageInv

\* The autosave: it sends what it captured, under the workflow of the page.
LEMMA AutosaveInv ==
    ASSUME PageInv, Autosave
    PROVE  PageInv'
<1>1. /\ Up /\ timer[1] = store.dag /\ timer[1] \in Plans
      /\ store \in Row /\ page.wf \in Workflows /\ Owned(store.dag, page.wf)
      /\ db \in [Workflows -> Row] /\ made \in 1 .. MaxMade /\ \A w \in Workflows : Owned(db[w].dag, w)
  BY DEF PageInv, Typed, Armament, OwnPlans, Autosave, Up
<1> DEFINE row == [store EXCEPT !.dag = timer[1]]
<1>2. row \in Row /\ row.dag = store.dag
  BY <1>1, RowsTyped, EditorPageAssumption
<1>3. UNCHANGED <<db, page, current, store, made, stray>> /\ timer' = <<>>
      /\ calls' = Append(calls, Ask("autosave", page.wf, row))
  BY <1>1 DEF Autosave, Send, bounds
<1> HIDE DEF row
<1>4. "autosave" \in (Reads \cup Writes) \ Loads
  BY DEF Reads, Writes, Loads
<1> QED BY <1>1, <1>2, <1>3, <1>4, UpInv

\* The store before and after what the user does to it.
LEMMA ShownFacts ==
    ASSUME PageInv, page.at = "shown"
    PROVE  /\ Up /\ store \in Row /\ page.wf \in Workflows /\ current \in Workflows
           /\ Owned(store.dag, page.wf) /\ timer \in {<<>>} \cup {<<d>> : d \in Plans}
           /\ timer = <<>> \/ timer = <<store.dag>>
           /\ db \in [Workflows -> Row] /\ made \in 1 .. MaxMade
           /\ \A w \in Workflows : Owned(db[w].dag, w)
           /\ MaxMade \in Nat \ {0}
BY EditorPageAssumption DEF PageInv, Typed, Armament, OwnPlans, Up

\* An edit and a draft make a plan of the page's workflow and arm the autosave.
LEMMA PlanInv ==
    ASSUME PageInv, EditNode \/ Draft
    PROVE  PageInv'
<1>1. page.at = "shown" /\ made < MaxMade /\ made' = made + 1
      /\ UNCHANGED <<db, page, current, calls, stray>>
  BY DEF EditNode, Draft, Editing, Make
<1>2. PICK o \in Workflows : /\ Owned(<<o, 0>>, page.wf)
                             /\ store' = [store EXCEPT !.dag = <<o, made + 1>>]
                             /\ timer' = Armed(page.at, store'.dag)
  <2>1. CASE Draft
    BY <1>1, <2>1, ShownFacts DEF Draft, Owned
  <2>2. CASE EditNode
    <3>1. store.dag \in Plans /\ store.dag # Empty
      BY <1>1, <2>2, ShownFacts DEF EditNode, Row
    <3>2. store.dag[1] \in Workflows
      BY <3>1 DEF Plans
    <3> QED BY <1>1, <2>2, <3>2, ShownFacts DEF EditNode, Owned
  <2> QED BY <2>1, <2>2
<1> DEFINE n == made + 1
           d == <<o, n>>
<1>3. n \in 1 .. MaxMade
  BY <1>1, ShownFacts
<1>4. made' = n
  BY <1>1
<1> HIDE DEF n
<1>5. d \in Plans /\ Owned(d, page.wf)
  BY <1>2, <1>3 DEF Plans, Owned
<1>6. store' = [store EXCEPT !.dag = d]
  BY <1>2 DEF n
<1> HIDE DEF d
<1>7. store' \in Row /\ store'.dag = d
  BY <1>1, <1>5, <1>6, ShownFacts, RowsTyped
<1>8. timer' = <<d>>
  BY <1>1, <1>2, <1>7 DEF Armed
<1> QED BY <1>1, <1>3, <1>4, <1>5, <1>7, <1>8, ShownFacts, UpInv

\* A name, a goal and a directory leave the plan as it is.
LEMMA DetailInv ==
    ASSUME PageInv, Rename \/ TypeGoal \/ \E d \in Dirs : ChooseDirectory(d)
    PROVE  PageInv'
<1>1. page.at = "shown" /\ made' \in 1 .. MaxMade
      /\ UNCHANGED <<db, page, current, timer, stray>>
  <2>1. page.at = "shown"
    BY DEF Rename, TypeGoal, ChooseDirectory, Editing, Click
  <2>2. UNCHANGED <<db, page, current, timer, stray>>
    BY DEF Rename, TypeGoal, ChooseDirectory
  <2>3. made' = made \/ (made < MaxMade /\ made' = made + 1)
    BY DEF Rename, TypeGoal, ChooseDirectory, Editing, Click, Make
  <2>4. made' \in 1 .. MaxMade
    <3>1. made \in 1 .. MaxMade /\ MaxMade \in Nat
      BY <2>1, ShownFacts
    <3> QED BY <2>3, <3>1
  <2> QED BY <2>1, <2>2, <2>4
<1>2. CASE Rename \/ TypeGoal
  <2> DEFINE n == made + 1
  <2>1. n \in 0 .. MaxMade
    <3>1. made < MaxMade
      BY <1>2 DEF Rename, TypeGoal, Editing
    <3>2. made \in 1 .. MaxMade /\ MaxMade \in Nat
      BY <1>1, ShownFacts
    <3> QED BY <3>1, <3>2
  <2>2. /\ store' = [store EXCEPT !.name = n] \/ store' = [store EXCEPT !.goal = n]
        /\ calls' = calls \/ calls' = Append(calls, Ask("goal", current, store'))
    BY <1>2 DEF Rename, TypeGoal, Send
  <2> HIDE DEF n
  <2>3. store' \in Row /\ store'.dag = store.dag
    <3>1. store \in Row /\ MaxMade \in Nat \ {0}
      BY <1>1, ShownFacts
    <3>2. [store EXCEPT !.name = n] \in Row /\ [store EXCEPT !.name = n].dag = store.dag
      BY <2>1, <3>1, RowsTyped
    <3>3. [store EXCEPT !.goal = n] \in Row /\ [store EXCEPT !.goal = n].dag = store.dag
      BY <2>1, <3>1, RowsTyped
    <3> QED BY <2>2, <3>2, <3>3
  <2>4. "goal" \in (Reads \cup Writes) \ Loads /\ "goal" \notin PlanWrites
    BY DEF Reads, Writes, Loads, PlanWrites
  <2> QED BY <1>1, <2>2, <2>3, <2>4, ShownFacts, UpInv
<1>3. ASSUME NEW d \in Dirs, ChooseDirectory(d)
      PROVE  PageInv'
  <2>1. store' = [store EXCEPT !.dir = d]
        /\ \E op \in {"firstdir", "dir"} : calls' = Append(calls, Ask(op, current, store'))
    BY <1>3 DEF ChooseDirectory, Send
  <2>2. store' \in Row /\ store'.dag = store.dag
    <3>1. store \in Row /\ MaxMade \in Nat \ {0}
      BY <1>1, ShownFacts
    <3> QED BY <2>1, <3>1, RowsTyped
  <2>3. \A op \in {"firstdir", "dir"} : op \in (Reads \cup Writes) \ Loads /\ op \notin PlanWrites
    BY DEF Reads, Writes, Loads, PlanWrites
  <2> QED BY <1>1, <2>1, <2>2, <2>3, ShownFacts, UpInv
<1> QED BY <1>2, <1>3

\* Save and Run send what the page shows; a commit of the chat is the workflow's own.
LEMMA ClickInv ==
    ASSUME PageInv, Save \/ Run \/ Commit
    PROVE  PageInv'
<1>1. page.at = "shown" /\ UNCHANGED <<page, current, store, timer, stray>>
  BY DEF Save, Run, Commit, Editing, Click
<1>2. \E op \in {"save", "trigger", "reread"}, row \in {store, Blank} :
        calls' = Append(calls, Ask(op, page.wf, row)) /\ (op = "save" => row = store)
  BY DEF Save, Run, Commit, Send
<1>3. \A op \in {"save", "trigger", "reread"} : op \in (Reads \cup Writes) \ Loads /\ (op \in PlanWrites => op = "save")
  BY DEF Reads, Writes, Loads, PlanWrites
<1>4. Blank \in Row /\ store \in Row
  BY <1>1, ShownFacts, RowsTyped
<1>5. made' \in 1 .. MaxMade /\ db' \in [Workflows -> Row] /\ \A w \in Workflows : Owned(db'[w].dag, w)
  <2>1. CASE Save \/ Run
    BY <1>1, <2>1, ShownFacts DEF Save, Run, Click
  <2>2. CASE Commit
    <3> DEFINE n == made + 1
               d == <<page.wf, n>>
               row == [db[page.wf] EXCEPT !.dag = d, !.phase = "planning"]
    <3>1. n \in 1 .. MaxMade /\ made' = n
      BY <1>1, <2>2, ShownFacts DEF Commit, Editing, Make
    <3>2. db' = [db EXCEPT ![page.wf] = row]
      BY <2>2 DEF Commit
    <3> HIDE DEF n
    <3>3. d \in Plans /\ Owned(d, page.wf)
      BY <1>1, <3>1, ShownFacts DEF Plans, Owned
    <3> HIDE DEF d
    <3>4. db[page.wf] \in Row
      BY <1>1, ShownFacts
    <3>5. row \in Row /\ row.dag = d
      BY <3>3, <3>4 DEF Row
    <3> HIDE DEF row
    <3> QED BY <1>1, <3>1, <3>2, <3>3, <3>5, ShownFacts
  <2> QED BY <2>1, <2>2
<1> QED BY <1>1, <1>2, <1>3, <1>4, <1>5, ShownFacts, UpInv

\* Only the requests change.
LEMMA RequestsInv ==
    ASSUME PageInv, UNCHANGED <<db, page, current, store, timer, made, stray>>,
           calls' \in Seq(Call), OneLive', \A c \in Members(calls') : Fine(c)
    PROVE  PageInv'
<1>1. \A c \in Members(calls') : Fine(c)'
  BY FineStays DEF Fine, Owned
<1> QED BY <1>1 DEF PageInv, Typed, AllFine, Armament, OwnPlans, Owned, Up

\* Nothing is armed and no load goes on while no page is open; a new one loads.
LEMMA OpenInv ==
    ASSUME PageInv, NEW w \in Workflows, Open(w)
    PROVE  PageInv'
<1>1. /\ calls \in Seq(Call) /\ OneLive /\ page.at = "away" /\ store \in Row
      /\ \A c \in Members(calls) : Fine(c) /\ ~Live(c)
  BY DEF PageInv, Typed, AllFine, Fine, Open
<1>2. /\ page' = [wf |-> w, at |-> "loading"] /\ store' = [store EXCEPT !.name = Untitled]
      /\ timer' = <<>> /\ UNCHANGED <<db, current, made, stray>>
      /\ calls' = Append(calls, Ask("load", w, Blank))
  BY DEF Open, Armed, Send
<1>3. MaxMade \in Nat \ {0} /\ Blank \in Row
  BY EditorPageAssumption, RowsTyped
<1> DEFINE c == Ask("load", w, Blank)
<1>4. c \in Call /\ c.op = "load" /\ c.wf = w /\ c.st = "sent"
  <2>1. "load" \in Reads \cup Writes
    BY DEF Reads
  <2> QED BY <1>3, <2>1, AskTyped
<1>5. calls' = Append(calls, c)
  BY <1>2
<1> HIDE DEF c
<1>6. \A k \in DOMAIN calls : ~Live(calls[k])
  BY <1>1 DEF Members
<1>7. Takes(c) /\ OneLive'
  BY <1>1, <1>4, <1>5, <1>6, AppendTakes
<1>8. page'.wf = w /\ page'.at = "loading"
  BY <1>2
<1>9. Fine(c)'
  BY <1>4, <1>8 DEF Fine, Live, PlanWrites
<1>10. \A x \in Members(calls) : Fine(x)'
  BY <1>1, <1>2, FineStays
<1>11. AllFine'
  BY <1>7, <1>9, <1>10 DEF Takes, AllFine
<1>12. store' \in Row
  <2>1. Untitled \in 0 .. MaxMade
    BY <1>3 DEF Untitled
  <2> QED BY <1>1, <1>2, <1>3, <2>1, RowsTyped
<1>13. Typed'
  BY <1>2, <1>7, <1>8, <1>12 DEF PageInv, Typed, Takes
<1>14. Armament' /\ OwnPlans'
  BY <1>2, <1>8 DEF PageInv, Armament, OwnPlans, Owned, Up
<1> QED BY <1>7, <1>11, <1>13, <1>14 DEF PageInv

\* The clean-ups of a page that is left: no load goes on, nothing is armed.
LEMMA LeaveInv ==
    ASSUME PageInv, Leave
    PROVE  PageInv'
<1>1. /\ calls \in Seq(Call) /\ \A i \in DOMAIN calls : calls[i] \in Call /\ Fine(calls[i])
      /\ page \in [wf: Workflows \cup {NoWorkflow}, at: {"away", "loading", "shown", "error"}]
  BY DEF PageInv, Typed, AllFine, Members
<1>2. /\ page' = [page EXCEPT !.at = "away"] /\ timer' = <<>>
      /\ UNCHANGED <<db, current, store, made, stray>>
      /\ calls' = [i \in DOMAIN calls |->
                     IF calls[i].op \in Loads THEN [calls[i] EXCEPT !.live = FALSE] ELSE calls[i]]
  BY DEF Leave, Loads, bounds
<1>3. ASSUME NEW i \in DOMAIN calls
      PROVE  /\ calls'[i] \in Call /\ ~Live(calls'[i])
             /\ calls'[i].op = calls[i].op /\ calls'[i].wf = calls[i].wf
             /\ calls'[i].st = calls[i].st /\ calls'[i].row = calls[i].row
  <2> DEFINE d == [calls[i] EXCEPT !.live = FALSE]
  <2>1. d \in Call /\ d.op = calls[i].op /\ d.wf = calls[i].wf /\ d.st = calls[i].st
        /\ d.row = calls[i].row /\ ~d.live
    BY <1>1 DEF Call
  <2>2. calls'[i] = IF calls[i].op \in Loads THEN d ELSE calls[i]
    BY <1>2
  <2> HIDE DEF d
  <2> QED BY <1>1, <2>1, <2>2 DEF Live
<1>4. calls' \in Seq(Call) /\ DOMAIN calls' = DOMAIN calls
  <2>1. DOMAIN calls' = 1 .. Len(calls) /\ DOMAIN calls = 1 .. Len(calls) /\ Len(calls) \in Nat
    BY <1>1, <1>2
  <2>2. calls' = [i \in 1 .. Len(calls) |-> calls'[i]]
    BY <1>2, <2>1
  <2> HIDE DEF Call
  <2> QED BY <1>3, <2>1, <2>2
<1>5. page'.at = "away" /\ page' \in [wf: Workflows \cup {NoWorkflow}, at: {"away", "loading", "shown", "error"}]
  BY <1>1, <1>2
<1>6. AllFine' /\ OneLive'
  <2>1. \A i \in DOMAIN calls : Owned(calls[i].row.dag, calls[i].wf)' <=> Owned(calls[i].row.dag, calls[i].wf)
    BY <1>2, <1>3 DEF Owned
  <2>2. \A i \in DOMAIN calls : Fine(calls[i])'
    BY <1>1, <1>3, <2>1 DEF Fine
  <2> QED BY <1>3, <1>4, <2>2 DEF AllFine, OneLive, Members
<1>7. Typed' /\ Armament' /\ OwnPlans'
  BY <1>2, <1>4, <1>5 DEF PageInv, Typed, Armament, OwnPlans, Owned, Up
<1> QED BY <1>6, <1>7 DEF PageInv

\* What a request makes of a row: a plan comes from one that saves.
LEMMA UpdateEffect ==
    ASSUME NEW row \in Row, NEW op, NEW body \in Row
    PROVE  /\ Update(row, op, body) \in Row
           /\ \/ Update(row, op, body).dag = row.dag
              \/ op \in PlanWrites /\ Update(row, op, body).dag = body.dag
<1>1. CASE op \in PlanWrites
  <2> DEFINE n == body.name
             d == IF Protected(row, body.dag) THEN row.dag ELSE body.dag
             r == [row EXCEPT !.name = n, !.dag = d]
  <2>1. n \in 0 .. MaxMade /\ d \in Plans /\ (d = row.dag \/ d = body.dag)
    BY DEF Row
  <2>2. Update(row, op, body) = r
    BY <1>1 DEF Update, PlanWrites
  <2> HIDE DEF n, d
  <2>3. r \in Row /\ r.dag = d
    BY <2>1 DEF Row
  <2> QED BY <1>1, <2>1, <2>2, <2>3
<1>2. CASE op \notin PlanWrites
  <2>1. \/ Update(row, op, body) = [row EXCEPT !.goal = body.goal]
        \/ Update(row, op, body) = [row EXCEPT !.dir = body.dir]
        \/ \E ph \in {"review", "planning"} : Update(row, op, body) = [row EXCEPT !.phase = ph]
        \/ Update(row, op, body) = row
    BY <1>2 DEF Update, PlanWrites
  <2>2. body.goal \in 0 .. MaxMade /\ body.dir \in Dirs
    BY DEF Row, Dirs
  <2>3. /\ [row EXCEPT !.goal = body.goal] \in Row /\ [row EXCEPT !.goal = body.goal].dag = row.dag
        /\ [row EXCEPT !.dir = body.dir] \in Row /\ [row EXCEPT !.dir = body.dir].dag = row.dag
    BY <2>2, RowsTyped, EditorPageAssumption
  <2>4. \A ph \in {"review", "planning"} :
          [row EXCEPT !.phase = ph] \in Row /\ [row EXCEPT !.phase = ph].dag = row.dag
    BY DEF Row
  <2> QED BY <2>1, <2>3, <2>4
<1> QED BY <1>1, <1>2

\* The server handles a request: a row takes a plan of its own workflow only, and a
\* read finds one.
LEMMA ServeInv ==
    ASSUME PageInv, NEW i \in DOMAIN calls, Serve(i)
    PROVE  PageInv'
<1> DEFINE c == calls[i]
           row == Update(db[c.wf], c.op, c.row)
           st == IF c.op = "assess" /\ row.phase = "review" THEN "failed" ELSE "ok"
           answer == IF c.op \in Reads THEN row ELSE c.row
           d == [c EXCEPT !.st = st, !.row = answer]
<1>1. c \in Call /\ Fine(c) /\ calls \in Seq(Call) /\ OneLive
      /\ db \in [Workflows -> Row] /\ \A w \in Workflows : Owned(db[w].dag, w)
  BY InFlight DEF PageInv, Typed, OwnPlans
<1>2. c.op \in Reads \cup Writes /\ c.wf \in Workflows /\ c.row \in Row /\ c.live \in BOOLEAN
  BY <1>1, CallFields
<1>3. /\ db' = [db EXCEPT ![c.wf] = row] /\ calls' = [calls EXCEPT ![i] = d]
      /\ UNCHANGED <<page, current, store, timer, made, stray>>
  BY DEF Serve, bounds
<1> HIDE DEF c
<1>4. row \in Row /\ Owned(row.dag, c.wf)
  <2>1. db[c.wf] \in Row /\ Owned(db[c.wf].dag, c.wf)
    BY <1>1, <1>2
  <2>2. c.op \in PlanWrites => Owned(c.row.dag, c.wf)
    BY <1>1 DEF Fine
  <2>3. /\ row \in Row
        /\ row.dag = db[c.wf].dag \/ (c.op \in PlanWrites /\ row.dag = c.row.dag)
    BY <1>2, <2>1, UpdateEffect
  <2> HIDE DEF row
  <2> QED BY <2>1, <2>2, <2>3
<1> HIDE DEF row
<1>5. answer \in Row /\ st \in {"sent", "ok", "failed"}
      /\ (c.op \in Reads => Owned(answer.dag, c.wf)) /\ (c.op \in PlanWrites => answer = c.row)
  BY <1>2, <1>4 DEF Reads, PlanWrites
<1> HIDE DEF answer, st
<1>6. d \in Call /\ d.op = c.op /\ d.wf = c.wf /\ d.live = c.live /\ d.row = answer
  BY <1>1, <1>5 DEF Call
<1>7. Fine(d) /\ (Live(d) => Live(c))
  BY <1>1, <1>5, <1>6 DEF Fine, Live
<1> HIDE DEF d
<1>8. Takes(d) /\ OneLive'
  BY <1>1, <1>3, <1>6, <1>7, ReplaceTakes DEF c
<1>9. \A x \in Members(calls') : Fine(x)'
  <2>1. \A x \in Members(calls) \cup {d} : Fine(x)
    BY <1>7 DEF PageInv, AllFine
  <2>2. \A x \in Members(calls) \cup {d} : Fine(x)'
    BY <1>3, <2>1, FineStays DEF Fine, Owned
  <2> QED BY <1>8, <2>2 DEF Takes
<1>10. db' \in [Workflows -> Row] /\ \A w \in Workflows : Owned(db'[w].dag, w)
  BY <1>1, <1>2, <1>3, <1>4
<1> QED BY <1>3, <1>8, <1>9, <1>10 DEF PageInv, Typed, AllFine, Armament, OwnPlans, Owned, Up, Takes

\* A request is refused or lost.
LEMMA FailInv ==
    ASSUME PageInv, NEW i \in DOMAIN calls, Fail(i)
    PROVE  PageInv'
<1> DEFINE c == calls[i]
           d == [c EXCEPT !.st = "failed"]
<1>1. c \in Call /\ Fine(c) /\ calls \in Seq(Call) /\ OneLive
  BY InFlight DEF PageInv, Typed
<1>2. calls' = [calls EXCEPT ![i] = d] /\ UNCHANGED <<db, page, current, store, timer, made, stray>>
  BY DEF Fail, bounds
<1> HIDE DEF c
<1>3. d \in Call /\ d.op = c.op /\ d.wf = c.wf /\ d.live = c.live /\ d.row = c.row /\ d.st = "failed"
  BY <1>1 DEF Call
<1> HIDE DEF d
<1>4. Fine(d) /\ (Live(d) => Live(c))
  BY <1>1, <1>3 DEF Fine, Live
<1>5. Takes(d) /\ OneLive'
  BY <1>1, <1>2, <1>3, <1>4, ReplaceTakes DEF c
<1>6. \A x \in Members(calls') : Fine(x)
  BY <1>4, <1>5 DEF Takes, PageInv, AllFine
<1> QED BY <1>2, <1>5, <1>6, RequestsInv DEF Takes

\* The answers of the load: the plan comes with the first, the page is up with the last.
LEMMA LoadAnswerInv ==
    ASSUME PageInv, NEW i \in DOMAIN calls, calls[i].st # "sent", calls[i].op \in Loads, LoadAnswer(i, calls[i]),
           UNCHANGED <<db, made>>
    PROVE  PageInv'
<1> DEFINE c == calls[i]
<1>1. c \in Call /\ Fine(c) /\ c \in Members(calls) /\ calls \in Seq(Call) /\ OneLive /\ AllFine
  BY InFlight DEF PageInv, Typed
<1>2. c.op \in Reads \cup Writes /\ c.wf \in Workflows /\ c.row \in Row /\ c.live \in BOOLEAN
      /\ c.st \in {"ok", "failed"}
  BY <1>1, CallFields
<1>3. CASE ~c.live /\ calls' = RemoveAt(calls, i) /\ UNCHANGED <<page, current, store, timer, stray>>
  <2>1. calls' \in Seq(Call) /\ Members(calls') \subseteq Members(calls) /\ OneLive'
    BY <1>1, <1>3, RemoveTakes
  <2> QED BY <1>1, <1>3, <2>1, RequestsInv DEF AllFine
<1>4. CASE /\ c.live /\ c.op = "load" /\ c.st = "ok"
           /\ GoesOn(i, "runs", c.wf, Blank)
           /\ store' = c.row /\ current' = c.wf
           /\ UNCHANGED <<page, timer, stray>>
  <2> DEFINE r == Ask("runs", c.wf, Blank)
  <2>1. Blank \in Row /\ "runs" \in Reads \cup Writes
    BY RowsTyped, EditorPageAssumption DEF Reads
  <2>2. r \in Call /\ r.op = "runs" /\ r.wf = c.wf /\ r.st = "sent" /\ r.live
    BY <1>2, <2>1, AskTyped
  <2>3. calls' = Append(RemoveAt(calls, i), r)
    BY <1>4 DEF GoesOn
  <2> HIDE DEF r
  <2>4. Live(c) /\ c.op \in Reads
    BY <1>4 DEF Live, Loads, Reads
  <2>5. Takes(r) /\ OneLive'
    BY <1>1, <2>2, <2>3, <2>4, GoesOnTakes
  <2>6. page.at = "loading" /\ c.wf = page.wf /\ Owned(c.row.dag, c.wf)
    BY <1>1, <1>4, <2>4 DEF Fine
  <2>7. Owned(store.dag, page.wf)' /\ current' \in Workflows /\ ~Up /\ ~Up'
    BY <1>2, <1>4, <2>6 DEF Owned, Up
  <2>8. \A x : x = r => Fine(x)'
    BY <1>4, <2>2, <2>6, <2>7 DEF Fine, Live, PlanWrites
  <2>9. \A x \in Members(calls) : Fine(x)'
    BY <1>1, <1>4, <2>7, FineStays DEF AllFine
  <2>10. AllFine'
    BY <2>5, <2>8, <2>9 DEF Takes, AllFine
  <2>11. Typed'
    BY <1>2, <1>4, <2>5, <2>7 DEF PageInv, Typed, Takes
  <2>12. Armament' /\ OwnPlans'
    BY <1>4, <2>6, <2>7 DEF PageInv, Armament, OwnPlans, Owned
  <2> QED BY <2>5, <2>10, <2>11, <2>12 DEF PageInv
<1>5. CASE /\ c.live /\ (c.op = "runs" \/ c.st = "failed") /\ c.op \in Loads
           /\ calls' = RemoveAt(calls, i)
           /\ page' = [page EXCEPT !.at = IF c.st = "ok" THEN "shown" ELSE "error"]
           /\ timer' = Armed(page'.at, store.dag)
           /\ stray' = IF c.st = "ok" THEN stray ELSE stray \cup {c.wf}
           /\ UNCHANGED <<current, store>>
  <2> DEFINE a == IF c.st = "ok" THEN "shown" ELSE "error"
  <2>1. page \in [wf: Workflows \cup {NoWorkflow}, at: {"away", "loading", "shown", "error"}]
        /\ stray \subseteq Workflows /\ store \in Row
    BY DEF PageInv, Typed
  <2>2. Live(c) /\ page.wf = c.wf
    BY <1>1, <1>5 DEF Live, Fine
  <2>3. /\ page' \in [wf: Workflows \cup {NoWorkflow}, at: {"away", "loading", "shown", "error"}]
        /\ page'.at = a /\ page'.wf = page.wf /\ a \in {"shown", "error"}
    BY <1>5, <2>1
  <2>4. calls' \in Seq(Call) /\ Members(calls') \subseteq Members(calls) /\ OneLive'
        /\ \A x \in Members(calls') : ~Live(x)
    BY <1>1, <1>5, <2>2, RemoveTakes
  <2>5. stray \subseteq stray' /\ stray' \subseteq Workflows
    BY <1>2, <1>5, <2>1
  <2>6. a = "shown" => c.op = "runs" /\ current \in Workflows /\ Owned(store.dag, page.wf)
    BY <1>1, <1>5, <2>2 DEF Fine
  <2>7. a = "error" => page.wf \in stray'
    BY <1>2, <1>5, <2>2
  <2>8. Owned(store.dag, page.wf)'
    BY <1>5, <2>3, <2>5, <2>6, <2>7 DEF Owned
  <2>9. store.dag \in Plans /\ timer' = <<store.dag>>
    BY <1>5, <2>1, <2>3 DEF Armed, Row
  <2>10. AllFine'
    <3>1. \A x \in Members(calls') : Fine(x)'
      BY <1>1, <2>4, <2>5, FineStays DEF AllFine
    <3> QED BY <3>1 DEF AllFine
  <2>11. Typed'
    BY <1>2, <1>5, <2>2, <2>3, <2>4, <2>5, <2>6, <2>9 DEF PageInv, Typed
  <2>12. Armament'
    BY <1>5, <2>3, <2>9 DEF Armament, Up
  <2>13. OwnPlans'
    BY <2>3, <2>5, <2>7, <2>8 DEF PageInv, OwnPlans, Owned
  <2> QED BY <2>4, <2>10, <2>11, <2>12, <2>13 DEF PageInv
<1> QED BY <1>2, <1>3, <1>4, <1>5 DEF LoadAnswer, Live, Loads

\* Any other answer: another request may follow, or the store takes the row, which
\* marks the page of another workflow.
LEMMA AnswerInv ==
    ASSUME PageInv, NEW i \in DOMAIN calls, Answer(i)
    PROVE  PageInv'
<1> DEFINE c == calls[i]
           next == Follows(c)
<1>1. c \in Call /\ Fine(c) /\ c \in Members(calls) /\ calls \in Seq(Call) /\ OneLive /\ AllFine
  BY InFlight DEF PageInv, Typed
<1>2. c.op \in Reads \cup Writes /\ c.wf \in Workflows /\ c.row \in Row /\ c.st \in {"ok", "failed"}
      /\ UNCHANGED <<db, made>>
  BY <1>1, CallFields DEF Answer, bounds
<1>3. CASE c.op \in Loads
  BY <1>2, <1>3, LoadAnswerInv DEF Answer, Loads, Reads, Writes
<1>4. CASE /\ next # "" /\ GoesOn(i, next, c.wf, c.row)
           /\ UNCHANGED <<page, current, store, timer, stray>>
  <2> DEFINE r == Ask(next, c.wf, c.row)
  <2>1. next \in (Reads \cup Writes) \ Loads /\ (next \in PlanWrites => c.op = "save")
    BY <1>4 DEF Follows, Reads, Writes, Loads, PlanWrites
  <2> HIDE DEF next
  <2>2. r \in Call /\ r.op = next /\ r.wf = c.wf /\ r.row = c.row /\ r.st = "sent"
    BY <1>2, <2>1, AskTyped
  <2>3. calls' = Append(RemoveAt(calls, i), r)
    BY <1>4 DEF GoesOn
  <2> HIDE DEF r
  <2>4. ~Live(r)
    BY <2>1, <2>2 DEF Live
  <2>5. Takes(r) /\ OneLive'
    BY <1>1, <2>2, <2>3, <2>4, GoesOnTakes
  <2>6. Fine(r)
    <3>1. c.op = "save" => Owned(c.row.dag, c.wf)
      BY <1>1 DEF Fine, PlanWrites
    <3> QED BY <2>1, <2>2, <2>4, <3>1 DEF Fine
  <2>7. \A x \in Members(calls') : Fine(x)
    BY <1>1, <2>5, <2>6 DEF Takes, AllFine
  <2> QED BY <1>2, <1>4, <2>5, <2>7, RequestsInv DEF Takes
<1>5. CASE c.op \in Reads /\ c.op \notin Loads /\ c.st = "ok" /\ calls' = RemoveAt(calls, i)
           /\ Holds(c.wf, c.row) /\ UNCHANGED page
  <2> DEFINE n == store.name
             t == [c.row EXCEPT !.name = n]
  <2>1. calls' \in Seq(Call) /\ Members(calls') \subseteq Members(calls) /\ OneLive'
    BY <1>1, <1>5, RemoveTakes
  <2>2. Owned(c.row.dag, c.wf)
    BY <1>1, <1>5 DEF Fine
  <2>3. t \in Row /\ t.dag = c.row.dag
    <3>1. n \in 0 .. MaxMade
      BY DEF PageInv, Typed, Row
    <3> HIDE DEF n
    <3> QED BY <1>2, <3>1, RowsTyped, EditorPageAssumption
  <2>4. store' = t /\ current' = c.wf /\ timer' = Armed(page.at, c.row.dag)
        /\ stray' = IF page.at # "away" /\ page.wf # c.wf THEN stray \cup {page.wf} ELSE stray
    BY <1>5 DEF Holds
  <2> HIDE DEF t
  <2>5. stray \subseteq stray' /\ stray' \subseteq Workflows
    BY <2>4 DEF PageInv, Typed
  <2>6. page.at # "away" => Owned(store.dag, page.wf)'
    BY <1>5, <2>2, <2>3, <2>4 DEF Owned
  <2>7. AllFine'
    <3>1. ASSUME NEW x \in Members(calls')
          PROVE  Fine(x)'
      <4>1. Fine(x)
        BY <1>1, <2>1, <3>1 DEF AllFine
      <4>2. Live(x) => page.at = "loading"
        BY <4>1 DEF Fine
      <4> QED BY <1>2, <1>5, <2>4, <2>5, <2>6, <4>1, <4>2, FineStays
    <3> QED BY <3>1 DEF AllFine
  <2>8. c.row.dag \in Plans
    BY <1>2 DEF Row
  <2>9. Typed'
    BY <1>2, <1>5, <2>1, <2>3, <2>4, <2>5, <2>8 DEF PageInv, Typed, Armed
  <2>10. Armament'
    <3>1. Up => timer' = <<store'.dag>>
      BY <2>3, <2>4 DEF Armed, Up
    <3>2. ~Up => timer' = <<>>
      BY <2>4 DEF Armed, Up
    <3> QED BY <1>5, <3>1, <3>2 DEF Armament, Up
  <2>11. OwnPlans'
    BY <1>2, <1>5, <2>5, <2>6 DEF PageInv, OwnPlans, Owned, Up
  <2> QED BY <2>1, <2>7, <2>9, <2>10, <2>11 DEF PageInv
<1>6. CASE calls' = RemoveAt(calls, i) /\ UNCHANGED <<page, current, store, timer, stray>>
  <2>1. calls' \in Seq(Call) /\ Members(calls') \subseteq Members(calls) /\ OneLive'
    BY <1>1, <1>6, RemoveTakes
  <2> QED BY <1>1, <1>2, <1>6, <2>1, RequestsInv DEF AllFine
<1> QED BY <1>2, <1>3, <1>4, <1>5, <1>6 DEF Answer, Loads, Reads

\* Every step keeps the invariant.
LEMMA PageStep == PageInv /\ [Next]_vars => PageInv'
<1> SUFFICES ASSUME PageInv, [Next]_vars PROVE PageInv'
  OBVIOUS
<1>1. CASE UNCHANGED vars
  <2>1. UNCHANGED <<db, page, current, store, timer, made, stray, calls>>
    BY <1>1 DEF vars, bounds
  <2>2. calls' \in Seq(Call) /\ OneLive' /\ \A c \in Members(calls') : Fine(c)
    BY <2>1 DEF PageInv, Typed, AllFine, OneLive
  <2> QED BY <2>1, <2>2, RequestsInv
<1> QED BY <1>1, OpenInv, LeaveInv, AutosaveInv, ServeInv, FailInv, AnswerInv, PlanInv,
           DetailInv, ClickInv DEF Next, Dirs

\* At first nothing is sent and every plan is its workflow's own.
LEMMA PageInit == Init => PageInv
<1> SUFFICES ASSUME Init PROVE PageInv
  OBVIOUS
<1>1. /\ Blank \in Row /\ Blank.dag = Empty /\ [Blank EXCEPT !.name = Untitled] \in Row
      /\ \A w \in Workflows : Planned(w) \in Row /\ Planned(w).dag = <<w, 1>>
  BY RowsTyped, EditorPageAssumption
<1>2. db \in [Workflows -> Row] /\ \A w \in Workflows : Owned(db[w].dag, w)
  <2>1. PICK new \in SUBSET Workflows :
          db = [w \in Workflows |-> IF w \in new THEN Blank ELSE Planned(w)]
    BY DEF Init
  <2>2. \A w \in Workflows : db[w] \in {Blank, Planned(w)}
    BY <2>1
  <2>3. Empty[1] = NoWorkflow /\ \A w \in Workflows : <<w, 1>>[1] = w
    BY DEF Empty
  <2>4. \A w \in Workflows : Owned(db[w].dag, w)
    BY <1>1, <2>2, <2>3 DEF Owned
  <2> QED BY <1>1, <2>1, <2>4
<1>3. page.at = "away" /\ page \in [wf: Workflows \cup {NoWorkflow}, at: {"away", "loading", "shown", "error"}]
  BY DEF Init
<1>4. calls = <<>> /\ calls \in Seq(Call) /\ Members(calls) = {} /\ DOMAIN calls = {}
  BY DEF Init, Members
<1>5. made = 1 /\ made \in 1 .. MaxMade
  BY EditorPageAssumption DEF Init
<1>6. Typed
  BY <1>1, <1>2, <1>3, <1>4, <1>5 DEF Init, Typed
<1>7. AllFine /\ OneLive
  BY <1>4 DEF AllFine, OneLive
<1>8. Armament /\ OwnPlans
  BY <1>2, <1>3 DEF Init, Armament, OwnPlans, Up
<1> QED BY <1>6, <1>7, <1>8 DEF PageInv

\* The invariant of the page.
LEMMA PageInvariant == Spec => []PageInv
BY PageInit, PageStep, PTL DEF Spec

\* Unless its page has held something of another workflow, a workflow is only ever
\* saved with its own plan, for any workflows, failures and order of the requests
\* (WorkflowEditor.tsx, workflowStore.ts).
THEOREM OwnPlanHolds == Spec => []OwnPlan
<1>1. PageInv => OwnPlan
  BY DEF PageInv, OwnPlans, OwnPlan, Owned
<1> QED BY <1>1, PageInvariant, PTL


-----------------------------------------------------------------------------
(* The page and the server.                                                *)

\* A write of the plan of w, and a read of it, that the server has yet to handle or,
\* the read, has answered; c may be any of a sequence of requests.
Plan(c, w) == c.wf = w /\ c.op \in PlanWrites /\ c.st = "sent"
Rereading(c, w) == c.wf = w /\ c.op = "reread" /\ c.st # "failed"

\* The last plan of w in q is dag; q has none; q has a read.
LastPlan(q, w, dag) ==
    \E i \in DOMAIN q : /\ Plan(q[i], w) /\ q[i].row.dag = dag
                        /\ \A j \in DOMAIN q : j > i => ~Plan(q[j], w)
NoPlan(q, w) == \A i \in DOMAIN q : ~Plan(q[i], w)
Rereads(q, w) == \E i \in DOMAIN q : Rereading(q[i], w)

\* What brings the page and the server together once no autosave is armed.
Settles ==
    \/ LastPlan(calls, page.wf, store.dag)
    \/ NoPlan(calls, page.wf) /\ db[page.wf].dag = store.dag
    \/ Rereads(calls, page.wf)
    \/ store.dag = Empty /\ db[page.wf].phase # "draft"
Watched == page.at = "shown" /\ page.wf \notin stray \cup resaved
Together == Watched => timer = <<store.dag>> \/ (timer = <<>> /\ Settles)

LEMMA TogetherMeans == NeverApart <=> Together
<1>1. \A i \in DOMAIN calls : Unserved(i) <=> Plan(calls[i], page.wf)
  BY DEF Unserved, Plan
<1>2. Underway <=> \/ LastPlan(calls, page.wf, store.dag)
                   \/ NoPlan(calls, page.wf) /\ db[page.wf].dag = store.dag
  BY <1>1 DEF Underway, LastPlan, NoPlan
<1>3. Rereads(calls, page.wf) <=> \E i \in DOMAIN calls :
        calls[i].wf = page.wf /\ calls[i].op = "reread" /\ calls[i].st # "failed"
  BY DEF Rereads, Rereading
<1> QED BY <1>2, <1>3 DEF NeverApart, Together, Watched, Settles

\* One more request.
LEMMA AppendPlan ==
    ASSUME NEW q \in Seq(Call), NEW c \in Call, NEW w, NEW dag, NEW v, v = Append(q, c)
    PROVE  /\ v \in Seq(Call)
           /\ LastPlan(q, w, dag) /\ ~Plan(c, w) => LastPlan(v, w, dag)
           /\ NoPlan(q, w) /\ ~Plan(c, w) => NoPlan(v, w)
           /\ Plan(c, w) /\ c.row.dag = dag => LastPlan(v, w, dag)
           /\ Rereads(q, w) \/ Rereading(c, w) => Rereads(v, w)
<1>1. /\ v \in Seq(Call) /\ DOMAIN v = 1 .. (Len(q) + 1) /\ Len(q) \in Nat /\ DOMAIN q = 1 .. Len(q)
      /\ v[Len(q) + 1] = c /\ \A k \in DOMAIN q : v[k] = q[k] /\ k \in DOMAIN v /\ k \in Int
  OBVIOUS
<1>2. \A k \in DOMAIN v : k \in DOMAIN q \/ k = Len(q) + 1
  BY <1>1
<1>3. Len(q) + 1 \in DOMAIN v /\ \A k \in DOMAIN v : ~(k > Len(q) + 1)
  BY <1>1
<1>4. LastPlan(q, w, dag) /\ ~Plan(c, w) => LastPlan(v, w, dag)
  BY <1>1, <1>2 DEF LastPlan
<1>5. Plan(c, w) /\ c.row.dag = dag => LastPlan(v, w, dag)
  BY <1>1, <1>3 DEF LastPlan
<1>6. NoPlan(q, w) /\ ~Plan(c, w) => NoPlan(v, w)
  BY <1>1, <1>2 DEF NoPlan
<1>7. Rereads(q, w) \/ Rereading(c, w) => Rereads(v, w)
  BY <1>1, <1>3 DEF Rereads
<1> QED BY <1>1, <1>4, <1>5, <1>6, <1>7

\* One request less, that is not such a one.
LEMMA RemovePlan ==
    ASSUME NEW q \in Seq(Call), NEW i \in DOMAIN q, NEW w, NEW dag, NEW v, v = RemoveAt(q, i)
    PROVE  /\ v \in Seq(Call)
           /\ LastPlan(q, w, dag) /\ ~Plan(q[i], w) => LastPlan(v, w, dag)
           /\ NoPlan(q, w) => NoPlan(v, w)
           /\ Rereads(q, w) /\ ~Rereading(q[i], w) => Rereads(v, w)
<1> DEFINE after(k) == IF k < i THEN k ELSE k - 1
<1>1. /\ v \in Seq(Call) /\ DOMAIN v = 1 .. (Len(q) - 1)
      /\ \A k \in DOMAIN v : Before(i, k) \in DOMAIN q /\ Before(i, k) # i /\ v[k] = q[Before(i, k)]
  BY Removed
<1>2. DOMAIN q = 1 .. Len(q) /\ Len(q) \in Nat /\ i \in 1 .. Len(q)
  OBVIOUS
<1>3. \A k \in DOMAIN q : k # i => after(k) \in DOMAIN v /\ Before(i, after(k)) = k
  BY <1>1, <1>2 DEF Before
<1>4. \A k \in DOMAIN q, l \in DOMAIN v : k # i /\ l > after(k) => Before(i, l) > k
  BY <1>1, <1>2 DEF Before
<1> HIDE DEF after
<1>5. \A k \in DOMAIN q : k # i => after(k) \in DOMAIN v /\ v[after(k)] = q[k]
  BY <1>1, <1>3
<1>6. LastPlan(q, w, dag) /\ ~Plan(q[i], w) => LastPlan(v, w, dag)
  <2> SUFFICES ASSUME LastPlan(q, w, dag), ~Plan(q[i], w) PROVE LastPlan(v, w, dag)
    OBVIOUS
  <2>1. PICK k \in DOMAIN q : /\ Plan(q[k], w) /\ q[k].row.dag = dag
                              /\ \A j \in DOMAIN q : j > k => ~Plan(q[j], w)
    BY DEF LastPlan
  <2>2. k # i
    BY <2>1
  <2>3. \A l \in DOMAIN v : l > after(k) => ~Plan(v[l], w)
    BY <1>1, <1>4, <2>1, <2>2
  <2> QED BY <1>5, <2>1, <2>2, <2>3 DEF LastPlan
<1>7. NoPlan(q, w) => NoPlan(v, w)
  BY <1>1 DEF NoPlan
<1>8. Rereads(q, w) /\ ~Rereading(q[i], w) => Rereads(v, w)
  BY <1>5 DEF Rereads
<1> QED BY <1>1, <1>6, <1>7, <1>8

\* A request is answered: the first plan of w may be handled.
LEMMA ServePlan ==
    ASSUME NEW q \in Seq(Call), NEW i \in DOMAIN q, NEW d \in Call, NEW w, NEW dag,
           NEW v, v = [q EXCEPT ![i] = d], ~Plan(d, w)
    PROVE  /\ LastPlan(q, w, dag) /\ ~Plan(q[i], w) => LastPlan(v, w, dag)
           /\ LastPlan(q, w, dag) /\ (\A j \in DOMAIN q : j < i => ~Plan(q[j], w)) =>
                LastPlan(v, w, dag) \/ (NoPlan(v, w) /\ Plan(q[i], w) /\ q[i].row.dag = dag)
           /\ NoPlan(q, w) => NoPlan(v, w)
           /\ Rereads(q, w) /\ (Rereading(q[i], w) => Rereading(d, w)) => Rereads(v, w)
<1>1. /\ DOMAIN v = DOMAIN q /\ v[i] = d /\ \A k \in DOMAIN q : k # i => v[k] = q[k]
      /\ \A k \in DOMAIN q : k \in Int
  OBVIOUS
<1>2. \A k \in DOMAIN v : Plan(v[k], w) => k # i /\ Plan(q[k], w)
  BY <1>1
<1>3. ASSUME NEW k \in DOMAIN q, Plan(q[k], w), q[k].row.dag = dag, k # i,
             \A j \in DOMAIN q : j > k => ~Plan(q[j], w)
      PROVE  LastPlan(v, w, dag)
  BY <1>1, <1>2, <1>3 DEF LastPlan
<1>4. LastPlan(q, w, dag) /\ ~Plan(q[i], w) => LastPlan(v, w, dag)
  BY <1>3 DEF LastPlan
<1>5. ASSUME LastPlan(q, w, dag), \A j \in DOMAIN q : j < i => ~Plan(q[j], w)
      PROVE  LastPlan(v, w, dag) \/ (NoPlan(v, w) /\ Plan(q[i], w) /\ q[i].row.dag = dag)
  <2>1. PICK k \in DOMAIN q : /\ Plan(q[k], w) /\ q[k].row.dag = dag
                              /\ \A j \in DOMAIN q : j > k => ~Plan(q[j], w)
    BY <1>5 DEF LastPlan
  <2>2. CASE k # i
    BY <1>3, <2>1, <2>2
  <2>3. CASE k = i
    <3>1. \A j \in DOMAIN q : j # i => ~Plan(q[j], w)
      BY <1>1, <1>5, <2>1, <2>3
    <3> QED BY <1>1, <1>2, <2>1, <2>3, <3>1 DEF NoPlan
  <2> QED BY <2>2, <2>3
<1>6. NoPlan(q, w) => NoPlan(v, w)
  BY <1>1, <1>2 DEF NoPlan
<1>7. Rereads(q, w) /\ (Rereading(q[i], w) => Rereading(d, w)) => Rereads(v, w)
  BY <1>1 DEF Rereads
<1> QED BY <1>4, <1>5, <1>6, <1>7

\* Writes are handled in the order they are sent; no write of a plan and no read
\* after a commit or a failed Run gets lost.
Sure == InOrder /\ Failing \cap (PlanWrites \cup {"reread"}) = {}

\* Nothing but what settles changes, and that still does.
LEMMA StillTogether ==
    ASSUME Together, UNCHANGED <<page, timer>>, store'.dag = store.dag,
           stray \subseteq stray', resaved \subseteq resaved',
           Watched /\ timer = <<>> /\ Settles => Settles'
    PROVE  Together'
BY DEF Together, Watched

\* The user or the page sends a request, or none, and no row changes.
LEMMA SentTogether ==
    ASSUME PageInv, Together, UNCHANGED <<db, page, timer, stray, resaved>>, store'.dag = store.dag,
           \/ calls' = calls
           \/ \E op \in Reads \cup Writes, w \in Workflows, row \in Row :
                 /\ calls' = Append(calls, Ask(op, w, row))
                 /\ op \in PlanWrites => row.dag = store.dag
    PROVE  Together'
<1> SUFFICES ASSUME Settles PROVE Settles'
  BY StillTogether
<1>1. CASE calls' = calls
  BY <1>1 DEF Settles
<1>2. ASSUME NEW op \in Reads \cup Writes, NEW w \in Workflows, NEW row \in Row,
             calls' = Append(calls, Ask(op, w, row)), op \in PlanWrites => row.dag = store.dag
      PROVE  Settles'
  <2> DEFINE c == Ask(op, w, row)
             v == Append(calls, c)
  <2>1. calls \in Seq(Call) /\ c \in Call /\ c.op = op /\ c.row = row
    BY AskTyped DEF PageInv, Typed
  <2>2. calls' = v
    BY <1>2
  <2>3. Plan(c, page.wf) => c.row.dag = store.dag
    BY <1>2, <2>1 DEF Plan
  <2> HIDE DEF c
  <2>4. /\ LastPlan(calls, page.wf, store.dag) /\ ~Plan(c, page.wf) => LastPlan(v, page.wf, store.dag)
        /\ NoPlan(calls, page.wf) /\ ~Plan(c, page.wf) => NoPlan(v, page.wf)
        /\ Plan(c, page.wf) /\ c.row.dag = store.dag => LastPlan(v, page.wf, store.dag)
        /\ Rereads(calls, page.wf) \/ Rereading(c, page.wf) => Rereads(v, page.wf)
    BY <2>1, AppendPlan
  <2> HIDE DEF v
  <2> QED BY <2>2, <2>3, <2>4 DEF Settles
<1> QED BY <1>1, <1>2

\* The autosave sends what the page shows.
LEMMA AutosaveTogether ==
    ASSUME PageInv, Together, Autosave
    PROVE  Together'
<1>1. /\ Up /\ timer = <<store.dag>> /\ timer[1] = store.dag /\ store.dag \in Plans
      /\ store \in Row /\ page.wf \in Workflows /\ calls \in Seq(Call)
  <2>1. timer # <<>> /\ Armament /\ Typed
    BY DEF PageInv, Autosave
  <2>2. Up /\ timer = <<store.dag>> /\ timer[1] = store.dag
    BY <2>1 DEF Armament
  <2>3. store \in Row /\ page.wf \in Workflows /\ calls \in Seq(Call)
    BY <2>1, <2>2 DEF Typed, Up
  <2>4. store.dag \in Plans
    BY <2>3 DEF Row
  <2> QED BY <2>2, <2>3, <2>4
<1> DEFINE row == [store EXCEPT !.dag = timer[1]]
<1>2. row \in Row /\ row.dag = store.dag
  BY <1>1, RowsTyped, EditorPageAssumption
<1>3. UNCHANGED <<db, page, store>> /\ timer' = <<>>
      /\ calls' = Append(calls, Ask("autosave", page.wf, row))
  BY DEF Autosave, Send
<1> HIDE DEF row
<1> DEFINE c == Ask("autosave", page.wf, row)
           v == Append(calls, c)
<1>4. c \in Call /\ Plan(c, page.wf) /\ c.row.dag = store.dag
  <2>1. "autosave" \in Reads \cup Writes
    BY DEF Writes
  <2> QED BY <1>1, <1>2, <2>1, AskTyped DEF Plan, PlanWrites
<1>5. calls' = v
  BY <1>3
<1> HIDE DEF c
<1>6. LastPlan(v, page.wf, store.dag)
  BY <1>1, <1>4, AppendPlan
<1> HIDE DEF v
<1> QED BY <1>3, <1>5, <1>6 DEF Together, Settles

\* What the user does: a plan that is made arms the autosave, a Save sends what the
\* page shows, and after a commit the server's is read.
LEMMA UserTogether ==
    ASSUME PageInv, Together,
           \/ EditNode \/ Draft \/ Rename \/ TypeGoal \/ Save \/ Run \/ Commit
           \/ \E d \in Dirs : ChooseDirectory(d)
    PROVE  Together'
<1>0. page.at = "shown" /\ store \in Row /\ page.wf \in Workflows /\ current \in Workflows
      /\ MaxMade \in Nat \ {0} /\ Blank \in Row
  <2>1. page.at = "shown"
    BY DEF EditNode, Draft, Rename, TypeGoal, Save, Run, Commit, ChooseDirectory, Editing, Click
  <2> QED BY <2>1, ShownFacts, RowsTyped
<1>1. CASE EditNode \/ Draft
  BY <1>0, <1>1 DEF EditNode, Draft, Armed, Together
<1>2. CASE Rename \/ TypeGoal
  <2> DEFINE n == made + 1
  <2>1. n \in 0 .. MaxMade
    <3>1. made \in 1 .. MaxMade /\ made < MaxMade
      BY <1>2 DEF Rename, TypeGoal, Editing, PageInv, Typed
    <3> QED BY <1>0, <3>1
  <2>2. /\ store' = [store EXCEPT !.name = n] \/ store' = [store EXCEPT !.goal = n]
        /\ calls' = calls \/ calls' = Append(calls, Ask("goal", current, store'))
        /\ UNCHANGED <<db, page, timer, stray, resaved>>
    BY <1>2 DEF Rename, TypeGoal, Send
  <2> HIDE DEF n
  <2>3. store' \in Row /\ store'.dag = store.dag
    <3>1. [store EXCEPT !.name = n] \in Row /\ [store EXCEPT !.name = n].dag = store.dag
      BY <1>0, <2>1, RowsTyped
    <3>2. [store EXCEPT !.goal = n] \in Row /\ [store EXCEPT !.goal = n].dag = store.dag
      BY <1>0, <2>1, RowsTyped
    <3> QED BY <2>2, <3>1, <3>2
  <2>4. "goal" \in Reads \cup Writes /\ "goal" \notin PlanWrites
    BY DEF Writes, PlanWrites
  <2> QED BY <1>0, <2>2, <2>3, <2>4, SentTogether
<1>3. ASSUME NEW d \in Dirs, ChooseDirectory(d)
      PROVE  Together'
  <2>1. store' = [store EXCEPT !.dir = d] /\ UNCHANGED <<db, page, timer, stray, resaved>>
        /\ \E op \in {"firstdir", "dir"} : calls' = Append(calls, Ask(op, current, store'))
    BY <1>3 DEF ChooseDirectory, Send
  <2>2. store' \in Row /\ store'.dag = store.dag
    BY <1>0, <2>1, RowsTyped
  <2>3. \A op \in {"firstdir", "dir"} : op \in Reads \cup Writes /\ op \notin PlanWrites
    BY DEF Writes, PlanWrites
  <2> QED BY <1>0, <2>1, <2>2, <2>3, SentTogether
<1>4. CASE Save \/ Run
  <2>1. UNCHANGED <<db, page, store, timer, stray, resaved>>
        /\ \E op \in {"save", "trigger"}, row \in {store, Blank} :
              calls' = Append(calls, Ask(op, page.wf, row)) /\ (op = "save" => row = store)
    BY <1>4 DEF Save, Run, Send
  <2>2. \A op \in {"save", "trigger"} : op \in Reads \cup Writes /\ (op \in PlanWrites => op = "save")
    BY DEF Reads, Writes, PlanWrites
  <2> QED BY <1>0, <2>1, <2>2, SentTogether
<1>5. CASE Commit
  <2> DEFINE c == Ask("reread", page.wf, Blank)
             v == Append(calls, c)
  <2>1. "reread" \in Reads \cup Writes /\ calls \in Seq(Call)
    BY DEF Reads, PageInv, Typed
  <2>2. c \in Call /\ Rereading(c, page.wf)
    BY <1>0, <2>1, AskTyped DEF Rereading
  <2>3. calls' = v /\ UNCHANGED <<page, store, timer, stray, resaved>>
    BY <1>5 DEF Commit, Send
  <2> HIDE DEF c
  <2>4. Rereads(v, page.wf)
    BY <2>1, <2>2, AppendPlan
  <2> HIDE DEF v
  <2>5. Settles'
    BY <2>3, <2>4 DEF Settles
  <2> QED BY <2>3, <2>5, StillTogether
<1> QED BY <1>1, <1>2, <1>3, <1>4, <1>5

\* What a request makes of a row: a plan that saves is taken, or refused as empty; no
\* row becomes a draft again.
LEMMA UpdateSettles ==
    ASSUME NEW row \in Row, NEW op, NEW body \in Row
    PROVE  /\ op \notin PlanWrites => Update(row, op, body).dag = row.dag
           /\ op \in PlanWrites => \/ Update(row, op, body).dag = body.dag
                                   \/ body.dag = Empty /\ Update(row, op, body).phase # "draft"
           /\ row.phase # "draft" => Update(row, op, body).phase # "draft"
<1>1. CASE op \in PlanWrites
  <2> DEFINE n == body.name
             d == IF Protected(row, body.dag) THEN row.dag ELSE body.dag
             r == [row EXCEPT !.name = n, !.dag = d]
  <2>1. d = body.dag \/ (body.dag = Empty /\ row.phase = "planning")
    BY DEF Protected
  <2>2. Update(row, op, body) = r
    BY <1>1 DEF Update, PlanWrites
  <2> HIDE DEF n, d
  <2>3. r.dag = d /\ r.phase = row.phase
    BY DEF Row
  <2> QED BY <1>1, <2>1, <2>2, <2>3
<1>2. CASE op \notin PlanWrites
  <2>1. \/ Update(row, op, body) = [row EXCEPT !.goal = body.goal]
        \/ Update(row, op, body) = [row EXCEPT !.dir = body.dir]
        \/ \E ph \in {"review", "planning"} : Update(row, op, body) = [row EXCEPT !.phase = ph]
        \/ Update(row, op, body) = row
    BY <1>2 DEF Update, PlanWrites
  <2>2. /\ [row EXCEPT !.goal = body.goal].dag = row.dag /\ [row EXCEPT !.goal = body.goal].phase = row.phase
        /\ [row EXCEPT !.dir = body.dir].dag = row.dag /\ [row EXCEPT !.dir = body.dir].phase = row.phase
    BY DEF Row
  <2>3. \A ph \in {"review", "planning"} :
          [row EXCEPT !.phase = ph].dag = row.dag /\ [row EXCEPT !.phase = ph].phase = ph
    BY DEF Row
  <2> QED BY <1>2, <2>1, <2>2, <2>3
<1> QED BY <1>1, <1>2

\* The server handles the first write of the page's plan, or another request.
LEMMA ServeTogether ==
    ASSUME PageInv, Together, Sure, NEW i \in DOMAIN calls, Serve(i)
    PROVE  Together'
<1> DEFINE c == calls[i]
           row == Update(db[c.wf], c.op, c.row)
           st == IF c.op = "assess" /\ row.phase = "review" THEN "failed" ELSE "ok"
           answer == IF c.op \in Reads THEN row ELSE c.row
           d == [c EXCEPT !.st = st, !.row = answer]
           v == [calls EXCEPT ![i] = d]
<1>1. c \in Call /\ calls \in Seq(Call) /\ db \in [Workflows -> Row] /\ c.op \in Reads \cup Writes
      /\ c.wf \in Workflows /\ c.row \in Row /\ db[c.wf] \in Row /\ c.st = "sent"
  <2>1. c \in Call /\ calls \in Seq(Call) /\ db \in [Workflows -> Row]
    BY InFlight DEF PageInv, Typed
  <2> QED BY <2>1, CallFields DEF Serve
<1>2. /\ db' = [db EXCEPT ![c.wf] = row] /\ calls' = v
      /\ UNCHANGED <<page, store, timer, stray, resaved>>
  BY DEF Serve
<1>3. c.op \in PlanWrites => \A j \in DOMAIN calls : j < i => ~Plan(calls[j], page.wf)
  <2>1. PlanWrites \subseteq Writes
    BY DEF PlanWrites, Writes
  <2>2. c.op \in Writes => \A j \in 1 .. i - 1 : calls[j].op \in Writes => calls[j].st # "sent"
    BY DEF Serve, MayServe, Sure
  <2>3. \A j \in DOMAIN calls : j < i => j \in 1 .. i - 1
    BY <1>1
  <2> QED BY <2>1, <2>2, <2>3 DEF Plan
<1> HIDE DEF c
<1>4. row \in Row
  BY <1>1, UpdateEffect
<1>5. /\ c.op \notin PlanWrites => row.dag = db[c.wf].dag
      /\ c.op \in PlanWrites => row.dag = c.row.dag \/ (c.row.dag = Empty /\ row.phase # "draft")
      /\ db[c.wf].phase # "draft" => row.phase # "draft"
  BY <1>1, UpdateSettles
<1> HIDE DEF row
<1>6. answer \in Row /\ st \in {"ok", "failed"} /\ (c.op = "reread" => st = "ok")
  BY <1>1, <1>4
<1> HIDE DEF answer, st
<1>7. d \in Call /\ d.op = c.op /\ d.wf = c.wf /\ d.st = st
  BY <1>1, <1>6 DEF Call
<1> HIDE DEF d
<1>8. ~Plan(d, page.wf) /\ (Rereading(c, page.wf) => Rereading(d, page.wf))
  BY <1>6, <1>7 DEF Plan, Rereading
<1>9. /\ LastPlan(calls, page.wf, store.dag) /\ ~Plan(c, page.wf) => LastPlan(v, page.wf, store.dag)
      /\ LastPlan(calls, page.wf, store.dag) /\ (\A j \in DOMAIN calls : j < i => ~Plan(calls[j], page.wf)) =>
           LastPlan(v, page.wf, store.dag) \/ (NoPlan(v, page.wf) /\ Plan(c, page.wf) /\ c.row.dag = store.dag)
      /\ NoPlan(calls, page.wf) => NoPlan(v, page.wf)
      /\ Rereads(calls, page.wf) => Rereads(v, page.wf)
  BY <1>1, <1>7, <1>8, ServePlan DEF c
<1> HIDE DEF v
<1> SUFFICES ASSUME Watched, Settles PROVE Settles'
  BY <1>2, StillTogether
<1>10. page.wf \in Workflows
  BY DEF Watched, PageInv, Typed
<1>11. /\ db'[page.wf] = IF page.wf = c.wf THEN row ELSE db[page.wf]
       /\ page.wf # c.wf => ~Plan(c, page.wf)
  BY <1>1, <1>2, <1>10 DEF Plan
<1>12. Plan(c, page.wf) => c.op \in PlanWrites /\ c.wf = page.wf
  BY DEF Plan
<1>13. CASE LastPlan(calls, page.wf, store.dag)
  <2>1. CASE LastPlan(v, page.wf, store.dag)
    BY <1>2, <2>1 DEF Settles
  <2>2. CASE NoPlan(v, page.wf) /\ Plan(c, page.wf) /\ c.row.dag = store.dag
    BY <1>2, <1>5, <1>11, <1>12, <2>2 DEF Settles
  <2> QED BY <1>3, <1>9, <1>12, <1>13, <2>1, <2>2
<1>14. CASE NoPlan(calls, page.wf) /\ db[page.wf].dag = store.dag
  <2>1. c.wf = page.wf => c.op \notin PlanWrites
    BY <1>1, <1>14 DEF NoPlan, Plan, c
  <2>2. db'[page.wf].dag = store.dag
    BY <1>5, <1>11, <1>14, <2>1
  <2> QED BY <1>2, <1>9, <1>14, <2>2 DEF Settles
<1>15. CASE Rereads(calls, page.wf)
  BY <1>2, <1>9, <1>15 DEF Settles
<1>16. CASE store.dag = Empty /\ db[page.wf].phase # "draft"
  BY <1>2, <1>5, <1>11, <1>16 DEF Settles
<1> QED BY <1>13, <1>14, <1>15, <1>16 DEF Settles

\* Neither a write of a plan nor a read after a commit is lost.
LEMMA FailTogether ==
    ASSUME PageInv, Together, Sure, NEW i \in DOMAIN calls, Fail(i)
    PROVE  Together'
<1> DEFINE c == calls[i]
           d == [c EXCEPT !.st = "failed"]
           v == [calls EXCEPT ![i] = d]
<1>1. c \in Call /\ calls \in Seq(Call) /\ c.op \notin PlanWrites /\ c.op # "reread"
  BY InFlight DEF PageInv, Typed, Fail, Sure
<1>2. calls' = v /\ UNCHANGED <<db, page, store, timer, stray, resaved>>
  BY DEF Fail
<1> HIDE DEF c
<1>3. d \in Call /\ d.op = c.op
  BY <1>1 DEF Call
<1> HIDE DEF d
<1>4. ~Plan(d, page.wf) /\ ~Plan(c, page.wf) /\ ~Rereading(c, page.wf)
  BY <1>1, <1>3 DEF Plan, Rereading
<1>5. /\ LastPlan(calls, page.wf, store.dag) => LastPlan(v, page.wf, store.dag)
      /\ NoPlan(calls, page.wf) => NoPlan(v, page.wf)
      /\ Rereads(calls, page.wf) => Rereads(v, page.wf)
  BY <1>1, <1>3, <1>4, ServePlan DEF c
<1> HIDE DEF v
<1>6. Settles => Settles'
  BY <1>2, <1>5 DEF Settles
<1> QED BY <1>2, <1>6, StillTogether

\* An answer is handled: a plan that is read arms the autosave, a second save sends
\* what the page shows or is marked, and a page that comes up is armed.
LEMMA AnswerTogether ==
    ASSUME PageInv, Together, NEW i \in DOMAIN calls, Answer(i)
    PROVE  Together'
<1> DEFINE c == calls[i]
           next == Follows(c)
           u == RemoveAt(calls, i)
<1>1. c \in Call /\ Fine(c) /\ calls \in Seq(Call) /\ c.op \in Reads \cup Writes /\ c.wf \in Workflows
      /\ c.row \in Row /\ c.st \in {"ok", "failed"} /\ UNCHANGED db
      /\ (page.at = "shown" => page.wf \in Workflows)
  <2>1. c \in Call /\ Fine(c) /\ calls \in Seq(Call) /\ (page.at = "shown" => page.wf \in Workflows)
    BY InFlight DEF PageInv, Typed
  <2> QED BY <2>1, CallFields DEF Answer
<1>2. ~Plan(c, page.wf)
  BY <1>1 DEF Plan
<1>3. /\ u \in Seq(Call)
      /\ LastPlan(calls, page.wf, store.dag) => LastPlan(u, page.wf, store.dag)
      /\ NoPlan(calls, page.wf) => NoPlan(u, page.wf)
      /\ Rereads(calls, page.wf) /\ ~Rereading(c, page.wf) => Rereads(u, page.wf)
  BY <1>1, <1>2, RemovePlan
<1>4. ASSUME calls' = u, UNCHANGED <<page, store, timer, stray, resaved>>, ~Rereading(c, page.wf)
      PROVE  Together'
  <2> HIDE DEF u, c
  <2>1. Settles => Settles'
    BY <1>1, <1>3, <1>4 DEF Settles
  <2> QED BY <1>4, <2>1, StillTogether
<1>5. CASE c.op \in {"load", "runs"}
  <2>1. LoadAnswer(i, c) /\ UNCHANGED resaved
    BY <1>1, <1>5 DEF Answer, Reads, Writes
  <2>2. CASE ~c.live
    <3>1. calls' = u /\ UNCHANGED <<page, store, timer, stray>>
      BY <2>1, <2>2 DEF LoadAnswer
    <3> QED BY <1>4, <1>5, <2>1, <3>1 DEF Rereading
  <2>3. CASE c.live
    <3>1. page.at = "loading"
      BY <1>1, <1>5, <2>3 DEF Fine, Live, Loads
    <3>2. UNCHANGED page \/ (page'.at = "shown" /\ timer' = <<store'.dag>>) \/ page'.at = "error"
      <4>1. CASE UNCHANGED page
        BY <4>1
      <4>2. CASE page' # page
        <5>1. /\ page' = [page EXCEPT !.at = IF c.st = "ok" THEN "shown" ELSE "error"]
              /\ timer' = Armed(page'.at, store.dag) /\ UNCHANGED store
          BY <2>1, <2>3, <4>2 DEF LoadAnswer
        <5>2. page \in [wf: Workflows \cup {NoWorkflow}, at: {"away", "loading", "shown", "error"}]
          BY DEF PageInv, Typed
        <5> DEFINE a == IF c.st = "ok" THEN "shown" ELSE "error"
        <5>3. page'.at = a /\ a \in {"shown", "error"}
          BY <5>1, <5>2
        <5>4. timer' = <<store'.dag>>
          BY <5>1, <5>3 DEF Armed
        <5> QED BY <5>3, <5>4
      <4> QED BY <4>1, <4>2
    <3> QED BY <3>1, <3>2 DEF Together, Watched
  <2> QED BY <2>2, <2>3
<1>6. CASE /\ next # "" /\ c.op \notin {"load", "runs"} /\ GoesOn(i, next, c.wf, c.row)
           /\ resaved' = IF next = "resave" /\ <<c.wf, c.row.dag>> # <<page.wf, store.dag>>
                         THEN resaved \cup {c.wf} ELSE resaved
           /\ UNCHANGED <<page, store, timer, stray>>
  <2> DEFINE r == Ask(next, c.wf, c.row)
             v == Append(u, r)
  <2>1. next \in Reads \cup Writes /\ (next \in PlanWrites => next = "resave") /\ c.op # "reread"
    BY <1>6 DEF Follows, Reads, Writes, PlanWrites
  <2>2. resaved \subseteq resaved'
        /\ (next = "resave" /\ <<c.wf, c.row.dag>> # <<page.wf, store.dag>> => c.wf \in resaved')
    BY <1>6
  <2>3. calls' = v
    BY <1>6 DEF GoesOn
  <2> HIDE DEF next, u, c
  <2>4. r \in Call /\ r.op = next /\ r.wf = c.wf /\ r.row = c.row /\ r.st = "sent"
    BY <1>1, <2>1, AskTyped
  <2> HIDE DEF r
  <2>5. /\ LastPlan(u, page.wf, store.dag) /\ ~Plan(r, page.wf) => LastPlan(v, page.wf, store.dag)
        /\ NoPlan(u, page.wf) /\ ~Plan(r, page.wf) => NoPlan(v, page.wf)
        /\ Plan(r, page.wf) /\ r.row.dag = store.dag => LastPlan(v, page.wf, store.dag)
        /\ Rereads(u, page.wf) => Rereads(v, page.wf)
    BY <1>3, <2>4, AppendPlan
  <2> HIDE DEF v
  <2>6. Plan(r, page.wf) => next = "resave" /\ c.wf = page.wf
    BY <2>1, <2>4 DEF Plan
  <2>7. CASE Plan(r, page.wf) /\ r.row.dag # store.dag
    <3>1. page.wf \in resaved'
      BY <2>2, <2>4, <2>6, <2>7
    <3> QED BY <1>6, <3>1 DEF Together, Watched
  <2>8. CASE ~(Plan(r, page.wf) /\ r.row.dag # store.dag)
    <3>1. ~Rereading(c, page.wf)
      BY <2>1 DEF Rereading
    <3>2. Settles => Settles'
      BY <1>1, <1>3, <1>6, <2>3, <2>5, <2>8, <3>1 DEF Settles
    <3> QED BY <1>6, <2>2, <3>2, StillTogether
  <2> QED BY <2>7, <2>8
<1>7. CASE Holds(c.wf, c.row) /\ UNCHANGED page
  <2> DEFINE n == store.name
             t == [c.row EXCEPT !.name = n]
  <2>1. store' = t /\ timer' = Armed(page.at, c.row.dag)
        /\ stray' = IF page.at # "away" /\ page.wf # c.wf THEN stray \cup {page.wf} ELSE stray
    BY <1>7 DEF Holds
  <2> HIDE DEF n, c
  <2>2. t.dag = c.row.dag
    BY <1>1 DEF Row
  <2> HIDE DEF t
  <2>3. page.at = "shown" => timer' = <<store'.dag>>
    BY <2>1, <2>2 DEF Armed
  <2> QED BY <1>7, <2>3 DEF Together, Watched
<1>8. CASE /\ calls' = u /\ (c.op \in Writes \/ c.st = "failed")
           /\ UNCHANGED <<page, store, timer, stray, resaved>>
  <2>1. ~Rereading(c, page.wf)
    BY <1>8 DEF Rereading, Writes
  <2> QED BY <1>4, <1>8, <2>1
<1>9. \/ c.op \in {"load", "runs"}
      \/ /\ next # "" /\ c.op \notin {"load", "runs"} /\ GoesOn(i, next, c.wf, c.row)
         /\ resaved' = IF next = "resave" /\ <<c.wf, c.row.dag>> # <<page.wf, store.dag>>
                       THEN resaved \cup {c.wf} ELSE resaved
         /\ UNCHANGED <<page, store, timer, stray>>
      \/ Holds(c.wf, c.row) /\ UNCHANGED page
      \/ /\ calls' = u /\ (c.op \in Writes \/ c.st = "failed")
         /\ UNCHANGED <<page, store, timer, stray, resaved>>
  BY DEF Answer
<1> QED BY <1>5, <1>6, <1>7, <1>8, <1>9

\* A page that is opened loads, one that is left shows nothing.
LEMMA TurnTogether ==
    ASSUME PageInv, Leave \/ \E w \in Workflows : Open(w)
    PROVE  Together'
<1>1. page'.at # "shown"
  BY DEF Open, Leave, PageInv, Typed
<1> QED BY <1>1 DEF Together, Watched

\* The page and the server never come apart for good, for any workflows, plans and
\* number of requests, as long as writes keep their order and those of a plan arrive
\* (WorkflowEditor.tsx, Toolbar.tsx, PlannerChatTab.tsx).
THEOREM NeverApartHolds ==
    ASSUME Sure
    PROVE  Spec => []NeverApart
<1>1. Init => Together
  BY DEF Init, Together, Watched
<1>2. PageInv /\ Together /\ [Next]_vars => Together'
  <2> SUFFICES ASSUME PageInv, Together, [Next]_vars PROVE Together'
    OBVIOUS
  <2>1. CASE UNCHANGED vars
    <3>1. UNCHANGED <<db, page, store, timer, calls, stray, resaved>>
      BY <2>1 DEF vars, bounds
    <3>2. Settles => Settles'
      BY <3>1 DEF Settles
    <3> QED BY <3>1, <3>2, StillTogether
  <2> QED BY <2>1, Sure, TurnTogether, AutosaveTogether, ServeTogether, FailTogether,
             AnswerTogether, UserTogether DEF Next, Dirs
<1> QED BY <1>1, <1>2, PageInvariant, TogetherMeans, PTL DEF Spec
=============================================================================
