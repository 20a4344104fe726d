---------------------------- MODULE Board_proofs ----------------------------
(***************************************************************************)
(* Proofs about Board: the types, and that a new task comes up on the     *)
(* board of its run only.  A fetch whose effect is still there asks for    *)
(* the run that is followed, a search lists the tasks of the run it has    *)
(* found, a task is created in the run that was asked, and a form that is  *)
(* submitted has its leaf.                                                 *)
(***************************************************************************)
EXTENDS Board, Filters, TLAPS

\* A request asks for the run that is followed, if its effect is still there; a
\* search has found a run when it lists tasks; a task is created in its run.
OwnAsk(c) ==
    /\ c.op # "scan" => c.run \in Runs
    /\ c.op = "fetch" /\ c.live => c.run = Followed0
    /\ c.op = "scan" /\ Any(c) => c.run \in Runs /\ c.answered /\ c.step = "second"
    /\ c.op = "create" /\ c.answered /\ c.ok => RunOf(c.task) = c.run
OwnAsks == \A c \in calls : OwnAsk(c)

\* A leaf that is edited is there.
LeafThere == form.kind # "none" => Shown(form.task)

BoardInv == TypeOK /\ OwnAsks /\ LeafThere

\* What NewOnesOwn says of a step.
Created(t) == \E c \in calls \ calls' : c.op = "create" /\ c.task = t
NewOwn == \A t \in Tasks :
    ~Shown(t) /\ tasks'[t] # Absent => RunOf(t) = Followed(current', runId') \/ Created(t)

-----------------------------------------------------------------------------
(* Requests and tasks.                                                     *)

\* Of some numbers up to a bound one is the greatest.
LEMMA Greatest ==
    ASSUME NEW n \in Nat, NEW S \in SUBSET (1 .. n), S # {}
    PROVE  \E r \in S : \A q \in S : q <= r
<1> DEFINE D == {n - r : r \in S}
<1>1. \A r \in S : n - r \in Nat /\ r \in Int
  OBVIOUS
<1>2. D \subseteq Nat /\ D # {}
  BY <1>1
<1>3. PICK m \in D : \A k \in D : m <= k
  <2> HIDE DEF D
  <2> QED BY <1>2, Least
<1>4. PICK r \in S : m = n - r
  OBVIOUS
<1>5. \A q \in S : n - r <= n - q
  BY <1>3, <1>4
<1>6. \A q \in S : q <= r
  BY <1>1, <1>5
<1> QED BY <1>6

\* The first task of the first run, and a task that is not there.
LEMMA Basics ==
    /\ <<1, 1>> \in Tasks /\ Absent \in Task /\ None \in [1 .. PerRun -> Task]
    /\ Bare \in [Tasks -> Task] /\ 0 \in 0 .. MaxTitle /\ NoForm \in Form /\ NoForm.kind = "none"
    /\ MaxRuns \in Nat /\ PerRun \in Nat /\ MaxTitle \in Nat /\ NoRun \notin Runs
<1>1. MaxRuns \in Nat \ {0} /\ PerRun \in Nat \ {0} /\ MaxTitle \in Nat
  BY BoardAssumption
<1>2. 1 \in 1 .. MaxRuns /\ 1 \in 1 .. PerRun /\ 0 \in 0 .. MaxTitle
  BY <1>1
<1>3. <<1, 1>> \in Tasks
  BY <1>2 DEF Tasks, Runs
<1>4. Absent \in Task
  BY <1>2 DEF Absent, Task
<1>5. None \in [1 .. PerRun -> Task] /\ Bare \in [Tasks -> Task]
  BY <1>4 DEF None, Bare
<1>6. NoForm \in Form /\ NoForm.kind = "none"
  BY <1>2, <1>3 DEF NoForm, Form
<1>7. NoRun \notin Runs
  BY <1>1 DEF NoRun, Runs
<1> QED BY <1>1, <1>2, <1>3, <1>4, <1>5, <1>6, <1>7

\* A task is the n-th of its run.
LEMMA TaskParts ==
    /\ \A t \in Tasks : RunOf(t) \in Runs /\ t[2] \in 1 .. PerRun /\ t = <<RunOf(t), t[2]>>
    /\ \A r \in Runs, n \in 1 .. PerRun :
          <<r, n>> \in Tasks /\ RunOf(<<r, n>>) = r /\ <<r, n>>[2] = n
BY DEF Tasks, RunOf

\* The fields of a request.
LEMMA RequestFields ==
    ASSUME NEW c \in Request
    PROVE  /\ c.op \in Ops /\ c.step \in {"first", "second"} /\ c.run \in Runs \cup {NoRun}
           /\ c.task \in Tasks /\ c.title \in 0 .. MaxTitle /\ c.live \in BOOLEAN
           /\ c.answered \in BOOLEAN /\ c.ok \in BOOLEAN
           /\ c.list \in [1 .. PerRun -> Task] /\ c.heard \in [1 .. PerRun -> BOOLEAN]
BY DEF Request

\* A request that is sent lists nothing yet.
LEMMA AskFacts ==
    ASSUME NEW op \in Ops, NEW r \in Runs \cup {NoRun}, NEW t \in Tasks, NEW title \in 0 .. MaxTitle
    PROVE  LET c == Ask(op, r, t, title)
           IN  c \in Request /\ c.op = op /\ c.run = r /\ ~c.answered /\ ~Any(c)
<1> DEFINE deaf == [n \in 1 .. PerRun |-> FALSE]
           list == None
           c == [op |-> op, step |-> "first", run |-> r, task |-> t, title |-> title,
                 live |-> TRUE, answered |-> FALSE, ok |-> FALSE, list |-> list, heard |-> deaf]
<1>1. deaf \in [1 .. PerRun -> BOOLEAN]
  OBVIOUS
<1>2. list \in [1 .. PerRun -> Task] /\ \A n \in 1 .. PerRun : list[n] = Absent
  BY Basics DEF None
<1>3. Ask(op, r, t, title) = c
  BY DEF Ask
<1> HIDE DEF deaf, list
<1>4. c \in Request /\ c.op = op /\ c.run = r /\ ~c.answered /\ c.list = list
  BY <1>1, <1>2 DEF Request
<1> HIDE DEF c
<1>5. ~Any(c)
  BY <1>2, <1>4 DEF Any
<1> QED BY <1>3, <1>4, <1>5

\* Requests that are disowned, go on or are answered.
LEMMA RequestUpdates ==
    ASSUME NEW c \in Request
    PROVE  /\ LET d == [c EXCEPT !.live = FALSE]
              IN  /\ d \in Request /\ d.op = c.op /\ d.run = c.run /\ d.task = c.task /\ d.step = c.step
                  /\ d.answered = c.answered /\ d.ok = c.ok /\ d.list = c.list /\ ~d.live
           /\ LET d == [c EXCEPT !.step = "second", !.answered = FALSE]
              IN  /\ d \in Request /\ d.op = c.op /\ d.run = c.run /\ d.task = c.task
                  /\ d.live = c.live /\ d.list = c.list /\ ~d.answered
           /\ LET d == [c EXCEPT !.answered = TRUE]
              IN  /\ d \in Request /\ d.op = c.op /\ d.run = c.run /\ d.task = c.task /\ d.step = c.step
                  /\ d.live = c.live /\ d.ok = c.ok /\ d.list = c.list /\ d.answered
           /\ LET d == [c EXCEPT !.ok = FALSE]
              IN  /\ d \in Request /\ d.op = c.op /\ d.run = c.run /\ d.step = c.step
                  /\ d.live = c.live /\ d.list = c.list /\ ~d.ok
<1> DEFINE list == c.list
           heard == c.heard
<1>1. list \in [1 .. PerRun -> Task] /\ heard \in [1 .. PerRun -> BOOLEAN]
  BY RequestFields
<1> QED BY DEF Request

\* What a list makes of the board: tasks of one run, and some if there are any.
LEMMA ListedFacts ==
    ASSUME NEW c \in Request
    PROVE  /\ Listed(c) \in [Tasks -> Task]
           /\ \A t \in Tasks : Listed(c)[t] # Absent => RunOf(t) = c.run
<1>1. c.list \in [1 .. PerRun -> Task] /\ Absent \in Task
  BY RequestFields, Basics
<1>2. \A t \in Tasks : t[2] \in 1 .. PerRun
  BY TaskParts
<1> QED BY <1>1, <1>2 DEF Listed

\* What is left of a form has its leaf.
LEMMA FormFacts ==
    ASSUME form \in Form, NEW new \in [Tasks -> Task], NEW v
    PROVE  /\ FormAfter(new, v) \in Form
           /\ FormAfter(new, v).kind # "none" => new[FormAfter(new, v).task] # Absent
<1>1. form.kind \in {"none", "edit", "assign"} /\ form.task \in Tasks /\ form.title \in 0 .. MaxTitle
  BY DEF Form
<1> DEFINE n == new[form.task].title
           f == [form EXCEPT !.title = n]
<1>2. n \in 0 .. MaxTitle
  BY <1>1 DEF Task
<1>3. FormAfter(new, v) = NoForm \/ (new[form.task] # Absent /\ FormAfter(new, v) \in {form, f})
  BY DEF FormAfter
<1> HIDE DEF n
<1>4. f \in Form /\ f.kind = form.kind /\ f.task = form.task
  BY <1>1, <1>2 DEF Form
<1> HIDE DEF f
<1> QED BY <1>3, <1>4, Basics
-----------------------------------------------------------------------------
(* The steps.                                                              *)

\* A step shows nothing new, or tasks of the run that is followed, or a created one.
LEMMA Assemble ==
    ASSUME TypeOK', OwnAsks', LeafThere',
           \A t \in Tasks : tasks'[t] # Absent =>
              Shown(t) \/ RunOf(t) = Followed(current', runId') \/ Created(t)
    PROVE  BoardInv' /\ NewOwn
BY DEF BoardInv, NewOwn

\* A step that leaves the followed run alone leaves a request what it is.
LEMMA OwnStays ==
    ASSUME UNCHANGED <<current, runId>>
    PROVE  \A c : OwnAsk(c)' <=> OwnAsk(c)
BY DEF OwnAsk, Followed0, Any

\* A change of what the board follows: the requests of the effects are disowned,
\* and the new run is asked for, or searched.
LEMMA RerenderFacts ==
    ASSUME BoardInv, NEW c2 \in Runs \cup {NoRun}, NEW r2 \in Runs \cup {NoRun},
           NEW s2, NEW v \in Views, NEW cs \in SUBSET calls, Rerender(c2, r2, s2, v, cs)
    PROVE  /\ current' = c2 /\ runId' = r2 /\ status' = s2 /\ view' \in Views
           /\ calls' \subseteq Request /\ OwnAsks'
<1> DEFINE f == Followed(c2, r2)
           op == IF f = NoRun THEN "scan" ELSE "fetch"
           new == AskList(op, f)
           off(c) == [c EXCEPT !.live = FALSE]
           moved == \/ <<c2, r2, s2>> # <<current, runId, status>>
                    \/ Board(TabFor(s2, v)) # Board(view) \/ page' # page
<1>1. /\ current' = c2 /\ runId' = r2 /\ status' = s2 /\ view' = TabFor(s2, v)
      /\ calls' \subseteq (IF moved THEN Disown(cs) ELSE cs) \cup {new}
  BY DEF Rerender
<1>2. view' \in Views
  BY <1>1 DEF TabFor, Views
<1>3. /\ calls \subseteq Request /\ \A c \in cs : c \in Request /\ OwnAsk(c)
  BY DEF BoardInv, TypeOK, OwnAsks
<1>4. f \in Runs \cup {NoRun} /\ op \in Ops /\ (op # "scan" => f \in Runs)
  BY DEF Followed, Ops
<1>5. f = Followed0'
  BY <1>1 DEF Followed0
<1> HIDE DEF f
<1>6. new \in Request /\ new.op = op /\ new.run = f /\ ~new.answered /\ ~Any(new)
  BY <1>4, AskFacts, Basics DEF AskList
<1> HIDE DEF new
<1>7. OwnAsk(new)'
  <2>1. OwnAsk(new)' = (/\ new.op # "scan" => new.run \in Runs
                        /\ new.op = "fetch" /\ new.live => new.run = Followed0'
                        /\ new.op = "scan" /\ Any(new) => new.run \in Runs /\ new.answered /\ new.step = "second"
                        /\ new.op = "create" /\ new.answered /\ new.ok => RunOf(new.task) = new.run)
    BY DEF OwnAsk, Any, new
  <2> QED BY <1>4, <1>5, <1>6, <2>1
<1>8. ASSUME moved, NEW d \in Disown(cs)
      PROVE  d \in Request /\ OwnAsk(d)'
  <2>1. PICK c \in cs : d = IF c.op \in {"scan", "fetch"} THEN off(c) ELSE c
    BY <1>8 DEF Disown
  <2>2. c \in Request /\ OwnAsk(c)
    BY <1>3
  <2>3. /\ d \in Request /\ d.op = c.op /\ d.run = c.run /\ d.task = c.task /\ d.step = c.step
        /\ d.answered = c.answered /\ d.ok = c.ok /\ d.list = c.list
        /\ c.op = "fetch" => ~d.live
    BY <2>1, <2>2, RequestUpdates
  <2>4. Any(d) <=> Any(c)
    BY <2>3 DEF Any
  <2> QED BY <2>2, <2>3, <2>4 DEF OwnAsk, Any
<1>9. ASSUME ~moved, NEW d \in cs
      PROVE  d \in Request /\ OwnAsk(d)'
  <2>1. UNCHANGED <<current, runId>>
    BY <1>1, <1>9
  <2> QED BY <1>3, <2>1, OwnStays
<1>10. \A d \in calls' : d \in Request /\ OwnAsk(d)'
  <2> HIDE DEF moved
  <2> QED BY <1>1, <1>6, <1>7, <1>8, <1>9
<1> QED BY <1>1, <1>2, <1>10 DEF OwnAsks

\* The board follows something else and shows what it showed, or a list, or nothing.
LEMMA FollowInv ==
    ASSUME BoardInv, NEW c2 \in Runs \cup {NoRun}, NEW r2 \in Runs \cup {NoRun},
           NEW s2 \in {"idle", "running", "ended"}, NEW v \in Views, NEW cs \in SUBSET calls,
           Rerender(c2, r2, s2, v, cs),
           rs' \in [Runs -> {"none", "running", "ended"}], UNCHANGED <<db, said>>,
           page' \in {"away", "loading", "open"}, clicks' \in 0 .. MaxClicks,
           talk' \in [Tasks -> SUBSET {"sent", "local"}],
           NEW new \in [Tasks -> Task], tasks' = new,
           form' = FormAfter(new, view') \/ form' = NoForm,
           \A t \in Tasks : new[t] # Absent => Shown(t) \/ RunOf(t) = Followed(c2, r2)
    PROVE  BoardInv' /\ NewOwn
<1>1. /\ current' = c2 /\ runId' = r2 /\ status' = s2 /\ view' \in Views
      /\ calls' \subseteq Request /\ OwnAsks'
  BY RerenderFacts
<1>2. form' \in Form /\ (form'.kind # "none" => new[form'.task] # Absent)
  <2>1. form \in Form
    BY DEF BoardInv, TypeOK
  <2>2. \A x : x = view' =>
          /\ FormAfter(new, x) \in Form
          /\ FormAfter(new, x).kind # "none" => new[FormAfter(new, x).task] # Absent
    BY <2>1, FormFacts
  <2> QED BY <2>2, Basics
<1>3. TypeOK'
  BY <1>1, <1>2 DEF BoardInv, TypeOK
<1>4. LeafThere'
  BY <1>2 DEF LeafThere, Shown
<1> QED BY <1>1, <1>3, <1>4, Assemble
\* The board stays where it is; requests come and go, tasks and forms change.
LEMMA StayInv ==
    ASSUME BoardInv, UNCHANGED <<page, follow>>,
           rs' \in [Runs -> {"none", "running", "ended"}], db' \in [Tasks -> Task],
           said' \in [Tasks -> BOOLEAN], clicks' \in 0 .. MaxClicks,
           talk' \in [Tasks -> SUBSET {"sent", "local"}],
           tasks' \in [Tasks -> Task], form' \in Form,
           form'.kind # "none" => tasks'[form'.task] # Absent,
           calls' \subseteq Request, \A c \in calls' : OwnAsk(c),
           \A t \in Tasks : tasks'[t] # Absent =>
              Shown(t) \/ RunOf(t) = Followed0 \/ Created(t)
    PROVE  BoardInv' /\ NewOwn
<1>1. OwnAsks'
  BY OwnStays DEF OwnAsks, follow
<1>2. TypeOK'
  BY DEF BoardInv, TypeOK, follow
<1>3. LeafThere'
  BY DEF LeafThere, Shown
<1>4. Followed0 = Followed(current', runId')
  BY DEF Followed0, follow
<1> QED BY <1>1, <1>2, <1>3, <1>4, Assemble

\* What every step may use.
LEMMA Now ==
    ASSUME BoardInv
    PROVE  /\ rs \in [Runs -> {"none", "running", "ended"}] /\ db \in [Tasks -> Task]
           /\ said \in [Tasks -> BOOLEAN] /\ page \in {"away", "loading", "open"} /\ view \in Views
           /\ runId \in Runs \cup {NoRun} /\ current \in Runs \cup {NoRun}
           /\ Followed0 \in Runs \cup {NoRun}
           /\ status \in {"idle", "running", "ended"} /\ tasks \in [Tasks -> Task]
           /\ talk \in [Tasks -> SUBSET {"sent", "local"}] /\ form \in Form
           /\ form.kind # "none" => tasks[form.task] # Absent
           /\ calls \subseteq Request /\ clicks \in 0 .. MaxClicks
           /\ \A c \in calls : c \in Request /\ OwnAsk(c)
BY DEF BoardInv, TypeOK, OwnAsks, LeafThere, Shown, Followed0, Followed

\* Only the requests, and the server, change.
LEMMA CallsInv ==
    ASSUME BoardInv, UNCHANGED <<page, follow, store, form>>,
           rs' \in [Runs -> {"none", "running", "ended"}], db' \in [Tasks -> Task],
           said' \in [Tasks -> BOOLEAN], clicks' \in 0 .. MaxClicks,
           calls' \subseteq Request, \A c \in calls' : OwnAsk(c)
    PROVE  BoardInv' /\ NewOwn
<1>1. UNCHANGED <<tasks, talk, form>> /\ UNCHANGED <<page, follow>>
  BY DEF store
<1>2. \A t \in Tasks : tasks'[t] # Absent => Shown(t)
  BY <1>1 DEF Shown
<1> HIDE DEF Request
<1> QED BY <1>1, <1>2, Now, StayInv

\* A request that is sent for the run that is followed.
LEMMA SentInv ==
    ASSUME BoardInv, NEW op \in Ops \ {"scan"}, NEW t \in Tasks, NEW title \in 0 .. MaxTitle,
           Followed0 # NoRun, calls' = calls \cup {Ask(op, Followed0, t, title)}
    PROVE  calls' \subseteq Request /\ \A c \in calls' : OwnAsk(c)
<1> DEFINE d == Ask(op, Followed0, t, title)
<1>1. d \in Request /\ d.op = op /\ d.run = Followed0 /\ ~d.answered
  BY Now, AskFacts
<1>2. Followed0 \in Runs
  BY Now
<1>3. calls' = calls \cup {d}
  OBVIOUS
<1> HIDE DEF d
<1>4. OwnAsk(d)
  BY <1>1, <1>2 DEF OwnAsk
<1> QED BY <1>1, <1>3, <1>4, Now

\* The interval asks for the run that is followed.
LEMMA TickInv ==
    ASSUME BoardInv, Tick, UNCHANGED clicks
    PROVE  BoardInv' /\ NewOwn
<1>1. /\ Followed0 # NoRun /\ calls' = calls \cup {Ask("fetch", Followed0, <<1, 1>>, 0)}
      /\ UNCHANGED <<server, page, follow, store, form>>
  BY DEF Tick, Polls, AskList
<1>2. calls' \subseteq Request /\ \A c \in calls' : OwnAsk(c)
  <2>1. "fetch" \in Ops \ {"scan"}
    BY DEF Ops
  <2> QED BY <1>1, <2>1, Basics, SentInv
<1> QED BY <1>1, <1>2, Now, CallsInv DEF server

\* A request that is handled, and perhaps followed by its second step.
LEMMA HandledInv ==
    ASSUME BoardInv, NEW c \in calls,
           \/ calls' = calls \ {c}
           \/ calls' = GoesOn(c) /\ (c.op = "fetch" \/ (c.op = "scan" /\ c.step = "first"))
    PROVE  calls' \subseteq Request /\ \A d \in calls' : OwnAsk(d)
<1> DEFINE d == [c EXCEPT !.step = "second", !.answered = FALSE]
<1>1. c \in Request /\ OwnAsk(c)
  BY Now
<1>2. /\ d \in Request /\ d.op = c.op /\ d.run = c.run /\ d.task = c.task
      /\ d.live = c.live /\ d.list = c.list /\ ~d.answered
  BY <1>1, RequestUpdates
<1>3. calls' \subseteq calls \/ (calls' = (calls \ {c}) \cup {d} /\ (c.op = "fetch" \/ (c.op = "scan" /\ c.step = "first")))
  BY DEF GoesOn
<1> HIDE DEF d
<1>4. c.op = "fetch" \/ (c.op = "scan" /\ c.step = "first") => OwnAsk(d)
  BY <1>1, <1>2 DEF OwnAsk, Any
<1> QED BY <1>2, <1>3, <1>4, Now

\* An answered list of tasks is shown if its effect is still there: it is of the
\* run that is followed.  Then the run becomes the board's own.
LEMMA FetchInv ==
    ASSUME BoardInv, NEW c \in calls, FetchReturns(c)
    PROVE  BoardInv' /\ NewOwn
<1>1. c.op = "fetch" /\ c \in Request /\ OwnAsk(c) /\ c.run \in Runs /\ UNCHANGED <<rs, db, said, page, clicks>>
  BY Now DEF FetchReturns, server, OwnAsk
<1>2. CASE Drop(c)
  <2>1. calls' \subseteq Request /\ \A d \in calls' : OwnAsk(d)
    BY <1>2, HandledInv DEF Drop
  <2> QED BY <1>1, <1>2, <2>1, Now, CallsInv DEF Drop
<1>3. CASE calls' = GoesOn(c) /\ UNCHANGED <<follow, talk>> /\ ShowTasks(Listed(c)) /\ c.live
  <2>1. calls' \subseteq Request /\ \A d \in calls' : OwnAsk(d)
    BY <1>1, <1>3, HandledInv
  <2>2. /\ tasks' = Listed(c) /\ Listed(c) \in [Tasks -> Task]
        /\ \A t \in Tasks : tasks'[t] # Absent => RunOf(t) = c.run
    BY <1>1, <1>3, ListedFacts DEF ShowTasks
  <2>3. form' \in Form /\ (form'.kind # "none" => tasks'[form'.task] # Absent)
    <3>1. form' = FormAfter(tasks', view')
      BY <1>3, <2>2 DEF ShowTasks
    <3>2. \A x : FormAfter(tasks', x) \in Form
                 /\ (FormAfter(tasks', x).kind # "none" => tasks'[FormAfter(tasks', x).task] # Absent)
      BY <2>2, Now, FormFacts
    <3> QED BY <3>1, <3>2
  <2>4. c.run = Followed0
    BY <1>1, <1>3 DEF OwnAsk
  <2>5. UNCHANGED <<page, follow>> /\ UNCHANGED <<talk>>
    BY <1>1, <1>3
  <2> HIDE DEF Request
  <2> QED BY <1>1, <2>1, <2>2, <2>3, <2>4, <2>5, Now, StayInv
<1>4. CASE /\ talk' = IF c.live THEN Talks(c) ELSE talk
           /\ Rerender(IF current = NoRun THEN c.run ELSE current, runId, status, view, calls \ {c})
           /\ ShowTasks(tasks)
  <2>1. talk' \in [Tasks -> SUBSET {"sent", "local"}]
    <3>1. Talks(c) \in [Tasks -> SUBSET {"sent", "local"}]
      BY Now DEF Talks
    <3> QED BY <1>4, <3>1, Now
  <2> DEFINE c2 == IF current = NoRun THEN c.run ELSE current
  <2>3. c2 \in Runs \cup {NoRun}
    BY <1>1, Now
  <2>4. Rerender(c2, runId, status, view, calls \ {c}) /\ tasks' = tasks /\ form' = FormAfter(tasks, view')
    BY <1>4 DEF ShowTasks
  <2> HIDE DEF c2
  <2>5. \A t \in Tasks : tasks[t] # Absent => Shown(t)
    BY DEF Shown
  <2>6. /\ rs' \in [Runs -> {"none", "running", "ended"}] /\ UNCHANGED <<db, said>>
        /\ page' \in {"away", "loading", "open"} /\ clicks' \in 0 .. MaxClicks
    BY <1>1, Now
  <2>7. /\ runId \in Runs \cup {NoRun} /\ status \in {"idle", "running", "ended"} /\ view \in Views
        /\ tasks \in [Tasks -> Task] /\ calls \ {c} \in SUBSET calls
    BY Now
  <2> QED BY <2>1, <2>3, <2>4, <2>5, <2>6, <2>7, FollowInv
<1> QED BY <1>2, <1>3, <1>4 DEF FetchReturns
\* The search has found a run: it is followed, and its tasks are shown.
LEMMA ScanInv ==
    ASSUME BoardInv, NEW c \in calls, ScanReturns(c)
    PROVE  BoardInv' /\ NewOwn
<1>1. c.op = "scan" /\ c.answered /\ c \in Request /\ OwnAsk(c)
      /\ UNCHANGED <<rs, db, said, page, clicks>>
  BY Now DEF ScanReturns, server
<1>2. CASE Drop(c) \/ (calls' = GoesOn(c) /\ c.step = "first" /\ UNCHANGED <<follow, store, form>>)
  <2>1. calls' \subseteq Request /\ \A d \in calls' : OwnAsk(d)
    BY <1>1, <1>2, HandledInv DEF Drop
  <2>2. UNCHANGED <<follow, store, form>>
    BY <1>2 DEF Drop
  <2> HIDE DEF Request
  <2> QED BY <1>1, <2>1, <2>2, Now, CallsInv
<1>3. CASE /\ UNCHANGED talk
           /\ Rerender(c.run, runId, status, view, calls \ {c})
           /\ ShowTasks(Listed(c)) /\ Any(c)
  <2>1. c.run \in Runs /\ Followed(c.run, runId) = c.run
    BY <1>1, <1>3, Basics DEF OwnAsk, Followed
  <2>2. talk' \in [Tasks -> SUBSET {"sent", "local"}]
    BY <1>3, Now
  <2> DEFINE new == Listed(c)
  <2>3. tasks' = new /\ form' = FormAfter(new, view')
    BY <1>3 DEF ShowTasks
  <2>4. new \in [Tasks -> Task] /\ \A t \in Tasks : new[t] # Absent => RunOf(t) = c.run
    BY <1>1, ListedFacts
  <2> HIDE DEF new
  <2>5. /\ rs' \in [Runs -> {"none", "running", "ended"}] /\ UNCHANGED <<db, said>>
        /\ page' \in {"away", "loading", "open"} /\ clicks' \in 0 .. MaxClicks
    BY <1>1, Now
  <2>6. /\ runId \in Runs \cup {NoRun} /\ status \in {"idle", "running", "ended"} /\ view \in Views
        /\ calls \ {c} \in SUBSET calls /\ c.run \in Runs \cup {NoRun}
    BY <2>1, Now
  <2> QED BY <1>3, <2>1, <2>2, <2>3, <2>4, <2>5, <2>6, FollowInv
<1>4. c.step \in {"first", "second"} /\ c.live \in BOOLEAN /\ c.ok \in BOOLEAN
  BY <1>1, RequestFields
<1>5. \/ Drop(c)
      \/ calls' = GoesOn(c) /\ UNCHANGED <<follow, store, form>> /\ c.step = "first"
      \/ /\ UNCHANGED talk
         /\ Rerender(c.run, runId, status, view, calls \ {c})
         /\ ShowTasks(Listed(c)) /\ Any(c)
  BY <1>4 DEF ScanReturns
<1> QED BY <1>2, <1>3, <1>5

\* What the user does to a task that is shown, which sends a request.
LEMMA LeafInv ==
    ASSUME BoardInv, NEW op \in Ops \ {"scan"}, NEW t \in Tasks, NEW title \in 0 .. MaxTitle,
           Request1(op, t, title), Shown(t), NEW task \in Task,
           tasks' = [tasks EXCEPT ![t] = task],
           form' = FormAfter(tasks', view) \/ form' = NoForm,
           UNCHANGED <<server, page, follow, talk>>, clicks' \in 0 .. MaxClicks
    PROVE  BoardInv' /\ NewOwn
<1>1. calls' \subseteq Request /\ \A c \in calls' : OwnAsk(c)
  BY SentInv DEF Request1
<1>2. tasks' \in [Tasks -> Task] /\ \A u \in Tasks : tasks'[u] # Absent => Shown(u)
  BY Now DEF Shown
<1>3. form' \in Form /\ (form'.kind # "none" => tasks'[form'.task] # Absent)
  <2>1. /\ FormAfter(tasks', view) \in Form
        /\ FormAfter(tasks', view).kind # "none" => tasks'[FormAfter(tasks', view).task] # Absent
    BY <1>2, Now, FormFacts
  <2> QED BY <2>1, Basics
<1>4. UNCHANGED <<page, follow>> /\ UNCHANGED <<rs, db, said, talk>>
  BY DEF server
<1> HIDE DEF Request
<1> QED BY <1>1, <1>2, <1>3, <1>4, Now, StayInv

\* Restart, and a form that is submitted, change a task that is shown.
LEMMA WorkInv ==
    ASSUME BoardInv, clicks' \in 0 .. MaxClicks, Submit \/ \E t \in Tasks : Restart(t)
    PROVE  BoardInv' /\ NewOwn
<1>1. ASSUME NEW t \in Tasks, Restart(t)
      PROVE  BoardInv' /\ NewOwn
  <2> DEFINE st == IF tasks[t].node THEN "assigned" ELSE "pending"
             task == [tasks[t] EXCEPT !.st = st]
  <2>1. task \in Task
    <3>1. tasks[t] \in Task /\ st \in TaskStatuses \cup {"absent"}
      BY Now DEF TaskStatuses
    <3> HIDE DEF st
    <3> QED BY <3>1 DEF Task
  <2>2. tasks' = [tasks EXCEPT ![t] = task] /\ form' = FormAfter(tasks', view)
        /\ Request1("restart", t, 0) /\ Shown(t)
        /\ UNCHANGED <<server, page, follow, talk>>
    BY <1>1 DEF Restart, Optimistic, Leaf
  <2> HIDE DEF task
  <2>3. "restart" \in Ops \ {"scan"} /\ 0 \in 0 .. MaxTitle
    BY Basics DEF Ops
  <2> QED BY <2>1, <2>2, <2>3, LeafInv
<1>2. ASSUME Submit
      PROVE  BoardInv' /\ NewOwn
  <2> DEFINE t == form.task
             op == IF form.kind = "edit" THEN "update" ELSE "assign"
             named == [tasks[t] EXCEPT !.title = form.title]
             given == [tasks[t] EXCEPT !.st = "assigned", !.node = TRUE]
             task == IF form.kind = "edit" THEN named ELSE given
  <2>1. t \in Tasks /\ form.title \in 0 .. MaxTitle /\ Shown(t) /\ tasks[t] \in Task
    <3>1. form \in Form /\ form.kind # "none" /\ tasks \in [Tasks -> Task]
      BY <1>2, Now DEF Submit
    <3>2. t \in Tasks /\ form.title \in 0 .. MaxTitle
      BY <3>1 DEF Form
    <3> QED BY <3>1, <3>2 DEF BoardInv, LeafThere
  <2>2. named \in Task /\ given \in Task
    BY <2>1 DEF Task, TaskStatuses
  <2>3. /\ tasks' = [tasks EXCEPT ![t] = task] /\ form' = NoForm /\ Request1(op, t, form.title)
        /\ UNCHANGED <<server, page, follow, talk>>
    BY <1>2 DEF Submit
  <2>4. op \in Ops \ {"scan"} /\ task \in Task
    BY <2>2 DEF Ops
  <2> HIDE DEF t, op, task
  <2> QED BY <2>1, <2>3, <2>4, LeafInv
<1> QED BY <1>1, <1>2

\* A form is opened on a leaf, and written in.
LEMMA FormInv ==
    ASSUME BoardInv, clicks' \in 0 .. MaxClicks,
           Type \/ \E t \in Tasks, kind \in {"edit", "assign"} : OpenForm(t, kind)
    PROVE  BoardInv' /\ NewOwn
<1>1. UNCHANGED <<server, page, follow, store, calls>>
  BY DEF Type, OpenForm
<1>2. UNCHANGED <<rs, db, said, tasks, talk, calls>> /\ UNCHANGED <<page, follow>>
  BY <1>1 DEF server, store
<1>3. form' \in Form /\ (form'.kind # "none" => tasks[form'.task] # Absent)
  <2>1. CASE Type
    <3> DEFINE n == form.title + 1
    <3>1. form \in Form /\ form.kind = "edit" /\ form' = [form EXCEPT !.title = n]
          /\ tasks[form.task] # Absent
      BY <2>1, Now DEF Type
    <3>2. n \in 0 .. MaxTitle
      <4>1. form.title \in 0 .. MaxTitle /\ form.title < MaxTitle /\ MaxTitle \in Nat
        BY <2>1, <3>1, Basics DEF Type, Form
      <4> QED BY <4>1
    <3> HIDE DEF n
    <3> QED BY <3>1, <3>2 DEF Form
  <2>2. ASSUME NEW t \in Tasks, NEW kind \in {"edit", "assign"}, OpenForm(t, kind)
        PROVE  form' \in Form /\ (form'.kind # "none" => tasks[form'.task] # Absent)
    <3> DEFINE n == tasks[t].title
    <3>1. n \in 0 .. MaxTitle
      BY Now DEF Task
    <3>2. form' = [kind |-> kind, task |-> t, title |-> n] /\ tasks[t] # Absent
      BY <2>2 DEF OpenForm, Leaf, Shown
    <3> HIDE DEF n
    <3> QED BY <3>1, <3>2 DEF Form
  <2> QED BY <2>1, <2>2
<1>4. \A t \in Tasks : tasks'[t] # Absent => Shown(t)
  BY <1>2 DEF Shown
<1> QED BY <1>2, <1>3, <1>4, Now, StayInv

\* A new task and a message are only sent.
LEMMA AskedInv ==
    ASSUME BoardInv, clicks' \in 0 .. MaxClicks, Create \/ \E t \in Tasks : Send(t)
    PROVE  BoardInv' /\ NewOwn
<1>1. UNCHANGED <<server, page, follow, store, form>>
  BY DEF Create, Send
<1>2. \E op \in {"create", "send"}, t \in Tasks : Request1(op, t, 0)
  BY Basics DEF Create, Send
<1>3. "create" \in Ops \ {"scan"} /\ "send" \in Ops \ {"scan"} /\ 0 \in 0 .. MaxTitle
  BY Basics DEF Ops
<1>4. calls' \subseteq Request /\ \A c \in calls' : OwnAsk(c)
  BY <1>2, <1>3, SentInv DEF Request1
<1> HIDE DEF Request
<1> QED BY <1>1, <1>4, Now, CallsInv DEF server
\* The answer to the user's work: a task that is shown is replaced; one that was
\* created comes up.
LEMMA AnswerInv ==
    ASSUME BoardInv, NEW c \in calls, WorkReturns(c)
    PROVE  BoardInv' /\ NewOwn
<1>1. /\ c \in Request /\ OwnAsk(c) /\ c.answered /\ calls' = calls \ {c}
      /\ UNCHANGED <<rs, db, said, page, clicks>> /\ UNCHANGED <<page, follow>>
  BY Now DEF WorkReturns, server
<1>2. calls' \subseteq Request /\ \A d \in calls' : OwnAsk(d)
  BY <1>1, HandledInv
<1>3. c.task \in Tasks /\ c.list \in [1 .. PerRun -> Task]
  BY <1>1, RequestFields
<1>4. CASE UNCHANGED <<tasks, form>>
  <2>1. talk' \in [Tasks -> SUBSET {"sent", "local"}]
    BY <1>3, Now DEF WorkReturns
  <2>2. \A t \in Tasks : tasks'[t] # Absent => Shown(t)
    BY <1>4 DEF Shown
  <2> HIDE DEF Request
  <2> QED BY <1>1, <1>2, <1>4, <2>1, <2>2, Now, StayInv
<1>5. CASE /\ c.ok /\ (c.op = "create" \/ Shown(c.task)) /\ talk' = talk
           /\ tasks' = [tasks EXCEPT ![c.task] = c.list[c.task[2]]]
           /\ form' = FormAfter(tasks', view)
  <2> DEFINE new == c.list[c.task[2]]
  <2>1. new \in Task
    BY <1>3, TaskParts
  <2>2. tasks' = [tasks EXCEPT ![c.task] = new]
    BY <1>5
  <2> HIDE DEF new
  <2>3. tasks' \in [Tasks -> Task] /\ \A t \in Tasks : t # c.task => tasks'[t] = tasks[t]
    BY <1>3, <2>1, <2>2, Now
  <2>4. form' \in Form /\ (form'.kind # "none" => tasks'[form'.task] # Absent)
    <3>1. /\ FormAfter(tasks', view) \in Form
          /\ FormAfter(tasks', view).kind # "none" => tasks'[FormAfter(tasks', view).task] # Absent
      BY <2>3, Now, FormFacts
    <3> QED BY <1>5, <3>1
  <2>5. \A t \in Tasks : tasks'[t] # Absent => Shown(t) \/ Created(t)
    <3>1. CASE c.op = "create"
      <4>1. Created(c.task)
        BY <1>1, <3>1 DEF Created
      <4> QED BY <2>3, <4>1 DEF Shown
    <3>2. CASE c.op # "create"
      BY <1>5, <2>3, <3>2 DEF Shown
    <3> QED BY <3>1, <3>2
  <2>7. talk' \in [Tasks -> SUBSET {"sent", "local"}]
    BY <1>5, Now
  <2> HIDE DEF Request
  <2> QED BY <1>1, <1>2, <2>3, <2>4, <2>5, <2>7, Now, StayInv
<1> QED BY <1>4, <1>5 DEF WorkReturns

\* The page shows what it showed and follows something else.
LEMMA TurnInv ==
    ASSUME BoardInv, NEW c2 \in Runs \cup {NoRun}, NEW r2 \in Runs \cup {NoRun},
           NEW s2 \in {"idle", "running", "ended"}, NEW v \in Views,
           Rerender(c2, r2, s2, v, calls),
           rs' \in [Runs -> {"none", "running", "ended"}], UNCHANGED <<db, said>>,
           page' \in {"away", "loading", "open"}, clicks' \in 0 .. MaxClicks,
           \/ ShowTasks(tasks) /\ talk' = talk
           \/ tasks' = Bare /\ talk' = Silent /\ (form' = FormAfter(Bare, view') \/ form' = NoForm)
    PROVE  BoardInv' /\ NewOwn
<1>1. PICK new \in [Tasks -> Task] : /\ tasks' = new /\ new \in {tasks, Bare}
                                     /\ form' = FormAfter(new, view') \/ form' = NoForm
  BY Now, Basics DEF ShowTasks
<1>2. \A t \in Tasks : new[t] # Absent => Shown(t)
  BY <1>1 DEF Bare, Shown
<1>3. talk' \in [Tasks -> SUBSET {"sent", "local"}]
  BY Now DEF Silent
<1>4. calls \in SUBSET calls
  OBVIOUS
<1> QED BY <1>1, <1>2, <1>3, <1>4, FollowInv

\* The newest run of the page's workflow is one of them.
LEMMA LatestFacts ==
    ASSUME BoardInv, LatestOwn # NoRun
    PROVE  LatestOwn \in Runs /\ rs[LatestOwn] \in {"running", "ended"}
<1>1. OwnRuns # {} /\ OwnRuns \in SUBSET (1 .. MaxRuns) /\ MaxRuns \in Nat
  BY Basics DEF LatestOwn, OwnRuns, Runs
<1>2. \E r \in OwnRuns : \A q \in OwnRuns : q <= r
  BY <1>1, Greatest
<1>3. LatestOwn \in OwnRuns
  BY <1>1, <1>2 DEF LatestOwn
<1> QED BY <1>3, Now DEF OwnRuns

\* The page is opened, has loaded and is left.
LEMMA PageInv ==
    ASSUME BoardInv, \/ (Enter \/ Leave) /\ clicks' \in 0 .. MaxClicks
                     \/ Loaded
    PROVE  BoardInv' /\ NewOwn
<1>1. CASE Enter /\ clicks' \in 0 .. MaxClicks
  <2>1. UNCHANGED <<rs, db, said, current, runId, status, view, tasks, talk, form, calls>>
        /\ page' = "loading"
    BY <1>1 DEF Enter, server, follow, store
  <2>2. TypeOK' /\ LeafThere' /\ \A t \in Tasks : tasks'[t] # Absent => Shown(t)
    BY <1>1, <2>1 DEF BoardInv, TypeOK, LeafThere, Shown
  <2>3. OwnAsks'
    BY <2>1, Now, OwnStays DEF OwnAsks
  <2> QED BY <2>1, <2>2, <2>3, Assemble
<1>2. CASE Leave /\ clicks' \in 0 .. MaxClicks
  <2>1. /\ Rerender(NoRun, NoRun, "idle", "overview", calls) /\ page' = "away"
        /\ tasks' = Bare /\ talk' = Silent /\ form' = NoForm
        /\ UNCHANGED <<rs, db, said>>
    BY <1>2 DEF Leave, server
  <2>2. NoRun \in Runs \cup {NoRun} /\ "overview" \in Views
    BY DEF Views
  <2> QED BY <1>2, <2>1, <2>2, Now, TurnInv
<1>3. CASE Loaded
  <2> DEFINE s2 == IF LatestOwn = NoRun THEN "idle" ELSE rs[LatestOwn]
  <2>1. /\ Rerender(LatestOwn, LatestOwn, s2, "overview", calls) /\ page' = "open"
        /\ \/ ShowTasks(tasks) /\ talk' = talk
           \/ ShowTasks(Bare) /\ talk' = Silent
        /\ UNCHANGED <<rs, db, said, clicks>>
    BY <1>3 DEF Loaded, server
  <2>2. \/ ShowTasks(tasks) /\ talk' = talk
        \/ tasks' = Bare /\ talk' = Silent /\ (form' = FormAfter(Bare, view') \/ form' = NoForm)
    BY <2>1 DEF ShowTasks
  <2>3. LatestOwn \in Runs \cup {NoRun} /\ s2 \in {"idle", "running", "ended"} /\ "overview" \in Views
    BY LatestFacts DEF Views
  <2> HIDE DEF s2
  <2> QED BY <2>1, <2>2, <2>3, Now, TurnInv
<1> QED BY <1>1, <1>2, <1>3

\* A tab is chosen; a run is started, its socket opens, its end is seen, its
\* cancellation is accepted.
LEMMA RunSeenInv ==
    ASSUME BoardInv, \/ clicks' \in 0 .. MaxClicks /\ (Started \/ Cancelled \/ \E v \in Views : SelectTab(v))
                     \/ SocketOpens \/ EndSeen
    PROVE  BoardInv' /\ NewOwn
<1>1. PICK c2 \in Runs \cup {NoRun}, r2 \in Runs \cup {NoRun}, s2 \in {"idle", "running", "ended"}, v \in Views :
        Rerender(c2, r2, s2, v, calls)
  <2>1. /\ runId \in Runs \cup {NoRun} /\ current \in Runs \cup {NoRun} /\ view \in Views
        /\ status \in {"idle", "running", "ended"} /\ NoRun \in Runs \cup {NoRun}
    BY Now
  <2>2. CASE Started
    <3>1. PICK r \in Runs : Rerender(current, r, "running", view, calls)
      BY <2>2 DEF Started
    <3> QED BY <2>1, <3>1
  <2>3. CASE Cancelled
    BY <2>1, <2>3 DEF Cancelled
  <2>4. CASE \E v \in Views : SelectTab(v)
    BY <2>1, <2>4 DEF SelectTab
  <2>5. CASE SocketOpens
    BY <2>1, <2>5 DEF SocketOpens
  <2>6. CASE EndSeen
    BY <2>1, <2>6 DEF EndSeen
  <2> QED BY <2>2, <2>3, <2>4, <2>5, <2>6
<1>2. /\ UNCHANGED <<db, said, page>> /\ ShowTasks(tasks) /\ talk' = talk
      /\ clicks' = clicks \/ clicks' \in 0 .. MaxClicks
  BY DEF Started, Cancelled, SelectTab, SocketOpens, EndSeen, server
<1>3. rs' \in [Runs -> {"none", "running", "ended"}]
  BY Now DEF Started, Cancelled, SelectTab, SocketOpens, EndSeen, server
<1>4. page' \in {"away", "loading", "open"} /\ clicks' \in 0 .. MaxClicks
  BY <1>2, Now
<1> QED BY <1>1, <1>2, <1>3, <1>4, TurnInv
\* The server changes a task as it was asked to.
LEMMA ChangeTyped ==
    ASSUME NEW c \in Request, NEW task \in Task, c.op \in {"create", "assign", "restart", "update"}
    PROVE  Change(c, task) \in Task
<1> DEFINE st == IF task.node THEN "assigned" ELSE "pending"
           n == c.title
<1>1. st \in TaskStatuses /\ n \in 0 .. MaxTitle /\ 0 \in 0 .. MaxTitle
  BY RequestFields, Basics DEF TaskStatuses
<1> HIDE DEF st, n
<1>2. /\ [st |-> "pending", node |-> FALSE, title |-> 0] \in Task
      /\ [task EXCEPT !.st = "assigned", !.node = TRUE] \in Task
      /\ [task EXCEPT !.st = st] \in Task /\ [task EXCEPT !.title = n] \in Task
  BY <1>1 DEF Task, TaskStatuses
<1>3. Change(c, task) \in {[st |-> "pending", node |-> FALSE, title |-> 0],
                           [task EXCEPT !.st = "assigned", !.node = TRUE],
                           [task EXCEPT !.st = st], [task EXCEPT !.title = n]}
  BY DEF Change, st, n
<1> QED BY <1>2, <1>3

\* The answers: what the request asked, and what was found or done.
LEMMA AnswerOwn ==
    ASSUME BoardInv, NEW c \in calls, NEW d \in Request, Answer(c, d),
           d.op = c.op, d.step = c.step, d.live = c.live,
           c.op # "scan" => d.run = c.run,
           c.op = "scan" /\ Any(d) => d.run \in Runs /\ d.step = "second",
           c.op = "create" /\ d.ok => RunOf(d.task) = c.run
    PROVE  calls' \subseteq Request /\ \A x \in calls' : OwnAsk(x)
<1> DEFINE e == [d EXCEPT !.answered = TRUE]
<1>1. /\ e \in Request /\ e.op = d.op /\ e.run = d.run /\ e.task = d.task /\ e.step = d.step
      /\ e.live = d.live /\ e.ok = d.ok /\ e.list = d.list /\ e.answered
  BY RequestUpdates
<1>2. calls' = (calls \ {c}) \cup {e}
  BY DEF Answer
<1> HIDE DEF e
<1>3. OwnAsk(c)
  BY Now
<1>4. Any(e) <=> Any(d)
  BY <1>1 DEF Any
<1>5. OwnAsk(e)
  BY <1>1, <1>3, <1>4 DEF OwnAsk
<1> QED BY <1>1, <1>2, <1>5, Now

\* The newest run with tasks is a run.
LEMMA NewestFacts ==
    ASSUME WithTasks # {}
    PROVE  Newest \in Runs
<1>1. WithTasks \in SUBSET (1 .. MaxRuns) /\ MaxRuns \in Nat
  BY Basics DEF WithTasks, Runs
<1>2. \E r \in WithTasks : \A q \in WithTasks : q <= r
  BY <1>1, Greatest
<1> QED BY <1>1, <1>2 DEF Newest, Runs

\* A request is refused, answered with a list, or carried out.
LEMMA ServeInv ==
    ASSUME BoardInv, NEW c \in calls, Serve(c)
    PROVE  BoardInv' /\ NewOwn
<1>1. c \in Request /\ OwnAsk(c) /\ ~c.answered /\ UNCHANGED <<page, follow, store, form, clicks>>
  BY Now DEF Serve
<1>2. /\ c.op \in Ops /\ c.task \in Tasks /\ c.title \in 0 .. MaxTitle /\ c.run \in Runs \cup {NoRun}
      /\ c.list \in [1 .. PerRun -> Task] /\ c.heard \in [1 .. PerRun -> BOOLEAN]
      /\ (c.op # "scan" => c.run \in Runs) /\ (c.op = "scan" => ~Any(c))
  BY <1>1, RequestFields DEF OwnAsk
<1> SUFFICES /\ rs' \in [Runs -> {"none", "running", "ended"}] /\ db' \in [Tasks -> Task]
             /\ said' \in [Tasks -> BOOLEAN]
             /\ calls' \subseteq Request /\ \A x \in calls' : OwnAsk(x)
  <2> HIDE DEF Request
  <2> QED BY <1>1, Now, CallsInv
<1>3. CASE Refuse(c)
  <2> DEFINE d == [c EXCEPT !.ok = FALSE]
  <2>1. /\ d \in Request /\ d.op = c.op /\ d.run = c.run /\ d.step = c.step
        /\ d.live = c.live /\ d.list = c.list /\ ~d.ok
    BY <1>1, RequestUpdates
  <2>2. Answer(c, d) /\ UNCHANGED <<rs, db, said>>
    BY <1>3 DEF Refuse, server
  <2> HIDE DEF d
  <2>3. Any(d) <=> Any(c)
    BY <2>1 DEF Any
  <2> QED BY <1>2, <2>1, <2>2, <2>3, AnswerOwn, Now
<1>4. CASE /\ c.op = "fetch" \/ (c.op = "scan" /\ (c.step = "first" \/ WithTasks = {}))
           /\ Answer(c, [c EXCEPT !.ok = TRUE,
                 !.list = IF c.op = "fetch" THEN [n \in 1 .. PerRun |-> db[<<c.run, n>>]] ELSE @,
                 !.heard = IF c.op = "fetch" THEN [n \in 1 .. PerRun |-> said[<<c.run, n>>]] ELSE @])
           /\ UNCHANGED server
  <2> DEFINE list == IF c.op = "fetch" THEN [n \in 1 .. PerRun |-> db[<<c.run, n>>]] ELSE c.list
             heard == IF c.op = "fetch" THEN [n \in 1 .. PerRun |-> said[<<c.run, n>>]] ELSE c.heard
             d == [c EXCEPT !.ok = TRUE, !.list = list, !.heard = heard]
  <2>1. list \in [1 .. PerRun -> Task] /\ heard \in [1 .. PerRun -> BOOLEAN]
        /\ (c.op = "scan" => list = c.list)
    <3>1. c.op = "fetch" => \A n \in 1 .. PerRun : <<c.run, n>> \in Tasks
      BY <1>2, TaskParts
    <3> QED BY <1>2, <3>1, Now
  <2>2. Answer(c, d)
    BY <1>4
  <2> HIDE DEF list, heard
  <2>3. d \in Request /\ d.op = c.op /\ d.run = c.run /\ d.step = c.step /\ d.live = c.live
        /\ d.list = list /\ d.task = c.task
    BY <1>1, <2>1 DEF Request
  <2> HIDE DEF d
  <2>4. c.op = "scan" => (Any(d) <=> Any(c))
    BY <2>1, <2>3 DEF Any
  <2>5. c.op # "create"
    BY <1>4
  <2> QED BY <1>2, <1>4, <2>2, <2>3, <2>4, <2>5, AnswerOwn, Now DEF server
<1>5. CASE /\ c.op = "scan" /\ c.step = "second" /\ WithTasks # {}
           /\ Answer(c, [c EXCEPT !.ok = TRUE, !.run = Newest,
                                 !.list = [n \in 1 .. PerRun |-> db[<<Newest, n>>]]])
           /\ UNCHANGED server
  <2> DEFINE r == Newest
             list == [n \in 1 .. PerRun |-> db[<<r, n>>]]
             d == [c EXCEPT !.ok = TRUE, !.run = r, !.list = list]
  <2>1. r \in Runs
    BY <1>5, NewestFacts
  <2>2. Answer(c, d)
    BY <1>5
  <2> HIDE DEF r
  <2>3. list \in [1 .. PerRun -> Task]
    <3>1. \A n \in 1 .. PerRun : <<r, n>> \in Tasks
      BY <2>1, TaskParts
    <3> QED BY <3>1, Now
  <2> HIDE DEF list
  <2>4. d \in Request /\ d.op = c.op /\ d.run = r /\ d.step = c.step /\ d.live = c.live
    BY <1>1, <2>1, <2>3 DEF Request
  <2> HIDE DEF d
  <2> QED BY <1>5, <2>1, <2>2, <2>4, AnswerOwn, Now DEF server
<1>6. ASSUME NEW t \in Tasks, ServeWork(c, t), c.op \in {"create", "assign", "restart", "update"},
             c.op = "create" => RunOf(t) = c.run
      PROVE  /\ rs' \in [Runs -> {"none", "running", "ended"}] /\ db' \in [Tasks -> Task]
             /\ said' \in [Tasks -> BOOLEAN]
             /\ calls' \subseteq Request /\ \A x \in calls' : OwnAsk(x)
  <2> DEFINE task == Change(c, db[t])
             list == [c.list EXCEPT ![t[2]] = task]
             d == [c EXCEPT !.ok = TRUE, !.task = t, !.list = list]
  <2>1. task \in Task
    BY <1>1, <1>6, Now, ChangeTyped
  <2>2. db' = [db EXCEPT ![t] = task] /\ UNCHANGED <<rs, said>> /\ Answer(c, d)
    BY <1>6 DEF ServeWork
  <2> HIDE DEF task
  <2>3. list \in [1 .. PerRun -> Task]
    BY <1>2, <2>1
  <2> HIDE DEF list
  <2>4. d \in Request /\ d.op = c.op /\ d.run = c.run /\ d.step = c.step /\ d.live = c.live /\ d.task = t
    BY <1>1, <2>3 DEF Request
  <2> HIDE DEF d
  <2>5. calls' \subseteq Request /\ \A x \in calls' : OwnAsk(x)
    BY <1>6, <2>2, <2>4, AnswerOwn
  <2>6. db' \in [Tasks -> Task]
    BY <2>1, <2>2, Now
  <2> QED BY <2>2, <2>5, <2>6, Now
<1>7. CASE /\ c.op = "send" /\ said' = [said EXCEPT ![c.task] = TRUE]
           /\ Answer(c, [c EXCEPT !.ok = TRUE]) /\ UNCHANGED <<rs, db>>
  <2> DEFINE d == [c EXCEPT !.ok = TRUE]
  <2>1. d \in Request /\ d.op = c.op /\ d.run = c.run /\ d.step = c.step /\ d.live = c.live
    BY <1>1 DEF Request
  <2>2. Answer(c, d)
    BY <1>7
  <2> HIDE DEF d
  <2>3. c.op # "scan" /\ c.op # "create"
    BY <1>7
  <2> QED BY <1>7, <2>1, <2>2, <2>3, AnswerOwn, Now
<1>8. ASSUME NEW n \in 1 .. PerRun, ServeWork(c, <<c.run, n>>), c.op = "create"
      PROVE  \E t \in Tasks : ServeWork(c, t) /\ RunOf(t) = c.run
  BY <1>2, <1>8, TaskParts
<1> QED BY <1>2, <1>3, <1>4, <1>5, <1>6, <1>7, <1>8 DEF Serve

\* Runs end and tasks are done.
LEMMA WorldInv ==
    ASSUME BoardInv, (\E r \in Runs : RunEnds(r)) \/ (\E t \in Tasks : TaskDone(t))
    PROVE  BoardInv' /\ NewOwn
<1>1. UNCHANGED <<said, page, follow, store, form, calls, clicks>>
  BY DEF RunEnds, TaskDone
<1>2. rs' \in [Runs -> {"none", "running", "ended"}]
  BY Now DEF RunEnds, TaskDone
<1>3. db' \in [Tasks -> Task]
  <2>1. ASSUME NEW t \in Tasks, NEW st \in {"completed", "failed"}, db' = [db EXCEPT ![t].st = st]
        PROVE  db' \in [Tasks -> Task]
    <3> DEFINE task == [db[t] EXCEPT !.st = st]
    <3>1. task \in Task
      BY Now DEF Task, TaskStatuses
    <3>2. db' = [db EXCEPT ![t] = task]
      BY <2>1
    <3> HIDE DEF task
    <3> QED BY <3>1, <3>2, Now
  <2> QED BY <2>1, Now DEF RunEnds, TaskDone
<1> HIDE DEF Request
<1> QED BY <1>1, <1>2, <1>3, Now, CallsInv

-----------------------------------------------------------------------------
(* The theorems.                                                           *)

LEMMA BoardInit == Init => BoardInv
<1> SUFFICES ASSUME Init PROVE BoardInv
  OBVIOUS
<1>1. MaxClicks \in Nat
  BY BoardAssumption
<1>2. rs \in [Runs -> {"none", "running", "ended"}] /\ said \in [Tasks -> BOOLEAN]
  BY DEF Init
<1>3. db \in [Tasks -> Task]
  <2> DEFINE old == [st |-> "failed", node |-> TRUE, title |-> 0]
  <2>1. old \in Task /\ Absent \in Task
    BY Basics DEF Task, TaskStatuses
  <2>2. db = [t \in Tasks |-> IF RunOf(t) \in Foreign /\ t[2] = 1 THEN old ELSE Absent]
    BY DEF Init
  <2> HIDE DEF old
  <2> QED BY <2>1, <2>2
<1>4. talk \in [Tasks -> SUBSET {"sent", "local"}] /\ 0 \in 0 .. MaxClicks
  BY <1>1 DEF Init, Silent
<1>5. TypeOK
  BY <1>2, <1>3, <1>4, Basics DEF Init, TypeOK, Views
<1> QED BY <1>5, Basics DEF Init, BoardInv, OwnAsks, LeafThere, Shown, Bare

LEMMA BoardNext ==
    ASSUME BoardInv, [Next]_vars
    PROVE  BoardInv' /\ [NewOwn]_vars
<1>1. CASE Clicks
  <2>1. clicks' \in 0 .. MaxClicks
    <3>1. clicks \in 0 .. MaxClicks /\ clicks < MaxClicks /\ clicks' = clicks + 1 /\ MaxClicks \in Nat
      BY <1>1, Now, BoardAssumption DEF Clicks
    <3> QED BY <3>1
  <2> QED BY <1>1, <2>1, WorkInv, FormInv, AskedInv, PageInv, RunSeenInv DEF Clicks
<1>2. CASE Loaded \/ SocketOpens \/ EndSeen
  BY <1>2, PageInv, RunSeenInv
<1>3. CASE Tick /\ UNCHANGED clicks
  BY <1>3, TickInv
<1>4. CASE \E c \in calls : Serve(c) \/ Returns(c)
  BY <1>4, ServeInv, FetchInv, ScanInv, AnswerInv DEF Returns
<1>5. CASE (\E r \in Runs : RunEnds(r)) \/ \E t \in Tasks : TaskDone(t)
  BY <1>5, WorldInv
<1>6. CASE UNCHANGED vars
  <2>1. UNCHANGED <<rs, db, said, page, view, runId, status, current, tasks, talk, form, calls, clicks>>
    BY <1>6 DEF vars, server, follow, store
  <2>2. TypeOK' /\ LeafThere'
    BY <2>1 DEF BoardInv, TypeOK, LeafThere, Shown
  <2>3. OwnAsks'
    BY <2>1, Now, OwnStays DEF OwnAsks
  <2> QED BY <1>6, <2>2, <2>3 DEF BoardInv
<1> QED BY <1>1, <1>2, <1>3, <1>4, <1>5, <1>6 DEF Next

\* Every variable keeps its type, for any runs, tasks, requests and clicks.
THEOREM TypeCorrect == Spec => []TypeOK
<1>1. BoardInv => TypeOK
  BY DEF BoardInv
<1> QED BY <1>1, BoardInit, BoardNext, PTL DEF Spec

\* A task comes up on the board that follows its run, or in answer to its creation.
THEOREM NewOnesOwnHolds == Spec => NewOnesOwn
<1>1. BoardInv /\ [Next]_vars => [\A t \in Tasks :
        ~Shown(t) /\ tasks'[t] # Absent =>
            \/ RunOf(t) = Followed(current', runId')
            \/ \E c \in calls \ calls' : c.op = "create" /\ c.task = t]_vars
  BY BoardNext DEF NewOwn, Created
<1> QED BY <1>1, BoardInit, BoardNext, PTL DEF Spec, NewOnesOwn
=============================================================================
