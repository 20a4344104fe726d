-------------------------- MODULE RunView_proofs ----------------------------
(* What is proved of RunView, for any runs, sockets, lengths of the log and *)
(* limits of known ids: no event is applied twice while no id is forgotten, *)
(* one socket at most is kept, and a run's id stands over its own events.   *)
(* First the shape of the state, and what each operator does to it; then    *)
(* one inductive invariant per property.                                    *)
EXTENDS RunView, FiniteSetTheorems, TLAPS

-----------------------------------------------------------------------------
(* The shape of the state, as far as the arguments need it.  What a fold   *)
(* makes of the status plays no part in them.                              *)

About(c) == \/ c.op \in {"backfill", "poll", "resume", "cancel"}
            \/ c.op = "load" /\ c.step = "second"
Shaped ==
    /\ srv \in [Runs -> Statuses \cup {"none"}]
    /\ log \in [Runs -> Seq(Kinds)] /\ \A r \in Runs : Len(log[r]) <= MaxLog
    /\ latest \in Runs \cup {NoRun} /\ runId \in Runs \cup {NoRun}
    /\ page \in {"away", "loading", "shown", "error"}
    /\ calls \subseteq Request /\ socks \in [Slots -> Socket] /\ ref \in Slots \cup {NoSlot}
    /\ evs \in Seq(EventIds) /\ pending \in Seq(EventIds) /\ ids \subseteq EventIds

\* A socket brings its own run's events, a request that needs one is about a
\* run, and those that are still cared for are about the run that is shown.
SockOK(x, r) ==
    /\ x.st \in {"connecting", "open"} => x.run \in Runs
    /\ x.live => x.run = r /\ r # NoRun
    /\ \A i \in DOMAIN x.q : x.q[i][1] = x.run
CallOK(c, r) ==
    /\ About(c) => c.run \in Runs
    /\ c.live /\ c.op \in {"backfill", "poll"} => c.run = r
Linked ==
    /\ \A k \in Slots : SockOK(socks[k], runId)
    /\ \A c \in calls : CallOK(c, runId)
    /\ timer \/ polling => runId # NoRun
    /\ page = "away" => /\ ~timer /\ ~polling
                        /\ \A k \in Slots : ~socks[k].live
                        /\ \A c \in calls : ~c.live

-----------------------------------------------------------------------------
(* What the operators do to sockets and requests.                          *)

\* Where no slot or run is named there is none.
LEMMA NoSlotIsNone == NoSlot \notin Slots /\ NoRun \notin Runs
BY RunViewAssumption DEF NoSlot, NoRun, Runs

\* A socket on its way is live, serves its run and has brought nothing.
LEMMA ConnectingEffect ==
    ASSUME NEW r \in Runs \cup {NoRun}
    PROVE  LET x == Connecting(r) IN
           /\ x \in Socket /\ x.st = "connecting" /\ x.run = r /\ x.q = <<>> /\ x.live /\ x.mine
<1>1. Free \in Socket /\ Free.q = <<>>
  BY DEF Free, Socket
<1>2. /\ Connecting(r) \in Socket
      /\ Connecting(r).st = "connecting" /\ Connecting(r).run = r
      /\ Connecting(r).q = Free.q /\ Connecting(r).live = TRUE /\ Connecting(r).mine = TRUE
  BY <1>1 DEF Connecting, Socket
<1> QED BY <1>1, <1>2

\* A socket the hook closes brings nothing more; the others are left alone.
LEMMA ShutEffect ==
    ASSUME NEW s \in [Slots -> Socket], NEW k \in Slots \cup {NoSlot}
    PROVE  /\ Shut(k, s) \in [Slots -> Socket]
           /\ \A j \in Slots :
                 /\ Shut(k, s)[j].run = s[j].run /\ Shut(k, s)[j].live = s[j].live
                 /\ Shut(k, s)[j].mine = s[j].mine
                 /\ j # k => Shut(k, s)[j] = s[j]
                 /\ j = k => Shut(k, s)[j].st = "closing" /\ Shut(k, s)[j].q = <<>>
<1>1. CASE k = NoSlot
  BY <1>1, NoSlotIsNone DEF Shut
<1>2. CASE k \in Slots
  <2>1. <<>> \in Seq(EventIds) /\ s[k] \in Socket
    BY <1>2
  <2> DEFINE x == [s[k] EXCEPT !.st = "closing", !.q = <<>>]
  <2>2. /\ x \in Socket /\ x.run = s[k].run /\ x.live = s[k].live /\ x.mine = s[k].mine
        /\ x.st = "closing" /\ x.q = <<>>
    BY <2>1 DEF Socket
  <2>3. Shut(k, s) = [s EXCEPT ![k] = x]
    BY <1>2, NoSlotIsNone DEF Shut
  <2> HIDE DEF x
  <2> QED BY <1>2, <2>2, <2>3
<1> QED BY <1>1, <1>2

\* What an effect opened is no longer cared for once it is cleaned up.
LEMMA OrphanEffect ==
    ASSUME NEW s \in [Slots -> Socket]
    PROVE  /\ Orphan(s) \in [Slots -> Socket]
           /\ \A j \in Slots : /\ Orphan(s)[j].run = s[j].run /\ Orphan(s)[j].st = s[j].st
                               /\ Orphan(s)[j].q = s[j].q /\ ~Orphan(s)[j].live
<1>1. ASSUME NEW j \in Slots
      PROVE  LET x == [s[j] EXCEPT !.live = FALSE] IN
             /\ x \in Socket /\ x.run = s[j].run /\ x.st = s[j].st /\ x.q = s[j].q /\ x.live = FALSE
  BY DEF Socket
<1>2. \A j \in Slots : Orphan(s)[j] = [s[j] EXCEPT !.live = FALSE]
  BY DEF Orphan
<1>3. Orphan(s) = [j \in Slots |-> [s[j] EXCEPT !.live = FALSE]]
  BY DEF Orphan
<1> QED BY <1>1, <1>2, <1>3

\* A request whose effect is cleaned up is otherwise the same.
LEMMA StopEffect ==
    ASSUME NEW cs \in SUBSET Request, NEW ops
    PROVE  /\ Stop(ops, cs) \in SUBSET Request
           /\ \A c \in Stop(ops, cs) :
                 /\ c.live => c \in cs /\ c.op \notin ops
                 /\ \E d \in cs : /\ c.op = d.op /\ c.step = d.step /\ c.run = d.run
                                  /\ c.n = d.n /\ c.st = d.st /\ c.ok = d.ok
                                  /\ c.answered = d.answered
<1>1. ASSUME NEW d \in cs
      PROVE  LET c == [d EXCEPT !.live = FALSE] IN
             /\ c \in Request /\ c.live = FALSE
             /\ c.op = d.op /\ c.step = d.step /\ c.run = d.run /\ c.n = d.n /\ c.st = d.st
             /\ c.ok = d.ok /\ c.answered = d.answered
  <2>1. d \in Request OBVIOUS
  <2> QED BY <2>1 DEF Request
<1>2. \A c \in Stop(ops, cs) : \/ c \in cs /\ c.op \notin ops
                               \/ \E d \in cs : c = [d EXCEPT !.live = FALSE]
  BY DEF Stop
<1>3. \A d \in cs : d \in Request OBVIOUS
<1>4. ASSUME NEW c \in Stop(ops, cs)
      PROVE  /\ c \in Request
             /\ c.live => c \in cs /\ c.op \notin ops
             /\ \E d \in cs : /\ c.op = d.op /\ c.step = d.step /\ c.run = d.run
                              /\ c.n = d.n /\ c.st = d.st /\ c.ok = d.ok
                              /\ c.answered = d.answered
  <2>1. CASE c \in cs /\ c.op \notin ops
    BY <1>3, <2>1
  <2>2. CASE \E d \in cs : c = [d EXCEPT !.live = FALSE]
    <3>1. PICK d \in cs : c = [d EXCEPT !.live = FALSE]
      BY <2>2
    <3>2. /\ c \in Request /\ c.live = FALSE
          /\ c.op = d.op /\ c.step = d.step /\ c.run = d.run /\ c.n = d.n /\ c.st = d.st
          /\ c.ok = d.ok /\ c.answered = d.answered
      BY <3>1, <1>1
    <3> QED BY <3>2
  <2> QED BY <1>2, <2>1, <2>2
<1> QED BY <1>4

\* ASlot is a free one.
LEMMA ASlotFree ==
    ASSUME FreeSlots # {}
    PROVE  ASlot \in Slots /\ socks[ASlot].st = "free"
BY DEF ASlot, FreeSlots

UpIn(ss) == {k \in Slots : ss[k].st \in {"connecting", "open"}}
Over(st) == st \in {"completed", "failed"}

\* One socket at most is live, none when the run has ended or one is to come.
OneUp(ss, k, t, st) ==
    /\ UpIn(ss) \subseteq {k}
    /\ t \/ Over(st) => UpIn(ss) = {}
    /\ Over(st) => ~t

\* What a render with a run id r2 and status s2 makes of the sockets ss and the
\* requests cs.
Renders(r2, s2, cs, ss) ==
    /\ Shaped /\ r2 \in Runs \cup {NoRun} /\ cs \in SUBSET Request /\ ss \in [Slots -> Socket]
    /\ \A k \in Slots : SockOK(ss[k], runId)
    /\ \A c \in cs : CallOK(c, runId)
    /\ timer \/ polling => runId # NoRun
    /\ page = "away" => /\ ~timer /\ ~polling
                        /\ \A k \in Slots : ~ss[k].live
                        /\ \A c \in cs : ~c.live
    /\ Rerender(r2, s2, cs, ss)

\* Where the page is shown: the sockets of another run are given up, its own is
\* opened, the requests for the last one are no longer cared for.
LEMMA RenderedSockets ==
    ASSUME NEW r2, NEW s2, NEW cs, NEW ss, Renders(r2, s2, cs, ss), page # "away"
    PROVE  /\ socks' \in [Slots -> Socket] /\ ref' \in Slots \cup {NoSlot}
           /\ \A k \in Slots : SockOK(socks'[k], r2)
           /\ OneUp(ss, ref, timer, status) /\ ~(r2 # runId /\ Over(s2) /\ s2 = status)
                 => OneUp(socks', ref', timer', s2)
<1> DEFINE moved == r2 # runId
           over == s2 # status /\ Over(s2)
           opens == moved /\ r2 # NoRun
           left == IF moved THEN Orphan(Shut(ref, ss)) ELSE ss
           made == IF opens THEN [left EXCEPT ![ASlot] = Connecting(r2)] ELSE left
           now == IF opens THEN ASlot ELSE IF moved THEN NoSlot ELSE ref
<1>1. /\ opens => FreeSlots # {}
      /\ socks' = IF over THEN Shut(now, made) ELSE made
      /\ ref' = IF over THEN NoSlot ELSE now
      /\ timer' = (timer /\ ~moved /\ ~over)
  BY DEF Renders, Shaped, Rerender, Over
<1>2. /\ r2 \in Runs \cup {NoRun} /\ ss \in [Slots -> Socket] /\ ref \in Slots \cup {NoSlot}
      /\ \A k \in Slots : SockOK(ss[k], runId)
  BY DEF Renders, Shaped
<1>3. /\ left \in [Slots -> Socket]
      /\ \A k \in Slots : SockOK(left[k], r2)
      /\ UpIn(left) \subseteq UpIn(ss)
      /\ moved /\ UpIn(ss) \subseteq {ref} => UpIn(left) = {}
  <2>1. CASE ~moved
    BY <1>2, <2>1
  <2>2. CASE moved
    <3> DEFINE shut == Shut(ref, ss)
    <3>1. /\ shut \in [Slots -> Socket]
          /\ \A j \in Slots :
                 /\ shut[j].run = ss[j].run
                 /\ j # ref => shut[j] = ss[j]
                 /\ j = ref => shut[j].st = "closing" /\ shut[j].q = <<>>
      BY <1>2, ShutEffect
    <3> HIDE DEF shut
    <3>2. left = Orphan(shut)
      BY <2>2 DEF shut
    <3>3. /\ left \in [Slots -> Socket]
          /\ \A j \in Slots : /\ left[j].run = shut[j].run /\ left[j].st = shut[j].st
                              /\ left[j].q = shut[j].q /\ ~left[j].live
      BY <3>1, <3>2, OrphanEffect
    <3> HIDE DEF left
    <3>4. ASSUME NEW j \in Slots PROVE SockOK(left[j], r2)
      <4>1. CASE j # ref
        BY <1>2, <3>1, <3>3, <4>1 DEF SockOK
      <4>2. CASE j = ref
        <5>1. left[j].q = <<>> /\ left[j].st = "closing" /\ left[j].run = ss[j].run /\ ~left[j].live
          BY <3>1, <3>3, <4>2
        <5> QED BY <5>1 DEF SockOK
      <4> QED BY <4>1, <4>2
    <3>5. \A j \in Slots : left[j].st \in {"connecting", "open"} => j # ref /\ left[j].st = ss[j].st
      BY <3>1, <3>3
    <3> QED BY <2>2, <3>3, <3>4, <3>5 DEF UpIn
  <2> QED BY <2>1, <2>2
<1> HIDE DEF left
<1>4. /\ made \in [Slots -> Socket] /\ now \in Slots \cup {NoSlot}
      /\ \A k \in Slots : SockOK(made[k], r2)
      /\ UpIn(made) \subseteq UpIn(left) \cup (IF opens THEN {now} ELSE {})
  <2>1. CASE ~opens
    BY <1>2, <1>3, <2>1
  <2>2. CASE opens
    <3>1. ASlot \in Slots
      BY <1>1, <2>2, ASlotFree
    <3> DEFINE x == Connecting(r2)
    <3>2. x \in Socket /\ x.st = "connecting" /\ x.run = r2 /\ x.q = <<>>
      BY <1>2, ConnectingEffect
    <3>3. r2 \in Runs
      BY <1>2, <2>2
    <3>4. SockOK(x, r2)
      BY <3>2, <3>3, NoSlotIsNone DEF SockOK
    <3> HIDE DEF x
    <3>5. made = [left EXCEPT ![ASlot] = x] /\ now = ASlot
      BY <2>2 DEF x
    <3> QED BY <1>3, <2>2, <3>1, <3>2, <3>4, <3>5 DEF UpIn
  <2> QED BY <2>1, <2>2
<1> HIDE DEF made
<1>5. /\ Shut(now, made) \in [Slots -> Socket]
      /\ \A k \in Slots : SockOK(Shut(now, made)[k], r2)
      /\ UpIn(Shut(now, made)) \subseteq UpIn(made) \ {now}
  <2> DEFINE shut == Shut(now, made)
  <2>1. /\ shut \in [Slots -> Socket]
        /\ \A j \in Slots :
               /\ shut[j].run = made[j].run /\ shut[j].live = made[j].live
               /\ j # now => shut[j] = made[j]
               /\ j = now => shut[j].st = "closing" /\ shut[j].q = <<>>
    BY <1>4, ShutEffect
  <2> HIDE DEF shut
  <2>2. ASSUME NEW j \in Slots PROVE SockOK(shut[j], r2)
    <3>1. CASE j # now
      BY <1>4, <2>1, <3>1
    <3>2. CASE j = now
      <4>1. SockOK(made[j], r2)
        BY <1>4
      <4>2. /\ shut[j].run = made[j].run /\ shut[j].live = made[j].live
            /\ shut[j].st = "closing" /\ shut[j].q = <<>>
        BY <2>1, <3>2
      <4> QED BY <4>1, <4>2 DEF SockOK
    <3> QED BY <3>1, <3>2
  <2>3. UpIn(shut) \subseteq UpIn(made) \ {now}
    BY <2>1 DEF UpIn
  <2> QED BY <2>1, <2>2, <2>3 DEF shut
<1>6. /\ socks' \in [Slots -> Socket] /\ ref' \in Slots \cup {NoSlot}
      /\ \A k \in Slots : SockOK(socks'[k], r2)
  <2>1. socks' = Shut(now, made) \/ socks' = made
    BY <1>1
  <2>2. ref' = NoSlot \/ ref' = now
    BY <1>1
  <2> HIDE DEF now
  <2> QED BY <1>4, <1>5, <2>1, <2>2
<1>7. ASSUME OneUp(ss, ref, timer, status), ~(r2 # runId /\ Over(s2) /\ s2 = status)
      PROVE  OneUp(socks', ref', timer', s2)
  <2>1. /\ UpIn(ss) \subseteq {ref}
        /\ timer \/ Over(status) => UpIn(ss) = {}
        /\ Over(status) => ~timer
    BY <1>7 DEF OneUp
  <2>2. UpIn(made) \subseteq {now} /\ (~opens => UpIn(made) \subseteq UpIn(left))
    BY <1>3, <1>4, <2>1
  <2>3. CASE over
    <3>1. UpIn(socks') = {} /\ ~timer'
      BY <1>1, <1>5, <2>2, <2>3
    <3> QED BY <3>1 DEF OneUp
  <2>4. CASE ~over
    <3>1. socks' = made /\ ref' = now
      BY <1>1, <2>4
    <3>2. Over(s2) => s2 = status /\ ~moved
      BY <1>7, <2>4
    <3>3. ~moved => UpIn(socks') \subseteq UpIn(ss)
      BY <1>3, <2>2, <3>1
    <3>4. timer' => timer /\ ~moved
      BY <1>1
    <3> QED BY <2>1, <2>2, <3>1, <3>2, <3>3, <3>4 DEF OneUp
  <2> QED BY <2>3, <2>4
<1> QED BY <1>6, <1>7

\* No effect asks for anything by itself: requests are as before or uncared for.
LEMMA RenderedCalls ==
    ASSUME NEW r2, NEW s2, NEW cs, NEW ss, Renders(r2, s2, cs, ss)
    PROVE  /\ calls' \in SUBSET Request
           /\ \A c \in calls' : CallOK(c, r2) /\ (c.live => c \in cs)
<1>0. /\ cs \in SUBSET Request /\ \A c \in cs : CallOK(c, runId)
      /\ page = "away" => \A c \in cs : ~c.live
  BY DEF Renders
<1>1. CASE page \notin {"loading", "shown", "error"}
  <2>1. calls' = cs /\ page = "away"
    BY <1>1 DEF Renders, Rerender, Shaped
  <2> QED BY <1>0, <2>1 DEF CallOK
<1>2. CASE page \in {"loading", "shown", "error"}
  <2> DEFINE moves == r2 # runId \/ s2 # status
             ops == (IF r2 # runId THEN {"backfill"} ELSE {}) \cup (IF moves THEN {"poll"} ELSE {})
  <2>1. calls' = Stop(ops, cs)
    BY <1>2 DEF Renders, Rerender
  <2>2. r2 # runId => {"backfill", "poll"} \subseteq ops
    OBVIOUS
  <2> HIDE DEF ops
  <2>3. /\ calls' \in SUBSET Request
        /\ \A c \in calls' : /\ c.live => c \in cs /\ c.op \notin ops
                             /\ \E d \in cs : c.op = d.op /\ c.step = d.step /\ c.run = d.run
    BY <1>0, <2>1, StopEffect
  <2>4. ASSUME NEW c \in calls' PROVE CallOK(c, r2)
    <3>1. PICK d \in cs : c.op = d.op /\ c.step = d.step /\ c.run = d.run
      BY <2>3
    <3>2. About(c) => c.run \in Runs
      BY <1>0, <3>1 DEF CallOK, About
    <3>3. c.live /\ c.op \in {"backfill", "poll"} => c.run = r2
      <4> SUFFICES ASSUME c.live, c.op \in {"backfill", "poll"} PROVE c.run = r2
        OBVIOUS
      <4>1. c \in cs /\ r2 = runId
        BY <2>2, <2>3
      <4> QED BY <1>0, <4>1 DEF CallOK
    <3> QED BY <3>2, <3>3 DEF CallOK
  <2> QED BY <2>3, <2>4
<1> QED BY <1>1, <1>2

\* All in all.
LEMMA Rendered ==
    ASSUME NEW r2, NEW s2, NEW cs, NEW ss, Renders(r2, s2, cs, ss),
           page' = page \/ (page # "away" /\ page' # "away")
    PROVE  /\ runId' = r2 /\ status' = s2 /\ Linked'
           /\ socks' \in [Slots -> Socket] /\ ref' \in Slots \cup {NoSlot}
           /\ calls' \in SUBSET Request
           /\ \A c \in calls' : c.live => c \in cs
<1>1. runId' = r2 /\ status' = s2
  BY DEF Renders, Rerender
<1>2. /\ calls' \in SUBSET Request
      /\ \A c \in calls' : CallOK(c, r2) /\ (c.live => c \in cs)
  BY RenderedCalls
<1>3. CASE page = "away"
  <2>1. /\ socks' = ss /\ calls' = cs /\ ref' = ref /\ timer' = timer /\ polling' = polling
    BY <1>3 DEF Renders, Rerender
  <2>2. /\ ~timer /\ ~polling
        /\ \A k \in Slots : ~ss[k].live /\ SockOK(ss[k], runId)
        /\ \A c \in cs : ~c.live
        /\ ss \in [Slots -> Socket] /\ ref \in Slots \cup {NoSlot}
    BY <1>3 DEF Renders, Shaped
  <2>3. \A k \in Slots : SockOK(ss[k], r2)
    BY <2>2 DEF SockOK
  <2> QED BY <1>1, <1>2, <1>3, <2>1, <2>2, <2>3 DEF Linked
<1>4. CASE page # "away"
  <2>1. /\ socks' \in [Slots -> Socket] /\ ref' \in Slots \cup {NoSlot}
        /\ \A k \in Slots : SockOK(socks'[k], r2)
    BY <1>4, RenderedSockets
  <2>2. timer' \/ polling' => r2 # NoRun
    <3>1. page \in {"loading", "shown", "error"} /\ (timer \/ polling => runId # NoRun)
      BY <1>4 DEF Renders, Shaped
    <3>2. timer' => timer /\ r2 = runId
      BY <3>1 DEF Renders, Rerender
    <3>3. polling' => r2 # NoRun \/ (polling /\ r2 = runId)
      BY <3>1 DEF Renders, Rerender
    <3> QED BY <3>1, <3>2, <3>3
  <2>3. page' # "away"
    BY <1>4
  <2> QED BY <1>1, <1>2, <2>1, <2>2, <2>3 DEF Linked
<1> QED BY <1>3, <1>4

-----------------------------------------------------------------------------
(* The server.                                                             *)

Sound == Shaped /\ Linked

\* Sockets that differ at most in what they have not yet delivered.
Alike(ss) ==
    \A k \in Slots : /\ ss[k].st = socks[k].st /\ ss[k].run = socks[k].run
                     /\ ss[k].live = socks[k].live /\ ss[k].mine = socks[k].mine

\* An event is added to the log and to what the open sockets of its run bring.
LEMMA EmitEffect ==
    ASSUME Sound, NEW r \in Runs, NEW k \in Kinds, Len(log[r]) < MaxLog, Emit(r, k)
    PROVE  /\ log' \in [Runs -> Seq(Kinds)] /\ \A q \in Runs : Len(log'[q]) <= MaxLog
           /\ socks' \in [Slots -> Socket] /\ Alike(socks')
           /\ \A s \in Slots : SockOK(socks'[s], runId)
<1>1. /\ log \in [Runs -> Seq(Kinds)] /\ (\A q \in Runs : Len(log[q]) <= MaxLog)
      /\ socks \in [Slots -> Socket] /\ \A s \in Slots : SockOK(socks[s], runId)
  BY DEF Sound, Shaped, Linked
<1>2. MaxLog \in Nat /\ log[r] \in Seq(Kinds) /\ Len(log[r]) \in Nat
  BY <1>1, RunViewAssumption
<1>3. log' \in [Runs -> Seq(Kinds)] /\ \A q \in Runs : Len(log'[q]) <= MaxLog
  <2>1. log' = [log EXCEPT ![r] = Append(log[r], k)]
    BY DEF Emit
  <2>2. Append(log[r], k) \in Seq(Kinds) /\ Len(Append(log[r], k)) <= MaxLog
    BY <1>2
  <2> QED BY <1>1, <2>1, <2>2
<1> DEFINE e == <<r, Len(log[r]) + 1>>
<1>4. e \in EventIds /\ e[1] = r
  BY <1>2 DEF EventIds
<1>5. socks' = [s \in Slots |-> IF socks[s].st = "open" /\ socks[s].run = r
                                THEN [socks[s] EXCEPT !.q = Append(socks[s].q, e)] ELSE socks[s]]
  BY DEF Emit
<1> HIDE DEF e
<1>6. ASSUME NEW s \in Slots, socks[s].st = "open", socks[s].run = r
      PROVE  LET x == [socks[s] EXCEPT !.q = Append(socks[s].q, e)] IN
             /\ x \in Socket /\ x.st = socks[s].st /\ x.run = socks[s].run
             /\ x.live = socks[s].live /\ x.mine = socks[s].mine /\ SockOK(x, runId)
  <2> DEFINE q == Append(socks[s].q, e)
             x == [socks[s] EXCEPT !.q = q]
  <2>1. socks[s] \in Socket
    BY <1>1
  <2>2. socks[s].q \in Seq(EventIds)
    BY <2>1 DEF Socket
  <2>3. /\ q \in Seq(EventIds) /\ DOMAIN q = 1 .. (Len(socks[s].q) + 1)
        /\ \A i \in 1 .. Len(socks[s].q) : q[i] = socks[s].q[i]
        /\ q[Len(socks[s].q) + 1] = e /\ Len(socks[s].q) \in Nat
        /\ DOMAIN socks[s].q = 1 .. Len(socks[s].q)
    BY <1>4, <2>2
  <2> HIDE DEF q
  <2>4. /\ x \in Socket /\ x.st = socks[s].st /\ x.run = socks[s].run
        /\ x.live = socks[s].live /\ x.mine = socks[s].mine /\ x.q = q
    BY <2>1, <2>3 DEF Socket
  <2> HIDE DEF x
  <2>5. ASSUME NEW i \in DOMAIN q PROVE q[i][1] = r
    <3>1. i = Len(socks[s].q) + 1 \/ i \in DOMAIN socks[s].q
      BY <2>3
    <3>2. i \in DOMAIN socks[s].q => q[i] = socks[s].q[i] /\ socks[s].q[i][1] = socks[s].run
      BY <1>1, <2>3 DEF SockOK
    <3> QED BY <1>4, <1>6, <2>3, <3>1, <3>2
  <2>6. SockOK(x, runId)
    <3>1. SockOK(socks[s], runId)
      BY <1>1
    <3> QED BY <1>6, <2>4, <2>5, <3>1 DEF SockOK
  <2> QED BY <2>4, <2>6 DEF x, q
<1>7. ASSUME NEW s \in Slots
      PROVE  /\ socks'[s] \in Socket /\ socks'[s].st = socks[s].st /\ socks'[s].run = socks[s].run
             /\ socks'[s].live = socks[s].live /\ socks'[s].mine = socks[s].mine
             /\ SockOK(socks'[s], runId)
  <2>1. CASE socks[s].st = "open" /\ socks[s].run = r
    <3>1. socks'[s] = [socks[s] EXCEPT !.q = Append(socks[s].q, e)]
      BY <1>5, <2>1
    <3> QED BY <1>6, <2>1, <3>1
  <2>2. CASE ~(socks[s].st = "open" /\ socks[s].run = r)
    <3>1. socks'[s] = socks[s]
      BY <1>5, <2>2
    <3> QED BY <1>1, <3>1
  <2> QED BY <2>1, <2>2
<1>8. socks' \in [Slots -> Socket]
  BY <1>5, <1>7
<1> QED BY <1>3, <1>7, <1>8 DEF Alike

\* The server's own steps.
LEMMA ServerEffect ==
    ASSUME Sound, NEW r \in Runs, Work(r) \/ Finish(r) \/ Tell(r)
    PROVE  /\ Sound' /\ Alike(socks')
           /\ UNCHANGED <<page, calls, ref, timer, manual, polling, store, stray>>
<1>0. MaxLog \in Nat /\ log[r] \in Seq(Kinds) /\ Len(log[r]) \in Nat
  BY RunViewAssumption DEF Sound, Shaped
<1>1. UNCHANGED <<latest, page, calls, ref, timer, manual, polling, store, stray>>
  BY DEF Work, Finish, Tell, hook, store
<1>2. CASE Work(r) \/ Tell(r)
  <2>1. PICK k \in Kinds : Emit(r, k)
    <3>1. CASE Work(r)
      BY <3>1 DEF Work, Kinds
    <3>2. CASE Tell(r)
      BY <3>2 DEF Tell, EndEvent, Kinds
    <3> QED BY <1>2, <3>1, <3>2
  <2>2. Len(log[r]) < MaxLog /\ srv' = srv
    BY <1>0, <1>2 DEF Work, Tell
  <2>3. /\ log' \in [Runs -> Seq(Kinds)] /\ \A q \in Runs : Len(log'[q]) <= MaxLog
        /\ socks' \in [Slots -> Socket] /\ Alike(socks')
        /\ \A s \in Slots : SockOK(socks'[s], runId)
    BY <2>1, <2>2, EmitEffect
  <2>4. Shaped'
    BY <1>1, <2>2, <2>3 DEF Sound, Shaped, store
  <2>5. Linked'
    BY <1>1, <2>3 DEF Sound, Linked, Alike, store
  <2> QED BY <1>1, <2>3, <2>4, <2>5 DEF Sound
<1>3. CASE Finish(r)
  <2>1. srv' \in [Runs -> Statuses \cup {"none"}] /\ UNCHANGED <<log, socks>>
    BY <1>3, RunViewAssumption DEF Finish, Sound, Shaped, Statuses, Ended, hook
  <2>2. Shaped'
    BY <1>1, <2>1 DEF Sound, Shaped, store
  <2>3. Linked'
    BY <1>1, <2>1 DEF Sound, Linked, store
  <2> QED BY <1>1, <2>1, <2>2, <2>3 DEF Sound, Alike
<1> QED BY <1>2, <1>3

\* The server has answered a request: it says more, and asks for the same.
Answered(c, e) ==
    /\ e \in Request /\ e.op = c.op /\ e.step = c.step /\ e.live = c.live
    /\ CallOK(e, runId)

\* An answer that reads the run or its events.
LEMMA ReadEffect ==
    ASSUME Sound, NEW c \in calls, ServeRead(c)
    PROVE  \E e : Answered(c, e) /\ calls' = (calls \ {c}) \cup {e}
<1>1. c \in Request /\ CallOK(c, runId) /\ latest \in Runs \cup {NoRun}
  BY DEF Sound, Shaped, Linked
<1>2. c.op \in {"load", "backfill", "poll"} /\ c.step \in {"first", "second"}
  BY <1>1 DEF ServeRead, Request
<1> DEFINE run == IF c.op = "load" /\ c.step = "first" THEN latest ELSE c.run
           st == IF c.step = "second" \/ c.op = "backfill" THEN c.st
                 ELSE IF c.op = "load" THEN (IF latest = NoRun THEN "none" ELSE srv[latest])
                 ELSE srv[c.run]
           n == IF c.step = "second" \/ c.op = "backfill" THEN Len(log[c.run]) ELSE c.n
           e == [[c EXCEPT !.ok = TRUE, !.run = run, !.st = st, !.n = n] EXCEPT !.answered = TRUE]
<1>3. calls' = (calls \ {c}) \cup {e}
  BY DEF ServeRead, Answer
<1>4. run \in Runs \cup {NoRun}
  BY <1>1 DEF Request
<1>5. st \in Statuses \cup {"none"}
  BY <1>1, <1>2 DEF Sound, Shaped, Request, CallOK, About
<1>6. n \in 0 .. MaxLog
  <2>1. CASE c.step = "second" \/ c.op = "backfill"
    <3>1. c.run \in Runs
      BY <1>1, <1>2, <2>1 DEF CallOK, About
    <3>2. log[c.run] \in Seq(Kinds) /\ Len(log[c.run]) <= MaxLog /\ MaxLog \in Nat
      BY <3>1, RunViewAssumption DEF Sound, Shaped
    <3> QED BY <2>1, <3>2
  <2>2. CASE ~(c.step = "second" \/ c.op = "backfill")
    BY <1>1, <2>2 DEF Request
  <2> QED BY <2>1, <2>2
<1>7. (c.op = "load" /\ c.step = "first") \/ run = c.run
  OBVIOUS
<1> HIDE DEF run, st, n
<1>8. /\ e \in Request /\ e.op = c.op /\ e.step = c.step /\ e.live = c.live /\ e.run = run
  BY <1>1, <1>4, <1>5, <1>6 DEF Request
<1> HIDE DEF e
<1>9. CallOK(e, runId)
  BY <1>1, <1>2, <1>7, <1>8 DEF CallOK, About
<1> QED BY <1>3, <1>8, <1>9 DEF Answered

\* A refusal or a plain success.
LEMMA PlainEffect ==
    ASSUME Sound, NEW c \in calls, Good(c) \/ Bad(c)
    PROVE  \E e : Answered(c, e) /\ calls' = (calls \ {c}) \cup {e}
<1>1. c \in Request /\ CallOK(c, runId)
  BY DEF Sound, Shaped, Linked
<1>2. PICK b \in BOOLEAN : calls' = (calls \ {c}) \cup {[[c EXCEPT !.ok = b] EXCEPT !.answered = TRUE]}
  BY DEF Good, Bad, Answer
<1> DEFINE e == [[c EXCEPT !.ok = b] EXCEPT !.answered = TRUE]
<1>3. e \in Request /\ e.op = c.op /\ e.step = c.step /\ e.live = c.live /\ e.run = c.run
  BY <1>1 DEF Request
<1> HIDE DEF e
<1>4. CallOK(e, runId)
  BY <1>1, <1>3 DEF CallOK, About
<1> QED BY <1>2, <1>3, <1>4 DEF Answered, e

\* The answer to Run names a run that is new.
LEMMA TriggerEffect ==
    ASSUME Sound, NEW c \in calls, ServeTrigger(c)
    PROVE  /\ \E e : Answered(c, e) /\ calls' = (calls \ {c}) \cup {e}
           /\ latest' \in Runs \cup {NoRun} /\ srv' \in [Runs -> Statuses \cup {"none"}]
<1>1. /\ c \in Request /\ CallOK(c, runId) /\ latest \in Runs \cup {NoRun}
      /\ srv \in [Runs -> Statuses \cup {"none"}]
  BY DEF Sound, Shaped, Linked
<1>2. CASE UNCHANGED <<latest, srv>> /\ (Good(c) \/ Bad(c))
  BY <1>1, <1>2, PlainEffect
<1>3. CASE ~(UNCHANGED <<latest, srv>> /\ (Good(c) \/ Bad(c)))
  <2>1. /\ c.step # "second" /\ latest # MaxRuns
        /\ latest' = latest + 1 /\ srv' = [srv EXCEPT ![latest + 1] = "running"]
        /\ Answer(c, [c EXCEPT !.run = latest + 1, !.ok = TRUE]) \/ Bad(c)
        /\ c.op = "trigger"
    BY <1>3 DEF ServeTrigger, server
  <2>2. latest + 1 \in Runs
    BY <1>1, <2>1, RunViewAssumption DEF Runs, NoRun
  <2>3. srv' \in [Runs -> Statuses \cup {"none"}]
    BY <1>1, <2>1 DEF Statuses
  <2>4. CASE Bad(c)
    BY <2>1, <2>2, <2>3, <2>4, PlainEffect
  <2>5. CASE Answer(c, [c EXCEPT !.run = latest + 1, !.ok = TRUE])
    <3> DEFINE r == latest + 1
               e == [[c EXCEPT !.run = r, !.ok = TRUE] EXCEPT !.answered = TRUE]
    <3>1. r \in Runs
      BY <2>2
    <3>2. calls' = (calls \ {c}) \cup {e}
      BY <2>5 DEF Answer
    <3> HIDE DEF r
    <3>3. e \in Request /\ e.op = c.op /\ e.step = c.step /\ e.live = c.live
      BY <1>1, <3>1 DEF Request
    <3> HIDE DEF e
    <3>4. CallOK(e, runId)
      BY <2>1, <3>3 DEF CallOK, About
    <3> QED BY <2>1, <2>2, <2>3, <3>2, <3>3, <3>4 DEF Answered
  <2> QED BY <2>1, <2>4, <2>5
<1> QED BY <1>2, <1>3

\* The server answers: one request is answered, no socket opens or closes.
LEMMA ServeEffect ==
    ASSUME Sound, NEW c \in calls, Serve(c)
    PROVE  /\ Sound' /\ Alike(socks')
           /\ \E e : Answered(c, e) /\ calls' = (calls \ {c}) \cup {e}
           /\ UNCHANGED <<page, ref, timer, manual, polling, store, stray>>
<1>0. /\ c \in Request /\ CallOK(c, runId) /\ MaxLog \in Nat
      /\ srv \in [Runs -> Statuses \cup {"none"}]
  BY RunViewAssumption DEF Sound, Shaped, Linked
<1>1. UNCHANGED <<page, ref, timer, manual, polling, store, stray>>
  BY DEF Serve
<1>2. /\ \E e : Answered(c, e) /\ calls' = (calls \ {c}) \cup {e}
      /\ latest' \in Runs \cup {NoRun} /\ srv' \in [Runs -> Statuses \cup {"none"}]
      /\ UNCHANGED <<log, socks>> \/ \E r \in Runs : Len(log[r]) < MaxLog /\ Emit(r, "run_resumed")
  <2>0. latest \in Runs \cup {NoRun}
    BY DEF Sound, Shaped
  <2>1. CASE ServeRead(c)
    BY <1>0, <2>0, <2>1, ReadEffect DEF ServeRead, server
  <2>2. CASE ServeTrigger(c)
    <3>1. UNCHANGED <<log, socks>>
      BY <2>2 DEF ServeTrigger, server
    <3> QED BY <2>2, <3>1, TriggerEffect
  <2>3. CASE ServeResume(c)
    <3>1. c.run \in Runs
      BY <1>0, <2>3 DEF ServeResume, CallOK, About
    <3>2. CASE Resumed(c.run) /\ Good(c) /\ UNCHANGED latest /\ Len(log[c.run]) < MaxLog
      <4>1. srv' \in [Runs -> Statuses \cup {"none"}]
        BY <1>0, <3>2 DEF Resumed, Statuses
      <4> QED BY <2>0, <3>1, <3>2, <4>1, PlainEffect DEF Resumed
    <3>3. CASE Bad(c) /\ UNCHANGED <<server, socks>>
      BY <1>0, <2>0, <3>3, PlainEffect DEF server
    <3> QED BY <2>3, <3>2, <3>3 DEF ServeResume
  <2>4. CASE ServeCancel(c)
    <3>1. Good(c) \/ Bad(c)
      BY <2>4 DEF ServeCancel
    <3>2. UNCHANGED <<log, latest, socks>>
      BY <2>4 DEF ServeCancel, server
    <3>3. srv' = srv \/ srv' = [srv EXCEPT ![c.run] = "cancelling"]
      BY <2>4 DEF ServeCancel, server
    <3>4. srv' \in [Runs -> Statuses \cup {"none"}]
      BY <1>0, <3>3 DEF Statuses
    <3> QED BY <2>0, <3>1, <3>2, <3>4, PlainEffect
  <2>5. CASE Bad(c) /\ UNCHANGED <<server, socks>>
    BY <1>0, <2>0, <2>5, PlainEffect DEF server
  <2> QED BY <2>1, <2>2, <2>3, <2>4, <2>5 DEF Serve
<1>3. /\ log' \in [Runs -> Seq(Kinds)] /\ \A q \in Runs : Len(log'[q]) <= MaxLog
      /\ socks' \in [Slots -> Socket] /\ Alike(socks')
      /\ \A s \in Slots : SockOK(socks'[s], runId)
  <2>1. CASE UNCHANGED <<log, socks>>
    BY <2>1 DEF Sound, Shaped, Linked, Alike
  <2>2. CASE \E r \in Runs : Len(log[r]) < MaxLog /\ Emit(r, "run_resumed")
    <3>1. "run_resumed" \in Kinds
      BY DEF Kinds
    <3> QED BY <2>2, <3>1, EmitEffect
  <2> QED BY <1>2, <2>1, <2>2
<1>4. PICK e : Answered(c, e) /\ calls' = (calls \ {c}) \cup {e}
  BY <1>2
<1>5. Shaped'
  BY <1>1, <1>2, <1>3, <1>4 DEF Sound, Shaped, store, Answered
<1>6. Linked'
  <2>1. \A d \in calls' : CallOK(d, runId) /\ (page = "away" => ~d.live)
    BY <1>4 DEF Sound, Linked, Answered
  <2> QED BY <1>1, <1>3, <2>1 DEF Sound, Linked, Alike, store
<1> QED BY <1>1, <1>3, <1>4, <1>5, <1>6 DEF Sound

-----------------------------------------------------------------------------
(* The store's batches.                                                    *)

\* A history holds events of its run only, each once.
LEMMA HistoryEffect ==
    ASSUME NEW r \in Runs, NEW n \in 0 .. MaxLog
    PROVE  /\ History(r, n) \in Seq(EventIds) /\ Once(History(r, n))
           /\ \A e \in Members(History(r, n)) : e[1] = r
<1>1. n \in Nat /\ MaxLog \in Nat
  BY RunViewAssumption
<1>2. /\ DOMAIN History(r, n) = 1 .. n
      /\ \A i \in 1 .. n : History(r, n)[i] = <<r, i>> /\ <<r, i>> \in EventIds
  BY <1>1 DEF History, EventIds
<1>3. History(r, n) \in Seq(EventIds)
  BY <1>1, <1>2 DEF History
<1>4. \A i, j \in 1 .. n : <<r, i>> = <<r, j>> => i = j
  OBVIOUS
<1> DEFINE h == History(r, n)
<1> HIDE DEF h
<1>5. DOMAIN h = 1 .. n /\ \A i \in 1 .. n : h[i] = <<r, i>>
  BY <1>2 DEF h
<1>6. Once(h)
  BY <1>4, <1>5 DEF Once
<1>7. \A e \in Members(h) : e[1] = r
  BY <1>5 DEF Members
<1> QED BY <1>3, <1>6, <1>7 DEF h

\* The two ways to say what a sequence holds, and that it repeats nothing.
LEMMA RangeMembers == \A s : Range(s) = Members(s) /\ (IsInjective(s) <=> Once(s))
BY DEF Range, Members, IsInjective, Once

\* What is left of a batch is what was not known.
LEMMA UnknownEffect ==
    ASSUME NEW s \in Seq(EventIds), NEW known
    PROVE  /\ Unknown(s, known) \in Seq(EventIds)
           /\ Members(Unknown(s, known)) = Members(s) \ known
           /\ Range(Unknown(s, known)) = Members(s) \ known
           /\ Once(s) => Once(Unknown(s, known))
BY WithoutMembers, RangeMembers DEF Unknown

\* What a sequence over D holds is in D.
LEMMA MembersTyped ==
    ASSUME NEW D, NEW s \in Seq(D)
    PROVE  Members(s) \subseteq D
BY DEF Members

\* What is left of a queue.
LEMMA TailEffect ==
    ASSUME NEW D, NEW s \in Seq(D), s # <<>>
    PROVE  /\ Head(s) \in D /\ Tail(s) \in Seq(D) /\ 1 \in DOMAIN s /\ Head(s) = s[1]
           /\ \A i \in DOMAIN Tail(s) : i + 1 \in DOMAIN s /\ Tail(s)[i] = s[i + 1]
BY HeadTailProperties

\* A socket of which a message has been taken.
LEMMA PoppedEffect ==
    ASSUME Sound, NEW k \in Slots, socks[k].q # <<>>
    PROVE  LET ss == [socks EXCEPT ![k].q = Tail(@)] IN
           /\ ss \in [Slots -> Socket] /\ Alike(ss)
           /\ \A s \in Slots : SockOK(ss[s], runId)
           /\ Head(socks[k].q) \in EventIds /\ Head(socks[k].q)[1] = socks[k].run
<1> DEFINE x == [socks[k] EXCEPT !.q = Tail(socks[k].q)]
           ss == [socks EXCEPT ![k] = x]
<1>1. socks \in [Slots -> Socket] /\ \A s \in Slots : SockOK(socks[s], runId)
  BY DEF Sound, Shaped, Linked
<1>2. socks[k] \in Socket /\ socks[k].q \in Seq(EventIds)
  BY <1>1 DEF Socket
<1>3. /\ Head(socks[k].q) \in EventIds /\ Tail(socks[k].q) \in Seq(EventIds)
      /\ 1 \in DOMAIN socks[k].q /\ Head(socks[k].q) = socks[k].q[1]
      /\ \A i \in DOMAIN Tail(socks[k].q) :
             i + 1 \in DOMAIN socks[k].q /\ Tail(socks[k].q)[i] = socks[k].q[i + 1]
  BY <1>2, TailEffect
<1>4. /\ x \in Socket /\ x.st = socks[k].st /\ x.run = socks[k].run
      /\ x.live = socks[k].live /\ x.mine = socks[k].mine /\ x.q = Tail(socks[k].q)
  BY <1>2, <1>3 DEF Socket
<1>5. [socks EXCEPT ![k].q = Tail(@)] = ss
  OBVIOUS
<1> HIDE DEF x
<1>6. SockOK(socks[k], runId)
  BY <1>1
<1>7. SockOK(x, runId)
  BY <1>3, <1>4, <1>6 DEF SockOK
<1>8. ss \in [Slots -> Socket] /\ Alike(ss) /\ \A s \in Slots : SockOK(ss[s], runId)
  BY <1>1, <1>4, <1>7 DEF Alike
<1>9. Head(socks[k].q)[1] = socks[k].run
  BY <1>3, <1>6 DEF SockOK
<1> QED BY <1>3, <1>5, <1>8, <1>9

\* The known ids stay ids.
LEMMA TrimmedEffect ==
    ASSUME Sound, NEW known \in SUBSET EventIds
    PROVE  Trimmed(known) \in SUBSET EventIds
<1>1. \A i \in DOMAIN evs : evs[i] \in EventIds
  BY DEF Sound, Shaped
<1> QED BY <1>1 DEF Trimmed

\* A call in flight that is new.
LEMMA AskEffect ==
    ASSUME NEW op \in Ops, NEW r \in Runs \cup {NoRun}
    PROVE  /\ Ask(op, r) \in Request /\ Ask(op, r).op = op /\ Ask(op, r).run = r
           /\ Ask(op, r).step = "first" /\ Ask(op, r).live
<1>1. 0 \in 0 .. MaxLog
  BY RunViewAssumption
<1> QED BY <1>1 DEF Ask, Request

\* The second request of a callback.
LEMMA SecondEffect ==
    ASSUME NEW c \in Request
    PROVE  LET e == [c EXCEPT !.step = "second", !.answered = FALSE] IN
           /\ e \in Request /\ e.op = c.op /\ e.run = c.run /\ e.step = "second"
           /\ e.live = c.live
BY DEF Request

-----------------------------------------------------------------------------
(* Every step keeps the state in shape.                                    *)

\* A batch is applied: what the store has of it, and a render.
LEMMA ApplySound ==
    ASSUME Sound, NEW batch \in Seq(EventIds), NEW cs \in SUBSET calls,
           NEW ss \in [Slots -> Socket], \A s \in Slots : SockOK(ss[s], runId),
           \A s \in Slots : ss[s].live => socks[s].live,
           Apply(batch, cs, ss), UNCHANGED server, page' = page,
           pending' \in Seq(EventIds), ids' \in SUBSET EventIds
    PROVE  /\ Sound' /\ evs' = evs \o batch /\ runId' = runId
           /\ Renders(runId, StatusAfter(status, batch), cs, ss)
<1>1. Renders(runId, StatusAfter(status, batch), cs, ss)
  BY DEF Apply, Renders, Sound, Shaped, Linked
<1>2. /\ runId' = runId /\ Linked'
      /\ socks' \in [Slots -> Socket] /\ ref' \in Slots \cup {NoSlot}
      /\ calls' \in SUBSET Request
  BY <1>1, Rendered
<1>3. evs' = evs \o batch /\ evs' \in Seq(EventIds)
  BY DEF Apply, Sound, Shaped
<1>4. Shaped'
  BY <1>2, <1>3 DEF Sound, Shaped, server
<1> QED BY <1>1, <1>2, <1>3, <1>4 DEF Sound

\* The waiting batch is applied.
LEMMA FlushSound ==
    ASSUME Sound, Flush
    PROVE  /\ Sound' /\ evs' = evs \o pending /\ pending' = <<>> /\ runId' = runId
           /\ Renders(runId, StatusAfter(status, pending), calls, socks)
<1>1. /\ pending \in Seq(EventIds) /\ socks \in [Slots -> Socket] /\ ids \in SUBSET EventIds
      /\ \A s \in Slots : SockOK(socks[s], runId)
  BY DEF Sound, Shaped, Linked
<1>2. /\ Apply(pending, calls, socks) /\ UNCHANGED <<server, page, ids>> /\ pending' = <<>>
  BY DEF Flush
<1>3. /\ \A s \in Slots : socks[s].live => socks[s].live
      /\ calls \in SUBSET calls /\ UNCHANGED server /\ page' = page
      /\ pending' \in Seq(EventIds) /\ ids' \in SUBSET EventIds
  BY <1>1, <1>2
<1>4. Apply(pending, calls, socks)
  BY <1>2
<1>5. /\ Sound' /\ evs' = evs \o pending /\ runId' = runId
      /\ Renders(runId, StatusAfter(status, pending), calls, socks)
  BY <1>1, <1>3, <1>4, ApplySound
<1> QED BY <1>2, <1>5

\* A message of an open socket.
LEMMA MessageSound ==
    ASSUME Sound, NEW k \in Slots, Message(k)
    PROVE  LET e == Head(socks[k].q) IN
           /\ Sound' /\ runId' = runId /\ page' = page
           /\ stray' = (stray \/ ~socks[k].live)
           /\ e \in EventIds /\ e[1] = socks[k].run /\ socks[k].run \in Runs
           /\ \/ e \in ids /\ UNCHANGED <<evs, pending, ids>>
              \/ e \notin ids /\ ids' = Trimmed(ids \cup {e})
                 /\ \/ evs' = evs /\ pending' = Append(pending, e)
                    \/ evs' = evs \o Append(pending, e) /\ pending' = <<>>
           /\ \/ Alike(socks') /\ UNCHANGED <<status, calls, ref, timer, manual, polling>>
              \/ \E s2, ss : Renders(runId, s2, calls, ss) /\ Alike(ss)
<1> DEFINE e == Head(socks[k].q)
           popped == [socks EXCEPT ![k].q = Tail(@)]
           wait == Append(pending, e)
<1>1. /\ popped \in [Slots -> Socket] /\ Alike(popped)
      /\ \A s \in Slots : SockOK(popped[s], runId)
      /\ e \in EventIds /\ e[1] = socks[k].run
  BY PoppedEffect DEF Message
<1>2. socks[k].run \in Runs
  BY DEF Message, Sound, Linked, SockOK
<1>3. wait \in Seq(EventIds) /\ ids \cup {e} \in SUBSET EventIds
  BY <1>1 DEF Sound, Shaped
<1>4. Trimmed(ids \cup {e}) \in SUBSET EventIds
  BY <1>3, TrimmedEffect
<1>5. /\ stray' = (stray \/ ~socks[k].live) /\ UNCHANGED <<server, page>>
      /\ \/ /\ socks' = popped
            /\ pending' = IF e \in ids THEN pending ELSE wait
            /\ ids' = IF e \in ids THEN ids ELSE Trimmed(ids \cup {e})
            /\ UNCHANGED <<runId, status, evs, calls, ref, timer, manual, polling>>
         \/ /\ e \notin ids /\ pending' = <<>> /\ ids' = Trimmed(ids \cup {e})
            /\ Apply(wait, calls, popped)
  BY DEF Message
<1> HIDE DEF e, popped, wait
<1>6. CASE /\ socks' = popped
           /\ pending' = IF e \in ids THEN pending ELSE wait
           /\ ids' = IF e \in ids THEN ids ELSE Trimmed(ids \cup {e})
           /\ UNCHANGED <<runId, status, evs, calls, ref, timer, manual, polling>>
  <2>1. Shaped'
    BY <1>1, <1>3, <1>4, <1>5, <1>6 DEF Sound, Shaped, server
  <2>2. Linked'
    BY <1>1, <1>5, <1>6 DEF Sound, Linked, Alike
  <2> QED BY <1>1, <1>2, <1>5, <1>6, <2>1, <2>2 DEF Sound, e, wait
<1>7. CASE /\ e \notin ids /\ pending' = <<>> /\ ids' = Trimmed(ids \cup {e})
           /\ Apply(wait, calls, popped)
  <2>1. \A s \in Slots : popped[s].live => socks[s].live
    BY <1>1 DEF Alike
  <2>2. <<>> \in Seq(EventIds)
    OBVIOUS
  <2>3. /\ Sound' /\ evs' = evs \o wait /\ runId' = runId
        /\ Renders(runId, StatusAfter(status, wait), calls, popped)
    BY <1>1, <1>3, <1>4, <1>5, <1>7, <2>1, <2>2, ApplySound
  <2>4. \E s2, ss : Renders(runId, s2, calls, ss) /\ Alike(ss)
    BY <1>1, <2>3
  <2> QED BY <1>1, <1>2, <1>5, <1>7, <2>3, <2>4 DEF e, wait
<1> QED BY <1>5, <1>6, <1>7

\* A socket opens, on a page that cares for it asking for the history.
LEMMA OpenSound ==
    ASSUME Sound, NEW k \in Slots, Open(k)
    PROVE  /\ Sound' /\ UpIn(socks') = UpIn(socks)
           /\ \A s \in Slots : socks'[s].live = socks[s].live
           /\ k \in UpIn(socks) /\ UNCHANGED <<page, ref, timer, manual, polling, store, stray>>
           /\ \/ calls' = calls
              \/ socks[k].live /\ calls' = calls \cup {Ask("backfill", socks[k].run)}
<1>1. /\ socks[k].st = "connecting" /\ socks[k] \in Socket /\ SockOK(socks[k], runId)
      /\ UNCHANGED <<server, page, ref, timer, manual, polling, store, stray>>
  BY DEF Open, Sound, Shaped, Linked
<1>2. socks[k].run \in Runs
  BY <1>1 DEF SockOK
<1>3. PICK q \in {<<>>, History(socks[k].run, Len(log[socks[k].run]))} :
          socks' = [socks EXCEPT ![k].st = "open", ![k].q = q]
  BY DEF Open
<1>4. q \in Seq(EventIds) /\ \A i \in DOMAIN q : q[i][1] = socks[k].run
  <2>1. Len(log[socks[k].run]) \in 0 .. MaxLog
    <3>1. log[socks[k].run] \in Seq(Kinds) /\ Len(log[socks[k].run]) <= MaxLog /\ MaxLog \in Nat
      BY <1>2, RunViewAssumption DEF Sound, Shaped
    <3> QED BY <3>1
  <2>2. CASE q = <<>>
    BY <2>2
  <2>3. CASE q = History(socks[k].run, Len(log[socks[k].run]))
    BY <1>2, <2>1, <2>3, HistoryEffect DEF Members
  <2> QED BY <1>3, <2>2, <2>3
<1> DEFINE x == [socks[k] EXCEPT !.st = "open", !.q = q]
<1>5. socks' = [socks EXCEPT ![k] = x]
  BY <1>3
<1>6. /\ x \in Socket /\ x.st = "open" /\ x.run = socks[k].run /\ x.live = socks[k].live
      /\ x.q = q
  BY <1>1, <1>4 DEF Socket
<1> HIDE DEF x
<1>7. SockOK(x, runId)
  BY <1>1, <1>2, <1>4, <1>6 DEF SockOK
<1>8. /\ socks \in [Slots -> Socket] /\ \A s \in Slots : SockOK(socks[s], runId)
  BY DEF Sound, Shaped, Linked
<1>9. /\ socks' \in [Slots -> Socket] /\ \A s \in Slots : SockOK(socks'[s], runId)
      /\ \A s \in Slots : socks'[s].live = socks[s].live
  BY <1>5, <1>6, <1>7, <1>8
<1>10. UpIn(socks') = UpIn(socks) /\ k \in UpIn(socks)
  BY <1>1, <1>5, <1>6, <1>8 DEF UpIn
<1>11. \/ calls' = calls
       \/ socks[k].live /\ calls' = calls \cup {Ask("backfill", socks[k].run)}
  BY DEF Open
<1>12. /\ Ask("backfill", socks[k].run) \in Request
       /\ socks[k].live => CallOK(Ask("backfill", socks[k].run), runId) /\ page # "away"
  <2> DEFINE e == Ask("backfill", socks[k].run)
  <2>1. /\ e \in Request /\ e.op = "backfill" /\ e.run = socks[k].run
    BY <1>2, AskEffect DEF Ops
  <2> HIDE DEF e
  <2>2. socks[k].live => CallOK(e, runId)
    BY <1>1, <1>2, <2>1 DEF CallOK, SockOK
  <2>3. socks[k].live => page # "away"
    BY DEF Sound, Linked
  <2> QED BY <2>1, <2>2, <2>3 DEF e
<1>13. /\ calls' \in SUBSET Request /\ \A c \in calls' : CallOK(c, runId)
       /\ page = "away" => \A c \in calls' : ~c.live
  BY <1>11, <1>12 DEF Sound, Shaped, Linked
<1>14. Shaped'
  BY <1>1, <1>9, <1>13 DEF Sound, Shaped, server, store
<1>15. Linked'
  BY <1>1, <1>9, <1>13 DEF Sound, Linked, store
<1> QED BY <1>1, <1>9, <1>10, <1>11, <1>14, <1>15 DEF Sound

\* A slot that is free holds no socket.
LEMMA FreeEffect ==
    /\ Free \in Socket /\ Free.st = "free" /\ ~Free.live /\ Free.q = <<>>
    /\ \A r : SockOK(Free, r)
<1>1. /\ Free \in Socket /\ Free.st = "free" /\ Free.live = FALSE /\ Free.q = <<>>
  BY DEF Free, Socket
<1> QED BY <1>1 DEF SockOK

\* A socket is gone.
LEMMA CloseSound ==
    ASSUME Sound, NEW k \in Slots, NEW clean, OnClose(k, clean)
    PROVE  /\ Sound' /\ UpIn(socks') = UpIn(socks) \ {k}
           /\ \A s \in Slots : socks'[s].live => socks[s].live
           /\ UNCHANGED <<page, calls, store>>
<1>1. /\ socks' = [socks EXCEPT ![k] = Free]
      /\ UNCHANGED <<server, page, calls, manual, polling, store>>
      /\ ref' = ref \/ ref' = NoSlot
      /\ timer' => timer \/ socks[k].live
  BY DEF OnClose, Rearms
<1>2. /\ socks \in [Slots -> Socket] /\ \A s \in Slots : SockOK(socks[s], runId)
      /\ ref \in Slots \cup {NoSlot}
  BY DEF Sound, Shaped, Linked
<1>3. /\ socks' \in [Slots -> Socket] /\ \A s \in Slots : SockOK(socks'[s], runId)
      /\ \A s \in Slots : socks'[s].live => socks[s].live
  BY <1>1, <1>2, FreeEffect
<1>4. UpIn(socks') = UpIn(socks) \ {k}
  BY <1>1, <1>2, FreeEffect DEF UpIn
<1>5. socks[k].live => runId # NoRun /\ page # "away"
  BY DEF Sound, Linked, SockOK
<1>6. Shaped'
  BY <1>1, <1>2, <1>3 DEF Sound, Shaped, server, store
<1>7. Linked'
  BY <1>1, <1>3, <1>5 DEF Sound, Linked, store
<1> QED BY <1>1, <1>3, <1>4, <1>6, <1>7 DEF Sound

\* The hook opens a socket for the run that is shown.
LEMMA ReconnectSound ==
    ASSUME Sound, Reconnect
    PROVE  /\ Sound' /\ UpIn(socks') \subseteq UpIn(socks) \cup {ref'}
           /\ ~timer' /\ timer /\ UNCHANGED <<page, calls, manual, polling, store, stray>>
<1>1. /\ timer /\ ~timer' /\ ref' = ASlot /\ FreeSlots # {}
      /\ socks' = [socks EXCEPT ![ASlot] = Connecting(runId)]
      /\ UNCHANGED <<server, page, calls, manual, polling, store, stray>>
  BY DEF Reconnect
<1>2. /\ socks \in [Slots -> Socket] /\ \A s \in Slots : SockOK(socks[s], runId)
      /\ runId \in Runs \cup {NoRun} /\ runId # NoRun /\ page # "away"
  BY <1>1 DEF Sound, Shaped, Linked
<1>3. ASlot \in Slots
  BY <1>1, ASlotFree
<1> DEFINE x == Connecting(runId)
<1>4. x \in Socket /\ x.st = "connecting" /\ x.run = runId /\ x.q = <<>>
  BY <1>2, ConnectingEffect
<1> HIDE DEF x
<1>5. SockOK(x, runId)
  BY <1>2, <1>4 DEF SockOK
<1>6. socks' = [socks EXCEPT ![ASlot] = x]
  BY <1>1 DEF x
<1>7. /\ socks' \in [Slots -> Socket] /\ \A s \in Slots : SockOK(socks'[s], runId)
  BY <1>2, <1>3, <1>4, <1>5, <1>6
<1>8. UpIn(socks') \subseteq UpIn(socks) \cup {ref'}
  BY <1>1, <1>2, <1>3, <1>6 DEF UpIn
<1>9. Shaped'
  BY <1>1, <1>3, <1>7 DEF Sound, Shaped, server, store
<1>10. Linked'
  BY <1>1, <1>2, <1>7 DEF Sound, Linked, store
<1> QED BY <1>1, <1>8, <1>9, <1>10 DEF Sound

\* The back-fill arrives.
LEMMA BackfillSound ==
    ASSUME Sound, NEW c \in calls, BackfillReturns(c)
    PROVE  LET new == Unknown(History(c.run, c.n), ids) IN
           /\ Sound' /\ runId' = runId /\ UNCHANGED <<page, stray, pending>>
           /\ \/ calls' = calls \ {c} /\ UNCHANGED <<hook, store>>
              \/ /\ c.live /\ c.op = "backfill" /\ c.run = runId /\ c.run \in Runs
                 /\ c.n \in 0 .. MaxLog
                 /\ evs' = evs \o new /\ ids' = ids \cup Range(new)
                 /\ \E s2 : Renders(runId, s2, calls \ {c}, socks)
<1>1. /\ c \in Request /\ CallOK(c, runId) /\ c.op = "backfill"
      /\ UNCHANGED <<server, page, stray>>
  BY DEF BackfillReturns, Sound, Shaped, Linked
<1>2. CASE calls' = calls \ {c} /\ UNCHANGED <<hook, store>>
  <2>1. Shaped'
    BY <1>1, <1>2 DEF Sound, Shaped, server, hook, store
  <2>2. Linked'
    BY <1>1, <1>2 DEF Sound, Linked, hook, store
  <2> QED BY <1>1, <1>2, <2>1, <2>2 DEF Sound, store
<1>3. CASE c.live /\ Merge(History(c.run, c.n), calls \ {c})
  <2>1. c.run \in Runs /\ c.run = runId /\ c.n \in 0 .. MaxLog
    BY <1>1, <1>3 DEF CallOK, About, Request
  <2> DEFINE h == History(c.run, c.n)
             new == Unknown(h, ids)
  <2>2. h \in Seq(EventIds)
    BY <2>1, HistoryEffect
  <2>3. /\ ids' = ids \cup Range(new) /\ Apply(new, calls \ {c}, socks) /\ pending' = pending
    BY <1>3 DEF Merge
  <2> HIDE DEF h
  <2>4. new \in Seq(EventIds) /\ Range(new) = Members(h) \ ids /\ Members(h) \subseteq EventIds
    BY <2>2, UnknownEffect, MembersTyped
  <2> HIDE DEF new
  <2>5. /\ pending \in Seq(EventIds) /\ socks \in [Slots -> Socket] /\ ids \in SUBSET EventIds
        /\ \A s \in Slots : SockOK(socks[s], runId)
    BY DEF Sound, Shaped, Linked
  <2>6. /\ pending' \in Seq(EventIds) /\ ids' \in SUBSET EventIds
        /\ calls \ {c} \in SUBSET calls /\ UNCHANGED server /\ page' = page
        /\ \A s \in Slots : socks[s].live => socks[s].live
    BY <1>1, <2>3, <2>4, <2>5
  <2>7. Apply(new, calls \ {c}, socks)
    BY <2>3
  <2>8. /\ Sound' /\ evs' = evs \o new /\ runId' = runId
        /\ Renders(runId, StatusAfter(status, new), calls \ {c}, socks)
    BY <2>4, <2>5, <2>6, <2>7, ApplySound
  <2> QED BY <1>1, <1>3, <2>1, <2>3, <2>8 DEF new, h
<1> QED BY <1>1, <1>2, <1>3 DEF BackfillReturns

\* The interval asks for the run.
LEMMA PollSound ==
    ASSUME Sound, Poll
    PROVE  /\ Sound' /\ UNCHANGED <<page, socks, ref, timer, manual, store, stray>>
           /\ \E e : e.op = "poll" /\ e.live /\ calls' = calls \cup {e} /\ runId # NoRun
<1>1. /\ polling /\ calls' = calls \cup {Ask("poll", runId)} /\ polling' = FALSE
      /\ UNCHANGED <<server, page, socks, ref, timer, manual, store, stray>>
  BY DEF Poll
<1>2. runId \in Runs /\ page # "away"
  BY <1>1 DEF Sound, Shaped, Linked
<1> DEFINE e == Ask("poll", runId)
<1>3. e \in Request /\ e.op = "poll" /\ e.run = runId /\ e.live
  BY <1>2, AskEffect DEF Ops
<1>4. calls' = calls \cup {e}
  BY <1>1
<1> HIDE DEF e
<1>5. CallOK(e, runId)
  BY <1>2, <1>3 DEF CallOK
<1>6. Shaped'
  BY <1>1, <1>3, <1>4 DEF Sound, Shaped, server, store
<1>7. Linked'
  BY <1>1, <1>2, <1>4, <1>5 DEF Sound, Linked, store
<1>8. runId # NoRun
  BY <1>2, NoSlotIsNone
<1> QED BY <1>1, <1>3, <1>4, <1>6, <1>7, <1>8 DEF Sound

\* A polled answer: the loop goes on, asks for the events, or applies both.
LEMMA PollReturnsSound ==
    ASSUME Sound, NEW c \in calls, PollReturns(c)
    PROVE  LET new == Unknown(History(c.run, c.n), ids) IN
           /\ Sound' /\ runId' = runId /\ UNCHANGED <<page, pending>>
           /\ c.op = "poll" /\ c.run \in Runs /\ c.n \in 0 .. MaxLog
           /\ \/ /\ UNCHANGED <<socks, ref, timer, store, stray>>
                 /\ \/ calls' = calls \ {c}
                    \/ \E e : e.op = "poll" /\ e.live = c.live /\ calls' = (calls \ {c}) \cup {e}
              \/ /\ evs' = evs \o new /\ ids' = ids \cup Range(new)
                 /\ stray' = (stray \/ ~c.live)
                 /\ \/ UNCHANGED <<status, socks, ref, timer, manual>> /\ calls' = calls \ {c}
                    \/ \E s2 : Renders(runId, s2, calls \ {c}, socks)
<1>1. /\ c \in Request /\ CallOK(c, runId) /\ c.op = "poll" /\ c.answered
      /\ UNCHANGED <<server, page>>
  BY DEF PollReturns, Sound, Shaped, Linked
<1>2. /\ c.run \in Runs /\ c.n \in 0 .. MaxLog
      /\ c.live => c.run = runId /\ page # "away" /\ runId # NoRun
  BY <1>1, NoSlotIsNone DEF CallOK, About, Request, Sound, Linked
<1> DEFINE h == History(c.run, c.n)
           new == Unknown(h, ids)
           s2 == PolledStatus(c.st, StatusAfter(status, new))
           goes == c.st \notin Ended /\ c.live /\ s2 = status
<1>3. \/ ~c.ok /\ PollAgain(c)
      \/ /\ calls' = (calls \ {c}) \cup {[c EXCEPT !.step = "second", !.answered = FALSE]}
         /\ UNCHANGED <<hook, store, stray>>
      \/ /\ evs' = evs \o new /\ ids' = ids \cup Range(new)
         /\ stray' = (stray \/ ~c.live) /\ UNCHANGED pending
         /\ \/ /\ goes /\ calls' = calls \ {c} /\ polling' = TRUE
               /\ UNCHANGED <<runId, status, socks, ref, timer, manual>>
            \/ ~goes /\ Rerender(runId, s2, calls \ {c}, socks)
  BY DEF PollReturns
<1>4. h \in Seq(EventIds)
  BY <1>2, HistoryEffect
<1> HIDE DEF h
<1>5. new \in Seq(EventIds) /\ Range(new) \in SUBSET EventIds
  BY <1>4, UnknownEffect, MembersTyped
<1> HIDE DEF new, s2
<1>6. CASE ~c.ok /\ PollAgain(c)
  <2>1. /\ calls' = calls \ {c} /\ polling' = (polling \/ c.live)
        /\ UNCHANGED <<socks, ref, timer, manual, store, stray>>
    BY <1>6 DEF PollAgain
  <2>2. Shaped'
    BY <1>1, <2>1 DEF Sound, Shaped, server, store
  <2>3. Linked'
    BY <1>1, <1>2, <2>1 DEF Sound, Linked, store
  <2> QED BY <1>1, <1>2, <2>1, <2>2, <2>3 DEF Sound, store
<1>7. CASE /\ calls' = (calls \ {c}) \cup {[c EXCEPT !.step = "second", !.answered = FALSE]}
           /\ UNCHANGED <<hook, store, stray>>
  <2> DEFINE e == [c EXCEPT !.step = "second", !.answered = FALSE]
  <2>1. e \in Request /\ e.op = "poll" /\ e.run = c.run /\ e.live = c.live
    BY <1>1, SecondEffect
  <2>2. calls' = (calls \ {c}) \cup {e}
    BY <1>7
  <2> HIDE DEF e
  <2>3. CallOK(e, runId)
    BY <1>2, <2>1 DEF CallOK
  <2>4. Shaped'
    BY <1>1, <1>7, <2>1, <2>2 DEF Sound, Shaped, server, store, hook
  <2>5. Linked'
    BY <1>1, <1>2, <1>7, <2>1, <2>2, <2>3 DEF Sound, Linked, store, hook
  <2> QED BY <1>1, <1>2, <1>7, <2>1, <2>2, <2>4, <2>5 DEF Sound, store, hook
<1>8. CASE /\ evs' = evs \o new /\ ids' = ids \cup Range(new)
           /\ stray' = (stray \/ ~c.live) /\ UNCHANGED pending
           /\ goes /\ calls' = calls \ {c} /\ polling' = TRUE
           /\ UNCHANGED <<runId, status, socks, ref, timer, manual>>
  <2>1. evs' \in Seq(EventIds) /\ ids' \subseteq EventIds
    BY <1>5, <1>8 DEF Sound, Shaped
  <2>2. Shaped'
    BY <1>1, <1>8, <2>1 DEF Sound, Shaped, server
  <2>3. Linked'
    BY <1>1, <1>2, <1>8 DEF Sound, Linked
  <2> QED BY <1>1, <1>2, <1>8, <2>2, <2>3 DEF Sound, new, h
<1>9. CASE /\ evs' = evs \o new /\ ids' = ids \cup Range(new)
           /\ stray' = (stray \/ ~c.live) /\ UNCHANGED pending
           /\ Rerender(runId, s2, calls \ {c}, socks)
  <2>1. evs' \in Seq(EventIds) /\ ids' \subseteq EventIds
    BY <1>5, <1>9 DEF Sound, Shaped
  <2>2. Renders(runId, s2, calls \ {c}, socks)
    BY <1>9 DEF Renders, Sound, Shaped, Linked
  <2>3. page' = page
    BY <1>1
  <2>4. /\ runId' = runId /\ Linked'
        /\ socks' \in [Slots -> Socket] /\ ref' \in Slots \cup {NoSlot}
        /\ calls' \in SUBSET Request
    BY <2>2, <2>3, Rendered
  <2>5. Shaped'
    BY <1>1, <1>9, <2>1, <2>4 DEF Sound, Shaped, server
  <2> QED BY <1>1, <1>2, <1>9, <2>2, <2>4, <2>5 DEF Sound, new, h
<1> QED BY <1>3, <1>6, <1>7, <1>8, <1>9

\* The editor is opened and left.
LEMMA MountSound ==
    ASSUME Sound, Mount
    PROVE  /\ Sound' /\ page = "away" /\ page' = "loading" /\ ~timer'
           /\ runId = NoRun => socks' = socks
           /\ UNCHANGED <<store, stray>>
           /\ \E e : e.op = "load" /\ e.live /\ calls' = calls \cup {e}
<1> DEFINE opens == runId # NoRun
           x == [Connecting(runId) EXCEPT !.st =
                    IF status \in {"completed", "failed"} THEN "closing" ELSE "connecting"]
           e == Ask("load", NoRun)
<1>1. /\ page = "away" /\ page' = "loading" /\ (opens => FreeSlots # {})
      /\ socks' = IF opens THEN [socks EXCEPT ![ASlot] = x] ELSE socks
      /\ ref' = NoSlot \/ (ref' = ASlot /\ opens)
      /\ timer' = FALSE /\ (polling' => opens)
      /\ calls' = calls \cup {e}
      /\ UNCHANGED <<server, store, stray>>
  BY DEF Mount
<1>2. /\ socks \in [Slots -> Socket] /\ runId \in Runs \cup {NoRun}
      /\ \A s \in Slots : SockOK(socks[s], runId) /\ ~socks[s].live
  BY <1>1 DEF Sound, Shaped, Linked
<1>3. e \in Request /\ e.op = "load" /\ e.step = "first" /\ e.live
  BY AskEffect DEF Ops
<1>4. Connecting(runId) \in Socket /\ Connecting(runId).q = <<>> /\ Connecting(runId).run = runId
  BY <1>2, ConnectingEffect
<1>5. x \in Socket /\ x.q = <<>> /\ x.run = runId
  BY <1>4 DEF Socket
<1> HIDE DEF x, e
<1>6. opens => SockOK(x, runId)
  BY <1>2, <1>5 DEF SockOK
<1>7. opens => ASlot \in Slots
  BY <1>1, ASlotFree
<1>8. /\ socks' \in [Slots -> Socket] /\ \A s \in Slots : SockOK(socks'[s], runId)
      /\ ref' \in Slots \cup {NoSlot}
  BY <1>1, <1>2, <1>5, <1>6, <1>7
<1>9. CallOK(e, runId)
  BY <1>3 DEF CallOK, About
<1>10. Shaped'
  BY <1>1, <1>3, <1>8 DEF Sound, Shaped, server, store
<1>11. Linked'
  BY <1>1, <1>8, <1>9 DEF Sound, Linked, store
<1> QED BY <1>1, <1>3, <1>10, <1>11 DEF Sound

\* Leaving clears the store and stops the effects.
LEMMA LeaveSound ==
    ASSUME Sound, Leave
    PROVE  /\ Sound' /\ page' = "away" /\ runId' = NoRun /\ status' = "idle" /\ Clear
           /\ ~timer' /\ stray' = stray /\ UpIn(socks') = UpIn(socks) \ {ref}
           /\ \A c \in calls' : ~c.live
<1>1. /\ page' = "away" /\ runId' = NoRun /\ status' = "idle" /\ Clear
      /\ socks' = [k \in Slots |-> [Shut(ref, socks)[k] EXCEPT !.live = FALSE, !.mine = FALSE]]
      /\ ref' = NoSlot /\ polling' = FALSE /\ timer' = FALSE
      /\ UNCHANGED <<server, stray>>
  BY DEF Leave, ClearTimers
<1>a. calls' = Stop(Ops, calls) /\ Clear
  BY DEF Leave
<1>2. /\ socks \in [Slots -> Socket] /\ ref \in Slots \cup {NoSlot}
      /\ \A s \in Slots : SockOK(socks[s], runId)
      /\ calls \in SUBSET Request /\ \A c \in calls : CallOK(c, runId)
  BY DEF Sound, Shaped, Linked
<1> DEFINE shut == Shut(ref, socks)
<1>3. /\ shut \in [Slots -> Socket]
      /\ \A j \in Slots :
             /\ shut[j].run = socks[j].run
             /\ j # ref => shut[j] = socks[j]
             /\ j = ref => shut[j].st = "closing" /\ shut[j].q = <<>>
  BY <1>2, ShutEffect
<1>4. socks' = [k \in Slots |-> [shut[k] EXCEPT !.live = FALSE, !.mine = FALSE]]
  BY <1>1
<1> HIDE DEF shut
<1>5. ASSUME NEW k \in Slots
      PROVE  LET x == [shut[k] EXCEPT !.live = FALSE, !.mine = FALSE] IN
             /\ x \in Socket /\ x.st = shut[k].st /\ x.run = shut[k].run /\ x.q = shut[k].q
             /\ x.live = FALSE
  <2>1. shut[k] \in Socket
    BY <1>3
  <2> QED BY <2>1 DEF Socket
<1>6. /\ socks' \in [Slots -> Socket]
      /\ \A k \in Slots : /\ socks'[k].st = shut[k].st /\ socks'[k].run = shut[k].run
                          /\ socks'[k].q = shut[k].q /\ ~socks'[k].live
  BY <1>4, <1>5
<1>7. ASSUME NEW k \in Slots PROVE SockOK(socks'[k], NoRun)
  <2>1. CASE k # ref
    <3>1. /\ socks'[k].st = socks[k].st /\ socks'[k].run = socks[k].run
          /\ socks'[k].q = socks[k].q /\ ~socks'[k].live
      BY <1>3, <1>6, <2>1
    <3> QED BY <1>2, <3>1 DEF SockOK
  <2>2. CASE k = ref
    <3>1. socks'[k].st = "closing" /\ socks'[k].q = <<>> /\ ~socks'[k].live
      BY <1>3, <1>6, <2>2
    <3> QED BY <3>1 DEF SockOK
  <2> QED BY <2>1, <2>2
<1>8. UpIn(socks') = UpIn(socks) \ {ref}
  BY <1>3, <1>6 DEF UpIn
<1>9. /\ calls' \in SUBSET Request
      /\ \A c \in calls' : /\ c.live => c.op \notin Ops
                           /\ \E d \in calls : c.op = d.op /\ c.step = d.step /\ c.run = d.run
  BY <1>a, <1>2, StopEffect
<1>10. \A c \in calls' : ~c.live
  BY <1>9 DEF Request
<1>11. ASSUME NEW c \in calls' PROVE CallOK(c, NoRun)
  <2>1. PICK d \in calls : c.op = d.op /\ c.step = d.step /\ c.run = d.run
    BY <1>9
  <2> QED BY <1>2, <1>10, <2>1 DEF CallOK, About
<1>12. evs' \in Seq(EventIds) /\ pending' \in Seq(EventIds) /\ ids' \subseteq EventIds
  BY <1>a DEF Clear
<1>13. Shaped'
  BY <1>1, <1>6, <1>9, <1>12 DEF Sound, Shaped, server
<1>14. Linked'
  BY <1>1, <1>6, <1>7, <1>10, <1>11 DEF Linked
<1> QED BY <1>1, <1>8, <1>10, <1>13, <1>14 DEF Sound

\* A render by a callback of the page.
LEMMA CallbackSound ==
    ASSUME Sound, NEW c \in calls, NEW r2 \in Runs \cup {NoRun}, NEW s2, NEW cs,
           cs \in SUBSET Request, \A d \in cs : CallOK(d, runId) /\ (page = "away" => ~d.live),
           Rerender(r2, s2, cs, socks), UNCHANGED server,
           page' = page \/ (page # "away" /\ page' \in {"loading", "shown", "error"}),
           evs' \in Seq(EventIds), pending' \in Seq(EventIds), ids' \subseteq EventIds
    PROVE  Sound' /\ Renders(r2, s2, cs, socks)
<1>1. Renders(r2, s2, cs, socks)
  BY DEF Renders, Sound, Shaped, Linked
<1>2. page' = page \/ (page # "away" /\ page' # "away")
  OBVIOUS
<1>3. /\ runId' = r2 /\ Linked'
      /\ socks' \in [Slots -> Socket] /\ ref' \in Slots \cup {NoSlot}
      /\ calls' \in SUBSET Request
  BY <1>1, <1>2, Rendered
<1>4. page' \in {"away", "loading", "shown", "error"}
  BY DEF Sound, Shaped
<1>5. Shaped'
  BY <1>3, <1>4 DEF Sound, Shaped, server
<1> QED BY <1>1, <1>3, <1>5 DEF Sound

\* Without a render: a request is done, or its second one sent.
LEMMA DoneSound ==
    ASSUME Sound, NEW c \in calls, NEW cs, cs \in SUBSET Request,
           \A d \in cs : CallOK(d, runId) /\ (page = "away" => ~d.live),
           calls' = cs, UNCHANGED <<server, hook, runId>>,
           page' = page \/ (page # "away" /\ page' \in {"loading", "shown", "error"}),
           evs' \in Seq(EventIds), pending' \in Seq(EventIds), ids' \subseteq EventIds
    PROVE  Sound'
<1>1. page' \in {"away", "loading", "shown", "error"} /\ (page' = "away" => page = "away")
  BY DEF Sound, Shaped
<1>2. Shaped'
  BY <1>1 DEF Sound, Shaped, server, hook
<1>3. Linked'
  BY <1>1 DEF Sound, Linked, hook
<1> QED BY <1>2, <1>3 DEF Sound

\* Fewer requests are no worse.
LEMMA CallsLess ==
    ASSUME Sound, NEW c \in calls
    PROVE  /\ calls \ {c} \in SUBSET Request
           /\ \A d \in calls \ {c} : CallOK(d, runId) /\ (page = "away" => ~d.live)
           /\ evs \in Seq(EventIds) /\ pending \in Seq(EventIds) /\ ids \subseteq EventIds
BY DEF Sound, Shaped, Linked

\* The load's callbacks.
LEMMA LoadSound ==
    ASSUME Sound, NEW c \in calls, LoadReturns(c)
    PROVE  /\ Sound' /\ c.op = "load" /\ stray' = stray
           /\ \/ ~c.live /\ calls' = calls \ {c} /\ UNCHANGED <<page, hook, store>>
              \/ c.live /\ LoadFails(c)
              \/ c.live /\ NoRunYet(c) /\ Renders(NoRun, "idle", calls \ {c}, socks)
              \/ /\ c.live /\ UNCHANGED <<page, hook, store>>
                 /\ \E e : e.op = "load" /\ e.live /\ calls' = (calls \ {c}) \cup {e}
              \/ /\ c.live /\ Hydrate(c) /\ Renders(c.run, c.st, calls \ {c}, socks)
                 /\ c.run \in Runs /\ c.n \in 0 .. MaxLog
<1>1. /\ c \in Request /\ CallOK(c, runId) /\ c.op = "load" /\ UNCHANGED <<server, stray>>
      /\ c.step \in {"first", "second"} /\ c.live \in BOOLEAN /\ c.ok \in BOOLEAN
      /\ c.run \in Runs \cup {NoRun}
  BY DEF LoadReturns, Sound, Shaped, Linked, Request
<1>2. \/ ~c.live /\ calls' = calls \ {c} /\ UNCHANGED <<page, hook, store>>
      \/ c.live /\ LoadFails(c)
      \/ c.live /\ c.step = "second" /\ Hydrate(c)
      \/ c.live /\ NoRunYet(c)
      \/ c.live /\ c.step = "first" /\ c.run # NoRun /\ HasRun(c)
  BY <1>1 DEF LoadReturns
<1>3. c.live => page # "away"
  BY DEF Sound, Linked
<1>4. CASE ~c.live /\ calls' = calls \ {c} /\ UNCHANGED <<page, hook, store>>
  <2>1. /\ UNCHANGED <<server, hook, runId>> /\ page' = page
        /\ evs' = evs /\ pending' = pending /\ ids' = ids
    BY <1>1, <1>4 DEF store
  <2>2. /\ evs' \in Seq(EventIds) /\ pending' \in Seq(EventIds) /\ ids' \subseteq EventIds
        /\ calls' = calls \ {c}
    BY <1>4, <2>1, CallsLess
  <2>3. Sound'
    BY <2>1, <2>2, CallsLess, DoneSound
  <2> QED BY <1>1, <1>4, <2>3
<1>5. CASE c.live /\ LoadFails(c)
  <2>1. /\ UNCHANGED <<server, hook, runId>> /\ page' = "error" /\ calls' = calls \ {c}
        /\ evs' = evs /\ pending' = pending /\ ids' = ids
    BY <1>1, <1>5 DEF LoadFails, store
  <2>2. /\ evs' \in Seq(EventIds) /\ pending' \in Seq(EventIds) /\ ids' \subseteq EventIds
        /\ page # "away" /\ page' \in {"loading", "shown", "error"}
    BY <1>3, <1>5, <2>1, CallsLess
  <2>3. Sound'
    BY <2>1, <2>2, CallsLess, DoneSound
  <2> QED BY <1>1, <1>5, <2>3
<1>6. CASE c.live /\ NoRunYet(c)
  <2>1. /\ UNCHANGED server /\ page' = "shown" /\ Clear
        /\ Rerender(NoRun, "idle", calls \ {c}, socks)
    BY <1>1, <1>6 DEF NoRunYet
  <2>2. /\ evs' \in Seq(EventIds) /\ pending' \in Seq(EventIds) /\ ids' \subseteq EventIds
    BY <2>1 DEF Clear
  <2>3. page # "away" /\ page' \in {"loading", "shown", "error"} /\ NoRun \in Runs \cup {NoRun}
    BY <1>3, <1>6, <2>1
  <2>4. Sound' /\ Renders(NoRun, "idle", calls \ {c}, socks)
    BY <2>1, <2>2, <2>3, CallsLess, CallbackSound
  <2> QED BY <1>1, <1>6, <2>4
<1>7. CASE c.live /\ c.step = "first" /\ c.run # NoRun /\ HasRun(c)
  <2> DEFINE e == [c EXCEPT !.step = "second", !.answered = FALSE]
  <2>1. e \in Request /\ e.op = "load" /\ e.run = c.run /\ e.live
    BY <1>1, <1>7, SecondEffect
  <2>2. calls' = (calls \ {c}) \cup {e} /\ page' = page /\ UNCHANGED <<hook, store>>
    BY <1>7 DEF HasRun
  <2> HIDE DEF e
  <2>3. CallOK(e, runId)
    BY <1>1, <1>7, <2>1 DEF CallOK
  <2>4. /\ UNCHANGED <<server, hook, runId>>
        /\ evs' = evs /\ pending' = pending /\ ids' = ids
    BY <1>1, <2>2 DEF store
  <2>5. /\ calls' \in SUBSET Request
        /\ \A d \in calls' : CallOK(d, runId) /\ (page = "away" => ~d.live)
    BY <1>3, <1>7, <2>1, <2>2, <2>3, CallsLess
  <2>6. /\ evs' \in Seq(EventIds) /\ pending' \in Seq(EventIds) /\ ids' \subseteq EventIds
    BY <2>4, CallsLess
  <2>7. Sound'
    BY <2>2, <2>4, <2>5, <2>6, DoneSound
  <2> QED BY <1>1, <1>7, <2>1, <2>2, <2>7
<1>8. CASE c.live /\ c.step = "second" /\ Hydrate(c)
  <2>1. c.run \in Runs /\ c.n \in 0 .. MaxLog
    BY <1>1, <1>8 DEF CallOK, About, Request
  <2>2. /\ UNCHANGED server /\ page' = "shown"
        /\ evs' = History(c.run, c.n) /\ ids' = Range(evs') /\ pending' = <<>>
        /\ Rerender(c.run, c.st, calls \ {c}, socks)
    BY <1>1, <1>8 DEF Hydrate
  <2>3. /\ evs' \in Seq(EventIds) /\ pending' \in Seq(EventIds)
    BY <2>1, <2>2, HistoryEffect
  <2>4. ids' \subseteq EventIds
    BY <2>2, <2>3, MembersTyped, RangeMembers
  <2>5. page # "away" /\ page' \in {"loading", "shown", "error"} /\ c.run \in Runs \cup {NoRun}
    BY <1>3, <1>8, <2>1, <2>2
  <2>6. Sound' /\ Renders(c.run, c.st, calls \ {c}, socks)
    BY <2>2, <2>3, <2>4, <2>5, CallsLess, CallbackSound
  <2> QED BY <1>1, <1>8, <2>1, <2>6
<1> QED BY <1>2, <1>4, <1>5, <1>6, <1>7, <1>8

\* The buttons: a request, before a new run an empty store.
LEMMA ClickSound ==
    ASSUME Sound, ClickRun \/ ClickCancel
    PROVE  /\ Sound' /\ UNCHANGED <<page, hook, runId, status>> /\ page = "shown"
           /\ \/ /\ \E e : e.op \in {"resume", "cancel"} /\ calls' = calls \cup {e}
                 /\ UNCHANGED <<evs, pending, ids, stray>>
              \/ /\ ClickRun /\ calls' = calls \cup {Ask("trigger", NoRun)}
                 /\ Ask("trigger", NoRun).op = "trigger" /\ Ask("trigger", NoRun).live
                 /\ Clear /\ stray' = (stray \/ runId # NoRun)
<1>1. /\ UNCHANGED <<server, page, hook, runId, status>> /\ page = "shown"
  BY DEF ClickRun, ClickCancel, store
<1>2. runId \in Runs \cup {NoRun}
  BY DEF Sound, Shaped
<1>3. \/ /\ runId # NoRun
         /\ calls' = calls \cup {Ask("resume", runId)} \/ calls' = calls \cup {Ask("cancel", runId)}
         /\ UNCHANGED <<evs, pending, ids, stray>>
      \/ /\ ClickRun /\ calls' = calls \cup {Ask("trigger", NoRun)}
         /\ Clear /\ stray' = (stray \/ runId # NoRun)
  BY DEF ClickRun, ClickCancel, CanResume, store
<1>4. ASSUME NEW e, e \in Request, calls' = calls \cup {e}, CallOK(e, runId),
             evs' \in Seq(EventIds), pending' \in Seq(EventIds), ids' \subseteq EventIds
      PROVE  Sound'
  <2>1. Shaped'
    BY <1>1, <1>4 DEF Sound, Shaped, server, hook
  <2>2. Linked'
    BY <1>1, <1>4 DEF Sound, Linked, hook
  <2> QED BY <2>1, <2>2 DEF Sound
<1>5. ASSUME NEW op \in {"resume", "cancel"}, runId # NoRun, calls' = calls \cup {Ask(op, runId)},
             UNCHANGED <<evs, pending, ids, stray>>
      PROVE  Sound' /\ \E e : e.op \in {"resume", "cancel"} /\ calls' = calls \cup {e}
  <2> DEFINE e == Ask(op, runId)
  <2>1. e \in Request /\ e.op = op /\ e.run = runId
    BY <1>2, AskEffect DEF Ops
  <2>2. calls' = calls \cup {e}
    BY <1>5
  <2> HIDE DEF e
  <2>3. CallOK(e, runId)
    BY <1>2, <1>5, <2>1 DEF CallOK
  <2>4. evs' \in Seq(EventIds) /\ pending' \in Seq(EventIds) /\ ids' \subseteq EventIds
    BY <1>5 DEF Sound, Shaped
  <2>5. Sound'
    BY <1>4, <2>1, <2>2, <2>3, <2>4
  <2> QED BY <2>1, <2>2, <2>5
<1>6. CASE /\ ClickRun /\ calls' = calls \cup {Ask("trigger", NoRun)}
           /\ Clear /\ stray' = (stray \/ runId # NoRun)
  <2> DEFINE e == Ask("trigger", NoRun)
  <2>1. e \in Request /\ e.op = "trigger" /\ e.live
    BY AskEffect DEF Ops
  <2>2. calls' = calls \cup {e}
    BY <1>6
  <2> HIDE DEF e
  <2>3. CallOK(e, runId)
    BY <2>1 DEF CallOK, About
  <2>4. evs' \in Seq(EventIds) /\ pending' \in Seq(EventIds) /\ ids' \subseteq EventIds
    BY <1>6 DEF Clear
  <2>5. Sound'
    BY <1>4, <2>1, <2>2, <2>3, <2>4
  <2> QED BY <1>1, <1>6, <2>1, <2>5 DEF e
<1> QED BY <1>1, <1>3, <1>5, <1>6

\* The answers to them: nothing more, a render that ends no run, or the new run.
LEMMA ToolbarSound ==
    ASSUME Sound, NEW c \in calls, TriggerReturns(c) \/ ResumeReturns(c) \/ CancelReturns(c)
    PROVE  /\ Sound' /\ UNCHANGED <<page, evs, pending, ids>> /\ c.op # "load"
           /\ ~stray' => ~stray
           /\ \/ calls' = calls \ {c} /\ UNCHANGED <<hook, runId, status>>
              \/ /\ \E r2 \in {runId, NoRun} : \E s2 :
                        Renders(r2, s2, calls \ {c}, socks) /\ ~Over(s2)
                 /\ ~stray' => c.live
              \/ /\ \E e : /\ e.op = "trigger" /\ e.step = "second" /\ e.live = c.live
                           /\ Renders(c.run, "running", (calls \ {c}) \cup {e}, socks)
                 /\ c.op = "trigger" /\ c.step = "first"
                 /\ ~stray' => c.live /\ runId = NoRun
<1>1. /\ c \in Request /\ CallOK(c, runId) /\ UNCHANGED <<server, page, evs, pending, ids>>
      /\ c.op \in {"trigger", "resume", "cancel"}
      /\ c.step \in {"first", "second"} /\ c.live \in BOOLEAN /\ c.ok \in BOOLEAN
      /\ c.run \in Runs \cup {NoRun} /\ runId \in Runs \cup {NoRun}
  BY DEF TriggerReturns, ResumeReturns, CancelReturns, Sound, Shaped, Linked, Request
<1>2. /\ evs' \in Seq(EventIds) /\ pending' \in Seq(EventIds) /\ ids' \subseteq EventIds
      /\ page' = page
  BY <1>1, CallsLess
<1>3. ~stray' => ~stray
  BY DEF TriggerReturns, ResumeReturns, CancelReturns
<1>4. ASSUME calls' = calls \ {c}, UNCHANGED <<hook, runId, status>>
      PROVE  Sound'
  <2>1. UNCHANGED <<server, hook, runId>>
    BY <1>1, <1>4
  <2> QED BY <1>2, <1>4, <2>1, CallsLess, DoneSound
<1>5. ASSUME NEW r2 \in {runId, NoRun}, NEW s2, Rerender(r2, s2, calls \ {c}, socks)
      PROVE  Sound' /\ Renders(r2, s2, calls \ {c}, socks)
  <2>1. UNCHANGED server /\ r2 \in Runs \cup {NoRun}
    BY <1>1
  <2> QED BY <1>2, <1>5, <2>1, CallsLess, CallbackSound
<1>6. CASE TriggerReturns(c)
  <2>1. CASE ~c.ok
    <3>1. Rerender(runId, "idle", calls \ {c}, socks) /\ (~stray' => c.live)
      BY <1>6, <2>1 DEF TriggerReturns
    <3>2. Sound' /\ Renders(runId, "idle", calls \ {c}, socks)
      BY <1>5, <3>1
    <3> QED BY <1>1, <1>3, <3>1, <3>2 DEF Over
  <2>2. CASE c.ok /\ c.step = "first"
    <3> DEFINE e == [c EXCEPT !.step = "second", !.answered = FALSE]
    <3>1. Rerender(c.run, "running", (calls \ {c}) \cup {e}, socks)
      BY <1>6, <2>2 DEF TriggerReturns
    <3>2. ~stray' => c.live /\ runId = NoRun
      BY <1>6, <2>2 DEF TriggerReturns
    <3>3. e \in Request /\ e.op = c.op /\ e.run = c.run /\ e.step = "second" /\ e.live = c.live
      BY <1>1, SecondEffect
    <3> HIDE DEF e
    <3>4. c.op = "trigger"
      BY <1>6 DEF TriggerReturns
    <3>5. CallOK(e, runId)
      BY <3>3, <3>4 DEF CallOK, About
    <3>6. page = "away" => ~e.live
      BY <3>3 DEF Sound, Linked
    <3> DEFINE cs == (calls \ {c}) \cup {e}
    <3>7. cs \in SUBSET Request /\ \A d \in cs : CallOK(d, runId) /\ (page = "away" => ~d.live)
      BY <3>3, <3>5, <3>6, CallsLess
    <3>8. Rerender(c.run, "running", cs, socks)
      BY <3>1
    <3> HIDE DEF cs
    <3>9. UNCHANGED server /\ c.run \in Runs \cup {NoRun}
      BY <1>1
    <3>10. Sound' /\ Renders(c.run, "running", cs, socks)
      BY <1>2, <3>7, <3>8, <3>9, CallbackSound
    <3> QED BY <1>1, <1>3, <2>2, <3>2, <3>3, <3>4, <3>10 DEF cs
  <2>3. CASE c.ok /\ c.step # "first"
    <3>1. calls' = calls \ {c} /\ UNCHANGED <<hook, runId, status>>
      BY <1>6, <2>3 DEF TriggerReturns
    <3> QED BY <1>1, <1>3, <1>4, <3>1
  <2> QED BY <1>1, <2>1, <2>2, <2>3
<1>7. CASE ResumeReturns(c)
  <2>1. CASE c.ok
    <3>1. Rerender(runId, "running", calls \ {c}, socks) /\ (~stray' => c.live)
      BY <1>7, <2>1 DEF ResumeReturns
    <3>2. Sound' /\ Renders(runId, "running", calls \ {c}, socks)
      BY <1>5, <3>1
    <3> QED BY <1>1, <1>3, <3>1, <3>2 DEF Over
  <2>2. CASE ~c.ok
    <3>1. calls' = calls \ {c} /\ UNCHANGED <<hook, runId, status>>
      BY <1>7, <2>2 DEF ResumeReturns
    <3> QED BY <1>1, <1>3, <1>4, <3>1
  <2> QED BY <2>1, <2>2
<1>8. CASE CancelReturns(c)
  <2>1. CASE c.ok
    <3>1. Rerender(NoRun, "idle", calls \ {c}, socks) /\ (~stray' => c.live)
      BY <1>8, <2>1 DEF CancelReturns
    <3>2. Sound' /\ Renders(NoRun, "idle", calls \ {c}, socks)
      BY <1>5, <3>1
    <3> QED BY <1>1, <1>3, <3>1, <3>2 DEF Over
  <2>2. CASE ~c.ok
    <3>1. calls' = calls \ {c} /\ UNCHANGED <<hook, runId, status>>
      BY <1>8, <2>2 DEF CancelReturns
    <3> QED BY <1>1, <1>3, <1>4, <3>1
  <2> QED BY <2>1, <2>2
<1> QED BY <1>6, <1>7, <1>8

\* A step of the page or the server, and what is known of it by its name.
LEMMA SoundStep ==
    ASSUME Sound, [Next]_vars
    PROVE  Sound'
<1>1. CASE UNCHANGED vars
  BY <1>1 DEF vars, server, hook, store, Sound, Shaped, Linked
<1>2. CASE Next
  BY <1>2, ServerEffect, ServeEffect, BackfillSound, PollReturnsSound, LoadSound, ToolbarSound,
     OpenSound, MessageSound, CloseSound, FlushSound, ReconnectSound, PollSound, MountSound,
     LeaveSound, ClickSound DEF Next, Returns, Closed, Dropped
<1> QED BY <1>1, <1>2

\* The page has not been opened, the server knows no run.
LEMMA SoundInit == Init => Sound
<1> SUFFICES ASSUME Init PROVE Sound
  OBVIOUS
<1>1. Shaped
  <2>1. log = [r \in Runs |-> <<>>] /\ \A r \in Runs : Len(log[r]) <= MaxLog
    BY RunViewAssumption DEF Init
  <2> QED BY <2>1, FreeEffect DEF Init, Shaped, Statuses
<1>2. Linked
  BY FreeEffect DEF Init, Linked
<1> QED BY <1>1, <1>2 DEF Sound

-----------------------------------------------------------------------------
(* No event is applied twice.                                              *)

\* No id is ever forgotten.
Roomy == Cardinality(EventIds) <= MAX_EVENT_IDS

\* What is shown and what waits are different events, and known.
Known ==
    /\ Once(evs) /\ Once(pending) /\ Members(evs) \cap Members(pending) = {}
    /\ Members(evs) \cup Members(pending) \subseteq ids

\* While there is room, trimming forgets nothing.
LEMMA KeepsAll ==
    ASSUME Roomy, NEW known \in SUBSET EventIds
    PROVE  Trimmed(known) = known
<1>1. IsFiniteSet(Runs) /\ IsFiniteSet(1 .. MaxLog)
  BY FS_Interval, RunViewAssumption DEF Runs
<1>2. IsFiniteSet(EventIds)
  BY <1>1, FS_Product DEF EventIds
<1>3. Cardinality(known) <= Cardinality(EventIds) /\ Cardinality(known) \in Nat
      /\ Cardinality(EventIds) \in Nat
  BY <1>2, FS_Subset, FS_CardinalityType
<1>4. MAX_EVENT_IDS \in Nat
  BY RunViewAssumption
<1>5. Cardinality(known) <= MAX_EVENT_IDS
  BY <1>3, <1>4 DEF Roomy
<1> QED BY <1>5 DEF Trimmed

\* An empty sequence holds nothing and repeats nothing.
LEMMA NoneTwice ==
    /\ Once(<<>>) /\ Members(<<>>) = {}
    /\ \A D : \A s \in Seq(D) : s \o <<>> = s
BY DEF Once, Members

\* A batch of events that were unknown is applied.
LEMMA KnownAdds ==
    ASSUME Sound, Known, NEW h \in Seq(EventIds), Once(h),
           evs' = evs \o Unknown(h, ids), ids' = ids \cup Range(Unknown(h, ids)),
           pending' = pending
    PROVE  Known'
<1> DEFINE new == Unknown(h, ids)
<1>1. /\ new \in Seq(EventIds) /\ Once(new) /\ Members(new) = Members(h) \ ids
      /\ Range(new) = Members(new)
  BY UnknownEffect
<1>2. evs' = evs \o new /\ ids' = ids \cup Members(new)
  BY <1>1
<1> HIDE DEF new
<1>3. evs \in Seq(EventIds) /\ Once(evs) /\ Members(evs) \subseteq ids
  BY DEF Sound, Shaped, Known
<1>4. Members(evs) \cap Members(new) = {}
  BY <1>1, <1>3
<1>5. Once(evs') /\ Members(evs') = Members(evs) \cup Members(new)
  BY <1>1, <1>2, <1>3, <1>4, OnceConcat, MembersConcat
<1> QED BY <1>1, <1>2, <1>5 DEF Known

\* A message is put to what waits only if its id was unknown.
LEMMA KnownMessage ==
    ASSUME Sound, Known, Roomy, NEW k \in Slots, Message(k)
    PROVE  Known'
<1> DEFINE e == Head(socks[k].q)
<1>1. /\ e \in EventIds
      /\ \/ e \in ids /\ UNCHANGED <<evs, pending, ids>>
         \/ e \notin ids /\ ids' = Trimmed(ids \cup {e})
            /\ \/ evs' = evs /\ pending' = Append(pending, e)
               \/ evs' = evs \o Append(pending, e) /\ pending' = <<>>
  BY MessageSound
<1> HIDE DEF e
<1>2. CASE e \in ids /\ UNCHANGED <<evs, pending, ids>>
  BY <1>2 DEF Known
<1>3. CASE /\ e \notin ids /\ ids' = Trimmed(ids \cup {e})
           /\ \/ evs' = evs /\ pending' = Append(pending, e)
              \/ evs' = evs \o Append(pending, e) /\ pending' = <<>>
  <2>1. /\ evs \in Seq(EventIds) /\ pending \in Seq(EventIds) /\ ids \in SUBSET EventIds
    BY DEF Sound, Shaped
  <2>2. ids' = ids \cup {e}
    <3>1. ids \cup {e} \in SUBSET EventIds
      BY <1>1, <2>1
    <3> QED BY <1>3, <3>1, KeepsAll
  <2> DEFINE wait == Append(pending, e)
  <2>3. /\ wait \in Seq(EventIds) /\ Members(wait) = Members(pending) \cup {e} /\ Once(wait)
    BY <1>1, <1>3, <2>1, MembersAppend, OnceAppend DEF Known
  <2>4. Members(evs) \cap Members(wait) = {}
    BY <1>3, <2>3 DEF Known
  <2>5. \/ evs' = evs /\ pending' = wait
        \/ evs' = evs \o wait /\ pending' = <<>>
    BY <1>3
  <2> HIDE DEF wait
  <2>6. CASE evs' = evs /\ pending' = wait
    BY <2>2, <2>3, <2>4, <2>6 DEF Known
  <2>7. CASE evs' = evs \o wait /\ pending' = <<>>
    <3>1. Once(evs') /\ Members(evs') = Members(evs) \cup Members(wait)
      BY <2>1, <2>3, <2>4, <2>7, OnceConcat, MembersConcat DEF Known
    <3> QED BY <2>2, <2>3, <2>7, <3>1, NoneTwice DEF Known
  <2> QED BY <2>5, <2>6, <2>7
<1> QED BY <1>1, <1>2, <1>3

\* No step makes an event known without its id, or applies one that is known.
LEMMA KnownStep ==
    ASSUME Sound, Known, Roomy, [Next]_vars
    PROVE  Known'
<1>1. CASE UNCHANGED <<evs, pending, ids>>
  BY <1>1 DEF Known
<1>2. CASE Clear
  BY <1>2, NoneTwice DEF Known, Clear
<1>3. CASE Flush
  <2>1. evs' = evs \o pending /\ pending' = <<>> /\ ids' = ids
    BY <1>3, FlushSound DEF Flush
  <2>2. evs \in Seq(EventIds) /\ pending \in Seq(EventIds)
    BY DEF Sound, Shaped
  <2>3. Once(evs') /\ Members(evs') = Members(evs) \cup Members(pending)
    BY <2>1, <2>2, OnceConcat, MembersConcat DEF Known
  <2> QED BY <2>1, <2>3, NoneTwice DEF Known
<1>4. ASSUME NEW c \in calls, BackfillReturns(c) \/ PollReturns(c)
      PROVE  Known'
  <2> DEFINE h == History(c.run, c.n)
  <2>1. \/ UNCHANGED <<evs, pending, ids>>
        \/ /\ c.run \in Runs /\ c.n \in 0 .. MaxLog /\ pending' = pending
           /\ evs' = evs \o Unknown(h, ids) /\ ids' = ids \cup Range(Unknown(h, ids))
    <3>1. CASE BackfillReturns(c)
      BY <3>1, BackfillSound DEF store
    <3>2. CASE PollReturns(c)
      BY <3>2, PollReturnsSound DEF store
    <3> QED BY <1>4, <3>1, <3>2
  <2>2. c.run \in Runs /\ c.n \in 0 .. MaxLog => h \in Seq(EventIds) /\ Once(h)
    BY HistoryEffect
  <2> HIDE DEF h
  <2> QED BY <1>1, <2>1, <2>2, KnownAdds
<1>5. ASSUME NEW c \in calls, LoadReturns(c)
      PROVE  Known'
  <2>1. \/ UNCHANGED <<evs, pending, ids>> \/ Clear
        \/ Hydrate(c) /\ c.run \in Runs /\ c.n \in 0 .. MaxLog
    BY <1>5, LoadSound DEF store, LoadFails, NoRunYet
  <2>2. CASE Hydrate(c) /\ c.run \in Runs /\ c.n \in 0 .. MaxLog
    <3>1. evs' = History(c.run, c.n) /\ ids' = Range(evs') /\ pending' = <<>>
      BY <2>2 DEF Hydrate
    <3>2. Once(evs') /\ ids' = Members(evs')
      BY <2>2, <3>1, HistoryEffect, RangeMembers
    <3> QED BY <3>1, <3>2, NoneTwice DEF Known
  <2> QED BY <1>1, <1>2, <2>1, <2>2
<1>6. CASE UNCHANGED vars
  BY <1>1, <1>6 DEF vars, store
<1>7. CASE Next
  <2>1. ASSUME NEW r \in Runs, Work(r) \/ Finish(r) \/ Tell(r) PROVE Known'
    BY <1>1, <2>1, ServerEffect DEF store
  <2>2. ASSUME NEW c \in calls, Serve(c) PROVE Known'
    BY <1>1, <2>2, ServeEffect DEF store
  <2>3. ASSUME NEW c \in calls, TriggerReturns(c) \/ ResumeReturns(c) \/ CancelReturns(c)
        PROVE  Known'
    BY <1>1, <2>3, ToolbarSound
  <2>4. ASSUME NEW k \in Slots, Open(k) \/ Closed(k) \/ Dropped(k) PROVE Known'
    BY <1>1, <2>4, OpenSound, CloseSound DEF Closed, Dropped, store
  <2>5. CASE Reconnect \/ Poll \/ Mount
    BY <1>1, <2>5, ReconnectSound, PollSound, MountSound DEF store
  <2>6. CASE Leave \/ ClickRun \/ ClickCancel
    BY <1>1, <1>2, <2>6, LeaveSound, ClickSound
  <2> QED BY <1>3, <1>4, <1>5, <1>7, <2>1, <2>2, <2>3, <2>4, <2>5, <2>6, KnownMessage
          DEF Next, Returns
<1> QED BY <1>6, <1>7

\* No event is applied twice, whichever way it came, as long as no id has to be
\* forgotten.
THEOREM NoRepeatHolds ==
    ASSUME Roomy
    PROVE  Spec => []NoRepeat
<1>1. Init => Sound /\ Known
  BY SoundInit, NoneTwice DEF Init, Known
<1>2. Sound /\ Known /\ [Next]_vars => Sound' /\ Known'
  BY SoundStep, KnownStep
<1>3. Sound /\ Known => NoRepeat
  BY OnceConcat, RangeMembers DEF Sound, Shaped, Known, NoRepeat
<1> QED BY <1>1, <1>2, <1>3, PTL DEF Spec

-----------------------------------------------------------------------------
(* One socket.                                                             *)

\* While the page does not show a run it has none: nothing waits, nothing is
\* open, and only the load is cared for.
Calm ==
    page # "shown" => /\ runId = NoRun /\ status = "idle" /\ pending = <<>>
                      /\ UpIn(socks) = {} /\ \A c \in calls : c.live => c.op = "load"
Held == ~stray => OneUp(socks, ref, timer, status) /\ Calm

\* One load is cared for, and none once it is done.
OneLoad ==
    /\ \A c, d \in calls : c.live /\ d.live /\ c.op = "load" /\ d.op = "load" => c = d
    /\ page # "loading" => \A c \in calls : c.live => c.op # "load"

\* A render leaves no more requests than it is given.
LEMMA OneLoadRendered ==
    ASSUME OneLoad, NEW r2, NEW s2, NEW cs, NEW ss, Renders(r2, s2, cs, ss),
           page' = page, \A c \in cs : c \in calls \/ c.op # "load"
    PROVE  OneLoad'
<1>1. \A c \in calls' : c.live => c \in cs
  BY Rendered
<1> QED BY <1>1 DEF OneLoad

\* A load is sent when the page is opened, after the last one was given up.
LEMMA OneLoadStep ==
    ASSUME Sound, OneLoad, [Next]_vars
    PROVE  OneLoad'
<1>1. CASE UNCHANGED <<calls, page>>
  BY <1>1 DEF OneLoad
<1>2. ASSUME NEW c \in calls, Serve(c) PROVE OneLoad'
  <2>1. page' = page /\ \E e : e.op = c.op /\ e.live = c.live /\ calls' = (calls \ {c}) \cup {e}
    BY <1>2, ServeEffect DEF Answered
  <2> QED BY <2>1 DEF OneLoad
<1>3. ASSUME NEW c \in calls, BackfillReturns(c) PROVE OneLoad'
  <2>1. /\ page' = page
        /\ \/ calls' = calls \ {c}
           \/ \E s2 : Renders(runId, s2, calls \ {c}, socks)
    BY <1>3, BackfillSound
  <2>2. CASE calls' = calls \ {c}
    BY <2>1, <2>2 DEF OneLoad
  <2>3. CASE \E s2 : Renders(runId, s2, calls \ {c}, socks)
    BY <2>1, <2>3, OneLoadRendered
  <2> QED BY <2>1, <2>2, <2>3
<1>4. ASSUME NEW c \in calls, PollReturns(c) PROVE OneLoad'
  <2>1. /\ page' = page
        /\ \/ calls' = calls \ {c}
           \/ \E e : e.op = "poll" /\ calls' = (calls \ {c}) \cup {e}
           \/ \E s2 : Renders(runId, s2, calls \ {c}, socks)
    BY <1>4, PollReturnsSound
  <2>2. CASE calls' = calls \ {c}
    BY <2>1, <2>2 DEF OneLoad
  <2>3. CASE \E e : e.op = "poll" /\ calls' = (calls \ {c}) \cup {e}
    BY <2>1, <2>3 DEF OneLoad
  <2>4. CASE \E s2 : Renders(runId, s2, calls \ {c}, socks)
    BY <2>1, <2>4, OneLoadRendered
  <2> QED BY <2>1, <2>2, <2>3, <2>4
<1>5. ASSUME NEW c \in calls, LoadReturns(c) PROVE OneLoad'
  <2>1. /\ c.op = "load"
        /\ \/ ~c.live /\ calls' = calls \ {c} /\ page' = page
           \/ c.live /\ calls' = calls \ {c}
           \/ /\ c.live /\ page' = page
              /\ \E e : e.op = "load" /\ e.live /\ calls' = (calls \ {c}) \cup {e}
           \/ /\ c.live /\ page' = "shown"
              /\ \E r2, s2 : Renders(r2, s2, calls \ {c}, socks)
    BY <1>5, LoadSound DEF LoadFails, NoRunYet, Hydrate
  <2>2. CASE ~c.live /\ calls' = calls \ {c} /\ page' = page
    BY <2>2 DEF OneLoad
  <2>3. CASE c.live /\ calls' = calls \ {c}
    BY <2>1, <2>3 DEF OneLoad
  <2>4. CASE /\ c.live /\ page' = page
             /\ \E e : e.op = "load" /\ e.live /\ calls' = (calls \ {c}) \cup {e}
    BY <2>1, <2>4 DEF OneLoad
  <2>5. CASE /\ c.live /\ page' = "shown"
             /\ \E r2, s2 : Renders(r2, s2, calls \ {c}, socks)
    <3>1. PICK r2, s2 : Renders(r2, s2, calls \ {c}, socks)
      BY <2>5
    <3>2. page # "away"
      BY <2>5 DEF Sound, Linked
    <3>3. \A d \in calls' : d.live => d \in calls \ {c}
      BY <2>5, <3>1, <3>2, Rendered
    <3> QED BY <2>1, <2>5, <3>3 DEF OneLoad
  <2> QED BY <2>1, <2>2, <2>3, <2>4, <2>5
<1>6. ASSUME NEW c \in calls, TriggerReturns(c) \/ ResumeReturns(c) \/ CancelReturns(c)
      PROVE  OneLoad'
  <2>1. /\ page' = page
        /\ \/ calls' = calls \ {c}
           \/ \E r2, s2 : Renders(r2, s2, calls \ {c}, socks)
           \/ \E e : e.op = "trigger" /\ \E r2, s2 : Renders(r2, s2, (calls \ {c}) \cup {e}, socks)
    BY <1>6, ToolbarSound
  <2>2. CASE calls' = calls \ {c}
    BY <2>1, <2>2 DEF OneLoad
  <2>3. CASE \E r2, s2 : Renders(r2, s2, calls \ {c}, socks)
    BY <2>1, <2>3, OneLoadRendered
  <2>4. CASE \E e : e.op = "trigger" /\ \E r2, s2 : Renders(r2, s2, (calls \ {c}) \cup {e}, socks)
    BY <2>1, <2>4, OneLoadRendered
  <2> QED BY <2>1, <2>2, <2>3, <2>4
<1>7. ASSUME NEW k \in Slots, Open(k) \/ Message(k) \/ Closed(k) \/ Dropped(k)
      PROVE  OneLoad'
  <2>1. CASE Open(k)
    <3>1. page' = page /\ (calls' = calls \/ calls' = calls \cup {Ask("backfill", socks[k].run)})
      BY <2>1, OpenSound
    <3>2. socks[k].run \in Runs \cup {NoRun}
      BY DEF Sound, Shaped, Socket
    <3>3. Ask("backfill", socks[k].run).op = "backfill"
      BY <3>2, AskEffect DEF Ops
    <3> QED BY <3>1, <3>3 DEF OneLoad
  <2>2. CASE Message(k)
    <3>1. page' = page /\ (calls' = calls \/ \E s2, ss : Renders(runId, s2, calls, ss))
      BY <2>2, MessageSound
    <3> QED BY <1>1, <3>1, OneLoadRendered
  <2>3. CASE Closed(k) \/ Dropped(k)
    BY <1>1, <2>3, CloseSound DEF Closed, Dropped
  <2> QED BY <1>7, <2>1, <2>2, <2>3
<1>8. CASE Flush
  <2>1. page' = page /\ \E s2 : Renders(runId, s2, calls, socks)
    BY <1>8, FlushSound DEF Flush
  <2> QED BY <2>1, OneLoadRendered
<1>9. CASE Poll \/ ClickRun \/ ClickCancel
  <2>1. page' = page /\ \E e : e.op # "load" /\ calls' = calls \cup {e}
    BY <1>9, PollSound, ClickSound
  <2> QED BY <2>1 DEF OneLoad
<1>10. CASE Mount
  <2>1. /\ page = "away" /\ page' = "loading"
        /\ \E e : e.op = "load" /\ e.live /\ calls' = calls \cup {e}
    BY <1>10, MountSound
  <2>2. \A c \in calls : ~c.live
    BY <2>1 DEF Sound, Linked
  <2> QED BY <2>1, <2>2 DEF OneLoad
<1>11. CASE Leave
  BY <1>11, LeaveSound DEF OneLoad
<1>12. CASE Reconnect \/ UNCHANGED vars
  BY <1>1, <1>12, ReconnectSound DEF vars
<1>13. ASSUME NEW r \in Runs, Work(r) \/ Finish(r) \/ Tell(r) PROVE OneLoad'
  BY <1>1, <1>13, ServerEffect
<1> QED BY <1>2, <1>3, <1>4, <1>5, <1>6, <1>7, <1>8, <1>9, <1>10, <1>11, <1>12, <1>13
        DEF Next, Returns

\* Sockets that are not opened and a page that stays as it is.
LEMMA HeldStays ==
    ASSUME Held, ~stray' => ~stray, UpIn(socks') \subseteq UpIn(socks),
           UNCHANGED <<page, ref, timer, runId, status>>,
           page = "shown" \/ (pending' = pending /\ \A c \in calls' : c.live => c.op = "load")
               \/ stray'
    PROVE  Held'
BY DEF Held, OneUp, Calm

\* A render of a page that shows a run.
LEMMA HeldRendered ==
    ASSUME Held, NEW r2, NEW s2, NEW cs, NEW ss, Renders(r2, s2, cs, ss),
           UpIn(ss) = UpIn(socks), page = "shown", page' = page, ~stray' => ~stray,
           ~(r2 # runId /\ Over(s2) /\ s2 = status)
    PROVE  Held'
<1>1. status' = s2
  BY Rendered
<1>2. OneUp(socks, ref, timer, status) => OneUp(ss, ref, timer, status)
  BY DEF OneUp
<1>3. OneUp(ss, ref, timer, status) => OneUp(socks', ref', timer', s2)
  BY RenderedSockets
<1> QED BY <1>1, <1>2, <1>3 DEF Held, Calm

\* Sockets that differ in what they bring are up alike.
LEMMA AlikeUp ==
    ASSUME NEW ss, Alike(ss)
    PROVE  UpIn(ss) = UpIn(socks)
BY DEF Alike, UpIn

\* What is cared for and is not a load belongs to a page that shows a run.
LEMMA Cared ==
    ASSUME Sound, Held, ~stray
    PROVE  /\ \A c \in calls : c.live /\ c.op # "load" => page = "shown"
           /\ \A k \in Slots : socks[k].live => page = "shown"
           /\ pending # <<>> \/ timer \/ polling => page = "shown"
BY DEF Sound, Linked, SockOK, Held, Calm

\* The sockets' own callbacks and the hook's timer open none beside another.
LEMMA HeldSocket ==
    ASSUME Sound, Held, NEW k \in Slots, Open(k) \/ Message(k) \/ Closed(k) \/ Dropped(k)
    PROVE  Held'
<1>1. CASE Open(k)
  <2>1. /\ UpIn(socks') = UpIn(socks) /\ k \in UpIn(socks)
        /\ UNCHANGED <<page, ref, timer, store, stray>>
    BY <1>1, OpenSound
  <2>2. ~stray => page = "shown"
    BY <2>1 DEF Held, Calm
  <2> QED BY <2>1, <2>2 DEF Held, OneUp, Calm, store
<1>2. CASE Message(k)
  <2>1. /\ page' = page /\ stray' = (stray \/ ~socks[k].live) /\ runId' = runId
        /\ \/ Alike(socks') /\ UNCHANGED <<status, calls, ref, timer, manual, polling>>
           \/ \E s2, ss : Renders(runId, s2, calls, ss) /\ Alike(ss)
    BY <1>2, MessageSound
  <2>2. CASE stray'
    BY <2>2 DEF Held
  <2>3. CASE ~stray'
    <3>1. page = "shown" /\ ~stray
      BY <2>1, <2>3, Cared
    <3>2. CASE Alike(socks') /\ UNCHANGED <<status, calls, ref, timer, manual, polling>>
      BY <2>1, <3>1, <3>2, AlikeUp, HeldStays
    <3>3. CASE \E s2, ss : Renders(runId, s2, calls, ss) /\ Alike(ss)
      BY <2>1, <3>1, <3>3, AlikeUp, HeldRendered
    <3> QED BY <2>1, <3>2, <3>3
  <2> QED BY <2>2, <2>3
<1>3. ASSUME NEW clean \in BOOLEAN, OnClose(k, clean), clean \/ k \in UpIn(socks)
      PROVE  Held'
  <2>1. /\ UpIn(socks') = UpIn(socks) \ {k}
        /\ UNCHANGED <<page, calls, store>>
    BY <1>3, CloseSound
  <2>2. /\ ~stray' => ~stray
        /\ \/ ref' = ref /\ timer' = timer
           \/ /\ ref' = NoSlot /\ (~stray' => ref \in {NoSlot, k})
              /\ timer' = (timer \/ (~clean /\ ~manual /\ socks[k].live))
    BY <1>3 DEF OnClose, Rearms
  <2>3. SUFFICES ASSUME ~stray' PROVE OneUp(socks', ref', timer', status) /\ Calm'
    BY <2>1 DEF Held, store
  <2>4. ~stray /\ OneUp(socks, ref, timer, status) /\ Calm
    BY <2>2, <2>3 DEF Held
  <2>5. Calm'
    BY <2>1, <2>4 DEF Calm, store
  <2>6. CASE ref' = ref /\ timer' = timer
    BY <2>1, <2>4, <2>5, <2>6 DEF OneUp
  <2>7. CASE /\ ref' = NoSlot /\ (~stray' => ref \in {NoSlot, k})
             /\ timer' = (timer \/ (~clean /\ ~manual /\ socks[k].live))
    <3>1. UpIn(socks) \subseteq {NoSlot, k} /\ UpIn(socks) \subseteq Slots
      BY <2>3, <2>4, <2>7 DEF OneUp, UpIn
    <3>2. UpIn(socks') = {}
      BY <2>1, <3>1, NoSlotIsNone
    <3>3. Over(status) => UpIn(socks) = {} /\ ~timer
      BY <2>4 DEF OneUp
    <3>4. Over(status) => ~timer'
      BY <1>3, <2>7, <3>3
    <3> QED BY <2>5, <3>2, <3>4 DEF OneUp
  <2> QED BY <2>2, <2>6, <2>7
<1>4. CASE Closed(k)
  BY <1>3, <1>4 DEF Closed
<1>5. CASE Dropped(k)
  <2>1. OnClose(k, FALSE) /\ k \in UpIn(socks)
    BY <1>5 DEF Dropped, UpIn
  <2> QED BY <1>3, <2>1
<1> QED BY <1>1, <1>2, <1>4, <1>5

\* The answers open one only where the page comes to show a run.
LEMMA HeldReturns ==
    ASSUME Sound, Held, OneLoad, NEW c \in calls, Returns(c)
    PROVE  Held'
<1>1. SUFFICES ASSUME ~stray' PROVE Held'
  BY DEF Held
<1>2. CASE BackfillReturns(c)
  <2>1. /\ runId' = runId /\ UNCHANGED <<page, stray, pending>>
        /\ \/ calls' = calls \ {c} /\ UNCHANGED <<hook, store>>
           \/ /\ c.live /\ c.op = "backfill"
              /\ \E s2 : Renders(runId, s2, calls \ {c}, socks)
    BY <1>2, BackfillSound
  <2>2. CASE calls' = calls \ {c} /\ UNCHANGED <<hook, store>>
    BY <2>1, <2>2 DEF Held, Calm, hook, store
  <2>3. CASE /\ c.live /\ c.op = "backfill"
             /\ \E s2 : Renders(runId, s2, calls \ {c}, socks)
    <3>1. page = "shown"
      BY <1>1, <2>1, <2>3, Cared
    <3> QED BY <2>1, <2>3, <3>1, HeldRendered
  <2> QED BY <2>1, <2>2, <2>3
<1>3. CASE PollReturns(c)
  <2>1. /\ runId' = runId /\ UNCHANGED <<page, pending>> /\ c.op = "poll"
        /\ \/ /\ UNCHANGED <<socks, ref, timer, store, stray>>
              /\ \/ calls' = calls \ {c}
                 \/ \E e : e.op = "poll" /\ e.live = c.live /\ calls' = (calls \ {c}) \cup {e}
           \/ /\ stray' = (stray \/ ~c.live)
              /\ \/ UNCHANGED <<status, socks, ref, timer, manual>> /\ calls' = calls \ {c}
                 \/ \E s2 : Renders(runId, s2, calls \ {c}, socks)
    BY <1>3, PollReturnsSound
  <2>2. c.live /\ ~stray => page = "shown"
    BY <2>1, Cared
  <2>3. CASE /\ UNCHANGED <<socks, ref, timer, store, stray>>
             /\ \/ calls' = calls \ {c}
                \/ \E e : e.op = "poll" /\ e.live = c.live /\ calls' = (calls \ {c}) \cup {e}
    BY <1>1, <2>1, <2>2, <2>3 DEF Held, Calm, store
  <2>4. CASE /\ stray' = (stray \/ ~c.live)
             /\ UNCHANGED <<status, socks, ref, timer, manual>> /\ calls' = calls \ {c}
    BY <1>1, <2>1, <2>2, <2>4 DEF Held, Calm
  <2>5. CASE /\ stray' = (stray \/ ~c.live)
             /\ \E s2 : Renders(runId, s2, calls \ {c}, socks)
    BY <1>1, <2>1, <2>2, <2>5, HeldRendered
  <2> QED BY <2>1, <2>3, <2>4, <2>5
<1>4. CASE LoadReturns(c)
  <2>1. /\ c.op = "load" /\ stray' = stray
        /\ \/ ~c.live /\ calls' = calls \ {c} /\ UNCHANGED <<page, hook, store>>
           \/ c.live /\ LoadFails(c)
           \/ c.live /\ NoRunYet(c) /\ Renders(NoRun, "idle", calls \ {c}, socks)
           \/ /\ c.live /\ UNCHANGED <<page, hook, store>>
              /\ \E e : e.op = "load" /\ e.live /\ calls' = (calls \ {c}) \cup {e}
           \/ c.live /\ Hydrate(c) /\ Renders(c.run, c.st, calls \ {c}, socks)
    BY <1>4, LoadSound
  <2>2. ~stray /\ OneUp(socks, ref, timer, status) /\ Calm
    BY <1>1, <2>1 DEF Held
  <2>3. c.live => page = "loading"
    BY <2>1 DEF OneLoad
  <2>4. c.live => runId = NoRun /\ status = "idle"
    BY <2>2, <2>3 DEF Calm
  <2>5. CASE ~c.live /\ calls' = calls \ {c} /\ UNCHANGED <<page, hook, store>>
    BY <2>2, <2>5 DEF Held, Calm, hook, store
  <2>6. CASE c.live /\ LoadFails(c)
    BY <2>2, <2>3, <2>6 DEF Held, Calm, LoadFails, hook, store
  <2>7. CASE /\ c.live /\ UNCHANGED <<page, hook, store>>
             /\ \E e : e.op = "load" /\ e.live /\ calls' = (calls \ {c}) \cup {e}
    BY <2>2, <2>7 DEF Held, Calm, hook, store
  <2>8. ASSUME NEW r2, NEW s2, c.live, page' = "shown", Renders(r2, s2, calls \ {c}, socks)
        PROVE  Held'
    <3>1. page # "away"
      BY <2>3, <2>8
    <3>2. status' = s2
      BY <2>8, <3>1, Rendered
    <3>3. OneUp(socks', ref', timer', s2)
      BY <2>2, <2>4, <2>8, <3>1, RenderedSockets DEF Over
    <3> QED BY <2>8, <3>2, <3>3 DEF Held, Calm
  <2>9. CASE c.live /\ NoRunYet(c) /\ Renders(NoRun, "idle", calls \ {c}, socks)
    BY <2>8, <2>9 DEF NoRunYet
  <2>10. CASE c.live /\ Hydrate(c) /\ Renders(c.run, c.st, calls \ {c}, socks)
    BY <2>8, <2>10 DEF Hydrate
  <2> QED BY <2>1, <2>5, <2>6, <2>7, <2>9, <2>10
<1>5. CASE TriggerReturns(c) \/ ResumeReturns(c) \/ CancelReturns(c)
  <2>1. /\ UNCHANGED <<page, evs, pending, ids>> /\ c.op # "load" /\ ~stray
        /\ \/ calls' = calls \ {c} /\ UNCHANGED <<hook, runId, status>>
           \/ /\ \E r2, s2 : Renders(r2, s2, calls \ {c}, socks) /\ ~Over(s2)
              /\ c.live
           \/ /\ \E e : Renders(c.run, "running", (calls \ {c}) \cup {e}, socks)
              /\ c.live
    BY <1>1, <1>5, ToolbarSound
  <2>2. c.live => page = "shown"
    BY <2>1, Cared
  <2>3. CASE calls' = calls \ {c} /\ UNCHANGED <<hook, runId, status>>
    BY <2>1, <2>3 DEF Held, Calm, hook
  <2>4. CASE c.live /\ \E r2, s2 : Renders(r2, s2, calls \ {c}, socks) /\ ~Over(s2)
    BY <2>1, <2>2, <2>4, HeldRendered
  <2>5. CASE c.live /\ \E e : Renders(c.run, "running", (calls \ {c}) \cup {e}, socks)
    <3>1. ~Over("running")
      BY DEF Over
    <3> QED BY <2>1, <2>2, <2>5, <3>1, HeldRendered
  <2> QED BY <2>1, <2>3, <2>4, <2>5
<1> QED BY <1>2, <1>3, <1>4, <1>5 DEF Returns

\* Every step keeps it, or is marked as interfering.
LEMMA HeldStep ==
    ASSUME Sound, Held, OneLoad, [Next]_vars
    PROVE  Held'
<1>1. ASSUME Alike(socks'), UNCHANGED <<page, ref, timer, runId, status, pending, stray>>,
             \/ calls' = calls
             \/ \E c \in calls : \E e : e.op = c.op /\ e.live = c.live /\ calls' = (calls \ {c}) \cup {e}
      PROVE  Held'
  <2>1. UpIn(socks') = UpIn(socks)
    BY <1>1, AlikeUp
  <2> QED BY <1>1, <2>1 DEF Held, OneUp, Calm
<1>2. ASSUME NEW r \in Runs, Work(r) \/ Finish(r) \/ Tell(r) PROVE Held'
  BY <1>1, <1>2, ServerEffect DEF store
<1>3. ASSUME NEW c \in calls, Serve(c) PROVE Held'
  BY <1>1, <1>3, ServeEffect DEF store, Answered
<1>4. CASE Flush
  <2>1. /\ page' = page /\ pending # <<>> /\ stray' = stray
        /\ \E s2 : Renders(runId, s2, calls, socks)
    BY <1>4, FlushSound DEF Flush
  <2>2. CASE stray
    BY <2>1, <2>2 DEF Held
  <2>3. CASE ~stray
    <3>1. page = "shown"
      BY <2>1, <2>3, Cared
    <3> QED BY <2>1, <3>1, HeldRendered
  <2> QED BY <2>2, <2>3
<1>5. CASE Reconnect
  <2>1. /\ UpIn(socks') \subseteq UpIn(socks) \cup {ref'} /\ ~timer' /\ timer
        /\ UNCHANGED <<page, calls, store, stray>>
    BY <1>5, ReconnectSound
  <2>2. ~stray => page = "shown"
    BY <2>1, Cared
  <2> QED BY <2>1, <2>2 DEF Held, OneUp, Calm, store
<1>6. CASE Poll
  <2>1. /\ UNCHANGED <<page, socks, ref, timer, store, stray>> /\ runId # NoRun
    BY <1>6, PollSound
  <2> QED BY <2>1 DEF Held, Calm, store
<1>7. CASE Mount
  <2>1. /\ page = "away" /\ page' = "loading" /\ ~timer'
        /\ runId = NoRun => socks' = socks
        /\ UNCHANGED <<store, stray>>
        /\ \E e : e.op = "load" /\ e.live /\ calls' = calls \cup {e}
    BY <1>7, MountSound
  <2> QED BY <2>1 DEF Held, OneUp, Calm, store
<1>8. CASE Leave
  <2>1. /\ page' = "away" /\ runId' = NoRun /\ status' = "idle" /\ pending' = <<>>
        /\ ~timer' /\ stray' = stray /\ UpIn(socks') = UpIn(socks) \ {ref}
        /\ \A c \in calls' : ~c.live
    BY <1>8, LeaveSound DEF Clear
  <2> QED BY <2>1 DEF Held, OneUp, Calm, Over
<1>9. CASE ClickRun \/ ClickCancel
  <2>1. UNCHANGED <<page, hook, runId, status>> /\ page = "shown"
    BY <1>9, ClickSound
  <2>2. ~stray' => ~stray
    <3>1. stray' = stray \/ stray' = (stray \/ runId # NoRun)
      BY <1>9, ClickSound
    <3> QED BY <3>1
  <2> QED BY <2>1, <2>2 DEF Held, Calm, hook
<1>10. CASE UNCHANGED vars
  BY <1>10 DEF vars, hook, store, Held, Calm
<1> QED BY <1>2, <1>3, <1>4, <1>5, <1>6, <1>7, <1>8, <1>9, <1>10, HeldReturns, HeldSocket
        DEF Next

\* Unless a late callback interfered, there is one live socket at most, the hook
\* can close it, and none is left when the run has ended or the page was left.
THEOREM OneSocketHolds == Spec => []OneSocket
<1>1. Init => Sound /\ Held /\ OneLoad
  <2> SUFFICES ASSUME Init PROVE Held /\ OneLoad
    BY SoundInit
  <2>1. UpIn(socks) = {}
    BY FreeEffect DEF Init, UpIn
  <2> QED BY <2>1 DEF Init, Held, OneUp, Calm, OneLoad, Over
<1>2. Sound /\ Held /\ OneLoad /\ [Next]_vars => Sound' /\ Held' /\ OneLoad'
  BY SoundStep, HeldStep, OneLoadStep
<1>3. Sound /\ Held => OneSocket
  <2> SUFFICES ASSUME Sound, Held, ~stray
               PROVE  /\ UpIn(socks) \subseteq {ref}
                      /\ Over(status) \/ page = "away" => UpIn(socks) = {} /\ ~timer
    BY DEF OneSocket, UpIn, Over
  <2> QED BY DEF Sound, Linked, Held, OneUp, Calm
<1> QED BY <1>1, <1>2, <1>3, PTL DEF Spec

-----------------------------------------------------------------------------
(* All that is shown is the run's own.  A new run finds the store empty,   *)
(* since the button waits for its requests and nothing else fills a store  *)
(* without a run.                                                          *)

\* One request for a run is under way.
Waits == \A c, d \in calls :
    c.live /\ d.live /\ c.op = "trigger" /\ d.op = "trigger" => c = d

OwnedBy(r) == \A e \in Members(evs) \cup Members(pending) : e[1] = r
Owned ==
    ~stray => /\ runId # NoRun => OwnedBy(runId)
              /\ \A c \in calls : c.live /\ c.op = "trigger" /\ c.step = "first"
                     => runId = NoRun /\ evs = <<>> /\ pending = <<>>

\* Without the keyboard, Run is not clicked again before its answer.
LEMMA WaitsStep ==
    ASSUME Sound, Waits, ~Keyboard, [Next]_vars
    PROVE  Waits'
<1>1. ASSUME \A d \in calls' : d.live => d \in calls \/ d.op # "trigger"
      PROVE  Waits'
  BY <1>1 DEF Waits
<1>2. ASSUME NEW c \in calls, NEW e, e.op = c.op, e.live = c.live,
             \A d \in calls' : d.live => d \in (calls \ {c}) \cup {e}
      PROVE  Waits'
  BY <1>2 DEF Waits
<1>3. ASSUME NEW r2, NEW s2, NEW cs, NEW ss, Renders(r2, s2, cs, ss),
             page' = page \/ (page # "away" /\ page' # "away")
      PROVE  \A d \in calls' : d.live => d \in cs
  BY <1>3, Rendered
<1>4. ASSUME NEW c \in calls, Serve(c) PROVE Waits'
  <2>1. \E e : e.op = c.op /\ e.live = c.live /\ calls' = (calls \ {c}) \cup {e}
    BY <1>4, ServeEffect DEF Answered
  <2> QED BY <1>2, <2>1
<1>5. ASSUME NEW c \in calls, BackfillReturns(c) \/ PollReturns(c) PROVE Waits'
  <2>1. /\ page' = page
        /\ \/ calls' = calls \ {c}
           \/ \E e : e.op = "poll" /\ calls' = (calls \ {c}) \cup {e}
           \/ \E s2 : Renders(runId, s2, calls \ {c}, socks)
    BY <1>5, BackfillSound, PollReturnsSound
  <2> QED BY <1>1, <1>3, <2>1
<1>6. ASSUME NEW c \in calls, LoadReturns(c) PROVE Waits'
  <2>1. \/ calls' = calls \ {c}
        \/ \E e : e.op = "load" /\ calls' = (calls \ {c}) \cup {e}
        \/ c.live /\ page' = "shown" /\ \E r2, s2 : Renders(r2, s2, calls \ {c}, socks)
    BY <1>6, LoadSound DEF LoadFails, NoRunYet, Hydrate
  <2>2. c.live => page # "away"
    BY DEF Sound, Linked
  <2> QED BY <1>1, <1>3, <2>1, <2>2
<1>7. ASSUME NEW c \in calls, TriggerReturns(c) \/ ResumeReturns(c) \/ CancelReturns(c)
      PROVE  Waits'
  <2>1. /\ page' = page
        /\ \/ calls' = calls \ {c}
           \/ \E r2, s2 : Renders(r2, s2, calls \ {c}, socks)
           \/ \E e : /\ e.op = c.op /\ e.live = c.live
                     /\ \E r2, s2 : Renders(r2, s2, (calls \ {c}) \cup {e}, socks)
    BY <1>7, ToolbarSound
  <2>2. CASE calls' = calls \ {c} \/ \E r2, s2 : Renders(r2, s2, calls \ {c}, socks)
    BY <1>1, <1>3, <2>1, <2>2
  <2>3. CASE \E e : /\ e.op = c.op /\ e.live = c.live
                    /\ \E r2, s2 : Renders(r2, s2, (calls \ {c}) \cup {e}, socks)
    <3>1. PICK e : /\ e.op = c.op /\ e.live = c.live
                   /\ \E r2, s2 : Renders(r2, s2, (calls \ {c}) \cup {e}, socks)
      BY <2>3
    <3>2. \A d \in calls' : d.live => d \in (calls \ {c}) \cup {e}
      BY <1>3, <2>1, <3>1
    <3> QED BY <1>2, <3>1, <3>2
  <2> QED BY <2>1, <2>2, <2>3
<1>8. ASSUME NEW k \in Slots, Open(k) \/ Message(k) \/ Closed(k) \/ Dropped(k)
      PROVE  Waits'
  <2>1. CASE Open(k)
    <3>1. socks[k].run \in Runs \cup {NoRun}
      BY DEF Sound, Shaped, Socket
    <3>2. Ask("backfill", socks[k].run).op = "backfill"
      BY <3>1, AskEffect DEF Ops
    <3>3. calls' = calls \/ calls' = calls \cup {Ask("backfill", socks[k].run)}
      BY <2>1, OpenSound
    <3> QED BY <1>1, <3>2, <3>3
  <2>2. CASE Message(k)
    <3>1. page' = page /\ (calls' = calls \/ \E s2, ss : Renders(runId, s2, calls, ss))
      BY <2>2, MessageSound
    <3> QED BY <1>1, <1>3, <3>1
  <2>3. CASE Closed(k) \/ Dropped(k)
    BY <1>1, <2>3, CloseSound DEF Closed, Dropped
  <2> QED BY <1>8, <2>1, <2>2, <2>3
<1>9. CASE Flush
  <2>1. page' = page /\ \E s2 : Renders(runId, s2, calls, socks)
    BY <1>9, FlushSound DEF Flush
  <2> QED BY <1>1, <1>3, <2>1
<1>10. CASE ClickRun \/ ClickCancel
  <2>1. \/ \E e : e.op \in {"resume", "cancel"} /\ calls' = calls \cup {e}
        \/ ClickRun /\ \E e : calls' = calls \cup {e}
    BY <1>10, ClickSound
  <2>2. ClickRun => \A d \in calls : d.live => d.op # "trigger"
    BY DEF ClickRun, Asked
  <2>3. CASE \E e : e.op \in {"resume", "cancel"} /\ calls' = calls \cup {e}
    BY <1>1, <2>3
  <2>4. CASE ClickRun /\ \E e : calls' = calls \cup {e}
    BY <2>2, <2>4 DEF Waits
  <2> QED BY <2>1, <2>3, <2>4
<1>11. CASE Poll \/ Mount
  <2>1. \E e : e.op # "trigger" /\ calls' = calls \cup {e}
    BY <1>11, PollSound, MountSound
  <2> QED BY <1>1, <2>1
<1>12. CASE Leave
  BY <1>1, <1>12, LeaveSound
<1>13. CASE Reconnect \/ UNCHANGED vars
  <2>1. calls' = calls
    BY <1>13, ReconnectSound DEF vars
  <2> QED BY <1>1, <2>1
<1>14. ASSUME NEW r \in Runs, Work(r) \/ Finish(r) \/ Tell(r) PROVE Waits'
  BY <1>1, <1>14, ServerEffect
<1> QED BY <1>4, <1>5, <1>6, <1>7, <1>8, <1>9, <1>10, <1>11, <1>12, <1>13, <1>14
        DEF Next, Returns

\* Nothing is added, and no trigger that was not there.
LEMMA OwnedStays ==
    ASSUME Owned, ~stray' => ~stray, UNCHANGED <<runId, evs, pending>>,
           \A d \in calls' : d.live /\ d.op = "trigger" /\ d.step = "first"
               => \E c \in calls : c.live /\ c.op = "trigger" /\ c.step = "first"
    PROVE  Owned'
BY DEF Owned, OwnedBy

\* Events of the run that is shown are added.
LEMMA OwnedAdds ==
    ASSUME Owned, ~stray, runId # NoRun, runId' = runId,
           \A e \in Members(evs') \cup Members(pending') :
               e \in Members(evs) \cup Members(pending) \/ e[1] = runId,
           \A d \in calls' : d.live => d \in calls \/ d.op # "trigger"
    PROVE  Owned'
BY DEF Owned, OwnedBy

\* An empty store is nobody's.
LEMMA OwnedNone ==
    ASSUME Clear
    PROVE  OwnedBy(runId)'
BY NoneTwice DEF Clear, OwnedBy

\* What a socket brings belongs to the run that is shown.
LEMMA OwnedSocket ==
    ASSUME Sound, Owned, NEW k \in Slots, Open(k) \/ Message(k) \/ Closed(k) \/ Dropped(k)
    PROVE  Owned'
<1>1. CASE Open(k)
  <2>1. socks[k].run \in Runs \cup {NoRun}
    BY DEF Sound, Shaped, Socket
  <2>2. Ask("backfill", socks[k].run).op = "backfill"
    BY <2>1, AskEffect DEF Ops
  <2>3. /\ UNCHANGED <<store, stray>>
        /\ calls' = calls \/ calls' = calls \cup {Ask("backfill", socks[k].run)}
    BY <1>1, OpenSound
  <2> QED BY <2>2, <2>3, OwnedStays DEF store
<1>2. CASE Message(k)
  <2> DEFINE e == Head(socks[k].q)
  <2>1. /\ runId' = runId /\ page' = page /\ stray' = (stray \/ ~socks[k].live)
        /\ e \in EventIds /\ e[1] = socks[k].run
        /\ \/ UNCHANGED <<evs, pending>>
           \/ evs' = evs /\ pending' = Append(pending, e)
           \/ evs' = evs \o Append(pending, e) /\ pending' = <<>>
        /\ \/ calls' = calls
           \/ \E s2, ss : Renders(runId, s2, calls, ss)
    BY <1>2, MessageSound
  <2> HIDE DEF e
  <2>2. SUFFICES ASSUME ~stray' PROVE Owned'
    BY DEF Owned
  <2>3. ~stray /\ socks[k].live
    BY <2>1, <2>2
  <2>4. runId # NoRun /\ e[1] = runId
    BY <2>1, <2>3 DEF Sound, Linked, SockOK
  <2>5. \A d \in calls' : d.live => d \in calls
    BY <2>1, Rendered
  <2>6. evs \in Seq(EventIds) /\ pending \in Seq(EventIds)
    BY DEF Sound, Shaped
  <2>7. /\ Append(pending, e) \in Seq(EventIds)
        /\ Members(Append(pending, e)) = Members(pending) \cup {e}
    BY <2>1, <2>6, MembersAppend
  <2> DEFINE wait == Append(pending, e)
  <2>8. Members(evs \o wait) = Members(evs) \cup Members(wait)
    BY <2>6, <2>7, MembersConcat
  <2>9. Members(evs') \cup Members(pending') \subseteq Members(evs) \cup Members(pending) \cup {e}
    BY <2>1, <2>7, <2>8, NoneTwice
  <2> QED BY <2>1, <2>3, <2>4, <2>5, <2>9, OwnedAdds
<1>3. CASE Closed(k) \/ Dropped(k)
  <2>1. UNCHANGED <<page, calls, store>> /\ (~stray' => ~stray)
    BY <1>3, CloseSound DEF Closed, Dropped, OnClose
  <2> QED BY <2>1, OwnedStays DEF store
<1> QED BY <1>1, <1>2, <1>3

\* So does what an answer brings, or the answer is marked as interfering.
LEMMA OwnedReturns ==
    ASSUME Sound, Held, OneLoad, Waits, Owned, NEW c \in calls, Returns(c)
    PROVE  Owned'
<1>0. evs \in Seq(EventIds) /\ pending \in Seq(EventIds)
  BY DEF Sound, Shaped
<1>1. SUFFICES ASSUME ~stray' PROVE Owned'
  BY DEF Owned
<1>2. ASSUME NEW r \in Runs, NEW n \in 0 .. MaxLog, r = runId, ~stray, runId' = runId,
             evs' = evs \o Unknown(History(r, n), ids), pending' = pending,
             \A d \in calls' : d.live => d \in calls
      PROVE  Owned'
  <2> DEFINE h == History(r, n)
             new == Unknown(h, ids)
  <2>1. h \in Seq(EventIds) /\ \A e \in Members(h) : e[1] = r
    BY HistoryEffect
  <2> HIDE DEF h
  <2>2. new \in Seq(EventIds) /\ Members(new) = Members(h) \ ids
    BY <2>1, UnknownEffect
  <2>3. evs' = evs \o new
    BY <1>2 DEF h
  <2> HIDE DEF new
  <2>4. Members(evs') = Members(evs) \cup Members(new)
    BY <1>0, <2>2, <2>3, MembersConcat
  <2>5. runId # NoRun
    BY <1>2, NoSlotIsNone
  <2> QED BY <1>2, <2>1, <2>2, <2>4, <2>5, OwnedAdds
<1>3. CASE BackfillReturns(c)
  <2>1. /\ runId' = runId /\ UNCHANGED <<page, stray, pending>>
        /\ \/ calls' = calls \ {c} /\ UNCHANGED <<hook, store>>
           \/ /\ c.live /\ c.run = runId /\ c.run \in Runs /\ c.n \in 0 .. MaxLog
              /\ evs' = evs \o Unknown(History(c.run, c.n), ids)
              /\ \E s2 : Renders(runId, s2, calls \ {c}, socks)
    BY <1>3, BackfillSound
  <2>2. CASE calls' = calls \ {c} /\ UNCHANGED <<hook, store>>
    BY <2>1, <2>2, OwnedStays DEF store
  <2>3. CASE /\ c.live /\ c.run = runId /\ c.run \in Runs /\ c.n \in 0 .. MaxLog
             /\ evs' = evs \o Unknown(History(c.run, c.n), ids)
             /\ \E s2 : Renders(runId, s2, calls \ {c}, socks)
    <3>1. \A d \in calls' : d.live => d \in calls
      BY <2>1, <2>3, Rendered
    <3> QED BY <1>1, <1>2, <2>1, <2>3, <3>1
  <2> QED BY <2>1, <2>2, <2>3
<1>4. CASE PollReturns(c)
  <2>1. /\ runId' = runId /\ UNCHANGED <<page, pending>>
        /\ c.op = "poll" /\ c.run \in Runs /\ c.n \in 0 .. MaxLog
        /\ \/ /\ UNCHANGED <<store, stray>>
              /\ calls' = calls \ {c} \/ \E e : e.op = "poll" /\ calls' = (calls \ {c}) \cup {e}
           \/ /\ evs' = evs \o Unknown(History(c.run, c.n), ids)
              /\ stray' = (stray \/ ~c.live)
              /\ \/ calls' = calls \ {c}
                 \/ \E s2 : Renders(runId, s2, calls \ {c}, socks)
    BY <1>4, PollReturnsSound
  <2>2. CASE /\ UNCHANGED <<store, stray>>
             /\ calls' = calls \ {c} \/ \E e : e.op = "poll" /\ calls' = (calls \ {c}) \cup {e}
    BY <2>2, OwnedStays DEF store
  <2>3. CASE /\ evs' = evs \o Unknown(History(c.run, c.n), ids)
             /\ stray' = (stray \/ ~c.live)
             /\ \/ calls' = calls \ {c}
                \/ \E s2 : Renders(runId, s2, calls \ {c}, socks)
    <3>1. \A d \in calls' : d.live => d \in calls
      BY <2>1, <2>3, Rendered
    <3>2. ~stray /\ c.live
      BY <1>1, <2>3
    <3>3. c.run = runId
      BY <2>1, <3>2 DEF Sound, Linked, CallOK
    <3> QED BY <1>2, <2>1, <2>3, <3>1, <3>2, <3>3
  <2> QED BY <2>1, <2>2, <2>3
<1>5. CASE LoadReturns(c)
  <2>1. /\ c.op = "load" /\ stray' = stray
        /\ \/ calls' = calls \ {c} /\ UNCHANGED store
           \/ c.live /\ NoRunYet(c) /\ Renders(NoRun, "idle", calls \ {c}, socks)
           \/ UNCHANGED store /\ \E e : e.op = "load" /\ calls' = (calls \ {c}) \cup {e}
           \/ /\ c.live /\ Hydrate(c) /\ Renders(c.run, c.st, calls \ {c}, socks)
              /\ c.run \in Runs /\ c.n \in 0 .. MaxLog
    BY <1>5, LoadSound DEF LoadFails
  <2>2. c.live => page = "loading"
    BY <2>1 DEF OneLoad
  <2>3. CASE calls' = calls \ {c} /\ UNCHANGED store
    BY <2>1, <2>3, OwnedStays DEF store
  <2>4. CASE UNCHANGED store /\ \E e : e.op = "load" /\ calls' = (calls \ {c}) \cup {e}
    BY <2>1, <2>4, OwnedStays DEF store
  <2>5. ASSUME NEW r2, NEW s2, c.live, page' = "shown", Renders(r2, s2, calls \ {c}, socks),
               r2 # NoRun => OwnedBy(r2)'
        PROVE  Owned'
    <3>1. page # "away"
      BY <2>2, <2>5
    <3>2. runId' = r2 /\ \A d \in calls' : d.live => d \in calls
      BY <2>5, <3>1, Rendered
    <3>3. \A d \in calls : d.live => d.op = "load"
      BY <1>1, <2>1, <2>2, <2>5 DEF Held, Calm
    <3> QED BY <2>5, <3>2, <3>3 DEF Owned, OwnedBy
  <2>6. CASE c.live /\ NoRunYet(c) /\ Renders(NoRun, "idle", calls \ {c}, socks)
    BY <2>5, <2>6 DEF NoRunYet
  <2>7. CASE /\ c.live /\ Hydrate(c) /\ Renders(c.run, c.st, calls \ {c}, socks)
             /\ c.run \in Runs /\ c.n \in 0 .. MaxLog
    <3>1. evs' = History(c.run, c.n) /\ pending' = <<>> /\ page' = "shown"
      BY <2>7 DEF Hydrate
    <3>2. \A e \in Members(evs') \cup Members(pending') : e[1] = c.run
      BY <2>7, <3>1, HistoryEffect, NoneTwice
    <3> QED BY <2>5, <2>7, <3>1, <3>2 DEF OwnedBy
  <2> QED BY <2>1, <2>3, <2>4, <2>6, <2>7
<1>6. CASE TriggerReturns(c) \/ ResumeReturns(c) \/ CancelReturns(c)
  <2>1. /\ UNCHANGED <<page, evs, pending>> /\ ~stray
        /\ \/ calls' = calls \ {c} /\ runId' = runId
           \/ \E r2 \in {runId, NoRun} : \E s2 : Renders(r2, s2, calls \ {c}, socks)
           \/ /\ c.op = "trigger" /\ c.step = "first" /\ c.live /\ runId = NoRun
              /\ \E e : /\ e.op = "trigger" /\ e.step = "second" /\ e.live = c.live
                        /\ Renders(c.run, "running", (calls \ {c}) \cup {e}, socks)
    BY <1>1, <1>6, ToolbarSound
  <2>2. CASE calls' = calls \ {c} /\ runId' = runId
    BY <2>1, <2>2, OwnedStays
  <2>3. CASE \E r2 \in {runId, NoRun} : \E s2 : Renders(r2, s2, calls \ {c}, socks)
    <3>1. PICK r2 \in {runId, NoRun} : \E s2 : Renders(r2, s2, calls \ {c}, socks)
      BY <2>3
    <3>2. runId' = r2 /\ \A d \in calls' : d.live => d \in calls
      BY <2>1, <3>1, Rendered
    <3>3. CASE r2 = runId
      BY <2>1, <3>2, <3>3, OwnedStays
    <3>4. CASE r2 = NoRun
      BY <2>1, <3>2, <3>4 DEF Owned, OwnedBy
    <3> QED BY <3>3, <3>4
  <2>4. CASE /\ c.op = "trigger" /\ c.step = "first" /\ c.live /\ runId = NoRun
             /\ \E e : /\ e.op = "trigger" /\ e.step = "second" /\ e.live = c.live
                       /\ Renders(c.run, "running", (calls \ {c}) \cup {e}, socks)
    <3>1. PICK e : /\ e.op = "trigger" /\ e.step = "second" /\ e.live = c.live
                   /\ Renders(c.run, "running", (calls \ {c}) \cup {e}, socks)
      BY <2>4
    <3>2. \A d \in calls' : d.live => d \in (calls \ {c}) \cup {e}
      BY <2>1, <3>1, Rendered
    <3>3. evs' = <<>> /\ pending' = <<>>
      BY <2>1, <2>4 DEF Owned
    <3>4. \A d \in calls' : d.live /\ d.op = "trigger" => d.step # "first"
      BY <2>4, <3>1, <3>2 DEF Waits
    <3> QED BY <3>3, <3>4, NoneTwice DEF Owned, OwnedBy
  <2> QED BY <2>1, <2>2, <2>3, <2>4
<1> QED BY <1>3, <1>4, <1>5, <1>6 DEF Returns

\* Every step keeps it, or is marked.
LEMMA OwnedStep ==
    ASSUME Sound, Held, OneLoad, Waits, Owned, [Next]_vars
    PROVE  Owned'
<1>1. ASSUME NEW c \in calls, Serve(c) PROVE Owned'
  <2>1. /\ UNCHANGED <<store, stray>>
        /\ \E e : /\ e.op = c.op /\ e.step = c.step /\ e.live = c.live
                  /\ calls' = (calls \ {c}) \cup {e}
    BY <1>1, ServeEffect DEF Answered
  <2> QED BY <2>1, OwnedStays DEF store
<1>2. CASE Flush
  <2>1. /\ evs' = evs \o pending /\ pending' = <<>> /\ runId' = runId
        /\ page' = page /\ stray' = stray /\ pending # <<>>
        /\ \E s2 : Renders(runId, s2, calls, socks)
    BY <1>2, FlushSound DEF Flush
  <2>2. \A d \in calls' : d.live => d \in calls
    BY <2>1, Rendered
  <2>3. Members(evs') \cup Members(pending') = Members(evs) \cup Members(pending)
    BY <2>1, MembersConcat, NoneTwice DEF Sound, Shaped
  <2> QED BY <2>1, <2>2, <2>3 DEF Owned, OwnedBy
<1>3. CASE ClickRun \/ ClickCancel
  <2>1. /\ runId' = runId
        /\ \/ /\ \E e : e.op \in {"resume", "cancel"} /\ calls' = calls \cup {e}
              /\ UNCHANGED <<evs, pending, stray>>
           \/ Clear /\ stray' = (stray \/ runId # NoRun)
    BY <1>3, ClickSound
  <2>2. CASE /\ \E e : e.op \in {"resume", "cancel"} /\ calls' = calls \cup {e}
             /\ UNCHANGED <<evs, pending, stray>>
    BY <2>1, <2>2, OwnedStays
  <2>3. CASE Clear /\ stray' = (stray \/ runId # NoRun)
    <3>1. evs' = <<>> /\ pending' = <<>> /\ (~stray' => runId' = NoRun)
      BY <2>1, <2>3 DEF Clear
    <3> QED BY <2>3, <3>1, OwnedNone DEF Owned
  <2> QED BY <2>1, <2>2, <2>3
<1>4. CASE Poll \/ Mount
  <2>1. UNCHANGED <<store, stray>> /\ \E e : e.op # "trigger" /\ calls' = calls \cup {e}
    BY <1>4, PollSound, MountSound
  <2> QED BY <2>1, OwnedStays DEF store
<1>5. CASE Leave
  <2>1. runId' = NoRun /\ \A c \in calls' : ~c.live
    BY <1>5, LeaveSound
  <2> QED BY <2>1 DEF Owned
<1>6. CASE Reconnect \/ UNCHANGED vars
  <2>1. UNCHANGED <<store, stray, calls>>
    BY <1>6, ReconnectSound DEF vars
  <2> QED BY <2>1, OwnedStays DEF store
<1>7. ASSUME NEW r \in Runs, Work(r) \/ Finish(r) \/ Tell(r) PROVE Owned'
  <2>1. UNCHANGED <<store, stray, calls>>
    BY <1>7, ServerEffect
  <2> QED BY <2>1, OwnedStays DEF store
<1> QED BY <1>1, <1>2, <1>3, <1>4, <1>5, <1>6, <1>7, OwnedReturns, OwnedSocket DEF Next

\* Unless a late callback interfered, or a run was triggered while another was
\* shown, all that is shown under a run's id is that run's.
THEOREM OwnEventsHolds ==
    ASSUME ~Keyboard
    PROVE  Spec => []OwnEvents
<1> DEFINE Inv == Sound /\ Held /\ OneLoad /\ Waits /\ Owned
<1>1. Init => Inv
  <2> SUFFICES ASSUME Init PROVE Inv
    OBVIOUS
  <2>1. UpIn(socks) = {}
    BY FreeEffect DEF Init, UpIn
  <2> QED BY <2>1, SoundInit DEF Init, Held, OneUp, Calm, OneLoad, Over, Waits, Owned
<1>2. Inv /\ [Next]_vars => Inv'
  BY SoundStep, HeldStep, OneLoadStep, WaitsStep, OwnedStep
<1>3. Inv => OwnEvents
  <2> SUFFICES ASSUME Inv, ~stray, runId # NoRun
               PROVE  \A e \in Range(evs \o pending) : e[1] = runId
    BY DEF OwnEvents
  <2>1. Range(evs \o pending) = Members(evs) \cup Members(pending)
    BY MembersConcat, RangeMembers DEF Sound, Shaped
  <2> QED BY <2>1 DEF Owned, OwnedBy
<1> QED BY <1>1, <1>2, <1>3, PTL DEF Spec

=============================================================================
