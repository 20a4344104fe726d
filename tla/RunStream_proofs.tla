-------------------------- MODULE RunStream_proofs --------------------------
(***************************************************************************)
(* Proofs about RunStream for every set of connections and publishers and  *)
(* every length of the buffer and the run.                                 *)
(***************************************************************************)
EXTENDS RunStream, FiniteSetTheorems, TLAPS

\* All that the induction needs of the types.
Counted == subs \in Nat /\ hand = [c \in Clients |-> hand[c]]
Serving == Counted /\ Served

LEMMA NobodyToRemove ==
    ASSUME NEW S, Disconnect(S), conns = <<>>
    PROVE  conns' = <<>>
BY DEF Disconnect, Members

LEMMA NobodyStale ==
    ASSUME NEW to, NEW F, DisconnectStale(to, F), conns = <<>>
    PROVE  conns' = <<>>
BY NobodyToRemove DEF DisconnectStale

\* A step that only lets clients go, or leaves connections as they are, serves
\* those who stay.
LEMMA ServedWhoStays ==
    ASSUME Serving, conns = <<>> => conns' = <<>>, UNCHANGED <<subs, hb>>,
           hand' = [c \in Clients |-> hand'[c]],
           \A c \in Clients : hand[c].pc = "replay" => hand'[c].pc = "replay"
    PROVE  Serving'
BY DEF Serving, Counted, Served

LEMMA HandlerRecords ==
    /\ Off.pc = "off" /\ Gone.pc = "gone"
BY DEF Off, Gone

\* Whoever registers a callback provides for everybody.
LEMMA RegisterServes ==
    ASSUME Counted, NEW c \in Clients, NEW n, Register(c, n)
    PROVE  Serving'
<1>1. subs' \in Nat /\ subs' > 0 /\ hb'
  BY DEF Counted, Register
<1>2. hand' = [d \in Clients |-> hand'[d]]
  BY DEF Counted, Register
<1> QED
  BY <1>1, <1>2 DEF Serving, Counted, Served

\* Whoever is being replayed to answers for everybody.
LEMMA ReplayServes ==
    ASSUME Counted, NEW c \in Clients, NEW e, NEW n, Replay(c, e, n)
    PROVE  Serving'
<1> DEFINE here == [Off EXCEPT !.pc = "replay", !.ev = e, !.last = n, !.to = conns']
<1>1. hand'[c].pc = "replay"
  <2>1. hand'[c] = here
    BY DEF Counted, Replay
  <2>2. here.pc = "replay"
    BY DEF Off
  <2> QED
    BY <2>1, <2>2
<1>2. Counted'
  BY DEF Counted, Replay
<1>3. Served'
  BY <1>1 DEF Served
<1> QED
  BY <1>2, <1>3 DEF Serving

LEMMA ServingInit == Init => Serving
BY HandlerRecords DEF Init, Serving, Counted, Served

LEMMA ServingStep ==
    ASSUME Serving, [Next]_vars
    PROVE  Serving'
<1> USE DEF Serving
<1>1. ASSUME NEW p \in Publishers, Publish(p)
      PROVE  Serving'
  BY <1>1, ServedWhoStays DEF Publish, Counted
<1>2. ASSUME NEW p \in Publishers, BroadcastStep(p)
      PROVE  Serving'
  <2>1. PICK k \in DOMAIN pub[p] : Begin(p, k) \/ End(p, k)
    BY <1>2 DEF BroadcastStep
  <2>2. CASE Begin(p, k)
    BY <2>2, ServedWhoStays DEF Begin, Counted
  <2>3. CASE End(p, k)
    <3>1. conns = <<>> => conns' = <<>>
      BY <2>3, NobodyStale DEF End
    <3>2. UNCHANGED <<subs, hand, hb>>
      BY <2>3 DEF End
    <3> QED
      BY <3>1, <3>2, ServedWhoStays DEF Counted
  <2> QED
    BY <2>1, <2>2, <2>3
<1>3. ASSUME NEW c \in Clients, ConnectFirst(c)
      PROVE  Serving'
  BY <1>3, RegisterServes, ReplayServes DEF ConnectFirst
<1>4. ASSUME NEW c \in Clients, ConnectLater(c)
      PROVE  Serving'
  <2>1. hand' = [d \in Clients |-> hand'[d]]
    BY <1>4 DEF ConnectLater, Counted
  <2>2. \A d \in Clients : hand[d].pc = "replay" => hand'[d].pc = "replay"
    BY <1>4 DEF ConnectLater, Counted
  <2> QED
    BY <1>4, <2>1, <2>2, ServedWhoStays DEF ConnectLater
<1>5. ASSUME NEW c \in Clients, Leave(c)
      PROVE  Serving'
  BY <1>5, ServedWhoStays DEF Leave, Counted
<1>6. ASSUME NEW c \in Clients, ReplayEnd(c)
      PROVE  Serving'
  BY <1>6, RegisterServes, ReplayServes DEF ReplayEnd
<1>7. ASSUME NEW c \in Clients, Unlock(c)
      PROVE  Serving'
  <2>1. hand' = [d \in Clients |-> hand'[d]]
    BY <1>7 DEF Unlock, Counted
  <2>2. \A d \in Clients : hand[d].pc = "replay" => hand'[d].pc = "replay"
    BY <1>7 DEF Unlock, Counted
  <2> QED
    BY <1>7, <2>1, <2>2, ServedWhoStays DEF Unlock
<1>8. ASSUME NEW c \in Clients, Receive(c)
      PROVE  Serving'
  <2>1. hand' = [d \in Clients |-> hand'[d]]
    BY <1>8 DEF Receive, Counted
  <2>2. \A d \in Clients : hand[d].pc = "replay" => hand'[d].pc = "replay"
    BY <1>8 DEF Receive, Counted
  <2>3. conns = <<>> => conns' = <<>>
    BY <1>8, NobodyToRemove DEF Receive
  <2> QED
    BY <1>8, <2>1, <2>2, <2>3, ServedWhoStays DEF Receive
<1>9. CASE Heartbeat
  <2>1. conns = <<>> => conns' = <<>>
    BY <1>9, NobodyToRemove DEF Heartbeat
  <2>2. UNCHANGED <<subs, hand, hb>>
    BY <1>9 DEF Heartbeat
  <2> QED
    BY <2>1, <2>2, ServedWhoStays DEF Counted
<1>10. CASE CleanupStep
  \* The second look: nobody is connected when the callbacks go.
  <2>1. PICK k \in DOMAIN clean : Cleanup(k)
    BY <1>10 DEF CleanupStep
  <2>2. CASE Reconnected
    BY <2>1, <2>2, ServedWhoStays DEF Cleanup, Counted
  <2>3. CASE ~Reconnected
    <3>1. conns' = <<>> /\ subs' \in Nat /\ hand' = hand
      BY <2>1, <2>3 DEF Cleanup, Reconnected, Unsubscribed
    <3> QED
      BY <3>1 DEF Counted, Served
  <2> QED
    BY <2>2, <2>3
<1>11. CASE UNCHANGED vars
  BY <1>11, ServedWhoStays DEF vars, Counted
<1> QED
  BY <1>1, <1>2, <1>3, <1>4, <1>5, <1>6, <1>7, <1>8, <1>9, <1>10, <1>11
  DEF Next, HandlerStep

\* Whoever is connected has a callback on the bus and a heartbeat, unless
\* somebody is still being replayed to: however many connections there are,
\* and however connect(), the broadcasts and the delayed clean-ups interleave.
THEOREM ServedHolds == Spec => []Served
<1>1. Serving /\ [Next]_vars => Serving'
  BY ServingStep
<1>2. Serving => Served
  BY DEF Serving
<1> QED
  BY ServingInit, <1>1, <1>2, PTL DEF Spec

-----------------------------------------------------------------------------
(* Types.                                                                  *)

Cleaning == [lock : Nat, done : BOOLEAN]

LEMMA OffTyped == Off \in Handler /\ Gone \in Handler
<1>1. <<>> \in Seq(Clients) /\ {} \in SUBSET Nat
  OBVIOUS
<1>2. Off \in Handler
  BY <1>1 DEF Off, Handler
<1> QED
  BY <1>2 DEF Gone, Handler

\* A send adds one event to what the open ones of its list have seen.
LEMMA SendTyped ==
    ASSUME seen \in [Clients -> Seq(Nat)], NEW e \in Nat, NEW to, Send(e, to)
    PROVE  /\ seen' \in [Clients -> Seq(Nat)]
           /\ \A c \in Clients : Members(seen[c]) \subseteq Members(seen'[c])
           /\ \A c \in Members(to) \cap Clients :
                 sock'[c] = "open" => e \in Members(seen'[c])
<1>1. \A c \in Clients : seen'[c] = IF c \in Members(to) /\ sock'[c] = "open"
                                   THEN Append(seen[c], e) ELSE seen[c]
  BY DEF Send
<1>2. \A c \in Clients : seen[c] \in Seq(Nat)
  OBVIOUS
<1>3. \A c \in Clients : /\ Append(seen[c], e) \in Seq(Nat)
                         /\ Members(Append(seen[c], e)) = Members(seen[c]) \cup {e}
  BY <1>2, MembersAppend
<1>4. seen' = [c \in Clients |-> seen'[c]]
  BY DEF Send
<1>5. \A c \in Clients : seen'[c] \in Seq(Nat)
  BY <1>1, <1>2, <1>3
<1> QED
  BY <1>1, <1>3, <1>4, <1>5

\* disconnect() only takes connections away.
LEMMA DisconnectTyped ==
    ASSUME conns \in Seq(Clients), clean \in Seq(Cleaning), lock \in Nat,
           NEW S, Disconnect(S)
    PROVE  /\ conns' \in Seq(Clients) /\ clean' \in Seq(Cleaning) /\ lock' \in Nat
           /\ Members(conns') \subseteq Members(conns)
<1>1. Without(conns, S) \in Seq(Clients) /\ Members(Without(conns, S)) \subseteq Members(conns)
  BY WithoutMembers
<1>2. conns' \in Seq(Clients) /\ Members(conns') \subseteq Members(conns)
  BY <1>1 DEF Disconnect
<1>3. CASE LastGone(conns')
  <2>1. lock' = (IF lock = 0 THEN Len(clean) + 1 ELSE lock)
        /\ clean' = Append(clean, [lock |-> lock', done |-> FALSE])
    BY <1>3 DEF Disconnect
  <2>2. lock' \in Nat
    BY <2>1
  <2>3. [lock |-> lock', done |-> FALSE] \in Cleaning
    BY <2>2 DEF Cleaning
  <2> QED
    BY <1>2, <2>1, <2>2, <2>3
<1>4. CASE ~LastGone(conns')
  BY <1>2, <1>4 DEF Disconnect
<1> QED
  BY <1>3, <1>4

LEMMA DisconnectStaleTyped ==
    ASSUME conns \in Seq(Clients), clean \in Seq(Cleaning), lock \in Nat,
           NEW to, NEW F, DisconnectStale(to, F)
    PROVE  /\ conns' \in Seq(Clients) /\ clean' \in Seq(Cleaning) /\ lock' \in Nat
           /\ Members(conns') \subseteq Members(conns)
BY DisconnectTyped DEF DisconnectStale

LEMMA RegisterTyped ==
    ASSUME TypeOK, NEW c \in Clients, NEW n \in Nat, Register(c, n)
    PROVE  /\ subs' \in Nat /\ hb' \in BOOLEAN /\ hand' \in [Clients -> Handler]
           /\ seen' = seen
           /\ hand' = [hand EXCEPT ![c] = hand'[c]]
           /\ hand'[c].pc \in {"lock", "recv", "gone"}
<1> DEFINE ahead == {k \in DOMAIN clean : lock # 0 /\ clean[k].lock = lock}
           pc == IF ahead # {} THEN "lock" ELSE "recv"
           here == [Off EXCEPT !.last = n, !.ahead = ahead, !.pc = pc]
           new == IF ahead = {} /\ conns' = <<>> THEN Gone ELSE here
<1>1. ahead \in SUBSET Nat
  BY DEF TypeOK
<1>2. hand' = [hand EXCEPT ![c] = new] /\ subs' = subs + 1 /\ hb' = TRUE /\ seen' = seen
  BY DEF Register
<1>3. pc \in {"lock", "recv"}
  OBVIOUS
<1> HIDE DEF ahead, pc
<1>4. here \in Handler /\ here.pc \in {"lock", "recv"}
  BY <1>1, <1>3, OffTyped DEF Handler
<1> HIDE DEF here
<1>5. new \in Handler /\ new.pc \in {"lock", "recv", "gone"}
  BY <1>4, OffTyped, HandlerRecords
<1> HIDE DEF new
<1> QED
  BY <1>2, <1>5 DEF TypeOK

LEMMA ReplayTyped ==
    ASSUME TypeOK, NEW c \in Clients, NEW e \in Nat, NEW n \in Nat, Replay(c, e, n),
           conns' \in Seq(Clients)
    PROVE  /\ subs' \in Nat /\ hb' \in BOOLEAN /\ hand' \in [Clients -> Handler]
           /\ seen' \in [Clients -> Seq(Nat)]
           /\ hand' = [hand EXCEPT ![c] = hand'[c]]
           /\ hand'[c].pc = "replay" /\ hand'[c].ev = e /\ hand'[c].last = n
<1> DEFINE here == [Off EXCEPT !.pc = "replay", !.ev = e, !.last = n, !.to = conns']
<1>1. hand' = [hand EXCEPT ![c] = here] /\ subs' = subs /\ hb' = hb /\ Send(e, conns')
  BY DEF Replay
<1>2. here \in Handler /\ here.pc = "replay" /\ here.ev = e /\ here.last = n
  BY OffTyped DEF Handler
<1> HIDE DEF here
<1> QED
  BY <1>1, <1>2, SendTyped DEF TypeOK

LEMMA TypeInit == Init => TypeOK
<1>1. <<>> \in Seq(Clients) /\ <<>> \in Seq(Nat) /\ <<>> \in Seq(Cleaning)
      /\ <<>> \in Seq(Broadcast)
  OBVIOUS
<1> SUFFICES ASSUME Init PROVE TypeOK
  OBVIOUS
<1>2. pub \in [Publishers -> Seq(Broadcast)] /\ hand \in [Clients -> Handler]
  BY <1>1, OffTyped DEF Init
<1>3. seen \in [Clients -> Seq(Nat)] /\ due \in [Clients -> SUBSET Nat]
      /\ sock \in [Clients -> {"new", "open", "dead"}]
  BY <1>1 DEF Init
<1>4. clean \in Seq(Cleaning) /\ conns \in Seq(Clients)
  BY <1>1 DEF Init
<1> QED
  BY <1>2, <1>3, <1>4 DEF Init, TypeOK, Cleaning

LEMMA PublishTyped ==
    ASSUME TypeOK, NEW p \in Publishers, Publish(p)
    PROVE  TypeOK'
<1> DEFINE calls == [k \in 1..subs |-> [pc |-> "ready", ev |-> published', to |-> <<>>]]
<1>1. published' \in Nat
  BY DEF TypeOK, Publish
<1>2. <<>> \in Seq(Clients)
  OBVIOUS
<1>3. [pc |-> "ready", ev |-> published', to |-> <<>>] \in Broadcast
  BY <1>1, <1>2 DEF Broadcast
<1>4. calls \in Seq(Broadcast)
  BY <1>3 DEF TypeOK
<1>5. pub' = [pub EXCEPT ![p] = calls]
  BY DEF Publish
<1> HIDE DEF calls
<1>6. pub' \in [Publishers -> Seq(Broadcast)]
  BY <1>4, <1>5 DEF TypeOK
<1>7. due' \in [Clients -> SUBSET Nat]
  <2>1. \A c \in Clients : due'[c] \in SUBSET Nat
    BY <1>1 DEF TypeOK, Publish
  <2>2. due' = [c \in Clients |-> due'[c]]
    BY DEF Publish
  <2> QED
    BY <2>1, <2>2
<1> QED
  BY <1>1, <1>6, <1>7 DEF TypeOK, Publish

\* A broadcast that goes on, and the others that do not.
LEMMA BroadcastTyped ==
    ASSUME TypeOK, NEW p \in Publishers, NEW k \in DOMAIN pub[p],
           NEW pc \in {"sending", "done"}, NEW to \in Seq(Clients),
           pub' = [pub EXCEPT ![p][k].pc = pc, ![p][k].to = to]
    PROVE  /\ pub' \in [Publishers -> Seq(Broadcast)]
           /\ \A q \in Publishers : \A j \in DOMAIN pub[q] :
                 (q # p \/ j # k) => j \in DOMAIN pub'[q] /\ pub'[q][j] = pub[q][j]
<1>1. pub[p] \in Seq(Broadcast) /\ pub[p][k] \in Broadcast
  BY DEF TypeOK
<1> DEFINE b == [pub[p][k] EXCEPT !.pc = pc, !.to = to]
           row == [pub[p] EXCEPT ![k] = b]
<1>2. b \in Broadcast
  BY <1>1 DEF Broadcast
<1>3. row \in Seq(Broadcast) /\ DOMAIN row = DOMAIN pub[p]
      /\ \A j \in DOMAIN pub[p] : j # k => row[j] = pub[p][j]
  <2> HIDE DEF b
  <2> QED
    BY <1>1, <1>2
<1>4. pub' = [pub EXCEPT ![p] = row]
  BY <1>1 DEF TypeOK
<1> HIDE DEF row
<1> QED
  BY <1>3, <1>4 DEF TypeOK

LEMMA TypeStep ==
    ASSUME TypeOK, [Next]_vars
    PROVE  TypeOK'
<1>1. ASSUME NEW p \in Publishers, Publish(p)
      PROVE  TypeOK'
  BY <1>1, PublishTyped
<1>2. ASSUME NEW p \in Publishers, NEW k \in DOMAIN pub[p], Begin(p, k)
      PROVE  TypeOK'
  <2>1. pub' \in [Publishers -> Seq(Broadcast)]
    <3> DEFINE pc == IF conns = <<>> THEN "done" ELSE "sending"
    <3>1. pc \in {"sending", "done"} /\ conns \in Seq(Clients)
      BY DEF TypeOK
    <3>2. pub' = [pub EXCEPT ![p][k].pc = pc, ![p][k].to = conns]
      BY <1>2 DEF Begin
    <3> HIDE DEF pc
    <3> QED
      BY <3>1, <3>2, BroadcastTyped
  <2>2. pub[p][k].ev \in Nat
    <3>1. pub[p][k] \in Broadcast
      BY DEF TypeOK
    <3> QED
      BY <3>1 DEF Broadcast
  <2>3. seen' \in [Clients -> Seq(Nat)]
    BY <1>2, <2>2, SendTyped DEF Begin, TypeOK
  <2> QED
    BY <1>2, <2>1, <2>3 DEF Begin, TypeOK
<1>3. ASSUME NEW p \in Publishers, NEW k \in DOMAIN pub[p], End(p, k)
      PROVE  TypeOK'
  <2>1. pub' \in [Publishers -> Seq(Broadcast)]
    <3>1. <<>> \in Seq(Clients)
      OBVIOUS
    <3> QED
      BY <1>3, <3>1, BroadcastTyped DEF End
  <2>2. conns' \in Seq(Clients) /\ clean' \in Seq(Cleaning) /\ lock' \in Nat
    BY <1>3, DisconnectStaleTyped DEF End, TypeOK, Cleaning
  <2> QED
    BY <1>3, <2>1, <2>2 DEF End, TypeOK, Cleaning
<1>4. ASSUME NEW c \in Clients, ConnectFirst(c)
      PROVE  TypeOK'
  <2>1. conns' \in Seq(Clients)
    BY <1>4 DEF ConnectFirst
  <2>2. /\ subs' \in Nat /\ hb' \in BOOLEAN /\ hand' \in [Clients -> Handler]
        /\ seen' \in [Clients -> Seq(Nat)]
    <3>1. CASE published = 0
      BY <1>4, <3>1, RegisterTyped DEF ConnectFirst, TypeOK
    <3>2. CASE published # 0
      <4>1. Oldest(published) \in Nat /\ published \in Nat
        BY StreamConstants DEF TypeOK, Oldest
      <4> QED
        BY <1>4, <2>1, <3>2, <4>1, ReplayTyped DEF ConnectFirst
    <3> QED
      BY <3>1, <3>2
  <2>3. due' \in [Clients -> SUBSET Nat]
    BY <1>4 DEF ConnectFirst, TypeOK
  <2> QED
    BY <1>4, <2>1, <2>2, <2>3 DEF ConnectFirst, TypeOK
<1>5. ASSUME NEW c \in Clients, ConnectLater(c)
      PROVE  TypeOK'
  <2>1. [Off EXCEPT !.pc = "recv", !.last = published] \in Handler
    BY OffTyped DEF Handler, TypeOK
  <2>2. hand' \in [Clients -> Handler]
    BY <1>5, <2>1 DEF ConnectLater, TypeOK
  <2>3. conns' \in Seq(Clients)
    BY <1>5 DEF ConnectLater, TypeOK
  <2> QED
    BY <1>5, <2>2, <2>3 DEF ConnectLater, TypeOK
<1>6. ASSUME NEW c \in Clients, Leave(c)
      PROVE  TypeOK'
  <2>1. <<>> \in Seq(Nat) /\ {} \in SUBSET Nat
    OBVIOUS
  <2>2. seen' \in [Clients -> Seq(Nat)] /\ due' \in [Clients -> SUBSET Nat]
    BY <1>6, <2>1 DEF Leave, TypeOK
  <2> QED
    BY <1>6, <2>2 DEF Leave, TypeOK
<1>7. ASSUME NEW c \in Clients, ReplayEnd(c)
      PROVE  TypeOK'
  <2>1. conns' \in Seq(Clients) /\ clean' \in Seq(Cleaning) /\ lock' \in Nat
    BY <1>7, DisconnectStaleTyped DEF ReplayEnd, TypeOK, Cleaning
  <2>2. hand[c].ev \in Nat /\ hand[c].last \in Nat
    BY DEF TypeOK, Handler
  <2>3. hand[c].ev + 1 \in Nat
    BY <2>2
  <2>4. /\ subs' \in Nat /\ hb' \in BOOLEAN /\ hand' \in [Clients -> Handler]
        /\ seen' \in [Clients -> Seq(Nat)]
    <3>1. CASE Register(c, hand[c].last)
      BY <2>2, <3>1, RegisterTyped DEF TypeOK
    <3>2. CASE Replay(c, hand[c].ev + 1, hand[c].last)
      BY <2>1, <2>2, <2>3, <3>2, ReplayTyped
    <3> QED
      BY <1>7, <3>1, <3>2 DEF ReplayEnd
  <2> QED
    BY <1>7, <2>1, <2>4 DEF ReplayEnd, TypeOK, Cleaning
<1>8. ASSUME NEW c \in Clients, Unlock(c)
      PROVE  TypeOK'
  <2>1. hand[c].last \in Nat
    BY DEF TypeOK, Handler
  <2>2. [Off EXCEPT !.pc = "recv", !.last = hand[c].last] \in Handler
    BY <2>1, OffTyped DEF Handler
  <2>3. hand' \in [Clients -> Handler]
    BY <1>8, <2>2, OffTyped DEF Unlock, TypeOK
  <2> QED
    BY <1>8, <2>3 DEF Unlock, TypeOK
<1>9. ASSUME NEW c \in Clients, Receive(c)
      PROVE  TypeOK'
  <2>1. conns' \in Seq(Clients) /\ clean' \in Seq(Cleaning) /\ lock' \in Nat
    BY <1>9, DisconnectTyped DEF Receive, TypeOK, Cleaning
  <2>2. hand' \in [Clients -> Handler]
    BY <1>9, OffTyped DEF Receive, TypeOK
  <2> QED
    BY <1>9, <2>1, <2>2 DEF Receive, TypeOK, Cleaning
<1>10. CASE Heartbeat
  <2>1. conns' \in Seq(Clients) /\ clean' \in Seq(Cleaning) /\ lock' \in Nat
    BY <1>10, DisconnectTyped DEF Heartbeat, TypeOK, Cleaning
  <2> QED
    BY <1>10, <2>1 DEF Heartbeat, TypeOK, Cleaning
<1>11. CASE CleanupStep
  <2>1. PICK k \in DOMAIN clean : Cleanup(k)
    BY <1>11 DEF CleanupStep
  <2>2. Released(k) \in Cleaning
    BY DEF Released, Cleaning
  <2>3. clean' \in Seq(Cleaning)
    BY <2>1, <2>2 DEF Cleanup, TypeOK, Cleaning
  <2>4. subs' \in Nat /\ hb' \in BOOLEAN /\ lock' \in Nat
    <3>1. CASE Reconnected
      BY <2>1, <3>1 DEF Cleanup, TypeOK
    <3>2. CASE ~Reconnected
      <4>1. subs' = 0 /\ hb' = FALSE /\ lock' = 0
        BY <2>1, <3>2 DEF Cleanup, Unsubscribed
      <4> QED
        BY <4>1
    <3> QED
      BY <3>1, <3>2
  <2> QED
    BY <2>1, <2>3, <2>4 DEF Cleanup, TypeOK, Cleaning
<1>12. CASE UNCHANGED vars
  BY <1>12 DEF vars, TypeOK
<1> QED
  BY <1>1, <1>2, <1>3, <1>4, <1>5, <1>6, <1>7, <1>8, <1>9, <1>10, <1>11, <1>12
  DEF Next, BroadcastStep, HandlerStep

\* Every variable keeps its type, for all connections, publishers and lengths.
THEOREM TypeCorrect == Spec => []TypeOK
BY TypeInit, TypeStep, PTL DEF Spec

-----------------------------------------------------------------------------
(* Delivery.  Delivered says too little of a replay to be inductive: when  *)
(* the replay of a buffer ends, what is still outstanding must have been   *)
(* published since it began, and so be in a broadcast that is to start.    *)

\* A broadcast of e has yet to start.
Outstanding(e) ==
    \E p \in Publishers : \E k \in DOMAIN pub[p] :
        pub[p][k].pc = "ready" /\ pub[p][k].ev = e
\* e is among the events that c's replay has not reached.
Ahead(c, e) == hand[c].pc = "replay" /\ hand[c].ev < e /\ e <= hand[c].last
Got(c) == \A e \in due[c] : e \in Members(seen[c]) \/ Ahead(c, e) \/ Outstanding(e)
\* Nothing is owed to a connection that has not come.
Fresh(c) == hand[c].pc = "off" => due[c] = {} /\ c \notin Members(conns)
Delivering ==
    \A c \in Clients : Fresh(c) /\ (c \in Members(conns) /\ sock[c] = "open" => Got(c))

LEMMA DeliveringInit == Init => Delivering
BY DEF Init, Delivering, Fresh, Got, Members

LEMMA DeliveringDelivers == TypeOK /\ Delivering => Delivered
<1> SUFFICES ASSUME TypeOK, Delivering, NEW c \in Members(conns), sock[c] = "open",
                    NEW e \in due[c]
             PROVE  \/ e \in Members(seen[c])
                    \/ hand[c].pc = "replay" /\ e > hand[c].ev
                    \/ Outstanding(e)
  BY DEF Delivered, Outstanding
<1>1. c \in Clients
  BY DEF TypeOK, Members
<1>2. e \in Nat /\ hand[c].ev \in Nat
  <2>1. hand[c] \in Handler /\ due[c] \in SUBSET Nat
    BY <1>1 DEF TypeOK
  <2> QED
    BY <2>1 DEF Handler
<1>3. Got(c)
  BY <1>1 DEF Delivering
<1> QED
  BY <1>2, <1>3 DEF Got, Ahead

\* A step that takes nothing back from c: the broadcasts that it starts reach
\* whoever is connected.
LEMMA NothingLost ==
    ASSUME Delivering, NEW c \in Clients,
           hand'[c] = hand[c] \/ (hand'[c].pc # "off" /\ hand[c].pc # "replay"),
           c \in Members(conns') => c \in Members(conns),
           sock'[c] = "open" => sock[c] = "open",
           due'[c] = due[c], Members(seen[c]) \subseteq Members(seen'[c]),
           \A e \in due[c] : c \in Members(conns) /\ sock[c] = "open" /\ Outstanding(e)
                                => Outstanding(e)' \/ e \in Members(seen'[c])
    PROVE  Fresh(c)' /\ (c \in Members(conns') /\ sock'[c] = "open" => Got(c)')
<1>1. Fresh(c)'
  BY DEF Delivering, Fresh
<1>2. ASSUME c \in Members(conns'), sock'[c] = "open"
      PROVE  Got(c)'
  <2>1. Got(c)
    BY <1>2 DEF Delivering
  <2>2. ASSUME NEW e \in due[c]
        PROVE  e \in Members(seen'[c]) \/ Ahead(c, e)' \/ Outstanding(e)'
    BY <1>2, <2>1, <2>2 DEF Got, Ahead
  <2> QED
    BY <2>2 DEF Got
<1> QED
  BY <1>1, <1>2

\* Broadcasts that are not touched stay outstanding.
LEMMA StillOutstanding ==
    ASSUME NEW e, pub' = pub
    PROVE  Outstanding(e)' <=> Outstanding(e)
BY DEF Outstanding

LEMMA PublishDelivers ==
    ASSUME TypeOK, Delivering, NEW p \in Publishers, Publish(p)
    PROVE  Delivering'
<1>1. PICK new \in Nat : new = published'
  BY DEF TypeOK, Publish
<1>2. ASSUME NEW e, Outstanding(e)
      PROVE  Outstanding(e)'
  <2>1. PICK q \in Publishers : \E k \in DOMAIN pub[q] :
              pub[q][k].pc = "ready" /\ pub[q][k].ev = e
    BY <1>2 DEF Outstanding
  <2>2. q # p
    BY <2>1 DEF Publish, Returned
  <2>3. pub'[q] = pub[q]
    BY <2>2 DEF Publish, TypeOK
  <2> QED
    BY <2>1, <2>3 DEF Outstanding
<1>3. subs > 0 => Outstanding(new)'
  <2> SUFFICES ASSUME subs > 0 PROVE Outstanding(new)'
    OBVIOUS
  <2>1. pub'[p] = [k \in 1..subs |-> [pc |-> "ready", ev |-> new, to |-> <<>>]]
    BY <1>1 DEF Publish, TypeOK
  <2>2. 1 \in DOMAIN pub'[p] /\ pub'[p][1].pc = "ready" /\ pub'[p][1].ev = new
    BY <2>1 DEF TypeOK
  <2> QED
    BY <2>2 DEF Outstanding
<1>4. ASSUME NEW c \in Clients
      PROVE  Fresh(c)' /\ (c \in Members(conns') /\ sock'[c] = "open" => Got(c)')
  <2>1. UNCHANGED <<conns, sock, hand, seen>>
    BY DEF Publish
  <2>2. due'[c] = IF subs > 0 /\ c \in Members(conns) THEN due[c] \cup {new} ELSE due[c]
    BY <1>1 DEF Publish
  <2>3. Fresh(c)'
    BY <2>1, <2>2 DEF Fresh, Delivering
  <2>4. ASSUME c \in Members(conns), sock[c] = "open", NEW e \in due'[c]
        PROVE  e \in Members(seen'[c]) \/ Ahead(c, e)' \/ Outstanding(e)'
    <3>1. CASE e \in due[c]
      BY <2>1, <2>4, <3>1, <1>2 DEF Delivering, Got, Ahead
    <3>2. CASE e = new /\ subs > 0
      BY <1>3, <3>2
    <3> QED
      BY <2>2, <2>4, <3>1, <3>2
  <2> QED
    BY <2>1, <2>3, <2>4 DEF Got
<1> QED
  BY <1>4 DEF Delivering

\* A broadcast that starts reaches every open connection.
LEMMA BeginDelivers ==
    ASSUME TypeOK, Delivering, NEW p \in Publishers, NEW k \in DOMAIN pub[p], Begin(p, k)
    PROVE  Delivering'
<1> DEFINE pc == IF conns = <<>> THEN "done" ELSE "sending"
<1>1. /\ pc \in {"sending", "done"} /\ conns \in Seq(Clients)
      /\ pub' = [pub EXCEPT ![p][k].pc = pc, ![p][k].to = conns]
  BY DEF Begin, TypeOK
<1> HIDE DEF pc
<1>2. \A q \in Publishers : \A j \in DOMAIN pub[q] :
         (q # p \/ j # k) => j \in DOMAIN pub'[q] /\ pub'[q][j] = pub[q][j]
  BY <1>1, BroadcastTyped
<1>3. pub[p][k].ev \in Nat
  <2>1. pub[p][k] \in Broadcast
    BY DEF TypeOK
  <2> QED
    BY <2>1 DEF Broadcast
<1>4. /\ UNCHANGED <<conns, sock, hand, due>>
      /\ Send(pub[p][k].ev, conns)
  BY DEF Begin
<1>5. /\ \A c \in Clients : Members(seen[c]) \subseteq Members(seen'[c])
      /\ \A c \in Members(conns) \cap Clients :
            sock'[c] = "open" => pub[p][k].ev \in Members(seen'[c])
  BY <1>3, <1>4, SendTyped DEF TypeOK
<1>6. ASSUME NEW c \in Clients, NEW e \in due[c], c \in Members(conns), sock[c] = "open",
             Outstanding(e)
      PROVE  Outstanding(e)' \/ e \in Members(seen'[c])
  <2>1. PICK q \in Publishers : \E j \in DOMAIN pub[q] :
              pub[q][j].pc = "ready" /\ pub[q][j].ev = e
    BY <1>6 DEF Outstanding
  <2>2. PICK j \in DOMAIN pub[q] : pub[q][j].pc = "ready" /\ pub[q][j].ev = e
    BY <2>1
  <2>3. CASE q = p /\ j = k
    BY <1>4, <1>5, <1>6, <2>2, <2>3
  <2>4. CASE q # p \/ j # k
    BY <1>2, <2>2, <2>4 DEF Outstanding
  <2> QED
    BY <2>3, <2>4
<1>7. ASSUME NEW c \in Clients
      PROVE  Fresh(c)' /\ (c \in Members(conns') /\ sock'[c] = "open" => Got(c)')
  <2>1. /\ hand'[c] = hand[c] /\ due'[c] = due[c]
        /\ c \in Members(conns') => c \in Members(conns)
        /\ sock'[c] = "open" => sock[c] = "open"
        /\ Members(seen[c]) \subseteq Members(seen'[c])
    BY <1>4, <1>5
  <2> QED
    BY <2>1, <1>6, NothingLost
<1> QED
  BY <1>7 DEF Delivering

\* The end of a broadcast touches no other, and can only take connections away.
LEMMA EndDelivers ==
    ASSUME TypeOK, Delivering, NEW p \in Publishers, NEW k \in DOMAIN pub[p], End(p, k)
    PROVE  Delivering'
<1>1. <<>> \in Seq(Clients)
  OBVIOUS
<1>2. \A q \in Publishers : \A j \in DOMAIN pub[q] :
         (q # p \/ j # k) => j \in DOMAIN pub'[q] /\ pub'[q][j] = pub[q][j]
  BY <1>1, BroadcastTyped DEF End
<1>3. pub[p][k].pc = "sending" /\ UNCHANGED <<sock, hand, seen, due>>
  BY DEF End
<1>4. Members(conns') \subseteq Members(conns)
  BY DisconnectStaleTyped DEF End, TypeOK, Cleaning
<1>5. ASSUME NEW e, Outstanding(e)
      PROVE  Outstanding(e)'
  <2>1. PICK q \in Publishers : \E j \in DOMAIN pub[q] :
              pub[q][j].pc = "ready" /\ pub[q][j].ev = e
    BY <1>5 DEF Outstanding
  <2>2. PICK j \in DOMAIN pub[q] : pub[q][j].pc = "ready" /\ pub[q][j].ev = e
    BY <2>1
  <2> QED
    BY <1>2, <1>3, <2>2 DEF Outstanding
<1>6. ASSUME NEW c \in Clients
      PROVE  Fresh(c)' /\ (c \in Members(conns') /\ sock'[c] = "open" => Got(c)')
  <2>1. /\ hand'[c] = hand[c] /\ due'[c] = due[c]
        /\ c \in Members(conns') => c \in Members(conns)
        /\ sock'[c] = "open" => sock[c] = "open"
        /\ Members(seen[c]) \subseteq Members(seen'[c])
    BY <1>3, <1>4
  <2> QED
    BY <2>1, <1>5, NothingLost
<1> QED
  BY <1>6 DEF Delivering

\* The first connection is owed the buffer, and is replayed all of it.
LEMMA ConnectFirstDelivers ==
    ASSUME TypeOK, Delivering, NEW c \in Clients, ConnectFirst(c)
    PROVE  Delivering'
<1>1. /\ conns' = <<c>> /\ pub' = pub
      /\ sock' = [sock EXCEPT ![c] = "open"]
      /\ due' = [due EXCEPT ![c] = {e \in 1..published : e > published - MAX_BUFFER}]
  BY DEF ConnectFirst
<1>2. Members(conns') = {c} /\ conns' \in Seq(Clients)
  BY <1>1 DEF Members
<1>3. /\ \A d \in Clients : Members(seen[d]) \subseteq Members(seen'[d])
      /\ \A d \in Clients \ {c} : hand'[d] = hand[d]
      /\ hand'[c].pc # "off"
      /\ sock'[c] = "open" => \A e \in due'[c] : e \in Members(seen'[c]) \/ Ahead(c, e)'
  <2>1. CASE published = 0
    <3>1. Register(c, 0)
      BY <2>1 DEF ConnectFirst
    <3>2. hand' = [hand EXCEPT ![c] = hand'[c]] /\ hand'[c].pc # "off" /\ seen' = seen
      BY <3>1, RegisterTyped
    <3>3. due'[c] = {}
      BY <1>1, <2>1 DEF TypeOK
    <3> QED
      BY <3>2, <3>3 DEF TypeOK
  <2>2. CASE published # 0
    <3>1. Replay(c, Oldest(published), published)
      BY <2>2 DEF ConnectFirst
    <3>2. published \in Nat /\ Oldest(published) \in Nat
      BY StreamConstants DEF TypeOK, Oldest
    <3>3. /\ hand' = [hand EXCEPT ![c] = hand'[c]] /\ hand'[c].pc = "replay"
          /\ hand'[c].ev = Oldest(published) /\ hand'[c].last = published
      BY <1>2, <3>1, <3>2, ReplayTyped
    <3>4. Send(Oldest(published), conns')
      BY <3>1 DEF Replay
    <3>5. /\ \A d \in Clients : Members(seen[d]) \subseteq Members(seen'[d])
          /\ sock'[c] = "open" => Oldest(published) \in Members(seen'[c])
      BY <1>2, <3>2, <3>4, SendTyped DEF TypeOK
    <3>6. ASSUME NEW e \in due'[c]
          PROVE  e = Oldest(published) \/ (Oldest(published) < e /\ e <= published)
      <4>1. e \in 1..published /\ e > published - MAX_BUFFER
        BY <1>1, <3>6 DEF TypeOK
      <4> QED
        BY <4>1, <3>2, StreamConstants DEF Oldest
    <3> QED
      BY <3>3, <3>5, <3>6 DEF Ahead, TypeOK
  <2> QED
    BY <2>1, <2>2
<1>4. ASSUME NEW d \in Clients \ {c}
      PROVE  Fresh(d)' /\ (d \in Members(conns') /\ sock'[d] = "open" => Got(d)')
  BY <1>2, <1>3, <1>1 DEF Delivering, Fresh, TypeOK
<1>5. Fresh(c)' /\ (sock'[c] = "open" => Got(c)')
  BY <1>3 DEF Fresh, Got
<1> QED
  BY <1>4, <1>5 DEF Delivering

\* A later connection is owed nothing yet.
LEMMA ConnectLaterDelivers ==
    ASSUME TypeOK, Delivering, NEW c \in Clients, ConnectLater(c)
    PROVE  Delivering'
<1>1. /\ hand[c].pc = "off" /\ conns' = Append(conns, c)
      /\ sock' = [sock EXCEPT ![c] = "open"]
      /\ hand' = [hand EXCEPT ![c] = [Off EXCEPT !.pc = "recv", !.last = published]]
      /\ UNCHANGED <<pub, seen, due>>
  BY DEF ConnectLater
<1>2. Members(conns') = Members(conns) \cup {c}
  BY <1>1, MembersAppend DEF TypeOK
<1>3. hand'[c].pc = "recv"
  <2>1. [Off EXCEPT !.pc = "recv", !.last = published].pc = "recv"
    BY DEF Off
  <2> QED
    BY <1>1, <2>1 DEF TypeOK
<1>4. Fresh(c)' /\ Got(c)'
  BY <1>1, <1>3 DEF Delivering, Fresh, Got
<1>5. ASSUME NEW d \in Clients \ {c}
      PROVE  Fresh(d)' /\ (d \in Members(conns') /\ sock'[d] = "open" => Got(d)')
  <2>1. hand'[d] = hand[d] /\ sock'[d] = sock[d]
    BY <1>1 DEF TypeOK
  <2>2. ASSUME NEW e \in due[d], d \in Members(conns), sock[d] = "open", Outstanding(e)
        PROVE  Outstanding(e)' \/ e \in Members(seen'[d])
    BY <1>1, <2>2, StillOutstanding
  <2>3. /\ d \in Members(conns') => d \in Members(conns)
        /\ sock'[d] = "open" => sock[d] = "open"
        /\ due'[d] = due[d] /\ Members(seen[d]) \subseteq Members(seen'[d])
    BY <1>1, <1>2, <2>1
  <2> QED
    BY <2>1, <2>2, <2>3, NothingLost
<1> QED
  BY <1>4, <1>5 DEF Delivering

\* A step that lets clients go, or moves an endpoint on that replays nothing,
\* and leaves the broadcasts alone.
LEMMA QuietDelivers ==
    ASSUME Delivering, UNCHANGED <<pub, seen, due, sock>>,
           Members(conns') \subseteq Members(conns),
           \A c \in Clients : \/ hand'[c] = hand[c]
                              \/ hand'[c].pc # "off" /\ hand[c].pc # "replay"
    PROVE  Delivering'
<1>1. ASSUME NEW c \in Clients
      PROVE  Fresh(c)' /\ (c \in Members(conns') /\ sock'[c] = "open" => Got(c)')
  <2>1. ASSUME NEW e \in due[c], c \in Members(conns), sock[c] = "open", Outstanding(e)
        PROVE  Outstanding(e)' \/ e \in Members(seen'[c])
    BY <2>1, StillOutstanding
  <2>2. /\ c \in Members(conns') => c \in Members(conns)
        /\ sock'[c] = "open" => sock[c] = "open"
        /\ due'[c] = due[c] /\ Members(seen[c]) \subseteq Members(seen'[c])
    OBVIOUS
  <2> QED
    BY <2>1, <2>2, NothingLost
<1> QED
  BY <1>1 DEF Delivering

\* The page that leaves is owed nothing any more.
LEMMA LeaveDelivers ==
    ASSUME TypeOK, Delivering, NEW c \in Clients, Leave(c)
    PROVE  Delivering'
<1>1. /\ sock' = [sock EXCEPT ![c] = "dead"] /\ due' = [due EXCEPT ![c] = {}]
      /\ seen' = [seen EXCEPT ![c] = <<>>] /\ UNCHANGED <<pub, conns, hand>>
  BY DEF Leave
<1>2. Fresh(c)' /\ sock'[c] # "open"
  BY <1>1 DEF Delivering, Fresh, TypeOK
<1>3. ASSUME NEW d \in Clients \ {c}
      PROVE  Fresh(d)' /\ (d \in Members(conns') /\ sock'[d] = "open" => Got(d)')
  <2>1. ASSUME NEW e \in due[d], d \in Members(conns), sock[d] = "open", Outstanding(e)
        PROVE  Outstanding(e)' \/ e \in Members(seen'[d])
    BY <1>1, <2>1, StillOutstanding
  <2>2. /\ d \in Members(conns') => d \in Members(conns)
        /\ sock'[d] = "open" => sock[d] = "open"
        /\ hand'[d] = hand[d]
        /\ due'[d] = due[d] /\ Members(seen[d]) \subseteq Members(seen'[d])
    BY <1>1 DEF TypeOK
  <2> QED
    BY <2>1, <2>2, NothingLost
<1> QED
  BY <1>2, <1>3 DEF Delivering

\* The replay goes on with the next event of the buffer, to everybody, or ends
\* with the last; a later event of its client's is outstanding by then.
LEMMA ReplayEndDelivers ==
    ASSUME TypeOK, Delivering, NEW c \in Clients, ReplayEnd(c)
    PROVE  Delivering'
<1> DEFINE ev == hand[c].ev
           last == hand[c].last
<1>1. hand[c].pc = "replay" /\ UNCHANGED <<pub, sock, due>>
  BY DEF ReplayEnd
<1>2. conns' \in Seq(Clients) /\ Members(conns') \subseteq Members(conns)
  BY DisconnectStaleTyped DEF ReplayEnd, TypeOK, Cleaning
<1>3. ev \in Nat /\ last \in Nat /\ due[c] \in SUBSET Nat
  <2>1. hand[c] \in Handler
    BY DEF TypeOK
  <2> QED
    BY <2>1 DEF Handler, TypeOK
<1>4. /\ hand' = [hand EXCEPT ![c] = hand'[c]] /\ hand'[c].pc # "off"
      /\ \A d \in Clients : Members(seen[d]) \subseteq Members(seen'[d])
      /\ c \in Members(conns') /\ sock'[c] = "open" =>
            \A e \in due[c] : Ahead(c, e) => e \in Members(seen'[c]) \/ Ahead(c, e)'
  <2>1. CASE conns' = <<>> \/ ev = last
    <3>1. Register(c, last)
      BY <2>1 DEF ReplayEnd
    <3>2. /\ hand' = [hand EXCEPT ![c] = hand'[c]] /\ hand'[c].pc # "off"
          /\ seen' = seen
      BY <1>3, <3>1, RegisterTyped
    <3>3. ASSUME c \in Members(conns'), NEW e \in due[c], Ahead(c, e)
          PROVE  FALSE
      <4>1. conns' # <<>>
        BY <3>3 DEF Members
      <4>2. ev < e /\ e <= last /\ e \in Nat
        BY <3>3, <1>3 DEF Ahead
      <4> QED
        BY <2>1, <4>1, <4>2, <1>3
    <3> QED
      BY <3>2, <3>3
  <2>2. CASE ~(conns' = <<>> \/ ev = last)
    <3>1. Replay(c, ev + 1, last) /\ ev + 1 \in Nat
      BY <1>3, <2>2 DEF ReplayEnd
    <3>2. /\ hand' = [hand EXCEPT ![c] = hand'[c]] /\ hand'[c].pc = "replay"
          /\ hand'[c].ev = ev + 1 /\ hand'[c].last = last
      BY <1>2, <1>3, <3>1, ReplayTyped
    <3>3. Send(ev + 1, conns')
      BY <3>1 DEF Replay
    <3>4. /\ \A d \in Clients : Members(seen[d]) \subseteq Members(seen'[d])
          /\ c \in Members(conns') /\ sock'[c] = "open" => ev + 1 \in Members(seen'[c])
      BY <3>1, <3>3, SendTyped DEF TypeOK
    <3>5. ASSUME NEW e \in due[c], Ahead(c, e)
          PROVE  e = ev + 1 \/ (ev + 1 < e /\ e <= last)
      BY <3>5, <1>3 DEF Ahead
    <3> QED
      BY <3>2, <3>4, <3>5 DEF Ahead
  <2> QED
    BY <2>1, <2>2
<1>5. ASSUME NEW d \in Clients \ {c}
      PROVE  Fresh(d)' /\ (d \in Members(conns') /\ sock'[d] = "open" => Got(d)')
  <2>1. ASSUME NEW e \in due[d], d \in Members(conns), sock[d] = "open", Outstanding(e)
        PROVE  Outstanding(e)' \/ e \in Members(seen'[d])
    BY <1>1, <2>1, StillOutstanding
  <2>2. /\ d \in Members(conns') => d \in Members(conns)
        /\ sock'[d] = "open" => sock[d] = "open"
        /\ hand'[d] = hand[d]
        /\ due'[d] = due[d] /\ Members(seen[d]) \subseteq Members(seen'[d])
    BY <1>1, <1>2, <1>4 DEF TypeOK
  <2> QED
    BY <2>1, <2>2, NothingLost
<1>6. Fresh(c)' /\ (c \in Members(conns') /\ sock'[c] = "open" => Got(c)')
  <2>1. Fresh(c)'
    BY <1>4 DEF Fresh
  <2>2. ASSUME c \in Members(conns'), sock'[c] = "open", NEW e \in due'[c]
        PROVE  e \in Members(seen'[c]) \/ Ahead(c, e)' \/ Outstanding(e)'
    <3>1. e \in due[c] /\ Got(c)
      BY <1>1, <1>2, <2>2 DEF Delivering
    <3>2. e \in Members(seen[c]) \/ Ahead(c, e) \/ Outstanding(e)
      BY <3>1 DEF Got
    <3> QED
      BY <1>1, <1>4, <2>2, <3>1, <3>2, StillOutstanding
  <2> QED
    BY <2>1, <2>2 DEF Got
<1> QED
  BY <1>5, <1>6 DEF Delivering

LEMMA DeliveringStep ==
    ASSUME TypeOK, Delivering, [Next]_vars
    PROVE  Delivering'
<1>1. ASSUME NEW p \in Publishers, Publish(p)
      PROVE  Delivering'
  BY <1>1, PublishDelivers
<1>2. ASSUME NEW p \in Publishers, NEW k \in DOMAIN pub[p], Begin(p, k)
      PROVE  Delivering'
  BY <1>2, BeginDelivers
<1>3. ASSUME NEW p \in Publishers, NEW k \in DOMAIN pub[p], End(p, k)
      PROVE  Delivering'
  BY <1>3, EndDelivers
<1>4. ASSUME NEW c \in Clients, ConnectFirst(c)
      PROVE  Delivering'
  BY <1>4, ConnectFirstDelivers
<1>5. ASSUME NEW c \in Clients, ConnectLater(c)
      PROVE  Delivering'
  BY <1>5, ConnectLaterDelivers
<1>6. ASSUME NEW c \in Clients, Leave(c)
      PROVE  Delivering'
  BY <1>6, LeaveDelivers
<1>7. ASSUME NEW c \in Clients, ReplayEnd(c)
      PROVE  Delivering'
  BY <1>7, ReplayEndDelivers
<1>8. ASSUME NEW c \in Clients, Unlock(c)
      PROVE  Delivering'
  <2>1. [Off EXCEPT !.pc = "recv", !.last = hand[c].last].pc = "recv" /\ Gone.pc = "gone"
    BY DEF Off, Gone
  <2>2. \A d \in Clients : \/ hand'[d] = hand[d]
                           \/ hand'[d].pc # "off" /\ hand[d].pc # "replay"
    BY <1>8, <2>1 DEF Unlock, TypeOK
  <2> QED
    BY <1>8, <2>2, QuietDelivers DEF Unlock
<1>9. ASSUME NEW c \in Clients, Receive(c)
      PROVE  Delivering'
  <2>1. Members(conns') \subseteq Members(conns)
    BY <1>9, DisconnectTyped DEF Receive, TypeOK, Cleaning
  <2>2. \A d \in Clients : \/ hand'[d] = hand[d]
                           \/ hand'[d].pc # "off" /\ hand[d].pc # "replay"
    BY <1>9, HandlerRecords DEF Receive, TypeOK
  <2> QED
    BY <1>9, <2>1, <2>2, QuietDelivers DEF Receive
<1>10. CASE Heartbeat
  <2>1. Members(conns') \subseteq Members(conns)
    BY <1>10, DisconnectTyped DEF Heartbeat, TypeOK, Cleaning
  <2> QED
    BY <1>10, <2>1, QuietDelivers DEF Heartbeat
<1>11. CASE CleanupStep
  BY <1>11, QuietDelivers DEF CleanupStep, Cleanup
<1>12. CASE UNCHANGED vars
  BY <1>12, QuietDelivers DEF vars
<1> QED
  BY <1>1, <1>2, <1>3, <1>4, <1>5, <1>6, <1>7, <1>8, <1>9, <1>10, <1>11, <1>12
  DEF Next, BroadcastStep, HandlerStep

\* However many pages come and go and however many tasks publish: a connection
\* has been sent every event that it should get, or the replay has yet to reach
\* it, or a broadcast of it has yet to start.
THEOREM DeliveredHolds == Spec => []Delivered
<1>1. TypeOK /\ Delivering /\ [Next]_vars => Delivering'
  BY DeliveringStep
<1> QED
  BY TypeInit, TypeStep, DeliveringInit, DeliveringDelivers, <1>1, PTL DEF Spec

-----------------------------------------------------------------------------
(* A connection that is alone gets an EventFeed.                           *)

Breaks(s) == {i \in DOMAIN s : s[i] # (IF i = 1 THEN 0 ELSE s[i - 1]) + 1}

\* One more event: the interruptions stay, or are one more.
LEMMA SeenGrows ==
    ASSUME NEW s \in Seq(Nat), NEW e \in Nat
    PROVE  /\ LastSeen(s) \in Nat /\ Interruptions(s) \in Nat
           /\ LastSeen(Append(s, e)) = e
           /\ Interruptions(Append(s, e)) =
                 IF e = LastSeen(s) + 1 THEN Interruptions(s) ELSE Interruptions(s) + 1
<1> DEFINE u == Append(s, e)
<1>1. /\ Len(s) \in Nat /\ DOMAIN s = 1..Len(s) /\ \A i \in 1..Len(s) : s[i] \in Nat
      /\ u # <<>> /\ Len(u) = Len(s) + 1 /\ DOMAIN u = 1..(Len(s) + 1)
      /\ u[Len(s) + 1] = e /\ \A i \in 1..Len(s) : u[i] = s[i]
      /\ s = <<>> <=> Len(s) = 0
  OBVIOUS
<1> HIDE DEF u
<1>2. LastSeen(u) = e /\ LastSeen(s) \in Nat
  BY <1>1 DEF LastSeen
<1>3. IsFiniteSet(Breaks(s)) /\ Cardinality(Breaks(s)) \in Nat
  <2>1. IsFiniteSet(1..Len(s)) /\ Breaks(s) \in SUBSET (1..Len(s))
    BY <1>1, FS_Interval DEF Breaks
  <2> QED
    BY <2>1, FS_Subset, FS_CardinalityType
<1>4. Len(s) + 1 \notin Breaks(s)
  BY <1>1 DEF Breaks
<1>5. Breaks(u) = IF e = LastSeen(s) + 1 THEN Breaks(s) ELSE Breaks(s) \cup {Len(s) + 1}
  <2>1. ASSUME NEW i \in 1..Len(s)
        PROVE  i \in Breaks(u) <=> i \in Breaks(s)
    <3>1. i \in DOMAIN s /\ i \in DOMAIN u /\ u[i] = s[i] /\ (i # 1 => u[i - 1] = s[i - 1])
      BY <1>1
    <3> QED
      BY <3>1 DEF Breaks
  <2>2. Len(s) + 1 \in Breaks(u) <=> e # LastSeen(s) + 1
    <3>1. (IF Len(s) + 1 = 1 THEN 0 ELSE u[(Len(s) + 1) - 1]) = LastSeen(s)
      BY <1>1 DEF LastSeen
    <3> QED
      BY <1>1, <3>1 DEF Breaks
  <2>3. Breaks(u) \subseteq 1..(Len(s) + 1) /\ Breaks(s) \subseteq 1..Len(s)
    BY <1>1 DEF Breaks
  <2>4. \A i : i \in 1..(Len(s) + 1) <=> i \in 1..Len(s) \/ i = Len(s) + 1
    BY <1>1
  <2>5. \A i : i \in Breaks(u) <=>
            i \in Breaks(s) \/ (e # LastSeen(s) + 1 /\ i = Len(s) + 1)
    BY <1>4, <2>1, <2>2, <2>3, <2>4
  <2> QED
    BY <2>5
<1>6. Cardinality(Breaks(s) \cup {Len(s) + 1}) = Cardinality(Breaks(s)) + 1
  BY <1>3, <1>4, FS_AddElement
<1>7. Interruptions(s) = Cardinality(Breaks(s)) /\ Interruptions(u) = Cardinality(Breaks(u))
  BY DEF Interruptions, Breaks
<1> QED
  BY <1>2, <1>3, <1>5, <1>6, <1>7 DEF u

LEMMA NothingSeen == LastSeen(<<>>) = 0 /\ Interruptions(<<>>) = 0
<1>1. Breaks(<<>>) = {}
  BY DEF Breaks
<1> QED
  BY <1>1, FS_EmptySet DEF LastSeen, Interruptions, Breaks

\* The newest event has yet to be broadcast.
Ready(p) == \E k \in DOMAIN pub[p] : pub[p][k].pc = "ready"
Coming(p) == IF Ready(p) THEN 1 ELSE 0

\* The connection c, alone with the publisher p, while the buffer is replayed to
\* it: nothing is broadcast, and only what the bus had dropped is missing.
Replayed(c, p) ==
    /\ hand[c].pc = "replay" /\ subs = 0 /\ DOMAIN pub[p] = {}
    /\ LastSeen(seen[c]) = hand[c].ev
    /\ hand[c].ev <= hand[c].last /\ hand[c].last <= published
    /\ Interruptions(seen[c]) <= 1

\* Afterwards: one callback, and no gap after the second but for the event
\* that is about to be broadcast.
Live(c, p) ==
    /\ hand[c].pc = "recv" /\ subs = 1 /\ DOMAIN pub[p] \subseteq {1}
    /\ \A k \in DOMAIN pub[p] : pub[p][k].pc = "ready" => pub[p][k].ev = published
    /\ LastSeen(seen[c]) + Coming(p) <= published
    /\ \/ Interruptions(seen[c]) <= 1
       \/ Interruptions(seen[c]) = 2 /\ LastSeen(seen[c]) + Coming(p) = published

FeedInv(c, p) ==
    /\ sock[c] # "open" => seen[c] = <<>>
    /\ hand[c].pc = "off" <=> sock[c] = "new"
    /\ sock[c] = "new" => subs = 0 /\ DOMAIN pub[p] = {} /\ conns = <<>> /\ clean = <<>>
    /\ sock[c] = "open" => conns = <<c>> /\ clean = <<>> /\ (Replayed(c, p) \/ Live(c, p))

Fed(c, p) == FeedInv(c, p)' /\ [Feed!Next]_(Feed!vars)

LEMMA TheClientIs ==
    ASSUME NEW c, Clients = {c}
    PROVE  TheClient = c
BY DEF TheClient

\* A step that sends nothing, publishes nothing and loses nobody.
LEMMA FeedStutters ==
    ASSUME NEW c, Clients = {c}, UNCHANGED <<published, seen>>,
           sock[c] = "dead" <=> sock'[c] = "dead"
    PROVE  [Feed!Next]_(Feed!vars)
BY TheClientIs DEF Feed!vars

\* Whatever happens after the connection is gone.
LEMMA GoneFed ==
    ASSUME NEW c, NEW p, Clients = {c}, FeedInv(c, p), sock[c] = "dead",
           UNCHANGED <<published, sock, seen>>, hand'[c].pc # "off"
    PROVE  Fed(c, p)
BY FeedStutters DEF FeedInv, Fed

\* Nothing is sent to it any more.
LEMMA SendsNothing ==
    ASSUME NEW c, Clients = {c}, TypeOK, NEW e, NEW to, Send(e, to), sock'[c] # "open"
    PROVE  seen' = seen
<1>1. seen' = [d \in Clients |-> seen[d]]
  BY DEF Send
<1> QED
  BY <1>1 DEF TypeOK

\* One event is sent to it: the next one, or one after a gap.
LEMMA SendsOne ==
    ASSUME NEW c, Clients = {c}, TypeOK, NEW e \in Nat, Send(e, <<c>>),
           sock[c] # "dead", sock'[c] = "open", published' = published,
           LastSeen(seen[c]) < e, e <= published,
           e = LastSeen(seen[c]) + 1 \/ Interruptions(seen[c]) <= 1
    PROVE  /\ [Feed!Next]_(Feed!vars)
           /\ LastSeen(seen'[c]) = e
           /\ Interruptions(seen'[c]) = IF e = LastSeen(seen[c]) + 1 THEN Interruptions(seen[c])
                                        ELSE Interruptions(seen[c]) + 1
<1>1. seen[c] \in Seq(Nat) /\ published \in Nat
  BY DEF TypeOK
<1>2. seen'[c] = Append(seen[c], e)
  <2>1. c \in Members(<<c>>)
    BY DEF Members
  <2> QED
    BY <2>1 DEF Send
<1>3. /\ LastSeen(seen[c]) \in Nat /\ Interruptions(seen[c]) \in Nat
      /\ LastSeen(seen'[c]) = e
      /\ Interruptions(seen'[c]) = IF e = LastSeen(seen[c]) + 1 THEN Interruptions(seen[c])
                                   ELSE Interruptions(seen[c]) + 1
  BY <1>1, <1>2, SeenGrows
<1>4. CASE e = LastSeen(seen[c]) + 1
  <2>1. /\ sock[c] # "dead" /\ LastSeen(seen[c]) < published
        /\ LastSeen(seen'[c]) = LastSeen(seen[c]) + 1
        /\ Interruptions(seen'[c]) = Interruptions(seen[c])
        /\ (sock'[c] = "dead") = (sock[c] = "dead")
    BY <1>1, <1>3, <1>4
  <2>2. Feed!Deliver
    BY <2>1, TheClientIs DEF Feed!Deliver
  <2> QED
    BY <1>3, <2>2 DEF Feed!Next
<1>5. CASE e # LastSeen(seen[c]) + 1
  <2>1. e \in LastSeen(seen[c]) + 2 .. published
    BY <1>1, <1>3, <1>5
  <2>2. Interruptions(seen[c]) < 2 /\ Interruptions(seen'[c]) = Interruptions(seen[c]) + 1
    BY <1>3, <1>5
  <2>3. Feed!Skip
    BY <1>3, <2>1, <2>2, TheClientIs DEF Feed!Skip
  <2> QED
    BY <1>3, <2>3 DEF Feed!Next
<1> QED
  BY <1>4, <1>5

LEMMA FeedInit ==
    ASSUME NEW c, NEW p, Clients = {c}, Publishers = {p}, Init
    PROVE  FeedInv(c, p) /\ Feed!Init
<1>1. seen[c] = <<>> /\ sock[c] = "new" /\ hand[c].pc = "off" /\ pub[p] = <<>>
      /\ published = 0 /\ subs = 0 /\ conns = <<>> /\ clean = <<>>
  BY HandlerRecords DEF Init
<1>2. FeedInv(c, p)
  BY <1>1 DEF FeedInv
<1>3. Feed!Init
  BY <1>1, TheClientIs, NothingSeen DEF Feed!Init
<1> QED
  BY <1>2, <1>3

LEMMA PublishFed ==
    ASSUME NEW c, NEW p, Clients = {c}, Publishers = {p}, TypeOK, FeedInv(c, p), Publish(p)
    PROVE  Fed(c, p)
<1>1. /\ published' = published + 1 /\ UNCHANGED <<subs, conns, sock, hand, clean, seen>>
      /\ pub'[p] = [k \in 1..subs |-> [pc |-> "ready", ev |-> published', to |-> <<>>]]
      /\ published \in Nat /\ seen[c] \in Seq(Nat)
  BY DEF Publish, TypeOK
<1>2. Feed!Publish
  BY <1>1 DEF Feed!Publish
<1>3. LastSeen(seen[c]) \in Nat /\ hand[c].last \in Nat
  <2>1. hand[c] \in Handler
    BY DEF TypeOK
  <2> QED
    BY <1>1, <2>1, SeenGrows DEF Handler
<1>4. subs = 0 => DOMAIN pub'[p] = {}
  BY <1>1
<1>5. CASE subs = 0
  <2>1. Replayed(c, p) => Replayed(c, p)'
    BY <1>1, <1>3, <1>4, <1>5 DEF Replayed
  <2>2. ~Live(c, p)
    BY <1>5 DEF Live
  <2> QED
    BY <1>1, <1>2, <1>4, <1>5, <2>1, <2>2 DEF FeedInv, Fed, Feed!Next
<1>6. CASE subs # 0
  <2>1. Live(c, p) => Live(c, p)'
    <3> SUFFICES ASSUME Live(c, p) PROVE Live(c, p)'
      OBVIOUS
    <3>1. Coming(p) = 0
      <4>1. ~Ready(p)
        BY DEF Publish, Returned, Ready
      <4> QED
        BY <4>1 DEF Coming
    <3>2. subs = 1 /\ DOMAIN pub'[p] = {1} /\ pub'[p][1].ev = published'
      BY <1>1 DEF Live
    <3>3. Coming(p)' = 1 \/ Coming(p)' = 0
      BY DEF Coming
    <3>4. Coming(p)' = 1
      <4>1. pub'[p][1].pc = "ready"
        BY <1>1, <3>2
      <4> QED
        BY <3>2, <4>1 DEF Coming, Ready
    <3> QED
      BY <1>1, <1>3, <3>1, <3>2, <3>4 DEF Live
  <2>2. ~Replayed(c, p)
    BY <1>6 DEF Replayed
  <2> QED
    BY <1>1, <1>2, <1>6, <2>1, <2>2 DEF FeedInv, Fed, Feed!Next
<1> QED
  BY <1>5, <1>6

\* What a broadcast that goes on changes.
LEMMA BroadcastMoves ==
    ASSUME NEW c, NEW p, Clients = {c}, Publishers = {p}, TypeOK, Live(c, p),
           NEW k \in DOMAIN pub[p], NEW pc \in {"sending", "done"}, NEW to,
           pub' = [pub EXCEPT ![p][k].pc = pc, ![p][k].to = to]
    PROVE  DOMAIN pub'[p] \subseteq {1} /\ Coming(p)' = 0 /\ ~Ready(p)'
<1>1. k = 1 /\ DOMAIN pub[p] = {1}
  BY DEF Live
<1>2. pub[p] \in Seq(Broadcast) /\ pub[p][k] \in Broadcast
  BY DEF TypeOK
<1> DEFINE b == [pub[p][k] EXCEPT !.pc = pc, !.to = to]
<1>3. b.pc = pc
  BY <1>2 DEF Broadcast
<1>4. pub'[p] = [pub[p] EXCEPT ![k] = b]
  BY <1>2 DEF TypeOK
<1> HIDE DEF b
<1>5. DOMAIN pub'[p] = {1} /\ pub'[p][1].pc = pc
  BY <1>1, <1>2, <1>3, <1>4
<1> QED
  BY <1>5 DEF Coming, Ready

LEMMA BeginFed ==
    ASSUME NEW c, NEW p, Clients = {c}, Publishers = {p}, TypeOK, FeedInv(c, p),
           NEW k \in DOMAIN pub[p], Begin(p, k)
    PROVE  Fed(c, p)
<1>1. /\ pub[p][k].pc = "ready" /\ Send(pub[p][k].ev, conns)
      /\ UNCHANGED <<published, subs, conns, sock, hand, clean>>
      /\ sock[c] \in {"open", "dead"} /\ published \in Nat /\ seen[c] \in Seq(Nat)
      /\ pub' = [pub EXCEPT ![p][k].pc = IF conns = <<>> THEN "done" ELSE "sending",
                            ![p][k].to = conns]
  BY DEF Begin, FeedInv, TypeOK
<1>2. CASE sock[c] = "dead"
  <2>1. seen' = seen
    BY <1>1, <1>2, SendsNothing
  <2> QED
    BY <1>1, <1>2, <2>1, GoneFed DEF FeedInv
<1>3. CASE sock[c] = "open"
  <2>1. Live(c, p) /\ conns = <<c>>
    BY <1>3 DEF FeedInv, Replayed
  <2>2. Coming(p) = 1 /\ pub[p][k].ev = published
    BY <1>1, <2>1 DEF Coming, Ready, Live
  <2>3. DOMAIN pub'[p] \subseteq {1} /\ Coming(p)' = 0 /\ ~Ready(p)'
    <3> DEFINE pc == IF conns = <<>> THEN "done" ELSE "sending"
    <3>1. pc \in {"sending", "done"} /\ pub' = [pub EXCEPT ![p][k].pc = pc, ![p][k].to = conns]
      BY <1>1
    <3> HIDE DEF pc
    <3> QED
      BY <2>1, <3>1, BroadcastMoves
  <2>4. LastSeen(seen[c]) \in Nat /\ Interruptions(seen[c]) \in Nat
    BY <1>1, SeenGrows
  <2>5. /\ LastSeen(seen[c]) < published
        /\ published = LastSeen(seen[c]) + 1 \/ Interruptions(seen[c]) <= 1
    BY <1>1, <2>1, <2>2, <2>4 DEF Live
  <2>6. /\ [Feed!Next]_(Feed!vars)
        /\ LastSeen(seen'[c]) = published
        /\ Interruptions(seen'[c]) = IF published = LastSeen(seen[c]) + 1
                                     THEN Interruptions(seen[c]) ELSE Interruptions(seen[c]) + 1
    BY <1>1, <1>3, <2>1, <2>2, <2>5, SendsOne
  <2>7. Interruptions(seen'[c]) <= 2 /\ Interruptions(seen'[c]) \in Nat
    BY <2>1, <2>4, <2>5, <2>6 DEF Live
  <2>8. Live(c, p)'
    <3>1. \A j \in DOMAIN pub'[p] : pub'[p][j].pc # "ready"
      BY <2>3 DEF Ready
    <3>2. LastSeen(seen'[c]) + Coming(p)' = published'
      BY <1>1, <2>3, <2>6
    <3>3. Interruptions(seen'[c]) <= 1 \/ Interruptions(seen'[c]) = 2
      BY <2>7
    <3>4. hand'[c].pc = "recv" /\ subs' = 1 /\ published' <= published'
      BY <1>1, <2>1 DEF Live
    <3> QED
      BY <2>3, <3>1, <3>2, <3>3, <3>4 DEF Live
  <2> QED
    BY <1>1, <1>3, <2>1, <2>6, <2>8 DEF FeedInv, Fed, Live
<1> QED
  BY <1>1, <1>2, <1>3

LEMMA EndFed ==
    ASSUME NEW c, NEW p, Clients = {c}, Publishers = {p}, TypeOK, FeedInv(c, p),
           NEW k \in DOMAIN pub[p], End(p, k)
    PROVE  Fed(c, p)
<1>1. /\ pub[p][k].pc = "sending" /\ pub' = [pub EXCEPT ![p][k].pc = "done", ![p][k].to = <<>>]
      /\ UNCHANGED <<published, subs, sock, hand, seen>>
      /\ sock[c] \in {"open", "dead"}
  BY DEF End, FeedInv, TypeOK
<1>2. CASE sock[c] = "dead"
  BY <1>1, <1>2, GoneFed DEF FeedInv
<1>3. CASE sock[c] = "open"
  <2>1. Live(c, p)
    BY <1>3 DEF FeedInv, Replayed
  <2>2. conns' = conns /\ clean' = clean
    <3>1. pub[p][k].to \in Seq(Clients)
      <4>1. pub[p][k] \in Broadcast
        BY DEF TypeOK
      <4> QED
        BY <4>1 DEF Broadcast
    <3>2. MayFail(pub[p][k].to) = {}
      <4>1. \A i \in DOMAIN pub[p][k].to : pub[p][k].to[i] = c
        BY <3>1
      <4> QED
        BY <1>3, <4>1 DEF MayFail
    <3>3. Stale(pub[p][k].to, {}) = {}
      BY DEF Stale
    <3> QED
      BY <3>2, <3>3 DEF End, DisconnectStale
  <2>3. DOMAIN pub'[p] \subseteq {1} /\ Coming(p)' = 0 /\ ~Ready(p)'
    BY <1>1, <2>1, BroadcastMoves
  <2>4. Coming(p) = 0
    <3>1. ~Ready(p)
      BY <1>1, <2>1 DEF Live, Ready
    <3> QED
      BY <3>1 DEF Coming
  <2>5. Live(c, p)'
    BY <1>1, <2>1, <2>3, <2>4 DEF Live, Ready
  <2> QED
    BY <1>1, <1>3, <2>2, <2>5, FeedStutters DEF FeedInv, Fed, Live
<1> QED
  BY <1>1, <1>2, <1>3

LEMMA LeaveFed ==
    ASSUME NEW c, NEW p, Clients = {c}, Publishers = {p}, TypeOK, FeedInv(c, p), Leave(c)
    PROVE  Fed(c, p)
<1>1. /\ sock[c] = "open" /\ sock'[c] = "dead" /\ seen'[c] = <<>>
      /\ UNCHANGED <<published, hand>> /\ hand[c].pc # "off"
  BY DEF Leave, FeedInv, TypeOK
<1>2. FeedInv(c, p)'
  BY <1>1 DEF FeedInv
<1>3. Feed!Close
  BY <1>1, TheClientIs, NothingSeen DEF Feed!Close
<1> QED
  BY <1>2, <1>3 DEF Fed, Feed!Next

LEMMA ConnectFirstFed ==
    ASSUME NEW c, NEW p, Clients = {c}, Publishers = {p}, TypeOK, FeedInv(c, p), ConnectFirst(c)
    PROVE  Fed(c, p)
<1>1. /\ sock[c] = "new" /\ sock'[c] = "open" /\ conns' = <<c>> /\ seen[c] = <<>>
      /\ UNCHANGED <<published, pub, clean>> /\ clean = <<>> /\ DOMAIN pub[p] = {} /\ subs = 0
      /\ published \in Nat
  BY DEF ConnectFirst, FeedInv, TypeOK
<1>2. Coming(p) = 0 /\ Coming(p)' = 0
  BY <1>1 DEF Coming, Ready
<1>3. CASE published = 0
  <2>1. Register(c, 0)
    BY <1>3 DEF ConnectFirst
  <2>2. subs' = 1 /\ seen' = seen /\ hand'[c].pc = "recv"
    <3> DEFINE ahead == {k \in DOMAIN clean : lock # 0 /\ clean[k].lock = lock}
    <3>1. ahead = {} /\ conns' # <<>>
      BY <1>1
    <3>2. hand'[c] = [Off EXCEPT !.last = 0, !.ahead = ahead, !.pc = "recv"]
      BY <2>1, <3>1 DEF Register, TypeOK
    <3>3. subs' = 1 /\ seen' = seen
      BY <1>1, <2>1 DEF Register
    <3> HIDE DEF ahead
    <3>4. hand'[c].pc = "recv"
      BY <3>2 DEF Off
    <3> QED
      BY <3>3, <3>4
  <2>3. Live(c, p)'
    BY <1>1, <1>2, <1>3, <2>2, NothingSeen DEF Live
  <2> QED
    BY <1>1, <2>2, <2>3, FeedStutters DEF FeedInv, Fed, Live
<1>4. CASE published # 0
  <2> DEFINE e == Oldest(published)
  <2>1. Replay(c, e, published)
    BY <1>4 DEF ConnectFirst
  <2>2. e \in Nat /\ 0 < e /\ e <= published
    BY <1>1, <1>4, StreamConstants DEF Oldest
  <2> HIDE DEF e
  <2>3. Send(e, <<c>>)
    BY <1>1, <2>1 DEF Replay
  <2>4. /\ [Feed!Next]_(Feed!vars)
        /\ LastSeen(seen'[c]) = e /\ Interruptions(seen'[c]) <= 1
    BY <1>1, <2>2, <2>3, SendsOne, NothingSeen
  <2>5. hand'[c].pc = "replay" /\ hand'[c].ev = e /\ hand'[c].last = published /\ subs' = 0
    <3>1. conns' \in Seq(Clients)
      BY <1>1
    <3> QED
      BY <1>1, <2>1, <2>2, <3>1, ReplayTyped DEF Replay
  <2>6. Replayed(c, p)'
    BY <1>1, <2>2, <2>4, <2>5 DEF Replayed
  <2> QED
    BY <1>1, <2>4, <2>6 DEF FeedInv, Fed, Replayed
<1> QED
  BY <1>3, <1>4

LEMMA ReplayEndFed ==
    ASSUME NEW c, NEW p, Clients = {c}, Publishers = {p}, TypeOK, FeedInv(c, p), ReplayEnd(c)
    PROVE  Fed(c, p)
<1> DEFINE ev == hand[c].ev
           last == hand[c].last
<1>1. /\ hand[c].pc = "replay" /\ sock[c] \in {"open", "dead"}
      /\ UNCHANGED <<published, pub, sock>>
  BY DEF ReplayEnd, FeedInv, TypeOK
<1>2. ev \in Nat /\ last \in Nat /\ published \in Nat /\ conns' \in Seq(Clients)
  <2>1. hand[c] \in Handler
    BY DEF TypeOK
  <2> QED
    BY <2>1, DisconnectStaleTyped DEF Handler, ReplayEnd, TypeOK, Cleaning
<1> HIDE DEF ev, last
<1>3. Register(c, last) \/ Replay(c, ev + 1, last)
  BY DEF ReplayEnd, ev, last
<1>4. CASE sock[c] = "dead"
  <2>1. seen' = seen /\ hand'[c].pc # "off"
    <3>1. CASE Register(c, last)
      BY <1>2, <3>1, RegisterTyped
    <3>2. CASE Replay(c, ev + 1, last)
      <4>1. ev + 1 \in Nat /\ Send(ev + 1, conns')
        BY <1>2, <3>2 DEF Replay
      <4> QED
        BY <1>1, <1>2, <1>4, <3>2, <4>1, ReplayTyped, SendsNothing
    <3> QED
      BY <1>3, <3>1, <3>2
  <2> QED
    BY <1>1, <1>4, <2>1, GoneFed
<1>5. CASE sock[c] = "open"
  <2>1. Replayed(c, p) /\ conns = <<c>> /\ clean = <<>>
    BY <1>1, <1>5 DEF FeedInv, Live
  <2>2. Coming(p) = 0 /\ Coming(p)' = 0
    BY <1>1, <2>1 DEF Coming, Ready, Replayed
  <2>3. conns' = <<c>> /\ clean' = <<>>
    <3>1. hand[c].to \in Seq(Clients)
      <4>1. hand[c] \in Handler
        BY DEF TypeOK
      <4> QED
        BY <4>1 DEF Handler
    <3>2. MayFail(hand[c].to) = {}
      <4>1. \A i \in DOMAIN hand[c].to : hand[c].to[i] = c
        BY <3>1
      <4> QED
        BY <1>5, <4>1 DEF MayFail
    <3>3. Stale(hand[c].to, {}) = {}
      BY DEF Stale
    <3> QED
      BY <2>1, <3>2, <3>3 DEF ReplayEnd, DisconnectStale
  <2>4. LastSeen(seen[c]) = ev /\ ev <= last /\ last <= published /\ subs = 0
        /\ Interruptions(seen[c]) <= 1
    BY <2>1 DEF Replayed, ev, last
  <2>5. CASE ev = last
    <3>1. Register(c, last)
      BY <2>5 DEF ReplayEnd, ev, last
    <3>2. subs' = 1 /\ seen' = seen /\ hand'[c].pc = "recv"
      <4> DEFINE ahead == {k \in DOMAIN clean : lock # 0 /\ clean[k].lock = lock}
      <4>1. ahead = {} /\ conns' # <<>>
        BY <2>1, <2>3
      <4>2. hand'[c] = [Off EXCEPT !.last = last, !.ahead = ahead, !.pc = "recv"]
        BY <2>3, <3>1, <4>1 DEF Register, TypeOK
      <4>3. subs' = 1 /\ seen' = seen
        BY <2>4, <3>1 DEF Register
      <4> HIDE DEF ahead
      <4>4. hand'[c].pc = "recv"
        BY <4>2 DEF Off
      <4> QED
        BY <4>3, <4>4
    <3>3. Live(c, p)'
      BY <1>1, <1>2, <2>1, <2>2, <2>4, <3>2 DEF Live, Replayed
    <3> QED
      BY <1>1, <1>5, <2>3, <3>2, <3>3, FeedStutters DEF FeedInv, Fed, Live
  <2>6. CASE ev # last
    <3>1. Replay(c, ev + 1, last) /\ ev + 1 \in Nat /\ ev + 1 <= last
      BY <1>2, <2>3, <2>4, <2>6 DEF ReplayEnd, ev, last
    <3>2. Send(ev + 1, <<c>>)
      BY <2>3, <3>1 DEF Replay
    <3>3. /\ [Feed!Next]_(Feed!vars)
          /\ LastSeen(seen'[c]) = ev + 1 /\ Interruptions(seen'[c]) <= 1
      BY <1>1, <1>2, <1>5, <2>4, <3>1, <3>2, SendsOne
    <3>4. hand'[c].pc = "replay" /\ hand'[c].ev = ev + 1 /\ hand'[c].last = last /\ subs' = 0
      BY <1>2, <2>4, <3>1, ReplayTyped DEF Replay
    <3>5. Replayed(c, p)'
      BY <1>1, <2>1, <2>4, <3>1, <3>3, <3>4 DEF Replayed
    <3> QED
      BY <1>1, <1>5, <2>3, <3>3, <3>5 DEF FeedInv, Fed, Replayed
  <2> QED
    BY <2>5, <2>6
<1> QED
  BY <1>1, <1>4, <1>5

LEMMA FedStep ==
    ASSUME NEW c, NEW p, Clients = {c}, Publishers = {p}, TypeOK, FeedInv(c, p), [Next]_vars
    PROVE  Fed(c, p)
<1>1. CASE Publish(p) \/ ConnectFirst(c) \/ Leave(c) \/ ReplayEnd(c)
  BY <1>1, PublishFed, ConnectFirstFed, LeaveFed, ReplayEndFed
<1>2. CASE BroadcastStep(p)
  BY <1>2, BeginFed, EndFed DEF BroadcastStep
<1>3. CASE ConnectLater(c)
  BY <1>3 DEF ConnectLater, FeedInv
<1>4. CASE Unlock(c)
  <2>1. [Off EXCEPT !.pc = "recv", !.last = hand[c].last].pc = "recv" /\ Gone.pc = "gone"
    BY DEF Off, Gone
  <2>2. sock[c] = "dead" /\ hand'[c].pc # "off" /\ UNCHANGED <<published, sock, seen>>
    BY <1>4, <2>1 DEF Unlock, FeedInv, Replayed, Live, TypeOK
  <2> QED
    BY <2>2, GoneFed
<1>5. CASE Receive(c)
  <2>1. sock[c] = "dead" /\ hand'[c].pc # "off" /\ UNCHANGED <<published, sock, seen>>
    BY <1>5, HandlerRecords DEF Receive, TypeOK
  <2> QED
    BY <2>1, GoneFed
<1>6. CASE Heartbeat \/ CleanupStep
  <2>1. sock[c] = "dead"
    <3>1. CASE Heartbeat
      BY <3>1 DEF Heartbeat, TypeOK, Members
    <3>2. CASE CleanupStep
      <4>1. DOMAIN clean # {}
        BY <3>2 DEF CleanupStep
      <4> QED
        BY <4>1 DEF FeedInv, TypeOK
    <3> QED
      BY <1>6, <3>1, <3>2
  <2>2. UNCHANGED <<published, sock, seen, hand>>
    BY <1>6 DEF Heartbeat, CleanupStep, Cleanup
  <2> QED
    BY <2>1, <2>2, GoneFed DEF FeedInv
<1>7. CASE UNCHANGED vars
  <2>1. FeedInv(c, p)' = FeedInv(c, p)
    BY <1>7 DEF vars, FeedInv, Replayed, Live, Coming, Ready
  <2> QED
    BY <1>7, <2>1, FeedStutters DEF vars, Fed
<1> QED
  BY <1>1, <1>2, <1>3, <1>4, <1>5, <1>6, <1>7 DEF Next, HandlerStep

\* A browser that is alone on its run, with one task that publishes, gets an
\* EventFeed, whatever the length of the buffer and of the run: each event at
\* most once, in order, and at most two gaps until it leaves.
THEOREM FeedKept ==
    ASSUME NEW c, NEW p, Clients = {c}, Publishers = {p}
    PROVE  Spec => RefinesFeed
<1>1. Init => FeedInv(c, p) /\ Feed!Init
  BY FeedInit
<1>2. TypeOK /\ FeedInv(c, p) /\ [Next]_vars => FeedInv(c, p)' /\ [Feed!Next]_(Feed!vars)
  BY FedStep DEF Fed
<1> QED
  BY <1>1, <1>2, TypeInit, TypeStep, PTL DEF Spec, RefinesFeed, Feed!Spec
=============================================================================
