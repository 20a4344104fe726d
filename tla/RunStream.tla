----------------------------- MODULE RunStream -----------------------------
(***************************************************************************)
(* The way of a run's events to the browsers: one channel of the           *)
(* InProcessEventBus (core/local_bus.py) and the WebSocketHub's            *)
(* connections for that run (ws/hub.py).  publish() awaits every callback, *)
(* and every callback is the hub's broadcast(), which awaits a send to     *)
(* every connection; a client's handler awaits the replay of the buffer    *)
(* before it registers its callback.  Between those awaits clients come    *)
(* and go, and delayed clean-ups wake up.                                  *)
(*                                                                         *)
(* Events are numbered in the order in which they enter the buffer, so the *)
(* buffer is the last MAX_BUFFER numbers.  A page that reconnects opens a  *)
(* new socket, another element of Clients.                                 *)
(*                                                                         *)
(* Operators whose name begins with Mut are mutated forms of the           *)
(* definition that follows them; the specification never uses them.        *)
(***************************************************************************)
EXTENDS Integers, Sequences, FiniteSets, Filters

CONSTANTS
    Clients,      \* WebSocket connections, each made at most once
    Publishers,   \* tasks that emit events of the run
    MAX_BUFFER,   \* _MAX_BUFFER, events kept per channel
    MaxEvents     \* BOUND: events published

ASSUME StreamConstants ==
    /\ MAX_BUFFER \in Nat \ {0}
    /\ MaxEvents \in Nat

VARIABLES
    published,  \* events appended to _buffers[channel] so far
    subs,       \* callbacks in _subscribers[channel]; they all do the same
    pub,        \* per publisher: the broadcasts its publish() awaits
    conns,      \* _connections[run_id]; no entry is the empty list
    sock,       \* per client: "new", "open", "dead" (the peer is gone)
    hand,       \* per client: its endpoint ws_run_stream inside hub.connect
    clean,      \* the _cleanup_run tasks, in the order they were created
    lock,       \* _cleanup_locks[run_id]: the number of a lock, 0 for none
    hb,         \* is there a heartbeat task?
    seen,       \* per open client: the events sent to its socket, in order
    due         \* history, per open client: the events that it should get

vars == <<published, subs, pub, conns, sock, hand, clean, lock, hb, seen, due>>

-----------------------------------------------------------------------------
\* MutOldest: only the newest event is replayed.
MutOldest(n) == n
\* The first of the events buffered when n were published.
Oldest(n) == IF n > MAX_BUFFER THEN n - MAX_BUFFER + 1 ELSE 1

\* MutReconnected: the clean-up does not look again after the grace period.
MutReconnected == FALSE
\* _cleanup_run's test after the grace period.
Reconnected == conns # <<>>

\* MutLastGone: nothing is scheduled when the last client leaves.
MutLastGone(rest) == FALSE
\* disconnect(): not conns.
LastGone(rest) == rest = <<>>

\* _subscribers.pop(channel): what is left of the callbacks.
Unsubscribed == 0

\* MutReturned: publish() does not await its callbacks.
MutReturned(p) == TRUE
\* The publisher's last publish() has returned.
Returned(p) == \A k \in DOMAIN pub[p] : pub[p][k].pc = "done"

\* A clean-up that is over: `async with` has released its lock.
Released(k) == [lock |-> 0, done |-> TRUE]

\* The sends of a broadcast that may come back False: to peers that are gone.
MayFail(to) == {i \in DOMAIN to : sock[to[i]] = "dead"}
\* zip(self._connections[run_id], results): the results are matched with the
\* connections as they are AFTER the sends.
Stale(to, F) == {conns[i] : i \in F \cap DOMAIN conns}

-----------------------------------------------------------------------------
Off == [pc |-> "off", last |-> 0, ev |-> 0, to |-> <<>>, ahead |-> {}]
Gone == [Off EXCEPT !.pc = "gone"]

Init ==
    /\ published = 0 /\ subs = 0
    /\ pub = [p \in Publishers |-> <<>>]
    /\ conns = <<>>
    /\ sock = [c \in Clients |-> "new"]
    /\ hand = [c \in Clients |-> Off]
    /\ clean = <<>> /\ lock = 0 /\ hb = FALSE
    /\ seen = [c \in Clients |-> <<>>]
    /\ due = [c \in Clients |-> {}]

\* gather(*[_send(ws) for ws in conns]): every send starts at once, in order.
Send(e, to) ==
    seen' = [c \in Clients |-> IF c \in Members(to) /\ sock'[c] = "open"
                               THEN Append(seen[c], e) ELSE seen[c]]

\* disconnect() of each of S, without an await in between.  One that is not
\* in the list is a ValueError, which is passed over.
Disconnect(S) ==
    /\ conns' = IF S \cap Members(conns) = {} THEN conns ELSE Without(conns, S)
    /\ IF LastGone(conns')
       THEN /\ lock' = IF lock = 0 THEN Len(clean) + 1 ELSE lock
            /\ clean' = Append(clean, [lock |-> lock', done |-> FALSE])
       ELSE UNCHANGED <<lock, clean>>

\* broadcast() after its sends.  No entry any more is a KeyError, which the
\* callers swallow; so nobody is disconnected.
DisconnectStale(to, F) ==
    IF Stale(to, F) = {} THEN UNCHANGED <<conns, lock, clean>>
                         ELSE Disconnect(Stale(to, F))

-----------------------------------------------------------------------------
(* InProcessEventBus.publish                                               *)

Publish(p) ==
    /\ published < MaxEvents
    /\ Returned(p)
    /\ published' = published + 1
    /\ pub' = [pub EXCEPT ![p] =
                 [k \in 1..subs |-> [pc |-> "ready", ev |-> published', to |-> <<>>]]]
    /\ due' = [c \in Clients |-> IF subs > 0 /\ c \in Members(conns)
                                 THEN due[c] \cup {published'} ELSE due[c]]
    /\ UNCHANGED <<subs, conns, sock, hand, clean, lock, hb, seen>>

\* A callback starts to run: broadcast() up to its gather.
Begin(p, k) ==
    /\ k \in DOMAIN pub[p] /\ pub[p][k].pc = "ready"
    /\ pub' = [pub EXCEPT ![p][k].pc = IF conns = <<>> THEN "done" ELSE "sending",
                          ![p][k].to = conns]
    /\ UNCHANGED <<published, subs, conns, sock, hand, clean, lock, hb, due>>
    /\ Send(pub[p][k].ev, conns)

End(p, k) ==
    /\ k \in DOMAIN pub[p] /\ pub[p][k].pc = "sending"
    /\ \E F \in SUBSET MayFail(pub[p][k].to) : DisconnectStale(pub[p][k].to, F)
    /\ pub' = [pub EXCEPT ![p][k].pc = "done", ![p][k].to = <<>>]
    /\ UNCHANGED <<published, subs, sock, hand, hb, seen, due>>

-----------------------------------------------------------------------------
(* WebSocketHub.connect and the endpoint around it                         *)

\* The next event of subscribe()'s snapshot goes to the hub's callback, that
\* is, to everybody connected.
Replay(c, e, last) ==
    /\ hand' = [hand EXCEPT ![c] = [Off EXCEPT !.pc = "replay", !.ev = e,
                                               !.last = last, !.to = conns']]
    /\ Send(e, conns')
    /\ UNCHANGED <<subs, hb>>

\* The end of subscribe() and the rest of connect(): register the callback,
\* start the heartbeat, wait for the clean-ups that hold or await the lock.
\* Without an entry the last line raises KeyError and the endpoint is left.
Register(c, last) ==
    /\ subs' = subs + 1
    /\ hb' = TRUE
    /\ LET ahead == {k \in DOMAIN clean : lock # 0 /\ clean[k].lock = lock}
           here == [Off EXCEPT !.last = last, !.ahead = ahead,
                               !.pc = IF ahead # {} THEN "lock" ELSE "recv"]
       IN  hand' = [hand EXCEPT ![c] = IF ahead = {} /\ conns' = <<>> THEN Gone ELSE here]
    /\ UNCHANGED seen

ConnectFirst(c) ==
    /\ hand[c].pc = "off" /\ conns = <<>>
    /\ sock' = [sock EXCEPT ![c] = "open"]
    /\ conns' = <<c>>
    /\ due' = [due EXCEPT ![c] = {e \in 1..published : e > published - MAX_BUFFER}]
    /\ IF published = 0 THEN Register(c, 0)
       ELSE Replay(c, Oldest(published), published)
    /\ UNCHANGED <<published, pub, clean, lock>>

ConnectLater(c) ==
    /\ hand[c].pc = "off" /\ conns # <<>>
    /\ sock' = [sock EXCEPT ![c] = "open"]
    /\ conns' = Append(conns, c)
    /\ hand' = [hand EXCEPT ![c] = [Off EXCEPT !.pc = "recv", !.last = published]]
    /\ UNCHANGED <<published, subs, pub, clean, lock, hb, seen, due>>

\* One replayed event is sent; with nobody left the others are not awaited.
ReplayEnd(c) ==
    /\ hand[c].pc = "replay"
    /\ \E F \in SUBSET MayFail(hand[c].to) : DisconnectStale(hand[c].to, F)
    /\ UNCHANGED <<published, pub, sock, due>>
    /\ IF conns' = <<>> \/ hand[c].ev = hand[c].last
       THEN Register(c, hand[c].last)
       ELSE Replay(c, hand[c].ev + 1, hand[c].last)

\* The lock is free; a missing entry is the KeyError again.
Unlock(c) ==
    /\ hand[c].pc = "lock"
    /\ \A k \in hand[c].ahead : clean[k].done
    /\ hand' = [hand EXCEPT ![c] =
                  IF conns = <<>> THEN Gone
                  ELSE [Off EXCEPT !.pc = "recv", !.last = hand[c].last]]
    /\ UNCHANGED <<published, subs, pub, conns, sock, clean, lock, hb, seen, due>>

\* The page is closed or reloaded, or the network fails.
Leave(c) ==
    /\ sock[c] = "open"
    /\ sock' = [sock EXCEPT ![c] = "dead"]
    /\ seen' = [seen EXCEPT ![c] = <<>>]
    /\ due' = [due EXCEPT ![c] = {}]
    /\ UNCHANGED <<published, subs, pub, conns, hand, clean, lock, hb>>

\* receive_text raises WebSocketDisconnect.
Receive(c) ==
    /\ hand[c].pc = "recv" /\ sock[c] = "dead"
    /\ hand' = [hand EXCEPT ![c] = Gone]
    /\ Disconnect({c})
    /\ UNCHANGED <<published, subs, pub, sock, hb, seen, due>>

\* A round of pings found some peers gone.
Heartbeat ==
    /\ hb
    /\ \E S \in SUBSET {c \in Members(conns) : sock[c] = "dead"} :
         S # {} /\ Disconnect(S)
    /\ UNCHANGED <<published, subs, pub, sock, hand, hb, seen, due>>

\* TIMING: the grace period outlasts a replay that has nobody to send to.
GraceOver == conns = <<>> => \A c \in Clients : hand[c].pc # "replay"

\* _cleanup_run k holds its lock, has slept, and looks again.
Cleanup(k) ==
    /\ k \in DOMAIN clean /\ ~clean[k].done
    /\ \A j \in 1..k - 1 : clean[j].lock # clean[k].lock
    /\ GraceOver
    /\ clean' = [clean EXCEPT ![k] = Released(k)]
    /\ IF Reconnected
       THEN UNCHANGED <<subs, hb, lock>>
       ELSE subs' = Unsubscribed /\ hb' = FALSE /\ lock' = 0
    /\ UNCHANGED <<published, pub, conns, sock, hand, seen, due>>

-----------------------------------------------------------------------------
HandlerStep(c) == ReplayEnd(c) \/ Unlock(c) \/ Receive(c)
BroadcastStep(p) == \E k \in DOMAIN pub[p] : Begin(p, k) \/ End(p, k)
CleanupStep == \E k \in DOMAIN clean : Cleanup(k)

Next ==
    \/ \E p \in Publishers : Publish(p) \/ BroadcastStep(p)
    \/ \E c \in Clients : ConnectFirst(c) \/ ConnectLater(c) \/ Leave(c) \/ HandlerStep(c)
    \/ Heartbeat
    \/ CleanupStep

Spec == Init /\ [][Next]_vars

\* Sends return (uvicorn's own pings end those to a hung peer), the grace
\* period passes, and asyncio runs what is ready.  Nobody has to come, to
\* leave, to publish, or to be found out by the heartbeat.
FairSpec ==
    /\ Spec
    /\ \A p \in Publishers : WF_vars(BroadcastStep(p))
    /\ \A c \in Clients : WF_vars(HandlerStep(c))
    /\ WF_vars(CleanupStep)

-----------------------------------------------------------------------------
Broadcast == [pc : {"ready", "sending", "done"}, ev : Nat, to : Seq(Clients)]
Handler == [pc : {"off", "replay", "lock", "recv", "gone"}, last : Nat, ev : Nat,
            to : Seq(Clients), ahead : SUBSET Nat]

\* Every variable keeps its type.
TypeOK ==
    /\ published \in Nat /\ subs \in Nat
    /\ pub \in [Publishers -> Seq(Broadcast)]
    /\ conns \in Seq(Clients)
    /\ sock \in [Clients -> {"new", "open", "dead"}]
    /\ hand \in [Clients -> Handler]
    /\ clean \in Seq([lock : Nat, done : BOOLEAN])
    /\ lock \in Nat /\ hb \in BOOLEAN
    /\ seen \in [Clients -> Seq(Nat)]
    /\ due \in [Clients -> SUBSET Nat]

\* Whoever is connected is served: unless somebody is still being replayed to
\* (and will register), the run has a callback on the bus and a heartbeat.  A
\* clean-up left over from earlier clients never takes them away
\* (_cleanup_run's grace period and second look).
Served ==
    conns # <<>> /\ (\A c \in Clients : hand[c].pc # "replay") => subs > 0 /\ hb

\* A connection gets every event that was buffered when it came (if it came
\* first) and every event published while it was connected and a callback was
\* registered, as soon as the broadcast of that event has begun.
Delivered ==
    \A c \in Members(conns) : sock[c] = "open" =>
        \A e \in due[c] :
            \/ e \in Members(seen[c])
            \/ hand[c].pc = "replay" /\ e > hand[c].ev
            \/ \E p \in Publishers : \E k \in DOMAIN pub[p] :
                  pub[p][k].pc = "ready" /\ pub[p][k].ev = e

\* When everybody has left, the callback and the heartbeat go too, unless
\* somebody comes back.
CleanedUp == (conns = <<>>) ~> (conns # <<>> \/ (subs = 0 /\ ~hb))

\* "Per-run subscription: first client connects -> subscribe; last
\* disconnects -> unsubscribe" (ws/hub.py): a run has one callback.
OneSubscription == subs <= 1

\* "Buffers events per channel so late subscribers don't miss early messages"
\* (local_bus.py): a connected client has seen all that was published since
\* the oldest event it was replayed.
NoneMissed ==
    \A c \in Members(conns) :
        /\ sock[c] = "open" /\ hand[c].pc = "recv" /\ published > 0
        /\ \A p \in Publishers : Returned(p)
        => Oldest(hand[c].last)..published \subseteq Members(seen[c])

\* "Late-connecting clients replay from the event bus buffer" (ws/hub.py).
LateReplayed ==
    \A c \in Members(conns) :
        sock[c] = "open" /\ hand[c].pc = "recv" /\ hand[c].last > 0
            => Oldest(hand[c].last)..hand[c].last \subseteq Members(seen[c])

\* "Remove stale connections" (ws/hub.py): an open connection whose endpoint
\* is waiting for its messages is never dropped.
OnlyStaleRemoved ==
    \A c \in Clients : sock[c] = "open" /\ hand[c].pc = "recv" => c \in Members(conns)

-----------------------------------------------------------------------------
(* The feed of a connection that is alone on its run.                      *)

\* What one connection has seen, as the abstract feed describes it.
LastSeen(s) == IF s = <<>> THEN 0 ELSE s[Len(s)]
Interruptions(s) ==
    Cardinality({i \in DOMAIN s : s[i] # (IF i = 1 THEN 0 ELSE s[i - 1]) + 1})

TheClient == CHOOSE c \in Clients : TRUE
Feed == INSTANCE EventFeed WITH
    log <- published, at <- LastSeen(seen[TheClient]),
    skips <- Interruptions(seen[TheClient]),
    closed <- sock[TheClient] = "dead"

\* A connection that is alone gets each event at most once, in order, with at
\* most two interruptions (subscribe's replay, then the live broadcasts).
RefinesFeed == Feed!Spec
=============================================================================
