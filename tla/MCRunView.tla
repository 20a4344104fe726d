----------------------------- MODULE MCRunView -----------------------------
(* The run's view, checked, and counterexamples of what it does not keep.    *)
EXTENDS RunView

\* VIOLATED: the socket that is open is the hook's, so that it can be closed; but
\* the onclose of an older one clears wsRef, whatever it refers to
\* (useWebSocket.ts:228).
Reachable == \A k \in Slots : socks[k].st = "open" /\ socks[k].live => k = ref

\* VIOLATED: one request for a run starts one run; Ctrl+Enter is not held back
\* while a request is under way (Toolbar.tsx:208).
OneTrigger == Cardinality({c \in calls : c.op = "trigger" /\ c.live /\ c.step = "first"}) <= 1

\* VIOLATED: when every event is shown, the agent is shown as the last of them
\* left it; but a back-fill is applied after the newer events that came by the
\* socket first (runStore.ts, mergeEvents).
InOrder ==
    (runId # NoRun /\ pending = <<>> /\ Range(evs) = Range(History(runId, Len(log[runId]))))
        => NodeStatus = FoldLeft(LAMBDA s, e : NodeStatusOf(Kind(e), s), "idle",
                                 History(runId, Len(log[runId])))

\* VIOLATED: unconditionally, all that is shown under a run's id is that run's; a
\* poll's answer is applied after its run was left (useWebSocket.ts:316).
OwnEventsAlways == runId # NoRun => \A e \in Range(evs \o pending) : e[1] = runId
=============================================================================
