------------------------ MODULE DirectorRun_proofs ------------------------
(***************************************************************************)
(* Proofs about DirectorRun for every number of requests, activations,     *)
(* laps, stops and retries.                                                *)
(***************************************************************************)
EXTENDS DirectorRun, TLAPS

(* Type correctness.                                                       *)

LEMMA ProgramCounters ==
    /\ {"off", "finish", "final", "gone"} \subseteq PCs
    /\ Dispatching \subseteq PCs
    /\ {"boot", "top", "plan", "work", "gate", "review", "rework", "commit",
        "save", "savefail"} \subseteq PCs
  BY DEF PCs, Dispatching

\* Two fields of a record updated at once: the record keeps its type.
LEMMA WorldUpdate ==
    ASSUME NEW w \in WorldState, NEW n \in Nat, NEW i \in Nat
    PROVE  [w EXCEPT !.nodec = n, !.iter = i] \in WorldState
  BY DEF WorldState

LEMMA LoopUpdate ==
    ASSUME NEW x \in LoopState, NEW p \in PCs, NEW n \in Nat
    PROVE  [x EXCEPT !.pc = p, !.late = n] \in LoopState
  BY DEF LoopState

LEMMA CountersType ==
    /\ \A w \in WorldState : w.nodec + 1 \in Nat /\ w.iter + 1 \in Nat
    /\ \A x \in LoopState : x.late \in Nat /\ x.late + 1 \in Nat
  BY DEF WorldState, LoopState

\* What _finish_run and the other control operators do to the types.
LEMMA FinishRunType ==
    ASSUME TypeOK, NEW l \in Loops, NEW o \in Outcomes, NEW c \in BOOLEAN,
           FinishRun(l, o, c)
    PROVE  /\ lp' \in [Loops -> LoopState]
           /\ cur' \in Loops \cup {0}
           /\ est' \in {"unknown", "running", "cancelling"} \cup Outcomes
           /\ decided' \in SUBSET Outcomes
<1>1. lp \in [Loops -> LoopState] /\ cur \in Loops \cup {0} /\ decided \in SUBSET Outcomes
  BY DEF TypeOK
<1>2. lp' \in [Loops -> LoopState]
  BY <1>1 DEF FinishRun, LoopState, PCs
<1> QED
  BY <1>1, <1>2 DEF FinishRun

LEMMA FailRunType ==
    ASSUME TypeOK, NEW l \in Loops, FailRun(l)
    PROVE  /\ lp' \in [Loops -> LoopState]
           /\ cur' \in Loops \cup {0}
           /\ est' \in {"unknown", "running", "cancelling"} \cup Outcomes
           /\ decided' \in SUBSET Outcomes
<1>1. lp \in [Loops -> LoopState] /\ cur \in Loops \cup {0} /\ decided \in SUBSET Outcomes
  BY DEF TypeOK
<1>2. "failed" \in Outcomes
  BY DEF Outcomes
<1>3. lp' \in [Loops -> LoopState]
  BY <1>1, <1>2 DEF FailRun, LoopState, PCs
<1> QED
  BY <1>1, <1>2, <1>3 DEF FailRun

LEMMA GotoType ==
    ASSUME TypeOK, NEW l \in Loops, NEW p \in PCs, Goto(l, p)
    PROVE  /\ lp' \in [Loops -> LoopState]
           /\ cur' \in Loops \cup {0}
           /\ est' \in {"unknown", "running", "cancelling"} \cup Outcomes
           /\ decided' \in SUBSET Outcomes
  BY DEF Goto, entry, TypeOK, LoopState

LEMMA StartAgentType ==
    ASSUME TypeOK, NEW l \in Loops, NEW p \in PCs, StartAgent(l, p)
    PROVE  /\ lp' \in [Loops -> LoopState]
           /\ cur' \in Loops \cup {0}
           /\ est' \in {"unknown", "running", "cancelling"} \cup Outcomes
           /\ decided' \in SUBSET Outcomes
<1>1. CASE reg
  <2>1. lp \in [Loops -> LoopState]
    BY DEF TypeOK
  <2>2. [lp[l] EXCEPT !.pc = p, !.late = IF lp[l].ev THEN lp[l].late + 1 ELSE lp[l].late] \in LoopState
    <3>1. lp[l] \in LoopState
      BY <2>1
    <3>2. (IF lp[l].ev THEN lp[l].late + 1 ELSE lp[l].late) \in Nat
      BY <3>1, CountersType
    <3> QED
      BY <3>1, <3>2, LoopUpdate
  <2> QED
    BY <1>1, <2>1, <2>2 DEF StartAgent, entry, TypeOK
<1>2. CASE ~reg
  <2>1. FailRun(l)
    BY <1>2 DEF StartAgent
  <2> QED
    BY <2>1, FailRunType
<1> QED
  BY <1>1, <1>2 DEF TypeOK

LEMMA StartRunType ==
    ASSUME TypeOK, NEW l \in Loops, NEW c \in Nat \cup {NoCkpt}, NEW x \in BOOLEAN,
           StartRun(l, c, x)
    PROVE  /\ lp' \in [Loops -> LoopState]
           /\ src' \in [Loops -> Source]
           /\ cur' \in Loops \cup {0}
           /\ est' \in {"unknown", "running", "cancelling"} \cup Outcomes
<1>1. lp \in [Loops -> LoopState] /\ src \in [Loops -> Source]
  BY DEF TypeOK
<1>2. [lp[l] EXCEPT !.pc = "boot"] \in LoopState
  BY <1>1, ProgramCounters DEF LoopState
<1>3. [ckpt |-> c, existed |-> x] \in Source
  BY DEF Source
<1> QED
  BY <1>1, <1>2, <1>3 DEF StartRun

\* Every step of an activation keeps the types.
LEMMA LoopStepType ==
    ASSUME TypeOK, NEW l \in Loops, LoopStep(l)
    PROVE  TypeOK'
<1> USE DEF server, row, sandbox
<1>1. CASE Boot(l)
  <2>a. lp[l] \in LoopState /\ wd[l] \in WorldState /\ src[l] \in Source
    BY DEF TypeOK
  <2>1. [lp[l] EXCEPT !.pc = "top", !.sid = TRUE] \in LoopState
    BY <2>a, ProgramCounters DEF LoopState
  <2>2. Restored(src[l].ckpt) \in Nat
    BY <2>a DEF Restored, Source, NoCkpt
  <2>3. [wd[l] EXCEPT !.iter = Restored(src[l].ckpt)] \in WorldState
    BY <2>a, <2>2 DEF WorldState
  <2>4. NoSource \in Source
    BY DEF Source, NoSource
  <2> QED
    BY <1>1, <2>a, <2>1, <2>3, <2>4 DEF Boot, TypeOK, entry
<1>2. CASE BootFails(l)
  <2>1. FailRun(l) \/ FinishRun(l, "failed", FALSE)
    BY <1>2 DEF BootFails
  <2> QED
    BY <1>2, <2>1, FailRunType, FinishRunType DEF BootFails, TypeOK, Outcomes
<1>3. CASE TopCancelled(l)
  BY <1>3, FinishRunType DEF TopCancelled, TypeOK, Outcomes
<1>4. CASE TimeLimit(l)
  BY <1>4, FinishRunType DEF TimeLimit, TypeOK, Outcomes
<1>5. CASE Ask(l)
  <2>1. wd' \in [Loops -> WorldState]
    BY <1>5 DEF Ask, TypeOK, WorldState
  <2> QED
    BY <1>5, <2>1, GotoType DEF Ask, TypeOK, PCs, Dispatching
<1>6. CASE NoDecision(l)
  <2>1. wd' \in [Loops -> WorldState]
    <3>1. wd \in [Loops -> WorldState] /\ wd[l] \in WorldState
      BY DEF TypeOK
    <3>2. [wd[l] EXCEPT !.nodec = wd[l].nodec + 1, !.iter = wd[l].iter + 1] \in WorldState
      BY <3>1, CountersType, WorldUpdate
    <3> QED
      BY <1>6, <3>1, <3>2 DEF NoDecision
  <2>2. FinishRun(l, "failed", FALSE) \/ Goto(l, "top")
    BY <1>6 DEF NoDecision
  <2> QED
    BY <1>6, <2>1, <2>2, GotoType, FinishRunType
    DEF NoDecision, TypeOK, PCs, Dispatching, Outcomes
<1>7. CASE \E o \in {"completed", "failed"} : DecideEnd(l, o)
  <2>1. PICK o \in {"completed", "failed"} : DecideEnd(l, o)
    BY <1>7
  <2>2. CleanFinish(o) \in BOOLEAN /\ o \in Outcomes
    BY DEF CleanFinish, Outcomes
  <2> QED
    BY <2>1, <2>2, FinishRunType DEF DecideEnd, TypeOK
<1>8. CASE DecideUnknown(l)
  <2>1. wd' \in [Loops -> WorldState]
    <3>1. wd \in [Loops -> WorldState] /\ wd[l] \in WorldState
      BY DEF TypeOK
    <3>2. [wd[l] EXCEPT !.nodec = 0, !.iter = wd[l].iter + 1] \in WorldState
      BY <3>1, CountersType, WorldUpdate
    <3> QED
      BY <1>8, <3>1, <3>2 DEF DecideUnknown
  <2> QED
    BY <1>8, <2>1, GotoType DEF DecideUnknown, TypeOK, PCs, Dispatching
<1>9. CASE \E a \in {"coder", "other"} : DecideStep(l, a)
  <2>1. PICK a \in {"coder", "other"} : DecideStep(l, a)
    BY <1>9
  <2>2. wd' \in [Loops -> WorldState]
    BY <2>1 DEF DecideStep, TypeOK, WorldState
  <2>3. "work" \in PCs
    BY DEF PCs, Dispatching
  <2> QED
    BY <2>1, <2>2, <2>3, StartAgentType DEF DecideStep, TypeOK
<1>10. CASE \E b \in BOOLEAN : WorkReturns(l, b)
  <2>1. PICK b \in BOOLEAN : WorkReturns(l, b)
    BY <1>10
  <2>2. wd' \in [Loops -> WorldState]
    <3>1. wd \in [Loops -> WorldState] /\ wd[l] \in WorldState
      BY DEF TypeOK
    <3>2. [wd[l] EXCEPT !.attempt = 1] \in WorldState
      BY <3>1 DEF WorldState
    <3> QED
      BY <2>1, <3>1, <3>2 DEF WorkReturns
  <2>3. FinishRun(l, "cancelled", TRUE) \/ \E p \in PCs : Goto(l, p)
    BY <2>1 DEF WorkReturns, PCs, Dispatching
  <2> QED
    BY <2>1, <2>2, <2>3, GotoType, FinishRunType DEF WorkReturns, TypeOK, Outcomes
<1>11. CASE AgentRaises(l)
  BY <1>11, FailRunType DEF AgentRaises, TypeOK
<1>12. CASE Gate(l)
  <2>1. FinishRun(l, "cancelled", TRUE) \/ \E p \in PCs : Goto(l, p)
    BY <1>12 DEF Gate, PCs, Dispatching
  <2> QED
    BY <1>12, <2>1, GotoType, FinishRunType DEF Gate, TypeOK, Outcomes
<1>13. CASE \E v \in {"pass", "reject", "none"} : ReviewReturns(l, v)
  <2>1. PICK v \in {"pass", "reject", "none"} : ReviewReturns(l, v)
    BY <1>13
  <2>2. wd' \in [Loops -> WorldState]
    BY <2>1 DEF ReviewReturns, Passes, TypeOK, WorldState
  <2>3. StartAgent(l, "rework") \/ Goto(l, "commit")
    BY <2>1 DEF ReviewReturns
  <2> QED
    BY <2>1, <2>2, <2>3, GotoType, StartAgentType
    DEF ReviewReturns, TypeOK, PCs, Dispatching
<1>14. CASE \E b \in BOOLEAN : ReworkReturns(l, b)
  <2>1. PICK b \in BOOLEAN : ReworkReturns(l, b)
    BY <1>14
  <2>2. wd' \in [Loops -> WorldState]
    <3>1. wd \in [Loops -> WorldState] /\ wd[l] \in WorldState
      BY DEF TypeOK
    <3>2. [wd[l] EXCEPT !.attempt = @ + 1] \in WorldState
      BY <3>1 DEF WorldState
    <3> QED
      BY <2>1, <3>1, <3>2 DEF ReworkReturns
  <2>3. FinishRun(l, "cancelled", TRUE) \/ \E p \in PCs : Goto(l, p)
    BY <2>1 DEF ReworkReturns, PCs, Dispatching
  <2> QED
    BY <2>1, <2>2, <2>3, GotoType, FinishRunType DEF ReworkReturns, TypeOK, Outcomes
<1>15. CASE Commit(l)
  <2>1. wd' \in [Loops -> WorldState]
    BY <1>15 DEF Commit, TypeOK, WorldState
  <2> QED
    BY <1>15, <2>1, GotoType DEF Commit, TypeOK, PCs, Dispatching
<1>16. CASE Save(l)
  <2>1. ckpt' \in Nat \cup {NoCkpt}
    BY <1>16 DEF Save, WriteCheckpoint, TypeOK, WorldState
  <2> QED
    BY <1>16, <2>1, GotoType DEF Save, WriteCheckpoint, TypeOK, PCs, Dispatching
<1>17. CASE SaveFailed(l)
  <2>1. ckpt' \in Nat \cup {NoCkpt}
    BY <1>17 DEF SaveFailed, WriteCheckpoint, TypeOK, WorldState
  <2> QED
    BY <1>17, <2>1, FinishRunType DEF SaveFailed, WriteCheckpoint, TypeOK, Outcomes
<1>18. CASE WriteOutcome(l)
  <2>1. status' \in Statuses \cup {"none"}
    BY <1>18 DEF WriteOutcome, TypeOK, LoopState, Statuses
  <2> QED
    BY <1>18, <2>1, GotoType DEF WriteOutcome, TypeOK, PCs, Statuses
<1>19. CASE Cleanup(l)
  <2>1. wd' \in [Loops -> WorldState]
    BY <1>19 DEF Cleanup, NewWorld, TypeOK, WorldState
  <2> QED
    BY <1>19, <2>1, GotoType DEF Cleanup, TypeOK, PCs
<1> QED
  BY <1>1, <1>2, <1>3, <1>4, <1>5, <1>6, <1>7, <1>8, <1>9, <1>10, <1>11, <1>12,
     <1>13, <1>14, <1>15, <1>16, <1>17, <1>18, <1>19 DEF LoopStep

\* So does every step of a handler, and every call.
LEMMA HandlerType ==
    ASSUME TypeOK, NEW r \in Requests, HandlerStep(r) \/ Call(r)
    PROVE  TypeOK'
<1> USE DEF server, row, sandbox, entry
<1>a. req \in [Requests -> Request] /\ req[r] \in Request
  BY DEF TypeOK
<1>b. IdleReq \in Request /\ [IdleReq EXCEPT !.pc = "resumePut"] \in Request
  BY DEF IdleReq, Request
<1>c. \A p \in {"trigger", "cancelGot", "cancelPut", "getGot", "resumeLock"} :
         [req EXCEPT ![r].pc = p] \in [Requests -> Request]
  BY <1>a DEF Request
<1>1. CASE TriggerStart(r)
  <2>1. PICK l \in Loops : StartRun(l, NoCkpt, FALSE)
    BY <1>1 DEF TriggerStart
  <2> QED
    BY <1>1, <1>a, <1>b, <2>1, StartRunType DEF TriggerStart, TypeOK
<1>2. CASE EngineCancel(r)
  <2>1. lp \in [Loops -> LoopState] /\ cur \in Loops \cup {0}
    BY DEF TypeOK
  <2>2. \A l \in Loops : [lp[l] EXCEPT !.ev = TRUE] \in LoopState
    BY <2>1 DEF LoopState
  <2>3. lp' \in [Loops -> LoopState]
    BY <1>2, <2>1, <2>2 DEF EngineCancel
  <2> QED
    BY <1>2, <1>c, <2>3 DEF EngineCancel, TypeOK
<1>3. CASE CancelCommit(r)
  BY <1>3, <1>a, <1>b DEF CancelCommit, AckStatus, Statuses, TypeOK
<1>4. CASE GetEnrich(r)
  <2>1. est \in Reported => [IdleReq EXCEPT !.pc = "getPut", !.st = est] \in Request
    BY DEF IdleReq, Request, Reported
  <2> QED
    BY <1>4, <1>a, <1>b, <2>1 DEF GetEnrich, TypeOK
<1>5. CASE GetCommit(r)
  <2>1. status' \in Statuses
    BY <1>5, <1>a DEF GetCommit, Statuses, Request
  <2> QED
    BY <1>5, <1>a, <1>b, <2>1 DEF GetCommit, TypeOK
<1>6. CASE ResumeFlush(r)
  BY <1>6, <1>c DEF ResumeFlush, TypeOK
<1>7. CASE ResumeStart(r)
  <2>1. PICK l \in Loops : StartRun(l, req[r].ck, req[r].ex)
    BY <1>7 DEF ResumeStart
  <2>2. req[r].ck \in Nat \cup {NoCkpt} /\ req[r].ex \in BOOLEAN
    BY <1>a DEF Request
  <2>3. /\ lp' \in [Loops -> LoopState]
        /\ src' \in [Loops -> Source]
        /\ cur' \in Loops \cup {0}
        /\ est' \in {"unknown", "running", "cancelling"} \cup Outcomes
    BY <2>1, <2>2, StartRunType
  <2> QED
    BY <1>7, <1>a, <1>b, <2>3 DEF ResumeStart, TypeOK
<1>8. CASE ResumeCommit(r)
  BY <1>8, <1>a, <1>b DEF ResumeCommit, Statuses, TypeOK
<1>9. CASE TriggerCommit(r)
  BY <1>9, <1>c DEF TriggerCommit, Statuses, TypeOK
<1>10. CASE CancelSelect(r)
  BY <1>10, <1>c DEF CancelSelect, TypeOK
<1>11. CASE GetSelect(r)
  BY <1>11, <1>c DEF GetSelect, TypeOK
<1>12. CASE ResumeSelect(r)
  <2>1. [pc |-> "resumeGot", st |-> "none", ck |-> ckpt, ex |-> dir] \in Request
    BY DEF TypeOK, Request
  <2> QED
    BY <1>12, <1>a, <2>1 DEF ResumeSelect, TypeOK
<1> QED
  BY <1>1, <1>2, <1>3, <1>4, <1>5, <1>6, <1>7, <1>8, <1>9, <1>10, <1>11, <1>12
  DEF HandlerStep, Call

\* And every step of the server process.
LEMMA ServerType ==
    ASSUME TypeOK, Crash \/ Shutdown \/ Exit \/ Restart
    PROVE  TypeOK'
<1> USE DEF server, row, sandbox, entry
<1>a. lp \in [Loops -> LoopState]
  BY DEF TypeOK
<1>1. CASE Crash
  <2>1. lp' \in [Loops -> LoopState]
    BY <1>1, <1>a DEF Crash, LoopState, PCs
  <2>2. NewWorld \in WorldState /\ IdleReq \in Request
    BY DEF NewWorld, WorldState, IdleReq, Request
  <2>3. /\ wd' \in [Loops -> WorldState]
        /\ req' \in [Requests -> Request]
    BY <1>1, <2>2 DEF Crash
  <2>s. stops' \in Nat
    BY <1>1 DEF Crash, TypeOK
  <2>4. /\ mode' \in {"up", "stopping", "down"}
        /\ status' \in Statuses /\ ckpt' \in Nat \cup {NoCkpt}
        /\ cur' \in Loops \cup {0}
        /\ est' \in {"unknown", "running", "cancelling"} \cup Outcomes
        /\ dir' \in BOOLEAN /\ reg' \in BOOLEAN
    BY <1>1 DEF Crash, TypeOK
  <2>5. src' \in [Loops -> Source] /\ decided' \in SUBSET Outcomes
    BY <1>1 DEF Crash, TypeOK
  <2> QED
    BY <2>1, <2>3, <2>4, <2>5, <2>s DEF TypeOK
<1>2. CASE Shutdown
  <2>1. ASSUME NEW l \in Loops, NEW e
        PROVE  Interrupted(l, e) \in LoopState
    BY <1>a DEF Interrupted, LoopState, PCs, Outcomes
  <2>2. lp' \in [Loops -> LoopState]
    BY <1>2, <2>1 DEF Shutdown
  <2>3. /\ est' \in {"unknown", "running", "cancelling"} \cup Outcomes
        /\ decided' \in SUBSET Outcomes
    BY <1>2 DEF Shutdown, TypeOK, Outcomes
  <2> QED
    BY <1>2, <2>2, <2>3 DEF Shutdown, TypeOK
<1>3. CASE Exit
  BY <1>3 DEF Exit, TypeOK
<1>4. CASE Restart
  <2>1. /\ lp' \in [Loops -> LoopState]
        /\ src' \in [Loops -> Source]
        /\ cur' \in Loops \cup {0}
        /\ est' \in {"unknown", "running", "cancelling"} \cup Outcomes
    <3>1. CASE \E l \in Loops : StartRun(l, ckpt, TRUE)
      <4>1. PICK l \in Loops : StartRun(l, ckpt, TRUE)
        BY <3>1
      <4>2. ckpt \in Nat \cup {NoCkpt}
        BY DEF TypeOK
      <4> QED
        BY <4>1, <4>2, StartRunType
    <3>2. CASE UNCHANGED <<lp, src, entry>>
      BY <3>2 DEF TypeOK
    <3> QED
      BY <1>4, <3>1, <3>2 DEF Restart
  <2>2. status' \in Statuses
    BY <1>4 DEF Restart, TypeOK, Statuses, Outcomes, Unrecoverable
  <2> QED
    BY <1>4, <2>1, <2>2 DEF Restart, TypeOK
<1> QED
  BY <1>1, <1>2, <1>3, <1>4

\* Every variable keeps its type: the statuses written by the loop, by the
\* handlers and by recovery are those the rest of the code knows.
THEOREM TypeCorrect == Spec => []TypeOK
<1>1. Init => TypeOK
  <2>1. NewLoop \in LoopState
    BY DEF NewLoop, LoopState, PCs
  <2>2. NewWorld \in WorldState
    BY DEF NewWorld, WorldState
  <2>3. NoSource \in Source /\ IdleReq \in Request
    BY DEF NoSource, Source, IdleReq, Request
  <2>4. Init => /\ lp \in [Loops -> LoopState] /\ wd \in [Loops -> WorldState]
                /\ src \in [Loops -> Source] /\ req \in [Requests -> Request]
    BY <2>1, <2>2, <2>3 DEF Init
  <2>5. Init => /\ mode \in {"up", "stopping", "down"} /\ status \in Statuses
                /\ dir \in BOOLEAN /\ reg \in BOOLEAN /\ decided \in SUBSET Outcomes
                /\ est \in {"unknown", "running", "cancelling"} \cup Outcomes
    BY DEF Init, Statuses
  <2>6. Init => /\ stops \in Nat /\ ckpt \in Nat \cup {NoCkpt} /\ cur \in Loops \cup {0}
    BY DEF Init
  <2> QED
    BY <2>4, <2>5, <2>6 DEF TypeOK
<1>2. TypeOK /\ [Next]_vars => TypeOK'
  <2>1. ASSUME TypeOK, Next PROVE TypeOK'
    BY <2>1, LoopStepType, HandlerType, ServerType DEF Next
  <2>2. ASSUME TypeOK, UNCHANGED vars PROVE TypeOK'
    BY <2>2 DEF vars, TypeOK
  <2> QED
    BY <2>1, <2>2
<1> QED
  BY <1>1, <1>2, PTL DEF Spec

-----------------------------------------------------------------------------
(* What the control operators do to the record of the activation.          *)

\* Only the activation that steps changes.
LEMMA LoopFrame ==
    ASSUME TypeOK, NEW l \in Loops, LoopStep(l), NEW k \in Loops, k # l
    PROVE  lp'[k] = lp[k] /\ wd'[k] = wd[k]
<1>1. lp \in [Loops -> LoopState] /\ wd \in [Loops -> WorldState]
  BY DEF TypeOK
<1>2. \A o, c : FinishRun(l, o, c) => lp'[k] = lp[k]
  BY <1>1 DEF FinishRun
<1>3. FailRun(l) => lp'[k] = lp[k]
  BY <1>1 DEF FailRun
<1>4. \A p : Goto(l, p) => lp'[k] = lp[k]
  BY <1>1 DEF Goto
<1>5. \A p : StartAgent(l, p) => lp'[k] = lp[k]
  BY <1>1, <1>3 DEF StartAgent
<1> QED
  BY <1>1, <1>2, <1>3, <1>4, <1>5
  DEF LoopStep, Boot, BootFails, TopCancelled, TimeLimit, Ask, NoDecision, DecideEnd,
      DecideUnknown, DecideStep, WorkReturns, AgentRaises, Gate, ReviewReturns,
      ReworkReturns, Commit, Save, SaveFailed, WriteOutcome, Cleanup

LEMMA FinishRunEffect ==
    ASSUME TypeOK, NEW l \in Loops, NEW o, NEW c, FinishRun(l, o, c)
    PROVE  /\ lp'[l].pc = "finish" /\ lp'[l].out = o /\ lp'[l].exc = lp[l].exc
           /\ lp'[l].ev = lp[l].ev /\ lp'[l].late = lp[l].late
           /\ est' = o /\ cur' = cur /\ decided' = decided \cup {o}
  BY DEF FinishRun, TypeOK, LoopState

LEMMA FailRunEffect ==
    ASSUME TypeOK, NEW l \in Loops, FailRun(l)
    PROVE  /\ lp'[l].pc = "finish" /\ lp'[l].out = "failed"
           /\ lp'[l].ev = lp[l].ev /\ lp'[l].late = lp[l].late
           /\ est' = "failed" /\ cur' = cur /\ decided' = decided \cup {"failed"}
  BY DEF FailRun, TypeOK, LoopState

LEMMA GotoEffect ==
    ASSUME TypeOK, NEW l \in Loops, NEW p, Goto(l, p)
    PROVE  /\ lp'[l].pc = p /\ lp'[l].out = lp[l].out /\ lp'[l].exc = lp[l].exc
           /\ lp'[l].ev = lp[l].ev /\ lp'[l].late = lp[l].late
           /\ est' = est /\ cur' = cur /\ decided' = decided
  BY DEF Goto, entry, TypeOK, LoopState

LEMMA StartAgentEffect ==
    ASSUME TypeOK, NEW l \in Loops, NEW p, StartAgent(l, p)
    PROVE  \/ /\ lp'[l].pc = p /\ lp'[l].out = lp[l].out /\ lp'[l].exc = lp[l].exc
              /\ lp'[l].ev = lp[l].ev
              /\ lp'[l].late = IF lp[l].ev THEN lp[l].late + 1 ELSE lp[l].late
              /\ est' = est /\ cur' = cur /\ decided' = decided
           \/ FailRun(l)
<1>1. lp \in [Loops -> LoopState] /\ lp[l] \in LoopState
  BY DEF TypeOK
<1>2. CASE ~FailRun(l)
  <2>1. lp' = [lp EXCEPT ![l] = [lp[l] EXCEPT !.pc = p,
                 !.late = IF lp[l].ev THEN lp[l].late + 1 ELSE lp[l].late]]
    BY <1>2 DEF StartAgent
  <2>2. DEFINE n == IF lp[l].ev THEN lp[l].late + 1 ELSE lp[l].late
  <2>3. lp'[l] = [lp[l] EXCEPT !.pc = p, !.late = n]
    BY <2>1, <1>1
  <2>4. UNCHANGED <<entry, decided>>
    BY <1>2 DEF StartAgent
  <2> HIDE DEF n
  <2>5. /\ lp'[l].pc = p /\ lp'[l].out = lp[l].out /\ lp'[l].exc = lp[l].exc
        /\ lp'[l].ev = lp[l].ev /\ lp'[l].late = n
    BY <2>3, <1>1 DEF LoopState
  <2> QED
    BY <2>4, <2>5 DEF n, entry
<1> QED
  BY <1>2

LEMMA BootEffect ==
    ASSUME TypeOK, NEW l \in Loops, Boot(l)
    PROVE  /\ lp'[l].pc = "top" /\ lp'[l].out = lp[l].out /\ lp'[l].exc = lp[l].exc
           /\ lp'[l].ev = lp[l].ev /\ lp'[l].late = lp[l].late
           /\ est' = est /\ cur' = cur /\ decided' = decided
<1>1. lp \in [Loops -> LoopState] /\ lp[l] \in LoopState
  BY DEF TypeOK
<1>2. lp'[l] = [lp[l] EXCEPT !.pc = "top", !.sid = TRUE]
  BY <1>1 DEF Boot
<1>3. /\ lp'[l].pc = "top" /\ lp'[l].out = lp[l].out /\ lp'[l].exc = lp[l].exc
      /\ lp'[l].ev = lp[l].ev /\ lp'[l].late = lp[l].late
  BY <1>1, <1>2 DEF LoopState
<1> QED
  BY <1>3 DEF Boot, entry

\* Where each of them leads.
LEMMA Destinations ==
    ASSUME TypeOK, NEW l \in Loops
    PROVE  /\ \A o, c : FinishRun(l, o, c) => lp'[l].pc = "finish"
           /\ FailRun(l) => lp'[l].pc = "finish"
           /\ \A p : Goto(l, p) => lp'[l].pc = p
           /\ \A p : StartAgent(l, p) => lp'[l].pc \in {p, "finish"}
  BY FinishRunEffect, FailRunEffect, GotoEffect, StartAgentEffect

-----------------------------------------------------------------------------
(* What a step of the whole system is to one activation: a step of its     *)
(* own, or one of the following.                                           *)

Unmoved(l) == lp'[l] = lp[l] /\ wd'[l] = wd[l]

Started(l) ==
    /\ lp[l].pc = "off"
    /\ lp'[l] = [lp[l] EXCEPT !.pc = "boot"]
    /\ cur' = l /\ est' = "running"
    /\ wd'[l] = wd[l]

ToldToCancel(l) ==
    /\ cur = l /\ est = "running"
    /\ lp'[l] = [lp[l] EXCEPT !.ev = TRUE]
    /\ wd'[l] = wd[l]

Killed(l) ==
    /\ lp[l].pc # "off"
    /\ lp'[l] = [lp[l] EXCEPT !.pc = "gone"]
    /\ wd'[l] = NewWorld

StoppedIn(l) ==
    /\ \E emitting : lp'[l] = Interrupted(l, emitting)
    /\ wd'[l] = wd[l]

Unstarted(l) == lp[l].pc = "off" /\ lp'[l] = lp[l]

LEMMA StartRunEffect ==
    ASSUME TypeOK, NEW k \in Loops, NEW c, NEW x, StartRun(k, c, x), wd' = wd,
           NEW l \in Loops
    PROVE  Started(l) \/ Unmoved(l)
<1>1. lp \in [Loops -> LoopState]
  BY DEF TypeOK
<1>2. CASE l = k
  BY <1>1, <1>2 DEF StartRun, Started
<1>3. CASE l # k
  BY <1>1, <1>3 DEF StartRun, Unmoved
<1> QED
  BY <1>2, <1>3

LEMMA HandlerEffect ==
    ASSUME TypeOK, NEW r \in Requests, HandlerStep(r) \/ Call(r), NEW l \in Loops
    PROVE  Unmoved(l) \/ Started(l) \/ ToldToCancel(l)
<1>1. wd' = wd
  BY DEF HandlerStep, Call, TriggerStart, EngineCancel, CancelCommit, GetEnrich,
         GetCommit, ResumeFlush, ResumeStart, ResumeCommit, TriggerCommit,
         CancelSelect, GetSelect, ResumeSelect
<1>2. CASE TriggerStart(r) \/ ResumeStart(r)
  <2>1. \E k \in Loops : \E c, x : StartRun(k, c, x)
    BY <1>2 DEF TriggerStart, ResumeStart
  <2> QED
    BY <1>1, <2>1, StartRunEffect
<1>3. CASE EngineCancel(r)
  <2>1. CASE cur # 0 /\ est = "running" /\ l = cur
    <3>1. lp' = [lp EXCEPT ![cur].ev = TRUE]
      BY <1>3, <2>1 DEF EngineCancel
    <3>2. lp'[l] = [lp[l] EXCEPT !.ev = TRUE]
      BY <3>1, <2>1 DEF TypeOK
    <3> QED
      BY <1>1, <2>1, <3>2 DEF ToldToCancel
  <2>2. CASE ~(cur # 0 /\ est = "running" /\ l = cur)
    BY <1>1, <1>3, <2>2 DEF EngineCancel, Unmoved, TypeOK
  <2> QED
    BY <2>1, <2>2
<1>4. CASE lp' = lp
  BY <1>1, <1>4 DEF Unmoved
<1> QED
  BY <1>2, <1>3, <1>4
  DEF HandlerStep, Call, CancelCommit, GetEnrich, GetCommit, ResumeFlush,
      ResumeCommit, TriggerCommit, CancelSelect, GetSelect, ResumeSelect

LEMMA ServerEffect ==
    ASSUME TypeOK, Crash \/ Shutdown \/ Exit \/ Restart, NEW l \in Loops
    PROVE  Unmoved(l) \/ Started(l) \/ Killed(l) \/ StoppedIn(l) \/ Unstarted(l)
<1>1. CASE Crash
  <2>1. wd'[l] = NewWorld
    BY <1>1 DEF Crash
  <2>2. CASE lp[l].pc = "off"
    BY <1>1, <2>2 DEF Crash, Unstarted
  <2>3. CASE lp[l].pc # "off"
    <3>1. lp'[l] = [lp[l] EXCEPT !.pc = "gone"]
      BY <1>1, <2>3 DEF Crash
    <3> QED
      BY <2>1, <2>3, <3>1 DEF Killed
  <2> QED
    BY <2>2, <2>3
<1>2. CASE Shutdown
  <2>1. PICK emitting : lp' = [k \in Loops |-> Interrupted(k, emitting)]
    BY <1>2 DEF Shutdown
  <2>2. lp'[l] = Interrupted(l, emitting)
    BY <2>1
  <2> QED
    BY <1>2, <2>2 DEF Shutdown, StoppedIn
<1>3. CASE Exit
  BY <1>3 DEF Exit, Unmoved
<1>4. CASE Restart
  <2>1. wd' = wd
    BY <1>4 DEF Restart
  <2>2. (\E k \in Loops : StartRun(k, ckpt, TRUE)) \/ lp' = lp
    BY <1>4 DEF Restart
  <2> QED
    BY <2>1, <2>2, StartRunEffect DEF Unmoved
<1> QED
  BY <1>1, <1>2, <1>3, <1>4

\* The decomposition every invariant of one activation rests on.
LEMMA StepEffect ==
    ASSUME TypeOK, [Next]_vars, NEW l \in Loops
    PROVE  \/ LoopStep(l)
           \/ Unmoved(l) \/ Started(l) \/ ToldToCancel(l)
           \/ Killed(l) \/ StoppedIn(l) \/ Unstarted(l)
<1>1. CASE UNCHANGED vars
  BY <1>1 DEF vars, Unmoved
<1>2. CASE \E k \in Loops : LoopStep(k)
  BY <1>2, LoopFrame DEF Unmoved
<1>3. CASE \E r \in Requests : HandlerStep(r) \/ Call(r)
  BY <1>3, HandlerEffect
<1>4. CASE Crash \/ Shutdown \/ Exit \/ Restart
  BY <1>4, ServerEffect
<1> QED
  BY <1>1, <1>2, <1>3, <1>4 DEF Next

\* An interrupted activation is on its way out; its event is as it was.
LEMMA InterruptedEffect ==
    ASSUME NEW l, lp[l] \in LoopState, NEW emitting
    PROVE  /\ Interrupted(l, emitting).pc \in {"off", "finish", "final", "gone"}
           /\ lp[l].pc # "off" => Interrupted(l, emitting).pc # "off"
           /\ Interrupted(l, emitting).ev = lp[l].ev
           /\ Interrupted(l, emitting).late = lp[l].late
           /\ \/ Interrupted(l, emitting).out = lp[l].out
              \/ /\ Interrupted(l, emitting).out = "cancelled"
                 /\ Interrupted(l, emitting).pc = "finish"
  BY DEF Interrupted, LoopState, PCs

-----------------------------------------------------------------------------
(* The review gate.                                                        *)

Reviewed(l) ==
    lp[l].pc \in {"commit", "save"} /\ wd[l].act = "coder" => wd[l].verdict = "pass"

LEMMA ReviewGateStep ==
    ASSUME TypeOK, NEW l \in Loops, Reviewed(l), LoopStep(l)
    PROVE  Reviewed(l)'
<1>1. lp[l] \in LoopState /\ wd[l] \in WorldState /\ wd \in [Loops -> WorldState]
  BY DEF TypeOK
\* Most steps lead nowhere near the commit.
<1>2. CASE lp'[l].pc \notin {"commit", "save"}
  BY <1>2 DEF Reviewed
<1>3. CASE lp'[l].pc \in {"commit", "save"}
  <2>1. \/ \E b \in BOOLEAN : WorkReturns(l, b)
        \/ \E v \in {"pass", "reject", "none"} : ReviewReturns(l, v)
        \/ Commit(l)
    <3>1. /\ \A o, c : ~FinishRun(l, o, c)
          /\ ~FailRun(l)
          /\ \A p : p \notin {"commit", "save"} => ~Goto(l, p)
          /\ \A p : p \notin {"commit", "save"} => ~StartAgent(l, p)
      BY <1>3, Destinations
    <3>5. ~Boot(l)
      BY <1>3, BootEffect
    <3>6. /\ ~Goto(l, "top") /\ ~Goto(l, "plan") /\ ~Goto(l, "gate")
          /\ ~Goto(l, "review") /\ ~Goto(l, "savefail") /\ ~Goto(l, "final")
          /\ ~Goto(l, "gone") /\ ~StartAgent(l, "work") /\ ~StartAgent(l, "rework")
      BY <3>1
    <3>7. /\ ~BootFails(l) /\ ~TopCancelled(l) /\ ~TimeLimit(l) /\ ~Ask(l)
          /\ ~NoDecision(l) /\ ~DecideUnknown(l)
      BY <3>1, <3>6 DEF BootFails, TopCancelled, TimeLimit, Ask, NoDecision, DecideUnknown
    <3>8. /\ \A o : ~DecideEnd(l, o)
          /\ \A a : ~DecideStep(l, a)
          /\ \A b : ~ReworkReturns(l, b)
      BY <3>1, <3>6 DEF DecideEnd, DecideStep, ReworkReturns
    <3>9. /\ ~AgentRaises(l) /\ ~Gate(l) /\ ~Save(l) /\ ~SaveFailed(l)
          /\ ~WriteOutcome(l) /\ ~Cleanup(l)
      BY <3>1, <3>6 DEF AgentRaises, Gate, Save, SaveFailed, WriteOutcome, Cleanup
    <3> QED
      BY <3>5, <3>7, <3>8, <3>9 DEF LoopStep
  \* Unreviewed work is not a coder's ...
  <2>2. CASE \E b \in BOOLEAN : WorkReturns(l, b)
    <3>1. PICK b \in BOOLEAN : WorkReturns(l, b)
      BY <2>2
    <3>2. ~FinishRun(l, "cancelled", TRUE) /\ ~Goto(l, "savefail") /\ ~Goto(l, "gate")
      BY <1>3, Destinations
    <3>3. wd[l].act # "coder" /\ wd' = wd
      BY <3>1, <3>2 DEF WorkReturns
    <3> QED
      BY <3>3 DEF Reviewed
  \* ... reviewed work was passed ...
  <2>3. CASE \E v \in {"pass", "reject", "none"} : ReviewReturns(l, v)
    <3>1. PICK v \in {"pass", "reject", "none"} : ReviewReturns(l, v)
      BY <2>3
    <3>2. ~StartAgent(l, "rework")
      BY <1>3, Destinations
    <3>3. Passes(v)
      BY <3>1, <3>2 DEF ReviewReturns
    <3>4. wd'[l].verdict = "pass"
      BY <3>1, <3>3, <1>1 DEF ReviewReturns, Passes, WorldState
    <3> QED
      BY <3>4 DEF Reviewed
  \* ... and the commit changes neither.
  <2>4. CASE Commit(l)
    <3>1. wd'[l].act = wd[l].act /\ wd'[l].verdict = wd[l].verdict
      BY <2>4, <1>1 DEF Commit, WorldState
    <3> QED
      BY <2>4, <3>1 DEF Commit, Reviewed
  <2> QED
    BY <2>1, <2>2, <2>3, <2>4
<1> QED
  BY <1>2, <1>3

\* What is committed and checkpointed of a coder has passed its review.
THEOREM ReviewGateHolds == Spec => []ReviewGate
<1>1. Init => ReviewGate
  BY DEF Init, ReviewGate, NewLoop
<1>2. TypeOK /\ ReviewGate /\ [Next]_vars => ReviewGate'
  <2> SUFFICES ASSUME TypeOK, ReviewGate, [Next]_vars, NEW l \in Loops
               PROVE  Reviewed(l)'
    BY DEF ReviewGate, Reviewed
  <2>1. Reviewed(l) /\ lp[l] \in LoopState
    BY DEF ReviewGate, Reviewed, TypeOK
  <2>2. CASE LoopStep(l)
    BY <2>1, <2>2, ReviewGateStep
  <2>3. CASE Unmoved(l)
    BY <2>1, <2>3 DEF Unmoved, Reviewed
  <2>4. CASE Started(l)
    BY <2>1, <2>4 DEF Started, Reviewed, LoopState
  <2>5. CASE ToldToCancel(l)
    BY <2>1, <2>5 DEF ToldToCancel, Reviewed, LoopState
  <2>6. CASE Killed(l)
    BY <2>1, <2>6 DEF Killed, Reviewed, LoopState
  <2>7. CASE StoppedIn(l)
    BY <2>1, <2>7, InterruptedEffect DEF StoppedIn, Reviewed
  <2>8. CASE Unstarted(l)
    BY <2>8 DEF Unstarted, Reviewed
  <2> QED
    BY <2>2, <2>3, <2>4, <2>5, <2>6, <2>7, <2>8, StepEffect
<1> QED
  BY <1>1, <1>2, TypeCorrect, PTL DEF Spec

-----------------------------------------------------------------------------
(* Cancellation.                                                           *)

\* Where an activation that started an agent too late can be: still in that
\* agent's step, or ending.
AfterLate == {"work", "rework", "gate", "finish", "final", "gone"}

LateOnce(l) ==
    /\ lp[l].late \in {0, 1}
    /\ lp[l].late = 1 => lp[l].ev /\ lp[l].pc \in AfterLate

\* The shape of an activation's steps, as far as endings and cancellation go.
\* It ends as cancelled only if its event is set; and from where a late agent
\* may have been started, control moves on with the event set only to the gate
\* or to the end.
Ends(l) ==
    \E o \in Outcomes :
        /\ \E c : FinishRun(l, o, c)
        /\ lp[l].pc \in Dispatching
        /\ o = "cancelled" => lp[l].ev

Moves(l) ==
    \E p : /\ Goto(l, p)
           /\ lp[l].pc \in AfterLate /\ lp[l].ev => p \in AfterLate
           /\ \/ lp[l].pc \in Dispatching /\ p \in Dispatching
              \/ lp[l].pc = "finish" /\ p = "final"
              \/ lp[l].pc = "final" /\ p = "gone"

Employs(l) ==
    \E p \in {"work", "rework"} : /\ StartAgent(l, p)
                                  /\ lp[l].pc \in Dispatching \ AfterLate

LEMMA StepShape ==
    ASSUME NEW l \in Loops, LoopStep(l)
    PROVE  \/ Boot(l) \/ (FailRun(l) /\ lp[l].pc \in Dispatching)
           \/ Ends(l) \/ Moves(l) \/ Employs(l)
<1> USE DEF Dispatching, AfterLate, Outcomes
<1>1. BootFails(l) => (FailRun(l) /\ lp[l].pc \in Dispatching) \/ Ends(l)
  BY DEF BootFails, Ends
<1>2. TopCancelled(l) \/ TimeLimit(l) \/ SaveFailed(l) => Ends(l)
  BY DEF TopCancelled, TimeLimit, SaveFailed, Ends
<1>3. AgentRaises(l) => FailRun(l) /\ lp[l].pc \in Dispatching
  BY DEF AgentRaises
<1>4. (\E o \in {"completed", "failed"} : DecideEnd(l, o)) => Ends(l)
  BY DEF DecideEnd, Ends
<1>5. Ask(l) \/ DecideUnknown(l) \/ Commit(l) \/ Save(l) => Moves(l)
  BY DEF Ask, DecideUnknown, Commit, Save, Moves
<1>6. NoDecision(l) => Ends(l) \/ Moves(l)
  BY DEF NoDecision, Ends, Moves
<1>7. ASSUME \E b \in BOOLEAN : WorkReturns(l, b) PROVE Ends(l) \/ Moves(l)
  BY <1>7 DEF WorkReturns, Ends, Moves
<1>8. Gate(l) => Ends(l) \/ Moves(l)
  BY DEF Gate, GateStops, Ends, Moves
<1>9. ASSUME \E b \in BOOLEAN : ReworkReturns(l, b) PROVE Ends(l) \/ Moves(l)
  BY <1>9 DEF ReworkReturns, Ends, Moves
<1>10. WriteOutcome(l) \/ Cleanup(l) => Moves(l)
  BY DEF WriteOutcome, Cleanup, Moves
<1>11. (\E a \in {"coder", "other"} : DecideStep(l, a)) => Employs(l)
  BY DEF DecideStep, Employs
<1>12. ASSUME \E v \in {"pass", "reject", "none"} : ReviewReturns(l, v)
       PROVE  Employs(l) \/ Moves(l)
  BY <1>12 DEF ReviewReturns, Employs, Moves
<1> QED
  BY <1>1, <1>2, <1>3, <1>4, <1>5, <1>6, <1>7, <1>8, <1>9, <1>10, <1>11, <1>12
  DEF LoopStep

LEMMA LateOnceStep ==
    ASSUME TypeOK, NEW l \in Loops, LateOnce(l), LoopStep(l)
    PROVE  LateOnce(l)'
<1>1. CASE Boot(l)
  BY <1>1, BootEffect DEF LateOnce, AfterLate, Boot
<1>2. CASE FailRun(l)
  BY <1>2, FailRunEffect DEF LateOnce, AfterLate
<1>3. CASE Ends(l)
  BY <1>3, FinishRunEffect DEF Ends, LateOnce, AfterLate
<1>4. CASE Moves(l)
  BY <1>4, GotoEffect DEF Moves, LateOnce
<1>5. CASE Employs(l)
  <2>1. PICK p \in {"work", "rework"} : StartAgent(l, p) /\ lp[l].pc \notin AfterLate
    BY <1>5 DEF Employs
  <2>2. lp[l].late = 0 /\ p \in AfterLate
    BY <2>1 DEF LateOnce, AfterLate
  <2> QED
    BY <1>2, <2>1, <2>2, StartAgentEffect DEF LateOnce
<1> QED
  BY <1>1, <1>2, <1>3, <1>4, <1>5, StepShape

LEMMA LateOnceNext ==
    ASSUME TypeOK, NEW l \in Loops, LateOnce(l), [Next]_vars
    PROVE  LateOnce(l)'
<1>1. lp[l] \in LoopState
  BY DEF TypeOK
<1>2. CASE LoopStep(l)
  BY <1>2, LateOnceStep
<1>3. CASE Unmoved(l) \/ Unstarted(l)
  BY <1>3 DEF Unmoved, Unstarted, LateOnce
<1>4. CASE Started(l)
  BY <1>1, <1>4 DEF Started, LateOnce, LoopState, AfterLate
<1>5. CASE ToldToCancel(l)
  BY <1>1, <1>5 DEF ToldToCancel, LateOnce, LoopState
<1>6. CASE Killed(l)
  BY <1>1, <1>6 DEF Killed, LateOnce, LoopState, AfterLate
<1>7. CASE StoppedIn(l)
  BY <1>1, <1>7, InterruptedEffect DEF StoppedIn, LateOnce, AfterLate
<1> QED
  BY <1>2, <1>3, <1>4, <1>5, <1>6, <1>7, StepEffect

\* An activation that was told to cancel starts at most one more agent.
THEOREM CancelBoundHolds == Spec => []CancelBound
<1> DEFINE Inv == \A l \in Loops : LateOnce(l)
<1>1. Init => Inv
  BY DEF Init, LateOnce, NewLoop
<1>2. TypeOK /\ Inv /\ [Next]_vars => Inv'
  BY LateOnceNext
<1>3. Inv => CancelBound
  BY DEF LateOnce, CancelBound
<1> QED
  BY <1>1, <1>2, <1>3, TypeCorrect, PTL DEF Spec

-----------------------------------------------------------------------------
(* Outcomes.                                                               *)

\* Wherever an outcome is kept on its way to the row - in the registry, in an
\* activation, in a request that read the registry - somebody decided it.
OutcomesDecided ==
    /\ est \in Outcomes => est \in decided
    /\ \A l \in Loops : lp[l].out \in Outcomes => lp[l].out \in decided
    /\ \A r \in Requests : req[r].st \in Outcomes => req[r].st \in decided
    /\ status \in {"completed", "cancelled"} => status \in decided

LEMMA LoopOutcome ==
    ASSUME TypeOK, NEW l \in Loops, LoopStep(l), OutcomesDecided
    PROVE  /\ decided \subseteq decided'
           /\ est' \in Outcomes => est' \in decided'
           /\ lp'[l].out \in Outcomes => lp'[l].out \in decided'
<1>1. lp[l].out \in Outcomes => lp[l].out \in decided
  BY DEF OutcomesDecided
<1>2. CASE Boot(l)
  BY <1>1, <1>2, BootEffect DEF OutcomesDecided
<1>3. CASE FailRun(l)
  BY <1>1, <1>3, FailRunEffect DEF OutcomesDecided
<1>4. CASE Ends(l)
  BY <1>1, <1>4, FinishRunEffect DEF Ends, OutcomesDecided
<1>5. CASE Moves(l)
  BY <1>1, <1>5, GotoEffect DEF Moves, OutcomesDecided
<1>6. CASE Employs(l)
  BY <1>1, <1>3, <1>6, StartAgentEffect DEF Employs, OutcomesDecided
<1> QED
  BY <1>2, <1>3, <1>4, <1>5, <1>6, StepShape

LEMMA OutcomesDecidedStep ==
    ASSUME TypeOK, OutcomesDecided, [Next]_vars
    PROVE  OutcomesDecided'
<1>a. req \in [Requests -> Request] /\ lp \in [Loops -> LoopState]
  BY DEF TypeOK
<1>1. ASSUME NEW l \in Loops, LoopStep(l) PROVE OutcomesDecided'
  <2>1. \A k \in Loops : k # l => lp'[k] = lp[k]
    BY <1>1, LoopFrame
  <2>2. req' = req
    BY <1>1 DEF LoopStep, Boot, BootFails, TopCancelled, TimeLimit, Ask, NoDecision,
                DecideEnd, DecideUnknown, DecideStep, WorkReturns, AgentRaises, Gate,
                ReviewReturns, ReworkReturns, Commit, Save, SaveFailed, WriteOutcome,
                Cleanup
  <2>3. status' = status \/ status' = lp[l].out
    BY <1>1 DEF LoopStep, Boot, BootFails, TopCancelled, TimeLimit, Ask, NoDecision,
                DecideEnd, DecideUnknown, DecideStep, WorkReturns, AgentRaises, Gate,
                ReviewReturns, ReworkReturns, Commit, Save, SaveFailed, WriteOutcome,
                WriteCheckpoint, Cleanup, row
  <2>4. status' \in {"completed", "cancelled"} => status' \in decided'
    BY <1>1, <2>3, LoopOutcome DEF OutcomesDecided, Outcomes
  <2> QED
    BY <1>1, <2>1, <2>2, <2>4, LoopOutcome DEF OutcomesDecided
<1>2. ASSUME NEW r \in Requests, HandlerStep(r) \/ Call(r) PROVE OutcomesDecided'
  <2>1. decided' = decided
    BY <1>2 DEF HandlerStep, Call, TriggerStart, EngineCancel, CancelCommit, GetEnrich,
                GetCommit, ResumeFlush, ResumeStart, ResumeCommit, TriggerCommit,
                CancelSelect, GetSelect, ResumeSelect
  <2>2. ASSUME NEW l \in Loops PROVE lp'[l].out = lp[l].out
    <3>1. lp[l] \in LoopState
      BY <1>a
    <3> QED
      BY <1>2, <3>1, HandlerEffect DEF Unmoved, Started, ToldToCancel, LoopState
  <2>3. est' = est \/ est' \in {"running", "cancelling"}
    BY <1>2 DEF HandlerStep, Call, TriggerStart, EngineCancel, CancelCommit, GetEnrich,
                GetCommit, ResumeFlush, ResumeStart, ResumeCommit, TriggerCommit,
                CancelSelect, GetSelect, ResumeSelect, StartRun, entry
  <2>4. status' \in {status, "running", "cancelling"} \/ (GetCommit(r) /\ status' = req[r].st)
    BY <1>2 DEF HandlerStep, Call, TriggerStart, EngineCancel, CancelCommit, GetEnrich,
                GetCommit, ResumeFlush, ResumeStart, ResumeCommit, TriggerCommit,
                CancelSelect, GetSelect, ResumeSelect, AckStatus, row
  <2>5. ASSUME NEW q \in Requests
        PROVE  req'[q].st \in {req[q].st, "none"} \cup {est}
    <3>1. CASE GetEnrich(r)
      BY <3>1, <1>a DEF GetEnrich, IdleReq
    <3>2. CASE ~GetEnrich(r)
      <4>1. \/ req' = [req EXCEPT ![r] = IdleReq]
            \/ \E p : req' = [req EXCEPT ![r].pc = p]
            \/ req' = [req EXCEPT ![r] = [IdleReq EXCEPT !.pc = "resumePut"]]
            \/ req' = [req EXCEPT ![r] = [pc |-> "resumeGot", st |-> "none",
                                         ck |-> ckpt, ex |-> dir]]
        BY <1>2, <3>2
        DEF HandlerStep, Call, TriggerStart, EngineCancel, CancelCommit,
            GetCommit, ResumeFlush, ResumeStart, ResumeCommit, TriggerCommit,
            CancelSelect, GetSelect, ResumeSelect
      <4> QED
        BY <4>1, <1>a DEF IdleReq, Request
    <3> QED
      BY <3>1, <3>2
  <2> QED
    BY <2>1, <2>2, <2>3, <2>4, <2>5 DEF OutcomesDecided, Outcomes
<1>3. CASE Crash
  <2>1. ASSUME NEW l \in Loops PROVE lp'[l].out = lp[l].out
    BY <1>3, <1>a DEF Crash, LoopState
  <2>2. \A r \in Requests : req'[r].st = "none"
    BY <1>3 DEF Crash, IdleReq
  <2>3. status' = status /\ decided' = decided /\ est' = "unknown"
    BY <1>3 DEF Crash, row
  <2> QED
    BY <2>1, <2>2, <2>3 DEF OutcomesDecided, Outcomes
<1>4. CASE Shutdown
  <2>1. PICK emitting : lp' = [k \in Loops |-> Interrupted(k, emitting)]
    BY <1>4 DEF Shutdown
  <2>2. ASSUME NEW l \in Loops
        PROVE  lp'[l].out = lp[l].out \/ (lp'[l].out = "cancelled" /\ lp'[l].pc = "finish")
    BY <2>1, <1>a, InterruptedEffect
  <2>3. /\ decided \subseteq decided'
        /\ (\E l \in Loops : lp'[l].pc = "finish") => "cancelled" \in decided'
        /\ est' = est \/ (est' = "cancelled" /\ "cancelled" \in decided')
        /\ status' = status /\ req' = req
    BY <1>4 DEF Shutdown, row
  <2> QED
    BY <2>2, <2>3 DEF OutcomesDecided
<1>5. CASE Exit
  BY <1>5 DEF Exit, row, OutcomesDecided, Outcomes
<1>6. CASE Restart
  <2>1. ASSUME NEW l \in Loops PROVE lp'[l].out = lp[l].out
    <3>1. (\E k \in Loops : StartRun(k, ckpt, TRUE)) \/ lp' = lp
      BY <1>6 DEF Restart
    <3> QED
      BY <3>1, <1>a DEF StartRun, LoopState
  <2>2. /\ decided' = decided /\ req' = req
        /\ est' = est \/ est' = "running"
        /\ status' \in {status, "running", "failed"}
    BY <1>6 DEF Restart, StartRun, Unrecoverable, entry
  <2> QED
    BY <2>1, <2>2 DEF OutcomesDecided, Outcomes
<1>7. CASE UNCHANGED vars
  BY <1>7 DEF vars, OutcomesDecided
<1> QED
  BY <1>1, <1>2, <1>3, <1>4, <1>5, <1>6, <1>7 DEF Next

\* The row never says completed or cancelled unless an activation ended so.
THEOREM NoInventedOutcomeHolds == Spec => []NoInventedOutcome
<1>1. Init => OutcomesDecided
  BY DEF Init, OutcomesDecided, NewLoop, IdleReq, Outcomes
<1>2. OutcomesDecided => NoInventedOutcome
  BY DEF OutcomesDecided, NoInventedOutcome
<1> QED
  BY <1>1, <1>2, OutcomesDecidedStep, TypeCorrect, PTL DEF Spec

-----------------------------------------------------------------------------
(* Each activation implements RunActivation.                               *)

\* The strengthening: an activation that has not ended has no outcome and was
\* not interrupted, one that is reporting its end has an outcome, and the
\* registry says "running" only of an activation that has not ended.
Lively(l) ==
    /\ lp[l].pc = "off" => ~lp[l].ev /\ lp[l].late = 0
    /\ lp[l].pc \in {"off"} \cup Dispatching => ~lp[l].exc /\ lp[l].out = "none"
    /\ lp[l].pc \in {"finish", "final"} => lp[l].out \in Outcomes
    /\ cur = l /\ est = "running" => lp[l].pc \in Dispatching

LEMMA LivelyStep ==
    ASSUME TypeOK, NEW l \in Loops, Lively(l), [Next]_vars
    PROVE  Lively(l)'
<1>a. lp[l] \in LoopState /\ l # 0 /\ "failed" \in Outcomes
      /\ "boot" \in Dispatching /\ "top" \in Dispatching
  BY ConstantsOK DEF TypeOK, Loops, Outcomes, Dispatching
<1>b. {"off", "finish", "final", "gone"} \cap Dispatching = {}
  BY DEF Dispatching
<1>c. "running" \notin Outcomes
  BY DEF Outcomes
<1>1. CASE LoopStep(l)
  <2>1. CASE Boot(l)
    BY <1>a, <2>1, BootEffect DEF Lively, Boot
  <2>2. CASE FailRun(l)
    BY <1>a, <1>b, <2>2, FailRunEffect DEF Lively
  <2>3. CASE Ends(l)
    BY <1>a, <1>b, <1>c, <2>3, FinishRunEffect DEF Ends, Lively
  <2>4. CASE Moves(l)
    BY <1>a, <1>b, <2>4, GotoEffect DEF Moves, Lively
  <2>5. CASE Employs(l)
    <3>1. PICK p \in {"work", "rework"} : StartAgent(l, p) /\ lp[l].pc \in Dispatching
      BY <2>5 DEF Employs
    <3>2. p \in Dispatching
      BY DEF Dispatching
    <3> QED
      BY <1>b, <2>2, <3>1, <3>2, StartAgentEffect DEF Lively
  <2> QED
    BY <1>1, <2>1, <2>2, <2>3, <2>4, <2>5, StepShape
<1>2. CASE \E k \in Loops : LoopStep(k) /\ k # l
  <2>1. PICK k \in Loops : LoopStep(k) /\ k # l
    BY <1>2
  <2>2. lp'[l] = lp[l]
    BY <2>1, LoopFrame
  <2>3. cur' = cur /\ (est' = est \/ est' \in Outcomes)
    <3>1. Boot(k) \/ FailRun(k) \/ Ends(k) \/ Moves(k) \/ Employs(k)
      BY <2>1, StepShape
    <3> QED
      BY <1>a, <3>1, BootEffect, FailRunEffect, FinishRunEffect, GotoEffect, StartAgentEffect
      DEF Ends, Moves, Employs
  <2> QED
    BY <1>c, <2>2, <2>3 DEF Lively
<1>3. CASE \E r \in Requests : HandlerStep(r) \/ Call(r)
  <2>1. PICK r \in Requests : HandlerStep(r) \/ Call(r)
    BY <1>3
  <2>2. CASE Started(l)
    <3>1. lp'[l].pc = "boot" /\ lp'[l].exc = lp[l].exc /\ lp'[l].out = lp[l].out
      BY <1>a, <2>2 DEF Started, LoopState
    <3> QED
      BY <1>a, <1>b, <2>2, <3>1 DEF Started, Lively
  <2>3. CASE ToldToCancel(l)
    <3>1. /\ lp'[l].pc = lp[l].pc /\ lp'[l].exc = lp[l].exc /\ lp'[l].out = lp[l].out
      BY <1>a, <2>3 DEF ToldToCancel, LoopState
    <3> QED
      BY <1>b, <2>3, <3>1 DEF ToldToCancel, Lively
  <2>4. CASE Unmoved(l) /\ ~Started(l)
    <3>1. (cur' = cur /\ est' \in {est, "cancelling"}) \/ cur' # l
      <4>1. CASE \E k \in Loops : \E c, x : StartRun(k, c, x)
        <5>1. PICK k \in Loops : \E c, x : StartRun(k, c, x)
          BY <4>1
        <5>2. k # l
          BY <2>4, <5>1, <1>a DEF StartRun, Unmoved, TypeOK, LoopState
        <5> QED
          BY <5>1, <5>2 DEF StartRun
      <4>2. CASE ~\E k \in Loops : \E c, x : StartRun(k, c, x)
        BY <2>1, <4>2
        DEF HandlerStep, Call, TriggerStart, EngineCancel, CancelCommit, GetEnrich,
            GetCommit, ResumeFlush, ResumeStart, ResumeCommit, TriggerCommit,
            CancelSelect, GetSelect, ResumeSelect, entry
      <4> QED
        BY <4>1, <4>2
    <3> QED
      BY <2>4, <3>1 DEF Unmoved, Lively
  <2> QED
    BY <2>1, <2>2, <2>3, <2>4, HandlerEffect
<1>4. CASE Crash \/ Exit
  <2>1. cur' # l
    BY <1>4, <1>a DEF Crash, Exit
  <2>2. lp'[l] = lp[l] \/ (lp'[l] = [lp[l] EXCEPT !.pc = "gone"] /\ lp[l].pc # "off")
    BY <1>4 DEF Crash, Exit
  <2>3. CASE lp'[l] = lp[l]
    BY <2>1, <2>3 DEF Lively
  <2>4. CASE lp'[l] = [lp[l] EXCEPT !.pc = "gone"]
    <3>1. lp'[l].pc = "gone"
      BY <1>a, <2>4 DEF LoopState
    <3> QED
      BY <2>1, <3>1, <1>b DEF Lively
  <2> QED
    BY <2>2, <2>3, <2>4
<1>5. CASE Shutdown
  <2>1. PICK emitting : lp' = [k \in Loops |-> Interrupted(k, emitting)]
    BY <1>5 DEF Shutdown
  <2>2. lp'[l] = Interrupted(l, emitting)
    BY <2>1
  <2>3. /\ lp[l].pc \in Dispatching => lp'[l].pc = "finish"
        /\ lp[l].pc \notin Dispatching => lp'[l].pc \notin Dispatching
        /\ lp'[l].pc = "off" => lp'[l] = lp[l]
        /\ lp'[l].pc \in {"finish", "final"} /\ lp[l].pc # "off"
             => lp'[l].out \in Outcomes
    BY <1>a, <1>b, <2>2 DEF Interrupted, LoopState, Lively, Outcomes, PCs
  <2>4. cur' = cur /\ (est' = est \/ est' = "cancelled")
        /\ ((\E k \in Loops : lp'[k].pc = "finish") => est' = "cancelled")
    BY <1>5 DEF Shutdown
  <2>5. est' = "running" => lp'[l].pc # "finish" /\ est = "running"
    BY <2>4
  <2>6. CASE lp[l].pc = "off"
    <3>1. lp'[l] = lp[l]
      BY <2>2, <2>6, <1>b DEF Interrupted
    <3> QED
      BY <3>1, <2>4, <2>5, <1>b, <2>6 DEF Lively
  <2>7. CASE lp[l].pc # "off"
    <3>1. lp'[l].pc \in {"finish", "final", "gone"}
      BY <1>a, <2>2, <2>7, InterruptedEffect
    <3>2. ~(cur' = l /\ est' = "running")
      BY <2>3, <2>4, <2>5 DEF Lively
    <3> QED
      BY <1>b, <2>3, <2>7, <3>1, <3>2 DEF Lively
  <2> QED
    BY <2>6, <2>7
<1>6. CASE Restart
  <2>1. (\E k \in Loops : StartRun(k, ckpt, TRUE)) \/ (lp' = lp /\ UNCHANGED entry)
    BY <1>6 DEF Restart
  <2>2. CASE lp' = lp /\ UNCHANGED entry
    BY <2>2 DEF entry, Lively
  <2>3. CASE StartRun(l, ckpt, TRUE)
    <3>1. lp[l].pc = "off" /\ lp'[l].pc = "boot" /\ lp'[l].exc = lp[l].exc
          /\ lp'[l].out = lp[l].out
      BY <2>3, <1>a DEF StartRun, TypeOK, LoopState
    <3> QED
      BY <1>a, <1>b, <3>1 DEF Lively
  <2>4. CASE \E k \in Loops : k # l /\ StartRun(k, ckpt, TRUE)
    BY <2>4 DEF StartRun, TypeOK, Lively
  <2> QED
    BY <2>1, <2>2, <2>3, <2>4
<1>7. CASE UNCHANGED vars
  BY <1>7 DEF vars, Lively
<1> QED
  BY <1>1, <1>2, <1>3, <1>4, <1>5, <1>6, <1>7 DEF Next

LEMMA PhaseIs ==
    ASSUME NEW l
    PROVE  /\ lp[l].pc = "off" => Phase(l) = "off"
           /\ lp[l].pc \in Dispatching => Phase(l) = "running"
           /\ lp[l].pc \in {"finish", "final", "gone"} => Phase(l) = "ended"
           /\ lp'[l].pc = "off" => Phase(l)' = "off"
           /\ lp'[l].pc \in Dispatching => Phase(l)' = "running"
           /\ lp'[l].pc \in {"finish", "final", "gone"} => Phase(l)' = "ended"
  BY DEF Phase, Dispatching

\* A step of an activation is a step of the promise.
LEMMA PromiseLoopStep ==
    ASSUME TypeOK, NEW l \in Loops, Lively(l), LateOnce(l), LoopStep(l)
    PROVE  [Activation(l)!Next]_(Activation(l)!vars)
<1> USE DEF Activation!vars
<1>a. lp[l] \in LoopState /\ lp'[l].late = lp'[l].late
  BY DEF TypeOK
<1>b. {"work", "rework", "boot", "top"} \subseteq Dispatching
  BY DEF Dispatching
<1>1. CASE Boot(l)
  <2>a. lp[l].pc \in Dispatching /\ lp'[l].pc \in Dispatching
    BY <1>1, <1>b, BootEffect DEF Boot
  <2>1. Phase(l)' = Phase(l)
    BY <2>a, PhaseIs
  <2>2. Told(l)' = Told(l)
    BY <1>1, BootEffect DEF Told
  <2> QED
    BY <1>1, <2>1, <2>2, BootEffect
<1>2. CASE FailRun(l) /\ lp[l].pc \in Dispatching
  <2>1. /\ Phase(l) = "running" /\ Phase(l)' = "ended"
        /\ lp'[l].out = "failed" /\ lp'[l].late = lp[l].late
        /\ Told(l)' = Told(l)
    BY <1>2, FailRunEffect, PhaseIs DEF Told, Lively
  <2>2. Activation(l)!End("failed")
    BY <2>1 DEF Activation!End
  <2> QED
    BY <2>2 DEF Activation!Next
<1>3. CASE Ends(l)
  <2>1. PICK o \in Outcomes :
            /\ \E c : FinishRun(l, o, c)
            /\ lp[l].pc \in Dispatching
            /\ o = "cancelled" => lp[l].ev
    BY <1>3 DEF Ends
  <2>s. /\ lp'[l].pc = "finish" /\ lp'[l].out = o /\ lp'[l].exc = lp[l].exc
        /\ lp'[l].ev = lp[l].ev /\ lp'[l].late = lp[l].late
    BY <2>1, FinishRunEffect
  <2>2. Phase(l) = "running" /\ Phase(l)' = "ended"
    BY <2>1, <2>s, PhaseIs
  <2>t. ~lp[l].exc
    BY <2>1 DEF Lively
  <2>u. Told(l)' = Told(l) /\ (o = "cancelled" => Told(l))
    BY <2>1, <2>s, <2>t DEF Told
  <2>3. Activation(l)!End(o)
    BY <2>2, <2>s, <2>u DEF Activation!End
  <2> QED
    BY <2>3 DEF Activation!Next, Outcomes
<1>4. CASE Moves(l)
  <2>1. PICK p :
            /\ Goto(l, p)
            /\ \/ lp[l].pc \in Dispatching /\ p \in Dispatching
               \/ lp[l].pc = "finish" /\ p = "final"
               \/ lp[l].pc = "final" /\ p = "gone"
    BY <1>4 DEF Moves
  <2>2. /\ Phase(l)' = Phase(l) /\ Told(l)' = Told(l)
        /\ lp'[l].out = lp[l].out /\ lp'[l].late = lp[l].late
    BY <2>1, GotoEffect, PhaseIs DEF Told
  <2> QED
    BY <2>2
<1>5. CASE Employs(l)
  <2>1. PICK p \in {"work", "rework"} :
            StartAgent(l, p) /\ lp[l].pc \in Dispatching \ AfterLate
    BY <1>5 DEF Employs
  <2>2. CASE FailRun(l)
    BY <1>2, <2>1, <2>2
  <2>3. CASE ~FailRun(l)
    <3>1. /\ lp'[l].pc = p /\ lp'[l].out = lp[l].out /\ Told(l)' = Told(l)
          /\ lp'[l].late = IF lp[l].ev THEN lp[l].late + 1 ELSE lp[l].late
      BY <2>1, <2>3, StartAgentEffect DEF Told
    <3>2. Phase(l) = "running" /\ Phase(l)' = "running"
      BY <1>b, <2>1, <3>1, PhaseIs
    <3>3. lp[l].late = 0
      BY <2>1 DEF LateOnce
    <3>4. CASE lp[l].ev
      <4>1. lp'[l].late = 1 /\ Told(l)
        BY <3>1, <3>3, <3>4 DEF Told
      <4>2. Activation(l)!LateAgent
        BY <3>1, <3>2, <3>3, <4>1 DEF Activation!LateAgent
      <4> QED
        BY <4>2 DEF Activation!Next
    <3>5. CASE ~lp[l].ev
      BY <3>1, <3>2, <3>5
    <3> QED
      BY <3>4, <3>5
  <2> QED
    BY <2>2, <2>3
<1> QED
  BY <1>1, <1>2, <1>3, <1>4, <1>5, StepShape

\* So is every other step of the system.
LEMMA PromiseStep ==
    ASSUME TypeOK, NEW l \in Loops, Lively(l), LateOnce(l), [Next]_vars
    PROVE  [Activation(l)!Next]_(Activation(l)!vars)
<1> USE DEF Activation!vars
<1>a. lp[l] \in LoopState
  BY DEF TypeOK
<1>b. {"off", "finish", "final", "gone"} \cap Dispatching = {} /\ "boot" \in Dispatching
  BY DEF Dispatching
<1>1. CASE lp'[l] = lp[l]
  BY <1>1 DEF Phase, Told
<1>2. CASE Started(l)
  <2>1. /\ lp[l].pc = "off" /\ lp'[l].pc = "boot" /\ lp'[l].ev = lp[l].ev
        /\ lp'[l].exc = lp[l].exc /\ lp'[l].out = lp[l].out /\ lp'[l].late = lp[l].late
    BY <1>a, <1>2 DEF Started, LoopState
  <2>2. Phase(l) = "off" /\ Phase(l)' = "running" /\ Told(l)' = FALSE
    BY <1>b, <2>1, PhaseIs DEF Told, Lively
  <2>3. Activation(l)!Start
    BY <2>1, <2>2 DEF Activation!Start
  <2> QED
    BY <2>3 DEF Activation!Next
<1>3. CASE ToldToCancel(l)
  <2>1. /\ lp'[l].pc = lp[l].pc /\ lp'[l].ev = TRUE
        /\ lp'[l].out = lp[l].out /\ lp'[l].late = lp[l].late
    BY <1>a, <1>3 DEF ToldToCancel, LoopState
  <2>2. Phase(l) = "running" /\ Phase(l)' = "running" /\ Told(l)' = TRUE
    BY <1>3, <2>1, PhaseIs DEF ToldToCancel, Told, Lively
  <2>3. Activation(l)!Tell
    BY <2>1, <2>2 DEF Activation!Tell
  <2> QED
    BY <2>3 DEF Activation!Next
<1>4. CASE Killed(l)
  <2>1. /\ lp'[l].pc = "gone" /\ lp'[l].ev = lp[l].ev /\ lp'[l].exc = lp[l].exc
        /\ lp'[l].out = lp[l].out /\ lp'[l].late = lp[l].late
    BY <1>a, <1>4 DEF Killed, LoopState
  <2>2. Phase(l)' = "ended" /\ Told(l)' = Told(l)
    BY <2>1, PhaseIs DEF Told
  <2>3. Phase(l) \in {"running", "ended"}
    BY <1>4 DEF Killed, Phase
  <2>4. Phase(l) = "running" => Activation(l)!Lost
    BY <2>1, <2>2 DEF Activation!Lost
  <2> QED
    BY <2>1, <2>2, <2>3, <2>4 DEF Activation!Next
<1>5. CASE StoppedIn(l)
  <2>1. PICK emitting : lp'[l] = Interrupted(l, emitting)
    BY <1>5 DEF StoppedIn
  <2>2. lp'[l].late = lp[l].late
    BY <1>a, <2>1, InterruptedEffect
  <2>3. CASE lp'[l] = [lp[l] EXCEPT !.pc = "finish", !.out = "cancelled",
                                    !.clean = TRUE, !.exc = TRUE]
             /\ (lp[l].pc \in Dispatching \/ lp[l].pc \in {"finish", "final"})
    <3>1. lp'[l].pc = "finish" /\ lp'[l].out = "cancelled" /\ Told(l)' = TRUE
      BY <1>a, <2>3 DEF LoopState, Told
    <3>2. Phase(l)' = "ended"
      BY <3>1, PhaseIs
    <3>3. lp[l].pc \in Dispatching => Activation(l)!End("cancelled")
      BY <2>2, <3>1, <3>2, PhaseIs DEF Activation!End
    <3>4. lp[l].pc \in {"finish", "final"} => Activation(l)!Overrule
      BY <2>2, <3>1, <3>2, PhaseIs DEF Activation!Overrule, Lively, Outcomes
    <3> QED
      BY <2>3, <3>3, <3>4 DEF Activation!Next
  <2>4. CASE \E p \in {"final", "gone"} : lp'[l] = [lp[l] EXCEPT !.pc = p]
             /\ lp[l].pc \in {"finish", "final"}
    <3>1. /\ lp'[l].pc \in {"final", "gone"} /\ lp'[l].ev = lp[l].ev
          /\ lp'[l].exc = lp[l].exc /\ lp'[l].out = lp[l].out
      BY <1>a, <2>4 DEF LoopState
    <3>2. Phase(l) = "ended" /\ Phase(l)' = "ended" /\ Told(l)' = Told(l)
      BY <2>4, <3>1, PhaseIs DEF Told
    <3> QED
      BY <2>2, <3>1, <3>2
  <2> QED
    BY <1>1, <2>1, <2>3, <2>4 DEF Interrupted
<1>6. CASE LoopStep(l)
  BY <1>6, PromiseLoopStep
<1> QED
  BY <1>1, <1>2, <1>3, <1>4, <1>5, <1>6, StepEffect DEF Unmoved, Unstarted

\* Each activation of the director starts once, ends once, ends as cancelled
\* only when told, and once told starts at most one more agent.
THEOREM ActivationsKeepPromise ==
    ASSUME NEW l \in Loops
    PROVE  Spec => Activation(l)!Spec
<1>1. Init => Activation(l)!Init /\ Lively(l) /\ LateOnce(l)
  <2>1. Init => lp[l] = NewLoop /\ cur = 0
    BY DEF Init
  <2>2. l # 0
    BY ConstantsOK DEF Loops
  <2> QED
    BY <2>1, <2>2
    DEF Activation!Init, Lively, LateOnce, NewLoop, Phase, Told, Dispatching
<1>2. TypeOK /\ Lively(l) /\ LateOnce(l) /\ [Next]_vars => Lively(l)' /\ LateOnce(l)'
  BY LivelyStep, LateOnceNext
<1>3. TypeOK /\ Lively(l) /\ LateOnce(l) /\ [Next]_vars
        => [Activation(l)!Next]_(Activation(l)!vars)
  BY PromiseStep
<1> QED
  BY <1>1, <1>2, <1>3, TypeCorrect, PTL DEF Spec, Activation!Spec

-----------------------------------------------------------------------------
(* One activation at a time, when one client at a time uses the API and    *)
(* nobody polls.  (With two clients, or a poll, TLC finds two at work.)    *)

Busy(l) == lp[l].pc \in Dispatching \cup {"finish"}
NoneBusy == \A l \in Loops : ~Busy(l)

\* Why a second activation is not started: as long as one is busy, up to the
\* commit of its outcome, the row does not say that it ended, except while the
\* resume that started it still holds the write lock.
Exclusive ==
    /\ OneDispatcher
    /\ mode = "up" => \A k, l \in Loops : Busy(k) /\ Busy(l) => k = l
    /\ mode = "up" /\ status \in Outcomes /\ Unlocked => NoneBusy
    /\ status = "none" => /\ \A l \in Loops : lp[l].pc = "off"
                          /\ \A r \in Requests : req[r].pc = "idle"
    /\ \A r \in Requests : req[r].pc = "trigger" => status = "running"
    /\ \A r \in Requests : req[r].pc \in {"trigger", "resumeGot", "resumeLock"} => NoneBusy
    /\ \A r \in Requests : req[r].pc \notin {"getGot", "getPut"}
    /\ mode # "up" => /\ \A l \in Loops : lp[l].pc \notin Dispatching
                     /\ \A r \in Requests : req[r].pc = "idle"
    /\ mode = "down" => NoneBusy

\* An activation is never busier after a step of its own than before it; only
\* the commit of its outcome changes the row's status, when it is busy no more.
LEMMA BusyStep ==
    ASSUME TypeOK, NEW l \in Loops, Lively(l), LoopStep(l)
    PROVE  /\ Busy(l)' => Busy(l)
           /\ lp'[l].pc \in Dispatching => lp[l].pc \in Dispatching
           /\ lp[l].pc # "off"
           /\ cur' = cur /\ req' = req /\ mode' = mode
           /\ \/ status' = status
              \/ Busy(l) /\ ~Busy(l)' /\ status' \in Outcomes
<1>a. {"off", "finish", "final", "gone"} \cap Dispatching = {} /\ "boot" \in Dispatching
  BY DEF Dispatching
<1>1. req' = req /\ mode' = mode
  BY DEF LoopStep, Boot, BootFails, TopCancelled, TimeLimit, Ask, NoDecision,
         DecideEnd, DecideUnknown, DecideStep, WorkReturns, AgentRaises, Gate,
         ReviewReturns, ReworkReturns, Commit, Save, SaveFailed, WriteOutcome,
         Cleanup, server
<1>2. status' = status \/ (WriteOutcome(l) /\ status' = lp[l].out)
  BY DEF LoopStep, Boot, BootFails, TopCancelled, TimeLimit, Ask, NoDecision,
         DecideEnd, DecideUnknown, DecideStep, WorkReturns, AgentRaises, Gate,
         ReviewReturns, ReworkReturns, Commit, Save, SaveFailed, WriteOutcome,
         WriteCheckpoint, Cleanup, row
<1>3. WriteOutcome(l) => lp[l].pc = "finish" /\ lp'[l].pc = "final" /\ lp[l].out \in Outcomes
  BY GotoEffect DEF WriteOutcome, Lively
<1>4. /\ lp'[l].pc \in Dispatching \cup {"finish"} => lp[l].pc \in Dispatching
      /\ lp[l].pc # "off" /\ cur' = cur
  <2>1. CASE Boot(l)
    BY <1>a, <2>1, BootEffect DEF Boot
  <2>2. CASE FailRun(l) /\ lp[l].pc \in Dispatching
    BY <1>a, <2>2, FailRunEffect
  <2>3. CASE Ends(l)
    BY <1>a, <2>3, FinishRunEffect DEF Ends
  <2>4. CASE Moves(l)
    BY <1>a, <2>4, GotoEffect DEF Moves
  <2>5. CASE Employs(l)
    BY <1>a, <2>5, StartAgentEffect, FailRunEffect DEF Employs
  <2> QED
    BY <2>1, <2>2, <2>3, <2>4, <2>5, StepShape
<1> QED
  BY <1>a, <1>1, <1>2, <1>3, <1>4 DEF Busy

LEMMA ExclusiveLoopStep ==
    ASSUME TypeOK, Exclusive, NEW l \in Loops, Lively(l), LoopStep(l)
    PROVE  Exclusive'
<1>1. \A k \in Loops : k # l => lp'[k] = lp[k] /\ (Busy(k)' <=> Busy(k))
  BY LoopFrame DEF Busy
<1>2. \A k \in Loops : /\ Busy(k)' => Busy(k)
                       /\ lp'[k].pc \in Dispatching => lp[k].pc \in Dispatching
  BY <1>1, BusyStep
<1>3. NoneBusy => NoneBusy'
  BY <1>2 DEF NoneBusy
<1>4. cur' = cur /\ req' = req /\ mode' = mode /\ (Unlocked' <=> Unlocked)
  BY BusyStep DEF Unlocked
<1>5. CASE status' = status
  <2>1. status # "none"
    BY BusyStep DEF Exclusive
  <2> QED
    BY <1>2, <1>3, <1>4, <1>5, <2>1 DEF Exclusive, OneDispatcher
<1>6. CASE Busy(l) /\ ~Busy(l)' /\ status' \in Outcomes
  <2>1. mode = "up" => NoneBusy'
    BY <1>1, <1>6 DEF Exclusive, NoneBusy
  <2>2. \A r \in Requests : req[r].pc # "trigger"
    BY <1>6 DEF Exclusive, NoneBusy
  <2>3. status' # "none"
    BY <1>6 DEF Outcomes
  <2> QED
    BY <1>2, <1>3, <1>4, <2>1, <2>2, <2>3 DEF Exclusive, OneDispatcher
<1> QED
  BY <1>5, <1>6, BusyStep

\* Starting an activation when none is busy makes it the only one.
LEMMA StartAlone ==
    ASSUME TypeOK, NoneBusy, NEW l \in Loops, NEW c, NEW x, StartRun(l, c, x)
    PROVE  /\ OneDispatcher'
           /\ \A j, k \in Loops : Busy(j)' /\ Busy(k)' => j = k
<1>1. \A k \in Loops : k # l => lp'[k] = lp[k]
  BY DEF TypeOK, StartRun
<1>2. \A k \in Loops : k # l => ~Busy(k)' /\ lp'[k].pc \notin Dispatching
  BY <1>1 DEF NoneBusy, Busy
<1>3. cur' = l
  BY DEF StartRun
<1> QED
  BY <1>2, <1>3 DEF OneDispatcher

OneClient == \A r, s \in Requests : r = s
NoPolls == "get" \notin Kinds

LEMMA ExclusiveHandlerStep ==
    ASSUME OneClient, NoPolls, TypeOK, Exclusive, \A l \in Loops : Lively(l),
           NEW r \in Requests, HandlerStep(r) \/ Call(r)
    PROVE  Exclusive'
<1>a. req \in [Requests -> Request] /\ Requests = {r}
  BY DEF TypeOK, OneClient
<1>b. lp' = lp => (NoneBusy' <=> NoneBusy)
  BY DEF NoneBusy, Busy
<1>c. "running" \notin Outcomes /\ "cancelling" \notin Outcomes /\ "none" \notin Outcomes
  BY DEF Outcomes
<1>d. ~GetSelect(r) /\ ~GetEnrich(r) /\ ~GetCommit(r)
  BY DEF NoPolls, GetSelect, GetEnrich, GetCommit, Exclusive
<1>e. \A p : req' = [req EXCEPT ![r].pc = p] => req'[r].pc = p
  BY <1>a DEF Request
<1>f. mode' = mode
  BY DEF HandlerStep, Call, TriggerStart, EngineCancel, CancelCommit, GetEnrich,
         GetCommit, ResumeFlush, ResumeStart, ResumeCommit, TriggerCommit,
         CancelSelect, GetSelect, ResumeSelect, server
<1>g. req[r].pc # "idle" => mode = "up"
  BY DEF Exclusive
\* A run is started by a handler that has seen that none is busy.
<1>1. CASE TriggerStart(r) \/ ResumeStart(r)
  <2>1. PICK l \in Loops : \E c, x : StartRun(l, c, x)
    BY <1>1 DEF TriggerStart, ResumeStart
  <2>2. NoneBusy /\ mode = "up"
    BY <1>1, <1>g DEF TriggerStart, ResumeStart, Exclusive
  <2>3. /\ OneDispatcher'
        /\ \A j, k \in Loops : Busy(j)' /\ Busy(k)' => j = k
    BY <2>1, <2>2, StartAlone
  <2>4. status' = status /\ status # "none"
    <3>1. status' = status
      BY <1>1 DEF TriggerStart, ResumeStart, row
    <3> QED
      BY <3>1, <1>1 DEF TriggerStart, ResumeStart, Exclusive
  <2>5. CASE TriggerStart(r)
    <3>1. req'[r].pc = "idle" /\ status = "running"
      BY <2>5, <1>a DEF TriggerStart, IdleReq, Exclusive
    <3> QED
      BY <1>a, <1>c, <1>f, <2>2, <2>3, <2>4, <3>1 DEF Exclusive
  <2>6. CASE ResumeStart(r)
    <3>1. req'[r].pc = "resumePut"
      BY <2>6, <1>a DEF ResumeStart, IdleReq
    <3> QED
      BY <1>a, <1>f, <2>2, <2>3, <2>4, <3>1 DEF Exclusive, Unlocked
  <2> QED
    BY <1>1, <2>5, <2>6
\* Of the others only the commits write the status.
<1>2. CASE TriggerCommit(r)
  <2>1. NoneBusy /\ mode = "up" /\ req'[r].pc = "trigger" /\ status' = "running" /\ lp' = lp /\ cur' = cur
    BY <1>2, <1>e DEF TriggerCommit, Exclusive, NoneBusy, Busy, Dispatching, entry
  <2> QED
    BY <1>a, <1>b, <1>c, <1>f, <2>1 DEF Exclusive, OneDispatcher, Busy
<1>3. CASE EngineCancel(r)
  <2>1. /\ req[r].pc = "cancelGot" /\ req'[r].pc = "cancelPut"
        /\ status' = status /\ cur' = cur
    BY <1>3, <1>e DEF EngineCancel, row
  <2>2. \A l \in Loops : lp'[l].pc = lp[l].pc
    <3>1. ASSUME NEW l \in Loops PROVE lp'[l].pc = lp[l].pc
      BY <1>3 DEF EngineCancel, TypeOK, LoopState
    <3> QED
      BY <3>1
  <2>3. Unlocked /\ Unlocked'
    BY <1>a, <2>1 DEF Unlocked
  <2> QED
    BY <1>a, <1>f, <1>g, <2>1, <2>2, <2>3 DEF Exclusive, OneDispatcher, NoneBusy, Busy
<1>4. CASE CancelCommit(r) \/ ResumeCommit(r)
  <2>1. /\ req[r].pc # "idle" /\ req'[r].pc = "idle"
        /\ status' \in {"running", "cancelling"} /\ lp' = lp /\ cur' = cur
    BY <1>4, <1>a DEF CancelCommit, ResumeCommit, AckStatus, IdleReq, entry
  <2> QED
    BY <1>a, <1>b, <1>c, <1>f, <1>g, <2>1 DEF Exclusive, OneDispatcher, Busy
<1>5. CASE CancelSelect(r) \/ ResumeSelect(r) \/ ResumeFlush(r)
  <2>1. /\ status' = status /\ lp' = lp /\ cur' = cur /\ status # "none"
        /\ mode = "up" /\ Unlocked
    BY <1>5, <1>a, <1>c, <1>g
    DEF CancelSelect, ResumeSelect, ResumeFlush, Resumable, row, entry, Unlocked, Exclusive
  <2>2. \/ req'[r].pc = "cancelGot"
        \/ req'[r].pc \in {"resumeGot", "resumeLock"} /\ NoneBusy
    <3>1. CASE CancelSelect(r)
      BY <3>1, <1>e DEF CancelSelect
    <3>2. CASE ResumeSelect(r)
      BY <3>2, <1>a, <2>1 DEF ResumeSelect, Resumable, Exclusive
    <3>3. CASE ResumeFlush(r)
      BY <3>3, <1>e DEF ResumeFlush, Exclusive
    <3> QED
      BY <1>5, <3>1, <3>2, <3>3
  <2>3. status \in Outcomes => NoneBusy
    BY <2>1 DEF Exclusive
  <2> QED
    BY <1>a, <1>b, <1>f, <2>1, <2>2, <2>3 DEF Exclusive, OneDispatcher, Busy
<1> QED
  BY <1>d, <1>1, <1>2, <1>3, <1>4, <1>5 DEF HandlerStep, Call

LEMMA ExclusiveServerStep ==
    ASSUME TypeOK, Exclusive, Crash \/ Shutdown \/ Exit \/ Restart
    PROVE  Exclusive'
<1>a. lp \in [Loops -> LoopState]
  BY DEF TypeOK
<1>b. {"off", "finish", "final", "gone"} \cap Dispatching = {}
  BY DEF Dispatching
<1>1. CASE Crash
  <2>1. ASSUME NEW l \in Loops
        PROVE  lp'[l].pc \in {"off", "gone"} /\ (lp[l].pc = "off" => lp'[l].pc = "off")
    BY <1>1, <1>a DEF Crash, LoopState
  <2>2. NoneBusy' /\ \A l \in Loops : lp'[l].pc \notin Dispatching
    BY <1>b, <2>1 DEF NoneBusy, Busy
  <2>3. \A r \in Requests : req'[r].pc = "idle"
    BY <1>1 DEF Crash, IdleReq
  <2>4. mode' = "down" /\ status' = status
    BY <1>1 DEF Crash, row
  <2> QED
    BY <2>1, <2>2, <2>3, <2>4 DEF Exclusive, OneDispatcher
<1>2. CASE Shutdown
  <2>1. PICK emitting : lp' = [k \in Loops |-> Interrupted(k, emitting)]
    BY <1>2 DEF Shutdown
  <2>2. ASSUME NEW l \in Loops
        PROVE  lp'[l].pc \notin Dispatching /\ (lp[l].pc = "off" => lp'[l].pc = "off")
    <3>1. lp'[l] = Interrupted(l, emitting) /\ lp[l] \in LoopState
      BY <1>a, <2>1
    <3>2. lp[l].pc = "off" => lp'[l] = lp[l]
      BY <1>b, <3>1 DEF Interrupted
    <3> QED
      BY <1>b, <3>1, <3>2, InterruptedEffect
  <2>3. /\ mode' = "stopping" /\ status' = status /\ req' = req
        /\ \A r \in Requests : req[r].pc = "idle"
    BY <1>2 DEF Shutdown, row
  <2> QED
    BY <2>2, <2>3 DEF Exclusive, OneDispatcher
<1>3. CASE Exit
  <2>1. NoneBusy /\ \A l \in Loops : lp[l].pc \notin Dispatching
    BY <1>3, <1>b DEF Exit, NoneBusy, Busy
  <2>2. /\ mode' = "down" /\ status' = status /\ lp' = lp /\ req' = req
        /\ \A r \in Requests : req[r].pc = "idle"
    BY <1>3 DEF Exit, row, Exclusive
  <2> QED
    BY <2>1, <2>2 DEF Exclusive, OneDispatcher, NoneBusy, Busy
<1>4. CASE Restart
  <2>1. /\ NoneBusy /\ req' = req /\ mode' = "up"
        /\ \A r \in Requests : req[r].pc = "idle"
        /\ \A l \in Loops : lp[l].pc \notin Dispatching
    BY <1>4 DEF Restart, Exclusive
  <2>2. CASE \E l \in Loops : StartRun(l, ckpt, TRUE)
    <3>1. /\ OneDispatcher'
          /\ \A j, k \in Loops : Busy(j)' /\ Busy(k)' => j = k
      BY <2>1, <2>2, StartAlone
    <3>2. CASE status' = "running"
      BY <2>1, <3>1, <3>2 DEF Exclusive, Outcomes
    <3>3. CASE lp' = lp
      BY <2>2, <3>3, <1>a, <1>b DEF StartRun, LoopState
    <3> QED
      BY <1>4, <3>2, <3>3 DEF Restart
  <2>3. CASE lp' = lp
    <3>1. NoneBusy' /\ \A l \in Loops : lp'[l].pc \notin Dispatching
      BY <2>1, <2>3 DEF NoneBusy, Busy
    <3>2. status' = status \/ status' = "failed"
      BY <1>4, <2>3, <1>a DEF Restart, StartRun, LoopState, Unrecoverable
    <3> QED
      BY <2>1, <2>3, <3>1, <3>2 DEF Exclusive, OneDispatcher, NoneBusy
  <2> QED
    BY <1>4, <2>2, <2>3 DEF Restart
<1> QED
  BY <1>1, <1>2, <1>3, <1>4

\* What the theorems of this section rest on.
LEMMA ExclusiveCorrect ==
    ASSUME OneClient, NoPolls
    PROVE  Spec => [](TypeOK /\ Exclusive)
<1> DEFINE AllLively == \A l \in Loops : Lively(l)
<1> DEFINE Inv == TypeOK /\ Exclusive /\ AllLively
<1>1. Init => Exclusive /\ AllLively
  <2> SUFFICES ASSUME Init
               PROVE  Exclusive /\ AllLively
    OBVIOUS
  <2>1. /\ \A l \in Loops : lp[l] = NewLoop
        /\ \A r \in Requests : req[r] = IdleReq
        /\ cur = 0 /\ status = "none" /\ mode = "up"
    BY DEF Init
  <2>2. \A l \in Loops : l # 0
    BY ConstantsOK DEF Loops
  <2> QED
    BY <2>1, <2>2
    DEF Exclusive, OneDispatcher, NoneBusy, Busy, Lively, NewLoop, IdleReq,
        Dispatching, Outcomes
<1>2. Inv /\ [Next]_vars => Exclusive' /\ AllLively'
  <2> SUFFICES ASSUME Inv, [Next]_vars PROVE Exclusive'
    BY LivelyStep
  <2>1. CASE UNCHANGED vars
    BY <2>1 DEF vars, Exclusive, OneDispatcher, NoneBusy, Busy, Unlocked
  <2>2. CASE \E l \in Loops : LoopStep(l)
    BY <2>2, ExclusiveLoopStep
  <2>3. CASE \E r \in Requests : HandlerStep(r) \/ Call(r)
    BY <2>3, ExclusiveHandlerStep
  <2>4. CASE Crash \/ Shutdown \/ Exit \/ Restart
    BY <2>4, ExclusiveServerStep
  <2> QED
    BY <2>1, <2>2, <2>3, <2>4 DEF Next
<1> QED
  <2> HIDE DEF AllLively
  <2> QED
    BY <1>1, <1>2, TypeCorrect, PTL DEF Spec

\* At most one activation plans and works, and cancel() reaches it.
THEOREM OneDispatcherHolds ==
    ASSUME OneClient, NoPolls
    PROVE  Spec => []OneDispatcher
<1>1. Exclusive => OneDispatcher
  BY DEF Exclusive
<1> QED
  BY <1>1, ExclusiveCorrect, PTL

\* A row in a final status has no activation at work behind it.
THEOREM TerminalMeansStoppedHolds ==
    ASSUME OneClient, NoPolls
    PROVE  Spec => []TerminalMeansStopped
<1>1. TypeOK /\ Exclusive => TerminalMeansStopped
  BY DEF TypeOK, Exclusive, TerminalMeansStopped, NoneBusy, Busy
<1> QED
  BY <1>1, ExclusiveCorrect, PTL

-----------------------------------------------------------------------------
(* Checkpoints.  A run may be started again by its recovery or, where      *)
(* nobody resumes it, by nobody; or one client alone resumes it.  (With    *)
(* two resumes at once TLC finds a checkpoint that goes back.)             *)

NoResumes == "resume" \notin Kinds

\* No activation plans or works behind another's back, nor while one is about
\* to be started.
Alone ==
    /\ OneDispatcher
    /\ \A r \in Requests : req[r].pc \in {"trigger", "resumeGot", "resumeLock"}
          => \A l \in Loops : lp[l].pc \notin Dispatching
    /\ mode # "up" => \A l \in Loops : lp[l].pc \notin Dispatching
    /\ status = "none" => \A l \in Loops : lp[l].pc \notin Dispatching
    /\ \A r \in Requests : req[r].pc = "getPut" => req[r].st # "none"

\* The same where nobody resumes, with what it takes: only the first request
\* triggers the run, and only once.
Unresumed ==
    /\ Alone
    /\ \A r \in Requests : req[r].pc \notin {"resumeGot", "resumeLock", "resumePut"}
    /\ \A r, s \in Requests : req[r].pc = "trigger" /\ req[s].pc = "trigger" => r = s
    /\ \A r \in Requests : req[r].pc = "trigger" => mode = "up" /\ status # "none"
    /\ status = "none" => \A r \in Requests : req[r].pc = "idle"

\* One field of a request.
LEMMA RequestPc ==
    ASSUME TypeOK, NEW r \in Requests, NEW p, req' = [req EXCEPT ![r].pc = p]
    PROVE  /\ req'[r].pc = p
           /\ \A s \in Requests : s # r => req'[s] = req[s]
BY DEF TypeOK, Request

\* Starting an activation when none is at work.
LEMMA StartsAlone ==
    ASSUME TypeOK, \A k \in Loops : lp[k].pc \notin Dispatching,
           NEW l \in Loops, NEW c, NEW x, StartRun(l, c, x)
    PROVE  OneDispatcher'
<1>1. \A k \in Loops : k # l => lp'[k] = lp[k]
  BY DEF TypeOK, StartRun
<1>2. cur' = l
  BY DEF StartRun
<1> QED
  BY <1>1, <1>2 DEF OneDispatcher

\* A step after which no more activations are at work than before, and no more
\* requests are about to start one.
LEMMA QuietUnresumed ==
    ASSUME Unresumed, cur' = cur,
           \A l \in Loops : lp'[l].pc \in Dispatching => lp[l].pc \in Dispatching,
           \A r \in Requests :
              /\ req'[r].pc = "trigger" => req[r].pc = "trigger" /\ mode' = "up"
              /\ req'[r].pc \notin {"resumeGot", "resumeLock", "resumePut"}
              /\ req'[r].pc = "getPut" => req'[r].st # "none"
              /\ req[r].pc = "idle" /\ status = "none" => req'[r].pc = "idle",
           status' = "none" => status = "none",
           mode = mode' \/ \A l \in Loops : lp'[l].pc \notin Dispatching
    PROVE  Unresumed'
BY DEF Unresumed, Alone, OneDispatcher

LEMMA UnresumedHandlerStep ==
    ASSUME NoResumes, TypeOK, Unresumed, NEW r \in Requests, HandlerStep(r) \/ Call(r)
    PROVE  Unresumed'
<1>a. req \in [Requests -> Request]
  BY DEF TypeOK
<1>b. ~ResumeSelect(r) /\ ~ResumeFlush(r) /\ ~ResumeStart(r) /\ ~ResumeCommit(r)
  BY DEF NoResumes, ResumeSelect, ResumeFlush, ResumeStart, ResumeCommit, Unresumed
<1>c. mode' = mode
  BY DEF HandlerStep, Call, TriggerStart, EngineCancel, CancelCommit, GetEnrich,
         GetCommit, ResumeFlush, ResumeStart, ResumeCommit, TriggerCommit,
         CancelSelect, GetSelect, ResumeSelect, server
<1>1. CASE TriggerStart(r)
  <2>1. PICK l \in Loops : StartRun(l, NoCkpt, FALSE)
    BY <1>1 DEF TriggerStart
  <2>2. /\ req[r].pc = "trigger" /\ req' = [req EXCEPT ![r] = IdleReq]
        /\ status' = status
    BY <1>1 DEF TriggerStart, row
  <2>3. OneDispatcher'
    BY <2>1, <2>2, StartsAlone DEF Unresumed, Alone
  <2>4. /\ req'[r].pc = "idle" /\ \A s \in Requests : s # r => req'[s] = req[s]
        /\ \A s \in Requests : s # r => req[s].pc # "trigger"
    BY <2>2, <1>a DEF IdleReq, Unresumed
  <2>5. mode' = "up" /\ status' # "none"
    BY <1>c, <2>2 DEF Unresumed
  <2>6. \A s \in Requests : req'[s].pc \notin {"trigger", "resumeGot", "resumeLock", "resumePut"}
    BY <2>4 DEF Unresumed
  <2>7. \A s \in Requests : req'[s].pc = "getPut" => req'[s].st # "none"
    BY <2>4 DEF Unresumed, Alone
  <2> QED
    BY <2>3, <2>5, <2>6, <2>7 DEF Unresumed, Alone
<1>2. CASE TriggerCommit(r)
  <2>1. /\ req'[r].pc = "trigger" /\ \A s \in Requests : s # r => req'[s] = req[s]
        /\ mode = "up" /\ status = "none" /\ status' = "running" /\ lp' = lp /\ cur' = cur
    BY <1>2, RequestPc DEF TriggerCommit, entry
  <2>2. \A s \in Requests : s # r => req'[s].pc = "idle"
    BY <2>1 DEF Unresumed
  <2> QED
    BY <1>c, <2>1, <2>2 DEF Unresumed, Alone, OneDispatcher
<1>3. CASE EngineCancel(r)
  <2>1. /\ req[r].pc = "cancelGot" /\ req'[r].pc = "cancelPut"
        /\ \A s \in Requests : s # r => req'[s] = req[s]
        /\ status' = status /\ cur' = cur
    BY <1>3, RequestPc DEF EngineCancel, row
  <2>2. \A l \in Loops : lp'[l].pc = lp[l].pc
    <3>1. ASSUME NEW l \in Loops PROVE lp'[l].pc = lp[l].pc
      BY <1>3 DEF EngineCancel, TypeOK, LoopState
    <3> QED
      BY <3>1
  <2>3. \A s \in Requests :
              /\ req'[s].pc = "trigger" => req[s].pc = "trigger" /\ mode' = "up"
              /\ req'[s].pc \notin {"resumeGot", "resumeLock", "resumePut"}
              /\ req'[s].pc = "getPut" => req'[s].st # "none"
              /\ req[s].pc = "idle" /\ status = "none" => req'[s].pc = "idle"
    BY <1>c, <2>1 DEF Unresumed, Alone
  <2> QED
    BY <1>c, <2>1, <2>2, <2>3, QuietUnresumed
<1>4. CASE CancelSelect(r) \/ GetSelect(r)
  <2>1. /\ req'[r].pc \in {"cancelGot", "getGot"}
        /\ \A s \in Requests : s # r => req'[s] = req[s]
        /\ status = "running" /\ status' = status /\ cur' = cur /\ lp' = lp
    BY <1>4, RequestPc DEF CancelSelect, GetSelect, row, entry
  <2>2. \A s \in Requests :
              /\ req'[s].pc = "trigger" => req[s].pc = "trigger" /\ mode' = "up"
              /\ req'[s].pc \notin {"resumeGot", "resumeLock", "resumePut"}
              /\ req'[s].pc = "getPut" => req'[s].st # "none"
              /\ req[s].pc = "idle" /\ status = "none" => req'[s].pc = "idle"
    BY <1>c, <2>1 DEF Unresumed, Alone
  <2> QED
    BY <1>c, <2>1, <2>2, QuietUnresumed
<1>5. CASE CancelCommit(r) \/ GetEnrich(r) \/ GetCommit(r)
  <2>1. /\ req'[r].pc \in {"idle", "getPut"}
        /\ \A s \in Requests : s # r => req'[s] = req[s]
        /\ cur' = cur /\ lp' = lp /\ req[r].pc # "idle"
        /\ req'[r].pc = "getPut" => req'[r].st # "none"
    <3>1. CASE CancelCommit(r) \/ GetCommit(r)
      BY <1>a, <3>1 DEF CancelCommit, GetCommit, IdleReq, entry
    <3>2. CASE GetEnrich(r)
      <4>1. CASE est \in Reported
        <5>1. req'[r] = [IdleReq EXCEPT !.pc = "getPut", !.st = est]
          BY <1>a, <3>2, <4>1 DEF GetEnrich
        <5>2. req'[r].pc = "getPut" /\ req'[r].st = est /\ est # "none"
          BY <5>1, <4>1 DEF IdleReq, Reported, Outcomes
        <5> QED
          BY <1>a, <3>2, <5>2 DEF GetEnrich, entry
      <4>2. CASE est \notin Reported
        BY <1>a, <3>2, <4>2 DEF GetEnrich, IdleReq, entry
      <4> QED
        BY <4>1, <4>2
    <3> QED
      BY <1>5, <3>1, <3>2
  <2>2. status' = "none" => status = "none"
    BY <1>5, <2>1 DEF CancelCommit, GetEnrich, GetCommit, AckStatus, row, Unresumed, Alone
  <2>3. \A s \in Requests :
              /\ req'[s].pc = "trigger" => req[s].pc = "trigger" /\ mode' = "up"
              /\ req'[s].pc \notin {"resumeGot", "resumeLock", "resumePut"}
              /\ req'[s].pc = "getPut" => req'[s].st # "none"
              /\ req[s].pc = "idle" /\ status = "none" => req'[s].pc = "idle"
    BY <1>c, <2>1 DEF Unresumed, Alone
  <2> QED
    BY <1>c, <2>1, <2>2, <2>3, QuietUnresumed
<1> QED
  BY <1>b, <1>1, <1>2, <1>3, <1>4, <1>5 DEF HandlerStep, Call

LEMMA UnresumedLoopStep ==
    ASSUME TypeOK, Unresumed, NEW l \in Loops, Lively(l), LoopStep(l)
    PROVE  Unresumed'
<1>1. /\ cur' = cur /\ req' = req /\ mode' = mode
      /\ status' = status \/ status' \in Outcomes
      /\ lp'[l].pc \in Dispatching => lp[l].pc \in Dispatching
  BY BusyStep
<1>2. \A k \in Loops : lp'[k].pc \in Dispatching => lp[k].pc \in Dispatching
  BY <1>1, LoopFrame
<1>3. status' = "none" => status = "none"
  BY <1>1 DEF Outcomes
<1>4. \A s \in Requests :
          /\ req'[s].pc = "trigger" => req[s].pc = "trigger" /\ mode' = "up"
          /\ req'[s].pc \notin {"resumeGot", "resumeLock", "resumePut"}
          /\ req'[s].pc = "getPut" => req'[s].st # "none"
          /\ req[s].pc = "idle" /\ status = "none" => req'[s].pc = "idle"
  BY <1>1 DEF Unresumed, Alone
<1> QED
  BY <1>1, <1>2, <1>3, <1>4, QuietUnresumed

LEMMA UnresumedServerStep ==
    ASSUME TypeOK, Unresumed, Crash \/ Shutdown \/ Exit \/ Restart
    PROVE  Unresumed'
<1>a. lp \in [Loops -> LoopState]
  BY DEF TypeOK
<1>b. {"off", "finish", "final", "gone"} \cap Dispatching = {} /\ "boot" \in Dispatching
  BY DEF Dispatching
<1>1. CASE Crash
  <2>1. ASSUME NEW l \in Loops
        PROVE  lp'[l].pc \notin Dispatching
    BY <1>1, <1>a, <1>b DEF Crash, LoopState
  <2>2. \A r \in Requests : req'[r].pc = "idle"
    BY <1>1 DEF Crash, IdleReq
  <2> QED
    BY <2>1, <2>2 DEF Unresumed, Alone, OneDispatcher
<1>2. CASE Shutdown
  <2>1. PICK emitting : lp' = [k \in Loops |-> Interrupted(k, emitting)]
    BY <1>2 DEF Shutdown
  <2>2. ASSUME NEW l \in Loops
        PROVE  lp'[l].pc \notin Dispatching
    BY <1>a, <1>b, <2>1, InterruptedEffect
  <2>3. req' = req /\ \A r \in Requests : req[r].pc = "idle"
    BY <1>2 DEF Shutdown
  <2> QED
    BY <2>2, <2>3 DEF Unresumed, Alone, OneDispatcher
<1>3. CASE Exit
  <2>1. /\ \A l \in Loops : lp'[l].pc \notin Dispatching
        /\ status' = status /\ req' = req /\ mode = "stopping"
    BY <1>3, <1>b DEF Exit, row
  <2> QED
    BY <2>1 DEF Unresumed, Alone, OneDispatcher
<1>4. CASE Restart
  <2>1. /\ \A l \in Loops : lp[l].pc \notin Dispatching
        /\ req' = req /\ mode = "down" /\ mode' = "up"
        /\ \A r \in Requests : req[r].pc # "trigger"
    BY <1>4 DEF Restart, Unresumed, Alone
  <2>2. CASE \E l \in Loops : StartRun(l, ckpt, TRUE)
    <3>1. OneDispatcher'
      BY <2>1, <2>2, StartsAlone
    <3>2. status' # "none"
      <4>1. PICK l \in Loops : StartRun(l, ckpt, TRUE)
        BY <2>2
      <4>2. lp' # lp
        BY <4>1, <1>a DEF StartRun, LoopState
      <4> QED
        BY <1>4, <4>2 DEF Restart
    <3> QED
      BY <2>1, <3>1, <3>2 DEF Unresumed, Alone
  <2>3. CASE lp' = lp
    <3>1. status' = "none" => status = "none"
      BY <1>4 DEF Restart, Unrecoverable
    <3> QED
      BY <2>1, <2>3, <3>1 DEF Unresumed, Alone, OneDispatcher
  <2> QED
    BY <1>4, <2>2, <2>3 DEF Restart
<1> QED
  BY <1>1, <1>2, <1>3, <1>4

LEMMA AloneCorrect ==
    ASSUME NoResumes \/ (OneClient /\ NoPolls)
    PROVE  Spec => [](TypeOK /\ Alone)
<1>1. CASE OneClient /\ NoPolls
  <2>1. TypeOK /\ Exclusive => Alone
    BY DEF Exclusive, Alone, NoneBusy, Busy, Dispatching
  <2> QED
    BY <1>1, <2>1, ExclusiveCorrect, PTL
<1>2. CASE NoResumes
  <2> DEFINE AllLively == \A l \in Loops : Lively(l)
  <2>1. Init => Unresumed /\ AllLively
    <3> SUFFICES ASSUME Init PROVE Unresumed /\ AllLively
      OBVIOUS
    <3>1. /\ \A l \in Loops : lp[l] = NewLoop
          /\ \A r \in Requests : req[r] = IdleReq
          /\ cur = 0 /\ status = "none" /\ mode = "up"
      BY DEF Init
    <3>2. \A l \in Loops : l # 0
      BY ConstantsOK DEF Loops
    <3> QED
      BY <3>1, <3>2 DEF Unresumed, Alone, OneDispatcher, Lively, NewLoop, IdleReq, Dispatching
  <2>2. TypeOK /\ Unresumed /\ AllLively /\ [Next]_vars => Unresumed' /\ AllLively'
    <3> SUFFICES ASSUME TypeOK, Unresumed, AllLively, [Next]_vars PROVE Unresumed'
      BY LivelyStep
    <3>1. CASE UNCHANGED vars
      BY <3>1 DEF vars, server, row, entry, sandbox, Unresumed, Alone, OneDispatcher
    <3>2. CASE \E l \in Loops : LoopStep(l)
      BY <3>2, UnresumedLoopStep
    <3>3. CASE \E r \in Requests : HandlerStep(r) \/ Call(r)
      BY <1>2, <3>3, UnresumedHandlerStep
    <3>4. CASE Crash \/ Shutdown \/ Exit \/ Restart
      BY <3>4, UnresumedServerStep
    <3> QED
      BY <3>1, <3>2, <3>3, <3>4 DEF Next
  <2>3. Unresumed => Alone
    BY DEF Unresumed
  <2> QED
    <3> HIDE DEF AllLively
    <3> QED
      BY <2>1, <2>2, <2>3, TypeCorrect, PTL DEF Spec
<1> QED
  BY <1>1, <1>2

\* What is in memory is no older than what is saved: an activation starts with
\* the row's checkpoint, and its own iteration only grows.
Carries(l) ==
    /\ lp[l].pc = "boot" => Restored(src[l].ckpt) >= ckpt
    /\ lp[l].pc \in Dispatching \ {"boot"} => wd[l].iter >= ckpt
Brings(r) ==
    /\ req[r].pc \in {"resumeGot", "resumeLock"} => req[r].ck = ckpt
    /\ req[r].pc = "trigger" => ckpt = NoCkpt
Carried ==
    /\ \A l \in Loops : Carries(l)
    /\ \A r \in Requests : Brings(r)
    /\ status = "none" => ckpt = NoCkpt

\* Restoring loses nothing.
LEMMA RestoredKeeps ==
    ASSUME NEW c \in Nat \cup {NoCkpt}
    PROVE  Restored(c) >= c /\ Restored(c) \in Nat
BY DEF Restored, NoCkpt

\* What a step of an activation makes of its iteration and of the row's.
LEMMA IterationStep ==
    ASSUME TypeOK, NEW l \in Loops, LoopStep(l)
    PROVE  /\ lp'[l].pc # "boot"
           /\ lp'[l].pc \in Dispatching =>
                 \/ lp[l].pc = "boot" /\ wd'[l].iter = Restored(src[l].ckpt)
                 \/ lp[l].pc \in Dispatching \ {"boot"} /\ wd'[l].iter >= wd[l].iter
           /\ \/ ckpt' = ckpt
              \/ lp[l].pc \in {"save", "savefail"} /\ ckpt' = wd[l].iter
<1>a. /\ lp[l] \in LoopState /\ wd[l] \in WorldState /\ wd \in [Loops -> WorldState]
      /\ wd[l].iter \in Nat
  <2>1. lp[l] \in LoopState /\ wd[l] \in WorldState /\ wd \in [Loops -> WorldState]
    BY DEF TypeOK
  <2> QED
    BY <2>1 DEF WorldState
<1>b. {"off", "finish", "final", "gone"} \cap Dispatching = {}
  BY DEF Dispatching
<1>1. \/ ckpt' = ckpt
      \/ lp[l].pc \in {"save", "savefail"} /\ ckpt' = wd[l].iter
  BY DEF LoopStep, Boot, BootFails, TopCancelled, TimeLimit, Ask, NoDecision,
         DecideEnd, DecideUnknown, DecideStep, WorkReturns, AgentRaises, Gate,
         ReviewReturns, ReworkReturns, Commit, Save, SaveFailed, WriteCheckpoint,
         WriteOutcome, Cleanup, row
<1>2. CASE Boot(l)
  <2>1. wd'[l].iter = Restored(src[l].ckpt)
    BY <1>2, <1>a DEF Boot, WorldState
  <2> QED
    BY <1>1, <1>2, <2>1, BootEffect DEF Boot
<1>3. CASE lp'[l].pc \notin Dispatching
  BY <1>1, <1>3 DEF Dispatching
<1>4. CASE ~Boot(l) /\ lp'[l].pc \in Dispatching
  <2>1. ~(\E o, c : FinishRun(l, o, c)) /\ ~FailRun(l)
    BY <1>4, <1>b, Destinations
  <2>2. ~BootFails(l) /\ ~Cleanup(l) /\ ~WriteOutcome(l) /\ ~SaveFailed(l)
    <3>1. ~Goto(l, "final") /\ ~Goto(l, "gone")
      BY <1>4, <1>b, Destinations
    <3> QED
      BY <2>1, <3>1 DEF BootFails, Cleanup, WriteOutcome, SaveFailed
  <2>3. lp[l].pc \in Dispatching \ {"boot"} /\ lp'[l].pc # "boot"
    <3>1. lp[l].pc \in Dispatching \ {"boot"}
      BY <1>4, <2>2
      DEF LoopStep, TopCancelled, TimeLimit, Ask, NoDecision, DecideEnd, DecideUnknown,
          DecideStep, WorkReturns, AgentRaises, Gate, ReviewReturns, ReworkReturns,
          Commit, Save, Dispatching
    <3>2. ASSUME lp'[l].pc = "boot" PROVE FALSE
      <4>1. /\ \A p : p # "boot" => ~Goto(l, p)
            /\ \A p : p # "boot" => ~StartAgent(l, p)
        BY <3>2, Destinations
      <4>2. /\ ~Goto(l, "top") /\ ~Goto(l, "plan") /\ ~Goto(l, "gate") /\ ~Goto(l, "review")
            /\ ~Goto(l, "savefail") /\ ~Goto(l, "commit") /\ ~Goto(l, "save")
            /\ ~StartAgent(l, "work") /\ ~StartAgent(l, "rework")
        BY <4>1
      <4>3. ~TopCancelled(l) /\ ~TimeLimit(l) /\ ~Ask(l) /\ ~NoDecision(l) /\ ~DecideUnknown(l)
        BY <2>1, <4>2 DEF TopCancelled, TimeLimit, Ask, NoDecision, DecideUnknown
      <4>4. /\ \A o : ~DecideEnd(l, o)
            /\ \A a : ~DecideStep(l, a)
            /\ \A b : ~WorkReturns(l, b)
            /\ \A b : ~ReworkReturns(l, b)
            /\ \A v : ~ReviewReturns(l, v)
        BY <2>1, <4>2 DEF DecideEnd, DecideStep, WorkReturns, ReworkReturns, ReviewReturns
      <4>5. ~AgentRaises(l) /\ ~Gate(l) /\ ~Save(l) /\ ~Commit(l)
        BY <2>1, <4>2 DEF AgentRaises, Gate, Save, Commit
      <4> QED
        BY <1>4, <2>2, <4>3, <4>4, <4>5 DEF LoopStep
    <3> QED
      BY <3>1, <3>2
  <2>4. wd'[l].iter >= wd[l].iter
    <3>1. CASE wd' = wd
      BY <3>1, <1>a
    <3>2. CASE Ask(l)
      BY <3>2, <1>a DEF Ask, WorldState
    <3>3. CASE NoDecision(l)
      <4> DEFINE n == wd[l].iter + 1
      <4>1. wd'[l] = [wd[l] EXCEPT !.nodec = wd[l].nodec + 1, !.iter = n]
        BY <3>3, <2>1, <1>a DEF NoDecision
      <4>2. n >= wd[l].iter
        BY <1>a
      <4> HIDE DEF n
      <4>3. wd'[l].iter = n
        BY <4>1, <1>a DEF WorldState
      <4> QED
        BY <4>2, <4>3
    <3>4. CASE DecideUnknown(l) \/ Commit(l)
      <4> DEFINE n == wd[l].iter + 1
      <4>1. wd'[l] \in {[wd[l] EXCEPT !.nodec = 0, !.iter = n], [wd[l] EXCEPT !.iter = n]}
        BY <3>4, <1>a DEF DecideUnknown, Commit
      <4>2. n >= wd[l].iter
        BY <1>a
      <4> HIDE DEF n
      <4>3. wd'[l].iter = n
        BY <4>1, <1>a DEF WorldState
      <4> QED
        BY <4>2, <4>3
    <3>5. ASSUME NEW a, DecideStep(l, a) PROVE wd'[l].iter = wd[l].iter
      BY <3>5, <1>a DEF DecideStep, WorldState
    <3>6. ASSUME NEW b, WorkReturns(l, b) \/ ReworkReturns(l, b)
          PROVE  wd'[l].iter = wd[l].iter
      BY <3>6, <1>a DEF WorkReturns, ReworkReturns, WorldState
    <3>7. ASSUME NEW v, ReviewReturns(l, v) PROVE wd'[l].iter = wd[l].iter
      BY <3>7, <1>a DEF ReviewReturns, WorldState
    <3>8. \/ wd' = wd \/ Ask(l) \/ NoDecision(l) \/ DecideUnknown(l) \/ Commit(l)
          \/ \E a : DecideStep(l, a)
          \/ \E b : WorkReturns(l, b) \/ ReworkReturns(l, b)
          \/ \E v : ReviewReturns(l, v)
      BY <1>4, <2>2 DEF LoopStep, TopCancelled, TimeLimit, DecideEnd, AgentRaises, Gate, Save
    <3> QED
      BY <1>a, <3>1, <3>2, <3>3, <3>4, <3>5, <3>6, <3>7, <3>8
  <2> QED
    BY <1>1, <2>3, <2>4
<1> QED
  BY <1>2, <1>3, <1>4

LEMMA CarriedLoopStep ==
    ASSUME TypeOK, Alone, Carried, NEW l \in Loops, Lively(l), LoopStep(l)
    PROVE  Carried'
<1>a. ckpt \in Nat \cup {NoCkpt} /\ wd[l].iter \in Nat
  <2>1. wd[l] \in WorldState
    BY DEF TypeOK
  <2> QED
    BY <2>1 DEF TypeOK, WorldState
<1>b. {"save", "savefail"} \subseteq Dispatching \ {"boot"}
  BY DEF Dispatching
<1>c. /\ req' = req /\ (status' = "none" => status = "none")
  BY BusyStep DEF Outcomes
<1>d. \A k \in Loops \ {l} : lp'[k] = lp[k] /\ wd'[k] = wd[k] /\ src'[k] = src[k]
  <2>1. \A k \in Loops \ {l} : lp'[k] = lp[k] /\ wd'[k] = wd[k]
    BY LoopFrame
  <2>2. src' = src \/ src' = [src EXCEPT ![l] = NoSource]
    BY DEF LoopStep, Boot, BootFails, TopCancelled, TimeLimit, Ask, NoDecision,
           DecideEnd, DecideUnknown, DecideStep, WorkReturns, AgentRaises, Gate,
           ReviewReturns, ReworkReturns, Commit, Save, SaveFailed, WriteOutcome, Cleanup
  <2> QED
    BY <2>1, <2>2 DEF TypeOK
<1>e. ckpt' = ckpt \/ (lp[l].pc \in {"save", "savefail"} /\ ckpt' = wd[l].iter)
  BY IterationStep
<1>1. Carries(l)'
  <2>1. lp'[l].pc # "boot"
    BY IterationStep
  <2>2. ASSUME lp'[l].pc \in Dispatching
        PROVE  wd'[l].iter >= ckpt'
    <3>1. CASE lp[l].pc = "boot" /\ wd'[l].iter = Restored(src[l].ckpt)
      BY <1>e, <3>1 DEF Carried, Carries
    <3>2. CASE lp[l].pc \in Dispatching \ {"boot"} /\ wd'[l].iter >= wd[l].iter
      <4>1. wd[l].iter >= ckpt'
        BY <1>a, <1>e, <3>2 DEF Carried, Carries
      <4>2. wd'[l].iter \in Nat /\ ckpt' \in Nat \cup {-1}
        <5>1. TypeOK'
          BY LoopStepType
        <5>2. wd'[l] \in WorldState
          BY <5>1 DEF TypeOK
        <5> QED
          BY <5>1, <5>2 DEF TypeOK, WorldState, NoCkpt
      <4> QED
        BY <1>a, <3>2, <4>1, <4>2
    <3> QED
      BY <2>2, <3>1, <3>2, IterationStep
  <2> QED
    BY <2>1, <2>2 DEF Carries
<1>2. CASE ckpt' = ckpt
  <2>1. \A k \in Loops \ {l} : Carries(k)'
    BY <1>2, <1>d DEF Carried, Carries
  <2>2. \A r \in Requests : Brings(r)'
    BY <1>2, <1>c DEF Carried, Brings
  <2> QED
    BY <1>1, <1>2, <1>c, <2>1, <2>2 DEF Carried
\* A checkpoint is written: nobody else is at work or about to be.
<1>3. CASE lp[l].pc \in {"save", "savefail"} /\ ckpt' = wd[l].iter
  <2>1. \A k \in Loops \ {l} : lp'[k].pc \notin Dispatching
    BY <1>3, <1>b, <1>d DEF Alone, OneDispatcher
  <2>2. \A k \in Loops \ {l} : Carries(k)'
    BY <2>1 DEF Carries, Dispatching
  <2>3. \A r \in Requests : req[r].pc \notin {"trigger", "resumeGot", "resumeLock"}
    BY <1>3, <1>b DEF Alone
  <2>4. status # "none"
    BY <1>3, <1>b DEF Alone
  <2> QED
    BY <1>1, <1>c, <2>2, <2>3, <2>4 DEF Carried, Brings
<1> QED
  BY <1>e, <1>2, <1>3

\* Whoever starts an activation hands it the row's checkpoint.
LEMMA StartCarries ==
    ASSUME TypeOK, Carried, NEW l \in Loops, NEW c, NEW x, StartRun(l, c, x),
           c = ckpt, ckpt' = ckpt, wd' = wd
    PROVE  \A k \in Loops : Carries(k)'
<1>1. src'[l].ckpt = ckpt /\ lp'[l].pc = "boot"
  <2>1. src'[l] = [ckpt |-> ckpt, existed |-> x]
    BY DEF StartRun, TypeOK
  <2> QED
    BY <2>1 DEF StartRun, TypeOK, LoopState
<1>2. Restored(ckpt) >= ckpt
  BY RestoredKeeps DEF TypeOK
<1>3. \A k \in Loops \ {l} : lp'[k] = lp[k] /\ src'[k] = src[k]
  BY DEF StartRun, TypeOK
<1> QED
  BY <1>1, <1>2, <1>3 DEF Carries, Carried

LEMMA CarriedHandlerStep ==
    ASSUME TypeOK, Alone, Carried, NEW r \in Requests, HandlerStep(r) \/ Call(r)
    PROVE  Carried'
<1>a. req \in [Requests -> Request]
  BY DEF TypeOK
<1>b. ckpt' = ckpt /\ wd' = wd
  BY DEF HandlerStep, Call, TriggerStart, EngineCancel, CancelCommit, GetEnrich,
         GetCommit, ResumeFlush, ResumeStart, ResumeCommit, TriggerCommit,
         CancelSelect, GetSelect, ResumeSelect, row
<1>1. \A l \in Loops : Carries(l)'
  <2>1. CASE TriggerStart(r)
    <3>1. ckpt = NoCkpt
      BY <2>1 DEF TriggerStart, Carried, Brings
    <3> QED
      BY <1>b, <2>1, <3>1, StartCarries DEF TriggerStart
  <2>2. CASE ResumeStart(r)
    <3>1. req[r].ck = ckpt
      BY <2>2 DEF ResumeStart, Carried, Brings
    <3> QED
      BY <1>b, <2>2, <3>1, StartCarries DEF ResumeStart
  <2>3. CASE ~TriggerStart(r) /\ ~ResumeStart(r)
    <3>1. src' = src
      BY <2>3 DEF HandlerStep, Call, EngineCancel, CancelCommit, GetEnrich, GetCommit,
         ResumeFlush, ResumeCommit, TriggerCommit, CancelSelect, GetSelect, ResumeSelect
    <3>2. ASSUME NEW l \in Loops PROVE lp'[l].pc = lp[l].pc
      BY <2>3 DEF HandlerStep, Call, EngineCancel, CancelCommit, GetEnrich, GetCommit,
         ResumeFlush, ResumeCommit, TriggerCommit, CancelSelect, GetSelect, ResumeSelect,
         TypeOK, LoopState
    <3> QED
      BY <1>b, <3>1, <3>2 DEF Carries, Carried
  <2> QED
    BY <2>1, <2>2, <2>3
<1>2. \A s \in Requests : Brings(s)'
  <2>1. \A s \in Requests : s # r => req'[s] = req[s]
    BY <1>a DEF HandlerStep, Call, TriggerStart, EngineCancel, CancelCommit, GetEnrich,
         GetCommit, ResumeFlush, ResumeStart, ResumeCommit, TriggerCommit,
         CancelSelect, GetSelect, ResumeSelect
  <2>2. Brings(r)'
    <3>1. CASE TriggerCommit(r)
      <4>1. req'[r].pc = "trigger" /\ ckpt = NoCkpt
        BY <3>1, RequestPc DEF TriggerCommit, Carried
      <4> QED
        BY <1>b, <4>1 DEF Brings
    <3>2. CASE ResumeSelect(r)
      <4>1. req'[r].pc = "resumeGot" /\ req'[r].ck = ckpt
        BY <3>2, <1>a DEF ResumeSelect
      <4> QED
        BY <1>b, <4>1 DEF Brings
    <3>3. CASE ResumeFlush(r)
      <4>1. req'[r].pc = "resumeLock" /\ req'[r].ck = req[r].ck /\ req[r].pc = "resumeGot"
        BY <3>3, <1>a DEF ResumeFlush, Request
      <4> QED
        BY <1>b, <4>1 DEF Brings, Carried
    <3>4. CASE ~TriggerCommit(r) /\ ~ResumeSelect(r) /\ ~ResumeFlush(r)
      <4>1. req'[r].pc \notin {"trigger", "resumeGot", "resumeLock"}
        <5>1. CASE EngineCancel(r) \/ CancelSelect(r) \/ GetSelect(r)
          <6>1. \E p \in {"cancelPut", "cancelGot", "getGot"} : req' = [req EXCEPT ![r].pc = p]
            BY <5>1 DEF EngineCancel, CancelSelect, GetSelect
          <6> QED
            BY <6>1, RequestPc
        <5>2. CASE TriggerStart(r) \/ CancelCommit(r) \/ GetCommit(r) \/ ResumeCommit(r)
          <6>1. req'[r] = IdleReq
            BY <5>2, <1>a DEF TriggerStart, CancelCommit, GetCommit, ResumeCommit
          <6>2. IdleReq.pc = "idle"
            BY DEF IdleReq
          <6> QED
            BY <6>1, <6>2
        <5>3. CASE GetEnrich(r)
          <6>1. req'[r] = IdleReq \/ req'[r] = [IdleReq EXCEPT !.pc = "getPut", !.st = est]
            BY <5>3, <1>a DEF GetEnrich
          <6>2. IdleReq.pc = "idle" /\ [IdleReq EXCEPT !.pc = "getPut", !.st = est].pc = "getPut"
            BY DEF IdleReq
          <6> QED
            BY <6>1, <6>2
        <5>4. CASE ResumeStart(r)
          BY <5>4, <1>a DEF ResumeStart, IdleReq
        <5> QED
          BY <3>4, <5>1, <5>2, <5>3, <5>4 DEF HandlerStep, Call
      <4> QED
        BY <4>1 DEF Brings
    <3> QED
      BY <3>1, <3>2, <3>3, <3>4
  <2> QED
    BY <1>b, <2>1, <2>2 DEF Brings, Carried
<1>3. status' = "none" => status = "none"
  <2>1. CASE GetCommit(r)
    BY <2>1 DEF GetCommit, Alone
  <2>2. CASE ~GetCommit(r)
    BY <2>2 DEF HandlerStep, Call, TriggerStart, EngineCancel, CancelCommit, GetEnrich,
         ResumeFlush, ResumeStart, ResumeCommit, TriggerCommit, CancelSelect, GetSelect,
         ResumeSelect, AckStatus, row
  <2> QED
    BY <2>1, <2>2
<1> QED
  BY <1>b, <1>1, <1>2, <1>3 DEF Carried

LEMMA CarriedServerStep ==
    ASSUME TypeOK, Carried, Crash \/ Shutdown \/ Exit \/ Restart
    PROVE  Carried'
<1>a. lp \in [Loops -> LoopState]
  BY DEF TypeOK
<1>b. {"off", "finish", "final", "gone"} \cap Dispatching = {} /\ "boot" \in Dispatching
  BY DEF Dispatching
<1>c. ckpt' = ckpt
  BY DEF Crash, Shutdown, Exit, Restart, row
<1>d. status' = "none" => status = "none"
  BY DEF Crash, Shutdown, Exit, Restart, Unrecoverable, row
<1>e. \A r \in Requests : Brings(r)'
  <2>1. (\A r \in Requests : req'[r].pc = "idle") \/ req' = req
    <3>1. CASE Crash
      <4>1. req' = [r \in Requests |-> IdleReq]
        BY <3>1 DEF Crash
      <4>2. IdleReq.pc = "idle"
        BY DEF IdleReq
      <4> QED
        BY <4>1, <4>2
    <3>2. CASE Shutdown \/ Exit \/ Restart
      BY <3>2 DEF Shutdown, Exit, Restart
    <3> QED
      BY <3>1, <3>2
  <2> QED
    BY <1>c, <2>1 DEF Brings, Carried
<1>f. (\A l \in Loops : lp'[l].pc \notin Dispatching) => \A l \in Loops : Carries(l)'
  BY <1>b DEF Carries
<1>1. CASE Crash
  <2>1. ASSUME NEW l \in Loops
        PROVE  lp'[l].pc \notin Dispatching
    BY <1>1, <1>a, <1>b DEF Crash, LoopState
  <2> QED
    BY <1>c, <1>d, <1>e, <1>f, <2>1 DEF Carried
<1>2. CASE Shutdown
  <2>1. PICK emitting : lp' = [k \in Loops |-> Interrupted(k, emitting)]
    BY <1>2 DEF Shutdown
  <2>2. ASSUME NEW l \in Loops
        PROVE  lp'[l].pc \notin Dispatching
    BY <1>a, <1>b, <2>1, InterruptedEffect
  <2> QED
    BY <1>c, <1>d, <1>e, <1>f, <2>2 DEF Carried
<1>3. CASE Exit
  <2>1. \A l \in Loops : lp'[l].pc \notin Dispatching
    BY <1>3, <1>b DEF Exit
  <2> QED
    BY <1>c, <1>d, <1>e, <1>f, <2>1 DEF Carried
<1>4. CASE Restart
  <2>1. wd' = wd
    BY <1>4 DEF Restart
  <2>2. CASE \E l \in Loops : StartRun(l, ckpt, TRUE)
    BY <1>c, <1>d, <1>e, <2>1, <2>2, StartCarries DEF Carried
  <2>3. CASE lp' = lp /\ src' = src
    BY <1>c, <1>d, <1>e, <2>1, <2>3 DEF Carried, Carries
  <2> QED
    BY <1>4, <2>2, <2>3 DEF Restart
<1> QED
  BY <1>1, <1>2, <1>3, <1>4

\* No checkpoint is ever replaced by an older one: through failures, crashes and
\* recoveries, however many requests there are, where nobody resumes; and
\* through resumes, where one client alone uses the API.
THEOREM CheckpointMonotoneHolds ==
    ASSUME NoResumes \/ (OneClient /\ NoPolls)
    PROVE  Spec => CheckpointMonotone
<1> DEFINE AllLively == \A l \in Loops : Lively(l)
<1>1. Init => Carried /\ AllLively
  <2> SUFFICES ASSUME Init PROVE Carried /\ AllLively
    OBVIOUS
  <2>1. /\ \A l \in Loops : lp[l] = NewLoop
        /\ \A r \in Requests : req[r] = IdleReq
        /\ cur = 0 /\ ckpt = NoCkpt
    BY DEF Init
  <2>2. \A l \in Loops : l # 0
    BY ConstantsOK DEF Loops
  <2> QED
    BY <2>1, <2>2 DEF Carried, Carries, Brings, Lively, NewLoop, IdleReq, Dispatching
<1>2. TypeOK /\ Alone /\ Carried /\ AllLively /\ [Next]_vars => Carried' /\ AllLively'
  <2> SUFFICES ASSUME TypeOK, Alone, Carried, AllLively, [Next]_vars PROVE Carried'
    BY LivelyStep
  <2>1. CASE UNCHANGED vars
    BY <2>1 DEF vars, server, row, entry, sandbox, Carried, Carries, Brings
  <2>2. CASE \E l \in Loops : LoopStep(l)
    BY <2>2, CarriedLoopStep
  <2>3. CASE \E r \in Requests : HandlerStep(r) \/ Call(r)
    BY <2>3, CarriedHandlerStep
  <2>4. CASE Crash \/ Shutdown \/ Exit \/ Restart
    BY <2>4, CarriedServerStep
  <2> QED
    BY <2>1, <2>2, <2>3, <2>4 DEF Next
<1>3. TypeOK /\ Carried /\ [Next]_vars => [ckpt' >= ckpt]_ckpt
  <2> SUFFICES ASSUME TypeOK, Carried, [Next]_vars PROVE ckpt' >= ckpt \/ ckpt' = ckpt
    OBVIOUS
  <2>1. CASE \E l \in Loops : LoopStep(l)
    <3>1. PICK l \in Loops : LoopStep(l)
      BY <2>1
    <3>2. {"save", "savefail"} \subseteq Dispatching \ {"boot"}
      BY DEF Dispatching
    <3> QED
      BY <3>1, <3>2, IterationStep DEF Carried, Carries
  <2>2. CASE ~\E l \in Loops : LoopStep(l)
    BY <2>2 DEF Next, vars, row, HandlerStep, Call, TriggerStart, EngineCancel, CancelCommit,
         GetEnrich, GetCommit, ResumeFlush, ResumeStart, ResumeCommit, TriggerCommit,
         CancelSelect, GetSelect, ResumeSelect, Crash, Shutdown, Exit, Restart
  <2> QED
    BY <2>1, <2>2
<1> QED
  <2> HIDE DEF AllLively
  <2> QED
    BY <1>1, <1>2, <1>3, AloneCorrect, PTL DEF Spec, CheckpointMonotone
=============================================================================
