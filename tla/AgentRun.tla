----------------------------- MODULE AgentRun -----------------------------
(***************************************************************************)
(* One agent: AgentRunner.run (core/agent_runner.py) - turns of asking the *)
(* model, with retries, and executing the tools it calls; then, for a      *)
(* coder that changed files, a self review, which is the same loop with    *)
(* other limits and other exits.  The user may cancel at every await.      *)
(*                                                                         *)
(* A message is its role and the number of tool calls (of the assistant)   *)
(* or of tool results (of the user) in it.                                 *)
(***************************************************************************)
EXTENDS Integers, Sequences

CONSTANTS
    MAX_TURNS,               \* DEFAULT_MAX_TURNS
    SELF_REVIEW_MAX_TURNS,
    LLM_MAX_RETRIES,
    MaxCalls,                \* BOUND: tool calls in one answer of the model
    SelfReview               \* enable_self_review

ASSUME AgentConstants ==
    /\ MAX_TURNS \in Nat \ {0}
    /\ SELF_REVIEW_MAX_TURNS \in Nat \ {0}
    /\ LLM_MAX_RETRIES \in Nat \ {0}
    /\ MaxCalls \in Nat
    /\ SelfReview \in BOOLEAN

VARIABLES
    at,        \* the await, or the top of a loop, that the agent is at
    phase,     \* "work" (_run_loop) or "review" (_run_self_review)
    turn,      \* turns begun in this phase
    attempt,   \* requests of this turn that were begun
    talk,      \* messages, of this phase
    results,   \* tool_results, of the current answer
    ok,        \* result.success
    changed,   \* result.files_changed is not empty
    claims,    \* result.output ends in "[Self-Review completed]"
    cancel,    \* cancel_event
    why,       \* history: how the phase ended
    worked,    \* history: how, and with which turn, the work ended
    since,     \* history: the phase and the turn in which the cancellation came
    late       \* history: requests and tools begun after the cancellation

history == <<why, worked, since>>
avars == <<at, phase, turn, attempt, talk, results, ok, changed, claims,
          cancel, history, late>>

Turns == IF phase = "work" THEN MAX_TURNS ELSE SELF_REVIEW_MAX_TURNS

Prompt == [role |-> "user", n |-> 0]
Asked == talk[Len(talk)].n   \* the tool calls of the answer at hand

\* MutHeard: the self review does not look before a turn.
MutHeard == cancel /\ phase = "work"
\* MutDeaf: the work does not look before a turn.
MutDeaf == cancel /\ phase = "review"
\* The look at cancel_event before a turn.
Heard == cancel

\* result.success of an agent that is cancelled.
CutOff == FALSE

\* Is another request made after a transient error?
Retries == attempt < LLM_MAX_RETRIES

\* MutCounted: a request that is repeated is not counted.
MutCounted == 1
\* The number of the request that begins.
Counted == attempt + 1

\* MutPrompted: the self review goes on with the conversation so far.
MutPrompted == Append(talk, Prompt)
\* The self review starts a conversation of its own.
Prompted == <<Prompt>>

\* MutInFlight: cancel_event is not looked at between the tools.
MutInFlight == FALSE
\* The look at cancel_event before a tool.
InFlight == cancel

\* Counted up to one more than CancelBound allows.
Late(kind) ==
    late' = IF cancel /\ late[kind] <= LLM_MAX_RETRIES
            THEN [late EXCEPT ![kind] = late[kind] + 1] ELSE late

-----------------------------------------------------------------------------
AInit ==
    /\ at = "turn" /\ phase = "work"
    /\ turn = 0 /\ attempt = 0
    /\ talk = <<Prompt>> /\ results = 0
    /\ ok = TRUE                     \* AgentResult.success defaults to True
    /\ changed = FALSE /\ claims = FALSE
    /\ cancel = FALSE
    /\ why = "none" /\ worked = [why |-> "none", turn |-> 0]
    /\ since = [phase |-> "none", turn |-> 0]
    /\ late = [kind \in {"chat", "tool"} |-> 0]

\* DirectorLoop.cancel.
Cancel ==
    /\ ~cancel /\ at # "end"
    /\ cancel' = TRUE /\ since' = [phase |-> phase, turn |-> turn]
    /\ UNCHANGED <<at, phase, turn, attempt, talk, results, ok, changed, claims, why, worked, late>>

\* The phase has ended.
Ended(reason) ==
    /\ why' = reason
    /\ worked' = IF phase = "work" THEN [why |-> reason, turn |-> turn] ELSE worked
    /\ UNCHANGED since

\* The phase is over.  A self review follows successful work that changed
\* files; it appends its closing line whatever made it end.
Over(success, reason) ==
    /\ Ended(reason)
    /\ IF phase = "work"
       THEN /\ ok' = success
            /\ UNCHANGED claims
            /\ IF success /\ SelfReview /\ changed
               THEN /\ phase' = "review" /\ at' = "turn"
                    /\ turn' = 0 /\ attempt' = 0 /\ results' = 0
                    /\ talk' = Prompted
               ELSE at' = "end" /\ UNCHANGED <<phase, turn, attempt, results, talk>>
       ELSE /\ claims' = TRUE /\ at' = "end"
            /\ UNCHANGED <<ok, phase, turn, attempt, results, talk>>

\* An exception ends either phase, and with it the agent: node_failed.
Raise(reason) ==
    /\ Ended(reason) /\ ok' = FALSE /\ at' = "end"
    /\ UNCHANGED <<claims, phase, turn, attempt, results, talk>>

\* The top of the loop: the limit, the cancellation, or another turn.
LastTurn ==
    /\ at = "turn" /\ turn = Turns
    /\ Over(TRUE, "limit")
    /\ UNCHANGED <<changed, cancel, late>>

HearCancel ==
    /\ at = "turn" /\ turn < Turns /\ Heard
    /\ Over(CutOff, "cancelled")
    /\ UNCHANGED <<changed, cancel, late>>

\* The time-out.  What was emitted last was emitted just before, so that only
\* the emitting itself can have taken that long.
Inactive ==
    /\ at = "turn" /\ turn < Turns /\ ~Heard /\ phase = "work"
    /\ Raise("inactive")
    /\ UNCHANGED <<changed, cancel, late>>

Turn ==
    /\ at = "turn" /\ turn < Turns /\ ~Heard
    /\ at' = "ask" /\ turn' = turn + 1 /\ attempt' = 0
    /\ UNCHANGED <<phase, talk, results, ok, changed, claims, cancel, history, late>>

\* A request to the model, the first or again after the delay.
Ask ==
    /\ at = "ask"
    /\ at' = "chat" /\ attempt' = Counted
    /\ Late("chat")
    /\ UNCHANGED <<phase, turn, talk, results, ok, changed, claims, cancel, history>>

\* LLMConnectionError, LLMTimeoutError.
Transient ==
    /\ at = "chat"
    /\ IF Retries
       THEN at' = "ask" /\ UNCHANGED <<phase, turn, attempt, talk, results, ok, claims, history>>
       ELSE Over(FALSE, "llm")
    /\ UNCHANGED <<changed, cancel, late>>

\* Any other LLMError, which covers every status that is not 200.
Refused ==
    /\ at = "chat"
    /\ Over(FALSE, "llm")
    /\ UNCHANGED <<changed, cancel, late>>

\* An exception that agent_llm.py does not map: a broken connection, JSON
\* that is none.
Broken ==
    /\ at = "chat"
    /\ Raise("broken")
    /\ UNCHANGED <<changed, cancel, late>>

\* The model's last word.
Says ==
    /\ at = "chat"
    /\ Over(TRUE, "said")
    /\ UNCHANGED <<changed, cancel, late>>

\* The model calls tools.
Calls(n) ==
    /\ at = "chat"
    /\ talk' = Append(talk, [role |-> "assistant", n |-> n])
    /\ results' = 0
    /\ at' = "next"
    /\ UNCHANGED <<phase, turn, attempt, ok, changed, claims, cancel, history, late>>

\* Before a tool: the cancellation ends the work; the review goes on to the
\* end of the turn with the results it has.
NextTool ==
    /\ at = "next" /\ results < Asked /\ ~InFlight
    /\ at' = "call"
    /\ UNCHANGED <<phase, turn, attempt, talk, results, ok, changed, claims, cancel, history, late>>

StopTools ==
    /\ at = "next" /\ results < Asked /\ InFlight /\ phase = "work"
    /\ Over(CutOff, "cancelled")
    /\ UNCHANGED <<changed, cancel, late>>

\* execute_tool; its errors are results.  write and edit change files.
Execute ==
    /\ at = "call"
    /\ at' = "tool"
    /\ Late("tool")
    /\ \E writes \in BOOLEAN : changed' = (changed \/ writes)
    /\ UNCHANGED <<phase, turn, attempt, talk, results, ok, claims, cancel, history>>

ToolEnds ==
    /\ at = "tool"
    /\ at' = "next" /\ results' = results + 1
    /\ UNCHANGED <<phase, turn, attempt, talk, ok, changed, claims, cancel, history, late>>

\* All tools are done, or the review's were broken off.
Answer ==
    /\ at = "next"
    /\ results = Asked \/ (InFlight /\ phase = "review")
    /\ talk' = Append(talk, [role |-> "user", n |-> results])
    /\ at' = "turn"
    /\ UNCHANGED <<phase, turn, attempt, results, ok, changed, claims, cancel, history, late>>

Step ==
    \/ LastTurn \/ HearCancel \/ Inactive \/ Turn
    \/ Ask \/ Transient \/ Refused \/ Broken \/ Says
    \/ \E n \in 1 .. MaxCalls : Calls(n)
    \/ NextTool \/ StopTools \/ Execute \/ ToolEnds \/ Answer

ANext == Step \/ Cancel

ASpec == AInit /\ [][ANext]_avars

\* httpx's and the shell tool's time-outs end every await.
AFairSpec == ASpec /\ WF_avars(Step)

-----------------------------------------------------------------------------
Reasons == {"none", "limit", "cancelled", "inactive", "llm", "broken", "said"}
Message == [role : {"user", "assistant"}, n : 0 .. MaxCalls]

\* Every variable keeps its type.
ATypeOK ==
    /\ at \in {"turn", "ask", "chat", "next", "call", "tool", "end"}
    /\ phase \in {"work", "review"}
    /\ turn \in 0 .. Turns
    /\ attempt \in 0 .. LLM_MAX_RETRIES
    /\ talk \in Seq(Message) /\ talk # <<>>
    /\ results \in 0 .. MaxCalls
    /\ ok \in BOOLEAN /\ changed \in BOOLEAN /\ claims \in BOOLEAN
    /\ cancel \in BOOLEAN
    /\ why \in Reasons
    /\ worked \in [why : Reasons, turn : 0 .. MAX_TURNS]
    /\ since \in [phase : {"none", "work", "review"},
                  turn : 0 .. MAX_TURNS \cup 0 .. SELF_REVIEW_MAX_TURNS]
    /\ late \in [{"chat", "tool"} -> Nat]

\* What is sent to the model is a conversation: the roles alternate, from the
\* user's prompt to the user's last message, and every tool call has its
\* result in the message after it.  The APIs reject anything else, so that a
\* cancellation between two tools must never be followed by a request.
Conversation ==
    at = "chat" =>
        /\ talk[Len(talk)].role = "user"
        /\ talk[1] = Prompt
        /\ \A i \in 1 .. Len(talk) - 1 :
             /\ talk[i].role # talk[i + 1].role
             /\ talk[i].role = "assistant" => talk[i + 1].n = talk[i].n

\* A node is reported completed, and its files are merged, only when its work had
\* its last word or used up its turns, whatever a review met after that; and an
\* agent that is cancelled in the middle of its work is not: only a cancellation
\* in the very turn with which the work ends comes too late, or one in the review.
Earned ==
    at = "end" /\ ok =>
        /\ worked.why \in {"said", "limit"}
        /\ cancel /\ since.phase = "work" => since.turn = worked.turn

\* A cancelled agent begins at most one more tool and, since the retries do
\* not look, at most LLM_MAX_RETRIES more requests - in whichever phase.
CancelBound == late.tool <= 1 /\ late.chat <= LLM_MAX_RETRIES

\* Every agent ends.
Ends == <>(at = "end")

\* "[Self-Review completed]" (agent_runner.py:274).
ReviewClaim == claims => why \in {"said", "limit"}
=============================================================================
