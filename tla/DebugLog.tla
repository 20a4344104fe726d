------------------------------ MODULE DebugLog ------------------------------
(***************************************************************************)
(* The debug tab of the settings dialog: the server's log at a level, read  *)
(* when debug mode is on, when the level changes, on demand and, if asked,  *)
(* every three seconds.  Answers are shown in the order in which they come, *)
(* a clearing of the log among them.                                        *)
(***************************************************************************)
EXTENDS Naturals

CONSTANTS
    Levels, AllLevels,  \* what the filter can say, and what it says at first
    MaxLines,           \* bound on the lines that the server writes
    MaxTouches          \* bound on what the user does, and on the failures

ASSUME DebugLogAssumption == AllLevels \in Levels /\ {MaxLines, MaxTouches} \subseteq Nat

VARIABLES
    log,        \* the lines of the server's log: those after the first are kept
    debugMode,  \* the store's debug_mode
    open,       \* the tab is shown
    level,      \* levelFilter
    auto,       \* autoRefresh
    busy,       \* loading, which disables the button
    lines,      \* logs: what is shown, and the level it was read with
    reads,      \* the reads in flight: one of two alike changes nothing
    clears,     \* the clearings in flight
    touches

dvars == <<log, debugMode, open, level, auto, busy, lines, reads, clears, touches>>

Logs == {l \in [cleared: 0 .. MaxLines, written: 0 .. MaxLines] : l.cleared <= l.written}
NoLog == [cleared |-> 0, written |-> 0]
Reads == [level: Levels, st: {"sent", "ok", "failed"}, log: Logs]
DTypeOK ==
    /\ log \in Logs /\ {debugMode, open, auto, busy} \subseteq BOOLEAN /\ level \in Levels
    /\ lines \in [level: Levels, log: Logs] /\ reads \subseteq Reads
    /\ clears \subseteq {"sent", "ok", "failed"} /\ touches \in 0 .. MaxTouches

Nothing == [level |-> AllLevels, log |-> NoLog]
DInit ==
    /\ log = NoLog /\ debugMode = FALSE /\ open = FALSE /\ level = AllLevels /\ auto = FALSE
    /\ busy = FALSE /\ lines = Nothing /\ reads = {} /\ clears = {} /\ touches = 0

-----------------------------------------------------------------------------
(* The tab.                                                                *)

Touch == touches < MaxTouches /\ touches' = touches + 1

fetchLogs(l) ==
    /\ reads' = reads \cup {[level |-> l, st |-> "sent", log |-> NoLog]} /\ busy' = TRUE

\* The effect reads the log whenever debug mode or the level has changed.
Reread(on, l) == IF on THEN fetchLogs(l) ELSE UNCHANGED <<reads, busy>>

\* A tab that is left forgets what it shows, and the answers that come for it; the
\* server still clears its log.
OpenTab ==
    /\ Touch /\ ~open /\ open' = TRUE /\ Reread(debugMode, AllLevels)
    /\ UNCHANGED <<log, debugMode, level, auto, lines, clears>>
LeaveDebug ==
    /\ Touch /\ open /\ open' = FALSE /\ level' = AllLevels /\ auto' = FALSE /\ busy' = FALSE
    /\ lines' = Nothing /\ reads' = {} /\ clears' = clears \cap {"sent"}
    /\ UNCHANGED <<log, debugMode>>
handleToggle ==
    /\ Touch /\ open /\ debugMode' = ~debugMode /\ Reread(debugMode', level)
    /\ UNCHANGED <<log, open, level, auto, lines, clears>>

Controls == Touch /\ open /\ debugMode
ChooseLevel(l) ==
    /\ Controls /\ l # level /\ level' = l /\ Reread(debugMode, l)
    /\ UNCHANGED <<log, debugMode, open, auto, lines, clears>>
RefreshLogs ==
    /\ Controls /\ ~busy /\ fetchLogs(level)
    /\ UNCHANGED <<log, debugMode, open, level, auto, lines, clears>>
handleClear ==
    /\ Controls /\ clears' = clears \cup {"sent"}
    /\ UNCHANGED <<log, debugMode, open, level, auto, busy, lines, reads>>
ToggleAuto ==
    /\ Controls /\ auto' = ~auto
    /\ UNCHANGED <<log, debugMode, open, level, busy, lines, reads, clears>>

\* The interval is set up anew for every level.
MutPolled == AllLevels
Polled == level
Tick ==
    /\ open /\ auto /\ debugMode /\ fetchLogs(Polled)
    /\ UNCHANGED <<log, debugMode, open, level, auto, lines, clears, touches>>

LinesAfter(r) == IF r.st = "ok" THEN [level |-> r.level, log |-> r.log] ELSE lines
ReadReturns(r) ==
    /\ r.st # "sent" /\ reads' = reads \ {r} /\ busy' = FALSE /\ lines' = LinesAfter(r)
    /\ UNCHANGED <<log, debugMode, open, level, auto, clears, touches>>
ClearReturns(st) ==
    /\ st # "sent" /\ clears' = clears \ {st}
    /\ lines' = IF st = "ok" THEN Nothing ELSE lines
    /\ UNCHANGED <<log, debugMode, open, level, auto, busy, reads, touches>>

-----------------------------------------------------------------------------
(* The server.                                                             *)

WriteLine ==
    /\ open /\ log.written < MaxLines /\ log' = [log EXCEPT !.written = @ + 1]
    /\ UNCHANGED <<debugMode, open, level, auto, busy, lines, reads, clears, touches>>
get_debug_logs(r) ==
    /\ r.st = "sent" /\ reads' = (reads \ {r}) \cup {[r EXCEPT !.st = "ok", !.log = log]}
    /\ UNCHANGED <<log, debugMode, open, level, auto, busy, lines, clears, touches>>
clear_debug_logs ==
    /\ "sent" \in clears /\ clears' = (clears \ {"sent"}) \cup (IF open THEN {"ok"} ELSE {})
    /\ log' = [log EXCEPT !.cleared = log.written]
    /\ UNCHANGED <<debugMode, open, level, auto, busy, lines, reads, touches>>
FailRead(r) ==
    /\ Touch /\ r.st = "sent" /\ reads' = (reads \ {r}) \cup {[r EXCEPT !.st = "failed"]}
    /\ UNCHANGED <<log, debugMode, open, level, auto, busy, lines, clears>>
FailClear ==
    /\ Touch /\ "sent" \in clears
    /\ clears' = (clears \ {"sent"}) \cup (IF open THEN {"failed"} ELSE {})
    /\ UNCHANGED <<log, debugMode, open, level, auto, busy, lines, reads>>

DNext ==
    \/ OpenTab \/ LeaveDebug \/ handleToggle \/ \E l \in Levels : ChooseLevel(l)
    \/ RefreshLogs \/ handleClear \/ ToggleAuto \/ Tick
    \/ \E r \in reads : ReadReturns(r) \/ get_debug_logs(r) \/ FailRead(r)
    \/ \E st \in clears : ClearReturns(st)
    \/ WriteLine \/ clear_debug_logs \/ FailClear

\* The interval ticks, the server answers, and the browser handles the answers.
DFairness ==
    /\ WF_dvars(Tick) /\ WF_dvars(\E r \in reads : get_debug_logs(r)) /\ WF_dvars(clear_debug_logs)
    /\ WF_dvars((\E r \in reads : ReadReturns(r)) \/ \E st \in clears : ClearReturns(st))
DSpec == DInit /\ [][DNext]_dvars /\ DFairness

-----------------------------------------------------------------------------
(* Properties.                                                             *)

Right == lines = [level |-> level, log |-> log]

\* While the log is followed, what is shown comes to be the server's log at the
\* chosen level, whichever answers of earlier levels and clearings come late.
LogsFollow == <>[](open /\ debugMode /\ auto => Right)

\* What does not hold: without the interval, a late answer shows the lines of the
\* level before, or those of before the clearing.
LogsRight == open /\ debugMode /\ reads = {} /\ clears = {} => lines.level = level
=============================================================================
