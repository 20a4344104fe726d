---------------------------- MODULE OutputPanel ----------------------------
(***************************************************************************)
(* The panel below the canvas: its tabs, its size, the node it is filtered  *)
(* by, and what it does by itself: it opens once events of an active run    *)
(* are there, and turns to the agent tab once an agent has written.  Every  *)
(* step is one commit of the page, the effects it runs included.            *)
(***************************************************************************)
EXTENDS Naturals

CONSTANTS PlanNodes, AllNodes, MaxMoves  \* the nodes; no node; bound on what the user does
ASSUME OutputPanelAssumption == AllNodes \notin PlanNodes /\ MaxMoves \in Nat

VARIABLES
    run,         \* the run store's status: "idle", "active", or "over"
    triggering,  \* a run was asked for
    happened,    \* the store's events: "nothing", "something", or also what an agent "wrote"
    chosen,      \* selectedRunNodeId
    expanded, fullscreen,
    activeTab,
    filter,      \* filterNodeId
    autoExpanded, hasLLM,  \* autoExpandedRef, hasLLMRef
    nudges,      \* history: what the panel did by itself, [opened, turned]
    moves

ovars == <<run, triggering, happened, chosen, expanded, fullscreen, activeTab, filter,
           autoExpanded, hasLLM, nudges, moves>>

Tabs == {"events", "llm", "chat"}
PTypeOK ==
    /\ run \in {"idle", "active", "over"} /\ happened \in {"nothing", "something", "wrote"}
    /\ {triggering, expanded, fullscreen, autoExpanded, hasLLM} \subseteq BOOLEAN
    /\ {chosen, filter} \subseteq PlanNodes \cup {AllNodes} /\ activeTab \in Tabs
    /\ nudges \in [opened: 0 .. 2, turned: 0 .. 2] /\ moves \in 0 .. MaxMoves

-----------------------------------------------------------------------------
(* The effects, after a commit in which the run is r and its events are h,  *)
(* the user left the panel open or not, wide, at tab t; more says that      *)
(* events have come.                                                        *)

Opens(r, h) == r = "active" /\ h # "nothing" /\ ~autoExpanded
Turns(h, t, more) == (more \/ t # activeTab) /\ ~hasLLM /\ t # "llm" /\ h = "wrote"
MutIdle(r) == r # "active" /\ r # run
Idle(r) == r = "idle" /\ r # run
Count(n) == IF n < 2 THEN n + 1 ELSE n

Commit(r, h, wide, t, more) ==
    /\ run' = r /\ happened' = h
    /\ expanded' = (wide \/ Opens(r, h))
    /\ autoExpanded' = (r = "active" /\ (autoExpanded \/ Opens(r, h)))
    /\ activeTab' = IF Turns(h, t, more) THEN "llm" ELSE t
    /\ hasLLM' = (~Idle(r) /\ (hasLLM \/ Turns(h, t, more)))
    /\ nudges' = [opened |-> IF Opens(r, h) THEN Count(nudges.opened)
                             ELSE IF r # "active" THEN 0 ELSE nudges.opened,
                  turned |-> IF r = "idle" /\ r # run THEN 0
                             ELSE IF Turns(h, t, more) THEN Count(nudges.turned)
                             ELSE nudges.turned]

\* The panel is shown with what the editor has loaded.
PInit ==
    /\ run \in {"idle", "active", "over"} /\ happened \in {"nothing", "something", "wrote"}
    /\ run = "idle" => happened = "nothing"
    /\ triggering = FALSE /\ chosen = AllNodes /\ fullscreen = FALSE /\ filter = AllNodes
    /\ autoExpanded = (run = "active" /\ happened # "nothing") /\ expanded = autoExpanded
    /\ hasLLM = (happened = "wrote") /\ activeTab = IF hasLLM THEN "llm" ELSE "events"
    /\ nudges = [opened |-> IF autoExpanded THEN 1 ELSE 0, turned |-> IF hasLLM THEN 1 ELSE 0]
    /\ moves = 0

-----------------------------------------------------------------------------
(* The run.                                                                *)

Move == moves < MaxMoves /\ moves' = moves + 1
Same == UNCHANGED <<chosen, fullscreen, filter>>

\* The events of the run before are cleared, and what was chosen with them; the
\* filter stays.
Trigger ==
    /\ Move /\ run = "idle" /\ ~triggering /\ triggering' = TRUE /\ chosen' = AllNodes
    /\ Commit(run, "nothing", expanded, activeTab, TRUE) /\ UNCHANGED <<fullscreen, filter>>
Triggered(r) ==
    /\ triggering /\ triggering' = FALSE
    /\ Commit(r, happened, expanded, activeTab, FALSE) /\ Same /\ UNCHANGED moves
Resume ==
    /\ Move /\ run = "over" /\ Commit("active", happened, expanded, activeTab, FALSE)
    /\ Same /\ UNCHANGED triggering
Cancel ==
    /\ Move /\ run = "active" /\ Commit("idle", happened, expanded, activeTab, FALSE)
    /\ Same /\ UNCHANGED triggering

\* Events come in, the run's last one among them or not.
Come(h, r) ==
    /\ run = "active" /\ r \in {"active", "over"}
    /\ h = "wrote" \/ (h = "something" /\ happened # "wrote")
    /\ Commit(r, h, expanded, activeTab, TRUE)
    /\ Same /\ UNCHANGED <<triggering, moves>>

-----------------------------------------------------------------------------
(* The user.                                                               *)

Left == UNCHANGED triggering
handleTabChange(t) ==
    /\ Move /\ t # activeTab /\ Commit(run, happened, TRUE, t, FALSE) /\ Same /\ Left
toggleExpanded ==
    /\ Move /\ Commit(run, happened, ~expanded, activeTab, FALSE)
    /\ fullscreen' = (fullscreen /\ ~expanded) /\ UNCHANGED <<chosen, filter>> /\ Left
toggleFullscreen ==
    /\ Move /\ fullscreen' = ~fullscreen
    /\ Commit(run, happened, expanded \/ ~fullscreen, activeTab, FALSE)
    /\ UNCHANGED <<chosen, filter>> /\ Left
Escape ==
    /\ Move /\ fullscreen /\ fullscreen' = FALSE
    /\ Commit(run, happened, expanded, activeTab, FALSE) /\ UNCHANGED <<chosen, filter>> /\ Left

\* A node of the canvas filters when another one was chosen before.
onNodeClick(n) ==
    /\ Move /\ chosen' = n /\ filter' = IF n # chosen THEN n ELSE filter
    /\ Commit(run, happened, expanded, activeTab, FALSE) /\ UNCHANGED fullscreen /\ Left
handleNodeFilter(n) ==
    /\ Move /\ n # filter /\ filter' = n
    /\ Commit(run, happened, expanded, activeTab, FALSE) /\ UNCHANGED <<chosen, fullscreen>> /\ Left
ClearFilter ==
    /\ Move /\ expanded /\ filter # AllNodes /\ filter' = AllNodes /\ chosen' = AllNodes
    /\ Commit(run, happened, expanded, activeTab, FALSE) /\ UNCHANGED fullscreen /\ Left

PNext ==
    \/ Trigger \/ (\E r \in {"idle", "active"} : Triggered(r)) \/ Resume \/ Cancel
    \/ \E h \in {"something", "wrote"}, r \in {"active", "over"} : Come(h, r)
    \/ \E t \in Tabs : handleTabChange(t)
    \/ toggleExpanded \/ toggleFullscreen \/ Escape \/ ClearFilter
    \/ \E n \in PlanNodes : onNodeClick(n)
    \/ \E n \in PlanNodes \cup {AllNodes} : handleNodeFilter(n)
PSpec == PInit /\ [][PNext]_ovars

-----------------------------------------------------------------------------
(* Properties.                                                             *)

\* While a run is active the panel opens by itself at most once, and it takes the
\* user to the agent tab at most once until the run is given up: what he closes
\* and leaves stays closed and left, through every resumption of the run.
OneNudge == nudges.opened <= 1 /\ nudges.turned <= 1

\* What does not hold: a click on the node that was chosen last does not filter
\* again; once an agent has written while its tab was shown, the user is taken
\* back when he leaves it.
ClickFilters == [][\A n \in PlanNodes : onNodeClick(n) => filter' = n]_ovars
LeavesTab == [][\A t \in Tabs : handleTabChange(t) => activeTab' = t]_ovars
=============================================================================
