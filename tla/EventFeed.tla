----------------------------- MODULE EventFeed -----------------------------
(***************************************************************************)
(* What one browser connection, alone on its run, gets of the run's events: *)
(* every event at most once and in order, with at most two interruptions -  *)
(* the events that the bus had already dropped when it came, and those      *)
(* published while the buffer was replayed to it.  RunStream implements     *)
(* this for a single connection and a single publisher.                     *)
(***************************************************************************)
EXTENDS Naturals

VARIABLES
    log,     \* events published so far; they are numbered from 1
    at,      \* the last event the connection got, 0 for none
    skips,   \* interruptions so far
    closed   \* the connection is gone, and what it got with it

vars == <<log, at, skips, closed>>

Init == log = 0 /\ at = 0 /\ skips = 0 /\ closed = FALSE

Publish == log' = log + 1 /\ UNCHANGED <<at, skips, closed>>

Deliver ==
    /\ ~closed /\ at < log
    /\ at' = at + 1
    /\ UNCHANGED <<log, skips, closed>>

Skip ==
    /\ ~closed /\ skips < 2
    /\ skips' = skips + 1
    /\ at' \in at + 2 .. log
    /\ UNCHANGED <<log, closed>>

Close == ~closed /\ closed' = TRUE /\ at' = 0 /\ skips' = 0 /\ UNCHANGED log

Next == Publish \/ Deliver \/ Skip \/ Close

Spec == Init /\ [][Next]_vars
=============================================================================
