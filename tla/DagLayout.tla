----------------------------- MODULE DagLayout -----------------------------
(***************************************************************************)
(* layoutDagNodes: the rows in which the canvas shows a plan.  The queue is *)
(* worked off until no row has to be raised any more.  It is a set here, as *)
(* a node that is queued twice is visited in vain, and visited in any order, *)
(* of which first in, first out is one.                                     *)
(***************************************************************************)
EXTENDS Integers, FiniteSets

CONSTANTS
    Cards,   \* the nodes of the plan
    First,   \* the node that comes first in its list
    Graphs,  \* the plans: sets of edges
    MaxRow   \* bound on the rows: on a cycle that it reaches the code loops for ever

ASSUME DagLayoutAssumption ==
    /\ IsFiniteSet(Cards) /\ First \in Cards
    /\ Graphs \subseteq SUBSET (Cards \X Cards) /\ MaxRow \in Nat

VARIABLES
    edges,   \* edges between nodes of the plan
    row,     \* layerById, Unset where it has no entry
    queue

lvars == <<edges, row, queue>>

Unset == -1
LTypeOK ==
    /\ edges \in SUBSET (Cards \X Cards) /\ row \in [Cards -> Int]
    /\ queue \in SUBSET Cards

roots(es) == {n \in Cards : \A e \in es : e[2] # n}
Starts(es) == IF roots(es) # {} THEN roots(es) ELSE {First}

LInit ==
    /\ edges \in Graphs /\ queue = Starts(edges)
    /\ row = [n \in Cards |-> IF n \in Starts(edges) THEN 0 ELSE Unset]

\* A child moves below the node, and is visited again when it has moved.
MutRaised(n) == {c \in Cards : <<n, c>> \in edges /\ row[c] = Unset}
Raised(n) == {c \in Cards : <<n, c>> \in edges /\ row[c] < row[n] + 1}
Visit(n) ==
    /\ n \in queue /\ row[n] < MaxRow
    /\ row' = [c \in Cards |-> IF c \in Raised(n) THEN row[n] + 1 ELSE row[c]]
    /\ queue' = (queue \ {n}) \cup Raised(n)
    /\ UNCHANGED edges

\* What only a cycle keeps from the queue goes below what has a row.
Place(n) ==
    /\ queue = {} /\ row[n] = Unset
    /\ row' = [row EXCEPT ![n] = Cardinality({c \in Cards : row[c] # Unset})]
    /\ UNCHANGED <<edges, queue>>

LNext == \E n \in Cards : Visit(n) \/ Place(n)
LSpec == LInit /\ [][LNext]_lvars

-----------------------------------------------------------------------------
(* Properties.                                                             *)

\* d gives rows in which every edge leads down.
Descends(d) == \A n, c \in Cards : <<n, c>> \in edges => d[n] < d[c]

\* Once the queue is empty, a plan without a cycle is laid out in the fewest
\* rows: every edge leads down, and no node is lower than in any other layout
\* whose edges do.
Layered ==
    queue = {} => \A d \in [Cards -> 0 .. MaxRow] : Descends(d) =>
        /\ \A n \in Cards : 0 <= row[n] /\ row[n] <= d[n]
        /\ Descends(row)
=============================================================================
