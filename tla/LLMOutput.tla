----------------------------- MODULE LLMOutput -----------------------------
(***************************************************************************)
(* The agent tab: the text, the thinking and the one-line notes of agents,  *)
(* put together from the run's events, those of one node or of all.  An     *)
(* event is its place in the list, a buffer and a block are sequences of    *)
(* places; a blank is a piece of white space, of which alone no block is    *)
(* made.                                                                    *)
(***************************************************************************)
EXTENDS Naturals, Sequences, SequencesExt, Filters

CONSTANTS Agents, AllAgents, MaxPieces
ASSUME LLMOutputAssumption == AllAgents \notin Agents /\ MaxPieces \in Nat

VARIABLE pieces   \* the run's events: of whom, and what

Whats == {"text", "blank text", "thinking", "blank thinking", "note", "other"}
OTypeOK == pieces \in Seq([node: Agents, what: Whats]) /\ Len(pieces) <= MaxPieces

OInit == pieces = <<>>
\* An event is added; the output is put together anew.
Arrives(node, what) ==
    /\ Len(pieces) < MaxPieces /\ pieces' = Append(pieces, [node |-> node, what |-> what])
ONext == \E node \in Agents, what \in Whats : Arrives(node, what)

-----------------------------------------------------------------------------
(* Putting the output together.                                            *)

Text == {"text", "blank text"}
Thinking == {"thinking", "blank thinking"}
Blank(i) == pieces[i].what \in {"blank text", "blank thinking"}
Chosen(node) ==
    Without([i \in DOMAIN pieces |-> i],
            {i \in DOMAIN pieces : \/ pieces[i].what = "other"
                                   \/ (node # AllAgents /\ pieces[i].node # node)})

Empty == [blocks |-> <<>>, assistant |-> <<>>, thinking |-> <<>>, inThinking |-> FALSE]

\* A buffer of white space alone is kept for what follows.
Trimmed(buffer) == \A k \in DOMAIN buffer : Blank(buffer[k])
flushAssistant(out) ==
    IF Trimmed(out.assistant) THEN out
    ELSE [out EXCEPT !.blocks = Append(@, out.assistant), !.assistant = <<>>]
flushThinking(out) ==
    IF Trimmed(out.thinking) THEN out
    ELSE [out EXCEPT !.blocks = Append(@, out.thinking), !.thinking = <<>>]
LeaveThinking(out) ==
    IF out.inThinking THEN [flushThinking(out) EXCEPT !.inThinking = FALSE] ELSE out

MutThought(out, i) == [out EXCEPT !.inThinking = TRUE, !.thinking = Append(@, i)]
Thought(out, i) == [flushAssistant(out) EXCEPT !.inThinking = TRUE, !.thinking = Append(@, i)]
Said(out, i) == [LeaveThinking(out) EXCEPT !.assistant = Append(@, i)]
Remarked(out, i) == [LeaveThinking(flushAssistant(out)) EXCEPT !.blocks = Append(@, <<i>>)]

Piece(out, i) ==
    CASE pieces[i].what \in Text -> Said(out, i)
      [] pieces[i].what \in Thinking -> Thought(out, i)
      [] OTHER -> Remarked(out, i)
markdown(node) ==
    LET c == Chosen(node)
        out[n \in 0..Len(c)] == IF n = 0 THEN Empty ELSE Piece(out[n - 1], c[n])
    IN  LeaveThinking(flushAssistant(out[Len(c)])).blocks

-----------------------------------------------------------------------------
(* Properties.                                                             *)

Blanks == {i \in DOMAIN pieces : Blank(i)}
Kind(i) == IF pieces[i].what \in Text THEN "text"
           ELSE IF pieces[i].what \in Thinking THEN "thinking" ELSE "note"

\* All that the chosen agents wrote is shown once and in its order, and no block
\* mixes text, thinking and notes, however they and white space alternate.
AllInOrder ==
    \A node \in Agents \cup {AllAgents} :
        /\ Without(FlattenSeq(markdown(node)), Blanks) = Without(Chosen(node), Blanks)
        /\ \A b \in Members(markdown(node)) : \A i, j \in Members(b) : Kind(i) = Kind(j)

\* What does not hold: with all agents chosen, pieces of two of them that write at
\* the same time become one paragraph.
OneSpeaker ==
    \A b \in Members(markdown(AllAgents)) :
        \A i, j \in Members(b) : pieces[i].node = pieces[j].node
=============================================================================
