----------------------------- MODULE MCPubClient -----------------------------
(***************************************************************************)
(* Small instances of PubClient.                                           *)
(***************************************************************************)
EXTENDS PubClient

AllModes == Mode
LineMode == {"STDIN_LINE"}

NewlineAfter(n) == [length |-> n, ended |-> TRUE]
Cut(n) == [length |-> n, ended |-> FALSE]

\* Blocks of 3: lines of one, of two and of more pieces, the last with or
\* without a newline.
Short == NewlineAfter(1)
Texts == {<<>>, <<Short>>, <<Short, Short, Short>>, <<Short, Short, Short, Short>>,
          <<Short, NewlineAfter(4)>>, <<Short, Cut(2)>>, <<Cut(1)>>}
LongTexts == UNION {[1..k -> {NewlineAfter(0), NewlineAfter(2), NewlineAfter(3), NewlineAfter(5), NewlineAfter(8)}] : k \in 1..3}
             \cup {<<NewlineAfter(3), Cut(8)>>}
AllTexts  == Texts \cup LongTexts
NoText    == {<<>>}
=============================================================================
