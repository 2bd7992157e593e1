--------------------------- MODULE LineDiscipline ---------------------------
(***************************************************************************)
(* What the console promises of its input: characters collect in a line    *)
(* that can still be edited, a line becomes ready as a whole, and ready    *)
(* characters are taken in the order they were typed.  No more than Size   *)
(* characters are kept; the ones typed beyond are refused.                 *)
(***************************************************************************)
EXTENDS Sequences, Naturals

CONSTANTS Size, Chars, Enders   \* Enders end a line: newline and ^D

VARIABLES line, ready

lineVars == <<line, ready>>

LineInit == line = <<>> /\ ready = <<>>

Space == Len(line) + Len(ready) < Size

\* A character, or an editing key when there is something to edit.
Typing(c) ==
    /\ Space
    /\ LET longer == Append(line, c)
       IN  IF c \in Enders \/ Len(ready) + Len(longer) = Size
           THEN ready' = ready \o longer /\ line' = <<>>
           ELSE line' = longer /\ UNCHANGED ready

Erase == line # <<>> /\ line' = SubSeq(line, 1, Len(line) - 1) /\ UNCHANGED ready
KillLine == line # <<>> /\ line' = <<>> /\ UNCHANGED ready
Take == ready # <<>> /\ ready' = Tail(ready) /\ UNCHANGED line

LineNext == (\E c \in Chars : Typing(c)) \/ Erase \/ KillLine \/ Take
LineSpec == LineInit /\ [][LineNext]_lineVars
=============================================================================
