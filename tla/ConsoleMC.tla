----------------------------- MODULE ConsoleMC -----------------------------
(* What the user types: an edited line, ^D after text, more than the buffer *)
(* holds, and a line that is killed.                                        *)
EXTENDS Console

MCInputs == {<<"a", "^H", "\r">>, <<"a", "^D">>, <<"\n", "a", "a">>, <<"a", "^U", "\n">>}
=============================================================================
