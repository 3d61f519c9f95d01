------------------------------ MODULE MCShell ------------------------------
(* TLC instance of Shell: lines of up to eleven characters, two processes. *)
EXTENDS Shell

Word(w) == Chars[w]
Return(s) == s \o <<ENTER>>
Rubout(n) == [i \in 1 .. n |-> BACKSPACE]
Arg(d) == <<BLANK, d>>

(* Complete lines, with and without arguments; one that is corrected, one  *)
(* is erased, an overlong one, a number that wraps around, an unknown and  *)
(* an empty line.                                                          *)
MCScripts ==
    { Return(Word(w)) : w \in DOMAIN Chars } \cup
    { Return(Word("pkill") \o Arg("1")),
      Return(Word("pkill") \o Arg("2")),
      Return(Word("pkill") \o Arg("9")),
      Return(Word("pkill") \o Arg("2") \o Rubout(1) \o <<"1">>),
      Return(Word("get") \o Arg("2")),
      Return(Word("ideread") \o Arg("1") \o Arg("2") \o Arg("1")),
      Word("pkill") \o Arg("2") \o Rubout(8),
      Return(Arg("1")),
      Return(<< >>) }
=============================================================================
