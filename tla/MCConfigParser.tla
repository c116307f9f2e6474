---------------------------- MODULE MCConfigParser ----------------------------
(* The files TLC checks the configuration parser on.                       *)
EXTENDS ConfigParser

CONSTANTS
  MaxChars,      \* the longest file over every character class
  MaxBraces,     \* the longest file over words, semicolons and braces
  MaxWords       \* the most words of a file of statements

\* One character of every class the parser tells apart.
Chars == {"a", ";", "{", "}", "#", "\"", "'", " ", "\n", "\r"}

\* The shapes of a file that begins with a word: words, semicolons and braces.
Shape == {"a", ";", "{", "}"}
Apart(f) == FlattenSeq([i \in DOMAIN f |-> IF f[i] = "a" THEN <<"a", " ">> ELSE <<f[i]>>])

\* Files of words, semicolons and braces that begin with a setting.
Words == {"port", "threadCount", "root", ".", "80", "0", "-1", "99", "101", "{", "}", ";"}
Setting == {"port", "threadCount", "root"}
Spaced(f) == FlattenSeq([i \in DOMAIN f |-> <<f[i], " ">>])

MCFiles ==
  UNION {[1..n -> Chars] : n \in 0..MaxChars}
  \cup {<<"a", " ">> \o Apart(f) : f \in UNION {[1..n -> Shape] : n \in 0..(MaxBraces - 1)}}
  \cup {Spaced(f) : f \in {g \in UNION {[1..n -> Words] : n \in 1..MaxWords} :
                             g[1] \in Setting}}

\* A port, a thread count too small and one below zero, a number too great for
\* a port, and one too great for an int.
MCNumeral ==
  [w \in {"80", "0", "-1", "99", "101"} |->
     CASE w = "80" -> 80 [] w = "0" -> 0 [] w = "-1" -> -1
       [] w = "99" -> 99 [] w = "101" -> 101]

=============================================================================
