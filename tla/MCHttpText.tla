------------------------------ MODULE MCHttpText ------------------------------
(* The messages TLC sends through the server.                              *)
EXTENDS HttpText

CONSTANTS
  MaxPath,       \* the longest path behind the first slash
  MaxBody,       \* the longest body that is no form
  MaxCaption     \* the longest top caption

Upto(n, S) == UNION {[1..k -> S] : k \in 0..n}

POST == 305
Pair(name, value) == [name |-> name, value |-> value]

NoForm == [template |-> <<>>, top |-> <<>>, bottom |-> <<>>]
Message(handler, method, path, query, headers, body) ==
  [handler |-> handler, method |-> method, path |-> path, query |-> query,
   headers |-> headers, coding |-> "text", body |-> body, form |-> NoForm]

\* Letters (a hexadecimal digit and one that is none) and what the patterns
\* tell apart.
a == 97
g == 103

\* Requests to be echoed: names given twice, values of two characters, colons
\* in values, line breaks, empty lines, a header and a NUL in the body.
Echoes ==
  {Message("echo", method, <<SLASH>> \o path, query, headers, body) :
     method \in {<<GET>>, <<>>},
     path \in Upto(2, {a, SP, QMARK}),
     query \in {<<>>, <<Pair(<<a>>, <<g>>)>>,
                <<Pair(<<a>>, <<g>>), Pair(<<g>>, <<a>>), Pair(<<a>>, <<a>>)>>,
                <<Pair(<<a>>, <<g, g>>), Pair(<<g>>, <<a>>)>>},
     headers \in {<<>>, <<Pair(<<500>>, <<a>>), Pair(<<501>>, <<g>>), Pair(<<500>>, <<g>>)>>,
                  <<Pair(<<500>>, <<a, COLON, SP, g>>)>>},
     body \in Upto(MaxBody, {a, CR, LF}) \cup {<<a, 0, g>>, <<CR, LF, CR, LF, a>>,
                <<a, LF, 500, COLON, SP, 502, CR>>}}

\* Files: names with a slash, a hyphen, one dot, two dots or none.
Fetches ==
  {Message("static", method, <<SLASH>> \o path, query, <<>>, <<>>) :
     method \in {<<GET>>, <<POST>>},
     path \in Upto(MaxPath, {a, SLASH, DOT, 45}),
     query \in {<<>>, <<Pair(<<a>>, <<g, g>>)>>}}

MCFiles == {<<a, DOT, a>>, <<a, a, DOT, a>>, <<a>>, <<a, DOT, a, DOT, a>>, <<DOT, DOT>>}

\* Forms with every kind of character in their captions.
CaptionChars == {a, g, SP, 33, DOT, AMP, EQ, PCT, PLUS, 34, COLON, LF, 200}
Forms ==
  {[handler |-> "meme", method |-> <<POST>>, path |-> <<SLASH, a>>, query |-> <<>>,
    headers |-> <<>>, coding |-> coding, body |-> <<>>,
    form |-> [template |-> template, top |-> top, bottom |-> bottom]] :
     coding \in {"serialize", "UriEncode", "none"},
     template \in {<<a, DOT, jpg>>}, top \in Upto(MaxCaption, CaptionChars),
     bottom \in Upto(1, CaptionChars)}
  \cup
  {[handler |-> "meme", method |-> <<POST>>, path |-> <<SLASH, a>>, query |-> <<>>,
    headers |-> <<>>, coding |-> coding, body |-> <<>>,
    form |-> [template |-> template, top |-> <<a>>, bottom |-> <<g>>]] :
     coding \in {"serialize", "UriEncode", "none"},
     template \in {<<>>, <<a>>, <<jpg>>, <<DOT, jpg>>, <<a, AMP, topCaption, EQ, g>>}}

MCMessages == Echoes \cup Fetches \cup Forms

\* The handler's own type is among the defaults, one header twice.
MCDefaults == <<<<<<600>>, <<601>>>>, <<<<600>>, <<602>>>>, <<<<ContentType>>, <<603>>>>>>

MCBehind == {<<>>, <<g>>, <<CR, LF, CR, LF>>}

=============================================================================
