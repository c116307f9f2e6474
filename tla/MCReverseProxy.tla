---------------------------- MODULE MCReverseProxy ----------------------------
(* Two hosts behind three blocks, and the shapes of reply that differ.     *)
EXTENDS ReverseProxy

Stmt(key, value) == [key |-> key, value |-> value]
Ucla == <<"/", "u">>
Wiki == <<"/", "w">>

\* Two hosts; a location given twice; no port; a location inside another.
MCBlocks ==
  {<<Stmt("port", 80), Stmt("location", Ucla), Stmt("root", "ucla"),
     Stmt("location", Wiki), Stmt("root", "wiki")>>,
   <<Stmt("location", Ucla), Stmt("root", "ucla"), Stmt("root", "wiki"),
     Stmt("location", Ucla), Stmt("root", "wiki"), Stmt("port", 80), Stmt("port", 81)>>,
   <<Stmt("location", Ucla), Stmt("root", "ucla")>>,
   <<Stmt("location", Ucla \o Wiki), Stmt("root", "wiki"),
     Stmt("location", Ucla), Stmt("root", "ucla"), Stmt("port", 80)>>}

MCUris == {Ucla, Ucla \o Wiki, Ucla \o <<"/">>, Wiki \o Ucla, <<"/", "u", "u">>}

MCReplies ==
  {<<"HTTP/1.1", "200">> \o CRLF \o <<"html;">> \o CRLF \o <<"len">> \o CRLF
     \o CRLF \o <<"x", "y">>,
   <<"HTTP/1.1", "301">> \o CRLF \o <<"len">> \o CRLF \o <<"html">> \o CRLF
     \o CRLF \o <<"x">>,
   <<"HTTP/1.1", "404">> \o CRLF \o <<"len">> \o CRLF \o CRLF,
   <<"HTTP/1.1", "OK">> \o CRLF \o <<"html">> \o CRLF \o CRLF \o <<"x">>,
   <<"HTTP/1.1">> \o CRLF \o CRLF \o <<"x">>,
   <<"HTTP/1.1", "200">> \o CRLF \o CRLF \o <<"x">>,
   <<"HTTP/1.1", "200">> \o CRLF \o <<"html">> \o CRLF \o CRLF
     \o <<"html;">> \o CRLF \o CRLF \o <<"y">>}

MCStatusCode ==
  [n \in {"200", "301", "404"} |->
     CASE n = "200" -> 200 [] n = "301" -> 301 [] n = "404" -> 404]

MCMimeType ==
  [h \in {"html", "html;"} |-> [type |-> "text", params |-> h = "html;"]]

=============================================================================
