---------------------------- MODULE MCExtraction ----------------------------
(***************************************************************************)
(* Messages for Extraction: texts put together from pieces, and documents  *)
(* from tokens, each family aimed at one part of the engine.               *)
(***************************************************************************)
EXTENDS Extraction

Strings(S, n) == UNION {[1..k -> S] : k \in 0..n}

Mail(subject, text, html) == [subject |-> subject, text |-> text, html |-> html]

Words == {<<"code">>, <<"code", "a">>, <<"xac", " ", "a">>, <<"verify">>}
Years == {<<"1", "9">>, <<"2", "1">>}

\* URLs: schemes, bare hosts, brackets and what ends a sentence around digits.
URLPieces == {<<"a">>, <<"1", "2">>, <<"://">>, <<"www", ".">>, <<".">>, <<"(">>, <<")">>, <<"]">>, <<" ">>}

\* Codes: of every length, years among them, at every distance from the words.
CodePieces == {<<"code">>, <<"xac", " ", "a">>, <<"1", "9">>, <<"2">>, <<"a">>, <<" ">>}

\* Several codes, some of them repeated.
SentencePieces == {<<"code", " ">>, <<"1", "2", " ">>, <<"1", "9", " ">>, <<"2", "2", "2", " ">>, <<"a", " ">>}

\* Letters that folding changes.
AccentPieces == {<<"accent">>, <<"mark">>, <<"://">>, <<"WWW", ".">>, <<"1", "2">>, <<" ">>}

\* One link several times, on lines that say different things of it.
LinkPieces == {<<"http", "://", "a">>, <<"http", "://", "b", "/">>, <<"Verify">>, <<"reset">>, <<"login">>,
               <<"passwordless">>, <<"nl">>, <<" ">>}

Text(data) == [kind |-> "text", data |-> data]
Start(tag, href) == [kind |-> "start", tag |-> tag, href |-> href]
End(tag) == [kind |-> "end", tag |-> tag]

Tokens == {Text(<<"1">>), Text(<<"a">>), Start("a", <<"http", "://", "a">>), Start("a", <<>>), End("a"),
           Start("p", <<>>), End("p"), Start("b", <<>>), Start("area", <<"b", "/">>),
           Start("script", <<>>), End("script")}

\* A link as a button and spelled out.
Button(label) == <<Start("a", <<"http", "://", "a">>), Text(<<label>>), End("a")>>

MCInit ==
    \/ \E t \in Strings(URLPieces, 5) : Begin(Mail(<<>>, FlattenSeq(t), <<>>))
    \/ \E t \in Strings(CodePieces, 6) : Begin(Mail(<<>>, FlattenSeq(t), <<>>))
    \/ \E t \in Strings(SentencePieces, 5) : Begin(Mail(<<>>, FlattenSeq(t), <<>>))
    \/ \E t \in Strings(AccentPieces, 4) : Begin(Mail(<<>>, FlattenSeq(t), <<>>))
    \/ \E d \in Strings(Tokens, 5) : Tokenized(d) /\ Begin(Mail(<<>>, <<>>, d))
    \/ \E t \in Strings(LinkPieces, 4), label \in {"a", "reset"} :
            Begin(Mail(<<"code">>, FlattenSeq(t), Button(label)))

MCSpec == MCInit /\ [][Next]_vars
=============================================================================
