---------------------------- MODULE MCServiceReply ----------------------------
(***************************************************************************)
(* Small replies: every short text in one field; every tree of little      *)
(* width and depth; and some that the limits, a name or a credential tell  *)
(* apart.                                                                  *)
(***************************************************************************)
EXTENDS ServiceReply

MCSymbols ==
    {"a", "b", "c", "n", "T", "slash", "percent", "percent25", "control", "replacement", "redacted",
     "notice", "noticekey"}

Words(n) == UNION {[1..k -> {"a", "b", "slash", "percent"}] : k \in 0..n}

MCCredentials == {<<"a">>, <<"a", "slash">>}
MCArguments   == {<<"b">>, <<"b", "a", "percent">>}
MCErrorTexts  == {<<"b">>, <<"a", "slash">>, <<"b", "a">>}

Leaf == Text(<<"b">>)

Wide(S, n) ==
    LET rows == UNION {[1..k -> S] : k \in 0..n}
    IN  {List(r) : r \in rows}
        \cup {Object([i \in 1..Len(r) |-> Field(<<IF i = 2 THEN "T" ELSE "n">>, r[i])]) : r \in rows}

Trees == Wide({Leaf} \cup Wide({Leaf}, 2), 2) \cup {List(<<List(<<List(<<Leaf>>)>>)>>), NotFinite}

PlainReplies ==
    {Object(<<Field(<<"n">>, v)>>) :
        v \in {Text(t) : t \in Words(3)} \cup Trees
             \cup {Text(<<"b", "control">>), Text(<<"a", "control", "slash">>), Text(<<"b", "b", "a", "slash">>)}}
    \cup {Object(<<Field(k, Text(<<"a", "slash">>)), Field(<<"n">>, Leaf)>>) :
            k \in {<<"T">>, <<"a">>, <<"a", "percent">>, <<"b", "a", "T">>, NoticeField.key}}
    \cup {Object(<<Field(<<"b", "T", "n">>, Leaf)>>),
          Object(<<Field(<<"T">>, Text(<<"a", "control">>)), Field(<<"n">>, Leaf)>>),
          Object(<<Field(<<"T">>, Text(<<"a">>)), Field(<<"n">>, Text(<<"a", "a">>))>>),
          Object([i \in 1..3 |-> Field(<<<<"b">>, <<"c">>, <<"n">>>>[i], Leaf)])}

\* With these the store may change in the course of a pass: a credential in a
\* text, in a key, in both, and one that is delivered.
RaceReplies ==
    {Object(<<Field(k, Text(t))>>) :
        k \in {<<"n">>, <<"a">>}, t \in {<<"a">>, <<"a", "slash">>, <<"b", "a", "slash">>}}
    \cup {Object(<<Field(<<"T">>, Text(<<"a">>)), Field(<<"n">>, Text(<<"b", "a">>))>>)}

MCReplies == PlainReplies \cup RaceReplies
MCMaxStores == [v \in MCReplies \cup {Nothing} |-> IF v \in RaceReplies THEN 2 ELSE 1]
===============================================================================
