------------------------------- MODULE Sanitize -------------------------------
(***************************************************************************)
(* What security.py does with a text and with a JSON value, as operators   *)
(* without a state: redact_text, sanitize_public, public_result.  The      *)
(* secrets are a parameter S, a set of texts; for a value, a parameter L,  *)
(* since the store is looked up anew for every text and every key in it    *)
(* (Lookups).                                                              *)
(*                                                                         *)
(* A text is a sequence of symbols: letters; "slash", which an URL spells  *)
(* "percent", and "percent", which it spells "percent25"; "control" for a  *)
(* control character and "replacement" for the one in its place;           *)
(* "redacted" for all of REDACTED.  A JSON value is a record.  The two     *)
(* fixed patterns of credentials (_BEARER_RE, _EIGENDARK_CREDENTIAL_RE)    *)
(* are left out: what is hidden here is hidden because the session knows   *)
(* it.                                                                     *)
(*                                                                         *)
(* The recursion is in functions, one step of each an operator of its own, *)
(* so that theorems can be proved about them.                              *)
(***************************************************************************)
EXTENDS Integers, Sequences, FiniteSets

CONSTANTS
    Symbols,       \* what texts are made of
    MaxText,       \* MAX_STRING_LENGTH
    MaxKey,        \* the 256 characters a key may have
    MaxDepth,      \* MAX_SANITIZE_DEPTH
    MaxNodes,      \* MAX_SANITIZE_NODES
    MaxItems,      \* MAX_OBJECT_ITEMS
    MaxArray,      \* MAX_ARRAY_ITEMS
    MaxNesting     \* the nesting at which json.loads raises RecursionError

ASSUME LimitsAssumption ==
    {MaxText, MaxKey, MaxDepth, MaxNodes, MaxItems, MaxArray, MaxNesting} \subseteq Nat \ {0}

\* Characters, and texts of this program as one symbol, that no credential has.
Own == {"control", "replacement", "redacted", "notice", "noticekey"}

ASSUME SymbolsAssumption == {"slash", "percent", "percent25"} \cup Own \subseteq Symbols

----------------------------------------------------------------------------
(***************************************************************************)
(* JSON values.                                                            *)
(***************************************************************************)
Texts        == Seq(Symbols)

Text(t)      == [type |-> "text", text |-> t]
Null         == [type |-> "null"]          \* and numbers, and booleans
NotFinite    == [type |-> "notfinite"]     \* json.loads accepts NaN and Infinity
List(items)  == [type |-> "list", items |-> items]
Object(fs)   == [type |-> "object", fields |-> fs]    \* fields in their order
Field(k, v)  == [key |-> k, value |-> v]

Plain(T) == [type : {"text"}, text : T] \cup {Null, NotFinite}

Deeper(K, V) ==
    V \cup [type : {"list"}, items : Seq(V)]
      \cup [type : {"object"}, fields : Seq([key : K, value : V])]

\* Values nested at most n deep, with texts in T and keys in K.
Nested(K, T) ==
    LET nested[n \in 0..MaxNesting] ==
            IF n = 0 THEN Plain(T) ELSE Deeper(K, nested[n - 1])
    IN  nested

JsonOf(K, T) == Nested(K, T)[MaxNesting]
Json         == JsonOf(Texts, Texts)

\* is_secret_field: "T" stands for the names that are kept from the host.
IsSecretField(key) == key # <<>> /\ key[Len(key)] = "T"

\* The values that item holds; the places of those that are not shown.
Values(item) ==
    CASE item.type = "object" -> [i \in 1..Len(item.fields) |-> item.fields[i].value]
      [] item.type = "list" -> item.items
      [] OTHER -> <<>>

Hidden(item) ==
    {i \in DOMAIN Values(item) : item.type = "object" /\ IsSecretField(item.fields[i].key)}

Shown(item) == DOMAIN Values(item) \ Hidden(item)

\* dict: a key keeps its place, and the last value it is given.
Put(fields, f) ==
    IF \E i \in DOMAIN fields : fields[i].key = f.key
    THEN [i \in DOMAIN fields |-> IF fields[i].key = f.key THEN f ELSE fields[i]]
    ELSE Append(fields, f)

Cut(text, n) == SubSeq(text, 1, IF Len(text) <= n THEN Len(text) ELSE n)

----------------------------------------------------------------------------
(***************************************************************************)
(* redact_text.                                                            *)
(***************************************************************************)
Quoting(c)      == IF c = "slash" THEN "percent" ELSE IF c = "percent" THEN "percent25" ELSE c
Unquoting(c)    == IF c = "percent" THEN "slash" ELSE IF c = "percent25" THEN "percent" ELSE c
Quoted(s)       == [i \in DOMAIN s |-> Quoting(s[i])]
Unquoted(s)     == [i \in DOMAIN s |-> Unquoting(s[i])]
Printable(text) == [i \in DOMAIN text |-> IF text[i] = "control" THEN "replacement" ELSE text[i]]

At(s, text, i) ==
    /\ i + Len(s) <= Len(text) + 1
    /\ \A k \in 1..Len(s) : text[i + k - 1] = s[k]

Occurs(s, text) == \E i \in 1..Len(text) + 1 : At(s, text, i)

\* Mutants, here and below, are plausible mistakes in the definition they
\* precede; the specification uses none of them.  Here: only one is replaced.
ReadOnce(sofar, text, s, i) ==
    CASE i < sofar.next -> sofar
      [] i >= sofar.next /\ At(s, text, i) /\ (\A j \in 1..i - 1 : ~At(s, text, j)) ->
           [built |-> Append(sofar.built, "redacted"), next |-> i + Len(s)]
      [] OTHER -> [built |-> Append(sofar.built, text[i]), next |-> i + 1]

\* The i-th symbol of text: sofar.built replaces those before sofar.next.
Read(sofar, text, s, i) ==
    CASE i < sofar.next -> sofar
      [] i >= sofar.next /\ At(s, text, i) ->
           [built |-> Append(sofar.built, "redacted"), next |-> i + Len(s)]
      [] OTHER -> [built |-> Append(sofar.built, text[i]), next |-> i + 1]

\* str.replace(s, REDACTED), from the left.
Reading(text, s) ==
    LET read[i \in 0..Len(text)] ==
            IF i = 0 THEN [built |-> <<>>, next |-> 1] ELSE Read(read[i - 1], text, s, i)
    IN  read

Replace(text, s) == Reading(text, s)[Len(text)].built

\* S in an order in which no text is longer than one before it.
IsLongestFirst(q, S) ==
    /\ q \in [1..Cardinality(S) -> S]
    /\ \A s \in S : \E i \in 1..Cardinality(S) : q[i] = s
    /\ \A i, j \in 1..Cardinality(S) : i < j => Len(q[i]) >= Len(q[j])

\* Mutant: a credential that begins another one goes first.
ShortestFirst(S) ==
    CHOOSE q \in [1..Cardinality(S) -> S] :
        \A i, j \in 1..Cardinality(S) : i < j => q[i] # q[j] /\ Len(q[i]) <= Len(q[j])

LongestFirst(S) == CHOOSE q \in [1..Cardinality(S) -> S] : IsLongestFirst(q, S)

Hide(text, s) == Replace(Replace(text, s), Quoted(s))

Hiding(text, S) ==
    LET hide[i \in 0..Cardinality(S)] ==
            IF i = 0 THEN Printable(text) ELSE Hide(hide[i - 1], LongestFirst(S)[i])
    IN  hide

Redact(text, S) == Hiding(text, S)[Cardinality(S)]

----------------------------------------------------------------------------
(***************************************************************************)
(* sanitize_public.  A visit yields what is left of the budget of nodes,   *)
(* -1 once it is overdrawn or another limit is broken, and what is built.  *)
(***************************************************************************)
Refusal == [left |-> -1, built |-> <<>>]

TooLarge(item) ==
    \/ item.type = "object" /\ Len(item.fields) > MaxItems
    \/ item.type = "list" /\ Len(item.items) > MaxArray

\* The fields of the result, from the values built for those of an object.
Filling(fields, built, l) ==
    LET fill[i \in 0..Len(fields)] ==
            IF i = 0 THEN <<>>
            ELSE Put(fill[i - 1], Field(Cut(Redact(fields[i].key, l[i]), MaxKey), built[i]))
    IN  fill

Rebuilt(item, built, l) ==
    CASE item.type = "object" -> Object(Filling(item.fields, built, l)[Len(item.fields)])
      [] item.type = "list" -> List(built)
      [] item.type = "text" -> Text(Redact(Cut(item.text, MaxText), l[0]))
      [] OTHER -> Null

\* The i-th value that item holds: below visits it, unless it is hidden.
VisitValue(below, item, left, i) ==
    IF i \in Hidden(item) THEN [left |-> left, built |-> <<Text(<<"redacted">>)>>]
    ELSE below[Values(item)[i]][left]

\* Mutant: each value has the whole budget for itself.
JoinApart(sofar, v) ==
    IF v.left < 0 THEN Refusal ELSE [left |-> sofar.left, built |-> Append(sofar.built, v.built[1])]

Join(sofar, v) ==
    IF v.left < 0 THEN Refusal ELSE [left |-> v.left, built |-> Append(sofar.built, v.built[1])]

NextValue(below, item, sofar, i) ==
    IF sofar.left < 0 THEN Refusal ELSE Join(sofar, VisitValue(below, item, sofar.left, i))

\* The values in turn, on one budget.
Visiting(below, item, left) ==
    LET visited[i \in 0..Len(Values(item))] ==
            IF i = 0 THEN [left |-> left, built |-> <<>>]
            ELSE NextValue(below, item, visited[i - 1], i)
    IN  visited

Visited(below, item, left, L) ==
    LET all == Visiting(below, item, left - 1)[Len(Values(item))]
    IN  IF all.left < 0 THEN Refusal
        ELSE [left |-> all.left, built |-> <<Rebuilt(item, all.built, L[left])>>]

NoVisit == [item \in Json |-> [left \in 0..MaxNodes |-> Refusal]]

VisitAbove(below, L) ==
    [item \in Json |-> [left \in 0..MaxNodes |->
        IF left = 0 \/ TooLarge(item) THEN Refusal ELSE Visited(below, item, left, L)]]

\* visit, by the levels there is room for: MaxDepth + 1 at depth 0.
Visit(L) ==
    LET visit[room \in 0..MaxDepth + 1] ==
            IF room = 0 THEN NoVisit ELSE VisitAbove(visit[room - 1], L)
    IN  visit

NoticeField == Field(<<"noticekey">>, Text(<<"notice">>))

\* public_result of an object, <<>> when it raises.
PublicResult(data, L) ==
    LET all == Visit(L)[MaxDepth + 1][data][MaxNodes]
    IN  IF all.left < 0 THEN <<>>
        ELSE <<Object(Put(all.built[1].fields, NoticeField))>>

----------------------------------------------------------------------------
(***************************************************************************)
(* What the limits promise, without an order of visits: the values that    *)
(* are shown, each with its place (from the inside out), to a depth        *)
(* below d.                                                                *)
(***************************************************************************)
Moved(nodes, i) == {[place |-> Append(n.place, i), value |-> n.value] : n \in nodes}

NoNodes == [item \in Json |-> {}]

NodesAbove(below) ==
    [item \in Json |->
        {[place |-> <<>>, value |-> item]}
        \cup UNION {Moved(below[Values(item)[i]], i) : i \in Shown(item)}]

Nodes ==
    LET nodes[d \in 0..MaxDepth + 2] ==
            IF d = 0 THEN NoNodes ELSE NodesAbove(nodes[d - 1])
    IN  nodes

Fits(item) ==
    LET nodes == Nodes[MaxDepth + 2][item]
    IN  /\ Cardinality(nodes) <= MaxNodes
        /\ \A n \in nodes : Len(n.place) <= MaxDepth /\ ~TooLarge(n.value)

----------------------------------------------------------------------------
\* How many nodes a pass over item visits, if it is not refused.
Visits(item) ==
    LET n == Cardinality(Nodes[MaxDepth + 2][item])
    IN  IF n \in 1..MaxNodes THEN n ELSE MaxNodes

\* What the lookups of a pass over item may find while the store holds one of D
\* after another: L[left][i] for the i-th key of the node that is visited with
\* left nodes to go, L[left][0] for its text.  Their order is left out; a node
\* that the pass does not reach has the lookups of the first one.
Lookups(item, D) ==
    {[left \in 1..MaxNodes |-> IF left > MaxNodes - Visits(item) THEN l[left] ELSE l[MaxNodes]] :
        l \in [MaxNodes - Visits(item) + 1..MaxNodes -> [0..MaxItems -> D]]}
===============================================================================
