----------------------------- MODULE ServiceReply -----------------------------
(***************************************************************************)
(* What becomes of a reply of the game service (http_client.py,            *)
(* security.py, tools.py): it is read and decoded, its handler remembers   *)
(* the credential it delivers, public_result bounds and redacts it, and    *)
(* invoke_tool does so again before it goes to the host.  What fails on    *)
(* the way goes to the host as an error, redacted as well.                 *)
(***************************************************************************)
EXTENDS Sanitize

CONSTANTS
    Credentials,   \* credentials the service may issue to the session
    Arguments,     \* texts a host may pass to a tool
    Replies,       \* JSON objects the service may answer with
    ErrorTexts,    \* texts it may answer an error with
    MaxStores      \* bound: how many stores a pass over a reply may meet

Nothing == Object(<<>>)

Fetch(item, key) ==
    LET found == {i \in DOMAIN item.fields : item.fields[i].key = key}
    IN  IF found = {} THEN Null ELSE item.fields[CHOOSE i \in found : TRUE].value

\* _required_service_string and _credential, which keeps to printable ASCII.
Accepts(v) ==
    v.type = "text" /\ v.text # <<>> /\ \A i \in DOMAIN v.text : v.text[i] \notin {"control", "replacement"}

ASSUME InputsAssumption ==
    /\ MaxStores \in [Replies \cup {Nothing} -> Nat]
    /\ {"T", "n"} \subseteq Symbols
    /\ Arguments \subseteq Texts /\ ErrorTexts \subseteq Texts
    /\ Replies \subseteq {v \in Json : v.type = "object"}

\* Credentials are what _credential accepts of the service, all that a reply
\* delivers is one of them, and none has a text of this program's in it, nor
\* one that an URL would spell "percent2525".
ASSUME CredentialsAssumption ==
    /\ IsFiniteSet(Credentials)
    /\ \A c \in Credentials : c \in Texts /\ c # <<>> /\ \A i \in DOMAIN c : c[i] \notin Own \cup {"percent25"}
    /\ \A v \in Replies : Accepts(Fetch(v, <<"T">>)) => Fetch(v, <<"T">>).text \in Credentials

VARIABLES
    stage,     \* how far the call is
    handler,   \* "deliver": onboarding, create_bot_match; "state": match tools
    known,     \* CredentialStore.sensitive_values
    bearer,    \* the credential in its Authorization header, <<>> for none
    reply,     \* what the service answered, decoded
    first,     \* the handler's result
    seen,      \* history: what known was during the handler's pass, or
               \* what json_request hid in the text of an error
    stores,    \* history: what known was since the pass to come may have begun,
               \* during the last one at the end
    out        \* what the host gets

vars == <<stage, handler, known, bearer, reply, first, seen, stores, out>>

----------------------------------------------------------------------------
(***************************************************************************)
(* A call.                                                                 *)
(***************************************************************************)
TypeOK ==
    /\ stage \in {"idle", "sent", "received", "remembered", "handled", "failed", "done"}
    /\ handler \in {"deliver", "state"}
    /\ known \subseteq Credentials
    /\ bearer \in Credentials \cup {<<>>}
    /\ reply \in Replies \cup {Nothing}
    /\ first \in Seq(Json) /\ Len(first) <= 1 /\ \A i \in DOMAIN first : first[i].type = "object"
    /\ seen \subseteq SUBSET Credentials
    /\ stores \subseteq SUBSET Credentials
    /\ out \in Seq(Json) /\ Len(out) <= 1

Init ==
    /\ stage = "idle" /\ handler = "state"
    /\ known = {} /\ bearer = <<>>
    /\ reply = Nothing /\ first = <<>> /\ seen = {} /\ stores = {} /\ out = <<>>

\* The call ends with an error, whose text the host gets redacted.
Fail(text) ==
    /\ stage' = "failed"
    /\ out' = <<Text(text)>>

\* ensure_no_secret
Allowed(argument) ==
    \A s \in known : ~Occurs(s, argument) /\ ~Occurs(s, Unquoted(argument))

\* A tool with a free text among its arguments sends its request.  What it
\* carries in its body, a seat token or a ticket, json_request knows nothing of.
Send(h, argument, b) ==
    /\ stage = "idle" /\ Allowed(argument)
    /\ stage' = "sent" /\ handler' = h /\ bearer' = b
    /\ UNCHANGED <<known, reply, first, seen, stores, out>>

SendRefused(h, argument) ==
    /\ stage = "idle" /\ ~Allowed(argument)
    /\ handler' = h /\ Fail(<<>>)
    /\ UNCHANGED <<known, bearer, reply, first, seen, stores>>

\* Another call of the session drops credential d from the store, <<>> for none,
\* and is given c, <<>> for none: a key or a ticket takes the place of the old
\* one, a ticket is cleared, a new match pushes out an old one.
OtherCall(d, c) ==
    /\ stage \in {"sent", "received", "remembered", "handled", "failed"}
    /\ known' = (known \ {d}) \cup ({c} \ {<<>>})
    /\ IF stage \in {"sent", "failed"} THEN UNCHANGED stores ELSE stores' = stores \cup {known'}
    /\ Cardinality(stores') <= MaxStores[reply]
    /\ UNCHANGED <<stage, handler, bearer, reply, first, seen, out>>

\* json_request: a JSON object of at most MAX_RESPONSE_BYTES, or nothing.
Receive(v) ==
    /\ stage = "sent"
    /\ stage' = "received" /\ reply' = v /\ stores' = {known}
    /\ UNCHANGED <<handler, known, bearer, first, seen, out>>

\* A redirect, too many bytes, no JSON or no object, no connection or a timeout;
\* or a body that breaks off, which no handler of json_request catches and
\* invoke_tool reports.
ReceiveFails ==
    /\ stage = "sent" /\ Fail(<<>>)
    /\ UNCHANGED <<handler, known, bearer, reply, first, seen, stores>>

\* Mutant: what is hidden is what the session knows by now.
HttpErrorAsKnown(text) ==
    /\ stage = "sent"
    /\ Fail(Redact(Cut(text, MaxKey), known))
    /\ seen' = {known \cup ({bearer} \ {<<>>})}
    /\ UNCHANGED <<handler, known, bearer, reply, first, stores>>

\* HTTPError: its text is cut at 256 characters, then redacted, with the bearer
\* among the secrets.
HttpError(text) ==
    /\ stage = "sent"
    /\ Fail(Redact(Cut(text, MaxKey), known \cup ({bearer} \ {<<>>})))
    /\ seen' = {known \cup ({bearer} \ {<<>>})}
    /\ UNCHANGED <<handler, known, bearer, reply, first, stores>>

\* The handler ends with public_result(data), which may raise.
Conclude(data) ==
    /\ \E L \in Lookups(data, stores) : first' = PublicResult(data, L)
    /\ seen' = stores /\ stores' = {known}
    /\ IF first' = <<>> THEN Fail(<<>>) ELSE stage' = "handled" /\ UNCHANGED out

\* tool_get_match_state, tool_submit_action: all of the reply.
Forward ==
    /\ stage = "received" /\ handler = "state"
    /\ Conclude(reply)
    /\ UNCHANGED <<handler, known, bearer, reply>>

\* Mutant: it is remembered before it is checked.
RememberUnchecked(d) ==
    /\ stage = "received" /\ handler = "deliver" /\ Fetch(reply, <<"T">>).type = "text"
    /\ stage' = "remembered"
    /\ known' = (known \ {d}) \cup {Fetch(reply, <<"T">>).text} /\ stores' = {known'}
    /\ UNCHANGED <<handler, bearer, reply, first, seen, out>>

\* _onboard_sandbox, tool_create_bot_match: the credential is remembered first,
\* perhaps in the place of d; then come some fields of the reply.
Remember(d) ==
    /\ stage = "received" /\ handler = "deliver" /\ Accepts(Fetch(reply, <<"T">>))
    /\ stage' = "remembered"
    /\ known' = (known \ {d}) \cup {Fetch(reply, <<"T">>).text} /\ stores' = {known'}
    /\ UNCHANGED <<handler, bearer, reply, first, seen, out>>

Deliver ==
    /\ stage = "remembered"
    /\ Conclude(Object(<<Field(<<"n">>, Fetch(reply, <<"n">>))>>))
    /\ UNCHANGED <<handler, known, bearer, reply>>

DeliverRefused ==
    /\ stage = "received" /\ handler = "deliver" /\ ~Accepts(Fetch(reply, <<"T">>))
    /\ Fail(<<>>)
    /\ UNCHANGED <<handler, known, bearer, reply, first, seen, stores>>

\* invoke_tool sanitises what the handler returned.
Finish ==
    /\ stage = "handled"
    /\ \E L \in Lookups(first[1], stores) :
          IF PublicResult(first[1], L) = <<>> THEN Fail(<<>>)
          ELSE stage' = "done" /\ out' = PublicResult(first[1], L)
    /\ UNCHANGED <<handler, known, bearer, reply, first, seen, stores>>

\* _error_result
Report ==
    /\ stage = "failed"
    /\ stage' = "done"
    /\ out' = <<Text(Redact(out[1].text, known))>> /\ stores' = {known}
    /\ UNCHANGED <<handler, known, bearer, reply, first, seen>>

Return ==
    /\ stage = "done"
    /\ stage' = "idle" /\ handler' = "state"
    /\ bearer' = <<>> /\ reply' = Nothing /\ first' = <<>> /\ seen' = {} /\ stores' = {}
    /\ out' = <<>>
    /\ UNCHANGED known

\* The tools that forward a reply send no bearer (tool_get_match_state,
\* tool_submit_action).
Next ==
    \/ \E h \in {"deliver", "state"}, t \in Arguments : SendRefused(h, t)
    \/ \E t \in Arguments : Send("state", t, <<>>) \/ \E b \in known \cup {<<>>} : Send("deliver", t, b)
    \/ \E d \in known \cup {<<>>} : Remember(d) \/ \E c \in Credentials \cup {<<>>} : OtherCall(d, c)
    \/ \E v \in Replies \cup {Nothing} : Receive(v)
    \/ \E t \in ErrorTexts : HttpError(t)
    \/ ReceiveFails \/ Forward \/ Deliver \/ DeliverRefused
    \/ Finish \/ Report \/ Return

Spec == Init /\ [][Next]_vars

----------------------------------------------------------------------------
(***************************************************************************)
(* Properties.                                                             *)
(***************************************************************************)

\* Texts without the secrets in S, as they are or quoted.
Free(S) == {t \in Texts : \A s \in S : ~Occurs(s, t) /\ ~Occurs(Quoted(s), t)}

\* The credentials in each of the sets in X.
Always(X) == {c \in Credentials : \A K \in X : c \in K}

\* No text or key the host gets, errors included, has a credential in it that
\* the session knew all through one of the two passes, or that the request of an
\* error had for its bearer: neither as it is nor quoted, and whatever other
\* calls have meanwhile forgotten.  (What the request carried in its body, or
\* what the store dropped or was given in the course of both passes, may be.)
NoSecretEscapes ==
    stage = "done" =>
        LET kept == Always(seen) \cup Always(stores)
        IN  out[1] \in JsonOf(Free(kept), Free(kept))

\* Positions of text that some credential in S covers.
Covered(text, S) ==
    {i \in DOMAIN text :
        \E s \in S \cup {Quoted(q) : q \in S}, j \in 1..i : i < j + Len(s) /\ At(s, text, j)}

\* Of a text that is not cut, all that belongs to a credential is hidden, the
\* rest of one that begins with another included, and nothing else is.  (The
\* text is hidden by one lookup, whatever it found.)
OnlySecretsHidden ==
    stage = "handled" /\ Fetch(reply, <<"n">>).type = "text" =>
        LET given == Fetch(reply, <<"n">>).text
            shown == Fetch(first[1], <<"n">>).text
        IN  Len(given) <= MaxText => \E K \in seen :
                LET kept == DOMAIN given \ Covered(given, K) IN
                /\ Cardinality({i \in DOMAIN shown : shown[i] # "redacted"}) = Cardinality(kept)
                /\ kept = DOMAIN given => \A i \in kept : given[i] \in {shown[i], "control"}

\* A reply is refused when it breaks a limit, and only then: the budget is one
\* for all of it, and values that are not shown cost nothing.
RefusedExactly ==
    handler = "state" /\ reply # Nothing =>
        /\ stage = "handled" => Fits(reply)
        /\ stage = "failed" => ~Fits(reply) \/ first # <<>>

\* Keys that are short enough not to be cut.
Short == {k \in Texts : Len(k) <= MaxKey}

\* What the handler's pass let through, invoke_tool's pass leaves as it is,
\* unless the notice made it too large, the store has changed since the first
\* pass began, or a key was cut short and reads as the name of a secret.
SecondPassAgrees ==
    first # <<>> =>
        /\ stage = "done" /\ out[1].type = "object" /\ seen = {known} /\ stores = {known} =>
              out = first \/ reply \notin JsonOf(Short, Texts)
        /\ stage = "failed" => ~Fits(first[1])
===============================================================================
