----------------------------- MODULE SessionPool -----------------------------
(***************************************************************************)
(* What the admission of MCP sessions promises an endpoint: a pool with a  *)
(* bounded number of places.  A request that enters holds a place at once; *)
(* the place becomes the session the request opens, or is given back.      *)
(***************************************************************************)
EXTENDS Naturals, FiniteSets

CONSTANTS Requests, Ids, MaxSessions

VARIABLES
    open,       \* sessions that are open
    entering    \* requests that hold a place and have opened no session yet

vars == <<open, entering>>

Init == open = {} /\ entering = {}

Enter(r) ==
    /\ r \notin entering
    /\ Cardinality(open) + Cardinality(entering) < MaxSessions
    /\ entering' = entering \cup {r}
    /\ UNCHANGED open

Open(r, i) ==
    /\ r \in entering /\ i \notin open
    /\ entering' = entering \ {r}
    /\ open' = open \cup {i}

Leave(r) ==
    /\ r \in entering
    /\ entering' = entering \ {r}
    /\ UNCHANGED open

CloseSession(i) ==
    /\ i \in open
    /\ open' = open \ {i}
    /\ UNCHANGED entering

Next ==
    \/ \E r \in Requests : Enter(r) \/ Leave(r)
    \/ \E r \in Requests, i \in Ids : Open(r, i)
    \/ \E i \in Ids : CloseSession(i)

Spec == Init /\ [][Next]_vars
=============================================================================
