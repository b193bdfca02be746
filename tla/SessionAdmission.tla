-------------------------- MODULE SessionAdmission --------------------------
(***************************************************************************)
(* Admission of MCP sessions over HTTP (http_server.py,                    *)
(* BoundedSessionManager): a bound on the sessions of an endpoint and one  *)
(* on the sessions of each client address.                                 *)
(*                                                                         *)
(* A request that names no session opens one.  It is admitted or refused   *)
(* in one critical section, handed to the SDK, which creates the session   *)
(* some time later, and settled in a second critical section when the SDK  *)
(* returns, raises or is cancelled.  In between, other requests come and   *)
(* sessions end.  Requests that name a session go straight to the SDK and  *)
(* touch none of this state.                                               *)
(***************************************************************************)
EXTENDS Naturals, FiniteSets

CONSTANTS
    Requests,      \* requests without a session id, at the same time
    Clients,       \* canonical client addresses, "unknown" included
    Ids,           \* session ids the SDK may choose; it never reuses one
    None,          \* no client, no session
    MaxSessions,   \* max_sessions
    MaxPerClient   \* max_sessions_per_client; MaxSessions where it is None

ASSUME RequestsAssumption == IsFiniteSet(Requests)

ASSUME NoneAssumption == None \notin Clients \cup Ids

\* __init__ refuses limits below one.
ASSUME LimitsAssumption ==
    MaxSessions \in Nat \ {0} /\ MaxPerClient \in Nat \ {0}

VARIABLES
    instances,     \* _server_instances: the sessions the SDK keeps
    owner,         \* _session_clients; None where it has no entry
    pending,       \* _pending_new_sessions
    pendingBy,     \* _pending_new_sessions_by_client; 0 where it has no entry
    pc,            \* where each request is
    client,        \* the client address of a request
    session,       \* the session the SDK has created for a request
    captured,      \* created_session_id
    hist           \* history: see HistoryType

counters == <<pending, pendingBy>>
locals   == <<pc, client, session, captured>>
vars     == <<instances, owner, counters, locals, hist>>

(***************************************************************************)
(* History, read by properties only: the client for which the SDK created  *)
(* each session, None while the id is unused, and the sessions whose       *)
(* response told the manager their id.                                     *)
(***************************************************************************)
HistoryType == [creator: [Ids -> Clients \cup {None}], named: SUBSET Ids]

TypeOK ==
    /\ instances \subseteq Ids
    /\ owner \in [Ids -> Clients \cup {None}]
    /\ pending \in Nat
    /\ pendingBy \in [Clients -> Nat]
    /\ pc \in [Requests -> {"new", "sdk"}]
    /\ client \in [Requests -> Clients \cup {None}]
    /\ session \in [Requests -> Ids \cup {None}]
    /\ captured \in [Requests -> Ids \cup {None}]
    /\ hist \in HistoryType

Init ==
    /\ instances = {}
    /\ owner = [i \in Ids |-> None]
    /\ pending = 0
    /\ pendingBy = [c \in Clients |-> 0]
    /\ pc = [r \in Requests |-> "new"]
    /\ client = [r \in Requests |-> None]
    /\ session = [r \in Requests |-> None]
    /\ captured = [r \in Requests |-> None]
    /\ hist = [creator |-> [i \in Ids |-> None], named |-> {}]

----------------------------------------------------------------------------
\* Mutants, here and below, are plausible mistakes in the definition they
\* precede; the specification uses none of them.
PurgedNever(o) == o

\* _purge_closed_session_clients on the table o.
Purged(o) == [i \in Ids |-> IF i \in instances THEN o[i] ELSE None]

OwnedBy(o, c) == {i \in Ids : o[i] = c}

\* Mutant: reservations are not counted.
FullOfSessions(c) ==
    \/ Cardinality(instances) >= MaxSessions
    \/ Cardinality(OwnedBy(Purged(owner), c)) >= MaxPerClient

\* rejected, once closed sessions are purged: sessions and reservations fill
\* the endpoint or the client's share of it.
Full(c) ==
    \/ Cardinality(instances) + pending >= MaxSessions
    \/ Cardinality(OwnedBy(Purged(owner), c)) + pendingBy[c] >= MaxPerClient

\* A place is reserved before the first await.
Admit(r, c) ==
    /\ pc[r] = "new"
    /\ ~Full(c)
    /\ owner' = Purged(owner)
    /\ pending' = pending + 1
    /\ pendingBy' = [pendingBy EXCEPT ![c] = @ + 1]
    /\ pc' = [pc EXCEPT ![r] = "sdk"]
    /\ client' = [client EXCEPT ![r] = c]
    /\ UNCHANGED <<instances, session, captured, hist>>

\* The reservation for client c is given back.  Mutant: not to the client.
GiveBackGlobally(c) == pending' = pending - 1 /\ UNCHANGED pendingBy

GiveBack(c) ==
    /\ pending' = pending - 1
    /\ pendingBy' = [pendingBy EXCEPT ![c] = @ - 1]

\* 503, "temporary session capacity".
Reject(r, c) ==
    /\ pc[r] = "new"
    /\ Full(c)
    /\ owner' = Purged(owner)
    /\ UNCHANGED <<instances, counters, locals, hist>>

\* The SDK creates a session under a fresh id.
SdkCreate(r) ==
    /\ pc[r] = "sdk" /\ session[r] = None
    /\ \E i \in Ids :
          /\ hist.creator[i] = None
          /\ instances' = instances \cup {i}
          /\ session' = [session EXCEPT ![r] = i]
          /\ hist' = [hist EXCEPT !.creator[i] = client[r]]
    /\ UNCHANGED <<owner, counters, pc, client, captured>>

\* Its response starts, and capture_session reads the id from the headers.
\* An error response may carry none: then there is nothing to read.
Capture(r) ==
    /\ pc[r] = "sdk" /\ session[r] # None /\ captured[r] = None
    /\ captured' = [captured EXCEPT ![r] = session[r]]
    /\ hist' = [hist EXCEPT !.named = @ \cup {session[r]}]
    /\ UNCHANGED <<instances, owner, counters, pc, client, session>>

\* The session of request r, if it is known and still there, is charged to
\* its client.  Mutant: it is not.
NotCharged(r) == Purged(owner)

Charged(r) == Purged([i \in Ids |-> IF i = captured[r] THEN client[r] ELSE owner[i]])

\* The finally block, however the SDK was left.
Finish(r) ==
    /\ pc[r] = "sdk"
    /\ GiveBack(client[r])
    /\ owner' = Charged(r)
    /\ pc' = [pc EXCEPT ![r] = "new"]
    /\ client' = [client EXCEPT ![r] = None]
    /\ session' = [session EXCEPT ![r] = None]
    /\ captured' = [captured EXCEPT ![r] = None]
    /\ UNCHANGED <<instances, hist>>

\* A session ends (idle for HTTP_SESSION_IDLE_SECONDS, deleted, crashed);
\* the manager is not told.
SessionEnds(i) ==
    /\ i \in instances
    /\ instances' = instances \ {i}
    /\ UNCHANGED <<owner, counters, locals, hist>>

Next ==
    \/ \E r \in Requests, c \in Clients : Admit(r, c) \/ Reject(r, c)
    \/ \E r \in Requests : SdkCreate(r) \/ Capture(r) \/ Finish(r)
    \/ \E i \in Ids : SessionEnds(i)

Spec == Init /\ [][Next]_vars

----------------------------------------------------------------------------
(***************************************************************************)
(* Properties.                                                             *)
(***************************************************************************)

InSdk == {r \in Requests : pc[r] = "sdk"}

\* Sessions of client c the manager can know: their id was answered, or the
\* request that created them is not settled yet.
Attributable(c) ==
    {i \in instances :
        /\ hist.creator[i] = c
        /\ i \in hist.named \/ \E r \in InSdk : session[r] = i}

\* Sessions and admitted requests that may still create one never exceed the
\* bound, though the SDK creates sessions outside the admission lock and
\* whether or not its responses carry an id.
CapacityKept ==
    Cardinality(instances) + Cardinality({r \in InSdk : session[r] = None})
        <= MaxSessions

\* No client holds more sessions than its share, counting every session whose
\* response carried its id and every one still being opened.
ClientShareKept == \A c \in Clients : Cardinality(Attributable(c)) <= MaxPerClient

\* Reservations are those of the requests inside the SDK: none is lost or
\* given back twice, however a request ends.
ReservationsExact ==
    /\ pending = Cardinality(InSdk)
    /\ \A c \in Clients :
          pendingBy[c] = Cardinality({r \in InSdk : client[r] = c})

\* A new request is refused only while the endpoint, or its client's share, is
\* taken by sessions that live and requests that are being served: an ended
\* session is never counted, though nobody reports its end.
RefusedOnlyWhenFull ==
    \A c \in Clients :
        Full(c) =>
            \/ Cardinality(instances) + Cardinality(InSdk) >= MaxSessions
            \/ Cardinality({i \in instances : hist.creator[i] = c})
                 + Cardinality({r \in InSdk : client[r] = c}) >= MaxPerClient

(***************************************************************************)
(* SessionPool is the atomic pool that this endpoint amounts to.  The code *)
(* has no such pool: it compares two numbers that change at other moments, *)
(* and a request that has its session keeps its reservation until it ends. *)
(***************************************************************************)
Pool == INSTANCE SessionPool WITH
            open <- instances,
            entering <- {r \in InSdk : session[r] = None}

\* Admission implements the bounded pool: no request gets past it unless a
\* place is free for the session it may open.
ImplementsPool == Pool!Spec
=============================================================================
