---------------------------- MODULE HostedRequests ----------------------------
(***************************************************************************)
(* The life of an HTTP request in the hosted process (http_server.py):     *)
(* authentication, the gate that bounds requests and their bodies          *)
(* (BoundedRequestMiddleware), and the worker thread that runs its tool    *)
(* (call_public_tool, GPTActionService) with the credential store of its   *)
(* protocol session (SessionCredentialRegistry).                           *)
(*                                                                         *)
(* Requests wait twice: for a token of the gate, which they keep until     *)
(* their response is sent, and for one of the pool of threads.  A tool     *)
(* call may be cancelled by another request of its session, or by the end  *)
(* of the session.  Its thread cannot be: it runs on, detached, with the   *)
(* token it has.                                                           *)
(*                                                                         *)
(* The process has two MCP endpoints, each with a pool of its own; the     *)
(* model has one of them, and the Action's pool.  A session is an object   *)
(* of the SDK; its place in memory is used again once it is collected.     *)
(***************************************************************************)
EXTENDS Naturals, Sequences, FiniteSets, Orders

CONSTANTS
    Requests,          \* requests at one time; each comes back when it is done
    Sessions,          \* places in memory for session objects
    None,              \* no session
    GateLimit,         \* MAX_CONCURRENT_HTTP_REQUESTS
    ToolLimit,         \* CapacityLimiter(8) of create_public_mcp_server
    ActionLimit,       \* GPT_ACTION_MAX_CONCURRENCY
    MaxConversations   \* bound on the sessions ever opened

ASSUME RequestsAssumption == IsFiniteSet(Requests) /\ None \notin Sessions

ASSUME LimitsAssumption ==
    /\ GateLimit \in Nat \ {0} /\ ToolLimit \in Nat \ {0} /\ ActionLimit \in Nat \ {0}
    /\ MaxConversations \in Nat

Pools    == {"tool", "action"}
Limit(p) == IF p = "tool" THEN ToolLimit ELSE ActionLimit
NoStore  == 0

\* "other" is any request the gate does not buffer, and is at "stream" once it
\* is inside: event streams, DELETE, health, schema.
Kinds  == Pools \cup {"other"}
Points == {"idle", "gate", "body", "stream", "queued", "running"}

VARIABLES
    pc,          \* where each request is
    kind,        \* what it asks for
    gateQueue,   \* requests that wait for the gate, in order
    inside,      \* requests that hold a token of the gate
    workQueue,   \* requests that wait for a thread of each pool, in order
    taken,       \* tokens of each pool that are taken
    slot,        \* the session of a tool call
    store,       \* the credential store bound to a tool call's context
    detached,    \* threads that run on after their call was cancelled, by session
    open,        \* sessions the SDK serves
    holds,       \* the conversation of the object in each place, 0 for none
    entry,       \* SessionCredentialRegistry._stores
    opened,      \* conversations so far
    owner        \* history: the conversation each store was created for

calls    == <<slot, store>>
threads  == <<workQueue, taken, detached>>
sessions == <<open, holds, opened>>
stores   == <<entry, owner>>
vars     == <<pc, kind, gateQueue, inside, threads, calls, sessions, stores>>

TypeOK ==
    /\ pc \in [Requests -> Points]
    /\ kind \in [Requests -> Kinds]
    /\ gateQueue \in Seq(Requests)
    /\ inside \subseteq Requests
    /\ workQueue \in [Pools -> Seq(Requests)]
    /\ taken \in [Pools -> Nat]
    /\ slot \in [Requests -> Sessions \cup {None}]
    /\ store \in [Requests -> Nat]
    /\ detached \in [Sessions -> Nat]
    /\ open \subseteq Sessions
    /\ holds \in [Sessions -> 0..MaxConversations]
    /\ entry \in [Sessions -> Nat]
    /\ opened \in 0..MaxConversations
    /\ owner \in Seq(1..MaxConversations)

Init ==
    /\ pc = [r \in Requests |-> "idle"]
    /\ kind = [r \in Requests |-> "other"]
    /\ gateQueue = <<>>
    /\ inside = {}
    /\ workQueue = [p \in Pools |-> <<>>]
    /\ taken = [p \in Pools |-> 0]
    /\ slot = [r \in Requests |-> None]
    /\ store = [r \in Requests |-> NoStore]
    /\ detached = [s \in Sessions |-> 0]
    /\ open = {}
    /\ holds = [s \in Sessions |-> 0]
    /\ entry = [s \in Sessions |-> NoStore]
    /\ opened = 0
    /\ owner = <<>>

----------------------------------------------------------------------------
Goto(r, point) == pc' = [pc EXCEPT ![r] = point]

\* Calls that have the session of place s, queued or on a thread.
CallsOf(s) == {r \in Requests : slot[r] = s}

\* The responses of the requests in D are out, or there are none: they are
\* gone, and with them their tokens of the gate.
Leave(D) ==
    /\ pc' = [r \in Requests |-> IF r \in D THEN "idle" ELSE pc[r]]
    /\ kind' = [r \in Requests |-> IF r \in D THEN "other" ELSE kind[r]]
    /\ inside' = inside \ D

\* OpenAIMTLSMiddleware and GPTActionAuthMiddleware stand before the gate: a
\* request they refuse waits for nothing and leaves no trace.
Arrive(r, k) ==
    /\ pc[r] = "idle"
    /\ Goto(r, "gate")
    /\ kind' = [kind EXCEPT ![r] = k]
    /\ gateQueue' = Append(gateQueue, r)
    /\ UNCHANGED <<inside, threads, calls, sessions, stores>>

\* Mutants, here and below, are plausible mistakes in the definition they
\* precede; the specification uses none of them.  The request that came last
\* is let in first.
EnterGateLast(r) ==
    /\ pc[r] = "gate"
    /\ gateQueue[Len(gateQueue)] = r /\ Cardinality(inside) < GateLimit
    /\ gateQueue' = SubSeq(gateQueue, 1, Len(gateQueue) - 1)
    /\ inside' = inside \cup {r}
    /\ Goto(r, IF kind[r] = "other" THEN "stream" ELSE "body")
    /\ UNCHANGED <<kind, threads, calls, sessions, stores>>

\* CapacityLimiter hands its tokens out in order.  What is no POST to one of
\* the bounded paths goes straight to the application.
EnterGate(r) ==
    /\ pc[r] = "gate"
    /\ Head(gateQueue) = r /\ Cardinality(inside) < GateLimit
    /\ gateQueue' = Tail(gateQueue)
    /\ inside' = inside \cup {r}
    /\ Goto(r, IF kind[r] = "other" THEN "stream" ELSE "body")
    /\ UNCHANGED <<kind, threads, calls, sessions, stores>>

\* The client goes away before its body is complete: nothing is answered.
Disconnected(r) ==
    /\ pc[r] = "body"
    /\ Leave({r})
    /\ UNCHANGED <<gateQueue, threads, calls, sessions, stores>>

StreamEnds(r) ==
    /\ pc[r] = "stream"
    /\ Leave({r})
    /\ UNCHANGED <<gateQueue, threads, calls, sessions, stores>>

----------------------------------------------------------------------------
\* The body is over the limit (413); or it is complete and no POST that runs a
\* tool: another message of the protocol, or one that is refused.
Handle(r) ==
    /\ pc[r] = "body"
    /\ Leave({r})
    /\ UNCHANGED <<gateQueue, threads, calls, sessions, stores>>

\* The SDK opens a session: a new object, in a place that is free.
OpenSession(r, s) ==
    /\ pc[r] = "body" /\ kind[r] = "tool"
    /\ holds[s] = 0 /\ opened < MaxConversations
    /\ opened' = opened + 1
    /\ holds' = [holds EXCEPT ![s] = opened + 1]
    /\ open' = open \cup {s}
    /\ Leave({r})
    /\ UNCHANGED <<gateQueue, threads, calls, stores>>

\* SessionCredentialRegistry.for_session, which leaves the store in entry'.
ForSession(s) ==
    \/ entry[s] # NoStore /\ UNCHANGED stores
    \/ /\ entry[s] = NoStore
       /\ owner' = Append(owner, holds[s])
       /\ entry' = [entry EXCEPT ![s] = Len(owner) + 1]

\* credential_scope: the store is bound to the context of this call, which
\* its thread copies.
Bind(r, s) == store' = [store EXCEPT ![r] = entry'[s]]

CallTool(r, s) ==
    /\ pc[r] = "body" /\ kind[r] = "tool" /\ s \in open
    /\ ForSession(s)
    /\ Bind(r, s)
    /\ slot' = [slot EXCEPT ![r] = s]
    /\ workQueue' = [workQueue EXCEPT !["tool"] = Append(@, r)]
    /\ Goto(r, "queued")
    /\ UNCHANGED <<kind, gateQueue, inside, taken, detached, sessions>>

\* play, game and turn, their body valid; each has a store of its own.
CallAction(r) ==
    /\ pc[r] = "body" /\ kind[r] = "action"
    /\ workQueue' = [workQueue EXCEPT !["action"] = Append(@, r)]
    /\ Goto(r, "queued")
    /\ UNCHANGED <<kind, gateQueue, inside, taken, detached, calls, sessions, stores>>

StartThread(r) ==
    /\ pc[r] = "queued"
    /\ LET p == kind[r]
       IN  /\ Head(workQueue[p]) = r /\ taken[p] < Limit(p)
           /\ workQueue' = [workQueue EXCEPT ![p] = Tail(@)]
           /\ taken' = [taken EXCEPT ![p] = @ + 1]
    /\ Goto(r, "running")
    /\ UNCHANGED <<kind, gateQueue, inside, detached, calls, sessions, stores>>

\* Mutant: a tool that raises does not give its token back.
FinishThreadLosingToken(r) ==
    /\ pc[r] = "running"
    /\ UNCHANGED taken \/ taken' = [taken EXCEPT ![kind[r]] = @ - 1]
    /\ slot' = [slot EXCEPT ![r] = None]
    /\ store' = [store EXCEPT ![r] = NoStore]
    /\ Leave({r})
    /\ UNCHANGED <<gateQueue, workQueue, detached, sessions, stores>>

\* The tool returns or raises.  Every request of it has a timeout.
FinishThread(r) ==
    /\ pc[r] = "running"
    /\ taken' = [taken EXCEPT ![kind[r]] = @ - 1]
    /\ slot' = [slot EXCEPT ![r] = None]
    /\ store' = [store EXCEPT ![r] = NoStore]
    /\ Leave({r})
    /\ UNCHANGED <<gateQueue, workQueue, detached, sessions, stores>>

\* Mutant: abandon_on_cancel, which gives the token back at once.
AbandonedThreads(D, s) ==
    /\ detached' = [detached EXCEPT ![s] = @ + Cardinality(D)]
    /\ taken' = [taken EXCEPT !["tool"] = @ - Cardinality(D)]

\* The threads of the calls D of session s run on, with their tokens.
LeftRunning(D, s) ==
    /\ detached' = [detached EXCEPT ![s] = @ + Cardinality(D)]
    /\ UNCHANGED taken

\* The calls D of session s are cancelled: those that wait for a thread go,
\* and all of them are answered.  D may hold the request r that asks for it.
Cancel(D, s, r) ==
    /\ LeftRunning({q \in D : pc[q] = "running"}, s)
    /\ workQueue' = [workQueue EXCEPT !["tool"] = Without(@, D)]
    /\ Leave(D \cup {r})
    /\ slot' = [q \in Requests |-> IF q \in D THEN None ELSE slot[q]]
    /\ store' = [q \in Requests |-> IF q \in D THEN NoStore ELSE store[q]]

\* notifications/cancelled for call q, which request r brings.
CancelCall(r, q) ==
    /\ pc[r] = "body" /\ kind[r] = "tool" /\ slot[q] # None
    /\ Cancel({q}, slot[q], r)
    /\ UNCHANGED <<gateQueue, sessions, stores>>

\* A DELETE ends session s; its calls are cancelled.
DeleteSession(r, s) ==
    /\ pc[r] = "stream" /\ s \in open
    /\ open' = open \ {s}
    /\ Cancel(CallsOf(s), s, r)
    /\ UNCHANGED <<gateQueue, holds, opened, stores>>

\* A session without calls ends on its own: it was idle for too long.
SessionExpires(s) ==
    /\ s \in open /\ CallsOf(s) = {}
    /\ open' = open \ {s}
    /\ UNCHANGED <<pc, kind, gateQueue, inside, threads, calls, holds, opened, stores>>

\* A detached thread ends, and its token is given back.
DetachedEnds(s) ==
    /\ detached[s] > 0
    /\ detached' = [detached EXCEPT ![s] = @ - 1]
    /\ taken' = [taken EXCEPT !["tool"] = @ - 1]
    /\ UNCHANGED <<pc, kind, gateQueue, inside, workQueue, calls, sessions, stores>>

\* Mutant: the table holds on to the entry of an object that is gone.
CollectKeepingEntry(s) ==
    /\ holds[s] # 0 /\ s \notin open /\ CallsOf(s) = {} /\ detached[s] = 0
    /\ holds' = [holds EXCEPT ![s] = 0]
    /\ UNCHANGED <<pc, kind, gateQueue, inside, threads, calls, open, opened, stores>>

\* Nothing refers to an ended session any more: it is collected, and the weak
\* table loses its entry.
Collect(s) ==
    /\ holds[s] # 0 /\ s \notin open /\ CallsOf(s) = {} /\ detached[s] = 0
    /\ holds' = [holds EXCEPT ![s] = 0]
    /\ entry' = [entry EXCEPT ![s] = NoStore]
    /\ UNCHANGED <<pc, kind, gateQueue, inside, threads, calls, open, opened, owner>>

\* A call that is to run a tool is handed to a pool.
RunsTool(r) == CallAction(r) \/ \E s \in Sessions : CallTool(r, s)

\* A step of a POST, up to its response, or of any request at the gate.
Served(r) ==
    \/ EnterGate(r) \/ Disconnected(r) \/ Handle(r)
    \/ RunsTool(r) \/ StartThread(r) \/ FinishThread(r)
    \/ \E s \in Sessions : OpenSession(r, s)
    \/ \E q \in Requests : CancelCall(r, q)

\* A step of a request that has arrived.
RequestStep(r) ==
    \/ Served(r) \/ StreamEnds(r)
    \/ \E s \in Sessions : DeleteSession(r, s)

SessionStep(s) == SessionExpires(s) \/ DetachedEnds(s) \/ Collect(s)

Next ==
    \/ \E r \in Requests : RequestStep(r)
    \/ \E r \in Requests, k \in Kinds : Arrive(r, k)
    \/ \E s \in Sessions : SessionStep(s)

Spec == Init /\ [][Next]_vars

\* The event loop runs every task that can run, and nginx sends a body whole or
\* not at all.  A tool's requests have timeouts, but its thread may also wait
\* for a lock that other threads of the process keep taking from it (SharedKey,
\* GptGames): that every thread ends is claimed only if the calls that run a
\* tool stop coming.  Nothing is asked of other requests, which may be without
\* end, of a stream, which the SDK's pings keep open for as long as its client
\* likes, or of the collector.
FairSpec ==
    /\ Spec
    /\ <>[][\A r \in Requests : ~RunsTool(r)]_vars
    /\ \A r \in Requests : WF_vars(Served(r))
    /\ \A s \in Sessions : WF_vars(DetachedEnds(s))

----------------------------------------------------------------------------
(***************************************************************************)
(* Properties.                                                             *)
(***************************************************************************)

Running(p) == {r \in Requests : pc[r] = "running" /\ kind[r] = p}

\* Threads that run on, numbered within their session.
Detached == UNION {{s} \X (1..detached[s]) : s \in Sessions}

\* "Cancellation cannot escape the worker limit" (docs/SECURITY_CONTROLS.md):
\* no more threads of a pool are alive than it has tokens, detached ones
\* included, however often calls are cancelled and sessions deleted.
WorkersBounded ==
    /\ Cardinality(Running("tool")) + Cardinality(Detached) <= ToolLimit
    /\ Cardinality(Running("action")) <= ActionLimit

\* No token and no place in a queue is lost or given out twice, on any path: a
\* token of the gate belongs to a request that is not answered yet, one of a
\* pool to a thread, and who waits, and nobody else, is in the queue once.
NothingLost ==
    /\ inside = {r \in Requests : pc[r] \notin {"idle", "gate"}}
    /\ Cardinality(inside) <= GateLimit
    /\ Distinct(gateQueue) /\ Keys(gateQueue) = {r \in Requests : pc[r] = "gate"}
    /\ \A p \in Pools :
          /\ Distinct(workQueue[p])
          /\ Keys(workQueue[p]) = {r \in Requests : pc[r] = "queued" /\ kind[r] = p}
    /\ taken["tool"] = Cardinality(Running("tool")) + Cardinality(Detached)
    /\ taken["action"] = Cardinality(Running("action"))

\* A tool call works with the store of its own conversation, the same one as
\* every other call of it: never with one left by a session whose object was
\* at the same place, and never with that of a call that runs beside it.
StoresIsolated ==
    /\ \A r \in Requests :
          slot[r] # None =>
              /\ store[r] \in DOMAIN owner
              /\ owner[store[r]] = holds[slot[r]]
    /\ \A r, q \in Requests :
          slot[r] # None /\ slot[r] = slot[q] => store[r] = store[q]

\* Every request is answered, or becomes a stream, whatever endless supply of
\* others comes after it: tokens are given back on every path and handed out in
\* order.  What can keep one from it is streams alone, which have a token of
\* the gate each: all of them, from some time on and for ever.
StreamsFillGate == Cardinality({r \in Requests : pc[r] = "stream"}) = GateLimit
RequestsEnd ==
    \/ <>[]StreamsFillGate
    \/ \A r \in Requests : pc[r] # "idle" ~> pc[r] \in {"idle", "stream"}
=============================================================================
