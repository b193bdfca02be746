----------------------------- MODULE HostedProofs -----------------------------
(***************************************************************************)
(* Theorems about HostedRequests, for any number of requests, sessions and *)
(* limits, and of places in memory used again, and about Deploy, which     *)
(* installs the process and starts it.  The first part is about            *)
(* credentials, the second about threads, the third about the installer.   *)
(*                                                                         *)
(* Sessions do not share credentials because of what a call relies on:     *)
(* while it has a session, the entry of that session is the store it works *)
(* with, and that store was made for the conversation the session's object *)
(* holds.  Threads never exceed their limit because a token is taken for   *)
(* each of them and given back by that one only.                           *)
(***************************************************************************)
EXTENDS HostedRequests, Deploy, OrdersProofs

Typed ==
    /\ slot \in [Requests -> Sessions \cup {None}]
    /\ store \in [Requests -> Nat]
    /\ open \subseteq Sessions
    /\ holds \in [Sessions -> 0..MaxConversations]
    /\ entry \in [Sessions -> Nat]
    /\ opened \in 0..MaxConversations
    /\ owner \in Seq(1..MaxConversations)

OpenIsHeld == \A s \in open : holds[s] # 0

EntryIsOwn ==
    \A s \in Sessions : entry[s] # NoStore =>
        /\ entry[s] \in 1..Len(owner)
        /\ owner[entry[s]] = holds[s]
        /\ holds[s] # 0

CallHasEntry ==
    \A r \in Requests : slot[r] # None =>
        entry[slot[r]] # NoStore /\ store[r] = entry[slot[r]]

IInv == Typed /\ OpenIsHeld /\ EntryIsOwn /\ CallHasEntry

USE RequestsAssumption, LimitsAssumption

\* No session is open, and no store made, at the start.
LEMMA InitInv == Init => IInv
<1> SUFFICES ASSUME Init PROVE IInv
  OBVIOUS
<1>1. owner = <<>> /\ <<>> \in Seq(1..MaxConversations)
  BY DEF Init
<1>2. Typed
  BY <1>1 DEF Init, Typed, NoStore
<1>3. OpenIsHeld /\ EntryIsOwn /\ CallHasEntry
  BY DEF Init, OpenIsHeld, EntryIsOwn, CallHasEntry
<1>. QED
  BY <1>2, <1>3 DEF IInv

\* What most actions leave alone.
LEMMA FrameInv ==
    IInv /\ UNCHANGED <<slot, store, open, holds, entry, opened, owner>> => IInv'
BY DEF IInv, Typed, OpenIsHeld, EntryIsOwn, CallHasEntry

\* A call that ends gives up its session, and may take others with it.
LEMMA EndInv ==
    ASSUME IInv, NEW D,
           slot' = [q \in Requests |-> IF q \in D THEN None ELSE slot[q]],
           store' = [q \in Requests |-> IF q \in D THEN NoStore ELSE store[q]],
           open' \subseteq open,
           UNCHANGED <<holds, entry, opened, owner>>
    PROVE  IInv'
<1>1. Typed'
  BY DEF IInv, Typed, NoStore
<1>2. OpenIsHeld' /\ EntryIsOwn'
  BY DEF IInv, Typed, OpenIsHeld, EntryIsOwn
<1>3. CallHasEntry'
  BY DEF IInv, Typed, CallHasEntry
<1>. QED
  BY <1>1, <1>2, <1>3 DEF IInv

\* A new session finds no entry at its place in memory.
LEMMA OpenInv ==
    ASSUME IInv, NEW r \in Requests, NEW s \in Sessions, OpenSession(r, s)
    PROVE  IInv'
<1>1. holds' = [holds EXCEPT ![s] = opened + 1] /\ open' = open \cup {s} /\ holds[s] = 0 /\ opened < MaxConversations
  BY DEF OpenSession
<1>2. UNCHANGED <<slot, store, entry, owner>> /\ opened' = opened + 1
  BY DEF OpenSession, calls, stores
<1>3. entry[s] = NoStore
  BY <1>1 DEF IInv, EntryIsOwn
<1>4. Typed' /\ OpenIsHeld'
  BY <1>1, <1>2 DEF IInv, Typed, OpenIsHeld
<1>5. EntryIsOwn'
  BY <1>1, <1>2, <1>3 DEF IInv, Typed, EntryIsOwn
<1>6. CallHasEntry'
  BY <1>2 DEF IInv, CallHasEntry
<1>. QED
  BY <1>4, <1>5, <1>6 DEF IInv

\* A call gets the entry of its session, or makes it.
LEMMA CallInv ==
    ASSUME IInv, NEW r \in Requests, NEW s \in Sessions, CallTool(r, s)
    PROVE  IInv'
<1>1. /\ s \in open
      /\ store' = [store EXCEPT ![r] = entry'[s]]
      /\ slot' = [slot EXCEPT ![r] = s]
  BY DEF CallTool, Bind
<1>2. UNCHANGED <<open, holds, opened>>
  BY DEF CallTool, sessions
<1>3. holds[s] # 0 /\ holds[s] \in 1..MaxConversations
  BY <1>1 DEF IInv, OpenIsHeld, Typed
<1>4. CASE entry[s] # NoStore /\ UNCHANGED stores
  BY <1>1, <1>2, <1>4 DEF IInv, Typed, OpenIsHeld, EntryIsOwn, CallHasEntry, stores, NoStore
<1>5. CASE /\ entry[s] = NoStore
           /\ owner' = Append(owner, holds[s])
           /\ entry' = [entry EXCEPT ![s] = Len(owner) + 1]
  <2>1. /\ owner' \in Seq(1..MaxConversations) /\ Len(owner') = Len(owner) + 1 /\ Len(owner) \in Nat
        /\ owner'[Len(owner) + 1] = holds[s]
        /\ \A i \in 1..Len(owner) : owner'[i] = owner[i]
    BY <1>3, <1>5, AppendProperties DEF IInv, Typed
  <2>2. Typed'
    BY <1>1, <1>2, <1>5, <2>1 DEF IInv, Typed
  <2>3. OpenIsHeld'
    BY <1>2 DEF IInv, OpenIsHeld
  <2>4. EntryIsOwn'
    BY <1>2, <1>3, <1>5, <2>1 DEF IInv, Typed, EntryIsOwn
  <2>5. ASSUME NEW q \in Requests, slot'[q] # None
        PROVE  entry'[slot'[q]] # NoStore /\ store'[q] = entry'[slot'[q]]
    <3>1. CASE q = r
      BY <1>1, <1>5, <2>1, <3>1 DEF IInv, Typed, NoStore
    <3>2. CASE q # r
      <4>1. slot'[q] = slot[q] /\ store'[q] = store[q] /\ slot[q] \in Sessions
        BY <1>1, <2>5, <3>2 DEF IInv, Typed
      <4>2. slot[q] # s
        BY <1>5, <2>5, <4>1 DEF IInv, CallHasEntry
      <4>. QED
        BY <1>5, <2>5, <4>1, <4>2 DEF IInv, Typed, CallHasEntry
    <3>. QED
      BY <3>1, <3>2
  <2>. QED
    BY <2>2, <2>3, <2>4, <2>5 DEF IInv, CallHasEntry
<1>. QED
  BY <1>4, <1>5 DEF CallTool, ForSession

\* A session's object goes, and its entry with it.
LEMMA CollectInv ==
    ASSUME IInv, NEW s \in Sessions, Collect(s)
    PROVE  IInv'
<1>1. /\ holds' = [holds EXCEPT ![s] = 0]
      /\ entry' = [entry EXCEPT ![s] = NoStore]
      /\ s \notin open
      /\ UNCHANGED <<slot, store, open, opened, owner>>
  BY DEF Collect, calls
<1>2. \A r \in Requests : slot[r] # s
  BY DEF Collect, CallsOf
<1>3. Typed' /\ OpenIsHeld'
  BY <1>1 DEF IInv, Typed, OpenIsHeld, NoStore
<1>4. EntryIsOwn'
  BY <1>1 DEF IInv, Typed, EntryIsOwn
<1>5. CallHasEntry'
  BY <1>1, <1>2 DEF IInv, Typed, CallHasEntry
<1>. QED
  BY <1>3, <1>4, <1>5 DEF IInv

\* The steps of a request that are not about its store.
LEMMA RequestInv ==
    ASSUME IInv, NEW r \in Requests, RequestStep(r)
    PROVE  IInv'
<1>1. CASE EnterGate(r) \/ Disconnected(r) \/ StreamEnds(r) \/ Handle(r)
  BY <1>1, FrameInv DEF EnterGate, Disconnected, StreamEnds, Handle, calls, sessions, stores
<1>2. CASE CallAction(r) \/ StartThread(r)
  BY <1>2, FrameInv DEF CallAction, StartThread, calls, sessions, stores
<1>3. CASE FinishThread(r)
  <2>1. /\ slot' = [q \in Requests |-> IF q \in {r} THEN None ELSE slot[q]]
        /\ store' = [q \in Requests |-> IF q \in {r} THEN NoStore ELSE store[q]]
    BY <1>3 DEF FinishThread, IInv, Typed
  <2>2. UNCHANGED <<open, holds, entry, opened, owner>>
    BY <1>3 DEF FinishThread, sessions, stores
  <2>. QED
    BY <2>1, <2>2, EndInv
<1>4. ASSUME NEW s \in Sessions, OpenSession(r, s) \/ CallTool(r, s) \/ DeleteSession(r, s)
      PROVE  IInv'
  <2>1. CASE DeleteSession(r, s)
    <3> DEFINE D == CallsOf(s)
    <3>1. /\ slot' = [q \in Requests |-> IF q \in D THEN None ELSE slot[q]]
          /\ store' = [q \in Requests |-> IF q \in D THEN NoStore ELSE store[q]]
      BY <2>1 DEF DeleteSession, Cancel
    <3>2. open' \subseteq open /\ UNCHANGED <<holds, entry, opened, owner>>
      BY <2>1 DEF DeleteSession, stores
    <3>. QED
      BY <3>1, <3>2, EndInv
  <2>. QED
    BY <1>4, <2>1, OpenInv, CallInv
<1>5. ASSUME NEW q \in Requests, CancelCall(r, q)
      PROVE  IInv'
  <2>1. /\ slot' = [p \in Requests |-> IF p \in {q} THEN None ELSE slot[p]]
        /\ store' = [p \in Requests |-> IF p \in {q} THEN NoStore ELSE store[p]]
    BY <1>5 DEF CancelCall, Cancel
  <2>2. UNCHANGED <<open, holds, entry, opened, owner>>
    BY <1>5 DEF CancelCall, sessions, stores
  <2>. QED
    BY <2>1, <2>2, EndInv
<1>. QED
  BY <1>1, <1>2, <1>3, <1>4, <1>5 DEF RequestStep, Served, RunsTool

\* Every step keeps the stores apart.
LEMMA NextInv == IInv /\ [Next]_vars => IInv'
<1> SUFFICES ASSUME IInv, [Next]_vars PROVE IInv'
  OBVIOUS
<1>1. CASE UNCHANGED vars
  BY <1>1, FrameInv DEF vars, calls, sessions, stores
<1>2. ASSUME NEW r \in Requests, NEW k \in Kinds, Arrive(r, k)
      PROVE  IInv'
  BY <1>2, FrameInv DEF Arrive, calls, sessions, stores
<1>3. ASSUME NEW s \in Sessions, SessionStep(s)
      PROVE  IInv'
  <2>1. CASE SessionExpires(s)
    <3>1. open' \subseteq open /\ UNCHANGED <<slot, store, holds, entry, opened, owner>>
      BY <2>1 DEF SessionExpires, calls, stores
    <3>. QED
      BY <3>1 DEF IInv, Typed, OpenIsHeld, EntryIsOwn, CallHasEntry
  <2>2. CASE DetachedEnds(s)
    BY <2>2, FrameInv DEF DetachedEnds, calls, sessions, stores
  <2>. QED
    BY <1>3, <2>1, <2>2, CollectInv DEF SessionStep
<1>. QED
  BY <1>1, <1>2, <1>3, RequestInv DEF Next

\* StoresIsolated: a tool call works with the store of its own conversation and
\* no other, for any number of requests and sessions, and however often the
\* place of a session's object is used again.
THEOREM StoresAreIsolated == Spec => []StoresIsolated
<1>1. IInv => StoresIsolated
  BY DEF IInv, Typed, EntryIsOwn, CallHasEntry, StoresIsolated
<1>. QED
  BY <1>1, InitInv, NextInv, PTL DEF Spec

----------------------------------------------------------------------------
(***************************************************************************)
(* The threads: what is taken from a pool is what runs, detached or not.   *)
(***************************************************************************)
CallsTyped ==
    /\ pc \in [Requests -> Points]
    /\ kind \in [Requests -> Kinds]
    /\ gateQueue \in Seq(Requests)
    /\ inside \subseteq Requests
    /\ workQueue \in [Pools -> Seq(Requests)]
    /\ taken \in [Pools -> Nat]
    /\ detached \in [Sessions -> Nat]

\* A call that is queued or runs is one of a pool; one with a session, of the
\* tools' pool.
KindInv ==
    \A r \in Requests :
        /\ pc[r] \in {"queued", "running"} => kind[r] \in Pools
        /\ slot[r] # None => pc[r] \in {"queued", "running"} /\ kind[r] = "tool"

\* Whoever waits is in the queue, once, and nobody else is.
Waiting(p) == {r \in Requests : pc[r] = "queued" /\ kind[r] = p}

QueueInv ==
    /\ Distinct(gateQueue) /\ Keys(gateQueue) = {r \in Requests : pc[r] = "gate"}
    /\ \A p \in Pools : Distinct(workQueue[p]) /\ Keys(workQueue[p]) = Waiting(p)

\* Tokens of the gate belong to requests that are inside.
GateInv ==
    /\ inside = {r \in Requests : pc[r] \notin {"idle", "gate"}}
    /\ Cardinality(inside) <= GateLimit

TokenInv ==
    /\ IsFiniteSet(Detached)
    /\ taken["tool"] = Cardinality(Running("tool")) + Cardinality(Detached)
    /\ taken["action"] = Cardinality(Running("action"))
    /\ \A p \in Pools : taken[p] <= Limit(p)

PlaceInv == CallsTyped /\ KindInv /\ QueueInv /\ GateInv

WInv == IInv /\ PlaceInv /\ TokenInv

\* A request joins a queue.
LEMMA QueueJoin ==
    ASSUME NEW S, NEW q \in Seq(S), NEW x \in S, Distinct(q), x \notin Keys(q)
    PROVE  /\ Append(q, x) \in Seq(S) /\ Distinct(Append(q, x))
           /\ Keys(Append(q, x)) = Keys(q) \cup {x}
  BY AppendNewProperties DEF IsAppended

\* The request in front leaves the queue, and the others stay.
LEMMA QueueLeave ==
    ASSUME NEW S, NEW q \in Seq(S), Distinct(q), NEW x \in Keys(q), Head(q) = x
    PROVE  /\ Tail(q) \in Seq(S) /\ Distinct(Tail(q))
           /\ Keys(Tail(q)) = Keys(q) \ {x}
<1> DEFINE n == Len(q)
<1>1. n \in Nat /\ DOMAIN q = 1..n /\ n >= 1 /\ q[1] = x /\ q # <<>>
  BY DEF Keys
<1>2. Tail(q) = WithoutOldest(q, 1)
  BY <1>1, TailIsSubSeq DEF WithoutOldest
<1>3. IsRest(Tail(q), q, 1, S)
  <2>1. 1 \in 0..Len(q)
    BY <1>1
  <2>. QED
    BY <1>2, <2>1, WithoutOldestProperties
<1>4. Keys(Tail(q)) = {q[i] : i \in 2..n}
  BY <1>3 DEF IsRest
<1>5. \A i \in 1..n : i \in 2..n <=> q[i] # x
  BY <1>1 DEF Distinct
<1>6. Keys(q) = {q[i] : i \in 1..n}
  BY <1>1 DEF Keys
<1> HIDE DEF n
<1>7. Keys(Tail(q)) = Keys(q) \ {x}
  BY <1>1, <1>4, <1>5, <1>6
<1>. QED
  BY <1>3, <1>7 DEF IsRest

\* n more threads of session s run on.
LEMMA DetachedGrows ==
    ASSUME detached \in [Sessions -> Nat], IsFiniteSet(Detached),
           NEW s \in Sessions, NEW n \in Nat, detached' = [detached EXCEPT ![s] = @ + n]
    PROVE  IsFiniteSet(Detached') /\ Cardinality(Detached') = Cardinality(Detached) + n
<1> DEFINE d == detached[s]
           I == d + 1..d + n
           New == {s} \X I
<1>1. d \in Nat /\ d + 1 \in Int /\ d + n \in Int
  OBVIOUS
<1>2. IsFiniteSet(I) /\ Cardinality(I) = n
  <2> DEFINE a == d + 1
             b == d + n
  <2>1. a \in Int /\ b \in Int /\ (IF a > b THEN 0 ELSE b - a + 1) = n
    BY <1>1
  <2>2. I = a..b
    OBVIOUS
  <2> HIDE DEF a, b, I
  <2>. QED
    BY <2>1, <2>2, FS_Interval
<1> HIDE DEF I
<1>3. IsFiniteSet(New) /\ Cardinality(New) = n
  <2> DEFINE f == [i \in I |-> <<s, i>>]
  <2>1. f \in Bijection(I, New)
    <3>1. f \in [I -> New] /\ \A i, j \in I : f[i] = f[j] => i = j
      OBVIOUS
    <3>2. ASSUME NEW y \in New PROVE \E i \in I : f[i] = y
      <4>1. PICK i \in I : y = <<s, i>>
        OBVIOUS
      <4>. QED
        BY <4>1
    <3> HIDE DEF f, New
    <3>. QED
      BY <3>1, <3>2 DEF Bijection, Injection, Surjection, IsInjective
  <2>2. ExistsBijection(I, New)
    BY <2>1 DEF ExistsBijection
  <2>. QED
    BY <1>2, <2>2, FS_Bijection
<1>4. Detached' = Detached \cup New
  <2>1. Detached' = UNION {{k} \X (1..detached'[k]) : k \in Sessions}
    BY DEF Detached
  <2>2. 1..d + n = (1..d) \cup I
    BY <1>1 DEF I
  <2>3. \A k \in Sessions : detached'[k] = IF k = s THEN d + n ELSE detached[k]
    OBVIOUS
  <2> HIDE DEF d
  <2>. QED
    BY <2>1, <2>2, <2>3 DEF Detached, d
<1>5. Detached \cap New = {}
  BY <1>1 DEF Detached, I
<1>6. /\ IsFiniteSet(Detached')
      /\ Cardinality(Detached') = Cardinality(Detached) + Cardinality(New) - Cardinality(Detached \cap New)
  BY <1>3, <1>4, FS_Union
<1>7. Cardinality(Detached \cap New) = 0
  BY <1>5, FS_EmptySet
<1> DEFINE a == Cardinality(Detached)
           b == Cardinality(Detached \cap New)
           c == Cardinality(New)
<1>8. a \in Nat
  BY FS_CardinalityType
<1>9. Cardinality(Detached') = a + c - b /\ b = 0 /\ c = n
  BY <1>3, <1>6, <1>7
<1> HIDE DEF a, b, c
<1>10. Cardinality(Detached') = a + n
  BY <1>8, <1>9
<1>. QED
  BY <1>6, <1>10 DEF a

\* A detached thread of session s ends.
LEMMA DetachedShrinks ==
    ASSUME detached \in [Sessions -> Nat], IsFiniteSet(Detached),
           NEW s \in Sessions, detached[s] > 0, detached' = [detached EXCEPT ![s] = @ - 1]
    PROVE  IsFiniteSet(Detached') /\ Cardinality(Detached') = Cardinality(Detached) - 1
<1> DEFINE d == detached[s]
           x == <<s, d>>
<1>1. d \in Nat /\ d > 0
  OBVIOUS
<1>2. x \in Detached
  BY <1>1 DEF Detached
<1>3. Detached' = Detached \ {x}
  <2>1. Detached' = UNION {{k} \X (1..detached'[k]) : k \in Sessions}
    BY DEF Detached
  <2>2. 1..d - 1 = (1..d) \ {d}
    BY <1>1
  <2>3. \A k \in Sessions : detached'[k] = IF k = s THEN d - 1 ELSE detached[k]
    OBVIOUS
  <2> HIDE DEF d
  <2>. QED
    BY <2>1, <2>2, <2>3 DEF Detached, d
<1>. QED
  BY <1>2, <1>3, FS_RemoveElement

\* The types of what the steps of requests read.
LEMMA CallTypes ==
    ASSUME WInv
    PROVE  /\ pc \in [Requests -> Points] /\ kind \in [Requests -> Kinds]
           /\ gateQueue \in Seq(Requests) /\ inside \subseteq Requests
           /\ workQueue \in [Pools -> Seq(Requests)]
           /\ taken \in [Pools -> Nat] /\ detached \in [Sessions -> Nat]
           /\ slot \in [Requests -> Sessions \cup {None}]
           /\ Pools = {"tool", "action"} /\ "tool" \in Pools /\ "action" \in Pools
  BY DEF WInv, PlaceInv, CallsTyped, IInv, Typed, Pools

\* What is known of the queues and of who is inside.
LEMMA Queues ==
    ASSUME WInv
    PROVE  /\ Distinct(gateQueue) /\ Keys(gateQueue) = {r \in Requests : pc[r] = "gate"}
           /\ \A p \in Pools : Distinct(workQueue[p]) /\ Keys(workQueue[p]) = Waiting(p)
           /\ inside = {r \in Requests : pc[r] \notin {"idle", "gate"}}
           /\ Cardinality(inside) <= GateLimit /\ IsFiniteSet(inside)
           /\ Cardinality(inside) \in Nat
<1>1. GateInv /\ QueueInv
  BY DEF WInv, PlaceInv
<1>2. IsFiniteSet(inside) /\ Cardinality(inside) \in Nat
  BY <1>1, FS_Subset, FS_CardinalityType, RequestsAssumption DEF GateInv
<1>. QED
  BY <1>1, <1>2 DEF GateInv, QueueInv

\* Nobody comes in or goes out.
LEMMA SameGate ==
    ASSUME WInv, inside' = inside,
           \A r \in Requests : pc'[r] \in {"idle", "gate"} <=> pc[r] \in {"idle", "gate"}
    PROVE  GateInv'
  BY DEF WInv, PlaceInv, GateInv

\* The requests of D go, and nobody else.
LEMMA LeftGate ==
    ASSUME WInv, NEW D, inside' = inside \ D,
           \A r \in Requests : r \in D => pc'[r] = "idle",
           \A r \in Requests : r \notin D => pc'[r] = pc[r]
    PROVE  GateInv'
<1>1. inside' \subseteq inside
  OBVIOUS
<1>2. Cardinality(inside') <= GateLimit
  <2>1. Cardinality(inside') <= Cardinality(inside) /\ IsFiniteSet(inside')
    BY <1>1, Queues, FS_Subset
  <2>2. Cardinality(inside') \in Nat /\ GateLimit \in Nat
    BY <2>1, FS_CardinalityType, LimitsAssumption
  <2>. QED
    BY <2>1, <2>2, Queues
<1>. QED
  BY <1>2, Queues DEF GateInv

\* Numbers of threads are numbers.
LEMMA RunningCounted ==
    ASSUME WInv, NEW p \in Pools
    PROVE  IsFiniteSet(Running(p)) /\ Cardinality(Running(p)) \in Nat /\ Cardinality(Detached) \in Nat
<1>1. Running(p) \in SUBSET Requests
  BY DEF Running
<1>2. IsFiniteSet(Running(p))
  BY <1>1, FS_Subset
<1>. QED
  BY <1>2, FS_CardinalityType DEF WInv, TokenInv

\* A step that neither starts a thread nor ends one.
LEMMA SameThreads ==
    ASSUME WInv, taken' = taken, detached' = detached,
           \A r \in Requests : pc[r] = "running" \/ pc'[r] = "running" =>
                                 pc'[r] = pc[r] /\ kind'[r] = kind[r]
    PROVE  TokenInv'
<1>1. \A p \in Pools : Running(p)' = Running(p)
  BY DEF Running
<1>2. Detached' = Detached
  BY DEF Detached
<1>3. Running("tool")' = Running("tool") /\ Running("action")' = Running("action")
  BY <1>1 DEF Pools
<1>. QED
  BY <1>2, <1>3 DEF WInv, TokenInv

\* Where requests are, in steps that use no queue.
LEMMA LeaveStep ==
    ASSUME WInv, NEW D, Leave(D), gateQueue' = gateQueue, workQueue' = workQueue,
           taken' = taken, detached' = detached,
           \A r \in Requests : r \in D => pc[r] \in {"body", "stream"},
           slot' = slot
    PROVE  PlaceInv' /\ TokenInv'
<1> USE CallTypes
<1>1. /\ \A r \in Requests : r \in D => pc'[r] = "idle" /\ kind'[r] = "other"
      /\ \A r \in Requests : r \notin D => pc'[r] = pc[r] /\ kind'[r] = kind[r]
      /\ pc' \in [Requests -> Points] /\ kind' \in [Requests -> Kinds] /\ inside' \subseteq Requests
  BY DEF Leave, Points, Kinds
<1>2. CallsTyped'
  BY <1>1 DEF CallsTyped
<1>3. KindInv'
  BY <1>1 DEF KindInv, WInv, PlaceInv
<1>4. QueueInv'
  <2>1. {r \in Requests : pc'[r] = "gate"} = {r \in Requests : pc[r] = "gate"}
    BY <1>1
  <2>2. \A p \in Pools : Waiting(p)' = Waiting(p)
    BY <1>1 DEF Waiting
  <2>. QED
    BY <2>1, <2>2, Queues DEF QueueInv
<1>5. TokenInv'
  BY <1>1, SameThreads
<1>6. GateInv'
  <2>1. inside' = inside \ D
    BY DEF Leave
  <2>. QED
    BY <1>1, <2>1, LeftGate
<1>. QED
  BY <1>2, <1>3, <1>4, <1>5, <1>6 DEF PlaceInv

\* A request joins the gate's queue, or enters.
LEMMA GateStep ==
    ASSUME WInv, NEW r \in Requests, EnterGate(r) \/ \E k \in Kinds : Arrive(r, k)
    PROVE  PlaceInv' /\ TokenInv'
<1> USE CallTypes DEF threads, calls
<1>1. /\ workQueue' = workQueue /\ taken' = taken /\ detached' = detached /\ slot' = slot
      /\ \A q \in Requests : q # r => pc'[q] = pc[q] /\ kind'[q] = kind[q]
      /\ pc[r] \in {"idle", "gate"} /\ pc'[r] \in {"gate", "stream", "body"}
      /\ pc' \in [Requests -> Points] /\ kind' \in [Requests -> Kinds] /\ inside' \subseteq Requests
  <2>1. ASSUME EnterGate(r)
        PROVE  /\ workQueue' = workQueue /\ taken' = taken /\ detached' = detached /\ slot' = slot
               /\ pc' \in {[pc EXCEPT ![r] = "stream"], [pc EXCEPT ![r] = "body"]}
               /\ kind' = kind /\ inside' = inside \cup {r} /\ pc[r] = "gate"
    BY <2>1 DEF EnterGate, Goto
  <2>2. ASSUME NEW k \in Kinds, Arrive(r, k)
        PROVE  /\ workQueue' = workQueue /\ taken' = taken /\ detached' = detached /\ slot' = slot
               /\ pc' = [pc EXCEPT ![r] = "gate"] /\ kind' = [kind EXCEPT ![r] = k]
               /\ inside' = inside /\ pc[r] = "idle"
    BY <2>2 DEF Arrive, Goto
  <2>3. CASE EnterGate(r)
    BY <2>1, <2>3 DEF Points
  <2>4. ASSUME NEW k \in Kinds, Arrive(r, k)
        PROVE  kind' \in [Requests -> Kinds] /\ \A q \in Requests : q # r => kind'[q] = kind[q]
    BY <2>2, <2>4
  <2>5. CASE \E k \in Kinds : Arrive(r, k)
    <3>1. /\ workQueue' = workQueue /\ taken' = taken /\ detached' = detached /\ slot' = slot
          /\ pc' = [pc EXCEPT ![r] = "gate"] /\ inside' = inside /\ pc[r] = "idle"
      BY <2>2, <2>5
    <3>2. kind' \in [Requests -> Kinds] /\ \A q \in Requests : q # r => kind'[q] = kind[q]
      BY <2>4, <2>5
    <3>. QED
      BY <3>1, <3>2 DEF Points
  <2>. QED
    BY <2>3, <2>5
<1>2. /\ gateQueue' \in Seq(Requests) /\ Distinct(gateQueue')
      /\ Keys(gateQueue') = {q \in Requests : pc'[q] = "gate"}
      /\ GateInv'
  <2>0. GateLimit \in Nat /\ r \in Requests
    BY LimitsAssumption
  <2>1. CASE EnterGate(r)
    <3>1. /\ r \in Keys(gateQueue) /\ Head(gateQueue) = r /\ gateQueue' = Tail(gateQueue)
          /\ Cardinality(inside) < GateLimit /\ inside' = inside \cup {r} /\ pc[r] = "gate"
      BY <2>1, Queues DEF EnterGate
    <3>2. /\ Tail(gateQueue) \in Seq(Requests) /\ Distinct(Tail(gateQueue))
          /\ Keys(Tail(gateQueue)) = Keys(gateQueue) \ {r}
      BY <3>1, Queues, QueueLeave
    <3>3. pc'[r] \notin {"idle", "gate"}
      BY <2>1 DEF EnterGate, Goto
    <3>4. Cardinality(inside') = Cardinality(inside) + 1 /\ IsFiniteSet(inside')
      <4>1. r \notin inside
        BY <3>1, Queues
      <4>. QED
        BY <3>1, <4>1, Queues, FS_AddElement
    <3>5. Cardinality(inside') <= GateLimit
      BY <2>0, <3>1, <3>4, Queues
    <3>6. inside' = {q \in Requests : pc'[q] \notin {"idle", "gate"}}
      BY <1>1, <3>1, <3>3, Queues
    <3>7. Keys(gateQueue) \ {r} = {q \in Requests : pc'[q] = "gate"}
      BY <1>1, <3>3, Queues
    <3>. QED
      BY <3>1, <3>2, <3>5, <3>6, <3>7 DEF GateInv
  <2>2. CASE \E k \in Kinds : Arrive(r, k)
    <3>1. gateQueue' = Append(gateQueue, r) /\ inside' = inside /\ pc[r] = "idle" /\ pc'[r] = "gate"
      BY <2>2 DEF Arrive, Goto
    <3>2. r \notin Keys(gateQueue)
      BY <3>1, Queues
    <3>3. /\ gateQueue' \in Seq(Requests) /\ Distinct(gateQueue')
          /\ Keys(gateQueue') = Keys(gateQueue) \cup {r}
      BY <3>1, <3>2, Queues, QueueJoin
    <3>4. Keys(gateQueue) \cup {r} = {q \in Requests : pc'[q] = "gate"}
      BY <1>1, <3>1, Queues
    <3>5. GateInv'
      BY <1>1, <3>1, SameGate
    <3>. QED
      BY <3>3, <3>4, <3>5
  <2>. QED
    BY <2>1, <2>2
<1>3. CallsTyped'
  BY <1>1, <1>2 DEF CallsTyped
<1>4. KindInv'
  BY <1>1 DEF KindInv, WInv, PlaceInv
<1>5. QueueInv'
  <2>1. \A p \in Pools : Waiting(p)' = Waiting(p)
    BY <1>1 DEF Waiting
  <2>. QED
    BY <1>1, <1>2, <2>1, Queues DEF QueueInv
<1>6. TokenInv'
  BY <1>1, SameThreads
<1>. QED
  BY <1>2, <1>3, <1>4, <1>5, <1>6 DEF PlaceInv

\* A call joins the queue of its pool.
LEMMA EnqueueStep ==
    ASSUME WInv, NEW r \in Requests, CallAction(r) \/ \E s \in Sessions : CallTool(r, s)
    PROVE  PlaceInv' /\ TokenInv'
<1> USE CallTypes DEF calls
<1>1. /\ gateQueue' = gateQueue /\ inside' = inside /\ kind' = kind
      /\ taken' = taken /\ detached' = detached
      /\ pc' = [pc EXCEPT ![r] = "queued"] /\ pc[r] = "body" /\ kind[r] \in Pools
      /\ workQueue' = [workQueue EXCEPT ![kind[r]] = Append(@, r)]
      /\ \A q \in Requests : q # r => slot'[q] = slot[q]
      /\ slot'[r] # None => slot[r] # None \/ kind[r] = "tool"
  BY DEF CallAction, CallTool, Goto
<1> DEFINE p == kind[r]
<1>2. /\ workQueue' \in [Pools -> Seq(Requests)]
      /\ Distinct(workQueue'[p]) /\ Keys(workQueue'[p]) = Keys(workQueue[p]) \cup {r}
      /\ \A o \in Pools : o # p => workQueue'[o] = workQueue[o]
  <2>1. /\ p \in Pools /\ workQueue[p] \in Seq(Requests)
        /\ Distinct(workQueue[p]) /\ r \notin Keys(workQueue[p])
    BY <1>1, Queues DEF Waiting
  <2>2. /\ Append(workQueue[p], r) \in Seq(Requests) /\ Distinct(Append(workQueue[p], r))
        /\ Keys(Append(workQueue[p], r)) = Keys(workQueue[p]) \cup {r}
    BY <2>1, QueueJoin
  <2>. QED
    BY <1>1, <2>1, <2>2
<1> HIDE DEF p
<1>3. CallsTyped'
  BY <1>1, <1>2 DEF CallsTyped, Points
<1>4. KindInv'
  BY <1>1 DEF KindInv, WInv, PlaceInv
<1>5. QueueInv'
  <2>1. {q \in Requests : pc'[q] = "gate"} = {q \in Requests : pc[q] = "gate"}
    BY <1>1
  <2>2. \A o \in Pools : o = p => Waiting(o)' = Waiting(o) \cup {r}
    BY <1>1 DEF Waiting, p
  <2>3. \A o \in Pools : o # p => Waiting(o)' = Waiting(o)
    BY <1>1 DEF Waiting, p
  <2>4. ASSUME NEW o \in Pools
        PROVE  Distinct(workQueue'[o]) /\ Keys(workQueue'[o]) = Waiting(o)'
    <3>1. CASE o = p
      <4>1. Keys(workQueue[o]) = Waiting(o)
        BY Queues
      <4>2. /\ Distinct(workQueue'[o])
            /\ Keys(workQueue'[o]) = Keys(workQueue[o]) \cup {r}
        BY <1>2, <3>1
      <4>. QED
        BY <2>2, <3>1, <4>1, <4>2
    <3>2. CASE o # p
      <4>1. workQueue'[o] = workQueue[o] /\ Waiting(o)' = Waiting(o)
        BY <1>2, <2>3, <3>2
      <4>. QED
        BY <4>1, Queues
    <3>. QED
      BY <3>1, <3>2
  <2>. QED
    BY <1>1, <2>1, <2>4, Queues DEF QueueInv
<1>6. TokenInv'
  BY <1>1, SameThreads
<1>7. GateInv'
  BY <1>1, SameGate
<1>. QED
  BY <1>3, <1>4, <1>5, <1>6, <1>7 DEF PlaceInv

\* A thread takes the call in front of its pool's queue, and a token.
LEMMA StartStep ==
    ASSUME WInv, NEW r \in Requests, StartThread(r)
    PROVE  PlaceInv' /\ TokenInv'
<1> USE CallTypes DEF calls
<1> DEFINE p == kind[r]
<1>1. /\ pc[r] = "queued" /\ pc' = [pc EXCEPT ![r] = "running"]
      /\ Head(workQueue[p]) = r /\ taken[p] < Limit(p)
      /\ workQueue' = [workQueue EXCEPT ![p] = Tail(@)]
      /\ taken' = [taken EXCEPT ![p] = @ + 1]
      /\ kind' = kind /\ gateQueue' = gateQueue /\ inside' = inside /\ detached' = detached
      /\ slot' = slot
  BY DEF StartThread, Goto
<1>2. p \in Pools /\ r \in Keys(workQueue[p])
  BY <1>1, Queues DEF WInv, PlaceInv, KindInv, Waiting
<1>3. /\ workQueue' \in [Pools -> Seq(Requests)]
      /\ Distinct(workQueue'[p]) /\ Keys(workQueue'[p]) = Keys(workQueue[p]) \ {r}
      /\ \A o \in Pools : o # p => workQueue'[o] = workQueue[o]
  <2>1. workQueue[p] \in Seq(Requests) /\ Distinct(workQueue[p])
    BY <1>2, Queues
  <2>2. /\ Tail(workQueue[p]) \in Seq(Requests) /\ Distinct(Tail(workQueue[p]))
        /\ Keys(Tail(workQueue[p])) = Keys(workQueue[p]) \ {r}
    BY <1>1, <1>2, <2>1, QueueLeave
  <2>. QED
    BY <1>1, <1>2, <2>1, <2>2
<1>4. CallsTyped'
  BY <1>1, <1>2, <1>3 DEF CallsTyped, Points
<1>5. KindInv'
  BY <1>1, <1>2 DEF KindInv, WInv, PlaceInv
<1>6. QueueInv'
  <2>1. {q \in Requests : pc'[q] = "gate"} = {q \in Requests : pc[q] = "gate"}
    BY <1>1
  <2>2. \A o \in Pools : o = p => Waiting(o)' = Waiting(o) \ {r}
    BY <1>1 DEF Waiting
  <2>3. \A o \in Pools : o # p => Waiting(o)' = Waiting(o)
    BY <1>1 DEF Waiting
  <2> HIDE DEF p
  <2>4. ASSUME NEW o \in Pools
        PROVE  Distinct(workQueue'[o]) /\ Keys(workQueue'[o]) = Waiting(o)'
    <3>1. CASE o = p
      <4>1. Keys(workQueue[o]) = Waiting(o)
        BY Queues
      <4>2. /\ Distinct(workQueue'[o])
            /\ Keys(workQueue'[o]) = Keys(workQueue[o]) \ {r}
        BY <1>3, <3>1
      <4>. QED
        BY <2>2, <3>1, <4>1, <4>2
    <3>2. CASE o # p
      <4>1. workQueue'[o] = workQueue[o] /\ Waiting(o)' = Waiting(o)
        BY <1>3, <2>3, <3>2
      <4>. QED
        BY <4>1, Queues
    <3>. QED
      BY <3>1, <3>2
  <2>. QED
    BY <1>1, <2>1, <2>4, Queues DEF QueueInv
<1>10. GateInv'
  BY <1>1, SameGate
<1> DEFINE n(o) == Cardinality(Running(o))
           m == Cardinality(Detached)
<1>7. /\ n(p)' = n(p) + 1
      /\ \A o \in Pools : o # p => n(o)' = n(o)
  <2>1. Running(p)' = Running(p) \cup {r} /\ r \notin Running(p)
    BY <1>1 DEF Running
  <2>2. \A o \in Pools : o # p => Running(o)' = Running(o)
    BY <1>1 DEF Running
  <2>. QED
    BY <1>2, <2>1, <2>2, RunningCounted, FS_AddElement
<1>8. Detached' = Detached
  BY <1>1 DEF Detached
<1>9. TokenInv'
  <2>1. /\ IsFiniteSet(Detached) /\ taken["tool"] = n("tool") + m /\ taken["action"] = n("action")
        /\ \A o \in Pools : taken[o] <= Limit(o)
    BY DEF WInv, TokenInv
  <2>2. n("tool") \in Nat /\ n("action") \in Nat /\ m \in Nat /\ ToolLimit \in Nat /\ ActionLimit \in Nat
    BY RunningCounted, LimitsAssumption
  <2>3. m' = m
    BY <1>8
  <2> HIDE DEF m, n
  <2>4. taken'["tool"] = n("tool")' + m /\ taken'["action"] = n("action")'
    BY <1>1, <1>2, <1>7, <2>1, <2>2
  <2>5. \A o \in Pools : taken'[o] <= Limit(o)
    BY <1>1, <1>2, <2>1, <2>2 DEF Limit
  <2>. QED
    BY <1>8, <2>1, <2>3, <2>4, <2>5 DEF TokenInv, m, n
<1>. QED
  BY <1>4, <1>5, <1>6, <1>9, <1>10 DEF PlaceInv

\* The thread's tool returns, and its token is given back.
LEMMA FinishStep ==
    ASSUME WInv, NEW r \in Requests, FinishThread(r)
    PROVE  PlaceInv' /\ TokenInv'
<1> USE CallTypes
<1>1. PICK p \in Pools : p = kind[r]
  BY DEF FinishThread, WInv, PlaceInv, KindInv
<1>2. /\ pc[r] = "running" /\ pc'[r] = "idle" /\ slot'[r] = None
      /\ \A q \in Requests : q # r => pc'[q] = pc[q] /\ kind'[q] = kind[q] /\ slot'[q] = slot[q]
      /\ pc' \in [Requests -> Points] /\ kind' \in [Requests -> Kinds] /\ inside' \subseteq Requests
      /\ taken' = [taken EXCEPT ![p] = @ - 1]
      /\ workQueue' = workQueue /\ gateQueue' = gateQueue /\ detached' = detached
  BY <1>1 DEF FinishThread, Leave, Points, Kinds
<1> DEFINE n(o) == Cardinality(Running(o))
           m == Cardinality(Detached)
<1>3. /\ n(p)' = n(p) - 1 /\ n(p) # 0
      /\ \A o \in Pools : o # p => n(o)' = n(o)
  <2>1. Running(p)' = Running(p) \ {r} /\ r \in Running(p)
    BY <1>1, <1>2 DEF Running
  <2>2. \A o \in Pools : o # p => Running(o)' = Running(o)
    BY <1>1, <1>2 DEF Running
  <2>. QED
    BY <1>2, <2>1, <2>2, RunningCounted, FS_RemoveElement, FS_EmptySet
<1>4. Detached' = Detached
  BY <1>2 DEF Detached
<1>5. taken' \in [Pools -> Nat] /\ TokenInv'
  <2>1. /\ IsFiniteSet(Detached) /\ taken["tool"] = n("tool") + m /\ taken["action"] = n("action")
        /\ \A o \in Pools : taken[o] <= Limit(o)
    BY DEF WInv, TokenInv
  <2>2. n("tool") \in Nat /\ n("action") \in Nat /\ m \in Nat /\ ToolLimit \in Nat /\ ActionLimit \in Nat
    BY RunningCounted, LimitsAssumption
  <2>3. m' = m
    BY <1>4
  <2> HIDE DEF m, n
  <2>4. taken'["tool"] = n("tool")' + m /\ taken'["action"] = n("action")'
    BY <1>1, <1>2, <1>3, <2>1, <2>2
  <2>5. \A o \in Pools : taken'[o] <= Limit(o)
    BY <1>1, <1>2, <2>1, <2>2 DEF Limit
  <2>6. taken[p] # 0 /\ taken[p] \in Nat
    <3>1. CASE p = "tool"
      BY <1>3, <2>1, <2>2, <3>1
    <3>2. CASE p = "action"
      BY <1>3, <2>1, <2>2, <3>2
    <3>. QED
      BY <3>1, <3>2
  <2>. QED
    BY <1>1, <1>2, <1>4, <2>1, <2>3, <2>4, <2>5, <2>6 DEF TokenInv, m, n
<1>6. CallsTyped'
  BY <1>2, <1>5 DEF CallsTyped
<1>7. KindInv'
  BY <1>2 DEF KindInv, WInv, PlaceInv
<1>8. QueueInv'
  <2>1. {q \in Requests : pc'[q] = "gate"} = {q \in Requests : pc[q] = "gate"}
    BY <1>2
  <2>2. \A o \in Pools : Waiting(o)' = Waiting(o)
    BY <1>2 DEF Waiting
  <2>. QED
    BY <1>2, <2>1, <2>2, Queues DEF QueueInv
<1>9. GateInv'
  <2>1. inside' = inside \ {r}
    BY DEF FinishThread, Leave
  <2>2. \A q \in Requests : q \in {r} => pc'[q] = "idle"
    BY <1>2
  <2>3. \A q \in Requests : q \notin {r} => pc'[q] = pc[q]
    BY <1>2
  <2>. QED
    BY <2>1, <2>2, <2>3, LeftGate
<1>. QED
  BY <1>5, <1>6, <1>7, <1>8, <1>9 DEF PlaceInv

\* The calls of D, all of session s, are cancelled for the request r.
LEMMA CancelStep ==
    ASSUME WInv, NEW D \in SUBSET Requests, NEW s \in Sessions, NEW r \in Requests,
           pc[r] \in {"body", "stream"}, \A q \in D : slot[q] = s, Cancel(D, s, r), gateQueue' = gateQueue
    PROVE  PlaceInv' /\ TokenInv'
<1> USE CallTypes
<1> DEFINE R == {q \in D : pc[q] = "running"}
           k == Cardinality(R)
<1>1. /\ detached' = [detached EXCEPT ![s] = @ + k] /\ taken' = taken
      /\ workQueue' = [workQueue EXCEPT !["tool"] = Without(@, D)]
      /\ Leave(D \cup {r})
      /\ slot' = [q \in Requests |-> IF q \in D THEN None ELSE slot[q]]
  BY DEF Cancel, LeftRunning
<1>2. /\ \A q \in D : pc'[q] = "idle" /\ slot'[q] = None
      /\ pc'[r] = "idle"
      /\ \A q \in Requests \ D : q # r => pc'[q] = pc[q] /\ kind'[q] = kind[q]
      /\ \A q \in Requests \ D : slot'[q] = slot[q]
      /\ pc' \in [Requests -> Points] /\ kind' \in [Requests -> Kinds] /\ inside' \subseteq Requests
  BY <1>1 DEF Leave, Points, Kinds
<1>3. \A q \in D : pc[q] \in {"queued", "running"} /\ kind[q] = "tool"
  BY RequestsAssumption DEF WInv, PlaceInv, KindInv
<1>4. slot[r] = None /\ r \notin D
  BY <1>3 DEF WInv, PlaceInv, KindInv
<1>5. /\ workQueue' \in [Pools -> Seq(Requests)]
      /\ Distinct(workQueue'["tool"]) /\ Keys(workQueue'["tool"]) = Keys(workQueue["tool"]) \ D
      /\ workQueue'["action"] = workQueue["action"]
  <2>1. IsWithout(Without(workQueue["tool"], D), workQueue["tool"], D, Requests)
    BY WithoutProperties
  <2>. QED
    BY <1>1, <2>1, Queues DEF IsWithout
<1> HIDE DEF k, R
<1>6. k \in Nat /\ IsFiniteSet(R)
  <2>1. R \in SUBSET Requests
    BY DEF R
  <2>. QED
    BY <2>1, FS_Subset, FS_CardinalityType, RequestsAssumption DEF k
<1>7. CallsTyped'
  BY <1>1, <1>2, <1>5, <1>6 DEF CallsTyped
<1>8. KindInv'
  BY <1>2, <1>4 DEF KindInv, WInv, PlaceInv
<1>9. QueueInv'
  <2>1. {q \in Requests : pc'[q] = "gate"} = {q \in Requests : pc[q] = "gate"}
    BY <1>2, <1>3
  <2>2. Waiting("tool")' = Waiting("tool") \ D
    BY <1>2 DEF Waiting
  <2>3. Waiting("action")' = Waiting("action")
    BY <1>2, <1>3 DEF Waiting
  <2>. QED
    BY <1>5, <2>1, <2>2, <2>3, Queues DEF QueueInv
<1>13. GateInv'
  <2>1. inside' = inside \ (D \cup {r})
    BY <1>1 DEF Leave
  <2>2. \A q \in Requests : q \in D \cup {r} => pc'[q] = "idle"
    BY <1>2
  <2>3. \A q \in Requests : q \notin D \cup {r} => pc'[q] = pc[q]
    BY <1>2
  <2>. QED
    BY <2>1, <2>2, <2>3, LeftGate
<1> DEFINE n(o) == Cardinality(Running(o))
           m == Cardinality(Detached)
<1>10. n("tool")' = n("tool") - k /\ n("action")' = n("action")
  <2>1. Running("tool")' = Running("tool") \ R /\ Running("tool") \cap R = R
    BY <1>2, <1>3 DEF Running, R
  <2>2. Running("action")' = Running("action")
    BY <1>2, <1>3 DEF Running
  <2>. QED
    BY <2>1, <2>2, RunningCounted, FS_Difference DEF k
<1>11. IsFiniteSet(Detached') /\ m' = m + k
  BY <1>1, <1>6, DetachedGrows DEF WInv, TokenInv
<1>12. TokenInv'
  <2>1. /\ taken["tool"] = n("tool") + m /\ taken["action"] = n("action")
        /\ \A o \in Pools : taken[o] <= Limit(o)
    BY DEF WInv, TokenInv
  <2>2. n("tool") \in Nat /\ n("action") \in Nat /\ m \in Nat
    BY RunningCounted
  <2> HIDE DEF m, n
  <2>3. taken'["tool"] = n("tool")' + m' /\ taken'["action"] = n("action")'
    BY <1>1, <1>6, <1>10, <1>11, <2>1, <2>2
  <2>. QED
    BY <1>1, <1>11, <2>1, <2>3 DEF TokenInv, m, n
<1>. QED
  BY <1>7, <1>8, <1>9, <1>12, <1>13 DEF PlaceInv

\* A detached thread ends, and its token is given back.
LEMMA DetachedEndsStep ==
    ASSUME WInv, NEW s \in Sessions, DetachedEnds(s)
    PROVE  PlaceInv' /\ TokenInv'
<1> USE CallTypes DEF calls
<1>1. /\ detached[s] > 0
      /\ detached' = [detached EXCEPT ![s] = @ - 1]
      /\ taken' = [taken EXCEPT !["tool"] = @ - 1]
      /\ UNCHANGED <<pc, kind, gateQueue, inside, workQueue, slot>>
  BY DEF DetachedEnds
<1> DEFINE n(o) == Cardinality(Running(o))
           m == Cardinality(Detached)
<1>2. IsFiniteSet(Detached') /\ m' = m - 1 /\ m # 0
  <2>1. IsFiniteSet(Detached') /\ m' = m - 1
    BY <1>1, DetachedShrinks DEF WInv, TokenInv
  <2>2. <<s, 1>> \in Detached
    BY <1>1 DEF Detached
  <2>. QED
    BY <2>1, <2>2, FS_EmptySet DEF WInv, TokenInv
<1>3. Running("tool")' = Running("tool") /\ Running("action")' = Running("action")
  BY <1>1 DEF Running
<1>4. taken' \in [Pools -> Nat] /\ TokenInv'
  <2>1. /\ taken["tool"] = n("tool") + m /\ taken["action"] = n("action")
        /\ \A o \in Pools : taken[o] <= Limit(o)
    BY DEF WInv, TokenInv
  <2>2. n("tool") \in Nat /\ m \in Nat /\ ToolLimit \in Nat /\ ActionLimit \in Nat
    BY RunningCounted, LimitsAssumption
  <2>3. n("tool")' = n("tool") /\ n("action")' = n("action")
    BY <1>3
  <2> HIDE DEF m, n
  <2>4. taken'["tool"] = n("tool")' + m' /\ taken'["action"] = n("action")'
    BY <1>1, <1>2, <2>1, <2>2, <2>3
  <2>5. \A o \in Pools : taken'[o] <= Limit(o)
    BY <1>1, <2>1, <2>2 DEF Limit
  <2>6. taken["tool"] # 0
    BY <1>2, <2>1, <2>2
  <2>. QED
    BY <1>1, <1>2, <2>4, <2>5, <2>6 DEF TokenInv, m, n
<1>5. CallsTyped' /\ KindInv' /\ QueueInv' /\ GateInv'
  BY <1>1, <1>4 DEF CallsTyped, KindInv, QueueInv, Waiting, GateInv, WInv, PlaceInv
<1>. QED
  BY <1>4, <1>5 DEF PlaceInv

\* No request has come, and no thread is taken, when the process starts.
LEMMA ThreadsInit == Init => WInv
<1> SUFFICES ASSUME Init PROVE PlaceInv /\ TokenInv
  BY InitInv DEF WInv
<1>1. CallsTyped
  BY DEF Init, CallsTyped, Points, Kinds
<1>2. KindInv /\ QueueInv /\ GateInv
  <2>1. Keys(<<>>) = {} /\ Distinct(<<>>)
    BY DEF Keys, Distinct
  <2>2. Cardinality({}) = 0
    BY FS_EmptySet
  <2>3. inside = {} /\ inside = {r \in Requests : pc[r] \notin {"idle", "gate"}}
    BY DEF Init
  <2>. QED
    BY <2>1, <2>2, <2>3, LimitsAssumption DEF Init, KindInv, QueueInv, Waiting, GateInv
<1>3. \A p \in Pools : Running(p) = {}
  BY DEF Init, Running
<1>4. Detached = {}
  BY DEF Init, Detached
<1>5. Running("tool") = {} /\ Running("action") = {}
  BY <1>3 DEF Pools
<1>6. TokenInv
  <2>1. Cardinality(Detached) = 0 /\ IsFiniteSet(Detached)
    BY <1>4, FS_EmptySet
  <2>2. Cardinality(Running("tool")) = 0 /\ Cardinality(Running("action")) = 0
    BY <1>5, FS_EmptySet
  <2>3. \A p \in Pools : taken[p] = 0
    BY DEF Init
  <2>. QED
    BY <2>1, <2>2, <2>3, LimitsAssumption DEF TokenInv, Limit, Pools
<1>. QED
  BY <1>1, <1>2, <1>6 DEF PlaceInv

\* Every step keeps the queues and the count of tokens.
LEMMA ThreadsStep == WInv /\ [Next]_vars => WInv'
<1> SUFFICES ASSUME WInv, [Next]_vars PROVE PlaceInv' /\ TokenInv'
  BY NextInv DEF WInv
<1> USE DEF threads, calls
<1>1. ASSUME NEW r \in Requests, EnterGate(r) \/ \E k \in Kinds : Arrive(r, k)
      PROVE  PlaceInv' /\ TokenInv'
  BY <1>1, GateStep
<1>2. ASSUME NEW r \in Requests,
             Disconnected(r) \/ StreamEnds(r) \/ Handle(r) \/ \E s \in Sessions : OpenSession(r, s)
      PROVE  PlaceInv' /\ TokenInv'
  <2>1. /\ Leave({r}) /\ pc[r] \in {"body", "stream"}
        /\ UNCHANGED <<gateQueue, workQueue, taken, detached, slot>>
    BY <1>2 DEF Disconnected, StreamEnds, Handle, OpenSession
  <2>. QED
    BY <2>1, LeaveStep
<1>3. ASSUME NEW r \in Requests, CallAction(r) \/ \E s \in Sessions : CallTool(r, s)
      PROVE  PlaceInv' /\ TokenInv'
  BY <1>3, EnqueueStep
<1>4. ASSUME NEW r \in Requests, StartThread(r) \/ FinishThread(r)
      PROVE  PlaceInv' /\ TokenInv'
  BY <1>4, StartStep, FinishStep
<1>5. ASSUME NEW r \in Requests, NEW s \in Sessions, DeleteSession(r, s)
      PROVE  PlaceInv' /\ TokenInv'
  <2>1. /\ CallsOf(s) \in SUBSET Requests /\ \A q \in CallsOf(s) : slot[q] = s
        /\ pc[r] = "stream" /\ Cancel(CallsOf(s), s, r) /\ gateQueue' = gateQueue
    BY <1>5 DEF DeleteSession, CallsOf
  <2>. QED
    BY <2>1, CancelStep
<1>6. ASSUME NEW r \in Requests, NEW q \in Requests, CancelCall(r, q)
      PROVE  PlaceInv' /\ TokenInv'
  <2>1. /\ {q} \in SUBSET Requests /\ \A p \in {q} : slot[p] = slot[q]
        /\ slot[q] \in Sessions
        /\ pc[r] = "body" /\ Cancel({q}, slot[q], r) /\ gateQueue' = gateQueue
    BY <1>6, CallTypes DEF CancelCall
  <2>. QED
    BY <2>1, CancelStep
<1>7. ASSUME NEW s \in Sessions, DetachedEnds(s) PROVE PlaceInv' /\ TokenInv'
  BY <1>7, DetachedEndsStep
<1>8. ASSUME \/ UNCHANGED vars
             \/ \E s \in Sessions : SessionExpires(s) \/ Collect(s)
      PROVE  PlaceInv' /\ TokenInv'
  <2>1. UNCHANGED <<pc, kind, gateQueue, inside, workQueue, taken, detached, slot>>
    BY <1>8 DEF vars, SessionExpires, Collect
  <2>2. PlaceInv'
    BY <2>1 DEF WInv, PlaceInv, CallsTyped, KindInv, QueueInv, Waiting, GateInv
  <2>3. TokenInv'
    BY <2>1, SameThreads
  <2>. QED
    BY <2>2, <2>3
<1>. QED
  BY <1>1, <1>2, <1>3, <1>4, <1>5, <1>6, <1>7, <1>8 DEF Next, RequestStep, Served, RunsTool, SessionStep

\* Every variable keeps its type: a queue is asked for its head only while
\* someone is in it, and no token is given back that was not taken.
THEOREM HostedTypeCorrect == Spec => []TypeOK
<1>1. WInv => TypeOK
  BY DEF WInv, IInv, Typed, PlaceInv, CallsTyped, TypeOK
<1>. QED
  BY <1>1, ThreadsInit, ThreadsStep, PTL DEF Spec

\* Cancellation cannot escape the limit on workers: the threads that are alive,
\* those detached from a cancelled call included, hold the tokens of their pool.
THEOREM WorkersNeverExceed == Spec => []WorkersBounded
<1>1. WInv => WorkersBounded
  BY DEF WInv, TokenInv, WorkersBounded, Limit, Pools
<1>. QED
  BY <1>1, ThreadsInit, ThreadsStep, PTL DEF Spec

\* No token and no place in a queue is lost or given out twice, whatever is
\* cancelled, deleted, cut off or refused: what RequestsEnd rests on, for any
\* number of requests and sessions and any limits.
THEOREM NothingIsLost == Spec => []NothingLost
<1>1. WInv => NothingLost
  BY Queues DEF NothingLost, WInv, TokenInv, Waiting
<1>. QED
  BY <1>1, ThreadsInit, ThreadsStep, PTL DEF Spec
----------------------------------------------------------------------------
(***************************************************************************)
(* The installer, for any number of releases.  ProvenSurvives is not       *)
(* inductive: that the release is in one of two places does not say that   *)
(* it is not the one the next command removes.  Placed says at which       *)
(* commands it is in which.                                                *)
(***************************************************************************)
Before == {"idle", "build", "configure", "stop", "clear"}

\* The place of the proven release: $RUNTIME outside a swap, $RUNTIME_PREVIOUS
\* inside; either of them after a swap that stopped, up to the next "rm".
Placed ==
    proven # NoRelease /\ ~spent =>
        /\ exposed => command \in Before /\ proven \in {runtime, previous}
        /\ ~exposed => IF command \in Swapping THEN previous = proven ELSE runtime = proven

\* What is moved in and started is whole.
WholeIsStarted ==
    /\ command = "build" => built \in Releases
    /\ command \in {"configure", "stop", "clear", "cleared", "move away", "move in"} => next \in Releases
    /\ command = "start" => runtime \in Releases

CheckedIsInPlace == command = "check" => service = runtime

DeployInv == DeployTypeOK /\ Placed /\ WholeIsStarted /\ CheckedIsInPlace

USE DEF NoRelease, Partial, Releases, Contents, Steps, Swapping, Proceed, dirs, unit, history

LEMMA DeployStarts == DeployInit => DeployInv
<1>1. DeployInit => DeployTypeOK
  <2>1. 0 \in 0..MaxReleases
    BY ReleasesAssumption
  <2>. QED
    BY <2>1 DEF DeployInit, DeployTypeOK
<1>2. DeployInit => Placed /\ WholeIsStarted /\ CheckedIsInPlace
  BY DEF DeployInit, Placed, WholeIsStarted, CheckedIsInPlace
<1>. QED
  BY <1>1, <1>2 DEF DeployInv

\* The proof goes by actions: those that only move on, those that change a
\* directory, and those that end a run.
LEMMA DeployStep == DeployInv /\ [DeployNext]_deployVars => DeployInv'
<1> SUFFICES ASSUME DeployInv, [DeployNext]_deployVars PROVE DeployInv'
  OBVIOUS
<1> USE ReleasesAssumption DEF DeployInv
<1>1. DeployTypeOK'
  <2>1. CASE Begin
    BY <2>1 DEF DeployTypeOK, Begin
  <2>2. CASE Build \/ Configure \/ StopService \/ StartService
    BY <2>2 DEF DeployTypeOK, Build, Configure, StopService, StartService, WholeIsStarted
  <2>3. CASE ClearPrevious \/ PreviousCleared \/ MoveAway \/ MoveIn
    BY <2>3 DEF DeployTypeOK, ClearPrevious, PreviousCleared, MoveAway, MoveIn
  <2>4. CASE Healthy \/ Unhealthy \/ ReloadNginx \/ NothingToRestore
    BY <2>4 DEF DeployTypeOK, Healthy, Unhealthy, ReloadNginx, NothingToRestore
  <2>5. CASE RemoveRuntime \/ RuntimeRemoved \/ MoveBack \/ StartAgain
    BY <2>5 DEF DeployTypeOK, RemoveRuntime, RuntimeRemoved, MoveBack, StartAgain
  <2>6. CASE Quit \/ Reboot \/ UNCHANGED deployVars
    BY <2>6 DEF DeployTypeOK, Quit, Reboot, deployVars
  <2>. QED
    BY <2>1, <2>2, <2>3, <2>4, <2>5, <2>6 DEF DeployNext
<1>2. Placed'
  <2>1. CASE Begin \/ Build \/ Configure \/ StopService \/ StartService
    BY <2>1 DEF DeployTypeOK, Placed, Before, Begin, Build, Configure, StopService, StartService
  <2>2. CASE ClearPrevious
    BY <2>2 DEF DeployTypeOK, Placed, Before, ClearPrevious
  <2>3. CASE PreviousCleared \/ MoveAway \/ MoveIn
    BY <2>3 DEF DeployTypeOK, Placed, Before, PreviousCleared, MoveAway, MoveIn
  <2>4. CASE Healthy
    BY <2>4 DEF DeployTypeOK, Placed, Before, CheckedIsInPlace, Healthy
  <2>5. CASE Unhealthy \/ ReloadNginx \/ NothingToRestore
    BY <2>5 DEF DeployTypeOK, Placed, Before, Unhealthy, ReloadNginx, NothingToRestore
  <2>6. CASE RemoveRuntime \/ RuntimeRemoved \/ MoveBack \/ StartAgain
    BY <2>6 DEF DeployTypeOK, Placed, Before, RemoveRuntime, RuntimeRemoved, MoveBack, StartAgain
  <2>7. CASE Quit
    BY <2>7 DEF DeployTypeOK, Placed, Before, Quit
  <2>8. CASE Reboot
    BY <2>8 DEF DeployTypeOK, Placed, Before, Reboot
  <2>9. CASE UNCHANGED deployVars
    BY <2>9 DEF Placed, Before, deployVars
  <2>. QED
    BY <2>1, <2>2, <2>3, <2>4, <2>5, <2>6, <2>7, <2>8, <2>9 DEF DeployNext
<1>3. CheckedIsInPlace'
  BY DEF CheckedIsInPlace, DeployTypeOK, DeployNext, Begin, Build, Configure, StopService, ClearPrevious,
         PreviousCleared, MoveAway, MoveIn, StartService, Healthy, Unhealthy, ReloadNginx,
         NothingToRestore, RemoveRuntime, RuntimeRemoved, MoveBack, StartAgain, Quit, Reboot, deployVars
<1>4. WholeIsStarted'
  <2>1. CASE Begin
    BY <2>1 DEF WholeIsStarted, DeployTypeOK, Begin
  <2>2. CASE Build \/ Configure \/ StopService \/ ClearPrevious \/ PreviousCleared
    BY <2>2 DEF WholeIsStarted, Build, Configure, StopService, ClearPrevious, PreviousCleared
  <2>3. CASE MoveAway \/ MoveIn \/ StartService
    BY <2>3 DEF WholeIsStarted, MoveAway, MoveIn, StartService
  <2>4. CASE Healthy \/ Unhealthy \/ ReloadNginx \/ NothingToRestore
    BY <2>4 DEF WholeIsStarted, Healthy, Unhealthy, ReloadNginx, NothingToRestore
  <2>5. CASE RemoveRuntime \/ RuntimeRemoved \/ MoveBack \/ StartAgain
    BY <2>5 DEF WholeIsStarted, RemoveRuntime, RuntimeRemoved, MoveBack, StartAgain
  <2>6. CASE Quit \/ Reboot \/ UNCHANGED deployVars
    BY <2>6 DEF WholeIsStarted, Quit, Reboot, deployVars
  <2>. QED
    BY <2>1, <2>2, <2>3, <2>4, <2>5, <2>6 DEF DeployNext
<1>. QED
  BY <1>1, <1>2, <1>3, <1>4

LEMMA DeployInvariant == DeploySpec => []DeployInv
BY DeployStarts, DeployStep, PTL DEF DeploySpec

\* What the script and the machine keep has its type.
THEOREM DeployTypeCorrect == DeploySpec => []DeployTypeOK
BY DeployInvariant, PTL DEF DeployInv

\* ProvenSurvives, for any number of releases, of which any are good, and for
\* runs that stop, fail or are repeated anywhere.
THEOREM ReleaseSurvives == DeploySpec => []ProvenSurvives
<1>1. DeployInv => ProvenSurvives
  BY DEF DeployInv, Placed, ProvenSurvives
<1>. QED
  BY <1>1, DeployInvariant, PTL

\* ProvenIsStarted: in particular a rollback brings back the release that
\* passed the check before.
THEOREM RollbackRestores == DeploySpec => []ProvenIsStarted
<1>1. DeployInv => ProvenIsStarted
  BY DEF DeployInv, Placed, ProvenIsStarted
<1>. QED
  BY <1>1, DeployInvariant, PTL
=============================================================================
