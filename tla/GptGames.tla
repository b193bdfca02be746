------------------------------ MODULE GptGames ------------------------------
(***************************************************************************)
(* The game sessions behind the Custom GPT Action (gpt_action.py): the     *)
(* bounded, expiring registry of game handles and the calls that use it.   *)
(*                                                                         *)
(* A call runs on a worker thread.  startEigendarkGame plays a match,      *)
(* registers a session for it and answers with the session's handle;       *)
(* getEigendarkGame and takeEigendarkTurn resolve a handle, wait for the   *)
(* session's lock, invoke a tool at the game service and record its reply. *)
(* The registry has a lock of its own, held for one step at a time; each   *)
(* session's lock is held across the remote request.  A call keeps the     *)
(* session object it resolved, whatever the registry does to its handle    *)
(* meanwhile.                                                              *)
(*                                                                         *)
(* Handle g is the g-th one created; it also names the session and its     *)
(* match at the service, which only this session's calls advance.          *)
(***************************************************************************)
EXTENDS Naturals, Sequences, FiniteSets, Orders

CONSTANTS
    Calls,        \* worker threads: GPT_ACTION_MAX_CONCURRENCY at most
    NoCall,       \* the holder of a session lock nobody holds
    MaxSessions,  \* GPT_ACTION_MAX_SESSIONS
    TTL,          \* GPT_ACTION_SESSION_TTL_SECONDS, in ticks
    MaxCalls,     \* GPT_ACTION_MAX_CALLS_PER_SESSION
    PlayOver,     \* {TRUE} if play answers with finished matches only; FALSE
                  \* in it if with running ones, which get and turn are for
    MaxGames,     \* bound on handles created
    MaxSeq,       \* bound on the length of a match
    MaxTime       \* bound on the clock

ASSUME CallsAssumption ==
    NoCall \notin Calls /\ PlayOver \subseteq BOOLEAN

\* GPTGameRegistry.__init__ refuses limits below one.
ASSUME LimitsAssumption ==
    /\ MaxSessions \in Nat \ {0} /\ TTL \in Nat \ {0} /\ MaxCalls \in Nat \ {0}
    /\ MaxGames \in Nat /\ MaxSeq \in Nat /\ MaxTime \in Nat

Games  == 1..MaxGames
NoGame == 0
Ops    == {"get", "turn"}

VARIABLES
    now,        \* time.monotonic
    created,    \* handles created so far
    registry,   \* handles registered, least recently used first
    expires,    \* GPTGameSession.expires_at
    nextSeq,    \* GPTGameSession.next_seq
    callsLeft,  \* GPTGameSession.calls_remaining
    closed,     \* GPTGameSession.closed
    holder,     \* who holds GPTGameSession.lock
    seq, over,  \* each match at the service: its sequence number, its end
    late,       \* matches with a turn on its way whose call has timed out
    pc,         \* where each call is
    game,       \* the session object a call has resolved
    op,         \* "get" or "turn"
    clock,      \* the call's reading of the clock before the registry lock
    reply,      \* the tool's result
    known,      \* handles a caller has been given
    hist        \* history: see HistoryType

session == <<expires, nextSeq, callsLeft, closed>>
match   == <<seq, over, late>>
locals  == <<pc, game, op, clock, reply>>
vars    == <<now, created, registry, session, holder, match, locals, known, hist>>

Points == {"idle", "play", "create", "finished", "erase", "resolve", "wait",
           "entered", "tool", "answered", "limit", "respond"}

Replies == [seq: Nat, over: BOOLEAN]
NoReply == [seq |-> 0, over |-> FALSE]

(***************************************************************************)
(* History, read by properties only: tools invoked for each session, how   *)
(* many of them after it was closed, and when its handle was last used.    *)
(***************************************************************************)
HistoryType == [invoked: [Games -> Nat], after: [Games -> Nat], used: [Games -> Nat]]

TypeOK ==
    /\ now \in Nat
    /\ created \in 0..MaxGames
    /\ registry \in Seq(Games)
    /\ expires \in [Games -> Nat]
    /\ nextSeq \in [Games -> Nat]
    /\ callsLeft \in [Games -> Nat]
    /\ closed \in [Games -> BOOLEAN]
    /\ holder \in [Games -> Calls \cup {NoCall}]
    /\ seq \in [Games -> Nat]
    /\ over \in [Games -> BOOLEAN]
    /\ late \subseteq Games
    /\ pc \in [Calls -> Points]
    /\ game \in [Calls -> Games \cup {NoGame}]
    /\ op \in [Calls -> Ops]
    /\ clock \in [Calls -> Nat]
    /\ reply \in [Calls -> Replies]
    /\ known \subseteq Games
    /\ hist \in HistoryType

Init ==
    /\ now = 0
    /\ created = 0
    /\ registry = <<>>
    /\ expires = [g \in Games |-> 0]
    /\ nextSeq = [g \in Games |-> 0]
    /\ callsLeft = [g \in Games |-> 0]
    /\ closed = [g \in Games |-> FALSE]
    /\ holder = [g \in Games |-> NoCall]
    /\ seq = [g \in Games |-> 0]
    /\ over = [g \in Games |-> FALSE]
    /\ late = {}
    /\ pc = [c \in Calls |-> "idle"]
    /\ game = [c \in Calls |-> NoGame]
    /\ op = [c \in Calls |-> "get"]
    /\ clock = [c \in Calls |-> 0]
    /\ reply = [c \in Calls |-> NoReply]
    /\ known = {}
    /\ hist = [invoked |-> [g \in Games |-> 0], after |-> [g \in Games |-> 0],
               used |-> [g \in Games |-> 0]]

----------------------------------------------------------------------------
Registered == Keys(registry)

\* _purge_expired: what is past its time at clock reading t.
Expired(t) == {g \in Registered : expires[g] <= t}

\* Mutants, here and below, are plausible mistakes in the definition they
\* precede; the specification uses none of them.  Room for one more is not
\* counted.
ExcessWithoutRoom(s) == IF Len(s) <= MaxSessions THEN 0 ELSE Len(s) - MaxSessions

\* Evicted handles are forgotten, their sessions left open.
EvictedOpen(s) == {}

\* create's loop: the least recently used entries of s that exceed the limit
\* once one more is added, and what remains.
Excess(s)  == IF Len(s) < MaxSessions THEN 0 ELSE Len(s) - MaxSessions + 1
Evicted(s) == {s[i] : i \in 1..Excess(s)}
Kept(s)    == WithoutOldest(s, Excess(s))

\* resolve's move_to_end, once the handles in D are purged.  Mutant: the
\* handle stays where it is.
UsedInPlace(D, g) == Without(registry, D)

Used(D, g) == MovedToEnd(Without(registry, D), g)

Close(D) == closed' = [g \in Games |-> closed[g] \/ g \in D]

Goto(c, point) == pc' = [pc EXCEPT ![c] = point]

\* The call leaves the worker thread; its local variables are gone.
Return(c) ==
    /\ Goto(c, "idle")
    /\ game' = [game EXCEPT ![c] = NoGame]
    /\ op' = [op EXCEPT ![c] = "get"]
    /\ clock' = [clock EXCEPT ![c] = 0]
    /\ reply' = [reply EXCEPT ![c] = NoReply]

\* Mutant: the session's lock is not given back.
UnlockForgotten(g) == UNCHANGED holder

Unlock(g) == holder' = [holder EXCEPT ![g] = NoCall]

----------------------------------------------------------------------------
\* startEigendarkGame: _play_sync invokes the play tool.
Play(c) ==
    /\ pc[c] = "idle"
    /\ Goto(c, "play")
    /\ UNCHANGED <<now, created, registry, session, holder, match, game, op,
                   clock, reply, known, hist>>

\* The tool returns a match, whose sequence numbers are counted from here;
\* create reads the clock before it locks.
PlayReply(c) ==
    /\ pc[c] = "play"
    /\ created + Cardinality({d \in Calls : pc[d] = "create"}) < MaxGames
    /\ \E o \in PlayOver : reply' = [reply EXCEPT ![c] = [seq |-> 0, over |-> o]]
    /\ clock' = [clock EXCEPT ![c] = now]
    /\ Goto(c, "create")
    /\ UNCHANGED <<now, created, registry, session, holder, match, game, op, known, hist>>

\* The tool raises, or its result is no public match.
PlayFails(c) ==
    /\ pc[c] = "play"
    /\ Return(c)
    /\ UNCHANGED <<now, created, registry, session, holder, match, known, hist>>

\* GPTGameRegistry.create: purge, evict down to the limit, append.
Create(c) ==
    /\ pc[c] = "create" /\ created < MaxGames
    /\ LET g == created + 1
           dead == Expired(clock[c])
           live == Without(registry, dead)
       IN  /\ created' = g
           /\ registry' = Append(Kept(live), g)
           /\ closed' = [h \in Games |-> h # g /\ (closed[h] \/ h \in dead \cup Evicted(live))]
           /\ expires' = [expires EXCEPT ![g] = clock[c] + TTL]
           /\ nextSeq' = [nextSeq EXCEPT ![g] = reply[c].seq]
           /\ callsLeft' = [callsLeft EXCEPT ![g] = MaxCalls]
           /\ seq' = [seq EXCEPT ![g] = reply[c].seq]
           /\ over' = [over EXCEPT ![g] = reply[c].over]
           /\ game' = [game EXCEPT ![c] = g]
           /\ hist' = [hist EXCEPT !.used[g] = now]
    /\ Goto(c, IF reply[c].over THEN "finished" ELSE "respond")
    /\ UNCHANGED <<now, late, holder, op, clock, reply, known>>

\* A match that is already complete: its session is closed, under no lock.
CloseFinished(c) ==
    /\ pc[c] = "finished"
    /\ Close({game[c]})
    /\ Goto(c, "erase")
    /\ UNCHANGED <<now, created, registry, expires, nextSeq, callsLeft, holder,
                   match, game, op, clock, reply, known, hist>>

\* GPTGameRegistry.discard after a terminal result.  A turn or a recovery
\* still holds the session's lock and gives it back now.
Erase(c) ==
    /\ pc[c] = "erase"
    /\ registry' = Without(registry, {game[c]})
    /\ Close({game[c]} \cap Registered)
    /\ \/ holder[game[c]] = c /\ Unlock(game[c])
       \/ holder[game[c]] # c /\ UNCHANGED holder
    /\ Goto(c, "respond")
    /\ UNCHANGED <<now, created, expires, nextSeq, callsLeft, match, game, op,
                   clock, reply, known, hist>>

\* The response gives the caller the handle, unless it is over the size limit
\* and an error takes its place (_bounded_json_response).
Respond(c) ==
    /\ pc[c] = "respond"
    /\ \/ known' = known \cup {game[c]}
       \/ UNCHANGED known
    /\ Return(c)
    /\ UNCHANGED <<now, created, registry, session, holder, match, hist>>

----------------------------------------------------------------------------
\* getEigendarkGame or takeEigendarkTurn: resolve reads the clock, then locks.
UseHandle(c, g, o) ==
    /\ pc[c] = "idle" /\ g \in known
    /\ Goto(c, "resolve")
    /\ game' = [game EXCEPT ![c] = g]
    /\ op' = [op EXCEPT ![c] = o]
    /\ clock' = [clock EXCEPT ![c] = now]
    /\ UNCHANGED <<now, created, registry, session, holder, match, reply, known, hist>>

\* A registered handle becomes the most recently used one.
Resolve(c) ==
    /\ pc[c] = "resolve"
    /\ LET dead == Expired(clock[c])
           g == game[c]
       IN  /\ g \in Registered \ dead /\ ~closed[g]
           /\ Close(dead)
           /\ registry' = Used(dead, g)
           /\ hist' = [hist EXCEPT !.used[g] = now]
    /\ Goto(c, "wait")
    /\ UNCHANGED <<now, created, expires, nextSeq, callsLeft, holder, match,
                   game, op, clock, reply, known>>

\* Any other is refused with 404, after the purge.
ResolveRefused(c) ==
    /\ pc[c] = "resolve"
    /\ LET dead == Expired(clock[c])
       IN  /\ game[c] \notin Registered \ dead \/ closed[game[c]]
           /\ Close(dead)
           /\ registry' = Without(registry, dead)
    /\ Return(c)
    /\ UNCHANGED <<now, created, expires, nextSeq, callsLeft, holder, match, known, hist>>

\* The session was closed while the call waited for its lock: 404.
WaitRefused(c) ==
    /\ pc[c] = "wait" /\ holder[game[c]] = NoCall
    /\ closed[game[c]]
    /\ Return(c)
    /\ UNCHANGED <<now, created, registry, session, holder, match, known, hist>>

\* The call has the session's lock and has seen the session open.
Admit(c) ==
    /\ holder' = [holder EXCEPT ![game[c]] = c]
    /\ Goto(c, "entered")
    /\ UNCHANGED <<now, created, registry, session, match, game, op, clock, reply, known, hist>>

\* Mutants: session.closed is not checked once the lock is held; the lock is
\* not waited for.
EnterClosed(c)   == pc[c] = "wait" /\ holder[game[c]] = NoCall /\ Admit(c)
EnterUnlocked(c) == pc[c] = "wait" /\ ~closed[game[c]] /\ Admit(c)

Enter(c) ==
    /\ pc[c] = "wait" /\ holder[game[c]] = NoCall
    /\ ~closed[game[c]]
    /\ Admit(c)

\* The session has no call left: it is closed, and the call refused with 429.
LimitReached(c) ==
    /\ pc[c] = "entered" /\ callsLeft[game[c]] < 1
    /\ Close({game[c]})
    /\ Goto(c, "limit")
    /\ UNCHANGED <<now, created, registry, expires, nextSeq, callsLeft, holder, match,
                   game, op, clock, reply, known, hist>>

EraseLimited(c) ==
    /\ pc[c] = "limit"
    /\ registry' = Without(registry, {game[c]})
    /\ Close({game[c]} \cap Registered)
    /\ Unlock(game[c])
    /\ Return(c)
    /\ UNCHANGED <<now, created, expires, nextSeq, callsLeft, match, known, hist>>

\* The call is charged and invokes its tool.  The registry, whose lock it does
\* not hold, may have closed the session since it was let in.
Charge(c) ==
    /\ callsLeft' = [callsLeft EXCEPT ![game[c]] = @ - 1]
    /\ hist' = [hist EXCEPT !.invoked[game[c]] = @ + 1,
                            !.after[game[c]] = IF closed[game[c]] THEN @ + 1 ELSE @]
    /\ Goto(c, "tool")
    /\ UNCHANGED <<now, created, registry, expires, nextSeq, closed, holder, match,
                   game, op, clock, reply, known>>

\* Mutant: calls_remaining is not checked.
InvokeUnbounded(c) == pc[c] = "entered" /\ Charge(c)

InvokeTool(c) ==
    /\ pc[c] = "entered" /\ callsLeft[game[c]] >= 1
    /\ Charge(c)

\* The service plays a turn of match g, which advances it and may end it.
Advance(g, o) ==
    /\ ~over[g] /\ seq[g] < MaxSeq
    /\ seq' = [seq EXCEPT ![g] = @ + 1]
    /\ over' = [over EXCEPT ![g] = o]

ServiceTurn(c) ==
    /\ pc[c] = "tool" /\ op[c] = "turn"
    /\ \E o \in BOOLEAN :
          /\ Advance(game[c], o)
          /\ reply' = [reply EXCEPT ![c] = [seq |-> seq[game[c]] + 1, over |-> o]]
    /\ Goto(c, "answered")
    /\ UNCHANGED <<now, created, registry, session, holder, late, game, op, clock,
                   known, hist>>

\* A recovery reads the match.
ServiceGet(c) ==
    /\ pc[c] = "tool" /\ op[c] = "get"
    /\ reply' = [reply EXCEPT ![c] = [seq |-> seq[game[c]], over |-> over[game[c]]]]
    /\ Goto(c, "answered")
    /\ UNCHANGED <<now, created, registry, session, holder, match, game, op,
                   clock, known, hist>>

\* A turn reaches the service after its call has given up.
LateTurn(g) ==
    /\ g \in late
    /\ late' = late \ {g}
    /\ \E o \in BOOLEAN : Advance(g, o)
    /\ UNCHANGED <<now, created, registry, session, holder, locals, known, hist>>

\* Mutant: a failed call is given back to the session's budget.
ToolFailsRefunded(c) ==
    /\ pc[c] \in {"tool", "answered"}
    /\ callsLeft' = [callsLeft EXCEPT ![game[c]] = @ + 1]
    /\ Unlock(game[c])
    /\ Return(c)
    /\ UNCHANGED <<now, created, registry, expires, nextSeq, closed, match, known, hist>>

\* The tool raises: the request was refused, lost or delayed, or its reply
\* lost.  The call stays charged, the session open and its lock free.
ToolFails(c) ==
    /\ pc[c] \in {"tool", "answered"}
    /\ Unlock(game[c])
    /\ \/ UNCHANGED late
       \/ /\ pc[c] = "tool" /\ op[c] = "turn"
          /\ ~over[game[c]] /\ seq[game[c]] < MaxSeq
          /\ late' = late \cup {game[c]}
    /\ Return(c)
    /\ UNCHANGED <<now, created, registry, session, seq, over, known, hist>>

\* The reply is recorded, its sequence number if it has one; a terminal reply
\* closes the session.
TakeReply(c) ==
    /\ pc[c] = "answered"
    /\ \/ nextSeq' = [nextSeq EXCEPT ![game[c]] = reply[c].seq]
       \/ UNCHANGED nextSeq
    /\ \/ /\ reply[c].over
          /\ Close({game[c]})
          /\ Goto(c, "erase")
          /\ UNCHANGED holder
       \/ /\ ~reply[c].over
          /\ Unlock(game[c])
          /\ Goto(c, "respond")
          /\ UNCHANGED closed
    /\ UNCHANGED <<now, created, registry, expires, callsLeft, match, game, op,
                   clock, reply, known, hist>>

Tick ==
    /\ now < MaxTime
    /\ now' = now + 1
    /\ UNCHANGED <<created, registry, session, holder, match, locals, known, hist>>

\* A step of a call that has begun.
CallStep(c) ==
    \/ PlayReply(c) \/ PlayFails(c) \/ Create(c) \/ CloseFinished(c)
    \/ Erase(c) \/ Respond(c)
    \/ Resolve(c) \/ ResolveRefused(c)
    \/ WaitRefused(c) \/ Enter(c) \/ LimitReached(c) \/ EraseLimited(c) \/ InvokeTool(c)
    \/ ServiceTurn(c) \/ ServiceGet(c) \/ ToolFails(c) \/ TakeReply(c)

Next ==
    \/ \E c \in Calls : CallStep(c)
    \/ \E c \in Calls : Play(c)
    \/ \E c \in Calls, g \in Games, o \in Ops : UseHandle(c, g, o)
    \/ \E g \in Games : LateTurn(g)
    \/ Tick

\* Safety alone; what the theorems are about.
Spec == Init /\ [][Next]_vars

\* A thread that can run is eventually scheduled, and every remote request
\* ends: json_request has a timeout.
FairSpec == Spec /\ \A c \in Calls : WF_vars(CallStep(c))

----------------------------------------------------------------------------
(***************************************************************************)
(* Properties.                                                             *)
(***************************************************************************)

\* A session never has more tools invoked than it was granted, however many
\* calls hold its handle at the same time.
CallBudget == \A g \in Games : hist.invoked[g] <= MaxCalls

\* One tool at a time runs for a session: no call of a game begins before the
\* one before it has its answer, or has given up on it.
OneToolPerGame ==
    \A c, d \in Calls :
        /\ pc[c] \in {"tool", "answered"}
        /\ pc[d] \in {"tool", "answered"}
        /\ game[c] = game[d]
        => c = d

\* The sequence number a session asks for next never goes back and never
\* passes the match: replies are recorded in the order the service gave them.
SeqFollowsMatch ==
    [][\A g \in Games : nextSeq[g] <= nextSeq'[g] /\ nextSeq'[g] <= seq'[g]]_vars

\* The calls a session has let in: they saw it open, with its lock held.
AtService(c) == pc[c] \in {"tool", "answered"}
Admitted(g)  == {c \in Calls : game[c] = g /\ (pc[c] = "entered" \/ AtService(c))}

\* A closed session stays closed and lets no call in, not even one that had
\* resolved its handle before it was evicted, erased or expired.
ClosedIsFinal ==
    [][\A g \in 1..created :
         closed[g] => closed'[g] /\ Admitted(g)' \subseteq Admitted(g)]_vars

\* Create, expiry and erasure close a session under the registry's lock, which
\* a call let in does not hold: the tool of that one call may still be invoked
\* for a session already closed.  Never a second one.
OneCallAfterClosing == \A g \in Games : hist.after[g] <= 1

\* The registry is within its bound after every operation, and holds no
\* handle twice.
RegistryBounded ==
    /\ Len(registry) <= MaxSessions
    /\ Distinct(registry)

\* A session is open exactly while its handle is registered, except that a
\* call which has just closed it is about to erase it: no session is left
\* open that no handle reaches, and none registered that nothing can use.
OpenIsRegistered ==
    \A g \in 1..created :
        /\ ~closed[g] => g \in Registered
        /\ closed[g] /\ g \in Registered
              => \E c \in Calls : game[c] = g /\ pc[c] \in {"erase", "limit"}

\* When create makes room, every session it keeps was used no earlier than
\* any it evicts before its time.
EvictsLeastRecent ==
    [][\A c \in Calls :
         Create(c) =>
            \A g \in Registered \ Expired(clock[c]), h \in Registered :
                g \notin Registered' /\ h \in Registered'
                => hist.used[g] <= hist.used[h]]_vars

\* Every call ends: no thread waits for ever for a session's lock.
CallsEnd ==
    \A c \in Calls : pc[c] # "idle" ~> pc[c] = "idle"

(***************************************************************************)
(* GameSession is the session as the game service sees it: granted calls,  *)
(* one at a time, none let in once it is closed.                           *)
(***************************************************************************)
Session == INSTANCE GameSession WITH
               state <- [g \in Games |-> IF g > created THEN "none"
                                         ELSE IF closed[g] THEN "closed" ELSE "open"],
               left  <- callsLeft,
               phase <- [g \in Games |->
                            IF \E c \in Calls : game[c] = g /\ pc[c] = "entered" THEN "admitted"
                            ELSE IF \E c \in Calls : game[c] = g /\ AtService(c) THEN "calling"
                            ELSE "quiet"]

\* The registry, its locks and the calls that hold on to evicted sessions
\* implement that session, for every handle.
ImplementsSession == Session!Spec
=============================================================================
