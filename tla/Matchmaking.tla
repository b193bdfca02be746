---------------------------- MODULE Matchmaking ----------------------------
(***************************************************************************)
(* Matchmaking and match credentials of one MCP session: the ticket and    *)
(* the table of matches in its CredentialStore (runtime.py), and the tools *)
(* that use them (tools.py).                                               *)
(*                                                                         *)
(* Tools run on worker threads and may overlap.  The store's lock is held  *)
(* for one operation at a time and never across a remote request, so a     *)
(* reply is applied to whatever the store holds by then: a waiting reply   *)
(* stores its ticket, a matched one stores the match and then erases the   *)
(* ticket.  The session has an API key throughout; SharedKey is about      *)
(* keys.  The state is lost with the process and nothing restores it.      *)
(***************************************************************************)
EXTENDS Naturals, Sequences, FiniteSets, Orders

CONSTANTS
    Calls,       \* worker threads
    Tickets,     \* tickets the service may issue
    Matches,     \* (match id, seat) pairs the service may create
    NoTicket, NoMatch,
    MaxMatches   \* max_matches

ASSUME NoneAssumption == NoTicket \notin Tickets /\ NoMatch \notin Matches

\* CredentialStore.__init__ refuses a limit below one.
ASSUME LimitAssumption == MaxMatches \in Nat \ {0}

VARIABLES
    ticket,      \* CredentialStore._ticket
    table,       \* CredentialStore._matches, least recently used first
    queue,       \* each ticket at the service
    pairing,     \* the match the service found for a ticket
    made,        \* matches the service has created
    late,        \* tickets with a leave on its way whose call has timed out
    pc,          \* where each call is
    op,          \* its tool
    sent,        \* the ticket in its request
    target,      \* the match a share is for
    reply,       \* the service's answer
    hist         \* history: see HistoryType

store   == <<ticket, table>>
service == <<queue, pairing, made, late>>
locals  == <<pc, op, sent, target, reply>>
vars    == <<store, service, locals, hist>>

Points == {"idle", "sent", "answered", "rest", "clear", "share"}
TicketOps == {"join", "status", "leave"}
Ops    == TicketOps \cup {"none", "create", "share"}

\* "waiting" stands for provisioning too, "over" for cancelled and failed.
Statuses == {"waiting", "matched", "over"}

\* No ticket or no match also stands for one the tool refuses as malformed.
Replies == [status: Statuses, ticket: Tickets \cup {NoTicket}, match: Matches \cup {NoMatch}]
NoReply == [status |-> "over", ticket |-> NoTicket, match |-> NoMatch]

(***************************************************************************)
(* History, read by properties only: the matches the store was ever given, *)
(* for each the other matches given or used since it last was, and whether *)
(* two calls about tickets have ever overlapped.                           *)
(***************************************************************************)
HistoryType ==
    [seen: SUBSET Matches, since: [Matches -> SUBSET Matches], overlapped: BOOLEAN]

TypeOK ==
    /\ ticket \in Tickets \cup {NoTicket}
    /\ table \in Seq(Matches)
    /\ Len(table) <= MaxMatches /\ Distinct(table)
    /\ queue \in [Tickets -> Statuses \cup {"unissued"}]
    /\ pairing \in [Tickets -> Matches \cup {NoMatch}]
    /\ made \subseteq Matches
    /\ late \subseteq Tickets
    /\ pc \in [Calls -> Points]
    /\ op \in [Calls -> Ops]
    /\ sent \in [Calls -> Tickets \cup {NoTicket}]
    /\ target \in [Calls -> Matches \cup {NoMatch}]
    /\ reply \in [Calls -> Replies]
    /\ hist \in HistoryType

Init ==
    /\ ticket = NoTicket
    /\ table = <<>>
    /\ queue = [t \in Tickets |-> "unissued"]
    /\ pairing = [t \in Tickets |-> NoMatch]
    /\ made = {}
    /\ late = {}
    /\ pc = [c \in Calls |-> "idle"]
    /\ op = [c \in Calls |-> "none"]
    /\ sent = [c \in Calls |-> NoTicket]
    /\ target = [c \in Calls |-> NoMatch]
    /\ reply = [c \in Calls |-> NoReply]
    /\ hist = [seen |-> {}, since |-> [m \in Matches |-> {}], overlapped |-> FALSE]

----------------------------------------------------------------------------
(***************************************************************************)
(* The table of match credentials.                                         *)
(***************************************************************************)
Stored == Keys(table)

\* Mutants, here and below, are plausible mistakes in the definition they
\* precede; the specification uses none of them.
BoundedNever(s) == s

\* popitem(last=False) until the limit holds.
Bounded(s) == IF Len(s) <= MaxMatches THEN s ELSE WithoutOldest(s, Len(s) - MaxMatches)

Noted(seen, m) ==
    hist' = [hist EXCEPT !.seen = seen,
                         !.since = [k \in Matches |-> IF k = m THEN {} ELSE @[k] \cup {m}]]

\* remember_match
Remember(m) ==
    /\ table' = Bounded(MovedToEnd(table, m))
    /\ Noted(hist.seen \cup {m}, m)

\* A lookup that finds m, in seat_token and spectator_token.  Mutant: m stays
\* where it is.
TouchInPlace(m) == m \in Stored /\ Noted(hist.seen, m) /\ UNCHANGED table

Touch(m) ==
    /\ m \in Stored
    /\ table' = MovedToEnd(table, m)
    /\ Noted(hist.seen, m)

Goto(c, point) == pc' = [pc EXCEPT ![c] = point]

\* The tool returns or raises; its local variables are gone.
Return(c) ==
    /\ Goto(c, "idle")
    /\ op' = [op EXCEPT ![c] = "none"]
    /\ sent' = [sent EXCEPT ![c] = NoTicket]
    /\ target' = [target EXCEPT ![c] = NoMatch]
    /\ reply' = [reply EXCEPT ![c] = NoReply]

----------------------------------------------------------------------------
(***************************************************************************)
(* Requests.                                                               *)
(***************************************************************************)
Request(c, o, t) ==
    /\ pc[c] = "idle"
    /\ Goto(c, "sent")
    /\ op' = [op EXCEPT ![c] = o]
    /\ sent' = [sent EXCEPT ![c] = t]
    /\ hist' = [hist EXCEPT !.overlapped =
                   @ \/ (o \in TicketOps /\ \E d \in Calls : op[d] \in TicketOps)]
    /\ UNCHANGED <<store, service, target, reply>>

\* join_matchmaking, create_bot_match
Start(c, o) == Request(c, o, NoTicket)

\* matchmaking_status and leave_matchmaking send the ticket in memory; without
\* one they raise.
UseTicket(c, o) == ticket # NoTicket /\ Request(c, o, ticket)

Answer(c, status, t, m) ==
    /\ reply' = [reply EXCEPT ![c] = [status |-> status, ticket |-> t, match |-> m]]
    /\ Goto(c, "answered")
    /\ UNCHANGED <<store, op, sent, target, hist>>

\* The service queues the caller under a new ticket, finds a match at once, or
\* fails; it may leave the ticket or the match out.
ServeJoin(c) ==
    /\ pc[c] = "sent" /\ op[c] = "join"
    /\ \E t \in Tickets, st \in Statuses :
          /\ queue[t] = "unissued"
          /\ queue' = [queue EXCEPT ![t] = st]
          /\ \E u \in {t, NoTicket} :
                \/ /\ st # "matched"
                   /\ Answer(c, st, u, NoMatch)
                   /\ UNCHANGED <<pairing, made>>
                \/ /\ st = "matched"
                   /\ \E m \in Matches \ made :
                         /\ pairing' = [pairing EXCEPT ![t] = m]
                         /\ made' = made \cup {m}
                         /\ \E d \in {m, NoMatch} : Answer(c, st, u, d)
    /\ UNCHANGED late

\* It answers with the ticket's state, the match included once there is one.
ServeStatus(c) ==
    /\ pc[c] = "sent" /\ op[c] = "status"
    /\ \E u \in {sent[c], NoTicket}, d \in {pairing[sent[c]], NoMatch} :
          Answer(c, queue[sent[c]], u, d)
    /\ UNCHANGED service

\* It cancels a waiting ticket, and refuses any other (CallFails).
Cancel(t) == queue[t] = "waiting" /\ queue' = [queue EXCEPT ![t] = "over"]

ServeLeave(c) ==
    /\ pc[c] = "sent" /\ op[c] = "leave"
    /\ Cancel(sent[c])
    /\ Answer(c, "over", NoTicket, NoMatch)
    /\ UNCHANGED <<pairing, made, late>>

ServeCreate(c) ==
    /\ pc[c] = "sent" /\ op[c] = "create"
    /\ \E m \in Matches \ made :
          /\ made' = made \cup {m}
          /\ Answer(c, "matched", NoTicket, m)
    /\ UNCHANGED <<queue, pairing, late>>

\* The request or its reply is refused, malformed, lost or too late; a leave
\* may still arrive.
CallFails(c) ==
    /\ pc[c] \in {"sent", "answered"}
    /\ Return(c)
    /\ \/ UNCHANGED late
       \/ pc[c] = "sent" /\ op[c] = "leave" /\ late' = late \cup {sent[c]}
    /\ UNCHANGED <<store, queue, pairing, made, hist>>

LateLeave(t) ==
    /\ t \in late
    /\ late' = late \ {t}
    /\ Cancel(t)
    /\ UNCHANGED <<store, pairing, made, locals, hist>>

\* The service finds a match for a waiting ticket, or gives up on it.
Pair(t, m) ==
    /\ queue[t] = "waiting" /\ m \notin made
    /\ queue' = [queue EXCEPT ![t] = "matched"]
    /\ pairing' = [pairing EXCEPT ![t] = m]
    /\ made' = made \cup {m}
    /\ UNCHANGED <<store, late, locals, hist>>

GiveUp(t) ==
    /\ Cancel(t)
    /\ UNCHANGED <<store, pairing, made, late, locals, hist>>

----------------------------------------------------------------------------
(***************************************************************************)
(* Replies: _matchmaking_result, step by step.                             *)
(***************************************************************************)
Polled(c) == op[c] \in {"join", "status"}

\* A ticket in the reply is remembered.
StoreTicket(c) ==
    /\ pc[c] = "answered" /\ Polled(c)
    /\ reply[c].ticket # NoTicket
    /\ ticket' = reply[c].ticket
    /\ Goto(c, "rest")
    /\ UNCHANGED <<table, service, op, sent, target, reply, hist>>

\* A join must come with one while it waits: "did not return a private ticket".
TicketMissing(c) == op[c] = "join" /\ reply[c].status = "waiting"

TicketRefused(c) ==
    /\ pc[c] = "answered" /\ reply[c].ticket = NoTicket /\ TicketMissing(c)
    /\ Return(c)
    /\ UNCHANGED <<store, service, hist>>

\* The rest of the reply is read once its ticket is dealt with.
Rest(c) ==
    /\ Polled(c)
    /\ \/ pc[c] = "rest"
       \/ pc[c] = "answered" /\ reply[c].ticket = NoTicket /\ ~TicketMissing(c)

\* Still waiting.
Wait(c) ==
    /\ Rest(c) /\ reply[c].status = "waiting"
    /\ Return(c)
    /\ UNCHANGED <<store, service, hist>>

\* The delivered match is remembered.
Deliver(c) ==
    /\ Rest(c) /\ reply[c].status = "matched" /\ reply[c].match # NoMatch
    /\ Remember(reply[c].match)
    /\ Goto(c, "clear")
    /\ UNCHANGED <<ticket, service, op, sent, target, reply>>

\* Mutant: the ticket is erased before the delivery is looked at.
DeliverClearing(c) ==
    /\ Rest(c) /\ reply[c].status = "matched" /\ reply[c].match = NoMatch
    /\ ticket' = NoTicket
    /\ Return(c)
    /\ UNCHANGED <<table, service, hist>>

\* A delivery that is missing or malformed is an error; the ticket stays.
DeliverRefused(c) ==
    /\ Rest(c) /\ reply[c].status = "matched" /\ reply[c].match = NoMatch
    /\ Return(c)
    /\ UNCHANGED <<store, service, hist>>

\* The match is remembered, but its URL is one urljoin raises on.
DeliverBreaks(c) ==
    /\ pc[c] = "clear"
    /\ Return(c)
    /\ UNCHANGED <<store, service, hist>>

\* clear_ticket, after a match, a cancelled or failed poll, or a leave.
Clear(c) ==
    /\ \/ pc[c] = "clear"
       \/ Rest(c) /\ reply[c].status = "over"
       \/ pc[c] = "answered" /\ op[c] = "leave"
    /\ ticket' = NoTicket
    /\ Return(c)
    /\ UNCHANGED <<table, service, hist>>

\* create_bot_match remembers its match.
Created(c) ==
    /\ pc[c] = "answered" /\ op[c] = "create"
    /\ Remember(reply[c].match)
    /\ Return(c)
    /\ UNCHANGED <<ticket, service>>

----------------------------------------------------------------------------
\* get_match_state, submit_action and a share with a spectator token look their
\* credential up; what follows touches the store no more.  A match that is not
\* stored is served with the environment's credential or refused, and the store
\* is as before.
UseMatch(c, m) ==
    /\ pc[c] = "idle"
    /\ Touch(m)
    /\ UNCHANGED <<ticket, service, locals>>

\* share_replay looks a match up.  Without a spectator token, or without the
\* match, it looks the seat token up, under the lock again; with one it is
\* done, as in UseMatch.
Share(c, m) ==
    /\ pc[c] = "idle"
    /\ \/ Touch(m)
       \/ m \notin Stored /\ UNCHANGED <<table, hist>>
    /\ Goto(c, "share")
    /\ op' = [op EXCEPT ![c] = "share"]
    /\ target' = [target EXCEPT ![c] = m]
    /\ UNCHANGED <<ticket, service, sent, reply>>

ShareSeat(c) ==
    /\ pc[c] = "share"
    /\ \/ Touch(target[c])
       \/ target[c] \notin Stored /\ UNCHANGED <<table, hist>>
    /\ Return(c)
    /\ UNCHANGED <<ticket, service>>

Next ==
    \/ \E c \in Calls :
          \/ \E o \in {"join", "create"} : Start(c, o)
          \/ \E o \in {"status", "leave"} : UseTicket(c, o)
          \/ ServeJoin(c) \/ ServeStatus(c) \/ ServeLeave(c) \/ ServeCreate(c)
          \/ CallFails(c)
          \/ StoreTicket(c) \/ Wait(c) \/ Deliver(c) \/ DeliverRefused(c)
          \/ DeliverBreaks(c) \/ Clear(c) \/ Created(c)
          \/ TicketRefused(c)
          \/ ShareSeat(c)
    \/ \E c \in Calls, m \in Matches : UseMatch(c, m) \/ Share(c, m)
    \/ \E t \in Tickets : LateLeave(t) \/ GiveUp(t)
    \/ \E t \in Tickets, m \in Matches : Pair(t, m)

Spec == Init /\ [][Next]_vars

----------------------------------------------------------------------------
(***************************************************************************)
(* Properties.                                                             *)
(***************************************************************************)

\* Nothing is left to learn from ticket t: it was cancelled, it failed, or its
\* match is in the caller's hands.
Settled(t) ==
    \/ queue[t] = "over"
    \/ queue[t] = "matched" /\ pairing[t] \in hist.seen

\* As long as calls about tickets follow one another, a status or a leave
\* erases the ticket in memory only when it is settled, however requests fail,
\* replies are lost, a leave takes effect late or other tools overlap.
ErasedIsSettled ==
    [][~hist.overlapped /\ ticket # NoTicket /\ ticket' = NoTicket
       /\ (\A c \in Calls : op[c] # "join")
         => Settled(ticket)]_vars

\* A match stays available until max_matches others were delivered or used
\* since it last was, and not longer, whatever calls overlap.
ForgottenWhenCrowded ==
    \A m \in hist.seen :
        m \in Stored <=> Cardinality(hist.since[m]) < MaxMatches

(***************************************************************************)
(* A claim of the repository that the code does not keep.                  *)
(***************************************************************************)

\* "Cancel a waiting ticket and erase it from memory": the ticket a leave
\* erases is the one it has cancelled.
LeaveErasesCancelled ==
    [][\A c \in Calls :
         op[c] = "leave" /\ Clear(c) => ticket \in {NoTicket, sent[c]}]_vars
=============================================================================
