-------------------------- MODULE MatchmakingProofs --------------------------
(***************************************************************************)
(* Theorems about Matchmaking, for any number of calls, tickets and        *)
(* matches.  The first part is about the ticket, the second about the      *)
(* table of matches.                                                       *)
(*                                                                         *)
(* An erased ticket is settled because of what the erasing call learnt of  *)
(* it earlier, at the service.  CallInv keeps that knowledge from the      *)
(* answer to the erasure: it is of final states, which nothing undoes.     *)
(* AloneInv says that the ticket the call asked about is still the one in  *)
(* memory, as long as calls about tickets do not overlap.                  *)
(***************************************************************************)
EXTENDS Matchmaking, OrdersProofs, TLAPS

Typed ==
    /\ ticket \in Tickets \cup {NoTicket}
    /\ queue \in [Tickets -> Statuses \cup {"unissued"}]
    /\ pairing \in [Tickets -> Matches \cup {NoMatch}]
    /\ pc \in [Calls -> Points]
    /\ op \in [Calls -> Ops]
    /\ sent \in [Calls -> Tickets \cup {NoTicket}]
    /\ reply \in [Calls -> [status: Statuses \cup {"unissued"},
                            ticket: Tickets \cup {NoTicket},
                            match: Matches \cup {NoMatch}]]
    /\ hist = [seen |-> hist.seen, since |-> hist.since, overlapped |-> hist.overlapped]
    /\ hist.overlapped \in BOOLEAN

Asks(c) == op[c] \in {"status", "leave"}

\* What a call has learnt of the ticket it asked about.
Learnt(c) ==
    /\ reply[c].ticket \in {sent[c], NoTicket}
    /\ reply[c].status = "over" => queue[sent[c]] = "over"
    /\ reply[c].status = "matched" =>
          queue[sent[c]] = "matched" /\ reply[c].match \in {pairing[sent[c]], NoMatch}
    /\ pc[c] = "clear" => reply[c].status = "matched" /\ reply[c].match = pairing[sent[c]]
                          /\ reply[c].match \in hist.seen

CallInv(c) ==
    /\ Asks(c) => sent[c] \in Tickets
    /\ pc[c] \in {"rest", "clear"} => Polled(c)
    /\ op[c] = "leave" /\ pc[c] = "answered" => queue[sent[c]] = "over"
    /\ op[c] = "status" /\ pc[c] \in {"answered", "rest", "clear"} => Learnt(c)

AloneInv ==
    ~hist.overlapped =>
        /\ \A c, d \in Calls : op[c] \in TicketOps /\ op[d] \in TicketOps => c = d
        /\ \A c \in Calls : Asks(c) => sent[c] = ticket

IInv == Typed /\ (\A c \in Calls : CallInv(c)) /\ AloneInv

\* Final states of tickets, and what the store was given, are for good.
Progress ==
    /\ \A t \in Tickets :
          queue[t] \in {"over", "matched"} => queue'[t] = queue[t] /\ pairing'[t] = pairing[t]
    /\ hist.seen \subseteq hist'.seen

SameCall(c) == pc'[c] = pc[c] /\ op'[c] = op[c] /\ sent'[c] = sent[c] /\ reply'[c] = reply[c]

USE NoneAssumption DEF Points, Ops, TicketOps, Statuses, Asks, Polled

\* Nothing is in memory, and no call is on its way, at the start.
LEMMA InitInv == Init => IInv
  BY DEF Init, IInv, Typed, CallInv, AloneInv, NoReply

----------------------------------------------------------------------------
\* A call that does nothing keeps what it has learnt.
LEMMA OtherCall ==
    ASSUME IInv, Progress, NEW d \in Calls, SameCall(d)
    PROVE  CallInv(d)'
<1>1. CallInv(d) /\ Typed
  BY DEF IInv
<1>2. CASE Asks(d)
  <2>1. sent[d] \in Tickets
    BY <1>1, <1>2 DEF CallInv
  <2>. QED
    BY <1>1, <2>1 DEF CallInv, Learnt, Progress, SameCall, Typed
<1>3. CASE ~Asks(d)
  BY <1>1, <1>3 DEF CallInv, SameCall
<1>. QED
  BY <1>2, <1>3

\* Steps of the service alone.
LEMMA ServiceStep ==
    ASSUME IInv, NEW t \in Tickets,
           LateLeave(t) \/ GiveUp(t) \/ \E m \in Matches : Pair(t, m)
    PROVE  IInv'
<1>1. Progress
  BY DEF IInv, Typed, LateLeave, GiveUp, Pair, Cancel, Progress
<1>2. UNCHANGED <<store, locals, hist>>
  BY DEF LateLeave, GiveUp, Pair
<1>3. \A d \in Calls : CallInv(d)'
  BY <1>1, <1>2, OtherCall DEF locals, SameCall
<1>4. Typed'
  BY <1>2 DEF IInv, Typed, LateLeave, GiveUp, Pair, Cancel, store, locals
<1>5. AloneInv'
  BY <1>2 DEF IInv, AloneInv, store, locals
<1>. QED
  BY <1>3, <1>4, <1>5 DEF IInv

\* A call begins.  One about tickets is alone, or it overlaps another.
LEMMA RequestStep ==
    ASSUME IInv, NEW c \in Calls, NEW o \in Ops \ {"none", "share"}, NEW t, Request(c, o, t),
           o \in {"status", "leave"} => t \in Tickets /\ t = ticket,
           o \in {"join", "create"} => t = NoTicket
    PROVE  IInv'
<1>1. /\ pc' = [pc EXCEPT ![c] = "sent"]
      /\ op' = [op EXCEPT ![c] = o]
      /\ sent' = [sent EXCEPT ![c] = t]
      /\ UNCHANGED <<ticket, queue, pairing, reply>>
  BY DEF Request, Goto, store, service
<1>2. /\ hist'.seen = hist.seen
      /\ hist' = [seen |-> hist'.seen, since |-> hist'.since, overlapped |-> hist'.overlapped]
      /\ hist'.overlapped \in BOOLEAN
      /\ ~hist'.overlapped =>
            ~hist.overlapped /\ (o \in TicketOps => \A d \in Calls : op[d] \notin TicketOps)
  BY DEF IInv, Typed, Request
<1>3. Typed'
  BY <1>1, <1>2 DEF IInv, Typed
<1>4. Progress
  BY <1>1, <1>2 DEF Progress
<1>5. ASSUME NEW d \in Calls PROVE CallInv(d)'
  <2>1. CASE d = c
    BY <1>1, <2>1 DEF IInv, Typed, CallInv
  <2>2. CASE d # c
    BY <1>1, <1>4, <2>2, OtherCall DEF IInv, Typed, SameCall
  <2>. QED
    BY <2>1, <2>2
<1>6. AloneInv'
  BY <1>1, <1>2 DEF IInv, Typed, AloneInv
<1>. QED
  BY <1>3, <1>5, <1>6 DEF IInv

\* A step of call c that leaves the ticket in memory alone: the call goes on
\* with what it knows, or ends.
LEMMA QuietStep ==
    ASSUME IInv, NEW c \in Calls, Progress, Typed',
           \A d \in Calls : d # c => SameCall(d),
           UNCHANGED <<ticket, hist.overlapped>>,
           \/ op'[c] \in {op[c], "none", "share"} /\ sent'[c] = sent[c]
           \/ op'[c] \in {"none", "share"},
           CallInv(c)'
    PROVE  IInv'
<1>1. \A d \in Calls : CallInv(d)'
  BY OtherCall
<1>2. AloneInv'
  <2>1. \A d \in Calls : op'[d] \in TicketOps => op[d] = op'[d] /\ sent'[d] = sent[d]
    BY DEF SameCall
  <2>. QED
    BY <2>1 DEF IInv, AloneInv
<1>. QED
  BY <1>1, <1>2 DEF IInv

\* What is noted of a match does not touch what is known of overlaps.
LEMMA NotedKeeps ==
    ASSUME IInv, NEW S, NEW m, Noted(S, m), hist.seen \subseteq S
    PROVE  /\ hist'.seen = S /\ UNCHANGED hist.overlapped
           /\ hist' = [seen |-> hist'.seen, since |-> hist'.since, overlapped |-> hist'.overlapped]
  BY DEF Noted, IInv, Typed

\* The call ends without a change to the ticket in memory.
LEMMA ReturnStep ==
    ASSUME IInv, NEW c \in Calls, Return(c), UNCHANGED <<ticket, queue, pairing>>,
           \/ UNCHANGED hist
           \/ \E S, m : hist.seen \subseteq S /\ Noted(S, m)
    PROVE  IInv'
<1>1. /\ hist.seen \subseteq hist'.seen /\ UNCHANGED hist.overlapped
      /\ hist' = [seen |-> hist'.seen, since |-> hist'.since, overlapped |-> hist'.overlapped]
  BY NotedKeeps DEF IInv, Typed
<1>2. Typed' /\ op'[c] = "none" /\ pc'[c] = "idle"
  BY <1>1 DEF IInv, Typed, Return, Goto, NoReply
<1>3. \A d \in Calls : d # c => SameCall(d)
  BY DEF IInv, Typed, Return, Goto, SameCall
<1>4. Progress
  BY <1>1 DEF Progress
<1>5. CallInv(c)'
  BY <1>2 DEF CallInv
<1>. QED
  BY <1>1, <1>2, <1>3, <1>4, <1>5, QuietStep

\* The service answers.  What it says of the ticket asked about is true.
LEMMA AnswerStep ==
    ASSUME IInv, NEW c \in Calls,
           ServeJoin(c) \/ ServeStatus(c) \/ ServeLeave(c) \/ ServeCreate(c)
    PROVE  IInv'
<1>0. IInv /\ Typed /\ CallInv(c)
  BY DEF IInv
<1>1. PICK st \in Statuses \cup {"unissued"}, t \in Tickets \cup {NoTicket},
           m \in Matches \cup {NoMatch} : Answer(c, st, t, m)
  <2>1. CASE ServeJoin(c)
    BY <2>1 DEF ServeJoin
  <2>2. CASE ServeStatus(c)
    <3>1. sent[c] \in Tickets
      BY <1>0, <2>2 DEF CallInv, ServeStatus
    <3>. QED
      BY <1>0, <2>2, <3>1 DEF ServeStatus, Typed
  <2>3. CASE ServeLeave(c) \/ ServeCreate(c)
    BY <2>3 DEF ServeLeave, ServeCreate
  <2>. QED
    BY <2>1, <2>2, <2>3
<1>2. /\ reply' = [reply EXCEPT ![c] = [status |-> st, ticket |-> t, match |-> m]]
      /\ pc' = [pc EXCEPT ![c] = "answered"]
      /\ UNCHANGED <<ticket, op, sent, hist>>
  BY <1>1 DEF Answer, Goto, store
<1>3. /\ queue' \in [Tickets -> Statuses \cup {"unissued"}]
      /\ pairing' \in [Tickets -> Matches \cup {NoMatch}]
  BY <1>0 DEF Typed, ServeJoin, ServeStatus, ServeLeave, ServeCreate, Cancel, service
<1>4. Progress
  BY <1>0, <1>2 DEF Typed, Progress, ServeJoin, ServeStatus, ServeLeave, ServeCreate, Cancel, service
<1>5. Typed'
  BY <1>0, <1>2, <1>3 DEF Typed
<1>6. \A d \in Calls : d # c => SameCall(d)
  BY <1>0, <1>2 DEF Typed, SameCall
<1>7. CallInv(c)'
  <2>1. CASE ServeStatus(c)
    <3>1. sent[c] \in Tickets /\ op[c] = "status" /\ UNCHANGED <<queue, pairing>>
      BY <1>0, <2>1 DEF CallInv, ServeStatus, service
    <3>2. PICK u \in {sent[c], NoTicket}, d \in {pairing[sent[c]], NoMatch} :
             reply' = [reply EXCEPT ![c] = [status |-> queue[sent[c]], ticket |-> u, match |-> d]]
      BY <2>1 DEF ServeStatus, Answer
    <3>. QED
      BY <1>0, <1>2, <3>1, <3>2 DEF CallInv, Learnt, Typed
  <2>2. CASE ServeLeave(c)
    <3>1. sent[c] \in Tickets /\ op[c] = "leave" /\ queue' = [queue EXCEPT ![sent[c]] = "over"]
      BY <1>0, <2>2 DEF CallInv, ServeLeave, Cancel
    <3>. QED
      BY <1>0, <1>2, <3>1 DEF CallInv, Typed
  <2>3. CASE ServeJoin(c) \/ ServeCreate(c)
    BY <1>0, <1>2, <2>3 DEF CallInv, Typed, ServeJoin, ServeCreate
  <2>. QED
    BY <2>1, <2>2, <2>3
<1>. QED
  BY <1>0, <1>2, <1>4, <1>5, <1>6, <1>7, QuietStep DEF Typed

\* The delivered match is the one of the ticket asked about.
LEMMA DeliverStep ==
    ASSUME IInv, NEW c \in Calls, Deliver(c)
    PROVE  IInv'
<1>0. IInv /\ Typed /\ CallInv(c)
  BY DEF IInv
<1>1. /\ pc' = [pc EXCEPT ![c] = "clear"]
      /\ UNCHANGED <<ticket, queue, pairing, op, sent, reply>>
      /\ Noted(hist.seen \cup {reply[c].match}, reply[c].match)
      /\ Polled(c) /\ pc[c] \in {"answered", "rest"}
      /\ reply[c].status = "matched" /\ reply[c].match # NoMatch
  BY DEF Deliver, Goto, Remember, service, Rest
<1>2. /\ hist'.seen = hist.seen \cup {reply[c].match} /\ UNCHANGED hist.overlapped
      /\ hist' = [seen |-> hist'.seen, since |-> hist'.since, overlapped |-> hist'.overlapped]
  BY <1>1, NotedKeeps
<1>3. Typed'
  BY <1>0, <1>1, <1>2 DEF Typed
<1>4. Progress
  BY <1>1, <1>2 DEF Progress
<1>5. \A d \in Calls : d # c => SameCall(d)
  BY <1>0, <1>1 DEF Typed, SameCall
<1>6. CallInv(c)'
  BY <1>0, <1>1, <1>2 DEF CallInv, Learnt, Typed
<1>. QED
  BY <1>1, <1>2, <1>3, <1>4, <1>5, <1>6, QuietStep

\* The ticket in a reply is the one in memory unless calls overlap or join.
LEMMA StoreStep ==
    ASSUME IInv, NEW c \in Calls, StoreTicket(c)
    PROVE  IInv'
<1>0. IInv /\ Typed /\ CallInv(c) /\ AloneInv
  BY DEF IInv
<1>1. /\ pc[c] = "answered" /\ Polled(c)
      /\ reply[c].ticket # NoTicket /\ ticket' = reply[c].ticket
      /\ pc' = [pc EXCEPT ![c] = "rest"]
      /\ UNCHANGED <<queue, pairing, op, sent, reply, hist>>
  BY DEF StoreTicket, Goto, service
<1>2. Typed'
  BY <1>0, <1>1 DEF Typed
<1>3. Progress
  BY <1>1 DEF Progress
<1>4. ASSUME NEW d \in Calls PROVE CallInv(d)'
  <2>1. CASE d = c
    BY <1>0, <1>1, <2>1 DEF CallInv, Learnt, Typed
  <2>2. CASE d # c
    BY <1>0, <1>1, <1>3, <2>2, OtherCall DEF Typed, SameCall
  <2>. QED
    BY <2>1, <2>2
<1>5. AloneInv'
  <2>1. op[c] = "status" => ticket' = sent[c]
    BY <1>0, <1>1 DEF CallInv, Learnt
  <2>. QED
    BY <1>0, <1>1, <2>1 DEF AloneInv
<1>. QED
  BY <1>2, <1>4, <1>5 DEF IInv

\* The call erases the ticket in memory if it is the one it asked about.
LEMMA ClearStep ==
    ASSUME IInv, NEW c \in Calls, Clear(c)
    PROVE  IInv'
<1>0. IInv /\ Typed /\ CallInv(c) /\ AloneInv
  BY DEF IInv
<1>1. /\ op[c] \in TicketOps /\ ticket' = NoTicket
      /\ UNCHANGED <<queue, pairing, hist>>
      /\ pc' = [pc EXCEPT ![c] = "idle"] /\ op' = [op EXCEPT ![c] = "none"]
      /\ sent' = [sent EXCEPT ![c] = NoTicket] /\ reply' = [reply EXCEPT ![c] = NoReply]
  BY <1>0 DEF Clear, Return, Goto, service, Rest, CallInv
<1>2. Typed'
  BY <1>0, <1>1 DEF Typed, NoReply
<1>3. Progress
  BY <1>1 DEF Progress
<1>4. ASSUME NEW d \in Calls PROVE CallInv(d)'
  <2>1. CASE d = c
    BY <1>0, <1>1, <2>1 DEF CallInv, Typed
  <2>2. CASE d # c
    BY <1>0, <1>1, <1>3, <2>2, OtherCall DEF Typed, SameCall
  <2>. QED
    BY <2>1, <2>2
<1>5. AloneInv'
  BY <1>0, <1>1 DEF AloneInv, Typed
<1>. QED
  BY <1>2, <1>4, <1>5 DEF IInv

\* Uses of the table: none is about a ticket.
LEMMA UseStep ==
    ASSUME IInv, NEW c \in Calls, NEW m, UseMatch(c, m) \/ Share(c, m)
    PROVE  IInv'
<1>0. IInv /\ Typed /\ CallInv(c)
  BY DEF IInv
<1>1. UNCHANGED hist \/ Noted(hist.seen, m)
  BY DEF UseMatch, Share, Touch
<1>2. /\ hist.seen \subseteq hist'.seen /\ UNCHANGED hist.overlapped
      /\ hist' = [seen |-> hist'.seen, since |-> hist'.since, overlapped |-> hist'.overlapped]
  BY <1>0, <1>1, NotedKeeps DEF Typed
<1>3. /\ UNCHANGED <<ticket, queue, pairing, sent, reply>>
      /\ \/ UNCHANGED <<pc, op>>
         \/ pc' = [pc EXCEPT ![c] = "share"] /\ op' = [op EXCEPT ![c] = "share"]
  BY DEF UseMatch, Share, Goto, service, locals
<1>4. Typed' /\ Progress
  BY <1>0, <1>2, <1>3 DEF Typed, Progress
<1>5. \A d \in Calls : d # c => SameCall(d)
  BY <1>0, <1>3 DEF Typed, SameCall
<1>6. CallInv(c)'
  <2>1. CASE UNCHANGED <<pc, op>>
    BY <1>0, <1>3, <1>4, <2>1, OtherCall DEF SameCall
  <2>2. CASE pc' = [pc EXCEPT ![c] = "share"] /\ op' = [op EXCEPT ![c] = "share"]
    BY <1>0, <2>2 DEF CallInv, Typed
  <2>. QED
    BY <1>3, <2>1, <2>2
<1>7. op'[c] \in {op[c], "none", "share"} /\ sent'[c] = sent[c]
  BY <1>0, <1>3 DEF Typed
<1>. QED
  BY <1>2, <1>3, <1>4, <1>5, <1>6, <1>7, QuietStep

----------------------------------------------------------------------------
\* Every step keeps what calls rely on.
LEMMA NextInv == IInv /\ [Next]_vars => IInv'
<1> SUFFICES ASSUME IInv, [Next]_vars PROVE IInv'
  OBVIOUS
<1>1. ASSUME NEW c \in Calls, NEW o \in {"join", "create"}, Start(c, o) PROVE IInv'
  BY <1>1, RequestStep DEF Start
<1>2. ASSUME NEW c \in Calls, NEW o \in {"status", "leave"}, UseTicket(c, o) PROVE IInv'
  <2>1. ticket \in Tickets
    BY <1>2 DEF UseTicket, IInv, Typed
  <2>. QED
    BY <1>2, <2>1, RequestStep DEF UseTicket
<1>3. ASSUME NEW c \in Calls,
             ServeJoin(c) \/ ServeStatus(c) \/ ServeLeave(c) \/ ServeCreate(c)
      PROVE  IInv'
  BY <1>3, AnswerStep
<1>4. ASSUME NEW c \in Calls,
             \/ CallFails(c) \/ Wait(c) \/ DeliverRefused(c) \/ DeliverBreaks(c)
             \/ TicketRefused(c)
      PROVE  IInv'
  <2>1. Return(c) /\ UNCHANGED <<ticket, queue, pairing, hist>>
    BY <1>4 DEF CallFails, Wait, DeliverRefused, DeliverBreaks, TicketRefused, store, service
  <2>. QED
    BY <2>1, ReturnStep
<1>5. ASSUME NEW c \in Calls, Created(c) \/ ShareSeat(c) PROVE IInv'
  <2>1. Return(c) /\ UNCHANGED <<ticket, queue, pairing>>
    BY <1>5 DEF Created, ShareSeat, service
  <2>2. UNCHANGED hist \/ \E S, m : hist.seen \subseteq S /\ Noted(S, m)
    <3>1. CASE Created(c)
      <4>1. Noted(hist.seen \cup {reply[c].match}, reply[c].match)
        BY <3>1 DEF Created, Remember
      <4>. QED
        BY <4>1
    <3>2. CASE ShareSeat(c)
      <4>1. UNCHANGED hist \/ Noted(hist.seen, target[c])
        BY <3>2 DEF ShareSeat, Touch
      <4>. QED
        BY <4>1
    <3>. QED
      BY <1>5, <3>1, <3>2
  <2>. QED
    BY <2>1, <2>2, ReturnStep
<1>6. ASSUME NEW c \in Calls, StoreTicket(c) \/ Deliver(c) \/ Clear(c) PROVE IInv'
  BY <1>6, StoreStep, DeliverStep, ClearStep
<1>7. ASSUME NEW c \in Calls, NEW m \in Matches, UseMatch(c, m) \/ Share(c, m) PROVE IInv'
  BY <1>7, UseStep
<1>8. ASSUME NEW t \in Tickets, LateLeave(t) \/ GiveUp(t) \/ \E m \in Matches : Pair(t, m)
      PROVE  IInv'
  BY <1>8, ServiceStep
<1>9. CASE UNCHANGED vars
  <2>1. Progress /\ Typed' /\ \A d \in Calls : SameCall(d)
    BY <1>9 DEF vars, store, service, locals, IInv, Typed, Progress, SameCall
  <2>2. \A d \in Calls : CallInv(d)'
    BY <2>1, OtherCall
  <2>3. AloneInv'
    BY <1>9 DEF vars, store, locals, IInv, AloneInv
  <2>. QED
    BY <2>1, <2>2, <2>3 DEF IInv
<1>. QED
  BY <1>1, <1>2, <1>3, <1>4, <1>5, <1>6, <1>7, <1>8, <1>9 DEF Next

\* Who erases the ticket in memory, and what it has learnt of it.
LEMMA Erasure ==
    ASSUME IInv, [Next]_vars, ~hist.overlapped, ticket # NoTicket, ticket' = NoTicket,
           \A c \in Calls : op[c] # "join"
    PROVE  Settled(ticket)
<1>1. PICK c \in Calls : Clear(c)
  BY DEF Next, vars, store, Start, UseTicket, Request, ServeJoin, ServeStatus, ServeLeave,
     ServeCreate, Answer, CallFails, StoreTicket, Wait, Deliver, DeliverRefused, DeliverBreaks,
     Created, TicketRefused, ShareSeat, UseMatch, Share, LateLeave, GiveUp, Pair
<1>2. CallInv(c) /\ AloneInv
  BY DEF IInv
<1>3. Asks(c) /\ sent[c] = ticket
  BY <1>1, <1>2 DEF Clear, Rest, CallInv, AloneInv
<1>. QED
  BY <1>1, <1>2, <1>3 DEF Clear, Rest, CallInv, Learnt, Settled

\* A status or a leave that no other call about tickets overlaps erases only a
\* ticket that is cancelled, has failed, or whose match the store was given
\* (_matchmaking_result and tool_leave_matchmaking).
THEOREM ErasedAreSettled == Spec => ErasedIsSettled
<1>1. IInv /\ [Next]_vars =>
        [~hist.overlapped /\ ticket # NoTicket /\ ticket' = NoTicket
           /\ (\A c \in Calls : op[c] # "join") => Settled(ticket)]_vars
  BY Erasure
<1>. QED
  BY <1>1, InitInv, NextInv, PTL DEF Spec, ErasedIsSettled

----------------------------------------------------------------------------
(***************************************************************************)
(* The types of all variables, and the table of matches.                   *)
(*                                                                         *)
(* The table is the tail of the order of last use: what was used since the *)
(* i-th match last was is what comes after it.  So a match is forgotten    *)
(* with MaxMatches others behind it, and a stored one has fewer.           *)
(***************************************************************************)

\* The service is only asked about, and only answers with, tickets it issued.
IssuedInv ==
    /\ ticket # NoTicket => queue[ticket] # "unissued"
    /\ \A c \in Calls :
          /\ sent[c] # NoTicket => queue[sent[c]] # "unissued"
          /\ reply[c].ticket # NoTicket => queue[reply[c].ticket] # "unissued"

CreatedInv ==
    \A c \in Calls : op[c] = "create" /\ pc[c] = "answered" => reply[c].match # NoMatch

TableInv ==
    /\ table \in Seq(Matches) /\ Len(table) <= MaxMatches /\ Distinct(table)
    /\ hist.since \in [Matches -> SUBSET Matches] /\ hist.seen \subseteq Matches
    /\ \A i \in DOMAIN table : hist.since[table[i]] = After(table, i)
    /\ Stored \subseteq hist.seen
    /\ \A m \in Matches : IsFiniteSet(hist.since[m])
    /\ \A m \in hist.seen \ Stored : Cardinality(hist.since[m]) >= MaxMatches

\* What Typed and TableInv leave out of TypeOK.
RestTyped ==
    /\ made \subseteq Matches
    /\ late \subseteq Tickets
    /\ target \in [Calls -> Matches \cup {NoMatch}]
    /\ reply \in [Calls -> Replies]

TInv == IInv /\ RestTyped /\ IssuedInv /\ CreatedInv /\ TableInv

\* What remember_match and a lookup that finds its match do to the table and to
\* the history.
UsedNow(m) ==
    /\ hist'.seen = hist.seen \cup {m}
    /\ hist'.since = [k \in Matches |-> IF k = m THEN {} ELSE hist.since[k] \cup {m}]
    /\ table' = Bounded(MovedToEnd(table, m))

\* Using an entry of the table moves it to the end and forgets none.
LEMMA UsedKeepsTable ==
    ASSUME TableInv, NEW m \in Matches, UsedNow(m)
    PROVE  TableInv'
<1> DEFINE t == MovedToEnd(table, m)
           n == Len(t)
           since == hist.since
           since2 == hist'.since
<1>0. table \in Seq(Matches) /\ Distinct(table)
  BY DEF TableInv
<1>1. /\ t \in Seq(Matches) /\ n \in 1..Len(table) + 1
      /\ Keys(t) = Stored \cup {m} /\ Distinct(t)
      /\ t[n] = m /\ After(t, n) = {}
      /\ \A i \in 1..n - 1 :
            \E p \in DOMAIN table :
               t[i] = table[p] /\ t[i] # m /\ After(t, i) = After(table, p) \cup {m}
  <2>1. IsMoved(t, table, m, Matches)
    BY <1>0, MovedToEndProperties
  <2> HIDE DEF t
  <2>. QED
    BY <2>1 DEF Stored, IsMoved
<1>2. /\ MaxMatches \in Nat /\ MaxMatches >= 1
      /\ Len(table) \in Nat /\ Len(table) <= MaxMatches
      /\ n \in Nat /\ n >= 1 /\ n <= MaxMatches + 1
  BY <1>1, LimitAssumption DEF TableInv
<1>3. /\ since \in [Matches -> SUBSET Matches] /\ hist.seen \subseteq Matches
      /\ hist'.seen = hist.seen \cup {m}
      /\ since2 = [k \in Matches |-> IF k = m THEN {} ELSE since[k] \cup {m}]
      /\ table' = Bounded(t)
  BY DEF TableInv, UsedNow
<1>4. \A p \in DOMAIN table : table[p] \in Matches /\ since[table[p]] = After(table, p)
  BY DEF TableInv
<1>5. \A k \in Matches : IsFiniteSet(since[k])
  BY DEF TableInv
<1>6. \A k \in hist.seen \ Stored : Cardinality(since[k]) >= MaxMatches
  BY DEF TableInv
<1>7. Stored \subseteq hist.seen
  BY DEF TableInv
<1> HIDE DEF t, since, since2
<1>8. \A i \in 1..n : since2[t[i]] = After(t, i)
  <2> SUFFICES ASSUME NEW i \in 1..n PROVE since2[t[i]] = After(t, i)
    OBVIOUS
  <2>1. CASE i = n
    BY <1>1, <1>3, <2>1
  <2>2. CASE i \in 1..n - 1
    BY <1>1, <1>3, <1>4, <2>2
  <2>. QED
    BY <1>2, <2>1, <2>2
<1>9. /\ since2 \in [Matches -> SUBSET Matches] /\ hist'.seen \subseteq Matches
      /\ Keys(t) \subseteq hist'.seen
  BY <1>1, <1>3, <1>7
<1>10. ASSUME NEW k \in Matches PROVE IsFiniteSet(since2[k])
  <2>1. IsFiniteSet({}) /\ IsFiniteSet(since[k] \cup {m})
    BY <1>5, FS_EmptySet, FS_AddElement
  <2>2. since2[k] = {} \/ since2[k] = since[k] \cup {m}
    BY <1>3
  <2>. QED
    BY <2>1, <2>2
\* A match forgotten before stays forgotten, unless it is the one in use.
<1>11. ASSUME NEW k \in hist'.seen \ Keys(t) PROVE Cardinality(since2[k]) >= MaxMatches
  <2>1. k \in hist.seen \ Stored /\ k # m /\ k \in Matches
    BY <1>1, <1>3, <1>11
  <2>2. since2[k] = since[k] \cup {m}
    BY <1>3, <2>1
  <2> DEFINE a == Cardinality(since[k])
             b == Cardinality(since[k] \cup {m})
  <2>3. a \in Nat /\ b \in {a, a + 1}
    BY <1>5, <2>1, FS_AddElement, FS_CardinalityType
  <2>4. a >= MaxMatches
    BY <1>6, <2>1
  <2>5. Cardinality(since2[k]) = b
    BY <2>2
  <2> HIDE DEF a, b
  <2>. QED
    BY <1>2, <2>3, <2>4, <2>5
<1>12. CASE n <= MaxMatches
  <2>1. table' = t
    BY <1>3, <1>12 DEF Bounded
  <2>2. DOMAIN t = 1..n
    BY <1>1
  <2>. QED
    BY <1>1, <1>8, <1>9, <1>10, <1>11, <1>12, <2>1, <2>2 DEF TableInv, Stored, since2, n
\* One too many: the match at the head has MaxMatches others behind it.
<1>13. CASE n = MaxMatches + 1
  <2> DEFINE u == WithoutOldest(t, 1)
  <2>1. table' = u /\ 1 \in 0..n
    BY <1>2, <1>3, <1>13 DEF Bounded, n
  <2>2. /\ u \in Seq(Matches) /\ Len(u) = n - 1 /\ Distinct(u)
        /\ Keys(u) = {t[i] : i \in 2..n}
        /\ \A i \in 1..n - 1 : u[i] = t[i + 1]
    <3>1. t \in Seq(Matches) /\ 1 \in 0..Len(t) /\ Distinct(t)
      BY <1>1, <2>1 DEF n
    <3>2. /\ u \in Seq(Matches) /\ Len(u) = Len(t) - 1 /\ Distinct(u)
          /\ Keys(u) = {t[i] : i \in 1 + 1..Len(t)}
          /\ \A i \in 1..Len(t) - 1 : u[i] = t[i + 1]
      <4>1. IsRest(u, t, 1, Matches)
        BY <3>1, WithoutOldestProperties
      <4> HIDE DEF u
      <4>. QED
        BY <3>1, <4>1 DEF IsRest
    <3> HIDE DEF u
    <3>3. 1 + 1 = 2
      OBVIOUS
    <3>. QED
      BY <3>2, <3>3 DEF n
  <2>3. \A i \in DOMAIN u : i + 1 \in DOMAIN t /\ After(u, i) = After(t, i + 1)
    BY <1>1, <2>1, AfterWithoutOldest DEF n
  <2> HIDE DEF u
  <2>4. DOMAIN u = 1..n - 1 /\ DOMAIN t = 1..n
    BY <1>1, <2>2 DEF n
  <2>5. \A i \in DOMAIN u : since2[u[i]] = After(u, i)
    BY <1>8, <2>2, <2>3, <2>4
  <2>6. Keys(u) \subseteq hist'.seen
    <3>1. \A i \in 2..n : t[i] \in Keys(t)
      BY <1>2, <2>4 DEF Keys
    <3>. QED
      BY <1>9, <2>2, <3>1
  <2>7. ASSUME NEW k \in hist'.seen \ Keys(u) PROVE Cardinality(since2[k]) >= MaxMatches
    <3>1. CASE k \notin Keys(t)
      BY <1>11, <3>1
    <3>2. CASE k \in Keys(t)
      <4>1. PICK i \in 1..n : k = t[i]
        BY <2>4, <3>2 DEF Keys
      <4>2. i = 1
        BY <1>2, <2>2, <2>7, <4>1
      <4>3. since2[k] = After(t, 1)
        BY <1>8, <4>1, <4>2
      <4>4. 2 \in 1..Len(t) + 1
        BY <1>2 DEF n
      <4> DEFINE K == {t[j] : j \in 2..Len(t)}
      <4>5. Cardinality(K) = Len(t) - 2 + 1
        BY <1>1, <4>4, StretchCardinality
      <4>6. After(t, 1) = K
        BY DEF After
      <4> HIDE DEF K
      <4>. QED
        BY <1>2, <1>13, <4>3, <4>5, <4>6 DEF n
    <3>. QED
      BY <3>1, <3>2
  <2>. QED
    BY <1>2, <1>9, <1>10, <1>13, <2>1, <2>2, <2>5, <2>6, <2>7 DEF TableInv, Stored, since2
<1>. QED
  BY <1>2, <1>12, <1>13

\* Of all steps, only the two of the table's operations touch it.
LEMMA TableChange ==
    ASSUME TInv, [Next]_vars
    PROVE  \/ UNCHANGED <<table, hist.seen, hist.since>>
           \/ \E m \in Matches : UsedNow(m)
<1>0. /\ IInv /\ Typed /\ CreatedInv /\ TableInv
      /\ hist = [seen |-> hist.seen, since |-> hist.since, overlapped |-> hist.overlapped]
  BY DEF TInv, IInv, Typed
<1>1. ASSUME NEW m \in Matches, Remember(m) PROVE UsedNow(m)
  BY <1>0, <1>1 DEF Remember, Noted, UsedNow
<1>2. ASSUME NEW m, Touch(m) PROVE m \in Matches /\ UsedNow(m)
  <2>1. m \in Stored /\ table' = MovedToEnd(table, m) /\ Noted(hist.seen, m)
    BY <1>2 DEF Touch
  <2>2. table \in Seq(Matches) /\ Distinct(table) /\ Len(table) <= MaxMatches /\ Stored \subseteq hist.seen
    BY <1>0 DEF TableInv
  <2>3. m \in Matches
    BY <2>1, <2>2 DEF Stored, Keys
  <2>4. IsMoved(MovedToEnd(table, m), table, m, Matches)
    BY <2>2, <2>3, MovedToEndProperties
  <2>5. Len(MovedToEnd(table, m)) = Len(table)
    BY <2>1, <2>4 DEF IsMoved, Stored
  <2>6. table' = Bounded(MovedToEnd(table, m))
    BY <2>1, <2>2, <2>5 DEF Bounded
  <2>7. hist.seen = hist.seen \cup {m}
    BY <2>1, <2>2
  <2>. QED
    BY <1>0, <2>1, <2>3, <2>6, <2>7 DEF Noted, UsedNow
<1>3. ASSUME NEW c \in Calls, Deliver(c) \/ Created(c) PROVE \E m \in Matches : UsedNow(m)
  <2>1. Remember(reply[c].match) /\ reply[c].match \in Matches
    BY <1>0, <1>3 DEF Typed, CreatedInv, Deliver, Created
  <2>. QED
    BY <1>1, <2>1
<1>4. ASSUME NEW c \in Calls, NEW m, UseMatch(c, m) \/ Share(c, m) \/ (ShareSeat(c) /\ m = target[c])
      PROVE  UNCHANGED <<table, hist>> \/ \E k \in Matches : UsedNow(k)
  <2>1. UNCHANGED <<table, hist>> \/ Touch(m)
    BY <1>4 DEF UseMatch, Share, ShareSeat
  <2>. QED
    BY <1>2, <2>1
<1>5. ASSUME NEW c \in Calls, NEW o, NEW t, Request(c, o, t) PROVE UNCHANGED <<table, hist.seen, hist.since>>
  BY <1>0, <1>5 DEF Request, store
<1>6. ASSUME NEW c \in Calls,
             \/ ServeJoin(c) \/ ServeStatus(c) \/ ServeLeave(c) \/ ServeCreate(c)
             \/ CallFails(c) \/ StoreTicket(c) \/ Wait(c) \/ DeliverRefused(c)
             \/ DeliverBreaks(c) \/ Clear(c) \/ TicketRefused(c)
      PROVE  UNCHANGED <<table, hist>>
  BY <1>6 DEF ServeJoin, ServeStatus, ServeLeave, ServeCreate, Answer, CallFails, StoreTicket, Wait,
     DeliverRefused, DeliverBreaks, Clear, TicketRefused, store
<1>7. ASSUME NEW t \in Tickets, LateLeave(t) \/ GiveUp(t) \/ \E m \in Matches : Pair(t, m)
      PROVE  UNCHANGED <<table, hist>>
  BY <1>7 DEF LateLeave, GiveUp, Pair, store
<1>8. CASE UNCHANGED vars
  BY <1>8 DEF vars, store
<1>9. CASE Next
  <2>1. ASSUME NEW c \in Calls,
               \/ \E o \in {"join", "create"} : Start(c, o)
               \/ \E o \in {"status", "leave"} : UseTicket(c, o)
        PROVE UNCHANGED <<table, hist.seen, hist.since>>
    BY <1>5, <2>1 DEF Start, UseTicket
  <2>. QED
    BY <1>3, <1>4, <1>6, <1>7, <1>9, <2>1 DEF Next
<1>. QED
  BY <1>8, <1>9

\* Every step keeps the table's order and bound.
LEMMA TableStep ==
    ASSUME TInv, [Next]_vars
    PROVE  TableInv'
<1>1. CASE UNCHANGED <<table, hist.seen, hist.since>>
  BY <1>1 DEF TInv, TableInv, Stored
<1>2. CASE \E m \in Matches : UsedNow(m)
  BY <1>2, UsedKeepsTable DEF TInv
<1>. QED
  BY <1>1, <1>2, TableChange

\* Queue entries are never unissued again.
StillIssued == \A t \in Tickets : queue[t] # "unissued" => queue'[t] # "unissued"

\* A step of call c alone, or of none, that keeps what the other variables say.
LEMMA RestStep ==
    ASSUME TInv, IInv', NEW c \in Calls, StillIssued,
           made' \subseteq Matches, late' \subseteq Tickets,
           target' \in [Calls -> Matches \cup {NoMatch}],
           reply'[c] \in Replies,
           ticket' # NoTicket => queue'[ticket'] # "unissued",
           sent'[c] # NoTicket => queue'[sent'[c]] # "unissued",
           reply'[c].ticket # NoTicket => queue'[reply'[c].ticket] # "unissued",
           op'[c] = "create" /\ pc'[c] = "answered" => reply'[c].match # NoMatch,
           \A d \in Calls : d # c => SameCall(d)
    PROVE  RestTyped' /\ IssuedInv' /\ CreatedInv'
<1>1. Typed /\ Typed' /\ RestTyped /\ IssuedInv /\ CreatedInv
  BY DEF TInv, IInv
<1>2. \A d \in Calls : reply'[d] \in Replies
  BY <1>1 DEF RestTyped, SameCall
<1>3. RestTyped'
  <2>1. reply' \in [Calls -> Replies]
    BY <1>1, <1>2 DEF Typed
  <2>. QED
    BY <2>1 DEF RestTyped
<1>4. IssuedInv'
  <2>1. ASSUME NEW d \in Calls
        PROVE  /\ sent'[d] # NoTicket => queue'[sent'[d]] # "unissued"
               /\ reply'[d].ticket # NoTicket => queue'[reply'[d].ticket] # "unissued"
    <3>1. CASE d = c
      BY <3>1
    <3>2. CASE d # c
      BY <1>1, <3>2 DEF IssuedInv, StillIssued, SameCall, Typed, RestTyped, Replies
    <3>. QED
      BY <3>1, <3>2
  <2>. QED
    BY <2>1 DEF IssuedInv
<1>5. CreatedInv'
  <2> SUFFICES ASSUME NEW d \in Calls, op'[d] = "create", pc'[d] = "answered"
               PROVE  reply'[d].match # NoMatch
    BY DEF CreatedInv
  <2>. QED
    BY <1>1 DEF CreatedInv, SameCall
<1>. QED
  BY <1>3, <1>4, <1>5

\* Every step keeps the types of what is not the table.
LEMMA RestNext ==
    ASSUME TInv, [Next]_vars
    PROVE  RestTyped' /\ IssuedInv' /\ CreatedInv'
<1> USE DEF Replies, NoReply
<1>0. /\ Typed /\ RestTyped /\ IssuedInv /\ CreatedInv /\ IInv'
      /\ \A c \in Calls : CallInv(c)
  BY NextInv DEF TInv, IInv
<1>1. ASSUME NEW c \in Calls, NEW o \in Ops \ {"none", "share"}, NEW t \in {NoTicket, ticket},
             Request(c, o, t)
      PROVE  RestTyped' /\ IssuedInv' /\ CreatedInv'
  <2>1. /\ pc' = [pc EXCEPT ![c] = "sent"] /\ op' = [op EXCEPT ![c] = o]
        /\ sent' = [sent EXCEPT ![c] = t]
        /\ UNCHANGED <<ticket, queue, made, late, target, reply>>
    BY <1>1 DEF Request, Goto, store, service
  <2>2. StillIssued /\ \A d \in Calls : d # c => SameCall(d)
    BY <1>0, <2>1 DEF StillIssued, SameCall, Typed
  <2>. QED
    BY <1>0, <2>1, <2>2, RestStep DEF Typed, RestTyped, IssuedInv
<1>2. ASSUME NEW c \in Calls, Return(c), UNCHANGED queue, ticket' \in {ticket, NoTicket},
             made' = made, late' \subseteq late \cup {sent[c]}, late' \subseteq Tickets
      PROVE  RestTyped' /\ IssuedInv' /\ CreatedInv'
  <2>1. /\ pc' = [pc EXCEPT ![c] = "idle"] /\ op' = [op EXCEPT ![c] = "none"]
        /\ sent' = [sent EXCEPT ![c] = NoTicket]
        /\ target' = [target EXCEPT ![c] = NoMatch]
        /\ reply' = [reply EXCEPT ![c] = NoReply]
    BY <1>2 DEF Return, Goto
  <2>2. StillIssued /\ \A d \in Calls : d # c => SameCall(d)
    BY <1>0, <1>2, <2>1 DEF StillIssued, SameCall, Typed
  <2>3. /\ sent'[c] = NoTicket /\ reply'[c] = NoReply /\ NoReply \in Replies
        /\ op'[c] = "none"
    BY <1>0, <2>1 DEF Typed
  <2>4. target' \in [Calls -> Matches \cup {NoMatch}]
    BY <1>0, <2>1 DEF RestTyped
  <2>. QED
    BY <1>0, <1>2, <2>2, <2>3, <2>4, RestStep DEF RestTyped, IssuedInv
<1>3. ASSUME NEW c \in Calls,
             \/ ServeJoin(c) \/ ServeStatus(c) \/ ServeLeave(c) \/ ServeCreate(c)
      PROVE  RestTyped' /\ IssuedInv' /\ CreatedInv'
  <2>1. PICK st, t, m : Answer(c, st, t, m) /\ st \in Statuses
                        /\ t \in Tickets \cup {NoTicket} /\ m \in Matches \cup {NoMatch}
                        /\ (t # NoTicket => queue'[t] # "unissued")
                        /\ (op[c] = "create" => m # NoMatch)
    <3>1. CASE ServeJoin(c)
      <4>1. PICK t \in Tickets, st \in Statuses :
              /\ op[c] = "join" /\ queue' = [queue EXCEPT ![t] = st]
              /\ \E u \in {t, NoTicket}, m \in Matches \cup {NoMatch} : Answer(c, st, u, m)
        BY <3>1 DEF ServeJoin
      <4>2. queue'[t] # "unissued"
        BY <1>0, <4>1 DEF Typed
      <4>. QED
        BY <4>1, <4>2
    <3>2. CASE ServeStatus(c)
      <4>1. sent[c] \in Tickets /\ op[c] = "status" /\ UNCHANGED queue
        BY <1>0, <3>2 DEF CallInv, ServeStatus, service
      <4>2. queue[sent[c]] \in Statuses
        BY <1>0, <4>1 DEF IssuedInv, Typed
      <4>3. PICK u \in {sent[c], NoTicket}, d \in {pairing[sent[c]], NoMatch} :
                Answer(c, queue[sent[c]], u, d)
        BY <3>2 DEF ServeStatus
      <4>. QED
        BY <1>0, <4>1, <4>2, <4>3 DEF Typed
    <3>3. CASE ServeLeave(c)
      <4>1. op[c] = "leave" /\ Answer(c, "over", NoTicket, NoMatch)
        BY <3>3 DEF ServeLeave
      <4>. QED
        BY <4>1
    <3>4. CASE ServeCreate(c)
      <4>1. PICK m \in Matches : Answer(c, "matched", NoTicket, m)
        BY <3>4 DEF ServeCreate
      <4>. QED
        BY <4>1
    <3>. QED
      BY <1>3, <3>1, <3>2, <3>3, <3>4
  <2>2. /\ reply' = [reply EXCEPT ![c] = [status |-> st, ticket |-> t, match |-> m]]
        /\ pc' = [pc EXCEPT ![c] = "answered"]
        /\ UNCHANGED <<ticket, op, sent, target>>
    BY <2>1 DEF Answer, Goto, store
  <2>3. StillIssued
    BY <1>0, <1>3 DEF StillIssued, Typed, ServeJoin, ServeStatus, ServeLeave, ServeCreate, Cancel, service
  <2>4. \A d \in Calls : d # c => SameCall(d)
    BY <1>0, <2>2 DEF SameCall, Typed
  <2>5. made' \subseteq Matches /\ late' \subseteq Tickets
    BY <1>0, <1>3 DEF RestTyped, ServeJoin, ServeStatus, ServeLeave, ServeCreate, service
  <2>6. reply'[c] = [status |-> st, ticket |-> t, match |-> m] /\ op'[c] = op[c] /\ sent'[c] = sent[c]
    BY <1>0, <2>2 DEF Typed
  <2>7. sent'[c] # NoTicket => queue'[sent'[c]] # "unissued"
    BY <1>0, <2>3, <2>6 DEF IssuedInv, StillIssued, Typed
  <2>8. ticket' # NoTicket => queue'[ticket'] # "unissued"
    BY <1>0, <2>2, <2>3 DEF IssuedInv, StillIssued, Typed
  <2>9. reply'[c] \in Replies /\ target' \in [Calls -> Matches \cup {NoMatch}]
    BY <1>0, <2>1, <2>2, <2>6 DEF RestTyped
  <2>. QED
    BY <1>0, <2>1, <2>3, <2>4, <2>5, <2>6, <2>7, <2>8, <2>9, RestStep
<1>4. ASSUME NEW c \in Calls, StoreTicket(c) \/ Deliver(c)
      PROVE  RestTyped' /\ IssuedInv' /\ CreatedInv'
  <2>1. PICK point \in {"rest", "clear"} : pc' = [pc EXCEPT ![c] = point]
    BY <1>4 DEF StoreTicket, Deliver, Goto
  <2>2. /\ UNCHANGED <<queue, made, late, op, sent, target, reply>>
        /\ ticket' \in {ticket, reply[c].ticket}
    BY <1>4 DEF StoreTicket, Deliver, service
  <2>3. StillIssued /\ \A d \in Calls : d # c => SameCall(d)
    BY <1>0, <2>1, <2>2 DEF StillIssued, SameCall, Typed
  <2>4. pc'[c] # "answered"
    BY <1>0, <2>1 DEF Typed
  <2>. QED
    BY <1>0, <2>2, <2>3, <2>4, RestStep DEF RestTyped, IssuedInv
<1>5. ASSUME NEW c \in Calls, NEW m \in Matches, UseMatch(c, m) \/ Share(c, m)
      PROVE  RestTyped' /\ IssuedInv' /\ CreatedInv'
  <2>1. /\ UNCHANGED <<ticket, queue, made, late, sent, reply>>
        /\ \/ UNCHANGED <<pc, op, target>>
           \/ pc' = [pc EXCEPT ![c] = "share"] /\ op' = [op EXCEPT ![c] = "share"]
              /\ target' = [target EXCEPT ![c] = m]
    BY <1>5 DEF UseMatch, Share, Goto, service, locals
  <2>2. StillIssued /\ \A d \in Calls : d # c => SameCall(d)
    BY <1>0, <2>1 DEF StillIssued, SameCall, Typed
  <2>3. target' \in [Calls -> Matches \cup {NoMatch}]
    BY <1>0, <2>1 DEF RestTyped
  <2>4. op'[c] = "create" /\ pc'[c] = "answered" => op[c] = "create" /\ pc[c] = "answered"
    BY <1>0, <2>1 DEF Typed
  <2>. QED
    BY <1>0, <2>1, <2>2, <2>3, <2>4, RestStep DEF RestTyped, IssuedInv, CreatedInv
<1>6. ASSUME NEW t \in Tickets, LateLeave(t) \/ GiveUp(t) \/ \E m \in Matches : Pair(t, m)
      PROVE  RestTyped' /\ IssuedInv' /\ CreatedInv'
  <2>1. StillIssued /\ made' \subseteq Matches /\ late' \subseteq Tickets
    BY <1>0, <1>6 DEF StillIssued, Typed, RestTyped, LateLeave, GiveUp, Pair, Cancel
  <2>2. UNCHANGED <<ticket, pc, op, sent, target, reply>>
    BY <1>6 DEF LateLeave, GiveUp, Pair, store, locals
  <2>. QED
    BY <1>0, <2>1, <2>2 DEF RestTyped, IssuedInv, CreatedInv, StillIssued, Typed
<1>7. CASE UNCHANGED vars
  BY <1>0, <1>7 DEF vars, store, service, locals, RestTyped, IssuedInv, CreatedInv
<1>8. ASSUME NEW c \in Calls,
             \/ CallFails(c) \/ Wait(c) \/ DeliverRefused(c) \/ DeliverBreaks(c) \/ Clear(c)
             \/ Created(c) \/ TicketRefused(c) \/ ShareSeat(c)
      PROVE  RestTyped' /\ IssuedInv' /\ CreatedInv'
  <2>1. /\ Return(c) /\ UNCHANGED queue /\ ticket' \in {ticket, NoTicket} /\ made' = made
        /\ \/ late' = late
           \/ op[c] = "leave" /\ late' = late \cup {sent[c]}
    BY <1>8 DEF CallFails, Wait, DeliverRefused, DeliverBreaks, Clear, Created, TicketRefused,
       ShareSeat, store, service
  <2>2. late' \subseteq Tickets
    BY <1>0, <2>1 DEF RestTyped, CallInv
  <2>. QED
    BY <1>2, <2>1, <2>2
<1>9. ASSUME NEW c \in Calls,
             \/ \E o \in {"join", "create"} : Start(c, o)
             \/ \E o \in {"status", "leave"} : UseTicket(c, o)
      PROVE  RestTyped' /\ IssuedInv' /\ CreatedInv'
  BY <1>1, <1>9 DEF Start, UseTicket
<1>. QED
  BY <1>3, <1>4, <1>5, <1>6, <1>7, <1>8, <1>9 DEF Next

\* The table starts empty.
LEMMA TInvInit == Init => TInv
<1> SUFFICES ASSUME Init PROVE TInv
  OBVIOUS
<1>1. RestTyped /\ IssuedInv /\ CreatedInv
  BY DEF Init, RestTyped, IssuedInv, CreatedInv, Replies, NoReply
<1>2. TableInv
  BY LimitAssumption, FS_EmptySet DEF Init, TableInv, Stored, Keys, Distinct
<1>. QED
  BY <1>1, <1>2, InitInv DEF TInv

\* Every step keeps the ticket's part and the table's.
LEMMA TInvStep == TInv /\ [Next]_vars => TInv'
  BY NextInv, RestNext, TableStep DEF TInv

\* All variables of the store, the service and the calls keep their types.
THEOREM TypeCorrect == Spec => []TypeOK
<1>1. TInv => TypeOK
  BY DEF TInv, IInv, Typed, RestTyped, TableInv, TypeOK, HistoryType
<1>. QED
  BY <1>1, TInvInit, TInvStep, PTL DEF Spec

\* A match credential is forgotten exactly when MaxMatches others were delivered
\* or used since it last was (remember_match, seat_token, spectator_token).
THEOREM ForgottenExactlyWhenCrowded == Spec => []ForgottenWhenCrowded
<1>1. TInv => ForgottenWhenCrowded
  <2> SUFFICES ASSUME TInv, NEW m \in hist.seen
               PROVE  m \in Stored <=> Cardinality(hist.since[m]) < MaxMatches
    BY DEF ForgottenWhenCrowded
  <2>1. /\ table \in Seq(Matches) /\ Len(table) <= MaxMatches /\ Distinct(table)
        /\ m \in Matches /\ IsFiniteSet(hist.since[m])
        /\ MaxMatches \in Nat
    BY LimitAssumption DEF TInv, TableInv
  <2>2. ASSUME m \in Stored PROVE Cardinality(hist.since[m]) < MaxMatches
    <3>1. PICK i \in DOMAIN table : table[i] = m
      BY <2>2 DEF Stored, Keys
    <3>2. i + 1 \in 1..Len(table) + 1 /\ i \in Nat /\ Len(table) \in Nat /\ i >= 1
      BY <2>1
    <3> DEFINE K == {table[j] : j \in i + 1..Len(table)}
    <3>3. Cardinality(K) = Len(table) - (i + 1) + 1
      BY <2>1, <3>2, StretchCardinality
    <3>4. hist.since[m] = K
      BY <3>1 DEF TInv, TableInv, After
    <3> HIDE DEF K
    <3>. QED
      BY <2>1, <3>2, <3>3, <3>4
  <2>3. ASSUME m \notin Stored PROVE ~(Cardinality(hist.since[m]) < MaxMatches)
    <3>1. Cardinality(hist.since[m]) >= MaxMatches
      BY <2>3 DEF TInv, TableInv
    <3>2. Cardinality(hist.since[m]) \in Nat
      BY <2>1, FS_CardinalityType
    <3>. QED
      BY <2>1, <3>1, <3>2
  <2>. QED
    BY <2>2, <2>3
<1>. QED
  BY <1>1, TInvInit, TInvStep, PTL DEF Spec
==============================================================================
