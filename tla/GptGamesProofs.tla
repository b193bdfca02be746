--------------------------- MODULE GptGamesProofs ---------------------------
(***************************************************************************)
(* Theorems about GptGames, for any number of calls, sessions and games.   *)
(*                                                                         *)
(* The first part rests on the sessions' locks, not on the order of the    *)
(* registry: whatever is purged, evicted or erased, a call that has its    *)
(* session's lock is the only one with a tool running for it, and the      *)
(* session's call budget and sequence number are written only under that   *)
(* lock.  The second refines GameSession, the third is about the registry. *)
(***************************************************************************)
EXTENDS GptGames, OrdersProofs

\* TypeOK without the registry, whose order plays no part in what follows.
SessionsTypeOK ==
    /\ now \in Nat
    /\ created \in Nat /\ created <= MaxGames
    /\ expires \in [Games -> Nat]
    /\ nextSeq \in [Games -> Nat]
    /\ callsLeft \in [Games -> Nat]
    /\ closed \in [Games -> BOOLEAN]
    /\ holder \in [Games -> Calls \cup {NoCall}]
    /\ seq \in [Games -> Nat]
    /\ over \in [Games -> BOOLEAN]
    /\ late \subseteq Games
    /\ pc \in [Calls -> Points]
    /\ game \in [Calls -> Games \cup {NoGame}]
    /\ op \in [Calls -> Ops]
    /\ clock \in [Calls -> Nat]
    /\ reply \in [Calls -> Replies]
    /\ known \subseteq Games
    /\ hist \in HistoryType

\* Where a call has a session.
HasGame == Points \ {"idle", "play", "create"}

\* A call uses, and a caller knows, only sessions that were created.
GameInv ==
    /\ \A c \in Calls :
          pc[c] \in HasGame => game[c] \in Games /\ game[c] <= created
    /\ \A g \in known : g <= created

TypeInv == SessionsTypeOK /\ GameInv

\* Every step keeps the types, and calls to sessions that exist.
LEMMA TypeStep == TypeInv /\ [Next]_vars => TypeInv'
<1> SUFFICES ASSUME TypeInv, [Next]_vars PROVE TypeInv'
  OBVIOUS
<1> USE CallsAssumption, LimitsAssumption
<1>0. \A g \in Games : g \in Nat /\ g <= MaxGames
  BY DEF Games
<1> USE <1>0 DEF TypeInv, SessionsTypeOK, GameInv, HasGame, Points, HistoryType, Replies, NoReply, Ops,
            session, match, locals
<1>1. ASSUME NEW c \in Calls, PlayReply(c) PROVE TypeInv'
  BY <1>1 DEF PlayReply, Goto
<1>2. ASSUME NEW c \in Calls, PlayFails(c) PROVE TypeInv'
  BY <1>2 DEF PlayFails, Goto, Return
<1>3. ASSUME NEW c \in Calls, Create(c) PROVE TypeInv'
  <2> DEFINE g == created + 1
  <2>1. g \in Games /\ g \in Nat
    BY <1>3 DEF Create, Games
  <2>2. created' = g /\ g <= MaxGames /\ known' = known /\ game' = [game EXCEPT ![c] = g]
    BY <1>3 DEF Create
  <2>3. /\ closed' \in [Games -> BOOLEAN]
        /\ now' = now /\ op' = op /\ clock' = clock /\ reply' = reply /\ holder' = holder /\ late' = late
    BY <1>3 DEF Create, Close
  <2>4. /\ expires' = [expires EXCEPT ![g] = clock[c] + TTL]
        /\ nextSeq' = [nextSeq EXCEPT ![g] = reply[c].seq]
        /\ callsLeft' = [callsLeft EXCEPT ![g] = MaxCalls]
        /\ seq' = [seq EXCEPT ![g] = reply[c].seq]
        /\ over' = [over EXCEPT ![g] = reply[c].over]
        /\ hist' = [hist EXCEPT !.used[g] = now]
    BY <1>3 DEF Create
  <2>5. pc' = [pc EXCEPT ![c] = IF reply[c].over THEN "finished" ELSE "respond"]
    BY <1>3 DEF Create, Goto
  <2>6. clock[c] + TTL \in Nat /\ reply[c].seq \in Nat /\ reply[c].over \in BOOLEAN
    OBVIOUS
  <2> HIDE DEF g
  <2>7. hist' \in HistoryType
    BY <2>1, <2>4
  <2>8. over' \in [Games -> BOOLEAN]
    BY <2>4, <2>6
  <2>9. SessionsTypeOK'
    BY <2>1, <2>2, <2>3, <2>4, <2>5, <2>6, <2>7, <2>8
  <2>10. GameInv'
    BY <2>1, <2>2, <2>5 DEF g
  <2> QED
    BY <2>9, <2>10
<1>4. ASSUME NEW c \in Calls, CloseFinished(c) PROVE TypeInv'
  BY <1>4 DEF CloseFinished, Goto, Close
<1>5. ASSUME NEW c \in Calls, Erase(c) PROVE TypeInv'
  BY <1>5 DEF Erase, Goto, Close, Unlock
<1>6. ASSUME NEW c \in Calls, Respond(c) PROVE TypeInv'
  BY <1>6 DEF Respond, Goto, Return
<1>7. ASSUME NEW c \in Calls, Resolve(c) PROVE TypeInv'
  BY <1>7 DEF Resolve, Used, Goto, Close
<1>8. ASSUME NEW c \in Calls, ResolveRefused(c) PROVE TypeInv'
  BY <1>8 DEF ResolveRefused, Goto, Return, Close
<1>9. ASSUME NEW c \in Calls, WaitRefused(c) PROVE TypeInv'
  BY <1>9 DEF WaitRefused, Goto, Return
<1>10. ASSUME NEW c \in Calls, LimitReached(c) PROVE TypeInv'
  BY <1>10 DEF LimitReached, Goto, Close
<1>11. ASSUME NEW c \in Calls, EraseLimited(c) PROVE TypeInv'
  BY <1>11 DEF EraseLimited, Goto, Return, Close, Unlock
<1>12. ASSUME NEW c \in Calls, InvokeTool(c) PROVE TypeInv'
  <2>1. game[c] \in Games /\ callsLeft[game[c]] - 1 \in Nat
    BY <1>12 DEF InvokeTool, Charge
  <2>2. hist' \in HistoryType
    <3>1. hist.invoked[game[c]] + 1 \in Nat /\ hist.after[game[c]] + 1 \in Nat
      BY <2>1
    <3> DEFINE n == hist.invoked[game[c]] + 1
               m == IF closed[game[c]] THEN hist.after[game[c]] + 1 ELSE hist.after[game[c]]
    <3>2. hist' = [hist EXCEPT !.invoked = [hist.invoked EXCEPT ![game[c]] = n],
                               !.after = [hist.after EXCEPT ![game[c]] = m]]
      BY <1>12 DEF InvokeTool, Charge
    <3>3. n \in Nat /\ m \in Nat
      BY <2>1, <3>1
    <3> HIDE DEF n, m
    <3>4. /\ [hist.invoked EXCEPT ![game[c]] = n] \in [Games -> Nat]
          /\ [hist.after EXCEPT ![game[c]] = m] \in [Games -> Nat]
      BY <2>1, <3>3
    <3> QED
      BY <3>2, <3>4
  <2> QED
    BY <1>12, <2>1, <2>2 DEF InvokeTool, Charge, Goto
<1>24. ASSUME NEW c \in Calls, Enter(c) PROVE TypeInv'
  BY <1>24 DEF Enter, Admit, Goto
<1>13. ASSUME NEW c \in Calls, ServiceTurn(c) PROVE TypeInv'
  BY <1>13 DEF ServiceTurn, Advance, Goto
<1>14. ASSUME NEW c \in Calls, ServiceGet(c) PROVE TypeInv'
  BY <1>14 DEF ServiceGet, Goto
<1>15. ASSUME NEW c \in Calls, ToolFails(c) PROVE TypeInv'
  BY <1>15 DEF ToolFails, Goto, Return, Unlock
<1>16. ASSUME NEW c \in Calls, TakeReply(c) PROVE TypeInv'
  <2>1. game[c] \in Games /\ reply[c].seq \in Nat
    BY <1>16 DEF TakeReply
  <2>2. closed' \in [Games -> BOOLEAN]
    BY <1>16 DEF TakeReply, Close
  <2>3. holder' \in [Games -> Calls \cup {NoCall}]
    BY <1>16 DEF TakeReply, Unlock
  <2>4. \E point \in {"erase", "respond"} : pc' = [pc EXCEPT ![c] = point]
    BY <1>16 DEF TakeReply, Goto
  <2> QED
    BY <1>16, <2>1, <2>2, <2>3, <2>4 DEF TakeReply
<1>17. ASSUME NEW c \in Calls, Play(c) PROVE TypeInv'
  BY <1>17 DEF Play, Goto
<1>18. ASSUME NEW c \in Calls, NEW g \in Games, NEW o \in Ops, UseHandle(c, g, o) PROVE TypeInv'
  BY <1>18 DEF UseHandle, Goto
<1>19. CASE Tick
  BY <1>19 DEF Tick
<1>23. ASSUME NEW g \in Games, LateTurn(g) PROVE TypeInv'
  BY <1>23 DEF LateTurn, Advance
<1>20. CASE UNCHANGED vars
  BY <1>20 DEF vars
<1> HIDE DEF TypeInv
<1> QED
  BY <1>1, <1>2, <1>3, <1>4, <1>5, <1>6, <1>7, <1>8, <1>9, <1>10, <1>11, <1>12, <1>13, <1>14, <1>15, <1>16, <1>17, <1>18, <1>19, <1>20, <1>23, <1>24 DEF Next, CallStep

----------------------------------------------------------------------------
\* A call that was let in holds its session's lock.
Inside == {"entered", "tool", "answered", "limit"}
LockInv == \A c \in Calls : pc[c] \in Inside => holder[game[c]] = c

\* Every tool invoked was charged; a session not created yet is blank.
BudgetInv ==
    \A g \in Games :
        /\ g <= created => hist.invoked[g] + callsLeft[g] = MaxCalls
        /\ g > created => hist.invoked[g] = 0 /\ hist.after[g] = 0 /\ nextSeq[g] = 0

\* A reply that is on its way is no older than the last one recorded.
SeqInv ==
    /\ \A g \in Games : nextSeq[g] <= seq[g]
    /\ \A c \in Calls :
          pc[c] = "answered" =>
              /\ nextSeq[game[c]] <= reply[c].seq
              /\ reply[c].seq <= seq[game[c]]

\* Only the call that is in when a session is closed can be made after that.
AfterInv ==
    /\ \A g \in Games : hist.after[g] <= 1 /\ (~closed[g] => hist.after[g] = 0)
    /\ \A c \in Calls : pc[c] = "entered" => hist.after[game[c]] = 0

Locked == LockInv /\ BudgetInv /\ SeqInv /\ AfterInv

IInv == TypeInv /\ Locked

\* Nothing has been created when the process starts.
LEMMA InitInv == Init => IInv
  BY CallsAssumption, LimitsAssumption
     DEF Init, IInv, Locked, TypeInv, SessionsTypeOK, GameInv, LockInv, BudgetInv, SeqInv,
         AfterInv, Inside, HasGame, Points, HistoryType, Replies, NoReply, Ops, Games, NoGame

\* Every step keeps the sessions' locks, budgets and sequence numbers.
LEMMA InvStep == IInv /\ [Next]_vars => IInv'
<1> SUFFICES ASSUME IInv, [Next]_vars PROVE IInv'
  OBVIOUS
<1> USE CallsAssumption, LimitsAssumption
<1>0. TypeInv /\ TypeInv' /\ \A g \in Games : g \in Nat /\ g <= MaxGames
  BY TypeStep DEF IInv, Games
<1> USE <1>0 DEF IInv, TypeInv, SessionsTypeOK, GameInv, HasGame, Points,
            HistoryType, Replies, NoReply, Locked, LockInv, BudgetInv, SeqInv,
            AfterInv, Inside, session, match, locals
<1>1. ASSUME NEW c \in Calls, PlayReply(c) PROVE Locked'
  BY <1>1 DEF PlayReply, Goto
<1>2. ASSUME NEW c \in Calls, PlayFails(c) PROVE Locked'
  BY <1>2 DEF PlayFails, Goto, Return
<1>3. ASSUME NEW c \in Calls, Create(c) PROVE Locked'
  <2> DEFINE g == created + 1
  <2>1. g \in Games /\ g \in Nat /\ created' = g
    BY <1>3 DEF Create, Games
  <2>2. /\ nextSeq' = [nextSeq EXCEPT ![g] = reply[c].seq]
        /\ seq' = [seq EXCEPT ![g] = reply[c].seq]
        /\ callsLeft' = [callsLeft EXCEPT ![g] = MaxCalls]
        /\ game' = [game EXCEPT ![c] = g]
        /\ hist' = [hist EXCEPT !.used[g] = now]
        /\ holder' = holder /\ reply' = reply
    BY <1>3 DEF Create
  <2>3. pc' = [pc EXCEPT ![c] = IF reply[c].over THEN "finished" ELSE "respond"]
    BY <1>3 DEF Create, Goto
  <2>4. hist'.invoked = hist.invoked /\ hist'.after = hist.after
    BY <2>2
  <2>5. \A h \in Games : h # g => nextSeq'[h] = nextSeq[h] /\ seq'[h] = seq[h]
    BY <2>2
  <2>6. nextSeq'[g] = reply[c].seq /\ seq'[g] = reply[c].seq /\ callsLeft'[g] = MaxCalls
    BY <2>1, <2>2
  <2>7. \A d \in Calls :
           pc'[d] \in Inside =>
              d # c /\ pc'[d] = pc[d] /\ game'[d] = game[d] /\ game[d] # g
    <3> SUFFICES ASSUME NEW d \in Calls, pc'[d] \in Inside
                 PROVE  d # c /\ pc'[d] = pc[d] /\ game'[d] = game[d] /\ game[d] # g
      OBVIOUS
    <3>1. d # c /\ pc'[d] = pc[d]
      BY <2>3
    <3>2. game'[d] = game[d]
      BY <2>2, <3>1
    <3>3. game[d] \in Games /\ game[d] <= created
      BY <3>1
    <3> QED
      BY <2>1, <3>1, <3>2, <3>3
  <2> HIDE DEF g
  <2>8. LockInv'
    <3> SUFFICES ASSUME NEW d \in Calls, pc'[d] \in Inside
                 PROVE  holder'[game'[d]] = d
      OBVIOUS
    <3>1. holder[game[d]] = d
      BY <2>7
    <3> QED
      BY <2>2, <2>7, <3>1
  <2>9. BudgetInv'
    <3>1. hist.invoked[g] = 0
      BY <2>1 DEF g
    <3>2. \A h \in Games : h <= g => h <= created \/ h = g
      BY DEF g
    <3>3. \A h \in Games : h # g => callsLeft'[h] = callsLeft[h]
      BY <2>2
    <3> SUFFICES ASSUME NEW h \in Games
                 PROVE  /\ h <= g => hist'.invoked[h] + callsLeft'[h] = MaxCalls
                        /\ h > g => hist'.invoked[h] = 0 /\ hist'.after[h] = 0 /\ nextSeq'[h] = 0
      BY <2>1
    <3>4. h \in Nat /\ created \in Nat /\ callsLeft'[g] = MaxCalls
      BY <2>6
    <3>5. CASE h = g
      BY <2>1, <2>4, <3>1, <3>4, <3>5
    <3>6. CASE h # g
      <4>1. hist'.invoked[h] = hist.invoked[h] /\ hist'.after[h] = hist.after[h]
            /\ callsLeft'[h] = callsLeft[h] /\ nextSeq'[h] = nextSeq[h]
        BY <2>4, <2>5, <3>3, <3>6
      <4>2. (h <= g => h <= created) /\ (h > g => h > created)
        BY <3>4, <3>6 DEF g
      <4>3. /\ h <= created => hist.invoked[h] + callsLeft[h] = MaxCalls
            /\ h > created => hist.invoked[h] = 0 /\ hist.after[h] = 0 /\ nextSeq[h] = 0
        OBVIOUS
      <4> QED
        BY <4>1, <4>2, <4>3
    <3> QED
      BY <3>5, <3>6
  <2>10. SeqInv'
    BY <2>1, <2>2, <2>5, <2>6, <2>7
  <2>11. AfterInv'
    <3>1. hist.after[g] = 0
      BY <2>1 DEF g
    <3>2. \A h \in Games : h # g /\ ~closed'[h] => ~closed[h]
      BY <1>3 DEF Create, g
    <3>3. \A h \in Games : hist'.after[h] <= 1 /\ (~closed'[h] => hist'.after[h] = 0)
      BY <2>4, <3>1, <3>2
    <3>4. \A d \in Calls : pc'[d] = "entered" => pc[d] = "entered" /\ game'[d] = game[d]
      BY <2>7
    <3> QED
      BY <2>4, <3>3, <3>4
  <2> QED
    BY <2>8, <2>9, <2>10, <2>11
<1>4. ASSUME NEW c \in Calls, CloseFinished(c) PROVE Locked'
  BY <1>4 DEF CloseFinished, Goto, Close
<1>5. ASSUME NEW c \in Calls, Erase(c) PROVE Locked'
  <2>1. LockInv' /\ BudgetInv' /\ SeqInv'
    BY <1>5 DEF Erase, Goto, Unlock
  <2>2. /\ hist' = hist /\ game' = game /\ \A g \in Games : ~closed'[g] => ~closed[g]
        /\ \A d \in Calls : pc'[d] = "entered" => pc[d] = "entered"
    BY <1>5 DEF Erase, Goto, Close
  <2>3. AfterInv'
    BY <2>2
  <2> QED
    BY <2>1, <2>3
<1>6. ASSUME NEW c \in Calls, Respond(c) PROVE Locked'
  BY <1>6 DEF Respond, Goto, Return
<1>7. ASSUME NEW c \in Calls, Resolve(c) PROVE Locked'
  BY <1>7 DEF Resolve, Used, Goto, Close
<1>8. ASSUME NEW c \in Calls, ResolveRefused(c) PROVE Locked'
  BY <1>8 DEF ResolveRefused, Goto, Return, Close
<1>9. ASSUME NEW c \in Calls, WaitRefused(c) PROVE Locked'
  BY <1>9 DEF WaitRefused, Goto, Return
<1>10. ASSUME NEW c \in Calls, LimitReached(c) PROVE Locked'
  BY <1>10 DEF LimitReached, Goto, Close
<1>11. ASSUME NEW c \in Calls, EraseLimited(c) PROVE Locked'
  BY <1>11 DEF EraseLimited, Goto, Return, Unlock, Close
<1>12. ASSUME NEW c \in Calls, InvokeTool(c) PROVE Locked'
  <2> DEFINE g == game[c]
  <2>1. g \in Games /\ g <= created /\ pc[c] = "entered" /\ holder[g] = c /\ hist.after[g] = 0
    BY <1>12 DEF InvokeTool, Charge
  <2>2. LockInv' /\ SeqInv'
    BY <1>12, <2>1 DEF InvokeTool, Charge, Goto
  <2>3. /\ hist'.invoked = [hist.invoked EXCEPT ![g] = @ + 1]
        /\ hist'.after = [hist.after EXCEPT ![g] = IF closed[g] THEN @ + 1 ELSE @]
    BY <1>12 DEF InvokeTool, Charge
  <2>4. callsLeft' = [callsLeft EXCEPT ![g] = @ - 1]
    BY <1>12 DEF InvokeTool, Charge
  <2>5. \A h \in Games : h > created => h # g
    BY <2>1
  <2>6. \A h \in Games : h # g => hist'.after[h] = hist.after[h]
    BY <2>3
  <2>7. hist'.after[g] = IF closed[g] THEN 1 ELSE 0
    BY <2>1, <2>3
  <2>8. BudgetInv'
    BY <1>12, <2>1, <2>3, <2>4, <2>5, <2>6 DEF InvokeTool, Charge
  <2>9. AfterInv'
    <3>1. closed' = closed /\ game' = game /\ pc' = [pc EXCEPT ![c] = "tool"]
      BY <1>12 DEF InvokeTool, Charge, Goto
    <3>2. ASSUME NEW d \in Calls, pc'[d] = "entered"
          PROVE  game[d] \in Games /\ game[d] # g /\ hist.after[game[d]] = 0
      <4>1. pc[d] = "entered" /\ d # c
        BY <3>1, <3>2
      <4>2. holder[game[d]] = d /\ game[d] \in Games /\ hist.after[game[d]] = 0
        BY <4>1
      <4> QED
        BY <2>1, <4>1, <4>2
    <3>3. \A d \in Calls : pc'[d] = "entered" => hist'.after[game'[d]] = 0
      BY <2>6, <3>1, <3>2
    <3> HIDE DEF g
    <3>4. ASSUME NEW h \in Games PROVE hist'.after[h] <= 1 /\ (~closed'[h] => hist'.after[h] = 0)
      <4>1. CASE h = g
        BY <2>7, <3>1, <4>1
      <4>2. CASE h # g
        BY <2>6, <3>1, <4>2
      <4> QED
        BY <4>1, <4>2
    <3> QED
      BY <3>3, <3>4
  <2> QED
    BY <2>2, <2>8, <2>9
<1>24. ASSUME NEW c \in Calls, Enter(c) PROVE Locked'
  <2>1. game[c] \in Games /\ hist.after[game[c]] = 0 /\ holder[game[c]] = NoCall
    BY <1>24 DEF Enter
  <2>2. /\ pc' = [pc EXCEPT ![c] = "entered"] /\ holder' = [holder EXCEPT ![game[c]] = c]
        /\ game' = game /\ hist' = hist /\ closed' = closed /\ created' = created
        /\ callsLeft' = callsLeft /\ nextSeq' = nextSeq /\ seq' = seq /\ reply' = reply
    BY <1>24 DEF Enter, Admit, Goto
  <2>3. LockInv'
    BY <2>1, <2>2
  <2>4. BudgetInv' /\ SeqInv' /\ AfterInv'
    BY <2>1, <2>2
  <2> QED
    BY <2>3, <2>4
<1>13. ASSUME NEW c \in Calls, ServiceTurn(c) PROVE Locked'
  BY <1>13 DEF ServiceTurn, Advance, Goto
<1>14. ASSUME NEW c \in Calls, ServiceGet(c) PROVE Locked'
  BY <1>14 DEF ServiceGet, Goto
<1>15. ASSUME NEW c \in Calls, ToolFails(c) PROVE Locked'
  BY <1>15 DEF ToolFails, Goto, Return, Unlock
<1>16. ASSUME NEW c \in Calls, TakeReply(c) PROVE Locked'
  <2> DEFINE g == game[c]
  <2>1. /\ g \in Games /\ pc[c] = "answered" /\ holder[g] = c
        /\ game' = game /\ reply' = reply /\ seq' = seq /\ created' = created
        /\ callsLeft' = callsLeft /\ hist' = hist
    BY <1>16 DEF TakeReply
  <2>2. /\ pc' \in {[pc EXCEPT ![c] = "erase"], [pc EXCEPT ![c] = "respond"]}
        /\ holder' \in {holder, [holder EXCEPT ![g] = NoCall]}
        /\ nextSeq' \in {nextSeq, [nextSeq EXCEPT ![g] = reply[c].seq]}
    BY <1>16 DEF TakeReply, Goto, Unlock
  <2>3. \A d \in Calls :
           pc'[d] \in Inside =>
              d # c /\ pc'[d] = pc[d] /\ holder[game[d]] = d /\ game[d] \in Games
    <3> SUFFICES ASSUME NEW d \in Calls, pc'[d] \in Inside
                 PROVE  d # c /\ pc'[d] = pc[d] /\ holder[game[d]] = d /\ game[d] \in Games
      OBVIOUS
    <3>1. CASE pc' = [pc EXCEPT ![c] = "erase"]
      BY <3>1
    <3>2. CASE pc' = [pc EXCEPT ![c] = "respond"]
      BY <3>2
    <3> QED
      BY <2>2, <3>1, <3>2
  <2>4. \A d \in Calls :
           pc'[d] \in Inside => game[d] # g
    BY <2>1, <2>3
  <2>5. \A h \in Games :
           /\ nextSeq'[h] <= seq[h]
           /\ h # g => nextSeq'[h] = nextSeq[h] /\ holder'[h] = holder[h]
           /\ h > created => h # g
    <3> SUFFICES ASSUME NEW h \in Games
                 PROVE  /\ nextSeq'[h] <= seq[h]
                        /\ h # g => nextSeq'[h] = nextSeq[h] /\ holder'[h] = holder[h]
                        /\ h > created => h # g
      OBVIOUS
    <3>1. nextSeq[h] <= seq[h] /\ reply[c].seq <= seq[g]
      BY <2>1
    <3>2. nextSeq'[h] = nextSeq[h] \/ (h = g /\ nextSeq'[h] = reply[c].seq)
      BY <2>1, <2>2
    <3>3. h # g => nextSeq'[h] = nextSeq[h] /\ holder'[h] = holder[h]
      BY <2>1, <2>2
    <3>4. g <= created /\ created \in Nat /\ g \in Nat /\ h \in Nat
      BY <2>1
    <3> QED
      BY <3>1, <3>2, <3>3, <3>4
  <2> HIDE DEF g
  <2>6. LockInv'
    BY <2>1, <2>3, <2>4, <2>5
  <2>7. BudgetInv'
    BY <2>1, <2>5
  <2>8. SeqInv'
    BY <2>1, <2>3, <2>4, <2>5
  <2>9. AfterInv'
    <3>1. \A h \in Games : ~closed'[h] => ~closed[h]
      BY <1>16 DEF TakeReply, Close
    <3> QED
      BY <2>1, <2>3, <3>1
  <2> QED
    BY <2>6, <2>7, <2>8, <2>9
<1>17. ASSUME NEW c \in Calls, Play(c) PROVE Locked'
  BY <1>17 DEF Play, Goto
<1>18. ASSUME NEW c \in Calls, NEW g \in Games, NEW o \in Ops, UseHandle(c, g, o)
      PROVE  Locked'
  BY <1>18 DEF UseHandle, Goto
<1>19. ASSUME Tick PROVE Locked'
  BY <1>19 DEF Tick
<1>23. ASSUME NEW g \in Games, LateTurn(g) PROVE Locked'
  BY <1>23 DEF LateTurn, Advance
<1>20. ASSUME UNCHANGED vars PROVE Locked'
  BY <1>20 DEF vars
<1> HIDE <1>0
<1> HIDE DEF Locked, IInv, session, match, locals
<1>21. ASSUME NEW c \in Calls, CallStep(c) PROVE Locked'
  BY <1>1, <1>2, <1>3, <1>4, <1>5, <1>6, <1>7, <1>8, <1>9, <1>10, <1>11, <1>12, <1>13,
     <1>14, <1>15, <1>16, <1>21, <1>24 DEF CallStep
<1>22. Locked'
  BY <1>17, <1>18, <1>19, <1>20, <1>21, <1>23 DEF Next
<1> QED
  BY <1>0, <1>22 DEF IInv

----------------------------------------------------------------------------
\* Sessions, calls and history keep their types (GPTGameSession), and a call
\* has only a session that create has made.
THEOREM SessionsTypeCorrect == Spec => []TypeInv
<1>1. IInv => TypeInv
  BY DEF IInv
<1> QED
  BY <1>1, InitInv, InvStep, PTL DEF Spec

\* No session has more tools invoked than GPT_ACTION_MAX_CALLS_PER_SESSION
\* grants it (_existing_game_sync), over any number of concurrent calls.
THEOREM BudgetKept == Spec => []CallBudget
<1>1. IInv => CallBudget
  <2> SUFFICES ASSUME IInv, NEW g \in Games PROVE hist.invoked[g] <= MaxCalls
    BY DEF CallBudget
  <2>1. hist.invoked[g] \in Nat /\ callsLeft[g] \in Nat /\ created \in Nat /\ g \in Nat
    BY LimitsAssumption DEF IInv, TypeInv, SessionsTypeOK, HistoryType, Games
  <2>2. /\ g <= created => hist.invoked[g] + callsLeft[g] = MaxCalls
        /\ g > created => hist.invoked[g] = 0
    BY DEF IInv, Locked, BudgetInv
  <2> QED
    BY <2>1, <2>2, LimitsAssumption
<1> QED
  BY <1>1, InitInv, InvStep, PTL DEF Spec

\* Two calls never have tools running for one session (session.lock in
\* _existing_game_sync).
THEOREM OneToolAtATime == Spec => []OneToolPerGame
<1>1. IInv => OneToolPerGame
  BY DEF IInv, Locked, LockInv, Inside, OneToolPerGame
<1> QED
  BY <1>1, InitInv, InvStep, PTL DEF Spec

\* Sequence numbers are recorded in the service's order (_existing_game_sync).
THEOREM SeqInOrder == Spec => SeqFollowsMatch
<1>1. ASSUME IInv, IInv', [Next]_vars
      PROVE  \A g \in Games : nextSeq[g] <= nextSeq'[g] /\ nextSeq'[g] <= seq'[g]
  <2> SUFFICES ASSUME NEW g \in Games
               PROVE  nextSeq[g] <= nextSeq'[g] /\ nextSeq'[g] <= seq'[g]
    OBVIOUS
  <2>1. nextSeq[g] \in Nat /\ nextSeq'[g] <= seq'[g]
    BY <1>1 DEF IInv, TypeInv, SessionsTypeOK, Locked, SeqInv
  <2>2. CASE UNCHANGED nextSeq
    BY <2>1, <2>2
  <2>3. ASSUME NEW c \in Calls, TakeReply(c) PROVE nextSeq[g] <= nextSeq'[g]
    BY <1>1, <2>1, <2>3 DEF TakeReply, IInv, TypeInv, SessionsTypeOK, Locked, SeqInv
  <2>4. ASSUME NEW c \in Calls, Create(c) PROVE nextSeq[g] <= nextSeq'[g]
    <3>1. reply[c].seq \in Nat /\ g \in Nat /\ created \in Nat
      BY <1>1 DEF IInv, TypeInv, SessionsTypeOK, Replies, Games
    <3>2. g = created + 1 => nextSeq[g] = 0
      BY <1>1, <3>1 DEF IInv, Locked, BudgetInv
    <3>3. nextSeq' = [nextSeq EXCEPT ![created + 1] = reply[c].seq]
      BY <2>4 DEF Create
    <3>4. nextSeq \in [Games -> Nat]
      BY <1>1 DEF IInv, TypeInv, SessionsTypeOK
    <3> QED
      BY <2>1, <3>1, <3>2, <3>3, <3>4
  <2>5. \/ UNCHANGED nextSeq
        \/ \E c \in Calls : TakeReply(c) \/ Create(c)
    BY <1>1 DEF Next, CallStep, PlayReply, PlayFails, CloseFinished, Erase, Respond,
       Resolve, ResolveRefused, WaitRefused, Enter, Admit, LimitReached, EraseLimited, InvokeTool, Charge,
       ServiceTurn, ServiceGet, ToolFails, Play, UseHandle, Tick, LateTurn, vars, session
  <2> QED
    BY <2>1, <2>2, <2>3, <2>4, <2>5
<1> QED
  BY <1>1, InitInv, InvStep, PTL DEF Spec, SeqFollowsMatch

\* A closed session is never opened again and lets no call in, not even one
\* that had resolved it before (the second check of session.closed).
THEOREM ClosedForGood == Spec => ClosedIsFinal
<1>1. ASSUME IInv, [Next]_vars
      PROVE  \A g \in 1..created :
                closed[g] => closed'[g] /\ Admitted(g)' \subseteq Admitted(g)
  <2> SUFFICES ASSUME NEW g \in 1..created, closed[g]
               PROVE  closed'[g] /\ Admitted(g)' \subseteq Admitted(g)
    OBVIOUS
  <2>1. SessionsTypeOK /\ g \in Games /\ g # created + 1
    <3>1. SessionsTypeOK
      BY <1>1 DEF IInv, TypeInv
    <3>2. created \in Nat /\ created <= MaxGames /\ MaxGames \in Nat
      BY <3>1, LimitsAssumption DEF SessionsTypeOK
    <3> QED
      BY <3>1, <3>2 DEF Games
  <2>2. closed'[g]
    BY <1>1, <2>1 DEF Next, CallStep, PlayReply, PlayFails, Create, CloseFinished, Erase,
       Respond, Resolve, ResolveRefused, WaitRefused, Enter, Admit, LimitReached, EraseLimited,
       InvokeTool, Charge, ServiceTurn, ServiceGet, ToolFails, TakeReply, Play, UseHandle,
       Tick, LateTurn, vars, session, Close
  <2>3. ASSUME NEW d \in Calls, d \in Admitted(g)' PROVE d \in Admitted(g)
    <3> USE <2>1, <2>3 DEF Admitted, AtService, Goto, Return, SessionsTypeOK, session, match, locals
    <3>1. ASSUME NEW c \in Calls,
                 \/ PlayReply(c) \/ PlayFails(c) \/ Create(c) \/ CloseFinished(c) \/ Erase(c)
                 \/ Respond(c) \/ Play(c) \/ \E h \in Games, o \in Ops : UseHandle(c, h, o)
          PROVE  d \in Admitted(g)
      BY <3>1 DEF PlayReply, PlayFails, Create, CloseFinished, Erase, Respond, Play, UseHandle
    <3>2. ASSUME NEW c \in Calls,
                 \/ Resolve(c) \/ ResolveRefused(c) \/ WaitRefused(c) \/ Enter(c)
                 \/ LimitReached(c) \/ EraseLimited(c) \/ InvokeTool(c)
          PROVE  d \in Admitted(g)
      BY <3>2 DEF Resolve, ResolveRefused, WaitRefused, Enter, Admit, LimitReached,
                  EraseLimited, InvokeTool, Charge
    <3>3. ASSUME NEW c \in Calls,
                 ServiceTurn(c) \/ ServiceGet(c) \/ ToolFails(c) \/ TakeReply(c)
          PROVE  d \in Admitted(g)
      BY <3>3 DEF ServiceTurn, ServiceGet, ToolFails, TakeReply
    <3>4. ASSUME (\E h \in Games : LateTurn(h)) \/ Tick \/ UNCHANGED vars
          PROVE  d \in Admitted(g)
      BY <3>4 DEF LateTurn, Tick, vars
    <3> HIDE DEF Admitted
    <3> QED
      BY <1>1, <3>1, <3>2, <3>3, <3>4 DEF Next, CallStep
  <2>4. Admitted(g)' \subseteq Calls
    BY DEF Admitted
  <2> QED
    BY <2>2, <2>3, <2>4
<1> QED
  BY <1>1, InitInv, InvStep, PTL DEF Spec, ClosedIsFinal

\* At most one tool is invoked for a session after the registry has closed it:
\* that of the call which had its lock and had seen it open.
THEOREM LastCallAfterClosing == Spec => []OneCallAfterClosing
<1>1. IInv => OneCallAfterClosing
  BY DEF IInv, Locked, AfterInv, OneCallAfterClosing
<1> QED
  BY <1>1, InitInv, InvStep, PTL DEF Spec

----------------------------------------------------------------------------
(***************************************************************************)
(* GptGames implements GameSession: whatever the registry evicts, expires  *)
(* or erases, and whichever calls hold on to it, a session looks to the    *)
(* service like one that makes its granted calls in turn and lets none in  *)
(* once it is closed.                                                      *)
(***************************************************************************)
StateOf(g)  == IF g > created THEN "none" ELSE IF closed[g] THEN "closed" ELSE "open"
HasLetIn(g) == \E c \in Calls : game[c] = g /\ pc[c] = "entered"
BusyWith(g) == \E c \in Calls : game[c] = g /\ AtService(c)
PhaseOf(g)  == IF HasLetIn(g) THEN "admitted" ELSE IF BusyWith(g) THEN "calling" ELSE "quiet"

\* Where a call is, as its session sees it: let in, at the service, or away.
Away(c) == ~AtService(c) /\ pc[c] # "entered"
Stays(c) ==
    /\ AtService(c)' = AtService(c) /\ (pc'[c] = "entered") = (pc[c] = "entered")
    /\ ~Away(c) => game'[c] = game[c]

\* Sessions whose calls stay where they are keep their phase.
LEMMA SamePhase ==
    ASSUME NEW g, \A c \in Calls : Stays(c) \/ ((game[c] # g \/ Away(c)) /\ (game'[c] # g \/ Away(c)'))
    PROVE  PhaseOf(g)' = PhaseOf(g)
<1>1. HasLetIn(g)' = HasLetIn(g)
  BY DEF HasLetIn, Stays, Away
<1>2. BusyWith(g)' = BusyWith(g)
  BY DEF BusyWith, Stays, Away
<1>. QED
  BY <1>1, <1>2 DEF PhaseOf

\* A step that leaves the calls at the service and the budgets alone, and
\* creates no session, only closes sessions: those of D.
LEMMA ShutStep ==
    ASSUME SessionsTypeOK, NEW D \in SUBSET Games,
           created' = created, callsLeft' = callsLeft,
           \A c \in Calls : Stays(c),
           \A g \in Games : closed'[g] = (closed[g] \/ g \in D)
    PROVE  Session!Next
<1>1. \A g \in Games : StateOf(g)' = IF g \in D /\ StateOf(g) = "open" THEN "closed" ELSE StateOf(g)
  BY DEF StateOf, SessionsTypeOK
<1>2. \A g \in Games : PhaseOf(g)' = PhaseOf(g)
  BY SamePhase
<1>3. Session!Shut(D)
  BY <1>1, <1>2 DEF Session!Shut, Session!Closing, StateOf, PhaseOf, HasLetIn, BusyWith
<1> QED
  BY <1>3 DEF Session!Next

\* Neither the calls let in nor what sessions have left changes.
Elsewhere ==
    /\ callsLeft' = callsLeft
    /\ \A c \in Calls : Stays(c)

\* Steps that close the sessions they purge, or one session, or none.
LEMMA OtherStep ==
    ASSUME IInv, NEW c \in Calls,
           \/ PlayReply(c) \/ PlayFails(c) \/ CloseFinished(c) \/ Erase(c) \/ Respond(c)
           \/ Resolve(c) \/ ResolveRefused(c)
           \/ WaitRefused(c) \/ EraseLimited(c)
           \/ ServiceTurn(c) \/ ServiceGet(c) \/ Play(c)
           \/ \E g \in Games, o \in Ops : UseHandle(c, g, o)
    PROVE  Session!Next
<1> USE DEF AtService, Stays, Away, Goto, Return, Close, session, match, locals
<1>1. SessionsTypeOK
  BY DEF IInv, TypeInv
<1>2. pc \in [Calls -> Points] /\ game \in [Calls -> Games \cup {NoGame}]
      /\ closed \in [Games -> BOOLEAN]
  BY <1>1 DEF SessionsTypeOK
<1>3. created' = created
  BY DEF PlayReply, PlayFails, CloseFinished, Erase, Respond, Resolve, ResolveRefused,
         WaitRefused, EraseLimited, ServiceTurn, ServiceGet, Play, UseHandle
<1>4. Elsewhere
  BY <1>2 DEF Elsewhere, PlayReply, PlayFails, CloseFinished, Erase, Respond, Resolve, ResolveRefused,
         WaitRefused, EraseLimited, ServiceTurn, ServiceGet, Play, UseHandle
<1>5. \E D \in SUBSET Games : \A g \in Games : closed'[g] = (closed[g] \/ g \in D)
  <2>1. CASE UNCHANGED closed
    <3> WITNESS {} \in SUBSET Games
    <3> QED
      BY <1>2, <2>1
  <2>2. CASE \E D : closed' = [g \in Games |-> closed[g] \/ g \in D]
    <3>1. PICK D : closed' = [g \in Games |-> closed[g] \/ g \in D]
      BY <2>2
    <3> WITNESS D \cap Games \in SUBSET Games
    <3> QED
      BY <3>1
  <2> QED
    BY <2>1, <2>2
       DEF PlayReply, PlayFails, CloseFinished, Erase, Respond, Resolve, ResolveRefused,
           WaitRefused, EraseLimited, ServiceTurn, ServiceGet, Play, UseHandle
<1> HIDE DEF AtService, Stays, Away
<1> QED
  BY <1>1, <1>3, <1>4, <1>5, ShutStep DEF Elsewhere

\* A new session; the sessions that make room for it are closed.
LEMMA GrantStep ==
    ASSUME IInv, NEW c \in Calls, Create(c)
    PROVE  Session!Next
<1> DEFINE g == created + 1
<1>1. PICK D \in SUBSET Games : closed' = [h \in Games |-> h # g /\ (closed[h] \/ h \in D)]
  <2>1. \E D : closed' = [h \in Games |-> h # g /\ (closed[h] \/ h \in D)]
    BY DEF Create
  <2>2. PICK D : closed' = [h \in Games |-> h # g /\ (closed[h] \/ h \in D)]
    BY <2>1
  <2>3. closed' = [h \in Games |-> h # g /\ (closed[h] \/ h \in D \cap Games)]
    BY <2>2
  <2> QED
    BY <2>3
<1>2. /\ SessionsTypeOK /\ created \in Nat /\ closed \in [Games -> BOOLEAN]
      /\ g \in Games /\ g \in Nat /\ created < g /\ created' = g
  <2>1. SessionsTypeOK
    BY DEF IInv, TypeInv
  <2>2. created \in Nat /\ closed \in [Games -> BOOLEAN]
    BY <2>1 DEF SessionsTypeOK
  <2>3. created' = g /\ created < MaxGames /\ MaxGames \in Nat
    BY LimitsAssumption DEF Create
  <2> QED
    BY <2>1, <2>2, <2>3 DEF Games
<1>3. \A h \in Games : StateOf(h)' = IF h = g THEN "open"
          ELSE IF h \in D /\ StateOf(h) = "open" THEN "closed" ELSE StateOf(h)
  <2> SUFFICES ASSUME NEW h \in Games
               PROVE  StateOf(h)' = IF h = g THEN "open"
                        ELSE IF h \in D /\ StateOf(h) = "open" THEN "closed" ELSE StateOf(h)
    OBVIOUS
  <2>1. h \in Nat /\ closed'[h] = (h # g /\ (closed[h] \/ h \in D))
    BY <1>1 DEF Games
  <2>2. (h > created') = (h > created /\ h # g)
    BY <1>2, <2>1
  <2> HIDE DEF g
  <2>3. ~(g > created') /\ g > created
    BY <1>2
  <2> QED
    BY <1>2, <2>1, <2>2, <2>3 DEF StateOf
<1>4. \A d \in Calls : Stays(d)
  BY DEF Stays, Away, AtService, Create, Goto, IInv, TypeInv, SessionsTypeOK
<1>5. \A h \in Games : PhaseOf(h)' = PhaseOf(h)
  BY <1>4, SamePhase
<1>6. Session!Grant(g, D)
  BY <1>2, <1>3, <1>5 DEF Session!Grant, Session!Closing, Create, StateOf, PhaseOf, HasLetIn, BusyWith
<1> QED
  BY <1>2, <1>6 DEF Session!Next

\* What a step of a call let in, or about to be, knows of its session.
Going(c, g) ==
    /\ g = game[c] /\ g \in Games /\ g <= created /\ created \in Nat
    /\ pc \in [Calls -> Points] /\ callsLeft \in [Games -> Nat]
    /\ closed \in [Games -> BOOLEAN] /\ game \in [Calls -> Games \cup {NoGame}]
    /\ \A d \in Calls : ~Away(d) => holder[game[d]] = d

\* Such a call has a session that was created, and its lock if it is in.
LEMMA GoingOn ==
    ASSUME IInv, NEW c \in Calls, pc[c] \in HasGame
    PROVE  \E g \in Games : Going(c, g)
<1>1. \A d \in Calls : ~Away(d) => holder[game[d]] = d
  BY DEF IInv, Locked, LockInv, Inside, Away, AtService
<1>. QED
  BY <1>1 DEF Going, IInv, TypeInv, SessionsTypeOK, GameInv

\* A step of the call c that changes the phase of its session g alone.
LEMMA PhaseStep ==
    ASSUME NEW c \in Calls, NEW g \in Games, Going(c, g), game'[c] \in {g, NoGame},
           \A d \in Calls : d # c => pc'[d] = pc[d] /\ game'[d] = game[d],
           ~Away(c) \/ holder[g] = NoCall,
           NEW p, p = IF ~(game'[c] = g) \/ Away(c)' THEN "quiet"
                      ELSE IF pc'[c] = "entered" THEN "admitted" ELSE "calling"
    PROVE  [h \in Games |-> PhaseOf(h)'] = [[h \in Games |-> PhaseOf(h)] EXCEPT ![g] = p]
<1>1. \A h \in Games : h # NoGame
  BY DEF Games, NoGame
<1>2. \A d \in Calls : d # c => Stays(d)
  BY DEF Stays, Away, AtService
<1>3. ASSUME NEW h \in Games, h # g PROVE PhaseOf(h)' = PhaseOf(h)
  BY <1>1, <1>2, <1>3, SamePhase DEF Going
<1>4. \A d \in Calls : d # c => game'[d] # g \/ Away(d)'
  <2>1. \A d \in Calls : d # c => game[d] # g \/ Away(d)
    BY CallsAssumption DEF Going
  <2>. QED
    BY <1>2, <2>1 DEF Stays, Away
<1>5. PhaseOf(g)' = p
  <2>1. /\ HasLetIn(g)' <=> game'[c] = g /\ pc'[c] = "entered"
        /\ BusyWith(g)' <=> game'[c] = g /\ AtService(c)'
    BY <1>4 DEF HasLetIn, BusyWith, Away
  <2>. QED
    BY <2>1 DEF PhaseOf, Away
<1>. QED
  BY <1>3, <1>5

\* The phase of a session that has the call c in is that call's.
LEMMA PhaseNow ==
    ASSUME NEW c \in Calls, NEW g \in Games, Going(c, g)
    PROVE  /\ pc[c] = "entered" => PhaseOf(g) = "admitted"
           /\ AtService(c) => PhaseOf(g) = "calling"
           /\ holder[g] = NoCall => PhaseOf(g) = "quiet"
<1>1. ~Away(c) => \A d \in Calls : game[d] = g /\ ~Away(d) => d = c
  BY DEF Going
<1>2. holder[g] = NoCall => \A d \in Calls : game[d] = g => Away(d)
  BY CallsAssumption DEF Going
<1>3. AtService(c) => pc[c] # "entered"
  BY DEF AtService
<1>. QED
  BY <1>1, <1>2, <1>3 DEF PhaseOf, HasLetIn, BusyWith, Away, Going

\* A call takes the lock of an open session.
LEMMA EnterStep ==
    ASSUME IInv, NEW c \in Calls, Enter(c)
    PROVE  Session!Next
<1>1. PICK g \in Games : Going(c, g)
  BY GoingOn DEF Enter, HasGame, Points
<1>2. /\ pc' = [pc EXCEPT ![c] = "entered"] /\ game' = game /\ holder[g] = NoCall /\ ~closed[g]
      /\ callsLeft' = callsLeft /\ closed' = closed /\ created' = created
  BY <1>1 DEF Enter, Admit, Goto, session, Going
<1>3. StateOf(g) = "open" /\ \A h \in Games : StateOf(h)' = StateOf(h)
  BY <1>1, <1>2 DEF StateOf, Going, Games
<1>4. pc'[c] = "entered" /\ game'[c] = g /\ \A d \in Calls : d # c => pc'[d] = pc[d] /\ game'[d] = game[d]
  BY <1>1, <1>2 DEF Going
<1>5. [h \in Games |-> PhaseOf(h)'] = [[h \in Games |-> PhaseOf(h)] EXCEPT ![g] = "admitted"]
  BY <1>1, <1>2, <1>4, PhaseStep DEF Away
<1>6. PhaseOf(g) = "quiet"
  BY <1>1, <1>2, PhaseNow
<1>7. Session!Admit(g)
  BY <1>2, <1>3, <1>5, <1>6 DEF Session!Admit, StateOf, PhaseOf, HasLetIn, BusyWith
<1>. QED
  BY <1>7 DEF Session!Next

\* The call is charged, and made.
LEMMA InvokeStep ==
    ASSUME IInv, NEW c \in Calls, InvokeTool(c)
    PROVE  Session!Next
<1>1. PICK g \in Games : Going(c, g)
  BY GoingOn DEF InvokeTool, HasGame, Points
<1>2. /\ pc[c] = "entered" /\ pc' = [pc EXCEPT ![c] = "tool"] /\ game' = game
      /\ callsLeft[g] >= 1 /\ callsLeft' = [callsLeft EXCEPT ![g] = @ - 1]
      /\ closed' = closed /\ created' = created
  BY <1>1 DEF InvokeTool, Charge, Goto, Going
<1>3. \A h \in Games : StateOf(h)' = StateOf(h)
  BY <1>2 DEF StateOf
<1>4. pc'[c] = "tool" /\ game'[c] = g /\ \A d \in Calls : d # c => pc'[d] = pc[d] /\ game'[d] = game[d]
  BY <1>1, <1>2 DEF Going
<1>5. [h \in Games |-> PhaseOf(h)'] = [[h \in Games |-> PhaseOf(h)] EXCEPT ![g] = "calling"]
  BY <1>1, <1>2, <1>4, PhaseStep DEF Away, AtService
<1>6. PhaseOf(g) = "admitted" /\ callsLeft[g] > 0
  BY <1>1, <1>2, PhaseNow DEF Going
<1>7. Session!Call(g)
  BY <1>2, <1>3, <1>5, <1>6 DEF Session!Call, StateOf, PhaseOf, HasLetIn, BusyWith
<1>. QED
  BY <1>7 DEF Session!Next

\* The call is one too many.
LEMMA RefuseStep ==
    ASSUME IInv, NEW c \in Calls, LimitReached(c)
    PROVE  Session!Next
<1>1. PICK g \in Games : Going(c, g)
  BY GoingOn DEF LimitReached, HasGame, Points
<1>2. /\ pc[c] = "entered" /\ pc' = [pc EXCEPT ![c] = "limit"] /\ game' = game
      /\ callsLeft[g] < 1 /\ callsLeft' = callsLeft /\ created' = created
      /\ \A h \in Games : closed'[h] = (closed[h] \/ h \in {g})
  BY <1>1 DEF LimitReached, Goto, Close, Going
<1>3. \A h \in Games : StateOf(h)' = IF h \in {g} /\ StateOf(h) = "open" THEN "closed" ELSE StateOf(h)
  BY <1>1, <1>2 DEF StateOf, Going
<1>4. pc'[c] = "limit" /\ \A d \in Calls : d # c => pc'[d] = pc[d] /\ game'[d] = game[d]
  BY <1>1, <1>2 DEF Going
<1>5. [h \in Games |-> PhaseOf(h)'] = [[h \in Games |-> PhaseOf(h)] EXCEPT ![g] = "quiet"]
  <2>1. Away(c)' /\ ~Away(c) /\ game'[c] = g
    BY <1>1, <1>2, <1>4 DEF Away, AtService, Going
  <2>. QED
    BY <1>1, <1>4, <2>1, PhaseStep
<1>6. PhaseOf(g) = "admitted" /\ callsLeft[g] = 0
  BY <1>1, <1>2, PhaseNow DEF Going
<1>7. Session!Refuse(g)
  BY <1>2, <1>3, <1>5, <1>6
     DEF Session!Refuse, Session!Closing, StateOf, PhaseOf, HasLetIn, BusyWith
<1>. QED
  BY <1>7 DEF Session!Next

\* A call at the service comes back, with a reply or without one.
LEMMA AnswerStep ==
    ASSUME IInv, NEW c \in Calls, TakeReply(c) \/ ToolFails(c)
    PROVE  Session!Next
<1>1. PICK g \in Games : Going(c, g)
  BY GoingOn DEF TakeReply, ToolFails, HasGame, Points
<1>2. /\ AtService(c) /\ callsLeft' = callsLeft /\ created' = created
      /\ \E D \in {{}, {g}} : \A h \in Games : closed'[h] = (closed[h] \/ h \in D)
  BY <1>1 DEF AtService, TakeReply, ToolFails, Close, session, Going
<1>3. /\ Away(c)' /\ game'[c] \in {g, NoGame}
      /\ \A d \in Calls : d # c => pc'[d] = pc[d] /\ game'[d] = game[d]
  <2>1. CASE TakeReply(c)
    <3>1. game' = game
      BY <2>1 DEF TakeReply
    <3>2. pc' = [pc EXCEPT ![c] = "erase"] \/ pc' = [pc EXCEPT ![c] = "respond"]
      BY <2>1 DEF TakeReply, Goto
    <3> QED
      BY <1>1, <3>1, <3>2 DEF AtService, Away, Going
  <2>2. CASE ToolFails(c)
    BY <1>1, <2>2 DEF ToolFails, Return, Goto, AtService, Away, Going
  <2> QED
    BY <2>1, <2>2
<1>4. PICK D \in {{}, {g}} : \A h \in Games : closed'[h] = (closed[h] \/ h \in D)
  BY <1>2
<1>5. \A h \in Games : StateOf(h)' = IF h \in D /\ StateOf(h) = "open" THEN "closed" ELSE StateOf(h)
  BY <1>1, <1>2, <1>4 DEF StateOf, Going
<1>6. [h \in Games |-> PhaseOf(h)'] = [[h \in Games |-> PhaseOf(h)] EXCEPT ![g] = "quiet"]
  <2>1. ~Away(c)
    BY <1>2 DEF Away
  <2>. QED
    BY <1>1, <1>3, <2>1, PhaseStep
<1>7. PhaseOf(g) = "calling"
  BY <1>1, <1>2, PhaseNow
<1>8. Session!Answer(g, D)
  <2>1. D \subseteq {g}
    BY <1>4
  <2> QED
    BY <1>2, <1>5, <1>6, <1>7, <2>1
       DEF Session!Answer, Session!Closing, StateOf, PhaseOf, HasLetIn, BusyWith
<1>9. D \in SUBSET Games /\ \E h \in Games : Session!Answer(h, D)
  BY <1>4, <1>8
<1> QED
  BY <1>9, Zenon DEF Session!Next

\* Every step is one of the abstract sessions, or changes none of them.
LEMMA SessionStep ==
    ASSUME IInv, [Next]_vars
    PROVE  [Session!Next]_Session!vars
<1>1. ASSUME NEW g \in Games, LateTurn(g) PROVE UNCHANGED Session!vars
  BY <1>1 DEF LateTurn, session, locals, Session!vars, AtService
<1>2. CASE Tick
  BY <1>2 DEF Tick, session, locals, Session!vars, AtService
<1>3. CASE UNCHANGED vars
  BY <1>3 DEF vars, session, locals, Session!vars, AtService
<1> QED
  BY <1>1, <1>2, <1>3, OtherStep, GrantStep, EnterStep, InvokeStep, RefuseStep, AnswerStep DEF Next, CallStep

\* GPTGameRegistry and _existing_game_sync implement the session the service
\* may rely on: granted calls, one at a time, none let in once it is closed.
THEOREM GamesImplementSession == Spec => ImplementsSession
<1>1. Init => Session!Init
  <2> SUFFICES ASSUME Init PROVE Session!Init
    OBVIOUS
  <2>1. created = 0 /\ \A g \in Games : g > created
    BY DEF Init, Games
  <2>2. \A c \in Calls : ~AtService(c)
    BY DEF Init, AtService
  <2> QED
    BY <2>1, <2>2 DEF Init, Session!Init
<1>2. IInv /\ [Next]_vars => [Session!Next]_Session!vars
  BY SessionStep
<1> QED
  BY InitInv, InvStep, <1>1, <1>2, PTL DEF Spec, ImplementsSession, Session!Spec

----------------------------------------------------------------------------
(***************************************************************************)
(* The registry: its bound, its order, and which sessions it holds.        *)
(*                                                                         *)
(* Its order is the order of use.  Every step removes keys, moves the one  *)
(* it uses to the end or appends a new one; what that does to an order is  *)
(* proved once, in OrdersProofs.                                           *)
(***************************************************************************)
\* The registry holds created sessions, each once, no more than its limit.
ShapeInv ==
    /\ registry \in Seq(Games)
    /\ Len(registry) <= MaxSessions
    /\ Distinct(registry)
    /\ \A g \in Registered : g <= created

\* Who is about to erase the session g.
Erasing(g) == \E c \in Calls : game[c] = g /\ pc[c] \in {"erase", "limit"}

\* Open sessions are registered; a closed one only until its call erases it.
HeldInv ==
    /\ \A g \in Games : g <= created /\ ~closed[g] => g \in Registered
    /\ \A g \in Registered : closed[g] => Erasing(g)

\* Nothing was used in the future, or later than what comes after it.
RecentInv ==
    /\ \A g \in Games : hist.used[g] <= now
    /\ Follows(registry, hist.used)

RegistryInv == ShapeInv /\ HeldInv /\ RecentInv

RInv == IInv /\ RegistryInv

\* The types a step of the registry reads.
LEMMA InvTypes ==
    ASSUME RInv
    PROVE  /\ SessionsTypeOK /\ created \in Nat /\ now \in Nat
           /\ closed \in [Games -> BOOLEAN] /\ pc \in [Calls -> Points]
           /\ game \in [Calls -> Games \cup {NoGame}]
           /\ hist.used \in [Games -> Nat] /\ hist.invoked \in [Games -> Nat]
           /\ registry \in Seq(Games) /\ Len(registry) \in Nat
           /\ Registered \subseteq Games /\ Games \subseteq Nat
<1>1. SessionsTypeOK
  BY DEF RInv, IInv, TypeInv
<1>2. registry \in Seq(Games)
  BY DEF RInv, RegistryInv, ShapeInv
<1>3. Registered \subseteq Games
  BY <1>2 DEF Registered, Keys
<1>4. hist.used \in [Games -> Nat] /\ hist.invoked \in [Games -> Nat]
  BY <1>1 DEF SessionsTypeOK, HistoryType
<1>. QED
  BY <1>1, <1>2, <1>3, <1>4 DEF SessionsTypeOK, Games

----------------------------------------------------------------------------
(***************************************************************************)
(* Steps that leave the registry as it is.                                 *)
(***************************************************************************)

\* A step that closes the sessions of D and no other, each of which has a
\* call about to erase it, and that takes no call away from its erasure.
KeepsRegistry(D) ==
    /\ registry' = registry /\ created' = created /\ hist'.used = hist.used
    /\ now' \in Nat /\ now <= now'
    /\ \A g \in Games : closed'[g] = (closed[g] \/ g \in D)
    /\ \A g \in Games : Erasing(g) \/ g \in D => Erasing(g)'

\* Such a step keeps the registry's invariant.
LEMMA KeptStep ==
    ASSUME RInv, NEW D, KeepsRegistry(D)
    PROVE  RegistryInv'
<1> USE DEF KeepsRegistry
<1>1. Registered' = Registered
  BY DEF Registered
<1>2. ShapeInv'
  BY <1>1 DEF RInv, RegistryInv, ShapeInv
<1>3. HeldInv'
  <2>1. ASSUME NEW g \in Games, g <= created, ~closed'[g] PROVE g \in Registered
    BY <2>1 DEF RInv, RegistryInv, HeldInv
  <2>2. ASSUME NEW g \in Registered, closed'[g] PROVE Erasing(g)'
    BY <2>2, InvTypes DEF RInv, RegistryInv, HeldInv
  <2>. QED
    BY <1>1, <2>1, <2>2 DEF HeldInv
<1>4. RecentInv'
  <2>1. \A g \in Games : hist.used[g] <= now'
    BY InvTypes DEF RInv, RegistryInv, RecentInv
  <2>. QED
    BY <2>1 DEF RInv, RegistryInv, RecentInv
<1>. QED
  BY <1>2, <1>3, <1>4 DEF RegistryInv

\* The step of a call that neither closes a session nor erases one.
LEMMA QuietCallStep ==
    ASSUME RInv, NEW c \in Calls,
           \/ PlayReply(c) \/ PlayFails(c) \/ Respond(c) \/ WaitRefused(c) \/ Enter(c)
           \/ InvokeTool(c) \/ ServiceTurn(c) \/ ServiceGet(c) \/ ToolFails(c) \/ Play(c)
           \/ \E g \in Games, o \in Ops : UseHandle(c, g, o)
    PROVE  RegistryInv'
<1> USE DEF session, match, locals, Goto, Return
<1>1. /\ registry' = registry /\ created' = created /\ now' = now /\ closed' = closed
  BY DEF PlayReply, PlayFails, Respond, WaitRefused, Enter, Admit, InvokeTool, Charge, ServiceTurn,
         ServiceGet, ToolFails, Play, UseHandle
<1>2. hist'.used = hist.used
  BY InvTypes
     DEF PlayReply, PlayFails, Respond, WaitRefused, Enter, Admit, InvokeTool, Charge, ServiceTurn,
         ServiceGet, ToolFails, Play, UseHandle, SessionsTypeOK, HistoryType
<1>3. /\ pc[c] \notin {"erase", "limit"}
      /\ \A d \in Calls : d # c => pc'[d] = pc[d] /\ game'[d] = game[d]
  BY InvTypes
     DEF PlayReply, PlayFails, Respond, WaitRefused, Enter, Admit, InvokeTool, Charge, ServiceTurn,
         ServiceGet, ToolFails, Play, UseHandle
<1>4. \A g \in Games : Erasing(g) => Erasing(g)'
  BY <1>3 DEF Erasing
<1>5. now' \in Nat /\ now <= now' /\ \A g \in Games : closed'[g] = (closed[g] \/ g \in {})
  BY <1>1, InvTypes
<1>6. \A g \in Games : Erasing(g) \/ g \in {} => Erasing(g)'
  BY <1>4
<1>7. KeepsRegistry({})
  BY <1>1, <1>2, <1>5, <1>6 DEF KeepsRegistry
<1>. QED
  BY <1>7, KeptStep

\* A session is closed by a call that goes on to erase it.
LEMMA ClosingStep ==
    ASSUME RInv, NEW c \in Calls,
           \/ CloseFinished(c) \/ LimitReached(c) \/ TakeReply(c)
    PROVE  RegistryInv'
<1> USE DEF session, match, locals, Goto
<1>1. /\ registry' = registry /\ created' = created /\ now' = now /\ hist' = hist /\ game' = game
  BY DEF CloseFinished, LimitReached, TakeReply
<1>2. /\ pc[c] \notin {"erase", "limit"}
      /\ \A d \in Calls : d # c => pc'[d] = pc[d]
  <2>1. \E p : pc' = [pc EXCEPT ![c] = p]
    BY DEF CloseFinished, LimitReached, TakeReply
  <2>. QED
    BY <2>1, InvTypes DEF CloseFinished, LimitReached, TakeReply
<1>3. \A g \in Games : Erasing(g) => Erasing(g)'
  BY <1>1, <1>2 DEF Erasing
<1>4. now' \in Nat /\ now <= now' /\ hist'.used = hist.used
  BY <1>1, InvTypes
<1>5. CASE closed' = closed
  <2>1. /\ \A g \in Games : closed'[g] = (closed[g] \/ g \in {})
        /\ \A g \in Games : Erasing(g) \/ g \in {} => Erasing(g)'
    BY <1>3, <1>5, InvTypes
  <2>2. KeepsRegistry({})
    BY <1>1, <1>4, <2>1 DEF KeepsRegistry
  <2>. QED
    BY <2>2, KeptStep
<1>6. CASE Close({game[c]}) /\ pc'[c] \in {"erase", "limit"}
  <2>1. \A g \in Games : closed'[g] = (closed[g] \/ g \in {game[c]})
    BY <1>6 DEF Close
  <2>2. \A g \in {game[c]} : Erasing(g)'
    BY <1>1, <1>6 DEF Erasing
  <2>3. \A g \in Games : Erasing(g) \/ g \in {game[c]} => Erasing(g)'
    BY <1>3, <2>2
  <2>. QED
    BY <1>1, <1>4, <2>1, <2>3, KeptStep DEF KeepsRegistry
<1>. QED
  BY <1>5, <1>6, InvTypes DEF CloseFinished, LimitReached, TakeReply

----------------------------------------------------------------------------
(***************************************************************************)
(* Steps that take sessions out of the registry.                           *)
(***************************************************************************)

\* The sessions of D leave the registry, and are closed if they were in it.
LEMMA WithoutStep ==
    ASSUME RInv, NEW D,
           registry' = Without(registry, D), created' = created, hist' = hist, now' = now,
           \A g \in Games : closed'[g] = (closed[g] \/ g \in D \cap Registered),
           \A g \in Games \ D : Erasing(g) => Erasing(g)'
    PROVE  RegistryInv'
<1>1. IsWithout(registry', registry, D, Games)
  BY InvTypes, WithoutProperties
<1>2. Registered' = Registered \ D
  BY <1>1 DEF IsWithout, Registered
<1>3. ShapeInv'
  <2>1. Len(registry') \in Nat
    BY <1>1 DEF IsWithout
  <2>2. Len(registry') <= MaxSessions
    BY <1>1, <2>1, InvTypes, LimitsAssumption DEF IsWithout, RInv, RegistryInv, ShapeInv
  <2>. QED
    BY <1>1, <1>2, <2>2 DEF IsWithout, RInv, RegistryInv, ShapeInv
<1>4. HeldInv'
  <2>1. ASSUME NEW g \in Games, g <= created, ~closed'[g] PROVE g \in Registered \ D
    BY <2>1 DEF RInv, RegistryInv, HeldInv
  <2>2. ASSUME NEW g \in Registered \ D, closed'[g] PROVE Erasing(g)'
    BY <2>2, InvTypes DEF RInv, RegistryInv, HeldInv
  <2>. QED
    BY <1>2, <2>1, <2>2 DEF HeldInv
<1>5. RecentInv'
  <2>1. Follows(Without(registry, D), hist.used)
    BY InvTypes, FollowsWithout DEF RInv, RegistryInv, ShapeInv, RecentInv
  <2>. QED
    BY <2>1 DEF RInv, RegistryInv, RecentInv
<1>. QED
  BY <1>3, <1>4, <1>5 DEF RegistryInv

\* A call that erases its session, or finds its handle expired or closed.
LEMMA RemovingStep ==
    ASSUME RInv, NEW c \in Calls,
           Erase(c) \/ EraseLimited(c) \/ ResolveRefused(c)
    PROVE  RegistryInv'
<1> USE DEF session, match, locals, Goto, Return
<1>1. /\ created' = created /\ hist' = hist /\ now' = now
      /\ \A d \in Calls : d # c => pc'[d] = pc[d] /\ game'[d] = game[d]
  BY InvTypes DEF Erase, EraseLimited, ResolveRefused
<1>2. CASE Erase(c) \/ EraseLimited(c)
  <2>1. /\ registry' = Without(registry, {game[c]})
        /\ \A g \in Games : closed'[g] = (closed[g] \/ g \in {game[c]} \cap Registered)
    BY <1>2 DEF Erase, EraseLimited, Close
  <2>2. \A g \in Games \ {game[c]} : Erasing(g) => Erasing(g)'
    BY <1>1 DEF Erasing
  <2>. QED
    BY <1>1, <2>1, <2>2, WithoutStep
<1>3. CASE ResolveRefused(c)
  <2> DEFINE dead == Expired(clock[c])
  <2>1. dead \subseteq Registered
    BY DEF Expired
  <2>2. /\ registry' = Without(registry, dead) /\ pc[c] = "resolve"
        /\ \A g \in Games : closed'[g] = (closed[g] \/ g \in dead)
    BY <1>3 DEF ResolveRefused, Close
  <2> HIDE DEF dead
  <2>3. \A g \in Games : closed'[g] = (closed[g] \/ g \in dead \cap Registered)
    BY <2>1, <2>2
  <2>4. \A g \in Games \ dead : Erasing(g) => Erasing(g)'
    BY <1>1, <2>2 DEF Erasing
  <2>. QED
    BY <1>1, <2>2, <2>3, <2>4, WithoutStep
<1>. QED
  BY <1>2, <1>3

----------------------------------------------------------------------------
(***************************************************************************)
(* Use and creation.                                                       *)
(***************************************************************************)

\* What a purge leaves of the registry.
LEMMA AfterPurge ==
    ASSUME RInv, NEW D
    PROVE  /\ Without(registry, D) \in Seq(Games)
           /\ Len(Without(registry, D)) \in Nat
           /\ Len(Without(registry, D)) <= MaxSessions
           /\ Distinct(Without(registry, D))
           /\ Keys(Without(registry, D)) = Registered \ D
           /\ Follows(Without(registry, D), hist.used)
<1> DEFINE s == Without(registry, D)
<1>1. IsWithout(s, registry, D, Games)
  BY InvTypes, WithoutProperties
<1>2. Follows(s, hist.used)
  BY InvTypes, FollowsWithout DEF RInv, RegistryInv, ShapeInv, RecentInv
<1> HIDE DEF s
<1>3. Len(s) \in Nat /\ Len(s) <= MaxSessions
  BY <1>1, InvTypes, LimitsAssumption DEF IsWithout, RInv, RegistryInv, ShapeInv
<1>. QED
  BY <1>1, <1>2, <1>3 DEF s, IsWithout, Registered, RInv, RegistryInv, ShapeInv

\* The handle that is used is now the latest.
LEMMA ResolveStep ==
    ASSUME RInv, NEW c \in Calls, Resolve(c)
    PROVE  RegistryInv'
<1> DEFINE dead == Expired(clock[c])
           g == game[c]
           s == Without(registry, dead)
<1>1. /\ g \in Registered \ dead /\ ~closed[g]
      /\ dead \subseteq Registered
      /\ \A h \in Games : closed'[h] = (closed[h] \/ h \in dead)
      /\ registry' = MovedToEnd(s, g)
      /\ hist' = [hist EXCEPT !.used[g] = now]
      /\ created' = created /\ now' = now /\ game' = game
      /\ pc' = [pc EXCEPT ![c] = "wait"] /\ pc[c] = "resolve"
  BY DEF Resolve, Used, Close, Goto, Expired
<1> HIDE DEF dead
<1>2. /\ s \in Seq(Games) /\ Len(s) \in Nat /\ Len(s) <= MaxSessions /\ Distinct(s)
      /\ Keys(s) = Registered \ dead /\ Follows(s, hist.used)
  BY AfterPurge
<1>3. g \in Games /\ g \in Keys(s)
  BY <1>1, <1>2, InvTypes
<1> HIDE DEF s, g
<1>4. IsMoved(registry', s, g, Games)
  BY <1>1, <1>2, <1>3, MovedToEndProperties
<1>5. Registered' = Registered \ dead
  BY <1>1, <1>2, <1>3, <1>4 DEF IsMoved, Registered
<1>6. ShapeInv'
  BY <1>1, <1>2, <1>3, <1>4, <1>5 DEF IsMoved, RInv, RegistryInv, ShapeInv
<1>7. HeldInv'
  <2>1. \A h \in Games : Erasing(h) => Erasing(h)'
    BY <1>1, InvTypes DEF Erasing
  <2>2. ASSUME NEW h \in Games, h <= created, ~closed'[h] PROVE h \in Registered \ dead
    BY <1>1, <2>2 DEF RInv, RegistryInv, HeldInv
  <2>3. ASSUME NEW h \in Registered \ dead, closed'[h] PROVE Erasing(h)'
    BY <1>1, <2>1, <2>3, InvTypes DEF RInv, RegistryInv, HeldInv
  <2>. QED
    BY <1>1, <1>5, <2>2, <2>3 DEF HeldInv
<1>8. RecentInv'
  <2>1. hist'.used = [hist.used EXCEPT ![g] = now]
    BY <1>1, InvTypes DEF SessionsTypeOK, HistoryType
  <2>2. \A h \in Games : hist.used[h] <= now
    BY DEF RInv, RegistryInv, RecentInv
  <2>3. \A h \in Games : hist'.used[h] <= now /\ (h # g => hist'.used[h] = hist.used[h])
    BY <1>3, <2>1, <2>2, InvTypes
  <2>4. hist'.used[g] = now
    BY <1>3, <2>1, InvTypes
  <2>5. LatestIs(hist.used, hist'.used, g, s)
    BY <1>2, <2>3, <2>4, InvTypes DEF LatestIs
  <2>6. Follows(MovedToEnd(s, g), hist'.used)
    BY <1>2, <1>3, <2>5, FollowsMoved
  <2>. QED
    BY <1>1, <2>3, <2>6 DEF RecentInv
<1>. QED
  BY <1>6, <1>7, <1>8 DEF RegistryInv

\* What create evicts is what comes first, and it makes room for one more.
LEMMA RoomForOne ==
    ASSUME NEW s \in Seq(Games), Len(s) <= MaxSessions
    PROVE  /\ Excess(s) \in 0..Len(s)
           /\ Len(s) - Excess(s) + 1 <= MaxSessions
           /\ Evicted(s) = {s[i] : i \in 1..Excess(s)}
           /\ IsRest(Kept(s), s, Excess(s), Games)
<1>1. Len(s) \in Nat /\ MaxSessions \in Nat \ {0}
  BY LimitsAssumption
<1>2. Excess(s) \in 0..Len(s) /\ Len(s) - Excess(s) + 1 <= MaxSessions
  BY <1>1 DEF Excess
<1>3. IsRest(Kept(s), s, Excess(s), Games)
  BY <1>2, WithoutOldestProperties DEF Kept
<1>. QED
  BY <1>2, <1>3 DEF Evicted

\* Every key is evicted or kept, and none both.
LEMMA EvictedOrKept ==
    ASSUME NEW s \in Seq(Games), Len(s) <= MaxSessions, Distinct(s)
    PROVE  Keys(Kept(s)) = Keys(s) \ Evicted(s)
<1>1. /\ Excess(s) \in 0..Len(s)
      /\ Evicted(s) = {s[i] : i \in 1..Excess(s)}
      /\ Keys(Kept(s)) = {s[i] : i \in Excess(s) + 1..Len(s)}
      /\ Len(s) \in Nat /\ DOMAIN s = 1..Len(s)
  BY RoomForOne DEF IsRest
<1> DEFINE n == Excess(s)
<1> HIDE DEF n
<1>2. n \in 0..Len(s) /\ Evicted(s) = {s[i] : i \in 1..n} /\ Keys(Kept(s)) = {s[i] : i \in n + 1..Len(s)}
  BY <1>1 DEF n
<1>3. ASSUME NEW i \in n + 1..Len(s) PROVE s[i] \in Keys(s) \ Evicted(s)
  <2>1. i \in DOMAIN s /\ \A j \in 1..n : j \in DOMAIN s /\ j # i
    BY <1>1, <1>2
  <2>. QED
    BY <1>2, <2>1 DEF Distinct, Keys
<1>4. ASSUME NEW i \in DOMAIN s, s[i] \notin Evicted(s) PROVE i \in n + 1..Len(s)
  <2>1. i \in 1..n \/ i \in n + 1..Len(s)
    BY <1>1, <1>2
  <2>. QED
    BY <1>2, <1>4, <2>1
<1>. QED
  BY <1>2, <1>3, <1>4 DEF Keys

\* A new session comes last, and is the only one that becomes open.
LEMMA CreateStep ==
    ASSUME RInv, NEW c \in Calls, Create(c)
    PROVE  RegistryInv'
<1> DEFINE g == created + 1
           dead == Expired(clock[c])
           live == Without(registry, dead)
           gone == Evicted(live)
           kept == Kept(live)
<1>1. /\ created' = g /\ created < MaxGames
      /\ registry' = Append(kept, g)
      /\ closed' = [h \in Games |-> h # g /\ (closed[h] \/ h \in dead \cup gone)]
      /\ game' = [game EXCEPT ![c] = g]
      /\ hist' = [hist EXCEPT !.used[g] = now]
      /\ now' = now /\ pc[c] = "create"
      /\ \A d \in Calls : d # c => pc'[d] = pc[d]
  BY InvTypes DEF Create, Goto
<1>2. /\ live \in Seq(Games) /\ Len(live) \in Nat /\ Len(live) <= MaxSessions /\ Distinct(live)
      /\ Keys(live) = Registered \ dead /\ Follows(live, hist.used)
  BY AfterPurge
<1> HIDE DEF dead, live
<1>3. /\ IsRest(kept, live, Excess(live), Games) /\ Excess(live) \in 0..Len(live)
      /\ Len(live) - Excess(live) + 1 <= MaxSessions
      /\ Keys(kept) = Registered \ (dead \cup gone)
      /\ Follows(kept, hist.used)
  <2>1. Keys(kept) = Keys(live) \ gone
    BY <1>2, EvictedOrKept
  <2>2. Excess(live) \in 0..Len(live)
    BY <1>2, RoomForOne
  <2>3. Follows(kept, hist.used)
    BY <1>2, <2>2, FollowsOldest DEF Kept
  <2>. QED
    BY <1>2, <2>1, <2>2, <2>3, RoomForOne
<1> HIDE DEF gone, kept
<1>4. /\ g \in Games /\ g \notin Registered /\ created \in Nat
      /\ \A h \in Games : (h <= g) = (h <= created \/ h = g)
  <2>1. created \in Nat /\ MaxGames \in Nat /\ \A h \in Registered : h <= created
    BY InvTypes, LimitsAssumption DEF RInv, RegistryInv, ShapeInv
  <2>. QED
    BY <1>1, <2>1, InvTypes DEF Games
<1> HIDE DEF g
<1>5. kept \in Seq(Games) /\ Distinct(kept) /\ g \notin Keys(kept) /\ Len(kept) = Len(live) - Excess(live)
  BY <1>2, <1>3, <1>4 DEF IsRest
<1>6. IsAppended(registry', kept, g, Games)
  BY <1>1, <1>4, <1>5, AppendNewProperties
<1>7. Registered' = (Registered \ (dead \cup gone)) \cup {g}
  BY <1>3, <1>6 DEF IsAppended, Registered
<1>8. ShapeInv'
  <2>1. Len(registry') <= MaxSessions
    BY <1>3, <1>5, <1>6 DEF IsAppended
  <2>2. \A h \in Registered' : h <= g
    <3>1. \A h \in Registered : h \in Games /\ h <= created
      BY InvTypes DEF RInv, RegistryInv, ShapeInv
    <3>2. g <= g
      BY <1>4, InvTypes
    <3>. QED
      BY <1>4, <1>7, <3>1, <3>2
  <2>. QED
    BY <1>1, <1>6, <2>1, <2>2 DEF IsAppended, ShapeInv
<1>9. HeldInv'
  <2>1. \A h \in Games : h # g /\ Erasing(h) => Erasing(h)'
    BY <1>1, InvTypes DEF Erasing
  <2>2. ASSUME NEW h \in Games, h <= g, ~closed'[h] PROVE h \in Registered'
    <3>1. CASE h = g
      BY <1>7, <3>1
    <3>2. CASE h # g
      <4>1. ~closed[h] /\ h \notin dead \cup gone /\ h <= created
        BY <1>1, <1>4, <2>2, <3>2
      <4>2. h \in Registered
        BY <4>1 DEF RInv, RegistryInv, HeldInv
      <4>. QED
        BY <1>7, <4>1, <4>2
    <3>. QED
      BY <3>1, <3>2
  <2>3. ASSUME NEW h \in Registered', closed'[h] PROVE Erasing(h)'
    <3>1. h \in Games /\ h # g /\ h \in Registered \ (dead \cup gone) /\ closed[h]
      BY <1>1, <1>4, <1>7, <2>3, InvTypes
    <3>2. Erasing(h)
      BY <3>1 DEF RInv, RegistryInv, HeldInv
    <3>. QED
      BY <2>1, <3>1, <3>2
  <2>. QED
    BY <1>1, <2>2, <2>3 DEF HeldInv
<1>10. RecentInv'
  <2>1. hist'.used = [hist.used EXCEPT ![g] = now]
    BY <1>1, InvTypes DEF SessionsTypeOK, HistoryType
  <2>2. \A h \in Games : hist.used[h] <= now
    BY DEF RInv, RegistryInv, RecentInv
  <2>3. /\ \A h \in Games : hist'.used[h] <= now /\ (h # g => hist'.used[h] = hist.used[h])
        /\ hist'.used[g] = now
    BY <1>4, <2>1, <2>2, InvTypes
  <2>4. LatestIs(hist.used, hist'.used, g, kept)
    BY <1>3, <2>3, InvTypes DEF LatestIs
  <2>5. Follows(Append(kept, g), hist'.used)
    BY <1>3, <1>4, <1>5, <2>4, FollowsAppended
  <2>. QED
    BY <1>1, <2>3, <2>5 DEF RecentInv
<1>. QED
  BY <1>8, <1>9, <1>10 DEF RegistryInv

----------------------------------------------------------------------------
\* The registry starts empty.
LEMMA RegistryInit == Init => RInv
<1> SUFFICES ASSUME Init PROVE RegistryInv
  BY InitInv DEF RInv
<1>1. registry = <<>> /\ created = 0 /\ now = 0 /\ hist.used = [g \in Games |-> 0]
  BY DEF Init
<1>2. Registered = {} /\ DOMAIN registry = {}
  BY <1>1 DEF Registered, Keys
<1>3. ShapeInv
  BY <1>1, <1>2, LimitsAssumption DEF ShapeInv, Distinct
<1>4. HeldInv
  BY <1>1, <1>2 DEF HeldInv, Games
<1>5. RecentInv
  BY <1>1, <1>2 DEF RecentInv, Follows
<1>. QED
  BY <1>3, <1>4, <1>5 DEF RegistryInv

\* Every step keeps the registry's bound, order and contents.
LEMMA RegistryStep == RInv /\ [Next]_vars => RInv'
<1> SUFFICES ASSUME RInv, [Next]_vars PROVE RegistryInv'
  BY InvStep DEF RInv
<1>1. ASSUME NEW c \in Calls, CallStep(c) PROVE RegistryInv'
  BY <1>1, QuietCallStep, ClosingStep, RemovingStep, ResolveStep, CreateStep DEF CallStep
<1>2. ASSUME NEW c \in Calls, Play(c) PROVE RegistryInv'
  BY <1>2, QuietCallStep
<1>3. ASSUME NEW c \in Calls, NEW g \in Games, NEW o \in Ops, UseHandle(c, g, o)
      PROVE  RegistryInv'
  BY <1>3, QuietCallStep
<1>4. ASSUME \/ \E g \in Games : LateTurn(g)
             \/ Tick
             \/ UNCHANGED vars
      PROVE  RegistryInv'
  <2>1. /\ registry' = registry /\ created' = created /\ hist' = hist /\ closed' = closed
        /\ pc' = pc /\ game' = game
    BY <1>4 DEF LateTurn, Tick, vars, session, locals
  <2>2. now' \in Nat /\ now <= now' /\ hist'.used = hist.used
    BY <1>4, <2>1, InvTypes DEF LateTurn, Tick, vars
  <2>3. /\ \A g \in Games : closed'[g] = (closed[g] \/ g \in {})
        /\ \A g \in Games : Erasing(g) \/ g \in {} => Erasing(g)'
    BY <2>1, InvTypes DEF Erasing
  <2>4. KeepsRegistry({})
    BY <2>1, <2>2, <2>3 DEF KeepsRegistry
  <2>. QED
    BY <2>4, KeptStep
<1>. QED
  BY <1>1, <1>2, <1>3, <1>4 DEF Next

\* Every variable keeps its type, the registry too.
THEOREM GamesTypeCorrect == Spec => []TypeOK
<1>1. RInv => TypeOK
  <2> SUFFICES ASSUME RInv PROVE TypeOK
    OBVIOUS
  <2>1. created \in 0..MaxGames
    BY InvTypes, LimitsAssumption DEF SessionsTypeOK
  <2>. QED
    BY <2>1, InvTypes DEF TypeOK, SessionsTypeOK
<1>. QED
  BY <1>1, RegistryInit, RegistryStep, PTL DEF Spec

\* GPTGameRegistry never holds more than its limit, nor a handle twice.
THEOREM NeverOverLimit == Spec => []RegistryBounded
<1>1. RInv => RegistryBounded
  BY DEF RInv, RegistryInv, ShapeInv, RegistryBounded
<1>. QED
  BY <1>1, RegistryInit, RegistryStep, PTL DEF Spec

\* A session is open exactly while a handle reaches it, but for the moment in
\* which the call that closed it has still to erase it.
THEOREM ReachableExactlyWhileOpen == Spec => []OpenIsRegistered
<1>1. RInv => OpenIsRegistered
  <2> SUFFICES ASSUME RInv, NEW g \in 1..created
               PROVE  /\ ~closed[g] => g \in Registered
                      /\ closed[g] /\ g \in Registered => Erasing(g)
    BY DEF OpenIsRegistered, Erasing
  <2>1. g \in Games /\ g <= created
    BY InvTypes, LimitsAssumption DEF SessionsTypeOK, Games
  <2>. QED
    BY <2>1 DEF RInv, RegistryInv, HeldInv
<1>. QED
  BY <1>1, RegistryInit, RegistryStep, PTL DEF Spec

\* create's popitem(last=False) takes the session that has been unused for
\* longest: whatever it keeps was used no earlier.
THEOREM OldestGoesFirst == Spec => EvictsLeastRecent
<1>1. ASSUME RInv, NEW c \in Calls, Create(c),
             NEW g \in Registered \ Expired(clock[c]), NEW h \in Registered,
             g \notin Registered', h \in Registered'
      PROVE  hist.used[g] <= hist.used[h]
  <2> DEFINE live == Without(registry, Expired(clock[c]))
             n == Excess(live)
  <2>1. /\ live \in Seq(Games) /\ Len(live) \in Nat /\ Len(live) <= MaxSessions /\ Distinct(live)
        /\ Keys(live) = Registered \ Expired(clock[c]) /\ Follows(live, hist.used)
    BY <1>1, AfterPurge
  <2>2. registry' = Append(Kept(live), created + 1)
    BY <1>1 DEF Create
  <2> HIDE DEF live
  <2>3. IsRest(Kept(live), live, n, Games) /\ n \in 0..Len(live)
    BY <2>1, RoomForOne
  <2> HIDE DEF n
  <2>4. created + 1 \in Games /\ created + 1 \notin Registered
    <3>1. created \in Nat /\ MaxGames \in Nat /\ created < MaxGames
      BY <1>1, InvTypes, LimitsAssumption DEF Create
    <3>2. \A k \in Registered : k \in Nat /\ k <= created
      BY <1>1, InvTypes DEF RInv, RegistryInv, ShapeInv
    <3>. QED
      BY <3>1, <3>2 DEF Games
  <2> DEFINE x == created + 1
  <2> HIDE DEF x
  <2>5. Kept(live) \in Seq(Games) /\ Distinct(Kept(live)) /\ x \notin Keys(Kept(live)) /\ x \in Games
    <3>1. Kept(live) \in Seq(Games) /\ Distinct(Kept(live)) /\ Keys(Kept(live)) \subseteq Keys(live)
      BY <2>1, <2>3, EvictedOrKept DEF IsRest
    <3>. QED
      BY <2>1, <2>4, <3>1 DEF x
  <2>6. IsAppended(registry', Kept(live), x, Games)
    BY <2>2, <2>5, AppendNewProperties DEF x
  <2>7. Registered' = Keys(Kept(live)) \cup {x}
    BY <2>6 DEF IsAppended, Registered
  <2>8. g \in Keys(live) /\ g \notin Keys(Kept(live)) /\ h \in Keys(Kept(live))
    BY <1>1, <2>1, <2>4, <2>7 DEF x
  <2>9. PICK i \in DOMAIN live : g = live[i]
    BY <2>8 DEF Keys
  <2>10. PICK j \in n + 1..Len(live) : h = live[j]
    BY <2>3, <2>8 DEF IsRest
  <2>11. i <= n
    BY <2>1, <2>3, <2>8, <2>9 DEF IsRest
  <2>12. j \in i + 1..Len(live)
    BY <2>1, <2>3, <2>9, <2>10, <2>11
  <2>. QED
    BY <2>1, <2>9, <2>10, <2>12 DEF Follows, After
<1>2. ASSUME RInv
      PROVE  \A c \in Calls :
                Create(c) =>
                   \A g \in Registered \ Expired(clock[c]), h \in Registered :
                      g \notin Registered' /\ h \in Registered' => hist.used[g] <= hist.used[h]
  BY <1>1, <1>2
<1>. QED
  BY <1>2, RegistryInit, RegistryStep, PTL DEF Spec, EvictsLeastRecent
=============================================================================
