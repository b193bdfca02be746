# A verification project for eigendark-agent-mcp

TLA+ models of the parts of eigendark-agent-mcp whose correctness depends on
interleavings, failures and time; TLC configurations that check them on small
instances; and theorems that TLAPS proves for every value of the constants.
Source paths below are relative to `src/eigendark_agent_mcp/`.

## The system

A Python process offers the Eigendark card game to agents. It runs in two forms:
a stdio MCP server for one operator, and a hosted HTTP process with two MCP
endpoints (`/mcp`, `/mcp/public`) and a Custom GPT Action (`/gpt/*`). Every tool
ends in requests to `api.eigendark.com`, which owns matches, keys and tickets.
Tool calls run on worker threads; HTTP admission runs on the event loop.

| Component | State | Operations | Hard behaviour | Makes it correct |
|---|---|---|---|---|
| Shared sandbox key (`tools.py` 335–593) | key and expiry in memory, file on disk, `_SHARED_KEY_LOCK`, one API key per session | ensure, mint, save, load, clear, play with one retry, onboard | threads, lost replies, swallowed file errors, restarts, two clocks | keys handed out still live; one mint per lifetime; a cleared key stays out; calls end |
| GPT game sessions (`gpt_action.py` 275–541) | ordered registry, per session: lock, budget, sequence number, closed, expiry | create, resolve, discard, purge, play, get, turn | a session evicted, expired or erased while calls hold it; late and lost requests | budget; one tool at a time; sequence order; a closed session lets no call in; bounded registry, LRU |
| HTTP session admission (`http_server.py` 122–206) | pending counters, owner table, the SDK's instances | admit, refuse, capture id, settle, purge | the SDK creates sessions later and ends them unannounced | both bounds, no leaked reservation, no refusal for an ended session |
| Credential store (`runtime.py` 33–153) | API key, ticket, LRU table of match credentials | remember, read, clear | stale copies, eviction of a live match | the most recently used matches available |
| Matchmaking tools (`tools.py` 615–646, 779–820) | the store's ticket; queue at the service | join, status, leave | overlapping calls and late replies change one ticket | a ticket is erased only when nothing is left to learn from it |
| HTTP gate (`http_server.py` 217–360) | tokens of the gate | authenticate, admit, buffer, pass on | long streams, aborted bodies | every request gets its turn unless streams hold the whole gate |
| Tool calls (`http_server.py` 86–118, `runtime.py` 155–233) | tokens of the thread pools, one store per protocol session | bind a store, run a tool on a thread, cancel | threads outlive their calls; an object's place in memory is used again | threads bounded; sessions keep their credentials to themselves |
| stdio server (`server.py`) | streams, tool limiter | read line, dispatch, write | size limits, shutdown races | framing stays in step |
| Service client (`http_client.py`) | none | `json_request` | timeouts, lost replies, error texts that quote a credential | every request ends as a result or an error without secrets |
| Sanitisation (`security.py`, `tools.py`) | the credentials a session knows | redact, bound JSON, twice | credentials that overlap, limits met exactly, a store that changes meanwhile | nothing known escapes, nothing else is hidden, limits exact |
| Deployment (`deploy/install-production.sh`) | three runtime directories, the unit | build, swap, health check, roll back | failure, interruption or restart anywhere, then a second run | the release that worked survives and is what is started |
| Configuration, release scripts, plugin | none | — | — | — |

They interact by calls and shared state. `call_public_tool` gives each protocol
session a credential store (`SessionCredentialRegistry`) and runs a tool on a
thread with it; `_play_sync` does the same with a store of its own. All hosted
sessions share the sandbox key. A hosted request passes authentication, then the
gate, then, at the MCP endpoints only, admission; a tool call then waits for a
thread. Every reply of the service passes through redaction on its way out.

## Modules

| Module | Contents |
|---|---|
| `SharedKey` | the shared key: state machine, fairness, properties |
| `SharedKeyProofs` | its theorems |
| `GameSession` | abstract: a session with a grant of calls, made one at a time, none let in once it is closed |
| `GptGames` | the game sessions: state machine, fairness, properties; implements `GameSession` |
| `GptGamesProofs` | its theorems and the refinement |
| `SessionPool` | abstract: a pool with a bounded number of places |
| `SessionAdmission` | admission: state machine, properties; implements `SessionPool` |
| `SessionAdmissionProofs` | its theorems and the refinement |
| `HostedRequests` | gate, threads and stores of the hosted process composed: state machine, fairness, properties |
| `HostedProofs` | its theorems, and those about `Deploy` |
| `Matchmaking` | the ticket and the table of match credentials: state machine, properties |
| `MatchmakingProofs` | its theorems |
| `StdioFraming` | the stdio reader and writer: state machine, properties |
| `StdioProofs` | its theorems |
| `Sanitize` | texts and JSON values, and what `security.py` does with them, as operators without a state |
| `ServiceReply` | a reply on its way to the host: state machine, properties |
| `ServiceReplyProofs` | its theorems, and the lemmas about the operators of `Sanitize` |
| `Deploy` | the installer: state machine, properties |
| `Orders` | operators on sequences without duplicates: the keys of an `OrderedDict`, the waiters of a limiter |
| `OrdersProofs` | lemmas about them |
| `MCSharedKey`, `MCGptGames`, `MCSessionAdmission`, `MCMatchmaking`, `MCServiceReply` | symmetry sets, fault sets and sets of replies for TLC |

`PROJECT.json` maps each definition to its source lines. Each model also defines
mutants: variants of a definition with a plausible mistake, placed before the
definition they vary and used by nothing else. Every property is violated when
its mutant takes the definition's place.

### SharedKey

A worker's program counter follows `tool_play_eigendark` and
`tool_onboard_sandbox`: `check` (has the session a key?), `want` (wait for the
lock), `mint`, `save`, `create` (request a match), `clear`, `autoplay`,
`onboard`. A critical section without a remote call is one action; minting and
saving are actions of their own, since the service, the clock and a crash act
between them. `lock = w` from `StartMint` to `SaveKey` or `MintFails`.
`lockTime` is the local `now` read on entry, which dates the in-memory copy;
the file is dated when it is written. `attempt` tells the first creation from
the retry. `Faults` selects requests that fail for another reason than the key,
exceptions play does not catch, revocations, file errors and crashes. A lost
reply to a mint spends a key at the service. A crash keeps only the file.

`unusable` are issued keys that `_credential` refuses: text the service may send and
`_required_service_string` accepts, but no store does. The code caches such a key
before the session's store sees it (`SaveKey`), so later plays fail at the copy in
memory (`MemoryRefused`) until its life is over; the file is checked when it is read
(`DiskFresh`).

`hist` is history, read by properties only: the last mint for the cache, when it
started, whether the cache has lost it since, and keys dropped from both tiers.

The model's clock only advances: the 300 seconds `_load_shared_key_from_disk`
tolerates for steps of the wall clock do not occur. A file that is not a
well-formed private regular file is `NoFile`. The environment variables that
give an operator's own key are unset, as in the hosted process. The session
identity stays with a session until its calls have returned.

### GptGames

A call follows `_play_sync` or `_existing_game_sync`. Create, resolve and
discard are one action each (they run under the registry's lock), with the clock
reading that precedes the lock kept in `clock`, so a purge may use an old time.
A session's lock is held in `holder` from the call's check of `closed` (`Enter`) until
its reply is recorded, or until it has erased a finished session. Check, charge and
invocation are not one step: `closed` is written under the registry's lock, or under
none, so between `Enter` and `InvokeTool` a session may be evicted, expire or be
erased, and its tool is invoked all the same. The registry's lock is not modelled as
something to wait for: nothing waits while it holds it. A call keeps the session it
resolved. The service's match is part of the model: a turn advances
it, a recovery reads it, a request may be lost, may lose its reply, or may be
served after its call gave up (`LateTurn`). A response over the size limit keeps
the handle from the caller (`Respond`) and changes nothing else.

`PlayOver` says what play answers with. At this commit `play_eigendark` finishes
its match, so a started session is closed and erased at once (`PlayOver =
{TRUE}`); recovery and turns are kept for running sessions (repository README,
"Custom GPT Action") and tested with a tool that returns one
(`tests/test_gpt_action.py`), so the safety and liveness runs include them.

`ImplementsSession` is `GameSession!Spec` under a mapping that reads a session's
state from the registry's records, what is left of its grant from the budget, and
`phase` from whether some call has been let in or has its tool at the service.
Creating a session closes the expired and the evicted ones in the same step, hence
`Grant(g, D)`. What closing promises is therefore stated of the way in: `ClosedIsFinal`
says that a closed session stays closed and lets no call in, `OneCallAfterClosing` that
the tool of one call at most, the one that was in already, is invoked after it.

### SessionAdmission

The two critical sections of `BoundedSessionManager.handle_request` are `Admit`
or `Reject`, and `Finish`. Between them the SDK, external, may create a session
(`SdkCreate`) and answer with its id (`Capture`), or neither; a response without
an id is no action, since it leaves nothing to read. `SessionEnds` may remove a
session at any time. Deleted counter entries are zeros. Requests with a session
id change nothing here. `/mcp` has no client bound: `MaxPerClient = MaxSessions`
gives that endpoint, because a client's owned sessions and reservations are
among all of them. `hist` remembers who created each session and which ids were
answered.

`ImplementsPool` maps a reservation whose session does not exist yet to a place
held by a request, and a session of the SDK to an open one. Capturing an id and
settling a request that has its session are stutters.

### HostedRequests

A request is `idle`, waits for the `gate`, has its `body` read, is a `stream` the
gate does not buffer, is `queued` for a thread or `running` on one. The requests
are a fixed set that comes back for ever: what is bounded is how many exist at
one time, not how many there are. Authentication stands before the gate
(`create_http_app` wraps the gate in it), so a refused request waits for nothing and is no
action. What it decides is a pure check of certificates or tokens. A DELETE of a session
is not buffered either, so `DeleteSession` is the request of a `stream`.

A token of the gate is kept until the response is out, one of a pool until the
thread ends. `call_public_tool` runs tools with `abandon_on_cancel=False`: a
cancelled call is answered at once, while its thread runs on with its token.
`detached[s]` counts those threads for the session they worked for; they keep its
object alive. The Action's calls are not cancelled by anyone: a client that goes
away is not noticed while its tool runs. The process has a pool for each MCP
endpoint; they do not interact, and the model has one beside the Action's.

`SessionCredentialRegistry` is a weak table keyed by the session object. Its key
is modelled as the object's place in memory, which `Collect` frees and
`OpenSession` uses again: without the weak entry's removal a new session would
find the store of an old one. `owner` remembers for which conversation each
store was made. The deployed limits are 32 tokens of the gate and 8 and 16
threads.

### Matchmaking

One session's `CredentialStore`, the tools that use its ticket and its table of
matches, and the service's queue. The store's lock covers one operation and no
request, so `_matchmaking_result` is three actions, `StoreTicket`, `Deliver` and
`Clear`, and other calls act between them. A request goes out with the ticket
of that moment (`sent`). Anything a tool refuses before it touches the store is
`CallFails`. `DeliverBreaks` is the one failure between storing a match and
erasing the ticket: `urljoin` raises on some URLs. `share` is the point between the two
lookups of `spectator_token`. The rest of a tool that only reads is left out
after its lookup. External and assumed: a join gets a new ticket, a leave cancels
only a waiting one, a matched ticket delivers its match at every poll. Tools run
on up to eight threads, so calls may overlap. `hist.overlapped` is set once two
calls about tickets have: `ErasedIsSettled` is about callers that await each of
those, whatever else they do meanwhile. `hist.since[m]` is the set of other
matches delivered or used since `m` last was. The hosted endpoints offer none of
the matchmaking tools; the stdio server has one store for its one session, and a
restart begins again with an empty one.

### StdioFraming

`_read_stdin_line` piece by piece (`BeginLine`, `DropPiece`), the hand-over of a
line or an error to the SDK (`SendLine`), and `_bounded_output` in the writer. The
input is any sequence of three kinds of byte: newline, a byte of a message, one that
makes its line invalid. When bytes arrive is left out: `readline` waits.
`Expected(line)` states what should be reported for a line, from the positions of
the newlines alone: `Ends` are the places where lines end, `LinesTo(b)` how many end
by `b`, `LineTo(b)` the bytes of the one that does. Ids are assumed to be short
enough for an error to fit the limit, which the code does not check. The tool
limiter is that of `HostedRequests`; shutdown is not modelled.

### Sanitize and ServiceReply

A call from `ensure_no_secret` on its arguments to what the host gets: the
request, the reply or the error text, the handler that remembers a delivered
credential and makes its result with `public_result`, and `invoke_tool`, which
sanitises that once more or redacts an error. `bearer` is the credential in the
`Authorization` header, which `json_request` hides in the text of an error beside
what the store holds; tools that send theirs in the body (`tool_get_match_state`,
`tool_submit_action`) have none. `OtherCall` is another call of the session that drops
one credential from the store, adds one or replaces one, at any of these points.

`redact_text` reads the store anew for each text and key. A pass is one action, with
its lookups as a parameter: `stores` collects what the store held since the pass may
have begun, and `Lookups(item, stores)` are all ways to answer each lookup with one
of these. That leaves out their order, so it has more behaviours than the code, and
what holds of it holds of the code. `MaxStores` bounds how many stores one pass may
meet, for each reply: in `service_reply` it is 2 for seven replies that hold a
credential in a text, a key or both, and 1 for all others, where the store changes
between the passes only.

`NoSecretEscapes` is about credentials that the store held all through one of the two
passes, and about the bearer of a request that failed. It does not say more because
the code does not do more: a seat token or ticket of a request's body that other calls
drop from the store in flight is not hidden in the answer to it, nor is what the store
lacked for a moment in each of the two passes.

`Sanitize` translates `redact_text` (`Redact`), `sanitize_public` (`Visit`) and
`public_result` (`PublicResult`), with the secrets, or the lookups, as a parameter.
Each loop of the code is a recursive function and each turn of it an operator:
`Reading` goes through a text for one secret, `Hiding` through the secrets,
`Visiting` through the values of an item on the budget that is left, `Visit` through
the depths. A text is a sequence of symbols: letters, a slash, what a URL writes for
it and for that in turn (`%2F`, `%252F`), a control character and what replaces it.
A field name ends in `T` when `is_secret_field` holds of it. JSON values are nested
less deep than `MaxNesting`, at which `json.loads` raises.

`[redacted]` is one symbol, as are the notice and its key, and no credential has such
a symbol in it. This leaves out what the code does not exclude: a credential that is
a part of one of these texts (`_credential` accepts one letter), and a text that
redaction makes longer than `MAX_STRING_LENGTH`, which the second pass cuts again.
The fixed patterns for bearer tokens and Eigendark credentials are left out: what the
model hides, it hides because the session knows it. `RefusedExactly` compares with
`Fits`, which counts nodes and depths without an order of visits;
`OnlySecretsHidden` compares with the positions some credential covers.

What the model shows of the code, beside its properties: a result with exactly
as many fields or nodes as allowed gets the notice on top and is refused in the
second pass, as an error after the call has done its work; a text is cut before it is
redacted, so it may end in the first part of a credential; a key is cut after it is
judged, so a long harmless one may be cut to the name of a secret, and its value, shown
by the first pass, is hidden by the second (the exception in `SecondPassAgrees`, which
its proof brought to light); a body that breaks
off (`IncompleteRead`) is caught by `invoke_tool` only.

### Deploy

`install-production.sh` command by command, as far as the runtime directories and
the service are concerned. `rm -rf` and the build are two steps each, with a
`Partial` directory between them. `Quit` ends the script at any command: one that
fails under `set -e`, or an interruption; `Reboot` also restarts what the unit
enables. Then the script may be run again. `systemctl start` that fails outright
ends the script without a rollback: that is a `Quit` too. Assumed: `systemctl stop`
stops the service, and a good release answers `/healthz` whenever it is started in
one of thirty attempts or is taken to be too slow.

`exposed` records that a run stopped between its swap and its end, `spent` that a
later run then removed `$RUNTIME_PREVIOUS`. This is the one case the properties
except: after a swap that broke off the only good release may be in
`$RUNTIME_PREVIOUS`, and the next run removes it before it knows whether its own
release works.

## Runs

| Run | Instance | Shows |
|---|---|---|
| `shared_key` | 2 threads, 2 sessions, 3 calls, 3 keys, any of them malformed, 1 crash, clock to 4; cache life 2, service life 3, lock held at most 1 | `CachedKeyUnexpired`, `CacheTiersAgree`, `DroppedKeysStayOut`, `OnboardingSlotHeld`, `MintSpacing` |
| `shared_key_live` | as above without disk, clock to 2, 2 keys; revocations, malformed keys and uncaught exceptions | `CallsEnd` |
| `gpt_registry` | 2 calls, registry of 2, 3 games, some finished by play, no turns, budget 2, life 1, clock to 1 | `RegistryBounded`, `OpenIsRegistered`, `EvictsLeastRecent`, `ClosedIsFinal`, `ImplementsSession` |
| `gpt_live` | 3 calls, 1 game of 1 turn, which may end it, budget 2, life 1, clock to 1 | `CallBudget`, `OneToolPerGame`, `OneCallAfterClosing`, `SeqFollowsMatch`, `CallsEnd` |
| `session_admission` | 4 requests, 2 clients, 4 ids, 3 sessions, 2 per client | `CapacityKept`, `ClientShareKept`, `ReservationsExact`, `RefusedOnlyWhenFull`, `ImplementsPool` |
| `hosted_requests` | 3 requests for ever, gate of 2, 1 thread per pool, 2 places for session objects, 2 sessions ever | `WorkersBounded`, `NothingLost`, `StoresIsolated`, `RequestsEnd` |
| `matchmaking` | 2 calls, 2 tickets, 3 matches, table of 2 | `ErasedIsSettled`, `ForgottenWhenCrowded` |
| `stdio_framing` | every input of up to 6 bytes, lines of up to 2; 2 messages out | `FramesInStep`, `AnswersWritten` |
| `service_reply` | every text of up to 3 symbols, trees of depth 2 and width 2, keys, errors and arguments that hold a credential; 2 credentials, one the beginning of the other; 1 store in a pass, 2 for 7 replies | `NoSecretEscapes`, `OnlySecretsHidden`, `RefusedExactly`, `SecondPassAgrees` |
| `deploy` | 4 releases, good or bad in any combination | `ProvenSurvives`, `ProvenIsStarted` |
| `shared_key_retry`, `match_leave` | small instances | claims the code does not keep, below |

Why the bounds are enough. Two threads are what every race here needs: one in a
critical section or at the service, one that changes what it relies on; the liveness
run of the sessions has three, so that a waiter can be overtaken. A cache life of
two ticks with one of slack has a fresh, an ageing and an expired moment, and a file
written a tick after the lock was taken, the case that strains the slack. Three keys
allow a mint, a replacement and one for a session. A registry of two shows which
entry a third game evicts, with a call of the evicted session at any point. A budget
of two lets a call fail and another meet the limit; in a match of one turn the reply
of a read and that of the turn may cross, and the turn may be the last. That is
checked on one session, since sessions share nothing but the registry. Three
requests at a gate of two leave one outside while the others hold tokens, run tools
or cancel them; one thread per pool makes a detached thread the reason another call
waits; two places and two conversations let a place be used again while a call of
the other session runs. The properties of replies compare operators with reference
definitions, so their bound is on data: credentials of one and two symbols, texts
long enough for both and for a cut, and trees that meet each limit and exceed it by
one. Four installations are one that works, one whose swap breaks off, and two more
runs after it. Four ids exceed the three places, so a place is used again. Two
tickets let an old one be cancelled late while a new one waits; three matches in a
table of two show which is forgotten. Lines of up to two bytes in an input of six
give lines below, at and above the limit, one whose tail looks like a message, and
one after it. In symmetric runs threads, sessions, clients or ids are
interchangeable: nothing orders them. Liveness is checked without symmetry.

### Claims the code does not keep

- `RetryUsesFreshKey`: the comment in `tools.py` 553–554 promises a retry with a
  freshly minted key after a revocation. The session's store still holds the
  revoked key, so `_ensure_shared_sandbox_key` returns at once (478–479).
- `LeaveErasesCancelled`: `leave_matchmaking` is to "cancel a waiting ticket and
  erase it from memory" (repository README, "Tools"). If a join stores a ticket
  between the leave's request and its reply, that ticket is erased instead, and
  still waits at the service. `ErasedIsSettled` shows that a caller who awaits each
  result is safe from this.

Two more comments are broader than the code. `tools.py` 373–374 says the process
mints about weekly; any failed creation drops the key from both tiers, a good one
too, and `MintSpacing` states what remains: a full cache lifetime between mints
unless the cache lost the key. Each Action response says the handle expires in
1800 seconds; for a finished match it is erased already (`PlayOver`).

## Fairness

`FairSpec` asks weak fairness of each call's steps: a runnable thread is
scheduled, a request ends because `json_request` has a timeout, the proof of
work has an iteration limit. Nothing is asked of new calls, the clock, the
service's success, crashes or ended sessions. Python's locks promise no order
among waiters, and none is assumed: `CallsEnd` holds because the calls that can
overtake a waiter are finitely many, in `SharedKey` by the bound on calls, in
`GptGames` by a session's own call budget. With an endless supply of calls a
particular waiter for `_SHARED_KEY_LOCK` could be overtaken for ever.
`HostedRequests` asks weak fairness of the steps of requests (`Served`) and of detached
threads (`DetachedEnds`), for an endless supply of requests. Two things it does not ask,
because nothing grants them. A stream need not end: the SDK's pings keep a GET stream
from being silent, so nginx's `proxy_read_timeout` does not end it. `RequestsEnd`
therefore excepts the case that from some time on streams hold every token of the gate
(`StreamsFillGate`), and only that one: a single token left is enough for everyone else.
And a tool's thread need not end while others keep coming, since it may be overtaken at
`_SHARED_KEY_LOCK` for ever; so threads are assumed to end only in behaviours in which,
from some time on, no further call is handed to a pool (`RunsTool`). Requests of every
other kind may go on arriving. What is left rests on two things outside this code: nginx
sends a body whole or not at all, and a tool's requests have timeouts. Here the order of
waiters is known, since `anyio.CapacityLimiter` hands its tokens out in order of
arrival, and needed: `RequestsEnd` fails for a gate that lets the last comer in
first (`EnterGateLast`). Its safety half is `NothingLost`, which is proved: nobody
waits outside a queue, and every token that is out belongs to a request or thread
whose end fairness grants.
`SessionAdmission` has no liveness property: how long a request stays in the SDK
is not this code's choice. `Matchmaking` has none either: no call waits for
another, and polling is up to the caller.

## Proofs

The theorems hold for any threads, sessions and requests, any bounds, and any
times that satisfy the named assumptions; TLC evaluates these on every run.

`SharedKeyProofs`, from `CacheTTL + MaxHold <= ServerTTL` (six days, one day of
slack, seven days):

- `TypeCorrect`: `TypeOK`.
- `CachedKeysAreUnexpired`: `CachedKeyUnexpired`. On its own it is not inductive:
  a key in memory may owe its date to the file, the file's to the moment it was
  saved. The strengthening bounds the date of each copy by the mint it stems
  from plus the time the lock was held, and says who is at `mint` or `save`
  while the lock is taken.
- `MintsAreSpaced`: `MintSpacing`, from a strengthening that ties the last mint
  to what the tiers hold unless the cache has lost it.
- `TiersAgree`: `CacheTiersAgree`. A mint starts only if neither tier is fresh,
  and time never makes a stale file fresh.
- `ClearedStayOut`: `DroppedKeysStayOut`, since what enters memory is newly issued or
  comes from the file, and what enters the file comes from memory.
- `SlotFreed`: `OnboardingSlotHeld`, inductive as it stands: an onboarding that is
  refused, fails or dies with the process leaves no slot taken behind it.

`GptGamesProofs`, from nothing but the positive limits:

- `BudgetKept`, `OneToolAtATime`, `SeqInOrder`, `ClosedForGood`,
  `LastCallAfterClosing`: `CallBudget`, `OneToolPerGame`, `SeqFollowsMatch`,
  `ClosedIsFinal`, `OneCallAfterClosing`.
- `SessionsTypeCorrect`: a call has only sessions that were created, whatever
  happens to the registry.
- `GamesTypeCorrect`, `NeverOverLimit`, `ReachableExactlyWhileOpen`,
  `OldestGoesFirst`: `TypeOK`, `RegistryBounded`, `OpenIsRegistered`,
  `EvictsLeastRecent`.
- `GamesImplementSession`: `ImplementsSession`.

The inductive invariant of the sessions, `IInv`, adds four facts to their
types. `LockInv`: a call that was let in holds its session's lock.
`BudgetInv`: tools invoked and calls left add up to the grant. `SeqInv`: a reply
on its way is no older than the last one recorded and no newer than the match.
`AfterInv`: no tool was invoked for an open session after its closing, nor for one
that a call which has not invoked its tool yet is in.
Each is one action away from failing without the others: recording a reply keeps
`SeqInv` only because nobody else can be at the service for that session.

That of the registry, `RInv`, stands on `IInv`. `ShapeInv`: the registry is a
sequence of sessions without duplicates and within its limit. `HeldInv`: a
session is in it exactly while it is open, but for those a call has closed and,
holding their lock, is about to erase. `RecentInv`: the order of the registry is
the order of last use, so that what `Excess` takes from its front was used no
later than what stays.

The refinement is proved by kinds of step: those that leave the mapped state
alone, those that close sessions (purge, discard, erase, expiry), creation, letting
in, an invocation, a refusal, an answer. Letting in is an `Admit` of the abstract
session because `LockInv` says no other call of the session is in.

`SessionAdmissionProofs`, for any limits, clients and ids and any finite set of
requests:

- `TypeCorrect`: `TypeOK`; a counter of reservations never falls below zero.
- `ReservationsKept`: `ReservationsExact`.
- `CapacityNeverExceeded`: `CapacityKept`. `Admit` compares sessions plus
  `pending` with the bound, while the property counts requests that may still
  create a session; `ReservationsExact` links the two, as those requests are
  among the reserved ones. Each step changes the sets involved by at most one
  element, and the lemmas `OneMore` and `OneLess` do the counting.
- `ClientSharesKept`: `ClientShareKept`. The table of owners is purged, so the
  property speaks of sessions by their creators in `hist`; `IdInv` says which ids
  a request may still bring and that a session's id, once captured, is entered
  under its creator, `ShareInv` bounds what a client owns plus what it reserves.
- `RefusedForTheLiving`: `RefusedOnlyWhenFull`, since both counts are taken after
  the purge.
- `AdmissionImplementsPool`: `ImplementsPool`. `Admit` takes a place because
  reservations are at least the requests that hold one.

`HostedProofs`, for any finite set of requests and any places and limits:

- `StoresAreIsolated`: `StoresIsolated`.
- `HostedTypeCorrect`, `WorkersNeverExceed`, `NothingIsLost`: `TypeOK`,
  `WorkersBounded`, `NothingLost`.

A call relies on the table while it runs, though it reads it only once:
`CallHasEntry` says its store is still the entry of its session, and `EntryIsOwn`
that an entry belongs to the conversation in that place. `Collect` keeps both as it
waits for the last call. Where requests are is the subject of `PlaceInv`: `KindInv`
says which pool a waiting or running call belongs to, `QueueInv` that each queue
holds exactly those who wait, once, and `GateInv` that the gate's tokens belong to
exactly those who are inside. `TokenInv` counts: tokens taken from a pool are its
threads, detached ones included. They need each other: without `QueueInv` a thread
could be started twice for one call, and without `KindInv` a cancelled call could be
counted against the wrong pool. Detached threads are the set `Detached` of pairs of
a session and a number, so that they can be counted without a recursive sum.

About `Deploy`, for any number of releases: `DeployTypeCorrect`, `ReleaseSurvives`
(`ProvenSurvives`) and `RollbackRestores` (`ProvenIsStarted`). That the release is
in one of two directories is not inductive, as the next command may remove one:
`Placed` says at which commands it is in which, and `WholeIsStarted` that what is
moved in is not partial.

`MatchmakingProofs`, for any number of calls, tickets and matches and any
size of the table:

- `TypeCorrect`: `TypeOK`, with each match in the table once and at most `MaxMatches`.
- `ErasedAreSettled`: `ErasedIsSettled`.
- `ForgottenExactlyWhenCrowded`: `ForgottenWhenCrowded`.

An erasure acts on an answer that may be
old. `CallInv` keeps what a call has learnt of its ticket from the answer on, which
is possible because it acts on final states only; `AloneInv` says that without
overlap the ticket in memory is the one the call asked about. `LeaveErasesCancelled`
fails exactly where `AloneInv` does.

That a match is forgotten only when crowded out
needs more than the table. `TableInv` says that what was used since a stored match
last was is exactly what stands after it in the table (`After`), and that a table's
worth of others was used since a forgotten one, so a match is pushed out with
the whole rest of a full table in its history.

`StdioProofs`, for any input, any limit and any messages: `FramesStayInStep`
(`FramesInStep`), `AnswersAreWritten` (`AnswersWritten`) and `StdioTypeCorrect`
(`TypeOK`). The reader sees only the next bytes; the invariant names the place `b`
where the current line began: every line that ends by `b` is reported as expected
(`Reported(b)`), and what was read since belongs to one line (`InLine(b)`). That
a dropped piece is never the beginning of a line is what makes the tail of an
oversized line invisible.

`ServiceReplyProofs`, for any replies, errors and arguments, any limits, and any finite
set of credentials without this program's own symbols: `ReplyTypeCorrect` (`TypeOK`),
`SecretsStayInside` (`NoSecretEscapes`), `RefusalExact` (`RefusedExactly`) and
`SecondPassChangesNothing` (`SecondPassAgrees`). The invariant of a call, `ReplyInv`,
adds to the properties how far a call is (`Staged`), that an error has lost its
request's bearer before it is reported (`ErrorFree`), and what the second
pass makes of the first one's result (`Twice`). The work is in the lemmas about
`Sanitize`:

- Redaction. Replacing one secret must not bring about another, or the order
  would matter. `IsKept` gives each symbol that a replacement keeps the place it had:
  neighbours that are both kept were neighbours, so a secret in the result was one in
  the text (`Stems`). With that `RedactHides` follows by induction over the secrets,
  and an error redacted twice keeps what the first time achieved (`ReportStep`). It
  holds whatever the order; longest first only decides what else becomes visible.
- Lookups. What every lookup of a pass hides, no text or key of its result has
  (`Looked`, `PassHides`, `LookupsHide`); if all lookups agree, the pass is that of one
  set of secrets (`Steady`, `SameLookup`).
- Limits. The budget after a visit is the budget before it less the nodes the item
  has, or the visit is refused (`VisitCounts`, by induction over the depth, with
  `VisitingCounts` over an item's values). Nodes are counted by their places, which
  `NodesOf` shows to be different for different values of an item.
- Second pass. What a first pass builds is `Stable`: its texts are short and have
  nothing to hide, its keys are different and not cut again, and what is under a
  secret name is hidden already (`Proper`). The notice keeps that, and its field, put
  again, changes nothing (`PutTwice`); so a refusal is left, and `RefusalExact` says
  when.

`OrdersProofs` has no theorem about the system but the lemmas the above rest on:
removing, appending, moving to the end and dropping the oldest keep a sequence
free of duplicates, keep its order, and have the keys they should. `Without` is a
recursive function, and what it computes is shown for every sequence: the
induction runs over the set of numbers for which the claim holds, by the
well-foundedness of the naturals (`InductionUpTo`), since the library's induction
theorems take a predicate as a parameter, which no installed prover instantiates.

The recursive functions of `Sanitize` are treated in the same way, and so is the
existence of each: a function defined by recursion is a choice, and the lemmas
`...Exists` and `...Unfolds` show that there is one to choose.

Only proved: the type invariants of `SessionAdmission` and `HostedRequests` (what they
say of the counters, `ReservationsExact` and `NothingLost` say more sharply in the runs).

Only model-checked: `OnlySecretsHidden`, which does not hold for every set of
credentials (of `ab` and `bc`, each hidden in turn, `abc` keeps its `c`) but for those
where one may begin another, as in its run; and liveness (`CallsEnd` of both runs and
`RequestsEnd`), which these provers do not treat.

## Not modelled

Within modelled parts: shutdown of the stdio streams; the two fixed patterns of
credentials in `security.py`; the checks of a request's URL and size in
`http_client.py`; `get_standing` and `summarize_state`, which keep no state; a
session's `active_count` and the store's `reset`, which only tests call; the
installer's Python runtime, certificates, address lists and nginx file, which no
rollback restores; uvicorn's own connection limit.

Parts left out: JSON schemas and the tool table (data), certificate and
header checks (pure predicates of library calls), the proof-of-work hash (its
failure is a case of `MintFails`), configuration, release scripts, plugin files.
