----------------------------- MODULE SharedKey -----------------------------
(***************************************************************************)
(* The sandbox key shared by every public session of the hosted process    *)
(* (tools.py, _ensure_shared_sandbox_key and its callers).                 *)
(*                                                                         *)
(* A tool call runs on a worker thread on behalf of one session, whose     *)
(* CredentialStore holds at most one API key.  play_eigendark takes a key  *)
(* from the session, else from the process cache, else from the disk       *)
(* cache, else mints one from the service while it holds the cache's lock; *)
(* then it creates a match with it.  A failed creation clears both caches  *)
(* and tries once more.  onboard_sandbox mints a key for its session only. *)
(*                                                                         *)
(* Everything read or written under _SHARED_KEY_LOCK is written only under *)
(* it, so a critical section without a remote call is one step; minting    *)
(* and saving are steps of their own, between which the service, the clock *)
(* and a crash of the process may act.                                     *)
(***************************************************************************)
EXTENDS Naturals

CONSTANTS
    Workers,     \* worker threads of the process
    Sessions,    \* sessions, each with a CredentialStore of its own
    NoWorker,    \* the lock's value when no thread holds it
    CacheTTL,    \* _SHARED_KEY_TTL_SECONDS, in ticks
    ServerTTL,   \* how long the service honours a key, in ticks
    MaxHold,     \* ticks that may pass while one thread holds the lock
    StateDir,    \* TRUE iff a writable state directory is configured
    Faults,      \* which faults may occur, a subset of FaultKinds
    MaxTime,     \* bound on the clock
    MaxKeys,     \* bound on keys the service issues
    MaxPlays,    \* bound on tool calls begun
    MaxCrashes   \* bound on crashes of the process

(***************************************************************************)
(* "transient": a request fails though its key is good (429, timeout, a    *)
(*              malformed reply);  "break": a failure that is not a        *)
(*              ToolError, which play does not catch;                      *)
(* "revoke":    the service drops a key early;                             *)
(* "malformed": the key the service issues has characters that no store    *)
(*              accepts (_credential);                                     *)
(* "save", "remove": the file operation raises OSError, which is swallowed;*)
(* "crash":     the process dies and is restarted by its supervisor.       *)
(***************************************************************************)
FaultKinds == {"transient", "break", "revoke", "malformed", "save", "remove", "crash"}

ASSUME SetsAssumption ==
    NoWorker \notin Workers /\ Faults \subseteq FaultKinds /\ StateDir \in BOOLEAN

\* Six days of caching, one day of slack, seven days at the service.
ASSUME TimesAssumption ==
    /\ CacheTTL \in Nat \ {0} /\ ServerTTL \in Nat /\ MaxHold \in Nat
    /\ CacheTTL + MaxHold <= ServerTTL

ASSUME BoundsAssumption ==
    MaxTime \in Nat /\ MaxKeys \in Nat /\ MaxPlays \in Nat /\ MaxCrashes \in Nat

Keys   == 1..MaxKeys
NoKey  == 0
Times  == Nat
NoFile == [key |-> NoKey, at |-> 0]

VARIABLES
    now,        \* wall clock (time.time)
    issued,     \* number of keys the service has issued; key k is the k-th
    mintTime,   \* when the service issued each key
    revoked,    \* keys the service dropped early
    unusable,   \* keys issued that no store accepts
    memKey,     \* _shared_sandbox_key
    memExp,     \* _shared_sandbox_key_expires_at
    disk,       \* shared-sandbox-key.json: api_key and minted_at
    lock,       \* holder of _SHARED_KEY_LOCK
    lockTime,   \* the holder's local variable "now", read on entry
    onboarding, \* holder of _ONBOARD_LOCK
    pc,         \* where each worker is
    attempt,    \* first or second match creation of the call
    sess,       \* session on whose behalf each worker runs
    usedKey,    \* key of the worker's failed first creation
    storeKey,   \* each session's CredentialStore._api_key
    plays,      \* tool calls begun
    crashes,    \* crashes so far
    hist        \* history: see HistoryType

service == <<issued, mintTime, revoked, unusable>>
cache   == <<memKey, memExp, disk>>
locks   == <<lock, lockTime, onboarding>>
calls   == <<pc, attempt, sess, usedKey>>
bounds  == <<plays, crashes>>
vars    == <<now, service, cache, locks, calls, storeKey, bounds, hist>>

Points == {"idle", "check", "want", "mint", "save", "create", "clear",
           "autoplay", "onboard"}

(***************************************************************************)
(* History, read by properties only: the last key minted for the cache,    *)
(* when that mint entered the lock, whether the cache has since lost it    *)
(* (it was cleared, or the process died with no copy of it on disk that    *)
(* can be loaded), and the keys removed from both cache tiers.             *)
(***************************************************************************)
HistoryType == [key: Keys \cup {NoKey}, start: Times, lost: BOOLEAN, dropped: SUBSET Keys]

TypeOK ==
    /\ now \in Times
    /\ issued \in Nat
    /\ mintTime \in [Keys -> Times]
    /\ revoked \subseteq Keys
    /\ unusable \subseteq Keys
    /\ memKey \in Keys \cup {NoKey}
    /\ memExp \in Times
    /\ disk \in [key: Keys \cup {NoKey}, at: Times]
    /\ lock \in Workers \cup {NoWorker}
    /\ lockTime \in Times
    /\ onboarding \in Workers \cup {NoWorker}
    /\ pc \in [Workers -> Points]
    /\ attempt \in [Workers -> {1, 2}]
    /\ sess \in [Workers -> Sessions]
    /\ usedKey \in [Workers -> Keys \cup {NoKey}]
    /\ storeKey \in [Sessions -> Keys \cup {NoKey}]
    /\ plays \in Nat
    /\ crashes \in Nat
    /\ hist \in HistoryType

Init ==
    /\ now = 1
    /\ issued = 0
    /\ mintTime = [k \in Keys |-> 0]
    /\ revoked = {}
    /\ unusable = {}
    /\ memKey = NoKey
    /\ memExp = 0
    /\ disk = NoFile
    /\ lock = NoWorker
    /\ lockTime = 0
    /\ onboarding = NoWorker
    /\ pc = [w \in Workers |-> "idle"]
    /\ attempt = [w \in Workers |-> 1]
    /\ sess \in [Workers -> Sessions]
    /\ usedKey = [w \in Workers |-> NoKey]
    /\ storeKey = [s \in Sessions |-> NoKey]
    /\ plays = 0
    /\ crashes = 0
    /\ hist = [key |-> NoKey, start |-> 0, lost |-> FALSE, dropped |-> {}]

----------------------------------------------------------------------------
\* The service honours key k.
Live(k) == k # NoKey /\ k \notin revoked /\ now < mintTime[k] + ServerTTL

\* _credential accepts key k.
Usable(k) == k \notin unusable

\* The in-memory copy may be handed out (line 482).
MemoryFresh == memKey # NoKey /\ now < memExp

\* _load_shared_key_from_disk finds an acceptable file.
DiskFresh ==
    /\ disk.key # NoKey /\ Usable(disk.key)
    /\ 0 < disk.at /\ disk.at <= now
    /\ now < disk.at + CacheTTL

Goto(w, point) == pc' = [pc EXCEPT ![w] = point]
\* The call returns or raises, and its local variables are gone.
Return(w) ==
    /\ Goto(w, "idle")
    /\ attempt' = [attempt EXCEPT ![w] = 1]
    /\ usedKey' = [usedKey EXCEPT ![w] = NoKey]

\* Mutants, here and below, are plausible mistakes in the definition they
\* precede; the specification uses none of them.  The lock stays taken.
ReleaseForgotten == lockTime' = 0 /\ UNCHANGED lock

\* The lock is given back; its holder's reading of the clock is gone.
Release == lock' = NoWorker /\ lockTime' = 0

\* remember_api_key, which raises if the key is not usable; its callers say so.
\* Mutant: the other sessions' stores are dropped.
GiveKeyToOne(w, k) == storeKey' = [s \in {sess[w]} |-> k]

GiveKey(w, k) == storeKey' = [storeKey EXCEPT ![sess[w]] = k]

\* The service issues a key; whether the reply arrives is up to the caller.
Issue ==
    /\ issued < MaxKeys
    /\ issued' = issued + 1
    /\ mintTime' = [mintTime EXCEPT ![issued + 1] = now]
    /\ \/ UNCHANGED unusable
       \/ "malformed" \in Faults /\ unusable' = unusable \cup {issued + 1}
    /\ UNCHANGED revoked

----------------------------------------------------------------------------
\* tool_play_eigendark is called in session s.
Play(w, s) ==
    /\ pc[w] = "idle" /\ plays < MaxPlays
    /\ plays' = plays + 1
    /\ Goto(w, "check")
    /\ sess' = [sess EXCEPT ![w] = s]
    /\ UNCHANGED <<now, service, cache, locks, attempt, usedKey, storeKey,
                   crashes, hist>>

\* A session that has a key uses it; the lock is not taken.
CheckStore(w) ==
    /\ pc[w] = "check"
    /\ Goto(w, IF storeKey[sess[w]] # NoKey THEN "create" ELSE "want")
    /\ UNCHANGED <<now, service, cache, locks, attempt, sess, usedKey,
                   storeKey, bounds, hist>>

MemoryHit(w) ==
    /\ pc[w] = "want" /\ lock = NoWorker
    /\ MemoryFresh /\ Usable(memKey)
    /\ GiveKey(w, memKey)
    /\ Goto(w, "create")
    /\ UNCHANGED <<now, service, cache, locks, attempt, sess, usedKey, bounds, hist>>

\* The session's store refuses the cached key: the call fails, the cache stays.
MemoryRefused(w) ==
    /\ pc[w] = "want" /\ lock = NoWorker
    /\ MemoryFresh /\ ~Usable(memKey)
    /\ Return(w)
    /\ UNCHANGED <<now, service, cache, locks, sess, storeKey, bounds, hist>>

\* The file's key becomes the in-memory copy, until time e.
Adopt(w, e) ==
    /\ memKey' = disk.key
    /\ memExp' = e
    /\ GiveKey(w, disk.key)
    /\ Goto(w, "create")
    /\ UNCHANGED <<now, service, disk, locks, attempt, sess, usedKey, bounds, hist>>

\* Mutant: loading a key renews it.
DiskHitRenewing(w) ==
    pc[w] = "want" /\ lock = NoWorker /\ ~MemoryFresh /\ DiskFresh /\ Adopt(w, now + CacheTTL)

DiskHit(w) ==
    /\ pc[w] = "want" /\ lock = NoWorker
    /\ ~MemoryFresh /\ DiskFresh
    /\ Adopt(w, disk.at + CacheTTL)

BeginMint(w, holder) ==
    /\ lock' = holder
    /\ lockTime' = now
    /\ Goto(w, "mint")
    /\ UNCHANGED <<now, service, cache, onboarding, attempt, sess, usedKey,
                   storeKey, bounds, hist>>

\* Mutants: the file is not consulted; the lock is not kept while minting.
StartMintBlind(w) ==
    pc[w] = "want" /\ lock = NoWorker /\ ~MemoryFresh /\ BeginMint(w, w)
StartMintUnlocked(w) ==
    /\ pc[w] = "want" /\ lock = NoWorker /\ ~MemoryFresh /\ ~DiskFresh
    /\ BeginMint(w, NoWorker)

\* Neither tier has a fresh key: mint one, keeping the lock.
StartMint(w) ==
    /\ pc[w] = "want" /\ lock = NoWorker
    /\ ~MemoryFresh /\ ~DiskFresh
    /\ BeginMint(w, w)

\* The minted key arrives and becomes the in-memory copy.
MintReply(w) ==
    /\ pc[w] = "mint"
    /\ Issue
    /\ memKey' = issued + 1
    /\ memExp' = lockTime + CacheTTL
    /\ hist' = [hist EXCEPT !.key = issued + 1, !.start = lockTime, !.lost = FALSE]
    /\ Goto(w, "save")
    /\ UNCHANGED <<now, disk, locks, attempt, sess, usedKey, storeKey, bounds>>

\* Challenge, proof of work or onboarding fails; a lost reply spends a key.
MintFails(w) ==
    /\ pc[w] = "mint"
    /\ \/ UNCHANGED service
       \/ Issue
    /\ Release
    /\ Return(w)
    /\ UNCHANGED <<now, cache, onboarding, sess, storeKey, bounds, hist>>

\* _save_shared_key_to_disk replaces the file atomically, or leaves it alone;
\* only then does the session's store take the key, or refuse it.
SaveKey(w) ==
    /\ pc[w] = "save"
    /\ \/ StateDir /\ disk' = [key |-> memKey, at |-> now]
       \/ (~StateDir \/ "save" \in Faults) /\ UNCHANGED disk
    /\ Release
    /\ \/ /\ Usable(memKey)
          /\ GiveKey(w, memKey)
          /\ Goto(w, "create")
          /\ UNCHANGED <<attempt, usedKey>>
       \/ /\ ~Usable(memKey)
          /\ Return(w)
          /\ UNCHANGED storeKey
    /\ UNCHANGED <<now, service, memKey, memExp, onboarding, sess, bounds, hist>>

\* create_bot_match succeeds with the key the session holds now.
CreateOk(w) ==
    /\ pc[w] = "create"
    /\ Live(storeKey[sess[w]])
    /\ Goto(w, "autoplay")
    /\ UNCHANGED <<now, service, cache, locks, attempt, sess, usedKey,
                   storeKey, bounds, hist>>

\* create_bot_match raises ToolError: the first time play clears the caches
\* and tries again, the second time the call fails.
CreateFails(w) ==
    /\ pc[w] = "create"
    /\ ~Live(storeKey[sess[w]]) \/ "transient" \in Faults
    /\ \/ /\ attempt[w] = 1
          /\ Goto(w, "clear")
          /\ usedKey' = [usedKey EXCEPT ![w] = storeKey[sess[w]]]
          /\ UNCHANGED attempt
       \/ /\ attempt[w] = 2
          /\ Return(w)
    /\ UNCHANGED <<now, service, cache, locks, sess, storeKey, bounds, hist>>

\* Any other exception leaves play at once.
CreateBreaks(w) ==
    /\ pc[w] = "create" /\ "break" \in Faults
    /\ Return(w)
    /\ UNCHANGED <<now, service, cache, locks, sess, storeKey, bounds, hist>>

\* Mutant: the key is forgotten in memory only.
ClearMemory(w) ==
    /\ pc[w] = "clear" /\ lock = NoWorker
    /\ memKey' = NoKey
    /\ memExp' = 0
    /\ hist' = [hist EXCEPT !.lost = TRUE, !.dropped = @ \cup ({memKey} \ {NoKey})]
    /\ attempt' = [attempt EXCEPT ![w] = 2]
    /\ Goto(w, "check")
    /\ UNCHANGED <<now, service, disk, locks, sess, usedKey, storeKey, bounds>>

\* _clear_shared_sandbox_key: whatever the caches hold is dropped, whichever
\* key it was that failed; the session's own copy is left alone.
ClearCache(w) ==
    /\ pc[w] = "clear" /\ lock = NoWorker
    /\ memKey' = NoKey
    /\ memExp' = 0
    /\ \/ /\ disk' = NoFile
          /\ hist' = [hist EXCEPT !.lost = TRUE,
                                  !.dropped = @ \cup ({memKey, disk.key} \ {NoKey})]
       \/ /\ disk # NoFile /\ "remove" \in Faults
          /\ UNCHANGED disk
          /\ hist' = [hist EXCEPT !.lost = TRUE,
                                  !.dropped = @ \cup ({memKey} \ {NoKey, disk.key})]
    /\ attempt' = [attempt EXCEPT ![w] = 2]
    /\ Goto(w, "check")
    /\ UNCHANGED <<now, service, locks, sess, usedKey, storeKey, bounds>>

\* _autoplay_bot_match returns or raises; neither touches a key.
AutoplayEnds(w) ==
    /\ pc[w] = "autoplay"
    /\ Return(w)
    /\ UNCHANGED <<now, service, cache, locks, sess, storeKey, bounds, hist>>

\* tool_onboard_sandbox takes _ONBOARD_LOCK without waiting; a second
\* onboarding at the same time is refused and changes nothing.
OnboardStart(w, s) ==
    /\ pc[w] = "idle" /\ plays < MaxPlays
    /\ onboarding = NoWorker
    /\ onboarding' = w
    /\ plays' = plays + 1
    /\ sess' = [sess EXCEPT ![w] = s]
    /\ Goto(w, "onboard")
    /\ UNCHANGED <<now, service, cache, lock, lockTime, attempt, usedKey,
                   storeKey, crashes, hist>>

\* The key minted by onboarding replaces the one the session had, if any.
OnboardReply(w) ==
    /\ pc[w] = "onboard"
    /\ Issue /\ Usable(issued + 1)'
    /\ GiveKey(w, issued + 1)
    /\ onboarding' = NoWorker
    /\ Return(w)
    /\ UNCHANGED <<now, cache, lock, lockTime, sess, bounds, hist>>

\* Mutant: an onboarding that fails keeps the slot.
OnboardFailsInside(w) ==
    /\ pc[w] = "onboard"
    /\ \/ UNCHANGED service
       \/ Issue
    /\ Return(w)
    /\ UNCHANGED <<now, cache, locks, sess, storeKey, bounds, hist>>

\* A request of it fails, or the store refuses the key.
OnboardFails(w) ==
    /\ pc[w] = "onboard"
    /\ \/ UNCHANGED service
       \/ Issue
    /\ onboarding' = NoWorker
    /\ Return(w)
    /\ UNCHANGED <<now, cache, lock, lockTime, sess, storeKey, bounds, hist>>

----------------------------------------------------------------------------
\* A session ends and another takes its place, with an empty store.
ReplaceSession(s) ==
    /\ \A w \in Workers : sess[w] = s => pc[w] = "idle"
    /\ storeKey' = [storeKey EXCEPT ![s] = NoKey]
    /\ UNCHANGED <<now, service, cache, locks, calls, bounds, hist>>

\* The service drops a key before it expires.
Revoke(k) ==
    /\ "revoke" \in Faults
    /\ k <= issued /\ k \notin revoked
    /\ revoked' = revoked \cup {k}
    /\ UNCHANGED <<now, issued, mintTime, unusable, cache, locks, calls, storeKey, bounds, hist>>

\* The process dies and restarts: only the file survives.
Crash ==
    /\ "crash" \in Faults /\ crashes < MaxCrashes
    /\ crashes' = crashes + 1
    /\ memKey' = NoKey
    /\ memExp' = 0
    /\ Release
    /\ onboarding' = NoWorker
    /\ pc' = [w \in Workers |-> "idle"]
    /\ attempt' = [w \in Workers |-> 1]
    /\ usedKey' = [w \in Workers |-> NoKey]
    /\ storeKey' = [s \in Sessions |-> NoKey]
    /\ hist' = [hist EXCEPT !.lost = @ \/ disk.key # hist.key \/ ~Usable(disk.key)]
    /\ UNCHANGED <<now, service, disk, sess, plays>>

\* Time passes, but no thread holds the lock for more than MaxHold ticks.
Tick ==
    /\ now < MaxTime
    /\ lock # NoWorker => now < lockTime + MaxHold
    /\ now' = now + 1
    /\ UNCHANGED <<service, cache, locks, calls, storeKey, bounds, hist>>

\* A step of the call that worker w runs.
CallStep(w) ==
    \/ CheckStore(w) \/ MemoryHit(w) \/ MemoryRefused(w) \/ DiskHit(w)
    \/ StartMint(w) \/ MintReply(w) \/ MintFails(w) \/ SaveKey(w)
    \/ CreateOk(w) \/ CreateFails(w) \/ CreateBreaks(w) \/ ClearCache(w)
    \/ AutoplayEnds(w)
    \/ OnboardReply(w) \/ OnboardFails(w)

Next ==
    \/ \E w \in Workers : CallStep(w)
    \/ \E w \in Workers, s \in Sessions : Play(w, s) \/ OnboardStart(w, s)
    \/ \E s \in Sessions : ReplaceSession(s)
    \/ \E k \in Keys : Revoke(k)
    \/ Crash
    \/ Tick

\* Safety alone; what the theorems are about.
Spec == Init /\ [][Next]_vars

\* A thread that can run is eventually scheduled, and every remote request
\* ends: json_request has a timeout and the proof of work an iteration limit.
FairSpec == Spec /\ \A w \in Workers : WF_vars(CallStep(w))

----------------------------------------------------------------------------
(***************************************************************************)
(* Properties.                                                             *)
(***************************************************************************)

\* A key either cache tier would hand out has not outlived its seven days at
\* the service: the in-memory copy is dated when the lock was taken, before
\* the key was minted, and the file when it was saved, after; neither the
\* slack between the two lifetimes nor a restart in between breaks it.
CachedKeyUnexpired ==
    /\ MemoryFresh => now < mintTime[memKey] + ServerTTL
    /\ DiskFresh => now < mintTime[disk.key] + ServerTTL

\* While the file is fresh, the process and the file hold the same key: a
\* restart never swaps the key of the sessions for another one, even when
\* saving or removing the file has failed before.
CacheTiersAgree ==
    memKey # NoKey /\ DiskFresh => disk.key = memKey

\* Keys minted for the cache are CacheTTL apart, over any number of threads
\* and restarts, unless the cache lost the previous one: a failed match
\* creation cleared it, or the process died and the file has no usable copy.
MintSpacing ==
    [][hist'.key # hist.key /\ hist.key # NoKey
         => hist.lost \/ hist'.start >= hist.start + CacheTTL]_vars

\* A key removed from memory and from the file never comes back to either,
\* whatever other threads were saving, loading or minting at the time.
DroppedKeysStayOut ==
    memKey \notin hist.dropped /\ disk.key \notin hist.dropped

\* The one place for an onboarding is taken exactly while one runs, however it
\* ends: none is left that would refuse every onboarding after it.
OnboardingSlotHeld == \A w \in Workers : onboarding = w <=> pc[w] = "onboard"

\* No call waits for ever, for the lock or for the service: the holder of the
\* lock always gives it back, and no call takes it while holding another.
CallsEnd ==
    \A w \in Workers : pc[w] # "idle" ~> pc[w] = "idle"

(***************************************************************************)
(* Claims of the comments in tools.py that the code does not keep.         *)
(***************************************************************************)

\* "retry once against a freshly minted key if the cached one was revoked"
\* (play_eigendark): the second creation does not present the revoked key
\* that the first one failed with and the cache has dropped.
RetryUsesFreshKey ==
    \A w \in Workers :
        (/\ pc[w] = "create" /\ attempt[w] = 2
         /\ usedKey[w] \in revoked \cap hist.dropped)
        => storeKey[sess[w]] # usedKey[w]
=============================================================================
