-------------------------- MODULE SharedKeyProofs --------------------------
(***************************************************************************)
(* Theorems about SharedKey, for any number of threads, sessions and keys. *)
(*                                                                         *)
(* CachedKeyUnexpired is not inductive: that a cached copy is dated no     *)
(* more than MaxHold after its key was issued rests on who holds the lock  *)
(* and since when.  IInv adds that.                                        *)
(***************************************************************************)
EXTENDS SharedKey, TLAPS

\* The holder of the lock, and nobody else, is minting or saving.
HolderInv == \A w \in Workers : lock = w <=> pc[w] \in {"mint", "save"}

\* A cached copy is of a key that was issued.
IssuedInv ==
    /\ issued <= MaxKeys
    /\ memKey <= issued
    /\ disk.key <= issued

\* Who holds the place for an onboarding.
SlotInv == OnboardingSlotHeld

\* The lock is held for at most MaxHold ticks.
HoldInv == lock # NoWorker => lockTime <= now /\ now <= lockTime + MaxHold

\* Each copy is dated at most MaxHold after its key was issued, and the key
\* being saved was issued after the lock was taken.
DatedInv ==
    /\ memKey # NoKey => memExp <= mintTime[memKey] + MaxHold + CacheTTL
    /\ disk.key # NoKey => disk.at <= mintTime[disk.key] + MaxHold
    /\ \A w \in Workers :
          pc[w] = "save" => memKey # NoKey /\ lockTime <= mintTime[memKey]

IInv == TypeOK /\ HolderInv /\ SlotInv /\ IssuedInv /\ HoldInv /\ DatedInv
----------------------------------------------------------------------------
\* Issuing a key extends the service's record of issued keys.
LEMMA IssueType ==
    ASSUME TypeOK, Issue
    PROVE  /\ issued' = issued + 1 /\ issued + 1 \in Keys /\ issued + 1 \in Nat
           /\ issued' <= MaxKeys
           /\ mintTime' \in [Keys -> Times] /\ mintTime'[issued + 1] = now
           /\ \A k \in Keys : k <= issued => mintTime'[k] = mintTime[k]
           /\ revoked' = revoked
           /\ unusable \subseteq unusable' /\ unusable' \subseteq unusable \cup {issued + 1}
           /\ unusable' \subseteq Keys
<1>1. /\ issued' = issued + 1 /\ issued + 1 \in Keys /\ issued + 1 \in Nat
      /\ issued' <= MaxKeys /\ revoked' = revoked
  BY BoundsAssumption DEF TypeOK, Issue, Keys
<1>2. /\ mintTime' \in [Keys -> Times] /\ mintTime'[issued + 1] = now
      /\ \A k \in Keys : k <= issued => mintTime'[k] = mintTime[k]
  BY <1>1 DEF TypeOK, Issue, Keys, Times
<1>3. unusable' = unusable \/ unusable' = unusable \cup {issued + 1}
  BY DEF Issue
<1>. QED
  BY <1>1, <1>2, <1>3 DEF TypeOK

\* Whether a key can be used is settled when it is issued.
LEMMA UsableSame ==
    ASSUME TypeOK, unusable' = unusable \/ Issue, NEW k \in Nat, k <= issued
    PROVE  Usable(k)' = Usable(k)
<1>1. issued \in Nat /\ k # issued + 1
  BY DEF TypeOK
<1>. QED
  BY <1>1, IssueType DEF Usable

\* Every step keeps the types of the cache's and the calls' state.
LEMMA TypeStep == TypeOK /\ [Next]_vars => TypeOK'
<1> SUFFICES ASSUME TypeOK, [Next]_vars PROVE TypeOK'
  OBVIOUS
<1> USE SetsAssumption, TimesAssumption, BoundsAssumption
<1> USE DEF TypeOK, Points, HistoryType, NoFile, Times, service, cache, locks, calls, bounds
<1>1. ASSUME NEW w \in Workers, CheckStore(w) PROVE TypeOK'
  BY <1>1 DEF CheckStore, Goto
<1>2. ASSUME NEW w \in Workers, MemoryHit(w) PROVE TypeOK'
  BY <1>2 DEF MemoryHit, Goto, GiveKey
<1>3. ASSUME NEW w \in Workers, DiskHit(w) PROVE TypeOK'
  <2>1. disk.key \in Keys /\ disk.at + CacheTTL \in Nat
    BY <1>3 DEF DiskHit, Adopt, DiskFresh
  <2> QED
    BY <1>3, <2>1 DEF DiskHit, Adopt, Goto, GiveKey
<1>4. ASSUME NEW w \in Workers, StartMint(w) PROVE TypeOK'
  BY <1>4 DEF StartMint, BeginMint, Goto
<1>5. ASSUME NEW w \in Workers, MintReply(w) PROVE TypeOK'
  <2>1. Issue
    BY <1>5 DEF MintReply
  <2>2. lockTime + CacheTTL \in Nat
    OBVIOUS
  <2> QED
    BY <1>5, <2>1, <2>2, IssueType DEF MintReply, Goto
<1>6. ASSUME NEW w \in Workers, MintFails(w) PROVE TypeOK'
  <2>1. UNCHANGED service \/ Issue
    BY <1>6 DEF MintFails
  <2> QED
    BY <1>6, <2>1, IssueType DEF MintFails, Return, Goto, Release
<1>7. ASSUME NEW w \in Workers, SaveKey(w) PROVE TypeOK'
  <2>1. disk' \in [key: Keys \cup {NoKey}, at: Times]
    BY <1>7 DEF SaveKey
  <2>2. CASE Usable(memKey)
    BY <1>7, <2>1, <2>2 DEF SaveKey, Goto, GiveKey, Release
  <2>3. CASE ~Usable(memKey)
    BY <1>7, <2>1, <2>3 DEF SaveKey, Goto, Return, Release
  <2> QED
    BY <2>2, <2>3
<1>8. ASSUME NEW w \in Workers, CreateOk(w) PROVE TypeOK'
  BY <1>8 DEF CreateOk, Goto
<1>9. ASSUME NEW w \in Workers, CreateFails(w) PROVE TypeOK'
  BY <1>9 DEF CreateFails, Goto, Return
<1>10. ASSUME NEW w \in Workers, CreateBreaks(w) PROVE TypeOK'
  BY <1>10 DEF CreateBreaks, Goto, Return
<1>11. ASSUME NEW w \in Workers, ClearCache(w) PROVE TypeOK'
  <2>1. PICK D : D \in SUBSET Keys /\ hist' = [hist EXCEPT !.lost = TRUE, !.dropped = D]
    <3>1. hist.dropped \cup ({memKey, disk.key} \ {NoKey}) \in SUBSET Keys
      OBVIOUS
    <3>2. hist.dropped \cup ({memKey} \ {NoKey, disk.key}) \in SUBSET Keys
      OBVIOUS
    <3> QED
      BY <1>11, <3>1, <3>2 DEF ClearCache
  <2>2. hist' \in HistoryType
    BY <2>1
  <2>3. disk' \in [key: Keys \cup {NoKey}, at: Times]
    BY <1>11 DEF ClearCache
  <2> QED
    BY <1>11, <2>2, <2>3 DEF ClearCache, Goto
<1>12. ASSUME NEW w \in Workers, AutoplayEnds(w) PROVE TypeOK'
  BY <1>12 DEF AutoplayEnds, Goto, Return
<1>13. ASSUME NEW w \in Workers, OnboardReply(w) PROVE TypeOK'
  <2>1. Issue
    BY <1>13 DEF OnboardReply
  <2> QED
    BY <1>13, <2>1, IssueType DEF OnboardReply, Goto, Return, GiveKey
<1>14. ASSUME NEW w \in Workers, OnboardFails(w) PROVE TypeOK'
  <2>1. UNCHANGED service \/ Issue
    BY <1>14 DEF OnboardFails
  <2> QED
    BY <1>14, <2>1, IssueType DEF OnboardFails, Goto, Return
<1>15. ASSUME NEW w \in Workers, NEW s \in Sessions, Play(w, s) PROVE TypeOK'
  BY <1>15 DEF Play, Goto
<1>16. ASSUME NEW w \in Workers, NEW s \in Sessions, OnboardStart(w, s) PROVE TypeOK'
  BY <1>16 DEF OnboardStart, Goto
<1>17. ASSUME NEW s \in Sessions, ReplaceSession(s) PROVE TypeOK'
  BY <1>17 DEF ReplaceSession
<1>18. ASSUME NEW k \in Keys, Revoke(k) PROVE TypeOK'
  BY <1>18 DEF Revoke
<1>19. CASE Crash
  <2>1. hist' \in HistoryType
    <3>1. (hist.lost \/ disk.key # hist.key) \in BOOLEAN
      OBVIOUS
    <3>2. PICK b : b \in BOOLEAN /\ hist' = [hist EXCEPT !.lost = b]
      BY <1>19, <3>1 DEF Crash
    <3> QED
      BY <3>2
  <2> QED
    BY <1>19, <2>1 DEF Crash, Release
<1>20. CASE Tick
  BY <1>20 DEF Tick
<1>21. CASE UNCHANGED vars
  BY <1>21 DEF vars
<1>23. ASSUME NEW w \in Workers, MemoryRefused(w) PROVE TypeOK'
  BY <1>23 DEF MemoryRefused, Goto, Return
<1>22. QED
  BY <1>23, <1>1, <1>2, <1>3, <1>4, <1>5, <1>6, <1>7, <1>8, <1>9, <1>10, <1>11, <1>12, <1>13, <1>14, <1>15, <1>16, <1>17, <1>18, <1>19, <1>20, <1>21 DEF Next, CallStep

\* The types hold in every reachable state.
THEOREM TypeCorrect == Spec => []TypeOK
<1>1. Init => TypeOK
  BY SetsAssumption, TimesAssumption, BoundsAssumption
     DEF Init, TypeOK, Points, HistoryType, Times, NoFile
<1> QED
  BY <1>1, TypeStep, PTL DEF Spec

----------------------------------------------------------------------------
\* Nothing is cached and nobody holds the lock when the process starts.
LEMMA InitInv == Init => IInv
  BY SetsAssumption, TimesAssumption, BoundsAssumption
     DEF Init, IInv, TypeOK, Points, HistoryType, Times, NoFile, NoKey,
         HolderInv, SlotInv, OnboardingSlotHeld, IssuedInv, HoldInv, DatedInv

\* Keys are numbered, so what the tiers hold compares with the last one issued.
LEMMA KeysAreNaturals == TypeOK => memKey \in Nat /\ disk.key \in Nat /\ hist.key \in Nat
<1> SUFFICES ASSUME TypeOK PROVE memKey \in Nat /\ disk.key \in Nat /\ hist.key \in Nat
  OBVIOUS
<1>1. Keys \cup {NoKey} \subseteq Nat
  BY DEF Keys, NoKey
<1>2. /\ memKey \in Keys \cup {NoKey}
      /\ disk.key \in Keys \cup {NoKey}
      /\ hist.key \in Keys \cup {NoKey}
  BY DEF TypeOK, HistoryType
<1> QED
  BY <1>1, <1>2

\* Every step keeps the ages of the cached copies bounded.
LEMMA InvStep == IInv /\ [Next]_vars => IInv'
<1> SUFFICES ASSUME IInv, [Next]_vars PROVE IInv'
  OBVIOUS
<1> DEFINE Ages == HolderInv /\ SlotInv /\ IssuedInv /\ HoldInv /\ DatedInv
<1> USE SetsAssumption, TimesAssumption, BoundsAssumption
<1> USE DEF IInv, TypeOK, HolderInv, SlotInv, OnboardingSlotHeld, IssuedInv, HoldInv, DatedInv, Times, NoKey,
            service, cache, locks, calls, bounds
<1>0. TypeOK' /\ memKey \in Nat /\ disk.key \in Nat
  <2>1. TypeOK'
    BY TypeStep
  <2> QED
    BY <2>1, KeysAreNaturals
<1>1. ASSUME NEW w \in Workers, CheckStore(w) PROVE Ages'
  BY <1>0, <1>1 DEF CheckStore, Goto
<1>2. ASSUME NEW w \in Workers, MemoryHit(w) PROVE Ages'
  BY <1>0, <1>2 DEF MemoryHit, Goto, GiveKey
<1>3. ASSUME NEW w \in Workers, CreateOk(w) PROVE Ages'
  BY <1>0, <1>3 DEF CreateOk, Goto
<1>4. ASSUME NEW w \in Workers, CreateFails(w) PROVE Ages'
  BY <1>0, <1>4 DEF CreateFails, Goto, Return
<1>5. ASSUME NEW w \in Workers, CreateBreaks(w) PROVE Ages'
  BY <1>0, <1>5 DEF CreateBreaks, Goto, Return
<1>6. ASSUME NEW w \in Workers, AutoplayEnds(w) PROVE Ages'
  BY <1>0, <1>6 DEF AutoplayEnds, Goto, Return
<1>7. ASSUME NEW w \in Workers, DiskHit(w) PROVE Ages'
  BY <1>0, <1>7 DEF DiskHit, Adopt, Goto, GiveKey, DiskFresh
<1>8. ASSUME NEW w \in Workers, StartMint(w) PROVE Ages'
  BY <1>0, <1>8 DEF StartMint, BeginMint, Goto
<1>9. ASSUME NEW w \in Workers, MintReply(w) PROVE Ages'
  <2>1. Issue
    BY <1>9 DEF MintReply
  <2>2. lockTime <= mintTime'[memKey']
    BY <1>9, <2>1, IssueType DEF MintReply
  <2>3. disk.key # NoKey => mintTime'[disk.key] = mintTime[disk.key]
    BY <2>1, IssueType
  <2>4. HolderInv' /\ SlotInv' /\ IssuedInv' /\ HoldInv'
    <3>1. HolderInv' /\ SlotInv'
      BY <1>0, <1>9 DEF MintReply, Goto
    <3>2. IssuedInv'
      BY <1>0, <1>9, <2>1, IssueType DEF MintReply
    <3>3. HoldInv'
      BY <1>0, <1>9 DEF MintReply
    <3> QED
      BY <3>1, <3>2, <3>3
  <2>5. memKey' # NoKey => memExp' <= mintTime'[memKey'] + MaxHold + CacheTTL
    BY <1>0, <1>9, <2>2 DEF MintReply
  <2>6. \A v \in Workers : pc'[v] = "save" => v = w
    BY <1>9, <2>4 DEF MintReply
  <2>7. memKey' # NoKey
    BY <1>9 DEF MintReply
  <2> QED
    BY <1>9, <2>2, <2>3, <2>4, <2>5, <2>6, <2>7 DEF MintReply
<1>10. ASSUME NEW w \in Workers, MintFails(w) PROVE Ages'
  <2>1. UNCHANGED service \/ Issue
    BY <1>10 DEF MintFails
  <2>2. \A k \in Keys : k <= issued => mintTime'[k] = mintTime[k]
    BY <2>1, IssueType
  <2>3. issued <= issued' /\ issued' <= MaxKeys
    BY <2>1, IssueType
  <2>4. HolderInv' /\ SlotInv'
    BY <1>0, <1>10 DEF MintFails, Goto, Return, Release
  <2>5. IssuedInv'
    BY <1>0, <1>10, <2>3 DEF MintFails
  <2>6. HoldInv'
    BY <1>0, <1>10 DEF MintFails, Release
  <2>7. DatedInv'
    BY <1>0, <1>10, <2>2, <2>4 DEF MintFails, Goto, Return, Release
  <2> QED
    BY <2>4, <2>5, <2>6, <2>7
<1>11. ASSUME NEW w \in Workers, SaveKey(w) PROVE Ages'
  <2>1. /\ pc[w] = "save" /\ lock = w /\ memKey # NoKey /\ lockTime <= mintTime[memKey]
        /\ disk' = disk \/ disk' = [key |-> memKey, at |-> now]
        /\ lock' = NoWorker /\ lockTime' = 0 /\ onboarding' = onboarding
        /\ UNCHANGED <<now, service, memKey, memExp>>
    BY <1>11 DEF SaveKey, Release
  <2>2. \E p \in {"create", "idle"} : pc' = [pc EXCEPT ![w] = p]
    BY <1>11 DEF SaveKey, Goto, Return
  <2>3. HolderInv' /\ SlotInv' /\ HoldInv'
    BY <1>0, <2>1, <2>2
  <2>4. IssuedInv'
    BY <1>0, <2>1
  <2>5. \A v \in Workers : pc'[v] # "save"
    BY <2>1, <2>3
  <2>6. now <= mintTime[memKey] + MaxHold
    BY <1>0, <2>1
  <2>7. DatedInv'
    BY <1>0, <2>1, <2>5, <2>6
  <2> QED
    BY <2>3, <2>4, <2>7
<1>12. ASSUME NEW w \in Workers, ClearCache(w) PROVE Ages'
  <2>1. disk' = NoFile \/ disk' = disk
    BY <1>12 DEF ClearCache
  <2>2. HolderInv' /\ SlotInv' /\ HoldInv'
    BY <1>0, <1>12 DEF ClearCache, Goto
  <2>3. \A v \in Workers : pc'[v] # "save"
    BY <1>0, <1>12, <2>2 DEF ClearCache
  <2>4. IssuedInv' /\ DatedInv'
    BY <1>0, <1>12, <2>1, <2>3 DEF ClearCache, NoFile
  <2> QED
    BY <2>2, <2>4
<1>13. ASSUME NEW w \in Workers, OnboardReply(w) PROVE Ages'
  <2>1. Issue
    BY <1>13 DEF OnboardReply
  <2> QED
    BY <1>0, <1>13, <2>1, IssueType DEF OnboardReply, Goto, Return
<1>14. ASSUME NEW w \in Workers, OnboardFails(w) PROVE Ages'
  <2>1. UNCHANGED service \/ Issue
    BY <1>14 DEF OnboardFails
  <2>2. \A k \in Keys : k <= issued => mintTime'[k] = mintTime[k]
    BY <2>1, IssueType
  <2>3. issued <= issued' /\ issued' <= MaxKeys
    BY <2>1, IssueType
  <2>4. HolderInv' /\ SlotInv'
    BY <1>0, <1>14 DEF OnboardFails, Goto, Return
  <2>5. IssuedInv'
    BY <1>0, <1>14, <2>3 DEF OnboardFails
  <2>6. HoldInv'
    BY <1>0, <1>14 DEF OnboardFails
  <2>7. DatedInv'
    BY <1>0, <1>14, <2>2, <2>4 DEF OnboardFails, Goto, Return
  <2> QED
    BY <2>4, <2>5, <2>6, <2>7
<1>15. ASSUME NEW w \in Workers, NEW s \in Sessions, Play(w, s) PROVE Ages'
  BY <1>0, <1>15 DEF Play, Goto
<1>16. ASSUME NEW w \in Workers, NEW s \in Sessions, OnboardStart(w, s) PROVE Ages'
  BY <1>0, <1>16 DEF OnboardStart, Goto
<1>17. ASSUME NEW s \in Sessions, ReplaceSession(s) PROVE Ages'
  BY <1>0, <1>17 DEF ReplaceSession
<1>18. ASSUME NEW k \in Keys, Revoke(k) PROVE Ages'
  BY <1>0, <1>18 DEF Revoke
<1>19. CASE Crash
  BY <1>0, <1>19 DEF Crash, Release
<1>20. CASE Tick
  BY <1>0, <1>20 DEF Tick
<1>21. CASE UNCHANGED vars
  BY <1>0, <1>21 DEF vars
<1>22. ASSUME NEW w \in Workers, MemoryRefused(w) PROVE Ages'
  BY <1>0, <1>22 DEF MemoryRefused, Goto, Return
<1> QED
  BY <1>22, <1>0, <1>1, <1>2, <1>3, <1>4, <1>5, <1>6, <1>7, <1>8, <1>9, <1>10, <1>11, <1>12, <1>13, <1>14, <1>15, <1>16, <1>17, <1>18, <1>19, <1>20, <1>21 DEF Next, CallStep

\* A key either cache tier would hand out has not outlived its seven days at
\* the service (_ensure_shared_sandbox_key), for any lifetimes whose
\* difference covers the time one thread may hold the lock.
THEOREM CachedKeysAreUnexpired == Spec => []CachedKeyUnexpired
<1>1. Init => IInv
  BY InitInv
<1>2. IInv => CachedKeyUnexpired
  BY TimesAssumption
     DEF IInv, TypeOK, DatedInv, CachedKeyUnexpired, MemoryFresh, DiskFresh, Times
<1> QED
  BY <1>1, <1>2, InvStep, PTL DEF Spec

\* _ONBOARD_LOCK is held by the onboarding that runs and by nothing else,
\* whether it succeeds, fails at a request or has its key refused.
THEOREM SlotFreed == Spec => []OnboardingSlotHeld
<1>1. IInv => OnboardingSlotHeld
  BY DEF IInv, SlotInv
<1> QED
  BY <1>1, InitInv, InvStep, PTL DEF Spec

----------------------------------------------------------------------------
(***************************************************************************)
(* MintSpacing: as long as the cache has not lost the last minted key, one *)
(* tier holds it with a lifetime that reaches CacheTTL past the mint, and  *)
(* the file holds no other fresh key; whoever mints has seen both expired. *)
(***************************************************************************)
Kept == hist.key # NoKey /\ ~hist.lost

ClockInv ==
    /\ 1 <= now
    /\ disk.key # NoKey => 0 < disk.at /\ disk.at <= now
    /\ hist.start <= now
    /\ hist.key <= issued

KeptInv ==
    Kept =>
        /\ memKey \in {NoKey, hist.key}
        /\ memKey = hist.key => hist.start + CacheTTL <= memExp
        /\ disk.key = hist.key => hist.start <= disk.at
        /\ memKey = NoKey => disk.key = hist.key /\ Usable(hist.key)
        /\ disk.key # hist.key => ~DiskFresh

MinterInv ==
    \A w \in Workers :
        /\ pc[w] = "mint" =>
              /\ ~DiskFresh
              /\ Kept => hist.start + CacheTTL <= lockTime
        /\ pc[w] = "save" => memKey = hist.key /\ hist.key # NoKey

SInv == IInv /\ ClockInv /\ KeptInv /\ MinterInv

\* Every step keeps the spacing invariant.
LEMMA SpacingStep == SInv /\ [Next]_vars => SInv'
<1> SUFFICES ASSUME SInv, [Next]_vars PROVE SInv'
  OBVIOUS
<1> DEFINE Spacing == ClockInv /\ KeptInv /\ MinterInv
<1> USE SetsAssumption, TimesAssumption, BoundsAssumption
<1>0. IInv' /\ IInv /\ TypeOK /\ TypeOK' /\ HolderInv /\ HolderInv' /\ HoldInv /\ IssuedInv
  BY InvStep DEF SInv, IInv
<1>00. memKey \in Nat /\ disk.key \in Nat /\ hist.key \in Nat
  BY <1>0, KeysAreNaturals
<1>01. ASSUME unusable' = unusable \/ Issue, disk' = disk, now' = now
       PROVE  (DiskFresh' = DiskFresh) /\ (hist.key \in unusable') = (hist.key \in unusable)
  <2>0. \A k \in Nat : k <= issued => (k \in unusable') = (k \in unusable)
    BY <1>0, <1>01, UsableSame DEF Usable
  <2>1. (disk.key \in unusable') = (disk.key \in unusable) /\ hist.key <= issued
    BY <1>0, <1>00, <2>0 DEF IssuedInv, SInv, ClockInv
  <2>2. (hist.key \in unusable') = (hist.key \in unusable)
    BY <1>00, <2>0, <2>1
  <2>. QED
    BY <1>01, <2>1, <2>2 DEF DiskFresh, Usable
<1> USE <1>0, <1>00 DEF SInv, TypeOK, HistoryType, HolderInv, HoldInv, IssuedInv, ClockInv, KeptInv,
            MinterInv, Kept, DiskFresh, Usable, MemoryFresh, Times, NoKey,
            service, cache, locks, calls, bounds
<1>1. ASSUME NEW w \in Workers, CheckStore(w) PROVE Spacing'
  BY <1>1 DEF CheckStore, Goto
<1>2. ASSUME NEW w \in Workers, MemoryHit(w) PROVE Spacing'
  BY <1>2 DEF MemoryHit, Goto, GiveKey
<1>3. ASSUME NEW w \in Workers, CreateOk(w) PROVE Spacing'
  BY <1>3 DEF CreateOk, Goto
<1>4. ASSUME NEW w \in Workers, CreateFails(w) PROVE Spacing'
  BY <1>4 DEF CreateFails, Goto, Return
<1>5. ASSUME NEW w \in Workers, CreateBreaks(w) PROVE Spacing'
  BY <1>5 DEF CreateBreaks, Goto, Return
<1>6. ASSUME NEW w \in Workers, AutoplayEnds(w) PROVE Spacing'
  BY <1>6 DEF AutoplayEnds, Goto, Return
<1>7. ASSUME NEW w \in Workers, DiskHit(w) PROVE Spacing'
  BY <1>7 DEF DiskHit, Adopt, Goto, GiveKey
<1>8. ASSUME NEW w \in Workers, StartMint(w) PROVE Spacing'
  BY <1>8 DEF StartMint, BeginMint, Goto
<1>9. ASSUME NEW w \in Workers, MintReply(w) PROVE Spacing'
  <2>1. issued' = issued + 1 /\ memKey' = issued' /\ hist'.key = issued'
    BY <1>9, IssueType DEF MintReply
  <2>2. hist'.start = lockTime /\ memExp' = lockTime + CacheTTL /\ disk.key # hist'.key
    BY <1>9, <2>1 DEF MintReply
  <2>3. ~DiskFresh /\ ~DiskFresh' /\ lock = w /\ lock' = w
    BY <1>9, <1>01 DEF MintReply
  <2>4. ClockInv'
    BY <1>9, <2>1, <2>2, <2>3 DEF MintReply
  <2>5. KeptInv'
    BY <1>9, <2>1, <2>2, <2>3 DEF MintReply
  <2>6. MinterInv'
    <3>1. \A v \in Workers : pc'[v] \in {"mint", "save"} => v = w /\ pc'[v] = "save"
      BY <1>9, <2>3 DEF MintReply, Goto
    <3> QED
      BY <2>1, <3>1
  <2> QED
    BY <2>4, <2>5, <2>6
<1>10. ASSUME NEW w \in Workers, MintFails(w) PROVE Spacing'
  <2>1. issued <= issued' /\ issued' \in Nat
    BY <1>10, IssueType DEF MintFails
  <2>4. (DiskFresh' = DiskFresh) /\ (hist.key \in unusable') = (hist.key \in unusable)
    BY <1>10, <1>01 DEF MintFails
  <2>2. ClockInv' /\ KeptInv'
    BY <1>10, <2>1, <2>4 DEF MintFails
  <2>3. MinterInv'
    BY <1>10, <2>4 DEF MintFails, Goto, Return, Release
  <2> QED
    BY <2>2, <2>3
<1>11. ASSUME NEW w \in Workers, SaveKey(w) PROVE Spacing'
  BY <1>11 DEF SaveKey, Goto, GiveKey, Release
<1>12. ASSUME NEW w \in Workers, ClearCache(w) PROVE Spacing'
  <2>1. disk' = NoFile \/ disk' = disk
    BY <1>12 DEF ClearCache
  <2>2. hist'.lost /\ hist'.start = hist.start /\ hist'.key = hist.key
    BY <1>12 DEF ClearCache
  <2>3. ClockInv' /\ KeptInv'
    BY <1>12, <2>1, <2>2 DEF ClearCache, NoFile
  <2>4. MinterInv'
    BY <1>12 DEF ClearCache, Goto
  <2> QED
    BY <2>3, <2>4
<1>13. ASSUME NEW w \in Workers, OnboardReply(w) PROVE Spacing'
  <2>1. issued <= issued' /\ issued' \in Nat
    BY <1>13, IssueType DEF OnboardReply
  <2>4. (DiskFresh' = DiskFresh) /\ (hist.key \in unusable') = (hist.key \in unusable)
    BY <1>13, <1>01 DEF OnboardReply
  <2>2. ClockInv' /\ KeptInv'
    BY <1>13, <2>1, <2>4 DEF OnboardReply
  <2>3. MinterInv'
    BY <1>13, <2>4 DEF OnboardReply, Goto, Return, GiveKey
  <2> QED
    BY <2>2, <2>3
<1>14. ASSUME NEW w \in Workers, OnboardFails(w) PROVE Spacing'
  <2>1. issued <= issued' /\ issued' \in Nat
    BY <1>14, IssueType DEF OnboardFails
  <2>4. (DiskFresh' = DiskFresh) /\ (hist.key \in unusable') = (hist.key \in unusable)
    BY <1>14, <1>01 DEF OnboardFails
  <2>2. ClockInv' /\ KeptInv'
    BY <1>14, <2>1, <2>4 DEF OnboardFails
  <2>3. MinterInv'
    BY <1>14, <2>4 DEF OnboardFails, Goto, Return
  <2> QED
    BY <2>2, <2>3
<1>15. ASSUME NEW w \in Workers, NEW s \in Sessions, Play(w, s) PROVE Spacing'
  BY <1>15 DEF Play, Goto
<1>16. ASSUME NEW w \in Workers, NEW s \in Sessions, OnboardStart(w, s) PROVE Spacing'
  BY <1>16 DEF OnboardStart, Goto
<1>17. ASSUME NEW s \in Sessions, ReplaceSession(s) PROVE Spacing'
  BY <1>17 DEF ReplaceSession
<1>18. ASSUME NEW k \in Keys, Revoke(k) PROVE Spacing'
  BY <1>18 DEF Revoke
<1>19. CASE Crash
  BY <1>19 DEF Crash, Release
<1>20. CASE Tick
  BY <1>20 DEF Tick
<1>21. CASE UNCHANGED vars
  BY <1>21 DEF vars
<1>22. ASSUME NEW w \in Workers, MemoryRefused(w) PROVE Spacing'
  BY <1>22 DEF MemoryRefused, Goto, Return
<1> QED
  BY <1>22, <1>0, <1>1, <1>2, <1>3, <1>4, <1>5, <1>6, <1>7, <1>8, <1>9, <1>10, <1>11, <1>12, <1>13, <1>14, <1>15, <1>16, <1>17, <1>18, <1>19, <1>20, <1>21 DEF Next, CallStep

\* Keys minted for the cache are CacheTTL apart unless the cache lost the
\* last one (_ensure_shared_sandbox_key under any interleaving of calls,
\* failed saves, clears and restarts).
THEOREM MintsAreSpaced == Spec => MintSpacing
<1>1. Init => SInv
  BY InitInv DEF Init, SInv, ClockInv, KeptInv, MinterInv, Kept, NoFile, NoKey
<1>2. ASSUME SInv, [Next]_vars
      PROVE  [hist'.key # hist.key /\ hist.key # NoKey
                => hist.lost \/ hist'.start >= hist.start + CacheTTL]_vars
  <2>1. hist'.key # hist.key => \E w \in Workers : MintReply(w)
    BY <1>2 DEF Next, CallStep, CheckStore, MemoryHit, MemoryRefused, DiskHit, Adopt, StartMint, BeginMint, MintFails,
       SaveKey, CreateOk, CreateFails, CreateBreaks, ClearCache, AutoplayEnds,
       OnboardReply, OnboardFails, Play, OnboardStart, ReplaceSession, Revoke,
       Crash, Tick, vars, SInv, IInv, TypeOK, HistoryType
  <2>2. ASSUME NEW w \in Workers, MintReply(w), hist.key # NoKey, ~hist.lost
        PROVE  hist'.start >= hist.start + CacheTTL
    BY <1>2, <2>2, TimesAssumption
       DEF MintReply, SInv, IInv, MinterInv, Kept, TypeOK, HistoryType, Times
  <2> QED
    BY <2>1, <2>2
<1> QED
  BY <1>1, <1>2, SpacingStep, PTL DEF Spec, MintSpacing

----------------------------------------------------------------------------
\* A step keeps the two tiers in agreement: a new key enters memory only when
\* the file is not fresh, and it enters the file from memory.
LEMMA AgreeStep == SInv /\ CacheTiersAgree /\ [Next]_vars => CacheTiersAgree'
<1> SUFFICES ASSUME SInv, CacheTiersAgree, [Next]_vars PROVE CacheTiersAgree'
  OBVIOUS
<1>0. /\ ClockInv /\ MinterInv /\ memKey \in Nat /\ disk.key \in Nat
      /\ now \in Nat /\ disk.at \in Nat
  <2>1. TypeOK /\ ClockInv /\ MinterInv
    BY DEF SInv, IInv
  <2> QED
    BY <2>1, KeysAreNaturals DEF TypeOK, Times
<1>00. TypeOK /\ disk.key <= issued
  BY DEF SInv, IInv, IssuedInv
<1>01. ASSUME unusable' = unusable \/ Issue, disk' = disk
       PROVE  (disk.key \in unusable') = (disk.key \in unusable)
  BY <1>0, <1>00, <1>01, UsableSame DEF Usable
<1> USE DEF CacheTiersAgree, DiskFresh, Usable, NoKey, cache, service, vars
<1>1. ASSUME UNCHANGED <<memKey, disk, now>>, unusable' = unusable \/ Issue
      PROVE  CacheTiersAgree'
  BY <1>1, <1>01
<1>2. ASSUME NEW w \in Workers, DiskHit(w) PROVE CacheTiersAgree'
  BY <1>2 DEF DiskHit, Adopt
<1>3. ASSUME NEW w \in Workers, MintReply(w) PROVE CacheTiersAgree'
  BY <1>0, <1>01, <1>3 DEF MintReply, MinterInv
<1>4. ASSUME NEW w \in Workers, SaveKey(w) PROVE CacheTiersAgree'
  BY <1>4 DEF SaveKey
<1>5. ASSUME NEW w \in Workers, ClearCache(w) PROVE CacheTiersAgree'
  BY <1>5 DEF ClearCache
<1>6. CASE Crash
  BY <1>6 DEF Crash
<1>7. CASE Tick
  BY <1>0, <1>7, TimesAssumption DEF Tick, ClockInv
<1>8. CASE \E w \in Workers :
             \/ CheckStore(w) \/ MemoryHit(w) \/ MemoryRefused(w) \/ StartMint(w) \/ MintFails(w)
             \/ CreateOk(w) \/ CreateFails(w) \/ CreateBreaks(w) \/ AutoplayEnds(w)
             \/ OnboardReply(w) \/ OnboardFails(w)
             \/ \E s \in Sessions : Play(w, s) \/ OnboardStart(w, s)
  BY <1>1, <1>8 DEF CheckStore, MemoryHit, MemoryRefused, StartMint, BeginMint, MintFails, CreateOk,
     CreateFails, CreateBreaks, AutoplayEnds, OnboardReply, OnboardFails,
     Play, OnboardStart
<1>9. CASE \/ \E s \in Sessions : ReplaceSession(s)
           \/ \E k \in Keys : Revoke(k)
           \/ UNCHANGED vars
  BY <1>1, <1>9 DEF ReplaceSession, Revoke
<1> QED
  BY <1>2, <1>3, <1>4, <1>5, <1>6, <1>7, <1>8, <1>9 DEF Next, CallStep

\* While the file is fresh it holds the key that memory holds, so a restart
\* does not swap the sessions' key (_load_shared_key_from_disk).
THEOREM TiersAgree == Spec => []CacheTiersAgree
<1>1. Init => SInv /\ CacheTiersAgree
  BY InitInv DEF Init, SInv, ClockInv, KeptInv, MinterInv, Kept, NoFile, NoKey,
                 CacheTiersAgree
<1> QED
  BY <1>1, SpacingStep, AgreeStep, PTL DEF Spec

----------------------------------------------------------------------------
\* A key is dropped only once it was issued, so no key still to come is one.
DroppedWereIssued == \A k \in hist.dropped : k \in Nat \ {0} /\ k <= issued

\* What enters memory is new or comes from the file; what enters the file
\* comes from memory.
LEMMA DropStep ==
    IInv /\ DroppedWereIssued /\ DroppedKeysStayOut /\ [Next]_vars
        => (DroppedWereIssued /\ DroppedKeysStayOut)'
<1> SUFFICES ASSUME IInv, DroppedWereIssued, DroppedKeysStayOut, [Next]_vars
             PROVE  DroppedWereIssued' /\ DroppedKeysStayOut'
  OBVIOUS
<1>0. /\ issued \in Nat /\ memKey \in Nat /\ disk.key \in Nat
      /\ memKey <= issued /\ disk.key <= issued
      /\ hist \in HistoryType
      /\ 0 \notin hist.dropped
  BY KeysAreNaturals DEF IInv, TypeOK, IssuedInv, DroppedWereIssued
<1> USE <1>0 DEF DroppedWereIssued, DroppedKeysStayOut, NoKey, NoFile, HistoryType, cache
<1>1. ASSUME UNCHANGED <<memKey, disk, hist>>, UNCHANGED service \/ Issue
      PROVE  DroppedWereIssued' /\ DroppedKeysStayOut'
  BY <1>1 DEF service, Issue
<1>2. ASSUME NEW w \in Workers, DiskHit(w)
      PROVE  DroppedWereIssued' /\ DroppedKeysStayOut'
  BY <1>2 DEF DiskHit, Adopt, service
<1>3. ASSUME NEW w \in Workers, MintReply(w)
      PROVE  DroppedWereIssued' /\ DroppedKeysStayOut'
  <2>1. /\ memKey' = issued + 1 /\ issued' = issued + 1
        /\ disk' = disk /\ hist'.dropped = hist.dropped
    BY <1>3 DEF MintReply, Issue
  <2> QED
    BY <2>1
<1>4. ASSUME NEW w \in Workers, SaveKey(w)
      PROVE  DroppedWereIssued' /\ DroppedKeysStayOut'
  BY <1>4 DEF SaveKey, service
<1>5. ASSUME NEW w \in Workers, ClearCache(w)
      PROVE  DroppedWereIssued' /\ DroppedKeysStayOut'
  <2>1. memKey' = 0 /\ issued' = issued
    BY <1>5 DEF ClearCache, service
  <2>2. CASE /\ disk' = NoFile
             /\ hist'.dropped = hist.dropped \cup ({memKey, disk.key} \ {NoKey})
    BY <2>1, <2>2
  <2>3. CASE /\ UNCHANGED disk
             /\ hist'.dropped = hist.dropped \cup ({memKey} \ {NoKey, disk.key})
    BY <2>1, <2>3
  <2> QED
    BY <1>5, <2>2, <2>3 DEF ClearCache
<1>6. CASE Crash
  BY <1>6 DEF Crash, service
<1>7. CASE Tick \/ UNCHANGED vars
  BY <1>1, <1>7 DEF Tick, vars
<1>8. CASE \E w \in Workers :
             \/ CheckStore(w) \/ MemoryHit(w) \/ MemoryRefused(w) \/ StartMint(w) \/ MintFails(w)
             \/ CreateOk(w) \/ CreateFails(w) \/ CreateBreaks(w) \/ AutoplayEnds(w)
             \/ OnboardReply(w) \/ OnboardFails(w)
             \/ \E s \in Sessions : Play(w, s) \/ OnboardStart(w, s)
  BY <1>1, <1>8 DEF CheckStore, MemoryHit, MemoryRefused, StartMint, BeginMint, MintFails, CreateOk,
     CreateFails, CreateBreaks, AutoplayEnds, OnboardReply, OnboardFails,
     Play, OnboardStart
<1>9. CASE \E s \in Sessions : ReplaceSession(s)
  BY <1>1, <1>9 DEF ReplaceSession
<1>10. CASE \E k \in Keys : Revoke(k)
  BY <1>10 DEF Revoke
<1> QED
  BY <1>2, <1>3, <1>4, <1>5, <1>6, <1>7, <1>8, <1>9, <1>10 DEF Next, CallStep

\* A key that is cleared from both tiers is handed out to no session again,
\* whatever was being minted, saved or loaded (_clear_shared_sandbox_key).
THEOREM ClearedStayOut == Spec => []DroppedKeysStayOut
<1>1. Init => IInv /\ DroppedWereIssued /\ DroppedKeysStayOut
  BY InitInv DEF Init, DroppedWereIssued, DroppedKeysStayOut
<1> QED
  BY <1>1, InvStep, DropStep, PTL DEF Spec
=============================================================================
