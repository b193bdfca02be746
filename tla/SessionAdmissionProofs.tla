----------------------- MODULE SessionAdmissionProofs -----------------------
(***************************************************************************)
(* Theorems about SessionAdmission, for any finite set of requests, any    *)
(* clients and session ids and any limits.                                 *)
(*                                                                         *)
(* CapacityKept rests on the reservations: a request that may still create *)
(* a session is counted in pending, and pending counts nothing else.       *)
(***************************************************************************)
EXTENDS SessionAdmission, FiniteSetTheorems, TLAPS

\* Requests that may still create a session.
Unborn == {r \in InSdk : session[r] = None}

\* Requests of client c inside the SDK.
Serving(c) == {r \in InSdk : client[r] = c}

\* A request inside the SDK has a client.
ClientInv == \A r \in InSdk : client[r] \in Clients

IInv ==
    /\ TypeOK
    /\ ClientInv
    /\ IsFiniteSet(instances)
    /\ ReservationsExact
    /\ CapacityKept

----------------------------------------------------------------------------
\* Sets of requests are finite, with a natural number of elements.
LEMMA RequestSets ==
    ASSUME NEW S, S \subseteq Requests
    PROVE  IsFiniteSet(S) /\ Cardinality(S) \in Nat
  BY RequestsAssumption, FS_Subset, FS_CardinalityType

\* One element more or less changes the number of elements by one.
LEMMA OneMore ==
    ASSUME NEW S, IsFiniteSet(S), NEW x, x \notin S
    PROVE  /\ IsFiniteSet(S \cup {x})
           /\ Cardinality(S \cup {x}) = Cardinality(S) + 1
  BY FS_AddElement

LEMMA OneLess ==
    ASSUME NEW S, IsFiniteSet(S), NEW x, x \in S
    PROVE  /\ IsFiniteSet(S \ {x})
           /\ Cardinality(S \ {x}) = Cardinality(S) - 1
  BY FS_RemoveElement

\* Nothing is reserved when the process starts.
LEMMA InitInv == Init => IInv
<1> SUFFICES ASSUME Init PROVE IInv
  OBVIOUS
<1>1. TypeOK
  BY DEF Init, TypeOK, HistoryType
<1>2. InSdk = {}
  BY DEF Init, InSdk
<1>3. instances = {} /\ pending = 0 /\ \A c \in Clients : pendingBy[c] = 0
  BY DEF Init
<1>4. IsFiniteSet({}) /\ Cardinality({}) = 0
  BY FS_EmptySet
<1>5. ReservationsExact
  <2>1. \A c \in Clients : {r \in InSdk : client[r] = c} = {}
    BY <1>2
  <2> QED
    BY <1>2, <1>3, <1>4, <2>1 DEF ReservationsExact
<1>6. CapacityKept
  <2>1. {r \in InSdk : session[r] = None} = {}
    BY <1>2
  <2> QED
    BY <1>3, <1>4, <2>1, LimitsAssumption DEF CapacityKept
<1> QED
  BY <1>1, <1>2, <1>3, <1>4, <1>5, <1>6 DEF IInv, ClientInv

----------------------------------------------------------------------------
\* A step that admits a request reserves one place for it.
LEMMA AdmitStep ==
    ASSUME IInv, NEW r \in Requests, NEW c \in Clients, Admit(r, c)
    PROVE  IInv'
<1>1. TypeOK'
  BY DEF IInv, TypeOK, Admit, Purged, HistoryType
<1>2. InSdk' = InSdk \cup {r} /\ r \notin InSdk /\ InSdk \subseteq Requests
  BY DEF IInv, TypeOK, Admit, InSdk
<1>3. /\ client' = [client EXCEPT ![r] = c] /\ client \in [Requests -> Clients \cup {None}]
      /\ session' = session /\ instances' = instances
      /\ pending' = pending + 1 /\ pending \in Nat
      /\ pendingBy' = [pendingBy EXCEPT ![c] = @ + 1] /\ pendingBy \in [Clients -> Nat]
  BY DEF IInv, TypeOK, Admit
<1>4. ClientInv'
  BY <1>2, <1>3 DEF IInv, ClientInv
<1>5. ReservationsExact'
  <2>1. pending' = Cardinality(InSdk')
    BY <1>2, <1>3, RequestSets, OneMore DEF IInv, ReservationsExact
  <2>2. ASSUME NEW d \in Clients
        PROVE  pendingBy'[d] = Cardinality(Serving(d)')
    <3>1. pendingBy[d] = Cardinality(Serving(d)) /\ Serving(d) \subseteq Requests
      BY <1>2 DEF IInv, ReservationsExact, Serving
    <3>2. CASE d = c
      <4>1. Serving(d)' = Serving(d) \cup {r} /\ r \notin Serving(d)
        BY <1>2, <1>3, <3>2 DEF Serving
      <4> QED
        BY <1>3, <3>1, <3>2, <4>1, RequestSets, OneMore
    <3>3. CASE d # c
      <4>1. Serving(d)' = Serving(d)
        BY <1>2, <1>3, <3>3 DEF Serving
      <4> QED
        BY <1>3, <3>1, <3>3, <4>1
    <3> QED
      BY <3>2, <3>3
  <2> QED
    BY <2>1, <2>2 DEF ReservationsExact, Serving
<1>6. CapacityKept'
  <2>1. Unborn' \subseteq InSdk' /\ IsFiniteSet(InSdk')
    BY <1>2, RequestsAssumption, FS_Subset DEF Unborn
  <2>2. Cardinality(Unborn') <= Cardinality(InSdk') /\ Cardinality(Unborn') \in Nat
    BY <2>1, FS_Subset, FS_CardinalityType
  <2>3. Cardinality(InSdk') = pending + 1
    BY <1>3, <1>5 DEF ReservationsExact
  <2>4. Cardinality(instances) \in Nat
    BY FS_CardinalityType DEF IInv
  <2>5. ~(Cardinality(instances) + pending >= MaxSessions)
    BY DEF Admit, Full
  <2> QED
    BY <1>3, <2>2, <2>3, <2>4, <2>5, LimitsAssumption DEF CapacityKept, Unborn
<1> QED
  BY <1>1, <1>3, <1>4, <1>5, <1>6 DEF IInv

\* A refused request changes no reservation.
LEMMA RejectStep ==
    ASSUME IInv, NEW r \in Requests, NEW c \in Clients, Reject(r, c)
    PROVE  IInv'
<1>1. UNCHANGED <<instances, pending, pendingBy, pc, client, session, captured, hist>>
  BY DEF Reject, counters, locals
<1>2. TypeOK'
  BY <1>1 DEF IInv, TypeOK, Reject, Purged
<1>3. InSdk' = InSdk
  BY <1>1 DEF InSdk
<1> QED
  BY <1>1, <1>2, <1>3 DEF IInv, ClientInv, ReservationsExact, CapacityKept

\* A session that is created takes the place its request held.
LEMMA SdkCreateStep ==
    ASSUME IInv, NEW r \in Requests, SdkCreate(r)
    PROVE  IInv'
<1>1. PICK i \in Ids :
         /\ instances' = instances \cup {i}
         /\ session' = [session EXCEPT ![r] = i]
         /\ hist' = [hist EXCEPT !.creator[i] = client[r]]
  BY DEF SdkCreate
<1>2. UNCHANGED <<owner, pending, pendingBy, pc, client, captured>>
  BY DEF SdkCreate, counters
<1>3. TypeOK'
  BY <1>1, <1>2 DEF IInv, TypeOK, HistoryType
<1>4. InSdk' = InSdk /\ InSdk \subseteq Requests /\ r \in InSdk
  BY <1>2 DEF InSdk, SdkCreate
<1>5. ClientInv' /\ ReservationsExact'
  BY <1>2, <1>4 DEF IInv, ClientInv, ReservationsExact
<1>6. r \in Unborn /\ Unborn' = Unborn \ {r} /\ Unborn \subseteq Requests
  <2>1. i # None /\ session \in [Requests -> Ids \cup {None}] /\ session[r] = None
    BY NoneAssumption DEF IInv, TypeOK, SdkCreate
  <2> QED
    BY <1>1, <1>4, <2>1 DEF Unborn
<1>7. Cardinality(Unborn') = Cardinality(Unborn) - 1 /\ Cardinality(Unborn) \in Nat
  BY <1>6, RequestSets, OneLess
<1>8. /\ IsFiniteSet(instances')
      /\ Cardinality(instances') <= Cardinality(instances) + 1
      /\ Cardinality(instances) \in Nat /\ Cardinality(instances') \in Nat
  <2>1. IsFiniteSet(instances) /\ Cardinality(instances) \in Nat
    BY FS_CardinalityType DEF IInv
  <2>2. CASE i \in instances
    <3>1. instances' = instances
      BY <1>1, <2>2
    <3> QED
      BY <2>1, <3>1
  <2>3. CASE i \notin instances
    BY <1>1, <2>1, <2>3, OneMore
  <2> QED
    BY <2>2, <2>3
<1>9. CapacityKept'
  <2>1. Cardinality(instances) + Cardinality(Unborn) <= MaxSessions
    BY DEF IInv, CapacityKept, Unborn
  <2>2. Cardinality(instances') + Cardinality(Unborn') <= MaxSessions
    BY <1>7, <1>8, <2>1, LimitsAssumption
  <2> QED
    BY <2>2 DEF CapacityKept, Unborn
<1> QED
  BY <1>3, <1>5, <1>8, <1>9 DEF IInv

\* Reading the id from the response changes no reservation and no session.
LEMMA CaptureStep ==
    ASSUME IInv, NEW r \in Requests, Capture(r)
    PROVE  IInv'
<1>1. UNCHANGED <<instances, owner, pending, pendingBy, pc, client, session>>
  BY DEF Capture, counters
<1>2. TypeOK'
  BY <1>1 DEF IInv, TypeOK, Capture, HistoryType
<1>3. InSdk' = InSdk
  BY <1>1 DEF InSdk
<1> QED
  BY <1>1, <1>2, <1>3 DEF IInv, ClientInv, ReservationsExact, CapacityKept

\* A settled request gives back the one place it reserved, at the endpoint
\* and at its own client.
LEMMA FinishStep ==
    ASSUME IInv, NEW r \in Requests, Finish(r)
    PROVE  IInv'
<1> DEFINE c == client[r]
<1>1. InSdk' = InSdk \ {r} /\ r \in InSdk /\ InSdk \subseteq Requests
  BY DEF IInv, TypeOK, Finish, InSdk
<1>2. c \in Clients
  BY <1>1 DEF IInv, ClientInv
<1>3. /\ client' = [client EXCEPT ![r] = None] /\ client \in [Requests -> Clients \cup {None}]
      /\ session' = [session EXCEPT ![r] = None] /\ session \in [Requests -> Ids \cup {None}]
      /\ instances' = instances
      /\ pending' = pending - 1 /\ pending \in Nat
      /\ pendingBy' = [pendingBy EXCEPT ![c] = @ - 1] /\ pendingBy \in [Clients -> Nat]
  BY DEF IInv, TypeOK, Finish, GiveBack
<1>4. ClientInv'
  BY <1>1, <1>3 DEF IInv, ClientInv
<1>5. pending' = Cardinality(InSdk') /\ pending' \in Nat
  <2>1. pending = Cardinality(InSdk) /\ InSdk' \subseteq Requests
    BY <1>1 DEF IInv, ReservationsExact
  <2> QED
    BY <1>1, <1>3, <2>1, RequestSets, OneLess
<1>6. ASSUME NEW d \in Clients
      PROVE  pendingBy'[d] = Cardinality(Serving(d)') /\ pendingBy'[d] \in Nat
  <2>1. /\ pendingBy[d] = Cardinality(Serving(d))
        /\ Serving(d) \subseteq Requests /\ Serving(d)' \subseteq Requests
    BY <1>1 DEF IInv, ReservationsExact, Serving
  <2>2. CASE d = c
    <3>1. Serving(d)' = Serving(d) \ {r} /\ r \in Serving(d)
      BY <1>1, <1>3, <2>2 DEF Serving
    <3>2. pendingBy'[d] = pendingBy[d] - 1
      BY <1>3, <2>2
    <3> HIDE DEF c
    <3> QED
      BY <2>1, <3>1, <3>2, RequestSets, OneLess
  <2>3. CASE d # c
    <3>1. Serving(d)' = Serving(d)
      BY <1>1, <1>3, <2>3 DEF Serving
    <3>2. pendingBy'[d] = pendingBy[d]
      BY <1>3, <2>3
    <3> QED
      BY <1>3, <2>1, <3>1, <3>2
  <2> QED
    BY <2>2, <2>3
<1>7. ReservationsExact'
  BY <1>5, <1>6 DEF ReservationsExact, Serving
<1>8. TypeOK'
  <2>1. pendingBy' \in [Clients -> Nat]
    BY <1>3, <1>6
  <2>2. owner' \in [Ids -> Clients \cup {None}]
    BY DEF IInv, TypeOK, Finish, Charged, Purged
  <2>3. /\ pc' \in [Requests -> {"new", "sdk"}]
        /\ captured' \in [Requests -> Ids \cup {None}]
        /\ UNCHANGED <<instances, hist>>
    BY DEF IInv, TypeOK, Finish
  <2> QED
    BY <1>3, <1>5, <2>1, <2>2, <2>3 DEF IInv, TypeOK
<1>9. CapacityKept'
  <2>1. Unborn' \subseteq Unborn /\ Unborn \subseteq Requests
    BY <1>1, <1>3 DEF Unborn
  <2>2. IsFiniteSet(Unborn) /\ Cardinality(Unborn) \in Nat /\ Cardinality(Unborn') \in Nat
    BY <2>1, RequestSets
  <2>3. Cardinality(Unborn') <= Cardinality(Unborn)
    BY <2>1, <2>2, FS_Subset
  <2>4. Cardinality(instances) \in Nat
    BY FS_CardinalityType DEF IInv
  <2>5. Cardinality(instances) + Cardinality(Unborn) <= MaxSessions
    BY DEF IInv, CapacityKept, Unborn
  <2> QED
    BY <1>3, <2>2, <2>3, <2>4, <2>5, LimitsAssumption DEF CapacityKept, Unborn
<1> QED
  BY <1>3, <1>4, <1>7, <1>8, <1>9 DEF IInv

\* A session that ends only makes room.
LEMMA SessionEndsStep ==
    ASSUME IInv, NEW i \in Ids, SessionEnds(i)
    PROVE  IInv'
<1>1. /\ instances' = instances \ {i} /\ i \in instances
      /\ UNCHANGED <<owner, pending, pendingBy, pc, client, session, captured, hist>>
  BY DEF SessionEnds, counters, locals
<1>2. TypeOK'
  BY <1>1 DEF IInv, TypeOK
<1>3. InSdk' = InSdk /\ Unborn' = Unborn
  BY <1>1 DEF InSdk, Unborn
<1>4. ClientInv' /\ ReservationsExact'
  BY <1>1, <1>3 DEF IInv, ClientInv, ReservationsExact
<1>5. /\ IsFiniteSet(instances')
      /\ Cardinality(instances') = Cardinality(instances) - 1
      /\ Cardinality(instances) \in Nat
  BY <1>1, OneLess, FS_CardinalityType DEF IInv
<1>6. Cardinality(Unborn) \in Nat
  <2>1. Unborn \subseteq Requests
    BY DEF Unborn, InSdk
  <2> QED
    BY <2>1, RequestSets
<1>7. CapacityKept'
  <2>1. Cardinality(instances) + Cardinality(Unborn) <= MaxSessions
    BY DEF IInv, CapacityKept, Unborn
  <2> QED
    BY <1>3, <1>5, <1>6, <2>1, LimitsAssumption DEF CapacityKept, Unborn
<1> QED
  BY <1>2, <1>4, <1>5, <1>7 DEF IInv

\* The invariant is inductive.
LEMMA InvStep == IInv /\ [Next]_vars => IInv'
<1> SUFFICES ASSUME IInv, [Next]_vars PROVE IInv'
  OBVIOUS
<1>1. CASE Next
  <2>1. ASSUME NEW r \in Requests, NEW c \in Clients, Admit(r, c) \/ Reject(r, c)
        PROVE  IInv'
    BY <2>1, AdmitStep, RejectStep
  <2>2. ASSUME NEW r \in Requests, SdkCreate(r) \/ Capture(r) \/ Finish(r)
        PROVE  IInv'
    BY <2>2, SdkCreateStep, CaptureStep, FinishStep
  <2>3. ASSUME NEW i \in Ids, SessionEnds(i)
        PROVE  IInv'
    BY <2>3, SessionEndsStep
  <2> QED
    BY <1>1, <2>1, <2>2, <2>3 DEF Next
<1>2. CASE UNCHANGED vars
  <2>1. UNCHANGED <<instances, owner, pending, pendingBy, pc, client, session, captured, hist>>
    BY <1>2 DEF vars, counters, locals
  <2>2. InSdk' = InSdk
    BY <2>1 DEF InSdk
  <2>3. TypeOK'
    BY <2>1 DEF IInv, TypeOK
  <2> QED
    BY <2>1, <2>2, <2>3 DEF IInv, ClientInv, ReservationsExact, CapacityKept
<1> QED
  BY <1>1, <1>2

----------------------------------------------------------------------------
\* The variables keep their types; in particular no counter of reservations
\* falls below zero.
THEOREM TypeCorrect == Spec => []TypeOK
<1>1. IInv => TypeOK
  BY DEF IInv
<1> QED
  BY InitInv, InvStep, <1>1, PTL DEF Spec

\* The counters of handle_request are the requests inside the SDK, in total
\* and of each client, whatever the order in which requests come, sessions
\* are created and end, and requests are settled.
THEOREM ReservationsKept == Spec => []ReservationsExact
<1>1. IInv => ReservationsExact
  BY DEF IInv
<1> QED
  BY InitInv, InvStep, <1>1, PTL DEF Spec

\* Sessions and requests that may still create one never exceed max_sessions.
THEOREM CapacityNeverExceeded == Spec => []CapacityKept
<1>1. IInv => CapacityKept
  BY DEF IInv
<1> QED
  BY InitInv, InvStep, <1>1, PTL DEF Spec

----------------------------------------------------------------------------
(***************************************************************************)
(* Who a session belongs to.  A session the SDK keeps was created for the  *)
(* client of its request, and once its id has been answered it is charged  *)
(* to that client, or about to be.                                         *)
(***************************************************************************)
CreatorInv ==
    /\ \A i \in instances : hist.creator[i] # None
    /\ \A r \in Requests : session[r] # None =>
           r \in InSdk /\ hist.creator[session[r]] = client[r]
    /\ \A r \in Requests : captured[r] # None =>
           r \in InSdk /\ captured[r] = session[r]

OwnerInv ==
    /\ \A i \in Ids : owner[i] # None => owner[i] = hist.creator[i]
    /\ \A i \in hist.named : hist.creator[i] # None
    /\ \A i \in instances : i \in hist.named =>
           owner[i] = hist.creator[i] \/ \E r \in InSdk : captured[r] = i

IdInv == CreatorInv /\ OwnerInv

LEMMA IdInit == Init => IdInv
  BY DEF Init, IdInv, CreatorInv, OwnerInv, InSdk

LEMMA IdStep == IInv /\ IdInv /\ [Next]_vars => IdInv'
<1> SUFFICES ASSUME IInv, IdInv, [Next]_vars PROVE IdInv'
  OBVIOUS
<1> USE DEF IInv, TypeOK, HistoryType, IdInv, InSdk
<1>1. ASSUME NEW r \in Requests, NEW c \in Clients, Admit(r, c) PROVE IdInv'
  <2>1. CreatorInv'
    BY <1>1 DEF Admit, CreatorInv
  <2>2. OwnerInv'
    BY <1>1 DEF Admit, Purged, OwnerInv, CreatorInv
  <2> QED
    BY <2>1, <2>2
<1>2. ASSUME NEW r \in Requests, NEW c \in Clients, Reject(r, c) PROVE IdInv'
  <2>1. CreatorInv'
    BY <1>2 DEF Reject, counters, locals, CreatorInv
  <2>2. OwnerInv'
    BY <1>2 DEF Reject, counters, locals, Purged, OwnerInv
  <2> QED
    BY <2>1, <2>2
<1>3. ASSUME NEW r \in Requests, SdkCreate(r) PROVE IdInv'
  <2>1. PICK i \in Ids :
           /\ hist.creator[i] = None
           /\ instances' = instances \cup {i}
           /\ session' = [session EXCEPT ![r] = i]
           /\ hist' = [hist EXCEPT !.creator[i] = client[r]]
    BY <1>3 DEF SdkCreate
  <2>2. /\ client[r] \in Clients /\ client[r] # None /\ i # None
        /\ r \in InSdk /\ session[r] = None
        /\ UNCHANGED <<owner, pc, client, captured>>
    BY <1>3, NoneAssumption DEF SdkCreate, ClientInv
  <2>3. /\ hist'.creator = [hist.creator EXCEPT ![i] = client[r]]
        /\ hist'.named = hist.named
        /\ hist.creator \in [Ids -> Clients \cup {None}]
    BY <2>1
  <2>4. captured[r] = None
    BY <2>2 DEF CreatorInv
  <2>5. CreatorInv'
    <3>1. \A j \in instances' : hist'.creator[j] # None
      BY <2>1, <2>2, <2>3 DEF CreatorInv
    <3>2. ASSUME NEW q \in Requests, session'[q] # None
          PROVE  q \in InSdk' /\ hist'.creator[session'[q]] = client'[q]
      <4>1. CASE q = r
        BY <2>1, <2>2, <2>3, <4>1
      <4>2. CASE q # r
        <5>1. session'[q] = session[q] /\ q \in InSdk /\ session[q] \in Ids
          BY <2>1, <3>2, <4>2 DEF CreatorInv
        <5>2. hist.creator[session[q]] = client[q] /\ client[q] \in Clients
          BY <3>2, <5>1 DEF CreatorInv, ClientInv
        <5>3. session[q] # i
          BY <2>1, <5>2, NoneAssumption
        <5> QED
          BY <2>2, <2>3, <5>1, <5>2, <5>3
      <4> QED
        BY <4>1, <4>2
    <3>3. \A q \in Requests : captured'[q] # None =>
              q \in InSdk' /\ captured'[q] = session'[q]
      BY <2>1, <2>2, <2>4 DEF CreatorInv
    <3> QED
      BY <3>1, <3>2, <3>3 DEF CreatorInv
  <2>6. i \notin instances /\ owner[i] = None
    BY <2>1 DEF CreatorInv, OwnerInv
  <2>8. OwnerInv'
    <3>1. i \notin hist.named
      BY <2>1 DEF OwnerInv
    <3>2. hist.named \subseteq Ids /\ instances \subseteq Ids
      OBVIOUS
    <3>3. InSdk' = InSdk
      BY <2>2
    <3> QED
      BY <2>1, <2>2, <2>3, <2>6, <3>1, <3>2, <3>3 DEF OwnerInv
  <2> QED
    BY <2>5, <2>8
<1>4. ASSUME NEW r \in Requests, Capture(r) PROVE IdInv'
  <2>1. CreatorInv'
    BY <1>4 DEF Capture, counters, CreatorInv
  <2>2. OwnerInv'
    <3>1. /\ captured' = [captured EXCEPT ![r] = session[r]] /\ captured[r] = None
          /\ hist' = [hist EXCEPT !.named = @ \cup {session[r]}]
          /\ session[r] \in Ids /\ session[r] # None /\ r \in InSdk
          /\ UNCHANGED <<instances, owner, pc, client, session>>
      BY <1>4 DEF Capture, counters
    <3>2. hist'.creator = hist.creator /\ hist'.named = hist.named \cup {session[r]}
      BY <3>1
    <3>3. hist.creator[session[r]] # None
      BY <3>1, NoneAssumption DEF CreatorInv, ClientInv
    <3>4. InSdk' = InSdk
      BY <3>1
    <3>5. ASSUME NEW i \in instances', i \in hist'.named
          PROVE  owner'[i] = hist'.creator[i] \/ \E q \in InSdk' : captured'[q] = i
      <4>1. CASE i = session[r]
        BY <3>1, <3>4, <4>1
      <4>2. CASE i # session[r]
        <5>1. i \in instances /\ i \in hist.named /\ i # None
          BY <3>1, <3>2, <3>5, <4>2, NoneAssumption
        <5>2. \A q \in InSdk : captured[q] = i => captured'[q] = i
          BY <3>1, <5>1
        <5> QED
          BY <3>1, <3>2, <3>4, <5>1, <5>2 DEF OwnerInv
      <4> QED
        BY <4>1, <4>2
    <3> QED
      BY <3>1, <3>2, <3>3, <3>5 DEF OwnerInv
  <2> QED
    BY <2>1, <2>2
<1>5. ASSUME NEW r \in Requests, Finish(r) PROVE IdInv'
  <2>1. CreatorInv'
    BY <1>5, NoneAssumption DEF Finish, CreatorInv
  <2>2. OwnerInv'
    BY <1>5, NoneAssumption DEF Finish, Charged, Purged, CreatorInv, OwnerInv, ClientInv
  <2> QED
    BY <2>1, <2>2
<1>6. ASSUME NEW i \in Ids, SessionEnds(i) PROVE IdInv'
  BY <1>6 DEF SessionEnds, counters, locals, CreatorInv, OwnerInv
<1>7. CASE UNCHANGED vars
  BY <1>7 DEF vars, counters, locals, CreatorInv, OwnerInv
<1> QED
  BY <1>1, <1>2, <1>3, <1>4, <1>5, <1>6, <1>7 DEF Next

----------------------------------------------------------------------------
\* The sessions charged to client c, and its reservations, never exceed its
\* share.
Owned(c) == {i \in instances : owner[i] = c}

ShareInv == \A c \in Clients : Cardinality(Owned(c)) + pendingBy[c] <= MaxPerClient

LEMMA OwnedSets ==
    ASSUME IInv, NEW S, S \subseteq instances
    PROVE  IsFiniteSet(S) /\ Cardinality(S) \in Nat
  BY FS_Subset, FS_CardinalityType DEF IInv

\* The table of owners without closed sessions is what Full looks at.
LEMMA PurgedOwners ==
    ASSUME IInv, NEW c \in Clients
    PROVE  OwnedBy(Purged(owner), c) = Owned(c)
  BY NoneAssumption DEF IInv, TypeOK, OwnedBy, Purged, Owned

\* A smaller table of sessions, or an equal one, keeps the share where no
\* reservation is added.
LEMMA ShareShrinks ==
    ASSUME IInv, ShareInv, NEW c \in Clients, Owned(c)' \subseteq Owned(c),
           pendingBy'[c] = pendingBy[c]
    PROVE  Cardinality(Owned(c)') + pendingBy'[c] <= MaxPerClient
<1>1. Owned(c) \subseteq instances
  BY DEF Owned
<1>2. /\ IsFiniteSet(Owned(c)) /\ Cardinality(Owned(c)) \in Nat
      /\ Cardinality(Owned(c)') \in Nat
  BY <1>1, OwnedSets
<1>3. Cardinality(Owned(c)') <= Cardinality(Owned(c))
  BY <1>2, FS_Subset
<1> QED
  BY <1>2, <1>3, LimitsAssumption DEF ShareInv, IInv, TypeOK

LEMMA ShareInit == Init => ShareInv
<1> SUFFICES ASSUME Init, NEW c \in Clients
             PROVE  Cardinality(Owned(c)) + pendingBy[c] <= MaxPerClient
  BY DEF ShareInv
<1>1. Owned(c) = {} /\ pendingBy[c] = 0
  BY DEF Init, Owned
<1> QED
  BY <1>1, FS_EmptySet, LimitsAssumption

LEMMA ShareStep == IInv /\ IdInv /\ ShareInv /\ [Next]_vars => ShareInv'
<1> SUFFICES ASSUME IInv, IdInv, ShareInv, [Next]_vars, NEW c \in Clients
             PROVE  Cardinality(Owned(c)') + pendingBy'[c] <= MaxPerClient
  BY DEF ShareInv
<1> USE DEF Owned
<1>0. /\ Cardinality(Owned(c)) \in Nat /\ pendingBy \in [Clients -> Nat]
      /\ owner \in [Ids -> Clients \cup {None}] /\ instances \subseteq Ids
  BY OwnedSets DEF IInv, TypeOK
<1>1. ASSUME NEW r \in Requests, NEW d \in Clients, Admit(r, d)
      PROVE  Cardinality(Owned(c)') + pendingBy'[c] <= MaxPerClient
  <2>1. Owned(c)' = Owned(c)
    BY <1>0, <1>1, NoneAssumption DEF Admit, Purged
  <2>2. CASE c = d
    <3>1. ~(Cardinality(Owned(c)) + pendingBy[c] >= MaxPerClient)
      BY <1>1, <2>2, PurgedOwners DEF Admit, Full
    <3>2. pendingBy'[c] = pendingBy[c] + 1
      BY <1>0, <1>1, <2>2 DEF Admit
    <3> HIDE DEF Owned
    <3> QED
      BY <1>0, <2>1, <3>1, <3>2, LimitsAssumption
  <2>3. CASE c # d
    BY <1>0, <1>1, <2>1, <2>3, ShareShrinks DEF Admit
  <2> QED
    BY <2>2, <2>3
<1>2. ASSUME NEW r \in Requests, NEW d \in Clients, Reject(r, d)
      PROVE  Cardinality(Owned(c)') + pendingBy'[c] <= MaxPerClient
  <2>1. Owned(c)' \subseteq Owned(c) /\ pendingBy' = pendingBy
    BY <1>0, <1>2, NoneAssumption DEF Reject, counters, Purged
  <2> QED
    BY <2>1, ShareShrinks
<1>3. ASSUME NEW r \in Requests, SdkCreate(r)
      PROVE  Cardinality(Owned(c)') + pendingBy'[c] <= MaxPerClient
  <2>1. PICK i \in Ids : hist.creator[i] = None /\ instances' = instances \cup {i}
    BY <1>3 DEF SdkCreate
  <2>2. owner[i] = None
    BY <2>1 DEF IdInv, OwnerInv
  <2>3. Owned(c)' = Owned(c) /\ pendingBy' = pendingBy
    BY <1>3, <2>1, <2>2, NoneAssumption DEF SdkCreate, counters
  <2> QED
    BY <2>3, ShareShrinks
<1>4. ASSUME NEW r \in Requests, Capture(r)
      PROVE  Cardinality(Owned(c)') + pendingBy'[c] <= MaxPerClient
  BY <1>4, ShareShrinks DEF Capture, counters
<1>5. ASSUME NEW r \in Requests, Finish(r)
      PROVE  Cardinality(Owned(c)') + pendingBy'[c] <= MaxPerClient
  <2>1. /\ instances' = instances /\ owner' = Charged(r) /\ client[r] \in Clients
        /\ pendingBy' = [pendingBy EXCEPT ![client[r]] = @ - 1]
    BY <1>5 DEF Finish, GiveBack, IInv, ClientInv, InSdk
  <2>2. CASE c = client[r]
    <3>1. Owned(c)' \subseteq Owned(c) \cup {captured[r]}
      BY <1>0, <2>1, <2>2, NoneAssumption DEF Charged, Purged
    <3>2. pendingBy'[c] = pendingBy[c] - 1
      BY <1>0, <2>1, <2>2
    <3>3. IsFiniteSet(Owned(c))
      BY OwnedSets
    <3>4. Owned(c)' \subseteq instances
      BY <2>1
    <3>5. Cardinality(Owned(c)') \in Nat
      BY <3>4, OwnedSets
    <3> DEFINE larger == Owned(c) \cup {captured[r]}
    <3>6. /\ IsFiniteSet(larger) /\ Cardinality(larger) \in Nat
          /\ Cardinality(larger) <= Cardinality(Owned(c)) + 1
      <4>1. /\ IsFiniteSet(larger)
            /\ Cardinality(larger) = IF captured[r] \in Owned(c)
                                       THEN Cardinality(Owned(c))
                                       ELSE Cardinality(Owned(c)) + 1
        BY <3>3, FS_AddElement
      <4> HIDE DEF Owned, larger
      <4> QED
        BY <1>0, <4>1
    <3>7. Cardinality(Owned(c)') <= Cardinality(larger)
      BY <3>1, <3>6, FS_Subset
    <3>8. Cardinality(Owned(c)) + pendingBy[c] <= MaxPerClient
      BY DEF ShareInv
    <3> HIDE DEF Owned, larger
    <3> QED
      BY <1>0, <3>2, <3>5, <3>6, <3>7, <3>8, LimitsAssumption
  <2>3. CASE c # client[r]
    <3>1. pendingBy'[c] = pendingBy[c]
      BY <1>0, <2>1, <2>3
    <3>2. Owned(c)' \subseteq Owned(c)
      BY <1>0, <2>1, <2>3, NoneAssumption DEF Charged, Purged
    <3> QED
      BY <3>1, <3>2, ShareShrinks
  <2> QED
    BY <2>2, <2>3
<1>6. ASSUME NEW i \in Ids, SessionEnds(i)
      PROVE  Cardinality(Owned(c)') + pendingBy'[c] <= MaxPerClient
  BY <1>6, ShareShrinks DEF SessionEnds, counters
<1>7. CASE UNCHANGED vars
  BY <1>7, ShareShrinks DEF vars, counters
<1> QED
  BY <1>1, <1>2, <1>3, <1>4, <1>5, <1>6, <1>7 DEF Next

----------------------------------------------------------------------------
LEMMA AllInvariants == Spec => [](IInv /\ IdInv /\ ShareInv)
<1>1. Init => IInv /\ IdInv /\ ShareInv
  BY InitInv, IdInit, ShareInit
<1>2. IInv /\ IdInv /\ ShareInv /\ [Next]_vars => (IInv /\ IdInv /\ ShareInv)'
  BY InvStep, IdStep, ShareStep
<1> QED
  BY <1>1, <1>2, PTL DEF Spec

\* An attributable session is charged to its client already, or its request
\* still holds the reservation.
LEMMA ShareFollows == IInv /\ IdInv /\ ShareInv => ClientShareKept
<1> SUFFICES ASSUME IInv, IdInv, ShareInv, NEW c \in Clients
             PROVE  Cardinality(Attributable(c)) <= MaxPerClient
  BY DEF ClientShareKept
<1> DEFINE opening == {r \in Serving(c) : session[r] # None}
           opened == {session[r] : r \in opening}
<1>1. /\ IsFiniteSet(Owned(c)) /\ Cardinality(Owned(c)) \in Nat
      /\ IsFiniteSet(Attributable(c)) /\ Cardinality(Attributable(c)) \in Nat
  <2>1. Owned(c) \subseteq instances /\ Attributable(c) \subseteq instances
    BY DEF Owned, Attributable
  <2> QED
    BY <2>1, OwnedSets
<1>2. /\ IsFiniteSet(Serving(c)) /\ Cardinality(Serving(c)) \in Nat
      /\ IsFiniteSet(opening) /\ Cardinality(opening) \in Nat
      /\ Cardinality(opening) <= Cardinality(Serving(c))
  <2>1. Serving(c) \subseteq Requests /\ opening \subseteq Requests
    BY DEF Serving, InSdk
  <2>2. IsFiniteSet(Serving(c)) /\ opening \subseteq Serving(c)
    BY <2>1, RequestSets
  <2> QED
    BY <2>1, <2>2, RequestSets, FS_Subset
<1>3. IsFiniteSet(opened) /\ Cardinality(opened) <= Cardinality(opening)
  <2> DEFINE f == [r \in opening |-> session[r]]
  <2>1. f \in Surjection(opening, opened)
    BY DEF Surjection
  <2> HIDE DEF opening, opened
  <2> QED
    BY <1>2, <2>1, FS_Surjection
<1>4. Cardinality(opened) \in Nat
  BY <1>3, FS_CardinalityType
<1>5. Attributable(c) \subseteq Owned(c) \cup opened
  <2> SUFFICES ASSUME NEW i \in Attributable(c) PROVE i \in Owned(c) \cup opened
    OBVIOUS
  <2>1. i \in instances /\ hist.creator[i] = c /\ i # None /\ c # None
    BY NoneAssumption DEF Attributable, IInv, TypeOK
  <2>2. ASSUME NEW r \in InSdk, session[r] = i PROVE i \in opened
    <3>1. client[r] = c /\ session[r] # None
      BY <2>1, <2>2 DEF IdInv, CreatorInv, InSdk
    <3> QED
      BY <2>2, <3>1 DEF Serving
  <2>3. CASE \E r \in InSdk : session[r] = i
    BY <2>2, <2>3
  <2>4. CASE i \in hist.named
    <3>1. owner[i] = c \/ \E r \in InSdk : captured[r] = i
      BY <2>1, <2>4 DEF IdInv, OwnerInv
    <3>2. ASSUME NEW r \in InSdk, captured[r] = i PROVE session[r] = i
      BY <2>1, <3>2 DEF IdInv, CreatorInv, InSdk
    <3> QED
      BY <2>1, <2>2, <3>1, <3>2 DEF Owned
  <2> QED
    BY <2>3, <2>4 DEF Attributable
<1>6. Cardinality(Attributable(c)) <= Cardinality(Owned(c)) + Cardinality(opened)
  <2>1. /\ IsFiniteSet(Owned(c) \cup opened)
        /\ Cardinality(Owned(c) \cup opened)
             = Cardinality(Owned(c)) + Cardinality(opened)
                 - Cardinality(Owned(c) \cap opened)
    <3> HIDE DEF opened
    <3> QED
      BY <1>1, <1>3, FS_Union
  <2>2. Cardinality(Owned(c) \cap opened) \in Nat
    <3> HIDE DEF opened
    <3> QED
      BY <1>1, FS_Intersection, FS_CardinalityType
  <2>3. Cardinality(Attributable(c)) <= Cardinality(Owned(c) \cup opened)
    BY <1>5, <2>1, FS_Subset
  <2> HIDE DEF opened
  <2> QED
    BY <1>1, <1>4, <2>1, <2>2, <2>3
<1>7. Cardinality(Owned(c)) + Cardinality(Serving(c)) <= MaxPerClient
  BY DEF IInv, ReservationsExact, ShareInv, Serving
<1> HIDE DEF opened, opening
<1> QED
  BY <1>1, <1>2, <1>3, <1>4, <1>6, <1>7, LimitsAssumption

\* No client holds more sessions than its share, whether they are charged to
\* it or still being opened.
THEOREM ClientSharesKept == Spec => []ClientShareKept
  BY AllInvariants, ShareFollows, PTL

\* A refusal counts sessions that live and requests inside the SDK only: the
\* table of owners is purged before it is read.
LEMMA RefusalFollows == IInv /\ IdInv => RefusedOnlyWhenFull
<1> SUFFICES ASSUME IInv, IdInv, NEW c \in Clients, Full(c)
             PROVE  \/ Cardinality(instances) + Cardinality(InSdk) >= MaxSessions
                    \/ Cardinality({i \in instances : hist.creator[i] = c})
                         + Cardinality(Serving(c)) >= MaxPerClient
  BY DEF RefusedOnlyWhenFull, Serving
<1> DEFINE mine == {i \in instances : hist.creator[i] = c}
<1>1. pending = Cardinality(InSdk) /\ pendingBy[c] = Cardinality(Serving(c))
  BY DEF IInv, ReservationsExact, Serving
<1>2. Owned(c) \subseteq mine /\ mine \subseteq instances
  BY NoneAssumption DEF Owned, IdInv, OwnerInv, IInv, TypeOK
<1>3. /\ Cardinality(Owned(c)) <= Cardinality(mine)
      /\ Cardinality(Owned(c)) \in Nat /\ Cardinality(mine) \in Nat
  BY <1>2, OwnedSets, FS_Subset
<1>4. Cardinality(Serving(c)) \in Nat
  BY <1>1 DEF IInv, TypeOK
<1>5. \/ Cardinality(instances) + pending >= MaxSessions
      \/ Cardinality(Owned(c)) + pendingBy[c] >= MaxPerClient
  BY PurgedOwners DEF Full
<1> HIDE DEF mine
<1>6. \/ Cardinality(instances) + Cardinality(InSdk) >= MaxSessions
      \/ Cardinality(mine) + Cardinality(Serving(c)) >= MaxPerClient
  BY <1>1, <1>3, <1>4, <1>5, LimitsAssumption
<1> QED
  BY <1>6 DEF mine

\* Nobody is refused on account of a session that has ended.
THEOREM RefusedForTheLiving == Spec => []RefusedOnlyWhenFull
<1>1. IInv /\ IdInv /\ ShareInv => RefusedOnlyWhenFull
  BY RefusalFollows
<1> QED
  BY AllInvariants, <1>1, PTL

----------------------------------------------------------------------------
\* The pool counts as its implementation does.
LEMMA PoolCounts == \A S : Pool!Cardinality(S) = Cardinality(S)
  BY DEF Cardinality, Pool!Cardinality

\* Every step of the admission is one of the pool or leaves it as it is.
LEMMA PoolStep ==
    ASSUME IInv, IdInv, [Next]_vars
    PROVE  [Pool!Next]_Pool!vars
<1> USE DEF Pool!vars, Unborn
<1>0. Unborn \subseteq Requests /\ pc \in [Requests -> {"new", "sdk"}]
  BY DEF InSdk, IInv, TypeOK
<1>1. ASSUME NEW r \in Requests, NEW c \in Clients, Admit(r, c)
      PROVE  Pool!Enter(r)
  <2>1. r \notin InSdk /\ InSdk' = InSdk \cup {r} /\ session[r] = None
    BY <1>0, <1>1 DEF Admit, InSdk, IdInv, CreatorInv
  <2>2. Unborn' = Unborn \cup {r} /\ r \notin Unborn /\ instances' = instances
    BY <1>1, <2>1 DEF Admit
  <2>3. Cardinality(instances) + Cardinality(Unborn) < MaxSessions
    <3>1. InSdk \subseteq Requests /\ Unborn \subseteq InSdk
      BY DEF InSdk
    <3>2. IsFiniteSet(InSdk) /\ Cardinality(InSdk) \in Nat
      BY <3>1, RequestSets
    <3>3. Cardinality(Unborn) <= Cardinality(InSdk) /\ Cardinality(Unborn) \in Nat
      BY <3>1, <3>2, FS_Subset, FS_CardinalityType
    <3>4. Cardinality(instances) \in Nat /\ pending = Cardinality(InSdk)
      BY FS_CardinalityType DEF IInv, ReservationsExact
    <3>5. ~(Cardinality(instances) + pending >= MaxSessions)
      BY <1>1 DEF Admit, Full
    <3> HIDE DEF Unborn
    <3> QED
      BY <3>2, <3>3, <3>4, <3>5, LimitsAssumption
  <2>4. /\ r \notin Unborn
        /\ Cardinality(instances) + Cardinality(Unborn) < MaxSessions
        /\ Unborn' = Unborn \cup {r}
        /\ UNCHANGED instances
    BY <2>2, <2>3
  <2> QED
    BY <2>4, PoolCounts DEF Pool!Enter
<1>2. ASSUME NEW r \in Requests, NEW c \in Clients, Reject(r, c)
      PROVE  UNCHANGED Pool!vars
  BY <1>2 DEF Reject, locals, InSdk
<1>3. ASSUME NEW r \in Requests, SdkCreate(r)
      PROVE  \E i \in Ids : Pool!Open(r, i)
  <2>1. PICK i \in Ids :
           /\ hist.creator[i] = None
           /\ instances' = instances \cup {i}
           /\ session' = [session EXCEPT ![r] = i]
    BY <1>3 DEF SdkCreate
  <2>2. InSdk' = InSdk /\ r \in InSdk /\ session[r] = None /\ i # None
    BY <1>3, NoneAssumption DEF SdkCreate, InSdk
  <2>3. Unborn' = Unborn \ {r} /\ r \in Unborn
    BY <2>1, <2>2 DEF IInv, TypeOK
  <2>4. i \notin instances
    BY <2>1 DEF IdInv, CreatorInv
  <2> QED
    BY <2>1, <2>3, <2>4 DEF Pool!Open
<1>4. ASSUME NEW r \in Requests, Capture(r)
      PROVE  UNCHANGED Pool!vars
  BY <1>4 DEF Capture, InSdk
<1>5. ASSUME NEW r \in Requests, Finish(r)
      PROVE  Pool!Leave(r) \/ UNCHANGED Pool!vars
  <2>1. /\ InSdk' = InSdk \ {r} /\ r \in InSdk /\ instances' = instances
        /\ session' = [session EXCEPT ![r] = None]
    BY <1>0, <1>5 DEF Finish, InSdk
  <2>2. Unborn' = Unborn \ {r}
    BY <2>1 DEF IInv, TypeOK, InSdk
  <2>3. CASE r \in Unborn
    BY <2>1, <2>2, <2>3 DEF Pool!Leave
  <2>4. CASE r \notin Unborn
    BY <2>1, <2>2, <2>4
  <2> QED
    BY <2>3, <2>4
<1>6. ASSUME NEW i \in Ids, SessionEnds(i)
      PROVE  Pool!CloseSession(i)
  BY <1>6 DEF SessionEnds, locals, InSdk, Pool!CloseSession
<1>7. CASE UNCHANGED vars
  BY <1>7 DEF vars, locals, InSdk
<1> QED
  <2> HIDE DEF Pool!vars, Unborn
  <2>1. CASE Next
    BY <2>1, <1>1, <1>2, <1>3, <1>4, <1>5, <1>6 DEF Next, Pool!Next
  <2> QED
    BY <2>1, <1>7

\* Admission implements the bounded pool, for any limits, any session ids and
\* any finite set of requests: what the code checks in one critical section
\* and settles in another amounts to places taken and given back atomically.
THEOREM AdmissionImplementsPool == Spec => ImplementsPool
<1>1. Init => Pool!Init
  BY DEF Init, InSdk, Pool!Init
<1>2. IInv /\ IdInv /\ [Next]_vars => [Pool!Next]_Pool!vars
  BY PoolStep
<1> QED
  BY AllInvariants, <1>1, <1>2, PTL DEF Spec, ImplementsPool, Pool!Spec
=============================================================================
