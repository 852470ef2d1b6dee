------------------------------ MODULE ServingProofs ------------------------------
(***************************************************************************)
(* Theorems about the two halves of MCServing.  Gateway.tla, for every     *)
(* capacity, rate, clock and bound and any number of requests and clients: *)
(* its token buckets, the bound of its queue, its counters and the line of *)
(* its semaphore.  TokenStream.tla: its order, by TokenStreamProofs.tla.   *)
(***************************************************************************)
EXTENDS MCServing, FiniteSetTheorems, TLAPS

(* The buckets and the history they are judged by keep their types.        *)
BucketsOK ==
  /\ clock \in Int
  /\ bucket \in [Clients -> [tokens : Int, last : Int]]
  /\ admitted \in [Clients -> Seq(Int)]

(* What a client has passed since its i-th admission, with what is left in *)
(* its bucket, is no more than the bucket held then and has got since.     *)
Spent ==
  \A c \in Clients : \A i \in DOMAIN admitted[c] :
    Len(admitted[c]) - i + 1 + bucket[c].tokens
      <= Capacity + Rate * (bucket[c].last - admitted[c][i])

Granted == BucketsOK /\ Spent /\ AdmissionBound
bucketVars == <<clock, bucket, admitted>>

LEMMA Distributes ==
  ASSUME NEW r \in Nat, NEW x \in Int, NEW y \in Int, NEW z \in Int
  PROVE  r * (x - z) = (x - y) * r + r * (y - z)
  OBVIOUS

(* A bucket is asked at time clock: what its refill leaves.                *)
LEMMA RefillBounded ==
  ASSUME BucketsOK, NEW c \in Clients
  PROVE  /\ Refill(c) \in Int /\ Refill(c) <= Capacity
         /\ Refill(c) <= bucket[c].tokens + (clock - bucket[c].last) * Rate
  BY GatewayAssumption DEF BucketsOK, Refill

LEMMA InitGranted == Init => Granted
  BY GatewayAssumption DEF Init, Granted, BucketsOK, Spent, AdmissionBound

(* No other step touches the buckets.                                      *)
LEMMA OthersGranted == Granted /\ UNCHANGED <<bucket, admitted>> /\ clock' \in Int => Granted'
  BY DEF Granted, BucketsOK, Spent, AdmissionBound

LEMMA ArriveGranted ==
  ASSUME Granted, NEW r \in Requests, Arrive(r)
  PROVE  Granted'
  <1> DEFINE c == ClientOf[r]
  <1>1. c \in Clients
    BY GatewayAssumption
  <1>2. PICK ok \in BOOLEAN :
          /\ Consume(c, ok)
          /\ admitted' = IF ok THEN [admitted EXCEPT ![c] = Append(@, clock)] ELSE admitted
    BY DEF Arrive
  <1> DEFINE R == Refill(c)
             Left == R - (IF ok THEN 1 ELSE 0)
  <1>3. /\ R \in Int /\ R <= Capacity
        /\ R <= bucket[c].tokens + (clock - bucket[c].last) * Rate
    BY <1>1, RefillBounded DEF Granted
  <1>4. /\ ok = (R >= 1) /\ clock' = clock
        /\ bucket' = [bucket EXCEPT ![c] = [tokens |-> Left, last |-> clock]]
    BY <1>2 DEF Consume, Arrive
  <1>5. R \in Int /\ R <= Capacity
    BY <1>3
  <1> HIDE DEF R, c
  <1>6. BucketsOK'
    BY <1>2, <1>3, <1>4, <1>1 DEF Granted, BucketsOK
  <1>7. ASSUME NEW i \in DOMAIN admitted[c]
        PROVE  Len(admitted[c]) - i + 1 + R <= Capacity + Rate * (clock - admitted[c][i])
    <2>1. /\ Len(admitted[c]) \in Nat /\ i \in Nat /\ admitted[c][i] \in Int
          /\ bucket[c].tokens \in Int /\ bucket[c].last \in Int /\ clock \in Int
          /\ Rate \in Nat /\ Capacity \in Nat
      BY <1>1, GatewayAssumption DEF Granted, BucketsOK
    <2>2. Len(admitted[c]) - i + 1 + bucket[c].tokens
            <= Capacity + Rate * (bucket[c].last - admitted[c][i])
      BY <1>1 DEF Granted, Spent
    <2>3. Rate * (clock - admitted[c][i])
            = (clock - bucket[c].last) * Rate + Rate * (bucket[c].last - admitted[c][i])
      <3> DEFINE x == clock
                 y == bucket[c].last
                 z == admitted[c][i]
      <3>1. Rate \in Nat /\ x \in Int /\ y \in Int /\ z \in Int
        BY <2>1
      <3> HIDE DEF x, y, z
      <3>2. Rate * (x - z) = (x - y) * Rate + Rate * (y - z)
        BY <3>1, Distributes
      <3> QED BY <3>2 DEF x, y, z
    <2> DEFINE a == Rate * (clock - admitted[c][i])
               b == (clock - bucket[c].last) * Rate
               d == Rate * (bucket[c].last - admitted[c][i])
    <2>4. a \in Int /\ b \in Int /\ d \in Int
      <3>1. clock - admitted[c][i] \in Int /\ clock - bucket[c].last \in Int
            /\ bucket[c].last - admitted[c][i] \in Int /\ Rate \in Int
        BY <2>1
      <3>2. ASSUME NEW x \in Int, NEW y \in Int PROVE x * y \in Int
        OBVIOUS
      <3> QED BY <3>1, <3>2
    <2> HIDE DEF a, b, d
    <2>5. /\ a = b + d /\ R <= bucket[c].tokens + b
          /\ Len(admitted[c]) - i + 1 + bucket[c].tokens <= Capacity + d
      BY <1>3, <2>2, <2>3 DEF a, b, d
    <2> DEFINE k == Len(admitted[c]) - i + 1
               t == bucket[c].tokens
    <2>6. k \in Int /\ t \in Int /\ Capacity \in Int
      BY <2>1
    <2>7. /\ a = b + d /\ R <= t + b /\ k + t <= Capacity + d
      BY <2>5
    <2> HIDE DEF k, t
    <2>8. k + R <= Capacity + a
      BY <1>5, <2>4, <2>6, <2>7
    <2> QED BY <2>8 DEF a, k
  <1>8. CASE ok
    <2>1. /\ admitted'[c] = Append(admitted[c], clock)
          /\ \A e \in Clients \ {c} : admitted'[e] = admitted[e] /\ bucket'[e] = bucket[e]
          /\ bucket'[c].tokens = R - 1 /\ bucket'[c].last = clock /\ R >= 1
      BY <1>2, <1>4, <1>8, <1>1 DEF Granted, BucketsOK
    <2> DEFINE n == Len(admitted[c])
    <2>2. /\ n \in Nat /\ admitted[c] \in Seq(Int) /\ clock \in Int
          /\ Rate \in Nat /\ Capacity \in Nat /\ R \in Int
      BY <1>3, <1>1, GatewayAssumption DEF Granted, BucketsOK
    <2>3. /\ Len(admitted'[c]) = n + 1 /\ DOMAIN admitted'[c] = 1..(n + 1)
          /\ admitted'[c][n + 1] = clock
          /\ \A i \in 1..n : admitted'[c][i] = admitted[c][i] /\ i \in DOMAIN admitted[c]
      BY <2>1, <2>2
    <2>4. ASSUME NEW i \in 1..(n + 1)
          PROVE  n + 1 - i + 1 + (R - 1) <= Capacity + Rate * (clock - admitted'[c][i])
      <3>1. CASE i = n + 1
        <4>1. clock - admitted'[c][i] = 0
          BY <2>2, <2>3, <3>1
        <4>2. n + 1 - i + 1 + (R - 1) = R
          BY <1>5, <2>2, <3>1
        <4>3. Rate * (clock - admitted'[c][i]) = 0
          BY <2>2, <4>1
        <4>4. R <= Capacity + 0
          BY <1>5, <2>2
        <4> QED BY <4>2, <4>3, <4>4, Zenon
      <3>2. CASE i \in 1..n
        <4>1. n - i + 1 + R <= Capacity + Rate * (clock - admitted[c][i])
          BY <1>7, <2>3, <3>2
        <4>2. n + 1 - i + 1 + (R - 1) = n - i + 1 + R
          BY <2>2
        <4> QED BY <4>1, <4>2, <2>3, <3>2
      <3>3. i = n + 1 \/ i \in 1..n
        BY <2>2, SMT
      <3> QED BY <3>1, <3>2, <3>3, Zenon
    <2>5. ASSUME NEW e \in Clients, NEW i \in DOMAIN admitted'[e]
          PROVE  Len(admitted'[e]) - i + 1 + bucket'[e].tokens
                   <= Capacity + Rate * (bucket'[e].last - admitted'[e][i])
      <3>1. CASE e = c
        <4>1. i \in 1..(n + 1)
          BY <2>3, <3>1
        <4>2. n + 1 - i + 1 + (R - 1) <= Capacity + Rate * (clock - admitted'[c][i])
          BY <2>4, <4>1
        <4>3. /\ Len(admitted'[e]) = n + 1
              /\ bucket'[e].tokens = R - 1 /\ bucket'[e].last = clock
              /\ admitted'[e][i] = admitted'[c][i]
          BY <2>1, <2>3, <3>1
        <4> DEFINE u == admitted'[c][i]
                   w == Rate * (clock - u)
        <4>4. /\ Len(admitted'[e]) - i + 1 + bucket'[e].tokens = n + 1 - i + 1 + (R - 1)
              /\ Rate * (bucket'[e].last - admitted'[e][i]) = w
          BY <4>3
        <4>5. n + 1 - i + 1 + (R - 1) <= Capacity + w
          BY <4>2
        <4> HIDE DEF w
        <4> QED BY <4>4, <4>5
      <3>2. CASE e # c
        BY <2>1, <3>2 DEF Spent, Granted
      <3> QED BY <3>1, <3>2
    <2>6. Spent'
      BY <2>5 DEF Spent
    <2>7. ASSUME NEW i \in 1..(n + 1), NEW j \in 1..(n + 1), i <= j
          PROVE  j - i + 1 <= Capacity + Rate * (admitted'[c][j] - admitted'[c][i])
      <3>1. CASE j = n + 1
        <4> DEFINE a == Rate * (clock - admitted'[c][i])
        <4>1. a \in Int
          <5>1. admitted'[c][i] \in Int
            BY <2>2, <2>3, SMTT(30)
          <5> QED BY <2>2, <5>1
        <4>2. n + 1 - i + 1 + (R - 1) <= Capacity + a
          BY <2>4
        <4> HIDE DEF a
        <4>3. /\ n \in Int /\ i \in Int /\ R \in Int /\ R >= 1 /\ Capacity \in Int
          BY <2>1, <2>2
        <4> HIDE DEF n
        <4>4. n + 1 - i + 1 <= Capacity + a
          BY <4>1, <4>2, <4>3
        <4>5. a = Rate * (admitted'[c][j] - admitted'[c][i])
          BY <2>3, <3>1 DEF a
        <4>6. j - i + 1 <= Capacity + a
          BY <3>1, <4>1, <4>3, <4>4
        <4> QED BY <4>5, <4>6, Zenon
      <3>2. CASE j \in 1..n
        <4>1. i \in 1..n /\ i \in DOMAIN admitted[c] /\ j \in DOMAIN admitted[c]
          BY <2>2, <2>3, <2>7, <3>2
        <4>2. j - i + 1 <= Capacity + Rate * (admitted[c][j] - admitted[c][i])
          BY <2>7, <4>1, <1>1 DEF Granted, AdmissionBound
        <4>3. admitted'[c][i] = admitted[c][i] /\ admitted'[c][j] = admitted[c][j]
          BY <2>3, <3>2, <4>1
        <4> DEFINE v == Rate * (admitted[c][j] - admitted[c][i])
        <4>4. Rate * (admitted'[c][j] - admitted'[c][i]) = v
          BY <4>3
        <4>5. j - i + 1 <= Capacity + v
          BY <4>2
        <4> HIDE DEF v
        <4> QED BY <4>4, <4>5
      <3>3. j = n + 1 \/ j \in 1..n
        BY <2>2
      <3> QED BY <3>1, <3>2, <3>3, Zenon
    <2>8. AdmissionBound'
      BY <2>1, <2>3, <2>7 DEF AdmissionBound, Granted
    <2> QED BY <1>6, <2>6, <2>8 DEF Granted
  <1>9. CASE ~ ok
    <2>1. /\ admitted' = admitted
          /\ \A e \in Clients \ {c} : bucket'[e] = bucket[e]
          /\ bucket'[c].tokens = R /\ bucket'[c].last = clock
      BY <1>2, <1>3, <1>4, <1>9, <1>1 DEF Granted, BucketsOK
    <2>2. Spent'
      BY <1>7, <2>1 DEF Spent, Granted
    <2>3. AdmissionBound'
      BY <2>1 DEF AdmissionBound, Granted
    <2> QED BY <1>6, <2>2, <2>3 DEF Granted
  <1> QED BY <1>8, <1>9

LEMMA NextGranted == Granted /\ [Next]_vars => Granted'
  <1> SUFFICES ASSUME Granted, [Next]_vars PROVE Granted'
    OBVIOUS
  <1>1. CASE Tick
    BY <1>1, OthersGranted, GatewayAssumption DEF Tick, Granted
  <1>2. ASSUME NEW r \in Requests, Serve(r) PROVE Granted'
    <2>1. UNCHANGED bucketVars
      BY <1>2 DEF Serve, Answer, Plain, Begin, Iterate, Close, Release, Finalize, bucketVars
    <2> QED BY <2>1, OthersGranted DEF bucketVars, Granted, BucketsOK
  <1>3. ASSUME NEW r \in Requests, Generate(r) PROVE Granted'
    <2>1. UNCHANGED bucketVars
      BY <1>3 DEF Generate, Acquire, Finish, bucketVars
    <2> QED BY <2>1, OthersGranted DEF bucketVars, Granted, BucketsOK
  <1>4. ASSUME NEW r \in Requests, Client(r) PROVE Granted'
    <2>1. CASE Arrive(r)
      BY <2>1, ArriveGranted
    <2>2. CASE ~ Arrive(r)
      <3>1. UNCHANGED bucketVars
        BY <1>4, <2>2 DEF Client, Reject, Accept, Prompt, Stall, Leave, bucketVars
      <3> QED BY <3>1, OthersGranted DEF bucketVars, Granted, BucketsOK
    <2> QED BY <2>1, <2>2
  <1>5. CASE UNCHANGED vars
    BY <1>5, OthersGranted DEF vars, Granted, BucketsOK
  <1> QED BY <1>1, <1>2, <1>3, <1>4, <1>5 DEF Next

(* gateway.py:43-51, TokenBucket.consume.  However requests of a client    *)
(* come, and however the clock it reads is set, in every window between two*)
(* of its admissions it passes at most Capacity times plus what the clock  *)
(* has refilled meanwhile.                                                 *)
THEOREM BucketsBound == Spec => []AdmissionBound
  <1>1. Init => Granted
    BY InitGranted
  <1>2. Granted /\ [Next]_vars => Granted'
    BY NextGranted
  <1>3. Granted => AdmissionBound
    BY DEF Granted
  <1> QED BY <1>1, <1>2, <1>3, PTL DEF Spec

-----------------------------------------------------------------------------
(* Only requests that have arrived are held, so that none is counted twice.*)
Queue ==
  /\ phase \in [Requests -> Phases]
  /\ held \subseteq Requests /\ IsFiniteSet(held)
  /\ \A r \in held : phase[r] \notin {"new", "refused"}
  /\ DepthExact

LEMMA InitQueue == Init => Queue
  BY GatewayAssumption, FS_EmptySet DEF Init, Queue, DepthExact, Phases

(* A step of a handler or of a client moves one request on.                *)
LEMMA MovesQueue ==
  ASSUME Queue, UNCHANGED <<depth, held>>, NEW r \in Requests, NEW p \in Phases, To(r, p),
         p \notin {"new", "refused"} \/ phase[r] \in {"new", "refused"}
  PROVE  Queue'
  BY DEF Queue, DepthExact, To

LEMMA ArriveQueue ==
  ASSUME Queue, NEW r \in Requests, Arrive(r)
  PROVE  Queue'
  <1>1. phase[r] = "new"
    BY DEF Arrive
  <1>2. CASE UNCHANGED <<depth, held>> /\ To(r, "refused")
    BY <1>1, <1>2, MovesQueue DEF Phases
  <1>3. CASE depth < MaxDepth /\ To(r, "routed") /\ depth' = depth + 1 /\ held' = held \cup {r}
    <2>1. r \notin held /\ IsFiniteSet(held)
      BY <1>1 DEF Queue
    <2>2. IsFiniteSet(held') /\ Cardinality(held') = Cardinality(held) + 1
      BY <2>1, <1>3, FS_AddElement
    <2>3. Cardinality(held) \in Nat
      BY <2>1, FS_CardinalityType
    <2>4. depth' = Cardinality(held') /\ depth' <= MaxDepth
      BY <1>3, <2>2, <2>3, GatewayAssumption DEF Queue, DepthExact
    <2>5. /\ phase' \in [Requests -> Phases] /\ held' \subseteq Requests
          /\ \A s \in held' : phase'[s] \notin {"new", "refused"}
      BY <1>3 DEF Queue, To, Phases
    <2> QED BY <2>2, <2>4, <2>5 DEF Queue, DepthExact
  <1> QED BY <1>2, <1>3 DEF Arrive

LEMMA ReleaseQueue ==
  ASSUME Queue, NEW r \in Requests, Release(r)
  PROVE  Queue'
  <1>1. r \in held /\ IsFiniteSet(held) /\ held' = held \ {r} /\ depth' = depth - 1
        /\ phase' = phase
    BY DEF Release, Queue
  <1>2. IsFiniteSet(held') /\ Cardinality(held') = Cardinality(held) - 1
    BY <1>1, FS_RemoveElement
  <1>3. Cardinality(held) \in Nat
    BY <1>1, FS_CardinalityType
  <1>4. depth' = Cardinality(held') /\ depth' <= MaxDepth
    BY <1>1, <1>2, <1>3, GatewayAssumption DEF Queue, DepthExact
  <1> QED BY <1>1, <1>2, <1>4 DEF Queue, DepthExact

LEMMA NextQueue == Queue /\ [Next]_vars => Queue'
  <1> SUFFICES ASSUME Queue, [Next]_vars PROVE Queue'
    OBVIOUS
  <1> USE DEF Phases
  <1>1. CASE Tick
    BY <1>1 DEF Tick, Queue, DepthExact
  <1>2. ASSUME NEW r \in Requests, Serve(r) PROVE Queue'
    <2>1. CASE Release(r)
      BY <2>1, ReleaseQueue
    <2>2. CASE Answer(r) \/ Close(r) \/ Finalize(r)
      BY <2>2, MovesQueue DEF Answer, Close, Finalize
    <2>3. CASE Plain(r) \/ Iterate(r)
      BY <2>3, MovesQueue DEF Plain, Iterate, Enter
    <2>4. CASE Begin(r)
      BY <2>4, MovesQueue DEF Begin
    <2> QED BY <1>2, <2>1, <2>2, <2>3, <2>4 DEF Serve
  <1>3. ASSUME NEW r \in Requests, Generate(r) PROVE Queue'
    <2>1. CASE Acquire(r)
      BY <2>1, MovesQueue DEF Acquire
    <2>2. CASE Finish(r)
      BY <2>2, MovesQueue DEF Finish
    <2> QED BY <1>3, <2>1, <2>2 DEF Generate
  <1>4. ASSUME NEW r \in Requests, Client(r) PROVE Queue'
    <2>1. CASE Arrive(r)
      BY <2>1, ArriveQueue
    <2>2. CASE Reject(r)
      BY <2>2, MovesQueue DEF Reject
    <2>3. CASE Accept(r)
      BY <2>3, MovesQueue DEF Accept
    <2>4. CASE Prompt(r)
      BY <2>4, MovesQueue DEF Prompt, Enter
    <2>5. CASE Stall(r)
      <3>1. \E p \in {"running", "stalled", "closing", "slow"} :
              To(r, p) /\ phase[r] \in {"running", "stalled", "closing", "slow"}
        BY <2>5 DEF Stall
      <3> QED BY <2>5, <3>1, MovesQueue DEF Stall
    <2>6. CASE Leave(r)
      BY <2>6, MovesQueue DEF Leave
    <2> QED BY <1>4, <2>1, <2>2, <2>3, <2>4, <2>5, <2>6 DEF Client
  <1>5. CASE UNCHANGED vars
    BY <1>5 DEF vars, Queue, DepthExact
  <1> QED BY <1>1, <1>2, <1>3, <1>4, <1>5 DEF Next

(* gateway.py:112-124, the middleware.  However requests end, fail or are  *)
(* left, queue_depth counts those that have been handed on and not come    *)
(* back, and the bound on it is never passed.                              *)
THEOREM DepthIsExact == Spec => []DepthExact
  <1>1. Init => Queue
    BY InitQueue
  <1>2. Queue /\ [Next]_vars => Queue'
    BY NextQueue
  <1>3. Queue => DepthExact
    BY DEF Queue
  <1> QED BY <1>1, <1>2, <1>3, PTL DEF Spec

-----------------------------------------------------------------------------
(* The semaphore keeps its waiters once each, in a line; whoever is counted*)
(* or holds a permit is in one of the phases named for it.                 *)
Line == /\ waiting \in Seq(Requests)
        /\ \A i, j \in DOMAIN waiting : waiting[i] = waiting[j] => i = j
        /\ ToSet(waiting) = In({"queued"})
Counting == IsFiniteSet(In(Counted)) /\ active = Cardinality(In(Counted))
Permitted == /\ IsFiniteSet(In(Holding))
             /\ permits = Permits - Cardinality(In(Holding)) /\ permits \in Nat
Ledger == phase \in [Requests -> Phases] /\ Line /\ Counting /\ Permitted

LEMMA InitLedger == Init => Ledger
  <1> SUFFICES ASSUME Init PROVE Ledger
    OBVIOUS
  <1>1. phase \in [Requests -> Phases]
    BY DEF Init, Phases
  <1>2. In({"queued"}) = {} /\ In(Counted) = {} /\ In(Holding) = {}
    BY DEF Init, In, Counted, Holding
  <1>3. Line
    BY <1>2 DEF Init, Line, ToSet
  <1>4. Counting /\ Permitted
    BY <1>2, FS_EmptySet, GatewayAssumption DEF Init, Counting, Permitted
  <1> QED BY <1>1, <1>3, <1>4 DEF Ledger

(* What one request's move does to a set of requests told by their phase.  *)
LEMMA MoveCounts ==
  ASSUME phase \in [Requests -> Phases], NEW r \in Requests, NEW p, To(r, p),
         NEW S, IsFiniteSet(In(S))
  PROVE  /\ IsFiniteSet(In(S)')
         /\ Cardinality(In(S)) \in Nat
         /\ p \in S /\ phase[r] \notin S => Cardinality(In(S)') = Cardinality(In(S)) + 1
         /\ p \notin S /\ phase[r] \in S => Cardinality(In(S)') = Cardinality(In(S)) - 1
         /\ (p \in S) = (phase[r] \in S) => Cardinality(In(S)') = Cardinality(In(S))
  <1>1. p \in S => In(S)' = In(S) \cup {r}
    BY DEF In, To
  <1>2. p \notin S => In(S)' = In(S) \ {r}
    BY DEF In, To
  <1>3. r \in In(S) <=> phase[r] \in S
    BY DEF In
  <1>4. Cardinality(In(S)) \in Nat
    BY FS_CardinalityType
  <1>5. CASE p \in S
    BY <1>1, <1>3, <1>4, <1>5, FS_AddElement
  <1>6. CASE p \notin S
    BY <1>2, <1>3, <1>4, <1>6, FS_RemoveElement
  <1> QED BY <1>5, <1>6

(* The counters follow a move that changes them as it should.              *)
LEMMA MovesCounting ==
  ASSUME Ledger, NEW r \in Requests, NEW p \in Phases, To(r, p),
         active' = active + (IF p \in Counted THEN 1 ELSE 0)
                          - (IF phase[r] \in Counted THEN 1 ELSE 0)
  PROVE  Counting'
  <1>1. /\ IsFiniteSet(In(Counted)) /\ active = Cardinality(In(Counted))
        /\ phase \in [Requests -> Phases]
    BY DEF Ledger, Counting
  <1>2. In(Counted)' = {q \in Requests : phase'[q] \in Counted}
    BY DEF In
  <1>3. /\ IsFiniteSet(In(Counted)') /\ Cardinality(In(Counted)) \in Nat
        /\ p \in Counted /\ phase[r] \notin Counted
             => Cardinality(In(Counted)') = Cardinality(In(Counted)) + 1
        /\ p \notin Counted /\ phase[r] \in Counted
             => Cardinality(In(Counted)') = Cardinality(In(Counted)) - 1
        /\ (p \in Counted) = (phase[r] \in Counted)
             => Cardinality(In(Counted)') = Cardinality(In(Counted))
    BY <1>1, MoveCounts
  <1> QED BY <1>1, <1>3 DEF Counting

LEMMA MovesPermitted ==
  ASSUME Ledger, NEW r \in Requests, NEW p \in Phases, To(r, p),
         permits' = permits - (IF p \in Holding THEN 1 ELSE 0)
                            + (IF phase[r] \in Holding THEN 1 ELSE 0),
         permits > 0 \/ p \notin Holding \/ phase[r] \in Holding
  PROVE  Permitted'
  <1>1. /\ IsFiniteSet(In(Holding)) /\ permits = Permits - Cardinality(In(Holding))
        /\ permits \in Nat /\ phase \in [Requests -> Phases] /\ Permits \in Nat
    BY GatewayAssumption DEF Ledger, Permitted
  <1>3. /\ IsFiniteSet(In(Holding)') /\ Cardinality(In(Holding)) \in Nat
        /\ p \in Holding /\ phase[r] \notin Holding
             => Cardinality(In(Holding)') = Cardinality(In(Holding)) + 1
        /\ p \notin Holding /\ phase[r] \in Holding
             => Cardinality(In(Holding)') = Cardinality(In(Holding)) - 1
        /\ (p \in Holding) = (phase[r] \in Holding)
             => Cardinality(In(Holding)') = Cardinality(In(Holding))
    BY <1>1, MoveCounts
  <1> QED BY <1>1, <1>3 DEF Permitted

(* Who neither comes to the line nor leaves it leaves it as it is.         *)
LEMMA MovesPastLine ==
  ASSUME Ledger, NEW r \in Requests, NEW p \in Phases, To(r, p), waiting' = waiting,
         p # "queued", phase[r] # "queued"
  PROVE  Line'
  <1>1. In({"queued"})' = In({"queued"})
    BY DEF In, To, Ledger
  <1> QED BY <1>1 DEF Ledger, Line

LEMMA JoinsLine ==
  ASSUME Ledger, NEW r \in Requests, To(r, "queued"), waiting' = Append(waiting, r),
         phase[r] # "queued"
  PROVE  Line'
  <1> DEFINE n == Len(waiting)
  <1>1. /\ waiting \in Seq(Requests) /\ n \in Nat
        /\ \A i, j \in 1..n : waiting[i] = waiting[j] => i = j
        /\ \A q \in Requests : (\E i \in 1..n : waiting[i] = q) <=> phase[q] = "queued"
    BY DEF Ledger, Line, ToSet, In
  <1>2. /\ waiting' \in Seq(Requests) /\ DOMAIN waiting' = 1..(n + 1)
        /\ waiting'[n + 1] = r /\ \A i \in 1..n : waiting'[i] = waiting[i]
    BY <1>1
  <1>3. \A i \in 1..n : waiting[i] # r
    BY <1>1
  <1>4. \A i, j \in DOMAIN waiting' : waiting'[i] = waiting'[j] => i = j
    BY <1>1, <1>2, <1>3
  <1>5. In({"queued"})' = In({"queued"}) \cup {r}
    BY DEF In, To, Ledger
  <1>6. ToSet(waiting') = ToSet(waiting) \cup {r}
    <2>1. DOMAIN waiting = 1..n /\ 1..(n + 1) = 1..n \cup {n + 1}
      BY <1>1
    <2> QED BY <1>2, <2>1 DEF ToSet
  <1> QED BY <1>2, <1>4, <1>5, <1>6 DEF Ledger, Line

LEMMA HeadLeavesLine ==
  ASSUME Ledger, waiting # <<>>, NEW r \in Requests, r = Head(waiting), To(r, "running"),
         waiting' = Tail(waiting)
  PROVE  Line'
  <1> DEFINE n == Len(waiting)
  <1>1. /\ waiting \in Seq(Requests) /\ n \in Nat /\ n >= 1 /\ waiting[1] = r
        /\ \A i, j \in 1..n : waiting[i] = waiting[j] => i = j
    BY DEF Ledger, Line
  <1>2. /\ waiting' \in Seq(Requests) /\ DOMAIN waiting' = 1..(n - 1)
        /\ \A i \in 1..(n - 1) : waiting'[i] = waiting[i + 1]
    BY <1>1
  <1>4. \A i, j \in DOMAIN waiting' : waiting'[i] = waiting'[j] => i = j
    BY <1>1, <1>2
  <1>5. In({"queued"})' = In({"queued"}) \ {r}
    BY DEF In, To, Ledger
  <1>6. ToSet(waiting') = ToSet(waiting) \ {r}
    <2>1. ASSUME NEW x \in ToSet(waiting') PROVE x \in ToSet(waiting) \ {r}
      <3>1. PICK i \in 1..(n - 1) : x = waiting[i + 1]
        BY <1>2 DEF ToSet
      <3>2. i + 1 \in 1..n /\ i + 1 # 1
        BY <1>1
      <3> QED BY <1>1, <3>1, <3>2 DEF ToSet
    <2>2. ASSUME NEW x \in ToSet(waiting) \ {r} PROVE x \in ToSet(waiting')
      <3>1. PICK i \in 1..n : x = waiting[i]
        BY <1>1 DEF ToSet
      <3>2. i - 1 \in 1..(n - 1) /\ (i - 1) + 1 = i
        BY <1>1, <3>1
      <3> QED BY <1>2, <3>1, <3>2 DEF ToSet
    <2> QED BY <2>1, <2>2
  <1> QED BY <1>2, <1>4, <1>5, <1>6 DEF Ledger, Line

(* What is left of a sequence without its k-th element.                    *)
LEMMA WithoutAt ==
  ASSUME NEW S, NEW s \in Seq(S), NEW k \in 1..Len(s)
  PROVE  /\ RemoveAt(s, k) \in Seq(S) /\ Len(RemoveAt(s, k)) = Len(s) - 1
         /\ \A i \in 1..(Len(s) - 1) : RemoveAt(s, k)[i] = IF i < k THEN s[i] ELSE s[i + 1]
  <1> DEFINE a == SubSeq(s, 1, k - 1)
             b == SubSeq(s, k + 1, Len(s))
             n == Len(s)
  <1>1. a \in Seq(S) /\ Len(a) = k - 1 /\ n \in Nat
    OBVIOUS
  <1>2. b \in Seq(S)
    OBVIOUS
  <1>3. Len(b) = n - k
    OBVIOUS
  <1>4. \A i \in 1..(k - 1) : a[i] = s[i]
    OBVIOUS
  <1>5. \A i \in 1..(n - k) : b[i] = s[k + i]
    OBVIOUS
  <1>6. RemoveAt(s, k) = a \o b
    BY DEF RemoveAt
  <1> HIDE DEF a, b
  <1>7. a \o b \in Seq(S) /\ Len(a \o b) = Len(a) + Len(b)
    BY <1>1, <1>2
  <1>8. \A i \in 1..Len(a) + Len(b) : (a \o b)[i] = IF i <= Len(a) THEN a[i] ELSE b[i - Len(a)]
    BY <1>1, <1>2
  <1> HIDE DEF n
  <1>9. ASSUME NEW i \in 1..(n - 1) PROVE (a \o b)[i] = IF i < k THEN s[i] ELSE s[i + 1]
    <2>0. k \in 1..n /\ Len(a) + Len(b) = n - 1
      BY <1>1, <1>3 DEF n
    <2>1. (a \o b)[i] = IF i <= k - 1 THEN a[i] ELSE b[i - (k - 1)]
      BY <1>1, <1>8, <2>0
    <2>2. CASE i < k
      <3>1. i <= k - 1 /\ i \in 1..(k - 1)
        BY <1>1, <2>0, <2>2
      <3> QED BY <1>4, <2>1, <2>2, <3>1
    <2>3. CASE ~ (i < k)
      <3>1. i - (k - 1) \in 1..(n - k) /\ ~ (i <= k - 1) /\ k + (i - (k - 1)) = i + 1
        BY <1>1, <2>0, <2>3
      <3>2. b[i - (k - 1)] = s[k + (i - (k - 1))]
        BY <1>5, <3>1
      <3> QED BY <2>1, <2>3, <3>1, <3>2
    <2> QED BY <2>2, <2>3
  <1>10. Len(a) + Len(b) = n - 1
    BY <1>1, <1>3 DEF n
  <1> QED BY <1>6, <1>7, <1>9, <1>10 DEF n

LEMMA LeavesLine ==
  ASSUME Ledger, NEW r \in Requests, To(r, "ended"), waiting' = RemoveFirst(waiting, r)
  PROVE  Line'
  <1> DEFINE n == Len(waiting)
  <1>1. /\ waiting \in Seq(Requests) /\ n \in Nat /\ DOMAIN waiting = 1..n
        /\ \A i, j \in 1..n : waiting[i] = waiting[j] => i = j
        /\ ToSet(waiting) = In({"queued"})
    BY DEF Ledger, Line
  <1>5. In({"queued"})' = In({"queued"}) \ {r}
    BY DEF In, To, Ledger
  <1>2. CASE \A i \in 1..n : waiting[i] # r
    <2>1. waiting' = waiting
      BY <1>2 DEF RemoveFirst
    <2>2. r \notin ToSet(waiting)
      BY <1>1, <1>2 DEF ToSet
    <2> QED BY <1>1, <1>5, <2>1, <2>2 DEF Line
  <1>3. ASSUME NEW k \in 1..n, waiting[k] = r PROVE Line'
    <2>1. {i \in 1..n : waiting[i] = r} = {k}
      BY <1>1, <1>3
    <2>2. SelectInSeq(waiting, LAMBDA v : v = r) = Min({k})
      BY <2>1 DEF SelectInSeq
    <2>3. Min({k}) = k
      BY DEF Min
    <2>5. /\ waiting' \in Seq(Requests) /\ Len(waiting') = n - 1
          /\ \A i \in 1..(n - 1) : waiting'[i] = IF i < k THEN waiting[i] ELSE waiting[i + 1]
      <3>1. waiting' = RemoveAt(waiting, k)
        BY <1>3, <2>2, <2>3 DEF RemoveFirst
      <3>2. /\ RemoveAt(waiting, k) \in Seq(Requests)
            /\ Len(RemoveAt(waiting, k)) = Len(waiting) - 1
            /\ \A i \in 1..(Len(waiting) - 1) :
                 RemoveAt(waiting, k)[i] = IF i < k THEN waiting[i] ELSE waiting[i + 1]
        BY <1>1, WithoutAt, Zenon
      <3> QED BY <3>1, <3>2, Zenon
    <2>6. \A i, j \in DOMAIN waiting' : waiting'[i] = waiting'[j] => i = j
      <3>1. n \in Nat /\ DOMAIN waiting' = 1..(n - 1)
        BY <1>1, <2>5
      <3> DEFINE at(i) == IF i < k THEN i ELSE i + 1
      <3>2. ASSUME NEW i \in 1..(n - 1)
            PROVE  at(i) \in 1..n /\ waiting'[i] = waiting[at(i)]
        BY <2>5, <3>1
      <3>3. ASSUME NEW i \in 1..(n - 1), NEW j \in 1..(n - 1), at(i) = at(j)
            PROVE  i = j
        BY <3>1, <3>3
      <3>4. \A i, j \in 1..n : waiting[i] = waiting[j] => i = j
        BY <1>1
      <3>5. ASSUME NEW i \in 1..(n - 1), NEW j \in 1..(n - 1), waiting'[i] = waiting'[j]
            PROVE  i = j
        <4>1. at(i) \in 1..n /\ at(j) \in 1..n /\ waiting[at(i)] = waiting[at(j)]
          BY <3>2, <3>5
        <4> HIDE DEF at
        <4>2. at(i) = at(j)
          BY <4>1, <3>4
        <4> QED BY <4>2, <3>3
      <3> HIDE DEF at
      <3> QED BY <3>1, <3>5
    <2>7. ASSUME NEW x \in ToSet(waiting') PROVE x \in ToSet(waiting) \ {r}
      <3>1. PICK i \in 1..(n - 1) : x = IF i < k THEN waiting[i] ELSE waiting[i + 1]
        BY <1>1, <2>5 DEF ToSet
      <3>2. i \in 1..n /\ i + 1 \in 1..n /\ (i < k => i # k) /\ (~ (i < k) => i + 1 # k)
        BY <1>1
      <3> QED BY <1>1, <1>3, <3>1, <3>2 DEF ToSet
    <2>8. ASSUME NEW x \in ToSet(waiting) \ {r} PROVE x \in ToSet(waiting')
      <3>1. PICK i \in 1..n : x = waiting[i] /\ i # k
        BY <1>1, <1>3 DEF ToSet
      <3>2. CASE i < k
        BY <1>1, <2>5, <3>1, <3>2 DEF ToSet
      <3>3. CASE i > k
        <4>1. i - 1 \in 1..(n - 1) /\ ~ (i - 1 < k) /\ (i - 1) + 1 = i
          BY <1>1, <3>3
        <4>2. waiting'[i - 1] = x /\ i - 1 \in DOMAIN waiting'
          BY <1>1, <2>5, <3>1, <4>1
        <4> QED BY <4>2 DEF ToSet
      <3> QED BY <1>1, <3>1, <3>2, <3>3
    <2>9. ToSet(waiting') = ToSet(waiting) \ {r}
      BY <2>7, <2>8
    <2> QED BY <1>1, <1>5, <2>5, <2>6, <2>9 DEF Line
  <1> QED BY <1>2, <1>3

LEMMA SamePhases == ASSUME Ledger, UNCHANGED <<phase, waiting, active, permits>> PROVE Ledger'
  BY DEF Ledger, Line, Counting, Permitted, In, ToSet

LEMMA NextLedger == Ledger /\ [Next]_vars => Ledger'
  <1> SUFFICES ASSUME Ledger, [Next]_vars PROVE Ledger'
    OBVIOUS
  <1>1. /\ phase \in [Requests -> Phases] /\ waiting \in Seq(Requests)
        /\ active \in Int /\ permits \in Nat
    BY FS_CardinalityType DEF Ledger, Line, Counting, Permitted
  <1>2. ASSUME NEW r \in Requests, NEW p \in Phases, To(r, p) PROVE phase' \in [Requests -> Phases]
    BY <1>1, <1>2 DEF To
  <1>3. ASSUME NEW r \in Requests, NEW p \in Phases, To(r, p), UNCHANGED <<waiting, active, permits>>,
               p # "queued", phase[r] # "queued", (p \in Counted) = (phase[r] \in Counted),
               (p \in Holding) = (phase[r] \in Holding)
        PROVE  Ledger'
    <2>1. Counting'
      BY <1>1, <1>3, MovesCounting
    <2>2. Permitted'
      BY <1>1, <1>3, MovesPermitted
    <2> QED BY <1>2, <1>3, <2>1, <2>2, MovesPastLine DEF Ledger
  <1>4. ASSUME NEW r \in Requests, Enter(r), permits' = permits,
               phase[r] \in {"routed", "begun", "open"}
        PROVE  Ledger'
    <2>1. To(r, "queued") /\ "queued" \in Phases
      BY <1>4 DEF Enter, Phases
    <2>2. Line'
      BY <1>4, <2>1, JoinsLine DEF Enter
    <2>3. Counting'
      BY <1>4, <1>1, <2>1, MovesCounting DEF Enter, Counted
    <2>4. Permitted'
      BY <1>4, <1>1, <2>1, MovesPermitted DEF Enter, Holding
    <2> QED BY <1>2, <2>1, <2>2, <2>3, <2>4 DEF Ledger
  (* A generation that leaves the count, and the semaphore if it holds it. *)
  <1>5. ASSUME NEW r \in Requests, NEW p \in {"open", "ended"}, To(r, p), waiting' = waiting,
               phase[r] \in Counted, phase[r] # "queued", active' = active - 1,
               permits' = permits + (IF phase[r] \in Holding THEN 1 ELSE 0)
        PROVE  Ledger'
    <2>1. p \in Phases /\ p \notin Counted /\ p \notin Holding /\ p # "queued"
      BY DEF Phases, Counted, Holding
    <2>2. phase[r] \in Counted /\ phase[r] # "queued"
      BY <1>5
    <2>3. Counting'
      BY <1>5, <1>1, <2>1, <2>2, MovesCounting
    <2>4. Permitted'
      BY <1>5, <1>1, <2>1, MovesPermitted
    <2> QED BY <1>5, <1>2, <2>1, <2>2, <2>3, <2>4, MovesPastLine DEF Ledger
  <1>6. CASE Tick
    BY <1>6, SamePhases DEF Tick
  <1>7. ASSUME NEW r \in Requests, Serve(r) PROVE Ledger'
    <2>1. CASE Release(r)
      BY <2>1, SamePhases DEF Release
    <2>2. CASE Answer(r)
      BY <2>2, <1>3 DEF Answer, Phases, Counted, Holding
    <2>3. CASE Plain(r) \/ Iterate(r)
      BY <2>3, <1>4 DEF Plain, Iterate
    <2>4. CASE Begin(r)
      BY <2>4, <1>3 DEF Begin, Phases, Counted, Holding
    <2>5. CASE Finalize(r)
      <3>1. permits' = permits + (IF phase[r] \in Holding THEN 1 ELSE 0)
        BY <1>1, <2>5 DEF Finalize, Holding
      <3> QED BY <2>5, <3>1, <1>5 DEF Finalize, Counted
    <2>6. CASE Close(r)
      <3>1. permits' = permits + (IF phase[r] \in Holding THEN 1 ELSE 0)
        BY <1>1, <2>6 DEF Close, Holding
      <3> QED BY <2>6, <3>1, <1>5 DEF Close, Counted
    <2> QED BY <1>7, <2>1, <2>2, <2>3, <2>4, <2>5, <2>6 DEF Serve
  <1>8. ASSUME NEW r \in Requests, Generate(r) PROVE Ledger'
    <2>1. CASE Acquire(r)
      <3>1. phase[r] = "queued"
        <4>1. r \in ToSet(waiting)
          BY <1>1, <2>1 DEF Acquire, ToSet
        <4> QED BY <4>1 DEF Ledger, Line, In
      <3>2. To(r, "running") /\ "running" \in Phases /\ permits > 0
        BY <2>1 DEF Acquire, Phases
      <3>3. Line'
        BY <2>1, HeadLeavesLine DEF Acquire
      <3>4. Counting'
        BY <2>1, <1>1, <3>1, <3>2, MovesCounting DEF Acquire, Counted
      <3>5. Permitted'
        BY <2>1, <1>1, <3>1, <3>2, MovesPermitted DEF Acquire, Holding
      <3> QED BY <1>2, <3>2, <3>3, <3>4, <3>5 DEF Ledger
    <2>2. CASE Finish(r) /\ kind[r] = "plain"
      <3>1. permits' = permits + (IF phase[r] \in Holding THEN 1 ELSE 0)
        BY <1>1, <2>2 DEF Finish, Holding
      <3> QED BY <2>2, <3>1, <1>5 DEF Finish, Counted
    (* It keeps its count for what it has still to send.                   *)
    <2>3. CASE Finish(r) /\ kind[r] # "plain"
      <3>1. /\ To(r, "closing") /\ "closing" \in Phases /\ phase[r] = "running"
            /\ UNCHANGED <<active, waiting>> /\ permits' = permits + 1
        BY <2>3 DEF Finish, Phases
      <3>2. Line'
        BY <3>1, MovesPastLine
      <3>3. Counting'
        BY <1>1, <3>1, MovesCounting DEF Counted
      <3>4. Permitted'
        BY <1>1, <3>1, MovesPermitted DEF Holding
      <3> QED BY <1>2, <3>1, <3>2, <3>3, <3>4 DEF Ledger
    <2> QED BY <1>8, <2>1, <2>2, <2>3 DEF Generate
  <1>9. ASSUME NEW r \in Requests, Client(r) PROVE Ledger'
    <2>1. CASE Arrive(r)
      <3>1. PICK p \in {"routed", "refused"} : To(r, p)
        BY <2>1 DEF Arrive
      <3> QED BY <2>1, <3>1, <1>3 DEF Arrive, Phases, Counted, Holding
    <2>2. CASE Reject(r) \/ Accept(r)
      BY <2>2, <1>3 DEF Reject, Accept, Phases, Counted, Holding
    <2>3. CASE Prompt(r)
      BY <2>3, <1>4 DEF Prompt
    <2>4. CASE Stall(r)
      <3>1. CASE phase[r] \in {"running", "stalled"}
        <4>1. \E p \in {"running", "stalled"} : To(r, p)
          BY <2>4, <3>1 DEF Stall
        <4> QED BY <2>4, <3>1, <4>1, <1>3 DEF Stall, Phases, Counted, Holding
      <3>2. CASE phase[r] \in {"closing", "slow"}
        <4>1. \E p \in {"closing", "slow"} : To(r, p)
          BY <2>4, <3>2 DEF Stall
        <4> QED BY <2>4, <3>2, <4>1, <1>3 DEF Stall, Phases, Counted, Holding
      <3> QED BY <2>4, <3>1, <3>2 DEF Stall
    <2>5. CASE Leave(r)
      <3>1. CASE kind[r] = "stream" /\ phase[r] \in {"begun", "queued", "running"} /\ To(r, "ended")
        <4>1. /\ active' = IF phase[r] = "begun" THEN active ELSE active - 1
              /\ permits' = IF phase[r] = "running" THEN permits + 1 ELSE permits
              /\ waiting' = RemoveFirst(waiting, r)
          BY <2>5, <3>1 DEF Leave
        <4>2. Counting'
          BY <1>1, <3>1, <4>1, MovesCounting DEF Phases, Counted
        <4>3. Permitted'
          BY <1>1, <3>1, <4>1, MovesPermitted DEF Phases, Holding
        <4> QED BY <1>2, <3>1, <4>1, <4>2, <4>3, LeavesLine DEF Ledger, Phases
      <3>2. CASE kind[r] = "stream" /\ phase[r] \in {"stalled", "closing", "slow"}
        BY <2>5, <3>2, <1>3 DEF Leave, Phases, Counted, Holding
      <3>3. CASE kind[r] = "socket" /\ phase[r] = "open"
        BY <2>5, <3>3, <1>3 DEF Leave, Phases, Counted, Holding
      <3>4. CASE kind[r] = "socket" /\ phase[r] \in {"running", "stalled", "closing", "slow"}
        <4>1. permits' = permits + (IF phase[r] \in Holding THEN 1 ELSE 0)
          BY <1>1, <2>5, <3>4 DEF Leave, Holding
        <4> QED BY <2>5, <3>4, <4>1, <1>5 DEF Leave, Counted
      <3> QED BY <2>5, <3>1, <3>2, <3>3, <3>4 DEF Leave
    <2> QED BY <1>9, <2>1, <2>2, <2>3, <2>4, <2>5 DEF Client
  <1>10. CASE UNCHANGED vars
    BY <1>10, SamePhases DEF vars
  <1> QED BY <1>6, <1>7, <1>8, <1>9, <1>10 DEF Next

(* The endpoints and the middleware: however requests fail, end or are     *)
(* left, queue_depth, active_requests and the semaphore say how many are   *)
(* where, and the semaphore's line holds who waits for it, once each.      *)
THEOREM CountersAreExact == Spec => []CountersExact
  <1>1. Init => Queue /\ Ledger
    BY InitQueue, InitLedger
  <1>2. Queue /\ Ledger /\ [Next]_vars => Queue' /\ Ledger'
    BY NextQueue, NextLedger
  <1>3. Queue /\ Ledger => CountersExact
    BY DEF Queue, Ledger, Line, Counting, Permitted, CountersExact
  <1> QED BY <1>1, <1>2, <1>3, PTL DEF Spec

-----------------------------------------------------------------------------
(* The clock, the buckets and the counter of requests keep their types.    *)
Timed ==
  /\ clock \in 0..MaxClock /\ total \in Nat /\ kind \in [Requests -> Kinds]
  /\ bucket \in [Clients -> [tokens : Int, last : 0..MaxClock]]
  /\ \A c \in Clients : bucket[c].tokens <= Capacity
  /\ admitted \in [Clients -> Seq(0..MaxClock)]

LEMMA InitTimed == Init => Timed
  <1> SUFFICES ASSUME Init PROVE Timed
    OBVIOUS
  <1>1. clock \in 0..MaxClock /\ total \in Nat /\ kind \in [Requests -> Kinds]
    BY GatewayAssumption DEF Init
  <1>2. /\ bucket \in [Clients -> [tokens : Int, last : 0..MaxClock]]
        /\ \A c \in Clients : bucket[c].tokens <= Capacity
    BY GatewayAssumption DEF Init
  <1>3. admitted \in [Clients -> Seq(0..MaxClock)]
    <2>1. <<>> \in Seq(0..MaxClock)
      OBVIOUS
    <2> QED BY <2>1 DEF Init
  <1> QED BY <1>1, <1>2, <1>3 DEF Timed

LEMMA ArriveTimed == ASSUME Timed, NEW r \in Requests, Arrive(r) PROVE Timed'
  <1> DEFINE c == ClientOf[r]
  <1>1. PICK ok \in BOOLEAN :
          /\ bucket' = [bucket EXCEPT
               ![c] = [tokens |-> Refill(c) - (IF ok THEN 1 ELSE 0), last |-> clock]]
          /\ admitted' = IF ok THEN [admitted EXCEPT ![c] = Append(@, clock)] ELSE admitted
    BY DEF Arrive, Consume
  <1>2. c \in Clients /\ UNCHANGED <<clock, total, kind>>
    BY GatewayAssumption DEF Arrive
  <1>3. Refill(c) \in Int /\ Refill(c) <= Capacity
    <2>1. bucket[c].tokens \in Int /\ bucket[c].last \in Int /\ clock \in Int
      BY <1>2, GatewayAssumption DEF Timed
    <2>2. (clock - bucket[c].last) * Rate \in Int
      BY <2>1, GatewayAssumption
    <2> QED BY <2>1, <2>2, GatewayAssumption DEF Refill
  <1> HIDE DEF c
  <1>4. /\ bucket' \in [Clients -> [tokens : Int, last : 0..MaxClock]]
        /\ \A e \in Clients : bucket'[e].tokens <= Capacity
    <2> DEFINE R == Refill(c)
               b == [tokens |-> R - (IF ok THEN 1 ELSE 0), last |-> clock]
    <2>1. b \in [tokens : Int, last : 0..MaxClock] /\ b.tokens <= Capacity
      <3> HIDE DEF R
      <3> QED BY <1>3, GatewayAssumption DEF Timed, R
    <2>2. bucket' = [bucket EXCEPT ![c] = b]
      BY <1>1
    <2> HIDE DEF b
    <2> QED BY <1>2, <2>1, <2>2 DEF Timed
  <1>5. admitted' \in [Clients -> Seq(0..MaxClock)]
    <2>1. Append(admitted[c], clock) \in Seq(0..MaxClock)
      BY <1>2 DEF Timed
    <2> QED BY <1>1, <1>2, <2>1 DEF Timed
  <1> QED BY <1>2, <1>4, <1>5 DEF Timed

LEMMA OthersTimed ==
  ASSUME Timed, UNCHANGED <<clock, bucket, kind, admitted>>, total' \in {total, total + 1}
  PROVE  Timed'
  BY DEF Timed

LEMMA NextTimed == Timed /\ [Next]_vars => Timed'
  <1> SUFFICES ASSUME Timed, [Next]_vars PROVE Timed'
    OBVIOUS
  <1>1. CASE Tick
    BY <1>1 DEF Tick, Timed
  <1>2. ASSUME NEW r \in Requests, Serve(r) PROVE Timed'
    <2>1. UNCHANGED <<clock, bucket, kind, admitted>> /\ total' \in {total, total + 1}
      BY <1>2 DEF Serve, Answer, Plain, Begin, Iterate, Close, Release, Finalize
    <2> QED BY <2>1, OthersTimed
  <1>3. ASSUME NEW r \in Requests, Generate(r) PROVE Timed'
    <2>1. UNCHANGED <<clock, bucket, kind, admitted>> /\ total' \in {total, total + 1}
      BY <1>3 DEF Generate, Acquire, Finish
    <2> QED BY <2>1, OthersTimed
  <1>4. ASSUME NEW r \in Requests, Client(r) PROVE Timed'
    <2>1. CASE Arrive(r)
      BY <2>1, ArriveTimed
    <2>2. CASE ~ Arrive(r)
      <3>1. UNCHANGED <<clock, bucket, kind, admitted>> /\ total' \in {total, total + 1}
        BY <1>4, <2>2 DEF Client, Reject, Accept, Prompt, Stall, Leave
      <3> QED BY <3>1, OthersTimed
    <2> QED BY <2>1, <2>2
  <1>5. CASE UNCHANGED vars
    BY <1>5, OthersTimed DEF vars
  <1> QED BY <1>1, <1>2, <1>3, <1>4, <1>5 DEF Next

GatewayInv == Queue /\ Ledger /\ Timed

LEMMA TypesSuffice == GatewayInv => TypeOK
  <1> SUFFICES ASSUME GatewayInv PROVE TypeOK
    OBVIOUS
  <1>1. depth \in Nat /\ held \subseteq Requests /\ phase \in [Requests -> Phases]
    BY FS_CardinalityType DEF GatewayInv, Queue, DepthExact
  <1>2. active \in Nat /\ permits \in 0..Permits /\ waiting \in Seq(Requests)
    BY FS_CardinalityType, GatewayAssumption DEF GatewayInv, Ledger, Line, Counting, Permitted
  <1>3. /\ clock \in 0..MaxClock /\ total \in Nat /\ kind \in [Requests -> Kinds]
        /\ \A c \in Clients : /\ bucket[c].tokens \in Int
                              /\ bucket[c].tokens <= Capacity
                              /\ bucket[c].last \in 0..MaxClock
                              /\ admitted[c] \in Seq(0..MaxClock)
    BY DEF GatewayInv, Timed
  <1> QED BY <1>1, <1>2, <1>3 DEF TypeOK

-----------------------------------------------------------------------------
(* TokenStreamProofs.tla speaks of the stream that is a part here.         *)
S == INSTANCE TokenStreamProofs

LEMMA SameStart == T!StreamAssumption /\ T!Init => S!SInv
  <1>1. T!StreamAssumption => S!StreamAssumption
    BY DEF T!StreamAssumption, S!StreamAssumption
  <1>2. T!Init => S!Init
    BY DEF T!Init, S!Init, T!EndMarker, S!EndMarker
  <1> QED BY <1>1, <1>2, S!InitS

LEMMA SameSteps == (T!Next \/ UNCHANGED streamVars) => [S!Next]_(S!vars)
  <1>1. T!Yield <=> S!Yield
    BY DEF T!Yield, S!Yield, T!HasRoom, S!HasRoom
  <1>2. T!PutToken <=> S!PutToken
    BY DEF T!PutToken, S!PutToken, T!HasRoom, S!HasRoom
  <1>3. (T!Exhausted <=> S!Exhausted) /\ (T!GeneratorFails <=> S!GeneratorFails)
    BY DEF T!Exhausted, S!Exhausted, T!GeneratorFails, S!GeneratorFails
  <1>4. T!PutError <=> S!PutError
    BY DEF T!PutError, S!PutError, T!HasRoom, S!HasRoom
  <1>5. T!PutDone <=> S!PutDone
    BY DEF T!PutDone, S!PutDone, T!HasRoom, S!HasRoom, T!EndMarker, S!EndMarker
  <1>6. (T!Get <=> S!Get) /\ (T!Send <=> S!Send)
    BY DEF T!Get, S!Get, T!Send, S!Send, T!EndMarker, S!EndMarker
  <1>7. (T!Timeout <=> S!Timeout) /\ (T!Disconnect <=> S!Disconnect)
    BY DEF T!Timeout, S!Timeout, T!Disconnect, S!Disconnect
  <1>8. (T!SendFails <=> S!SendFails) /\ (T!Joined <=> S!Joined)
    BY DEF T!SendFails, S!SendFails, T!Joined, S!Joined
  <1>9. (T!Request <=> S!Request) /\ (T!Leave <=> S!Leave)
    BY DEF T!Request, S!Request, T!Leave, S!Leave, T!EndMarker, S!EndMarker
  <1>10. T!Next <=> S!Next
    BY <1>1, <1>2, <1>3, <1>4, <1>5, <1>6, <1>7, <1>8, <1>9
    DEF T!Next, S!Next, T!Generate, S!Generate, T!Drain, S!Drain
  <1>11. UNCHANGED streamVars => UNCHANGED S!vars
    BY DEF streamVars, S!vars
  <1> QED BY <1>10, <1>11

LEMMA SameTypes == T!StreamAssumption =>
                     /\ T!Init => S!Typed
                     /\ S!Typed /\ (T!Next \/ UNCHANGED streamVars) => S!Typed'
                     /\ S!Typed => T!TypeOK
  <1>1. T!StreamAssumption => S!StreamAssumption
    BY DEF T!StreamAssumption, S!StreamAssumption
  <1>2. T!Init => S!Init
    BY DEF T!Init, S!Init, T!EndMarker, S!EndMarker
  <1>3. S!Typed => T!TypeOK
    BY DEF S!Typed, S!TypeOK, T!TypeOK, S!GenPhases, T!GenPhases
  <1> QED BY <1>1, <1>2, <1>3, SameSteps, S!InitTyped, S!NextTyped

(* websocket_stream.py.  Tokens reach the client once and in order, and the*)
(* end marker once, last, whatever is cancelled, fails or times out.       *)
THEOREM TokensTheorem == MCSpec => []TokensArrive
  <1>1. MCInit => S!SInv
    BY SameStart, ServingAssumption DEF MCInit
  <1>2. S!SInv /\ [MCNext]_<<part, vars, streamVars>> => S!SInv'
    BY SameSteps, S!NextS DEF MCNext
  <1>3. S!SInv => TokensArrive
    <2>1. S!SInv => S!InOrder /\ S!DoneIsLast
      BY S!SInvSuffices
    <2> QED BY <2>1 DEF TokensArrive, T!InOrder, S!InOrder, T!DoneIsLast, S!DoneIsLast,
         T!InFlight, S!InFlight, T!Expected, S!Expected, T!EndMarker, S!EndMarker,
         T!Numbers, S!Numbers
  <1> QED BY <1>1, <1>2, <1>3, PTL DEF MCSpec

(* The two parts keep their types, each while the other one runs.          *)
THEOREM ServingTypes == MCSpec => []ServingTypeOK
  <1> DEFINE Inv == part \in Parts /\ GatewayInv /\ S!Typed
  <1>1. MCInit => Inv
    BY InitQueue, InitLedger, InitTimed, SameTypes, ServingAssumption DEF MCInit, GatewayInv
  <1>2. Inv /\ [MCNext]_<<part, vars, streamVars>> => Inv'
    <2> SUFFICES ASSUME Inv, [MCNext]_<<part, vars, streamVars>> PROVE Inv'
      OBVIOUS
    <2>1. part' = part /\ [Next]_vars /\ (T!Next \/ UNCHANGED streamVars)
      BY DEF MCNext
    <2>2. GatewayInv'
      BY <2>1, NextQueue, NextLedger, NextTimed DEF GatewayInv
    <2>3. S!Typed'
      BY <2>1, SameTypes, ServingAssumption
    <2> QED BY <2>1, <2>2, <2>3
  <1>3. Inv => ServingTypeOK
    BY TypesSuffice, SameTypes, ServingAssumption DEF ServingTypeOK
  <1> QED BY <1>1, <1>2, <1>3, PTL DEF MCSpec
=============================================================================
