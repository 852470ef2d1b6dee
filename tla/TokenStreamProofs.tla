---------------------------- MODULE TokenStreamProofs ----------------------------
(***************************************************************************)
(* The order of a WebSocket stream, for every queue size and every length  *)
(* of the answer, whatever fails.                                          *)
(***************************************************************************)
EXTENDS TokenStream, SequenceTheorems, TLAPS

Pipe == delivered \o InFlight

Shape ==
  /\ queue \in Seq(Nat) /\ delivered \in Seq(Nat)
  /\ produced \in Nat /\ frame \in Nat /\ MaxTokens \in Nat
  /\ snd \in {"get", "send", "ended"} /\ gen \in GenPhases
  /\ cancelled => snd = "ended"

(* Until its sender ends, the whole stream is in the pipe, in order.       *)
InPipe == snd # "ended" => Pipe = Expected

(* Afterwards the client has seen the end only if everything came before.  *)
SeenEnd ==
  \A i \in DOMAIN delivered : delivered[i] = EndMarker =>
    gen = "ended" /\ delivered = Append(Numbers(produced), EndMarker)

SInv == Shape /\ InPipe /\ SeenEnd

-----------------------------------------------------------------------------
LEMMA NumbersType ==
  ASSUME NEW n \in Nat
  PROVE  /\ Numbers(n) \in Seq(Nat) /\ Len(Numbers(n)) = n
         /\ \A i \in 1..n : Numbers(n)[i] = i
         /\ Append(Numbers(n), n + 1) = Numbers(n + 1)
  <1>1. Numbers(n) \in Seq(Nat) /\ Len(Numbers(n)) = n /\ \A i \in 1..n : Numbers(n)[i] = i
    BY DEF Numbers
  <1>2. Append(Numbers(n), n + 1) = Numbers(n + 1)
    BY <1>1 DEF Numbers
  <1> QED BY <1>1, <1>2

LEMMA AppendOne ==
  ASSUME NEW s \in Seq(Nat), NEW x \in Nat
  PROVE  Append(s, x) = s \o <<x>>
  OBVIOUS

LEMMA ConcatAssoc ==
  ASSUME NEW s \in Seq(Nat), NEW t \in Seq(Nat), NEW u \in Seq(Nat)
  PROVE  (s \o t) \o u = s \o (t \o u)
  <1>1. s \o t \in Seq(Nat) /\ t \o u \in Seq(Nat) /\ Len(s \o t) = Len(s) + Len(t)
        /\ Len(t \o u) = Len(t) + Len(u)
    OBVIOUS
  <1> DEFINE x == (s \o t) \o u
             y == s \o (t \o u)
  <1>2. x \in Seq(Nat) /\ y \in Seq(Nat) /\ Len(x) = Len(y)
    BY <1>1
  <1>3. \A i \in 1..Len(x) : x[i] = y[i]
    BY <1>1
  <1> HIDE DEF x, y
  <1>4. x = y
    BY <1>2, <1>3, SeqEqual, Zenon
  <1> QED BY <1>4, Zenon DEF x, y

LEMMA ConcatType ==
  ASSUME NEW s \in Seq(Nat), NEW t \in Seq(Nat)
  PROVE  s \o t \in Seq(Nat) /\ Len(s \o t) = Len(s) + Len(t)
  OBVIOUS

LEMMA ConcatEmpty ==
  ASSUME NEW s \in Seq(Nat)
  PROVE  s \o <<>> = s /\ <<>> \o s = s
  OBVIOUS

(* The same with concatenation unexpanded.                                 *)
Cat(s, t) == s \o t

LEMMA CatAssoc ==
  /\ \A s, t \in Seq(Nat) : Cat(s, t) \in Seq(Nat)
  /\ \A s, t, u \in Seq(Nat) : Cat(Cat(s, t), u) = Cat(s, Cat(t, u))
  <1>1. ASSUME NEW s \in Seq(Nat), NEW t \in Seq(Nat) PROVE Cat(s, t) \in Seq(Nat)
    BY DEF Cat
  <1>2. ASSUME NEW s \in Seq(Nat), NEW t \in Seq(Nat), NEW u \in Seq(Nat)
        PROVE  Cat(Cat(s, t), u) = Cat(s, Cat(t, u))
    <2>1. (s \o t) \o u = s \o (t \o u)
      BY ConcatAssoc
    <2> QED BY <2>1, Zenon DEF Cat
  <1> QED BY <1>1, <1>2, Zenon

LEMMA ConcatOne ==
  ASSUME NEW d \in Seq(Nat), NEW q \in Seq(Nat), NEW x \in Nat
  PROVE  /\ d \o (q \o <<x>>) = (d \o q) \o <<x>>
         /\ Append(d \o q, x) = (d \o q) \o <<x>>
  <1>1. <<x>> \in Seq(Nat) /\ d \o q \in Seq(Nat)
    OBVIOUS
  <1>2. Cat(Cat(d, q), <<x>>) = Cat(d, Cat(q, <<x>>))
    <2> DEFINE y == <<x>>
    <2>1. y \in Seq(Nat)
      BY <1>1
    <2> HIDE DEF y
    <2>2. Cat(Cat(d, q), y) = Cat(d, Cat(q, y))
      BY <2>1, CatAssoc
    <2> QED BY <2>2, Zenon DEF y
  <1>3. Append(d \o q, x) = (d \o q) \o <<x>>
    BY <1>1, AppendOne, Zenon
  <1> QED BY <1>2, <1>3, Zenon DEF Cat

LEMMA ConcatFour ==
  ASSUME NEW d \in Seq(Nat), NEW h \in Seq(Nat), NEW q \in Seq(Nat), NEW w \in Seq(Nat)
  PROVE  Cat(d, Cat(Cat(h, q), w)) = Cat(Cat(Cat(d, h), q), w)
  <1>1. Cat(h, q) \in Seq(Nat)
    BY CatAssoc
  <1>2. Cat(Cat(d, Cat(h, q)), w) = Cat(d, Cat(Cat(h, q), w))
    BY <1>1, CatAssoc
  <1>3. Cat(Cat(d, h), q) = Cat(d, Cat(h, q))
    BY CatAssoc
  <1> QED BY <1>2, <1>3

(* The end marker is no number, so it lies nowhere but at the end.         *)
LEMMA EndIsLast ==
  ASSUME Shape, NEW d \in Seq(Nat), NEW u \in Seq(Nat), (d \o <<EndMarker>>) \o u = Expected
  PROVE  gen = "ended" /\ d \o <<EndMarker>> = Append(Numbers(produced), EndMarker)
  <1> DEFINE w == (d \o <<EndMarker>>) \o u
             k == Len(d) + 1
  <1>1. w[k] = 0 /\ k \in 1..Len(w) /\ Len(w) = k + Len(u) /\ k \in Nat /\ Len(u) \in Nat
    BY DEF EndMarker
  <1>2. /\ Numbers(produced) \in Seq(Nat) /\ Len(Numbers(produced)) = produced
        /\ \A i \in 1..produced : Numbers(produced)[i] = i /\ produced \in Nat
    BY NumbersType DEF Shape
  <1>3. gen = "ended"
    BY <1>1, <1>2 DEF Expected
  <1>0. w = Append(Numbers(produced), EndMarker)
    BY <1>3, Zenon DEF Expected
  <1> HIDE DEF w, k
  <1>4. /\ w = Append(Numbers(produced), EndMarker) /\ Len(w) = produced + 1
        /\ \A i \in 1..produced : w[i] = i
    BY <1>0, <1>2 DEF EndMarker
  <1>5. k = produced + 1
    BY <1>1, <1>2, <1>4
  <1> USE DEF w, k
  <1>6. Len(u) = 0 /\ u = <<>>
    BY <1>1, <1>4, <1>5
  <1>7. d \o <<EndMarker>> \in Seq(Nat)
    BY DEF EndMarker
  <1>8. w = d \o <<EndMarker>>
    BY <1>6, <1>7, ConcatEmpty
  <1> QED BY <1>3, <1>4, <1>8

-----------------------------------------------------------------------------
LEMMA InitS == StreamAssumption /\ Init => SInv
  BY DEF StreamAssumption, Init, SInv, Shape, InPipe, SeenEnd, GenPhases, EndMarker

LEMMA ShapeSteps == Shape /\ [Next]_vars => Shape'
  <1> SUFFICES ASSUME Shape, [Next]_vars PROVE Shape'
    OBVIOUS
  <1> USE DEF Shape, GenPhases, EndMarker
  <1>1. CASE Request
    BY <1>1 DEF Request
  <1>2. CASE Generate
    <2>1. CASE Yield
      <3>1. /\ UNCHANGED <<delivered, frame, snd, cancelled>> /\ produced' = produced + 1
            /\ gen' \in {"run", "put"} /\ queue' \in {queue, Append(queue, produced')}
        BY <2>1 DEF Yield
      <3>2. Append(queue, produced') \in Seq(Nat)
        BY <3>1
      <3>3. queue' \in Seq(Nat)
        BY <3>1, <3>2, Zenon
      <3> QED BY <3>1, <3>3
    <2>2. CASE PutToken \/ PutError \/ PutDone
      <3>1. /\ UNCHANGED <<delivered, frame, snd, cancelled, produced>>
            /\ gen' \in {"run", "end", "ended"}
            /\ queue' \in {Append(queue, produced), Append(queue, 0)}
        BY <2>2 DEF PutToken, PutError, PutDone
      <3>2. Append(queue, produced) \in Seq(Nat) /\ Append(queue, 0) \in Seq(Nat)
        OBVIOUS
      <3> QED BY <3>1, <3>2
    <2>3. CASE Exhausted \/ GeneratorFails
      BY <2>3 DEF Exhausted, GeneratorFails
    <2> QED BY <1>2, <2>1, <2>2, <2>3 DEF Generate
  <1>3. CASE Get
    BY <1>3 DEF Get
  <1>4. CASE Send
    BY <1>4 DEF Send
  <1>5. CASE Timeout \/ Disconnect \/ SendFails \/ Joined \/ Leave \/ UNCHANGED vars
    BY <1>5 DEF Timeout, Disconnect, SendFails, Joined, Leave, vars
  <1> QED BY <1>1, <1>2, <1>3, <1>4, <1>5 DEF Next, Drain

(* Bits of the pipe behind what was delivered.                             *)
Held == IF snd = "send" THEN <<frame>> ELSE <<>>
Waiting == IF gen \in {"put", "puterr"} THEN <<produced>> ELSE <<>>

LEMMA NextS == SInv /\ [Next]_vars => SInv'
  <1> SUFFICES ASSUME SInv, [Next]_vars PROVE SInv'
    OBVIOUS
  <1>1. Shape /\ Shape'
    BY ShapeSteps DEF SInv
  <1> DEFINE D == delivered \o Held
  <1>2. /\ Held \in Seq(Nat) /\ Waiting \in Seq(Nat) /\ queue \in Seq(Nat)
        /\ delivered \in Seq(Nat) /\ D \in Seq(Nat) /\ Pipe = (D \o queue) \o Waiting
    <2>1. Held \in Seq(Nat) /\ Waiting \in Seq(Nat)
      BY <1>1 DEF Shape, Held, Waiting
    <2>2. queue \in Seq(Nat) /\ delivered \in Seq(Nat)
      BY <1>1 DEF Shape
    <2>3. Pipe = delivered \o ((Held \o queue) \o Waiting)
      BY Zenon DEF Pipe, InFlight, Held, Waiting
    <2> HIDE DEF Held, Waiting, Pipe
    <2>4. delivered \o Held \in Seq(Nat)
      BY <2>1, <2>2, ConcatType
    <2>5. Cat(delivered, Cat(Cat(Held, queue), Waiting))
            = Cat(Cat(Cat(delivered, Held), queue), Waiting)
      BY <2>1, <2>2, ConcatFour
    <2>6. Pipe = (D \o queue) \o Waiting
      BY <2>3, <2>5, Zenon DEF Cat
    <2> QED BY <2>1, <2>2, <2>4, <2>6
  <1>3. /\ Held' \in Seq(Nat) /\ Waiting' \in Seq(Nat) /\ queue' \in Seq(Nat)
        /\ delivered' \in Seq(Nat) /\ D' \in Seq(Nat) /\ Pipe' = (D' \o queue') \o Waiting'
    <2>1. Held' \in Seq(Nat) /\ Waiting' \in Seq(Nat)
      BY <1>1 DEF Shape, Held, Waiting
    <2>2. queue' \in Seq(Nat) /\ delivered' \in Seq(Nat)
      BY <1>1 DEF Shape
    <2>3. Pipe' = delivered' \o ((Held' \o queue') \o Waiting')
      BY Zenon DEF Pipe, InFlight, Held, Waiting
    <2> HIDE DEF Held, Waiting, Pipe
    <2>4. delivered' \o Held' \in Seq(Nat)
      BY <2>1, <2>2, ConcatType
    <2>5. Cat(delivered', Cat(Cat(Held', queue'), Waiting'))
            = Cat(Cat(Cat(delivered', Held'), queue'), Waiting')
      BY <2>1, <2>2, ConcatFour
    <2>6. Pipe' = (D' \o queue') \o Waiting'
      BY <2>3, <2>5, Zenon DEF Cat
    <2> QED BY <2>1, <2>2, <2>4, <2>6
  <1>4. produced \in Nat /\ produced' \in Nat
    BY <1>1 DEF Shape
  <1>5. CASE Request
    <2>1. Pipe' = <<>> /\ Expected' = <<>>
      BY <1>5 DEF Request, Pipe, InFlight, Expected, Numbers
    <2>2. SeenEnd'
      BY <1>5 DEF Request, SeenEnd
    <2> QED BY <1>1, <2>1, <2>2 DEF SInv, InPipe
  <1>6. CASE Yield
    <2>1. gen = "run" /\ delivered' = delivered /\ snd' = snd /\ Held' = Held
          /\ produced' = produced + 1 /\ gen' \in {"run", "put"} /\ frame' = frame
          /\ cancelled' = cancelled
      BY <1>6 DEF Yield, Held
    <2>2. SeenEnd'
      BY <2>1 DEF SInv, SeenEnd
    <2>3. ASSUME snd # "ended" PROVE Pipe' = Expected'
      <3>1. Pipe = Numbers(produced) /\ Pipe = D \o queue
        <4>1. Waiting = <<>> /\ D \o queue \in Seq(Nat)
          BY <2>1, <1>2, ConcatType DEF Waiting
        <4>2. Pipe = D \o queue
          BY <4>1, <1>2, ConcatEmpty
        <4>3. Pipe = Expected
          BY <2>3 DEF SInv, InPipe
        <4>4. Expected = Numbers(produced)
          BY <2>1 DEF Expected
        <4> QED BY <4>2, <4>3, <4>4
      <3>2. Expected' = Append(Pipe, produced')
        BY <3>1, <2>1, <1>4, NumbersType DEF Expected
      <3>3. ~ cancelled
        BY <1>1, <2>3 DEF Shape
      <3>4. CASE queue' = Append(queue, produced') /\ gen' = gen
        <4>1. Pipe' = D \o (queue \o <<produced'>>)
          BY <3>4, <2>1, <1>2, <1>3, <1>4, AppendOne, ConcatEmpty, SMTT(30) DEF Waiting
        <4>2. <<produced'>> \in Seq(Nat) /\ Append(Pipe, produced') = Pipe \o <<produced'>>
          BY <3>1, <1>2, <1>4, AppendOne, ConcatType
        <4>3. D \o (queue \o <<produced'>>) = (D \o queue) \o <<produced'>>
          <5> HIDE DEF D
          <5> QED BY <1>4, <1>2, ConcatOne
        <4> QED BY <4>1, <4>2, <4>3, <3>1, <3>2, Zenon
      <3>5. CASE queue' = queue /\ gen' = "put"
        <4>1. Pipe' = (D \o queue) \o <<produced'>>
          BY <3>5, <2>1, <1>3 DEF Waiting
        <4>2. Append(D \o queue, produced') = (D \o queue) \o <<produced'>>
          <5> HIDE DEF D
          <5> QED BY <1>4, <1>2, ConcatOne
        <4> QED BY <4>1, <4>2, <3>1, <3>2, Zenon
      <3> QED BY <3>3, <3>4, <3>5, <1>6, <2>1 DEF Yield
    <2> QED BY <1>1, <2>1, <2>2, <2>3 DEF SInv, InPipe
  <1>7. CASE PutToken \/ PutError
    <2>1. /\ gen \in {"put", "puterr"} /\ gen' \in {"run", "end"}
          /\ queue' = Append(queue, produced)
          /\ UNCHANGED <<delivered, snd, frame, produced, cancelled>> /\ Held' = Held
      BY <1>7 DEF PutToken, PutError, Held
    <2>2. SeenEnd'
      BY <2>1 DEF SInv, SeenEnd
    <2>3. Waiting' = <<>> /\ D' = D /\ queue' = queue \o <<produced>>
      BY <2>1, <1>2, <1>4, AppendOne DEF Waiting
    <2>4. D' \o queue' \in Seq(Nat)
      BY <1>3, ConcatType
    <2>5. Pipe' = D \o (queue \o <<produced>>)
      BY <2>3, <2>4, <1>3, ConcatEmpty, Zenon
    <2>6. Pipe = (D \o queue) \o <<produced>>
      BY <2>1, <1>2 DEF Waiting
    <2>7. Pipe' = Pipe
      <3>1. <<produced>> \in Seq(Nat)
        BY <1>4
      <3>2. (D \o queue) \o <<produced>> = D \o (queue \o <<produced>>)
        <4> HIDE DEF D
        <4> QED BY <1>4, <1>2, ConcatOne
      <3> QED BY <2>5, <2>6, <3>2, Zenon
    <2>8. Expected' = Expected
      BY <2>1 DEF Expected
    <2> QED BY <1>1, <2>1, <2>2, <2>7, <2>8 DEF SInv, InPipe
  <1>8. CASE Exhausted
    <2>1. Pipe' = Pipe /\ Expected' = Expected /\ snd' = snd
      BY <1>8 DEF Exhausted, Pipe, InFlight, Expected
    <2>2. SeenEnd'
      BY <1>8 DEF Exhausted, SInv, SeenEnd
    <2> QED BY <1>1, <2>1, <2>2 DEF SInv, InPipe
  <1>9. CASE GeneratorFails
    <2>1. gen = "run" /\ UNCHANGED <<delivered, snd, frame, queue, cancelled>> /\ Held' = Held
      BY <1>9 DEF GeneratorFails, Held
    <2>2. SeenEnd'
      BY <2>1 DEF SInv, SeenEnd
    <2>3. ASSUME snd # "ended" PROVE Pipe' = Expected'
      <3>1. Pipe = Numbers(produced) /\ Pipe = D \o queue
        BY <2>1, <2>3, <1>2, ConcatEmpty DEF SInv, InPipe, Expected, Waiting
      <3>2. gen' = "puterr" /\ produced' = produced + 1
        BY <1>9, <1>1, <2>3 DEF GeneratorFails, Shape
      <3>3. Expected' = Append(Pipe, produced')
        BY <3>1, <3>2, <1>4, NumbersType DEF Expected
      <3>4. Pipe' = (D \o queue) \o <<produced'>>
        BY <3>2, <2>1, <1>3 DEF Waiting
      <3>5. Append(D \o queue, produced') = (D \o queue) \o <<produced'>>
        <4> HIDE DEF D
        <4> QED BY <1>4, <1>2, ConcatOne
      <3> QED BY <3>1, <3>3, <3>4, <3>5, Zenon
    <2> QED BY <1>1, <2>1, <2>2, <2>3 DEF SInv, InPipe
  <1>10. CASE PutDone
    <2>1. /\ gen = "end" /\ gen' = "ended" /\ queue' = Append(queue, EndMarker)
          /\ UNCHANGED <<delivered, snd, frame, produced>> /\ Held' = Held
      BY <1>10 DEF PutDone, Held
    <2>2. SeenEnd'
      BY <2>1 DEF SInv, SeenEnd
    <2>3. EndMarker \in Nat
      BY DEF EndMarker
    <2>4. Pipe' = D \o (queue \o <<EndMarker>>)
      BY <2>1, <2>3, <1>2, <1>3, AppendOne, ConcatEmpty, SMTT(30) DEF Waiting
    <2>5. Pipe = D \o queue
      BY <2>1, <1>2, ConcatEmpty DEF Waiting
    <2>6. <<EndMarker>> \in Seq(Nat) /\ Pipe \in Seq(Nat)
      BY <2>3, <2>5, <1>2, ConcatType
    <2>7. D \o (queue \o <<EndMarker>>) = (D \o queue) \o <<EndMarker>>
      <3>1. queue \in Seq(Nat) /\ D \in Seq(Nat) /\ <<EndMarker>> \in Seq(Nat)
        BY <2>6, <1>2
      <3> HIDE DEF D
      <3> QED BY <3>1, ConcatAssoc
    <2>8. Pipe' = Append(Pipe, EndMarker)
      BY <2>3, <2>4, <2>5, <2>6, <2>7, AppendOne, Zenon
    <2>9. snd # "ended" => Expected' = Append(Pipe, EndMarker)
      BY <2>1 DEF SInv, InPipe, Expected
    <2> QED BY <1>1, <2>1, <2>2, <2>8, <2>9 DEF SInv, InPipe
  <1>11. CASE Get
    <2>1. /\ snd = "get" /\ snd' = "send" /\ queue # <<>>
          /\ frame' = Head(queue) /\ queue' = Tail(queue)
          /\ UNCHANGED <<delivered, gen, produced>> /\ Waiting' = Waiting
      BY <1>11 DEF Get, Waiting
    <2>2. queue = <<frame'>> \o queue' /\ frame' \in Nat
      BY <2>1, <1>2
    <2>3. D = delivered /\ D' = delivered \o <<frame'>>
      BY <2>1, <1>2, ConcatEmpty DEF Held
    <2>4. <<frame'>> \in Seq(Nat)
      BY <2>2
    <2>5. D' \o queue' = D \o queue
      <3>1. (delivered \o <<frame'>>) \o queue' = delivered \o (<<frame'>> \o queue')
        <4>1. <<frame'>> \in Seq(Nat) /\ queue' \in Seq(Nat) /\ delivered \in Seq(Nat)
          BY <2>4, <1>2, <1>3
        <4> QED BY <4>1, ConcatAssoc
      <3> QED BY <3>1, <2>2, <2>3, Zenon
    <2>6. Pipe' = Pipe /\ Expected' = Expected
      BY <2>1, <2>5, <1>2, <1>3 DEF Expected
    <2>7. SeenEnd'
      BY <2>1 DEF SInv, SeenEnd
    <2> QED BY <1>1, <2>1, <2>6, <2>7 DEF SInv, InPipe
  <1>12. CASE Send
    <2>1. /\ snd = "send" /\ snd' \in {"get", "ended"} /\ delivered' = Append(delivered, frame)
          /\ (frame = EndMarker => snd' = "ended")
          /\ UNCHANGED <<queue, gen, produced, frame>> /\ Waiting' = Waiting
      BY <1>12 DEF Send, Waiting
    <2>2. frame \in Nat
      BY <1>1 DEF Shape
    <2>3. delivered' = D /\ D = delivered \o <<frame>> /\ D' = D
      BY <2>1, <2>2, <1>2, <1>3, AppendOne, ConcatEmpty DEF Held
    <2>4. Pipe' = Pipe /\ Pipe = Expected /\ Expected' = Expected
      BY <2>1, <2>3, <1>2, <1>3 DEF SInv, InPipe, Expected
    <2>5. CASE frame = EndMarker
      <3>1. (D \o queue) \o Waiting = D \o (queue \o Waiting)
        BY <1>2, ConcatAssoc, Zenon
      <3>2. (delivered \o <<EndMarker>>) \o (queue \o Waiting) = Expected
        BY <3>1, <2>3, <2>4, <2>5, <1>2, Zenon
      <3>3. queue \o Waiting \in Seq(Nat)
        BY <1>2
      <3>4. gen = "ended" /\ delivered' = Append(Numbers(produced), EndMarker)
        BY <3>2, <3>3, <2>3, <2>5, <1>2, <1>1, EndIsLast
      <3> QED BY <3>4, <2>1, <2>4, <1>1 DEF SInv, InPipe, SeenEnd
    <2>6. CASE frame # EndMarker
      <3>1. ASSUME NEW i \in DOMAIN delivered', delivered'[i] = EndMarker
            PROVE  FALSE
        <4>1. i \in DOMAIN delivered /\ delivered[i] = EndMarker
          BY <3>1, <2>1, <2>2, <2>6, <1>2
        <4>2. gen = "ended" /\ delivered = Append(Numbers(produced), EndMarker)
          BY <4>1 DEF SInv, SeenEnd
        <4>3. Numbers(produced) \in Seq(Nat) /\ Len(Numbers(produced)) = produced
          BY <1>4, NumbersType
        <4>4. Pipe = Append(Numbers(produced), EndMarker)
          BY <4>2, <2>4, Zenon DEF Expected
        <4>5. Len(Pipe) = produced + 1 /\ Len(delivered) = produced + 1
          BY <4>3, <4>4, <4>2 DEF EndMarker
        <4>6. Len(Pipe) = Len(delivered) + 1 + Len(queue) + Len(Waiting)
          BY <2>2, <2>3, <1>2
        <4> QED BY <4>5, <4>6, <1>2, <1>4
      <3> QED BY <3>1, <2>1, <2>4, <1>1 DEF SInv, InPipe, SeenEnd
    <2> QED BY <2>5, <2>6
  <1>13. CASE Timeout \/ Disconnect \/ SendFails
    BY <1>13, <1>1 DEF Timeout, Disconnect, SendFails, SInv, InPipe, SeenEnd
  <1>14. CASE Joined \/ Leave \/ UNCHANGED vars
    BY <1>14, <1>1 DEF Joined, Leave, vars, SInv, InPipe, SeenEnd, Pipe, InFlight, Expected
  <1> QED
    BY <1>5, <1>6, <1>7, <1>8, <1>9, <1>10, <1>11, <1>12, <1>13, <1>14
    DEF Next, Generate, Drain

LEMMA SInvSuffices == SInv => InOrder /\ DoneIsLast
  <1>1. SInv => InOrder
    BY DEF SInv, InPipe, InOrder, Pipe
  <1>2. SInv => DoneIsLast
    <2> SUFFICES ASSUME SInv, NEW i \in DOMAIN delivered, delivered[i] = EndMarker
                 PROVE  /\ i = Len(delivered)
                        /\ delivered = Append(Numbers(produced), EndMarker)
      BY DEF DoneIsLast
    <2>1. delivered = Append(Numbers(produced), EndMarker) /\ produced \in Nat
      BY DEF SInv, SeenEnd, Shape
    <2>2. /\ Len(delivered) = produced + 1 /\ i \in 1..(produced + 1)
          /\ (i # produced + 1 => delivered[i] = i)
      <3>1. /\ Numbers(produced) \in Seq(Nat) /\ Len(Numbers(produced)) = produced
            /\ \A j \in 1..produced : Numbers(produced)[j] = j
        BY <2>1, NumbersType
      <3> QED BY <2>1, <3>1 DEF EndMarker
    <2> QED BY <2>1, <2>2 DEF EndMarker
  <1> QED BY <1>1, <1>2

(* The invariant, from which both theorems follow.                         *)
THEOREM StreamInvariant == StreamAssumption /\ Spec => []SInv
  BY InitS, NextS, PTL DEF Spec

(* websocket_stream.py:26-88.  Whatever is cancelled, fails or times out,  *)
(* and whatever the size of the queue: until then the stream is in the     *)
(* pipe, every token once and in order.                                    *)
THEOREM TokensInOrder == StreamAssumption /\ Spec => []InOrder
  BY SInvSuffices, StreamInvariant, PTL

(* A client that sees "done" has got every token, and gets nothing more.   *)
THEOREM EndComesLast == StreamAssumption /\ Spec => []DoneIsLast
  BY SInvSuffices, StreamInvariant, PTL

-----------------------------------------------------------------------------
(* A token is counted as sent once it is put, and only the text of an error*)
(* comes after the last token.                                             *)
Counts == /\ gen \in {"run", "put"} => produced <= MaxTokens
          /\ sent <= produced
          /\ gen \in {"put", "puterr"} => sent < produced
Typed == TypeOK /\ Counts

LEMMA InitTyped == StreamAssumption /\ Init => Typed
  <1> SUFFICES ASSUME StreamAssumption, Init PROVE Typed
    OBVIOUS
  <1>1. queue \in Seq(0..MaxTokens + 1) /\ delivered \in Seq(0..MaxTokens + 1)
    BY DEF Init
  <1>2. Len(queue) = 0 /\ 0 <= QueueSize
    BY DEF Init, StreamAssumption
  <1>3. /\ session \in {"receiving", "serving", "closed"} /\ cancelled \in BOOLEAN
        /\ sent = 0 /\ produced = 0 /\ frame = 0 /\ gen = "ended" /\ snd = "ended"
    BY DEF Init, EndMarker
  <1>4. MaxTokens \in Nat
    BY DEF StreamAssumption
  <1>5. TypeOK
    BY <1>1, <1>2, <1>3, <1>4 DEF TypeOK, GenPhases
  <1> QED
    BY <1>3, <1>5 DEF Typed, Counts

LEMMA RequestTyped == ASSUME StreamAssumption, Request PROVE Typed'
  <1>1. queue' \in Seq(0..MaxTokens + 1) /\ delivered' \in Seq(0..MaxTokens + 1)
    BY DEF Request
  <1>2. Len(queue') = 0 /\ 0 <= QueueSize
    BY DEF Request, StreamAssumption
  <1>3. /\ session' \in {"receiving", "serving", "closed"} /\ cancelled' \in BOOLEAN
        /\ sent' = 0 /\ produced' = 0 /\ frame' = 0 /\ gen' = "run" /\ snd' = "get"
    BY DEF Request, EndMarker
  <1>4. MaxTokens \in Nat
    BY DEF StreamAssumption
  <1>5. TypeOK'
    BY <1>1, <1>2, <1>3, <1>4 DEF TypeOK, GenPhases
  <1> QED BY <1>3, <1>4, <1>5 DEF Typed, Counts

LEMMA NextTyped == StreamAssumption /\ Typed /\ [Next]_vars => Typed'
  <1> SUFFICES ASSUME StreamAssumption, Typed, [Next]_vars PROVE Typed'
    OBVIOUS
  <1> USE DEF StreamAssumption, Typed, TypeOK, Counts, GenPhases, EndMarker, HasRoom
  <1>1. CASE Request \/ Leave \/ Joined
    <2>1. CASE Request
      BY <2>1, RequestTyped
    <2> QED BY <1>1, <2>1 DEF Leave, Joined
  <1>2. CASE Yield
    <2>1. /\ produced' = produced + 1 /\ produced' \in 0..MaxTokens + 1 /\ produced' <= MaxTokens
          /\ UNCHANGED <<session, cancelled, snd, frame, delivered>>
      BY <1>2 DEF Yield
    <2>2. CASE UNCHANGED <<queue, sent, gen>>
      BY <1>2, <2>1, <2>2 DEF Yield
    <2>3. CASE HasRoom /\ queue' = Append(queue, produced') /\ sent' = sent + 1 /\ gen' = gen
      <3>1. queue' \in Seq(0..MaxTokens + 1) /\ Len(queue') <= QueueSize
        BY <2>1, <2>3
      <3> QED BY <1>2, <2>1, <2>3, <3>1 DEF Yield
    <2>4. CASE gen' = "put" /\ UNCHANGED <<queue, sent>>
      BY <1>2, <2>1, <2>4
    <2> QED BY <1>2, <2>2, <2>3, <2>4 DEF Yield
  <1>3. CASE PutToken
    BY <1>3 DEF PutToken
  <1>4. CASE Exhausted \/ GeneratorFails
    BY <1>4 DEF Exhausted, GeneratorFails
  <1>5. CASE PutError
    BY <1>5 DEF PutError
  <1>6. CASE PutDone
    BY <1>6 DEF PutDone
  <1>7. CASE Get
    BY <1>7 DEF Get
  <1>8. CASE Send
    BY <1>8 DEF Send
  <1>9. CASE Timeout \/ Disconnect \/ SendFails
    BY <1>9 DEF Timeout, Disconnect, SendFails
  <1>10. CASE UNCHANGED vars
    BY <1>10 DEF vars
  <1> QED
    BY <1>1, <1>2, <1>3, <1>4, <1>5, <1>6, <1>7, <1>8, <1>9, <1>10
    DEF Next, Generate, Drain

(* A stream keeps its types: the queue is never longer than it may be.     *)
THEOREM StreamTypes == ASSUME StreamAssumption PROVE Spec => []TypeOK
  <1>1. Init => Typed
    BY InitTyped
  <1>2. Typed /\ [Next]_vars => Typed'
    BY NextTyped
  <1>3. Typed => TypeOK
    BY DEF Typed
  <1> QED BY <1>1, <1>2, <1>3, PTL DEF Spec
=============================================================================
