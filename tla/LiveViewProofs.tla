---- MODULE LiveViewProofs ----
(***************************************************************************)
(* Proofs about EventBus and LiveView, for any number of connections, any  *)
(* queue size and any bounds: the order in which events reach a client,    *)
(* and the data a dashboard shows.                                         *)
(***************************************************************************)
EXTENDS LiveView, SequenceTheorems, TLAPS

-----------------------------------------------------------------------------
(* One connection's stream, as a fact about sequences *)

\* The events on their way to one client: w sent and not received, x in
\* send_json if the handler is at stage s = "send", q queued.  They are in the
\* order of publication, above the last event lo the client has seen and not
\* above the newest event hi, which ends the queue unless that is empty.
Stream(w, s, x, q, lo, hi) ==
    /\ \A i, j \in 1..Len(w) : i < j => w[i] < w[j]
    /\ \A i, j \in 1..Len(q) : i < j => q[i] < q[j]
    /\ \A i \in 1..Len(w), j \in 1..Len(q) : w[i] < q[j]
    /\ \A i \in 1..Len(w) : lo < w[i] /\ w[i] <= hi
    /\ \A j \in 1..Len(q) : lo < q[j] /\ q[j] <= hi
    /\ s = "send" => /\ lo < x /\ x <= hi
                     /\ \A i \in 1..Len(w) : w[i] < x
                     /\ \A j \in 1..Len(q) : x < q[j]
    /\ q # <<>> => q[Len(q)] = hi

\* events.py, publish: a full queue loses its oldest event for the new one,
\* and nothing else moves.
LEMMA PutProperties ==
    ASSUME NEW q \in Seq(Nat), NEW e \in Nat, Len(q) <= MaxSize
    PROVE  /\ Put(q, e) \in Seq(Nat)
           /\ Len(Put(q, e)) \in 1..MaxSize
           /\ Put(q, e)[Len(Put(q, e))] = e
           /\ \E d \in {0, 1} :
                /\ Len(Put(q, e)) = Len(q) - d + 1
                /\ \A i \in 1..(Len(q) - d) : Put(q, e)[i] = q[i + d]
<1>0. Len(q) \in Nat /\ MaxSize \in Nat \ {0}
  BY BusAssumption, LenProperties
<1>1. CASE Len(q) < MaxSize
  <2>1. Put(q, e) = Append(q, e)
    BY <1>1 DEF Put
  <2>2. QED
    BY <1>0, <1>1, <2>1, AppendProperties
<1>2. CASE Len(q) = MaxSize
  <2>1. Put(q, e) = Append(Tail(q), e)
    BY <1>0, <1>2 DEF Put
  <2>2. q # <<>>
    BY <1>0, <1>2, EmptySeq
  <2>3. /\ Tail(q) \in Seq(Nat)
        /\ Len(Tail(q)) = Len(q) - 1
        /\ \A i \in 1..Len(Tail(q)) : Tail(q)[i] = q[i + 1]
    BY <2>2, HeadTailProperties
  <2>4. /\ Append(Tail(q), e) \in Seq(Nat)
        /\ Len(Append(Tail(q), e)) = Len(q)
        /\ \A i \in 1..(Len(q) - 1) : Append(Tail(q), e)[i] = q[i + 1]
        /\ Append(Tail(q), e)[Len(q)] = e
    BY <1>0, <2>3, AppendProperties
  <2>5. QED
    BY <1>0, <1>2, <2>1, <2>4
<1>3. QED
  BY <1>0, <1>1, <1>2

\* p is q without its first d elements, and with one more at the end.
Shifted(p, q, d) == \A i \in 1..(Len(q) - d) : p[i] = q[i + d]

Elements(q) == {q[i] : i \in 1..Len(q)}

\* A queue that lost at most its head and got a new last event.
LEMMA StreamShift ==
    ASSUME NEW w, NEW s, NEW x \in Nat, NEW q, NEW lo \in Nat, NEW hi \in Nat, lo <= hi,
           Stream(w, s, x, q, lo, hi),
           NEW p, NEW d \in {0, 1},
           Len(w) \in Nat, Len(q) \in Nat, Len(p) \in Nat \ {0},
           Elements(w) \subseteq Nat, Elements(q) \subseteq Nat,
           Len(p) = Len(q) - d + 1,
           p[Len(p)] = hi + 1,
           Shifted(p, q, d)
    PROVE  Stream(w, s, x, p, lo, hi + 1)
<1>2. ASSUME NEW i \in 1..Len(p), i # Len(p)
      PROVE  i < Len(p) /\ i + d \in 1..Len(q) /\ p[i] = q[i + d]
  <2>1. i \in 1..(Len(q) - d) /\ i < Len(p) /\ i + d \in 1..Len(q)
    BY <1>2
  <2>2. p[i] = q[i + d]
    BY <2>1 DEF Shifted
  <2>3. QED
    BY <2>1, <2>2
<1>3. /\ \A i \in 1..Len(q) : q[i] \in Nat
      /\ \A i \in 1..Len(w) : w[i] \in Nat
  BY DEF Elements
<1>4. \A i, j \in 1..Len(p) : i < j => p[i] < p[j]
  <2> SUFFICES ASSUME NEW i \in 1..Len(p), NEW j \in 1..Len(p), i < j PROVE p[i] < p[j]
    OBVIOUS
  <2>1. i # Len(p) /\ i + d < j + d
    OBVIOUS
  <2>2. CASE j = Len(p)
    BY <1>2, <1>3, <2>1, <2>2 DEF Stream
  <2>3. CASE j # Len(p)
    BY <1>2, <1>3, <2>1, <2>3 DEF Stream
  <2>4. QED
    BY <2>2, <2>3
<1>5. ASSUME NEW j \in 1..Len(p)
      PROVE  /\ \A i \in 1..Len(w) : w[i] < p[j]
             /\ lo < p[j] /\ p[j] <= hi + 1
             /\ s = "send" => x < p[j]
  <2>1. CASE j = Len(p)
    BY <1>3, <2>1 DEF Stream
  <2>2. CASE j # Len(p)
    BY <1>2, <1>3, <2>2 DEF Stream
  <2>3. QED
    BY <2>1, <2>2
<1>6. QED
  BY <1>3, <1>4, <1>5 DEF Stream

\* A new event keeps the stream of a subscriber, full queue or not.
LEMMA StreamPut ==
    ASSUME NEW w \in Seq(Nat), NEW s, NEW x \in Nat, NEW q \in Seq(Nat),
           NEW lo \in Nat, NEW hi \in Nat, lo <= hi, Len(q) <= MaxSize,
           Stream(w, s, x, q, lo, hi)
    PROVE  Stream(w, s, x, Put(q, hi + 1), lo, hi + 1)
<1>1. hi + 1 \in Nat
  OBVIOUS
<1>2. /\ Put(q, hi + 1) \in Seq(Nat)
      /\ Len(Put(q, hi + 1)) \in Nat \ {0}
      /\ Put(q, hi + 1)[Len(Put(q, hi + 1))] = hi + 1
  BY <1>1, PutProperties, BusAssumption
<1>3. PICK d \in {0, 1} :
        /\ Len(Put(q, hi + 1)) = Len(q) - d + 1
        /\ Shifted(Put(q, hi + 1), q, d)
  BY <1>1, PutProperties DEF Shifted
<1>4. /\ Len(q) \in Nat /\ Len(w) \in Nat
      /\ Elements(q) \subseteq Nat /\ Elements(w) \subseteq Nat
  BY LenProperties, ElementOfSeq DEF Elements
<1>5. QED
  BY <1>2, <1>3, <1>4, StreamShift

\* queue.get: the head of the queue is the next event to be sent.
LEMMA StreamGet ==
    ASSUME NEW w \in Seq(Nat), NEW x, NEW q \in Seq(Nat), q # <<>>,
           NEW lo \in Nat, NEW hi \in Nat,
           Stream(w, "get", x, q, lo, hi)
    PROVE  Stream(w, "send", Head(q), Tail(q), lo, hi)
<1>1. /\ Tail(q) \in Seq(Nat)
      /\ Len(Tail(q)) = Len(q) - 1
      /\ \A i \in 1..Len(Tail(q)) : Tail(q)[i] = q[i + 1]
      /\ Head(q) = q[1]
  BY HeadTailProperties
<1>2. Len(q) \in Nat \ {0}
  BY EmptySeq
<1>3. Tail(q) # <<>> => Len(q) - 1 \in 1..Len(Tail(q))
  BY <1>1, <1>2, EmptySeq
<1>4. \A i \in 1..Len(q) : q[i] \in Nat
  BY ElementOfSeq
<1>5. QED
  BY <1>1, <1>2, <1>3, <1>4 DEF Stream

Extended(v, w) == \A i \in 1..Len(w) : v[i] = w[i]

\* send_json: the event joins what the client has not read yet.
LEMMA StreamJoin ==
    ASSUME NEW w, NEW x \in Nat, NEW y, NEW q, NEW s, s # "send",
           NEW lo \in Nat, NEW hi \in Nat,
           Stream(w, "send", x, q, lo, hi),
           NEW v, Len(w) \in Nat, Len(v) = Len(w) + 1,
           Extended(v, w),
           v[Len(w) + 1] = x
    PROVE  Stream(v, s, y, q, lo, hi)
<1>1. ASSUME NEW i \in 1..Len(v)
      PROVE  \/ i \in 1..Len(w) /\ v[i] = w[i]
             \/ i = Len(w) + 1 /\ v[i] = x
  <2>1. CASE i = Len(w) + 1
    BY <2>1
  <2>2. CASE i # Len(w) + 1
    <3>1. i \in 1..Len(w)
      BY <2>2
    <3>2. QED
      BY <3>1 DEF Extended
  <2>3. QED
    BY <2>1, <2>2
<1>2. ASSUME NEW i \in 1..Len(v), NEW j \in 1..Len(v), i < j PROVE v[i] < v[j]
  <2>1. i \in 1..Len(w) /\ v[i] = w[i]
    BY <1>1, <1>2
  <2>2. QED
    BY <1>1, <1>2, <2>1 DEF Stream
<1>3. QED
  BY <1>1, <1>2 DEF Stream

\* send_json returns: the event it held is the last one on the wire.
LEMMA StreamSend ==
    ASSUME NEW w \in Seq(Nat), NEW x \in Nat, NEW y, NEW q, NEW s, s # "send",
           NEW lo \in Nat, NEW hi \in Nat,
           Stream(w, "send", x, q, lo, hi)
    PROVE  Stream(Append(w, x), s, y, q, lo, hi)
<1>1. /\ Len(Append(w, x)) = Len(w) + 1
      /\ \A i \in 1..Len(w) : Append(w, x)[i] = w[i]
      /\ Append(w, x)[Len(w) + 1] = x
  BY AppendProperties
<1>2. Len(w) \in Nat
  BY LenProperties
<1>3. Extended(Append(w, x), w)
  BY <1>1 DEF Extended
<1>4. QED
  BY <1>1, <1>2, <1>3, StreamJoin

\* onmessage: what is left is newer than the event just received.
LEMMA StreamReceive ==
    ASSUME NEW w \in Seq(Nat), w # <<>>, NEW s, NEW x \in Nat, NEW q \in Seq(Nat),
           NEW lo \in Nat, NEW hi \in Nat,
           Stream(w, s, x, q, lo, hi)
    PROVE  /\ Stream(Tail(w), s, x, q, Head(w), hi)
           /\ Head(w) \in Nat /\ Head(w) <= hi
<1>1. /\ Tail(w) \in Seq(Nat)
      /\ Len(Tail(w)) = Len(w) - 1
      /\ \A i \in 1..Len(Tail(w)) : Tail(w)[i] = w[i + 1]
      /\ Head(w) = w[1] /\ Head(w) \in Nat
  BY HeadTailProperties
<1>2. Len(w) \in Nat \ {0}
  BY EmptySeq
<1>3. \A i \in 1..Len(Tail(w)) : i + 1 \in 1..Len(w) /\ 1 \in 1..Len(w)
  BY <1>1, <1>2
<1>4. /\ \A i, j \in 1..Len(Tail(w)) : i < j => Tail(w)[i] < Tail(w)[j]
      /\ \A i \in 1..Len(Tail(w)) : Head(w) < Tail(w)[i] /\ Tail(w)[i] <= hi
  BY <1>1, <1>3 DEF Stream
<1>5. /\ \A i \in 1..Len(Tail(w)), j \in 1..Len(q) : Tail(w)[i] < q[j]
      /\ s = "send" => \A i \in 1..Len(Tail(w)) : Tail(w)[i] < x
  BY <1>1, <1>3 DEF Stream
<1>6. /\ \A j \in 1..Len(q) : Head(w) < q[j]
      /\ s = "send" => Head(w) < x
      /\ Head(w) <= hi
  BY <1>1, <1>2 DEF Stream
<1>7. QED
  BY <1>1, <1>4, <1>5, <1>6 DEF Stream

\* Three pieces laid one after the other: w, then x if there is room for it
\* before position m, then q.
Laid(pipe, w, m, x, q) ==
    /\ \A i \in 1..Len(w) : pipe[i] = w[i]
    /\ m = Len(w) + 1 => pipe[m] = x
    /\ \A i \in 1..Len(q) : pipe[m + i] = q[i]

\* What is on the wire, in send_json and queued, laid end to end, is increasing
\* and above the last event the client has seen.
LEMMA StreamLaid ==
    ASSUME NEW w, NEW s, NEW x \in Nat, NEW q, NEW lo \in Nat, NEW hi \in Nat,
           Stream(w, s, x, q, lo, hi),
           Len(w) \in Nat, Len(q) \in Nat,
           NEW m \in Nat, m = Len(w) \/ (s = "send" /\ m = Len(w) + 1),
           NEW pipe, Laid(pipe, w, m, x, q)
    PROVE  /\ \A i, j \in 1..(m + Len(q)) : i < j => pipe[i] < pipe[j]
           /\ \A i \in 1..(m + Len(q)) : lo < pipe[i]
<1>1. ASSUME NEW i \in 1..(m + Len(q))
      PROVE  \/ i \in 1..Len(w) /\ pipe[i] = w[i]
             \/ i = Len(w) + 1 /\ i = m /\ s = "send" /\ pipe[i] = x
             \/ \E k \in 1..Len(q) : i = m + k /\ pipe[i] = q[k]
  <2>1. CASE i \in 1..Len(w)
    BY <2>1 DEF Laid
  <2>2. CASE i \notin 1..Len(w) /\ i <= m
    <3>1. i = Len(w) + 1 /\ i = m /\ s = "send"
      BY <2>2
    <3>2. QED
      BY <3>1 DEF Laid
  <2>3. CASE i > m
    <3>1. i - m \in 1..Len(q) /\ i = m + (i - m)
      BY <2>3
    <3>2. QED
      BY <3>1 DEF Laid
  <2>4. QED
    BY <2>1, <2>2, <2>3
<1>2. ASSUME NEW i \in 1..(m + Len(q)), NEW j \in 1..(m + Len(q)), i < j
      PROVE  pipe[i] < pipe[j]
  <2>1. CASE i \in 1..Len(w) /\ pipe[i] = w[i]
    BY <1>1, <1>2, <2>1 DEF Stream
  <2>2. CASE i = Len(w) + 1 /\ i = m /\ s = "send" /\ pipe[i] = x
    <3>1. PICK l \in 1..Len(q) : j = m + l /\ pipe[j] = q[l]
      <4>1. j \notin 1..Len(w) /\ j # m
        BY <1>2, <2>2
      <4>2. QED
        BY <1>1, <4>1
    <3>2. QED
      BY <2>2, <3>1 DEF Stream
  <2>3. ASSUME NEW k \in 1..Len(q), i = m + k, pipe[i] = q[k] PROVE pipe[i] < pipe[j]
    <3>1. PICK l \in 1..Len(q) : j = m + l /\ pipe[j] = q[l]
      <4>1. j \notin 1..Len(w) /\ j # m
        BY <1>2, <2>3
      <4>2. QED
        BY <1>1, <4>1
    <3>2. k < l
      BY <1>2, <2>3, <3>1
    <3>3. QED
      BY <2>3, <3>1, <3>2 DEF Stream
  <2>4. QED
    BY <1>1, <2>1, <2>2, <2>3
<1>3. \A i \in 1..(m + Len(q)) : lo < pipe[i]
  BY <1>1 DEF Stream
<1>4. QED
  BY <1>2, <1>3

\* What the client has not received yet, in one sequence, is in order, and
\* all of it is newer than what it has.
LEMMA StreamPipe ==
    ASSUME NEW w \in Seq(Nat), NEW s, NEW x \in Nat, NEW q \in Seq(Nat),
           NEW lo \in Nat, NEW hi \in Nat,
           Stream(w, s, x, q, lo, hi),
           NEW pipe, pipe = w \o (IF s = "send" THEN <<x>> ELSE <<>>) \o q
    PROVE  /\ \A i, j \in DOMAIN pipe : i < j => pipe[i] < pipe[j]
           /\ pipe # <<>> => lo < Head(pipe)
<1> DEFINE front == w \o (IF s = "send" THEN <<x>> ELSE <<>>)
<1>1. front = IF s = "send" THEN Append(w, x) ELSE w
  BY AppendIsConcat, ConcatEmptySeq
<1> HIDE DEF front
<1>2. /\ front \in Seq(Nat)
      /\ \A i \in 1..Len(w) : front[i] = w[i]
      /\ \/ Len(front) = Len(w)
         \/ s = "send" /\ Len(front) = Len(w) + 1 /\ front[Len(front)] = x
  <2>1. CASE s = "send"
    BY <1>1, <2>1, AppendProperties
  <2>2. CASE s # "send"
    BY <1>1, <2>2
  <2>3. QED
    BY <2>1, <2>2
<1>3. pipe = front \o q
  BY DEF front
<1>4. /\ pipe \in Seq(Nat)
      /\ Len(pipe) = Len(front) + Len(q)
      /\ \A i \in 1..Len(front) + Len(q) :
            pipe[i] = IF i <= Len(front) THEN front[i] ELSE q[i - Len(front)]
  <2>1. front \in Seq(Nat)
    BY <1>2
  <2>2. QED
    BY <1>3, <2>1, ConcatProperties
<1>5. Len(w) \in Nat /\ Len(q) \in Nat /\ Len(front) \in Nat
  BY <1>2, LenProperties
<1>6. DOMAIN pipe = 1..(Len(front) + Len(q))
  BY <1>4, LenProperties
<1>7. Len(front) = Len(w) \/ (s = "send" /\ Len(front) = Len(w) + 1)
  BY <1>2
<1>8. Laid(pipe, w, Len(front), x, q)
  <2>1. ASSUME NEW i \in 1..Len(front) PROVE pipe[i] = front[i]
    <3>1. i \in 1..Len(front) + Len(q) /\ i <= Len(front)
      BY <1>5
    <3>2. QED
      BY <1>4, <3>1
  <2>2. ASSUME NEW i \in 1..Len(w) PROVE pipe[i] = w[i]
    <3>1. i \in 1..Len(front)
      BY <1>5, <1>7
    <3>2. QED
      BY <1>2, <2>1, <3>1
  <2>3. ASSUME Len(front) = Len(w) + 1 PROVE pipe[Len(front)] = x
    <3>1. Len(front) \in 1..Len(front) /\ Len(front) # Len(w)
      BY <1>5, <2>3
    <3>2. QED
      BY <1>2, <2>1, <3>1
  <2>4. ASSUME NEW i \in 1..Len(q) PROVE pipe[Len(front) + i] = q[i]
    <3>1. /\ Len(front) + i \in 1..Len(front) + Len(q)
          /\ ~(Len(front) + i <= Len(front))
          /\ (Len(front) + i) - Len(front) = i
      BY <1>5
    <3>2. QED
      BY <1>4, <3>1
  <2>5. QED
    BY <2>2, <2>3, <2>4 DEF Laid
<1>9. /\ \A i, j \in 1..(Len(front) + Len(q)) : i < j => pipe[i] < pipe[j]
      /\ \A i \in 1..(Len(front) + Len(q)) : lo < pipe[i]
  BY <1>5, <1>7, <1>8, StreamLaid
<1>10. ASSUME pipe # <<>> PROVE lo < Head(pipe)
  <2>1. Len(pipe) \in Nat \ {0} /\ Head(pipe) = pipe[1] /\ 1 \in 1..Len(pipe)
    BY <1>4, <1>10, EmptySeq
  <2>2. QED
    BY <1>4, <1>9, <2>1
<1>11. QED
  BY <1>6, <1>9, <1>10

\* A connection that has sent nothing and has nothing queued is in order.
LEMMA StreamEmpty ==
    ASSUME NEW s, s # "send", NEW x, NEW lo, NEW hi
    PROVE  Stream(<<>>, s, x, <<>>, lo, hi)
BY DEF Stream

\* A client that has seen less (after onclose: a new one) has no less to come.
LEMMA StreamLower ==
    ASSUME NEW w, NEW s, NEW x \in Nat, NEW q, NEW lo \in Nat, NEW hi,
           Elements(w) \subseteq Nat, Elements(q) \subseteq Nat,
           Stream(w, s, x, q, lo, hi)
    PROVE  Stream(w, s, x, q, 0, hi)
<1>1. /\ \A i \in 1..Len(q) : q[i] \in Nat
      /\ \A i \in 1..Len(w) : w[i] \in Nat
  BY DEF Elements
<1>2. QED
  BY <1>1 DEF Stream

\* Only whether the handler is in send_json matters of its stage.
LEMMA StreamStage ==
    ASSUME NEW w, NEW s, NEW x, NEW q, NEW lo, NEW hi,
           Stream(w, s, x, q, lo, hi),
           NEW r, r # "send"
    PROVE  Stream(w, r, x, q, lo, hi)
BY DEF Stream

-----------------------------------------------------------------------------
(* The streams of all connections *)

\* The last event the client of c has seen on this connection.
Seen(c) == IF c = socket THEN last ELSE 0

StreamOf(c) == Stream(wire[c], stage[c], sending[c], queue[c], Seen(c), published)

StreamInv ==
    /\ \A c \in Conns : StreamOf(c)
    /\ \A c \in Conns : stage[c] \in {"none", "accepted"} => queue[c] = <<>> /\ wire[c] = <<>>
    /\ last <= published
    /\ open <= published
    /\ published <= MaxEvents

LInv == TypeOK /\ StreamInv

\* The invariant holds before the first connection.
LEMMA InitLInv == Init => LInv
<1> SUFFICES ASSUME Init PROVE LInv
  OBVIOUS
<1> USE ViewAssumption, BusAssumption DEF Init, BusInit
<1>1. TypeOK
  <2>1. BusTypeOK
    BY EmptySeq DEF BusTypeOK, Stage
  <2>2. QED
    BY <2>1 DEF TypeOK, Version, Sent
<1>2. ASSUME NEW c \in Conns PROVE StreamOf(c)
  BY StreamEmpty DEF StreamOf
<1>3. QED
  BY <1>1, <1>2 DEF LInv, StreamInv

\* Counting a fault keeps within the bound.
LEMMA FaultCounts ==
    ASSUME TypeOK, NEW kind, Fault(kind)
    PROVE  faults' \in 0..MaxFaults
BY ViewAssumption DEF TypeOK, Fault

\* What a connection's fields are.
LEMMA ConnTypes ==
    ASSUME TypeOK, NEW c \in Conns
    PROVE  /\ wire[c] \in Seq(Nat) /\ queue[c] \in Seq(Nat) /\ sending[c] \in Nat
           /\ Seen(c) \in Nat /\ published \in Nat /\ Len(queue[c]) <= MaxSize
           /\ Elements(wire[c]) \subseteq Nat /\ Elements(queue[c]) \subseteq Nat
<1>1. wire[c] \in Seq(Nat) /\ queue[c] \in Seq(Nat)
  BY DEF TypeOK, BusTypeOK
<1>2. Elements(wire[c]) \subseteq Nat /\ Elements(queue[c]) \subseteq Nat
  BY <1>1, ElementOfSeq DEF Elements
<1>3. QED
  BY <1>1, <1>2 DEF TypeOK, BusTypeOK, Seen

\* A connection nothing touches keeps its stream.
LEMMA StreamKept ==
    ASSUME NEW c \in Conns, StreamOf(c),
           wire'[c] = wire[c], stage'[c] = stage[c], sending'[c] = sending[c],
           queue'[c] = queue[c], published' = published, Seen(c)' = Seen(c)
    PROVE  StreamOf(c)'
BY DEF StreamOf

\* A handler publishes: the new event ends every subscriber's queue.
LEMMA PublishStep ==
    ASSUME LInv, Publish
    PROVE  LInv'
<1> USE DEF LInv
<1>1. published \in Nat /\ published' = published + 1 /\ published < MaxEvents
  BY DEF Publish, publish, TypeOK, BusTypeOK
<1>2. UNCHANGED <<stage, sending, wire, gone, viewVars, db, faults>> /\ open' = open + 1
  BY DEF Publish, publish
<1>3. ASSUME NEW c \in Conns
      PROVE  queue'[c] = IF c \in _subscribers THEN Put(queue[c], published + 1) ELSE queue[c]
  BY <1>1 DEF Publish, publish
<1>4. ASSUME NEW c \in Conns PROVE queue'[c] \in Seq(Nat) /\ Len(queue'[c]) <= MaxSize
  <2>1. CASE c \in _subscribers
    <3>1. published + 1 \in Nat
      BY <1>1
    <3>2. /\ Put(queue[c], published + 1) \in Seq(Nat)
          /\ Len(Put(queue[c], published + 1)) \in 1..MaxSize
      BY <3>1, ConnTypes, PutProperties
    <3>3. QED
      BY <1>3, <2>1, <3>2, BusAssumption
  <2>2. CASE c \notin _subscribers
    BY <1>3, <2>2, ConnTypes
  <2>3. QED
    BY <2>1, <2>2
<1>5. BusTypeOK'
  <2>1. queue' = [c \in Conns |-> queue'[c]]
    BY DEF Publish, publish
  <2>2. queue' \in [Conns -> Seq(Nat)]
    BY <1>4, <2>1
  <2>3. published' \in Nat
    BY <1>1
  <2>4. QED
    BY <1>2, <1>4, <2>2, <2>3 DEF TypeOK, BusTypeOK
<1>6. open' \in 0..MaxEvents /\ open' <= published' /\ published' <= MaxEvents
      /\ last' <= published'
  BY <1>1, <1>2, ViewAssumption DEF TypeOK, StreamInv, viewVars
<1>7. TypeOK'
  BY <1>2, <1>5, <1>6 DEF TypeOK, viewVars
<1>8. ASSUME NEW c \in Conns PROVE StreamOf(c)'
  <2>1. /\ wire'[c] = wire[c] /\ stage'[c] = stage[c] /\ sending'[c] = sending[c]
        /\ Seen(c)' = Seen(c)
    BY <1>2 DEF viewVars, Seen
  <2>2. StreamOf(c)
    BY DEF StreamInv
  <2>3. CASE c \in _subscribers
    <3>1. Seen(c) <= published
      BY <1>1 DEF Seen, StreamInv
    <3>2. Stream(wire[c], stage[c], sending[c], Put(queue[c], published + 1), Seen(c), published + 1)
      BY <2>2, <3>1, ConnTypes, StreamPut DEF StreamOf
    <3>3. QED
      BY <1>1, <1>3, <2>1, <2>3, <3>2 DEF StreamOf
  <2>4. CASE c \notin _subscribers
    <3>1. stage[c] \in {"none", "accepted"}
      BY <2>4 DEF _subscribers, TypeOK, BusTypeOK, Stage
    <3>2. wire'[c] = <<>> /\ queue'[c] = <<>> /\ stage'[c] # "send"
      BY <1>3, <2>1, <2>4, <3>1 DEF StreamInv
    <3>3. QED
      BY <3>2, StreamEmpty DEF StreamOf
  <2>5. QED
    BY <2>3, <2>4
<1>9. ASSUME NEW c \in Conns, stage'[c] \in {"none", "accepted"}
      PROVE  queue'[c] = <<>> /\ wire'[c] = <<>>
  BY <1>2, <1>3, <1>9 DEF _subscribers, StreamInv
<1>10. QED
  BY <1>6, <1>7, <1>8, <1>9 DEF StreamInv

\* A step that leaves the bus and the browser's connection alone.
LEMMA BusKept ==
    ASSUME LInv, UNCHANGED <<busVars, socket, last>>, open' <= open,
           TypeOK'
    PROVE  LInv'
<1>1. UNCHANGED <<published, stage, queue, sending, wire>>
  BY DEF busVars
<1>2. ASSUME NEW c \in Conns PROVE StreamOf(c)'
  <2>1. Seen(c)' = Seen(c)
    BY DEF Seen
  <2>2. QED
    BY <1>1, <2>1, StreamKept DEF LInv, StreamInv
<1>3. open' <= published'
  BY <1>1 DEF LInv, StreamInv, TypeOK, BusTypeOK
<1>4. QED
  BY <1>1, <1>2, <1>3 DEF LInv, StreamInv

\* One step of a connection's handler.  The other connections do not see it.
LEMMA BusStep ==
    ASSUME LInv, NEW c \in Conns, Bus(c)
    PROVE  LInv'
<1> USE DEF LInv
<1>u. UNCHANGED <<viewVars, db, open, faults>> /\ published' = published
  BY DEF Bus, Connection, subscribe, get, send_json, finalise
<1>s. ASSUME NEW d \in Conns PROVE Seen(d)' = Seen(d)
  BY <1>u DEF Seen, viewVars
<1>t. /\ wire[c] \in Seq(Nat) /\ queue[c] \in Seq(Nat) /\ sending[c] \in Nat
      /\ Seen(c) \in Nat /\ published \in Nat
  BY ConnTypes
<1>i. StreamOf(c) /\ (stage[c] \in {"none", "accepted"} => queue[c] = <<>> /\ wire[c] = <<>>)
  BY DEF StreamInv
\* Only c moves.
<1>e. /\ stage' = [stage EXCEPT ![c] = stage'[c]]
      /\ queue' = [queue EXCEPT ![c] = queue'[c]]
      /\ sending' = [sending EXCEPT ![c] = sending'[c]]
      /\ wire' = [wire EXCEPT ![c] = wire'[c]]
      /\ gone' \in SUBSET Conns
  BY DEF TypeOK, BusTypeOK, Bus, Connection, subscribe, get, send_json, finalise
<1> DEFINE Moved == /\ stage'[c] \in Stage
                    /\ queue'[c] \in Seq(Nat) /\ Len(queue'[c]) <= MaxSize
                    /\ sending'[c] \in Nat
                    /\ wire'[c] \in Seq(Nat)
                    /\ StreamOf(c)'
                    /\ stage'[c] \in {"none", "accepted"} =>
                            queue'[c] = <<>> /\ wire'[c] = <<>>
<1>1. ASSUME subscribe(c) PROVE Moved
  <2>1. /\ stage[c] = "accepted" /\ stage'[c] = "get"
        /\ UNCHANGED <<queue, sending, wire>>
    BY <1>1 DEF subscribe, TypeOK, BusTypeOK
  <2>2. Stream(wire[c], "get", sending[c], queue[c], Seen(c), published)
    BY <1>i, StreamStage DEF StreamOf
  <2>3. StreamOf(c)'
    BY <1>u, <1>s, <2>1, <2>2 DEF StreamOf
  <2>4. QED
    BY <1>t, <2>1, <2>3, ConnTypes DEF Stage
<1>2. ASSUME get(c) PROVE Moved
  <2>1. /\ stage[c] = "get" /\ stage'[c] = "send" /\ queue[c] # <<>>
        /\ sending'[c] = Head(queue[c]) /\ queue'[c] = Tail(queue[c])
        /\ wire' = wire
    BY <1>2 DEF get, TypeOK, BusTypeOK
  <2>2. Stream(wire[c], "send", Head(queue[c]), Tail(queue[c]), Seen(c), published)
    BY <1>t, <1>i, <2>1, StreamGet DEF StreamOf
  <2>3. StreamOf(c)'
    BY <1>u, <1>s, <2>1, <2>2 DEF StreamOf
  <2>4. /\ Head(queue[c]) \in Nat /\ Tail(queue[c]) \in Seq(Nat)
        /\ Len(Tail(queue[c])) = Len(queue[c]) - 1
    BY <1>t, <2>1, HeadTailProperties
  <2>5. Len(Tail(queue[c])) <= MaxSize
    <3>1. Len(queue[c]) \in Nat /\ Len(queue[c]) <= MaxSize /\ MaxSize \in Nat
      BY <1>t, ConnTypes, LenProperties, BusAssumption
    <3>2. QED
      BY <2>4, <3>1
  <2>6. QED
    BY <1>t, <2>1, <2>3, <2>4, <2>5 DEF Stage
<1>3. ASSUME send_json(c) PROVE Moved
  <2>1. /\ stage[c] = "send" /\ sending'[c] = 0 /\ queue' = queue
        /\ \/ stage'[c] = "finalise" /\ wire'[c] = wire[c]
           \/ stage'[c] = "get" /\ wire'[c] = Append(wire[c], sending[c])
    BY <1>3 DEF send_json, TypeOK, BusTypeOK
  <2>2. Stream(wire[c], "send", sending[c], queue[c], Seen(c), published)
    BY <1>i, <2>1 DEF StreamOf
  <2>3. CASE stage'[c] = "finalise" /\ wire'[c] = wire[c]
    <3>1. Stream(wire[c], "finalise", 0, queue[c], Seen(c), published)
      BY <2>2 DEF Stream
    <3>2. StreamOf(c)'
      BY <1>u, <1>s, <2>1, <2>3, <3>1 DEF StreamOf
    <3>3. QED
      BY <1>t, <2>1, <2>3, <3>2, ConnTypes DEF Stage
  <2>4. CASE stage'[c] = "get" /\ wire'[c] = Append(wire[c], sending[c])
    <3>1. Stream(Append(wire[c], sending[c]), "get", 0, queue[c], Seen(c), published)
      BY <1>t, <2>2, StreamSend
    <3>2. StreamOf(c)'
      BY <1>u, <1>s, <2>1, <2>4, <3>1 DEF StreamOf
    <3>3. Append(wire[c], sending[c]) \in Seq(Nat)
      BY <1>t, AppendProperties
    <3>4. QED
      BY <1>t, <2>1, <2>4, <3>2, <3>3, ConnTypes DEF Stage
  <2>5. QED
    BY <2>1, <2>3, <2>4
<1>4. ASSUME finalise(c) PROVE Moved
  <2>1. /\ stage'[c] = "none" /\ queue'[c] = <<>> /\ wire'[c] = <<>>
        /\ sending' = sending
    BY <1>4 DEF finalise, TypeOK, BusTypeOK
  <2>2. StreamOf(c)'
    BY <2>1, StreamEmpty DEF StreamOf
  <2>3. <<>> \in Seq(Nat) /\ Len(<<>>) <= MaxSize
    BY EmptySeq, BusAssumption
  <2>4. QED
    BY <1>t, <2>1, <2>2, <2>3 DEF Stage
<1>5. Moved
  BY <1>1, <1>2, <1>3, <1>4 DEF Bus, Connection
<1> HIDE DEF Moved
<1>6. ASSUME NEW d \in Conns, d # c
      PROVE  /\ stage'[d] = stage[d] /\ queue'[d] = queue[d]
             /\ sending'[d] = sending[d] /\ wire'[d] = wire[d]
  BY <1>e, <1>6 DEF TypeOK, BusTypeOK
<1>7. ASSUME NEW d \in Conns
      PROVE  /\ StreamOf(d)'
             /\ stage'[d] \in {"none", "accepted"} => queue'[d] = <<>> /\ wire'[d] = <<>>
             /\ Len(queue'[d]) <= MaxSize
  <2>1. CASE d = c
    BY <1>5, <2>1 DEF Moved
  <2>2. CASE d # c
    BY <1>u, <1>s, <1>6, <2>2, StreamKept, ConnTypes DEF StreamInv
  <2>3. QED
    BY <2>1, <2>2
<1>8. /\ stage' \in [Conns -> Stage] /\ queue' \in [Conns -> Seq(Nat)]
      /\ sending' \in [Conns -> Nat] /\ wire' \in [Conns -> Seq(Nat)]
  <2>1. /\ stage'[c] \in Stage /\ queue'[c] \in Seq(Nat)
        /\ sending'[c] \in Nat /\ wire'[c] \in Seq(Nat)
    BY <1>5 DEF Moved
  <2>2. QED
    BY <1>e, <2>1 DEF TypeOK, BusTypeOK
<1>9. TypeOK'
  BY <1>u, <1>e, <1>7, <1>8 DEF TypeOK, BusTypeOK, viewVars
<1>10. QED
  BY <1>u, <1>7, <1>9 DEF StreamInv, viewVars

\* A new connection is fresh: nothing of an earlier one is left in it.
LEMMA ConnectStep ==
    ASSUME LInv, connect
    PROVE  LInv'
<1> USE DEF LInv
<1>1. PICK c \in Conns : accept(c) /\ socket' = c
  BY DEF connect
<1>2. /\ stage[c] = "none" /\ stage' = [stage EXCEPT ![c] = "accepted"]
      /\ UNCHANGED <<published, queue, sending, wire, gone>>
  BY <1>1 DEF accept
<1>3. socket = None /\ UNCHANGED <<last, view, fetch, old, db, open, faults>>
  BY DEF connect
<1>4. stage' \in [Conns -> Stage]
  BY <1>2 DEF TypeOK, BusTypeOK, Stage
<1>5. TypeOK'
  BY <1>1, <1>2, <1>3, <1>4 DEF TypeOK, BusTypeOK
<1>6. queue'[c] = <<>> /\ wire'[c] = <<>> /\ stage'[c] # "send"
  BY <1>2 DEF TypeOK, BusTypeOK, StreamInv
<1>7. ASSUME NEW d \in Conns
      PROVE  /\ StreamOf(d)'
             /\ stage'[d] \in {"none", "accepted"} => queue'[d] = <<>> /\ wire'[d] = <<>>
  <2>1. CASE d = c
    BY <1>6, <2>1, StreamEmpty DEF StreamOf
  <2>2. CASE d # c
    <3>1. stage'[d] = stage[d]
      BY <1>2, <2>2 DEF TypeOK, BusTypeOK
    <3>2. Seen(d)' = Seen(d)
      BY <1>1, <1>3, <2>2, ViewAssumption DEF Seen
    <3>3. QED
      BY <1>2, <3>1, <3>2, StreamKept DEF StreamInv
  <2>3. QED
    BY <2>1, <2>2
<1>8. QED
  BY <1>2, <1>3, <1>5, <1>7 DEF StreamInv

\* The browser's socket closes: what was on its way goes to nobody.
LEMMA OncloseStep ==
    ASSUME LInv, onclose
    PROVE  LInv'
<1> USE DEF LInv
<1>1. /\ socket \in Conns /\ socket' = None /\ gone' = gone \cup {socket}
      /\ UNCHANGED <<published, stage, queue, sending, wire, last, view, fetch, old, db, open>>
  BY DEF onclose, TypeOK
<1>2. faults' \in 0..MaxFaults
  BY FaultCounts DEF onclose
<1>3. TypeOK'
  BY <1>1, <1>2 DEF TypeOK, BusTypeOK
<1>4. ASSUME NEW d \in Conns PROVE StreamOf(d)'
  <2>1. Seen(d)' = 0
    BY <1>1, ViewAssumption DEF Seen
  <2>2. StreamOf(d)
    BY DEF StreamInv
  <2>3. Stream(wire[d], stage[d], sending[d], queue[d], 0, published)
    BY <2>2, ConnTypes, StreamLower DEF StreamOf
  <2>4. QED
    BY <1>1, <2>1, <2>3 DEF StreamOf
<1>5. QED
  BY <1>1, <1>3, <1>4 DEF StreamInv

\* The new process numbers its events on: the browser keeps lastEvent.
LEMMA RestartStep ==
    ASSUME LInv, master_restart
    PROVE  LInv'
<1> USE DEF LInv
<1>1. /\ \A c \in Conns : /\ stage'[c] = "none" /\ queue'[c] = <<>> /\ wire'[c] = <<>>
                           /\ sending'[c] = 0
      /\ stage' \in [Conns -> Stage] /\ sending' \in [Conns -> Nat]
  BY DEF master_restart, Stage
<1>2. queue' \in [Conns -> Seq(Nat)] /\ wire' \in [Conns -> Seq(Nat)]
  BY EmptySeq DEF master_restart
<1>3. \A c \in Conns : Len(queue'[c]) <= MaxSize
  BY <1>1, EmptySeq, BusAssumption
<1>4. faults' \in 0..MaxFaults
  BY FaultCounts DEF master_restart
<1>5. /\ UNCHANGED <<published, db, last, view>> /\ open' = 0 /\ socket' = None
      /\ gone' = {} /\ fetch' = NoFetch /\ old' = {}
  BY DEF master_restart
<1>6. TypeOK'
  BY <1>1, <1>2, <1>3, <1>4, <1>5, ViewAssumption DEF TypeOK, BusTypeOK, NoFetch, Version
<1>7. ASSUME NEW c \in Conns PROVE StreamOf(c)'
  BY <1>1, StreamEmpty DEF StreamOf
<1>8. open' <= published'
  BY <1>5 DEF TypeOK, BusTypeOK
<1>9. QED
  BY <1>1, <1>5, <1>6, <1>7, <1>8 DEF StreamInv

\* invalidateQueries keeps the types of what is in flight.
LEMMA InvalidatedTypes ==
    ASSUME TypeOK, Invalidated
    PROVE  /\ fetch' \in [at : {"none", "sent", "answered"}, version : Version]
           /\ old' \in SUBSET Version
<1>1. 0 \in Version
  BY ViewAssumption DEF Version
<1>2. Sent \in [at : {"none", "sent", "answered"}, version : Version]
  BY <1>1 DEF Sent
<1>3. fetch.version \in Version /\ old \in SUBSET Version
  BY DEF TypeOK
<1>4. CASE view = None /\ fetch # NoFetch
  BY <1>4 DEF TypeOK, Invalidated, refetch
<1>5. CASE ~(view = None /\ fetch # NoFetch)
  BY <1>2, <1>3, <1>5 DEF Invalidated, refetch
<1>6. QED
  BY <1>4, <1>5

\* The browser takes the first event off the wire.
LEMMA OnmessageStep ==
    ASSUME LInv, onmessage
    PROVE  LInv'
<1> USE DEF LInv
<1>1. /\ socket \in Conns /\ wire[socket] # <<>> /\ last' = Head(wire[socket])
      /\ wire' = [wire EXCEPT ![socket] = Tail(wire[socket])]
      /\ UNCHANGED <<published, stage, queue, sending, gone, socket, view, db, open, faults>>
  BY DEF onmessage, TypeOK
<1>2. StreamOf(socket) /\ Seen(socket) = last
  BY <1>1 DEF StreamInv, Seen
<1>3. /\ Stream(Tail(wire[socket]), stage[socket], sending[socket], queue[socket],
                Head(wire[socket]), published)
      /\ Head(wire[socket]) \in Nat /\ Head(wire[socket]) <= published
  BY <1>1, <1>2, ConnTypes, StreamReceive DEF StreamOf
<1>4. Tail(wire[socket]) \in Seq(Nat)
  BY <1>1, ConnTypes, HeadTailProperties
<1>5. wire' \in [Conns -> Seq(Nat)]
  BY <1>1, <1>4 DEF TypeOK, BusTypeOK
<1>6. last' \in 0..MaxEvents /\ last' <= published'
  BY <1>1, <1>3, ViewAssumption DEF StreamInv, TypeOK, BusTypeOK
<1>7. TypeOK'
  <2>1. /\ fetch' \in [at : {"none", "sent", "answered"}, version : Version]
        /\ old' \in SUBSET Version
    BY InvalidatedTypes DEF onmessage
  <2>2. QED
    BY <1>1, <1>5, <1>6, <2>1 DEF TypeOK, BusTypeOK
<1>8. ASSUME NEW d \in Conns PROVE StreamOf(d)'
  <2>1. CASE d = socket
    <3>1. Seen(d)' = Head(wire[socket])
      BY <1>1, <2>1 DEF Seen
    <3>2. wire'[d] = Tail(wire[socket])
      BY <1>1, <2>1 DEF TypeOK, BusTypeOK
    <3>3. QED
      BY <1>1, <1>3, <2>1, <3>1, <3>2 DEF StreamOf
  <2>2. CASE d # socket
    <3>1. Seen(d)' = Seen(d)
      BY <1>1, <2>2 DEF Seen
    <3>2. wire'[d] = wire[d]
      BY <1>1, <2>2 DEF TypeOK, BusTypeOK
    <3>3. QED
      BY <1>1, <3>1, <3>2, StreamKept DEF StreamInv
  <2>3. QED
    BY <2>1, <2>2
<1>9. stage[socket] \notin {"none", "accepted"}
  BY <1>1 DEF StreamInv
<1>10. ASSUME NEW d \in Conns, stage'[d] \in {"none", "accepted"}
       PROVE  queue'[d] = <<>> /\ wire'[d] = <<>>
  BY <1>1, <1>9, <1>10 DEF StreamInv, TypeOK, BusTypeOK
<1>11. QED
  BY <1>1, <1>6, <1>7, <1>8, <1>10 DEF StreamInv

\* What the queries and the transactions do leaves the streams alone.
LEMMA QuietStep ==
    ASSUME LInv,
           \/ commit \/ abort \/ quiet_commit
           \/ refetchInterval \/ answer \/ response \/ late_response \/ fetch_error
    PROVE  LInv'
<1> USE DEF LInv
<1>1. UNCHANGED <<busVars, socket, last>>
  BY DEF commit, abort, quiet_commit, refetchInterval, answer, response, late_response,
         fetch_error, viewVars
<1>2. open' \in 0..MaxEvents /\ open' <= open
  BY ViewAssumption DEF TypeOK, commit, abort, quiet_commit, refetchInterval, answer, response,
         late_response, fetch_error
<1>3. faults' \in 0..MaxFaults
  <2>1. faults' = faults \/ \E kind : Fault(kind)
    BY DEF commit, abort, quiet_commit, refetchInterval, answer, response, late_response,
           fetch_error
  <2>2. QED
    BY <2>1, FaultCounts DEF TypeOK
<1>4. db' \in Version /\ old' \in SUBSET Version
  <2>1. db' = db \/ (db < MaxChanges /\ db' = db + 1)
    BY DEF commit, abort, quiet_commit, refetchInterval, answer, response, late_response,
           fetch_error
  <2>2. db' \in Version
    BY <2>1, ViewAssumption DEF TypeOK, Version
  <2>3. old' \subseteq old
    BY DEF commit, abort, quiet_commit, refetchInterval, answer, response, late_response,
           fetch_error, viewVars
  <2>4. QED
    BY <2>2, <2>3 DEF TypeOK
<1>5. view' \in Version \cup {None}
  BY DEF TypeOK, commit, abort, quiet_commit, refetchInterval, answer, response,
         late_response, fetch_error, viewVars
<1>6. fetch' \in [at : {"none", "sent", "answered"}, version : Version]
  <2>1. /\ Sent \in [at : {"none", "sent", "answered"}, version : Version]
        /\ NoFetch \in [at : {"none", "sent", "answered"}, version : Version]
        /\ Answer(db) \in [at : {"none", "sent", "answered"}, version : Version]
    BY ViewAssumption DEF Sent, NoFetch, Answer, TypeOK, Version
  <2>2. fetch' \in {fetch, Sent, NoFetch, Answer(db)}
    BY DEF commit, abort, quiet_commit, refetchInterval, answer, response,
           late_response, fetch_error, viewVars
  <2>3. QED
    BY <2>1, <2>2 DEF TypeOK
<1>7. BusTypeOK'
  BY <1>1 DEF TypeOK, BusTypeOK, busVars
<1>8. TypeOK'
  BY <1>1, <1>2, <1>3, <1>4, <1>5, <1>6, <1>7 DEF TypeOK
<1>9. QED
  BY <1>1, <1>2, <1>8, BusKept

\* Every step keeps the streams in order.
LEMMA LInvStep == LInv /\ [Next]_vars => LInv'
<1> SUFFICES ASSUME LInv, [Next]_vars PROVE LInv'
  OBVIOUS
<1>1. CASE UNCHANGED vars
  <2>1. UNCHANGED <<busVars, socket, last>> /\ open' = open
    BY <1>1 DEF vars, viewVars
  <2>2. TypeOK'
    BY <1>1 DEF vars, viewVars, busVars, LInv, TypeOK, BusTypeOK
  <2>3. open' <= open
    BY <2>1, ViewAssumption DEF LInv, TypeOK
  <2>4. QED
    BY <2>1, <2>2, <2>3, BusKept
<1>2. QED
  BY <1>1, PublishStep, BusStep, ConnectStep, OncloseStep, RestartStep, OnmessageStep,
     QuietStep DEF Next, Dashboard

\* Every variable of the bus and of the dashboard keeps its type; the queue of
\* a subscriber never exceeds MaxSize.
THEOREM LiveViewTypes == Spec => []TypeOK
<1>1. LInv => TypeOK
  BY DEF LInv
<1>2. QED
  BY <1>1, InitLInv, LInvStep, PTL DEF Spec

\* The invariant, of the three parts, gives the property, of their concatenation.
LEMMA StreamsInOrder == LInv => StreamEndsWithNewest
<1> SUFFICES ASSUME LInv, NEW c \in _subscribers,
                    NEW pipe,
                    pipe = wire[c] \o (IF stage[c] = "send" THEN <<sending[c]>> ELSE <<>>)
                                   \o queue[c]
             PROVE  /\ \A i, j \in DOMAIN pipe : i < j => pipe[i] < pipe[j]
                    /\ queue[c] # <<>> => Last(queue[c]) = published
                    /\ c = socket /\ pipe # <<>> => last < Head(pipe)
  BY DEF StreamEndsWithNewest
<1>1. c \in Conns /\ StreamOf(c) /\ TypeOK
  BY DEF _subscribers, LInv, StreamInv
<1>2. queue[c] # <<>> => Last(queue[c]) = published
  BY <1>1 DEF StreamOf, Stream, Last
<1>3. /\ \A i, j \in DOMAIN pipe : i < j => pipe[i] < pipe[j]
      /\ pipe # <<>> => Seen(c) < Head(pipe)
  BY <1>1, ConnTypes, StreamPipe DEF StreamOf
<1>4. QED
  BY <1>2, <1>3 DEF Seen

\* A slow client loses old events and never the newest, and sees what it gets
\* in the order of publication: for any number of connections and any queue
\* size, over reconnections and restarts of the master.
THEOREM StreamsEndWithNewest == Spec => []StreamEndsWithNewest
<1>1. QED
  BY InitLInv, LInvStep, StreamsInOrder, PTL DEF Spec

-----------------------------------------------------------------------------
(* The view *)

\* The view is of some committed version, and an answer in flight is no older
\* than the view it will replace.
ViewInv ==
    /\ view # None => view <= db
    /\ fetch.at = "answered" => /\ fetch.version <= db
                                /\ view # None => view <= fetch.version

\* Every step keeps the answers in flight no older than the view.
LEMMA ViewInvStep == TypeOK /\ ViewInv /\ [Next]_vars => ViewInv'
<1> SUFFICES ASSUME TypeOK, ViewInv, [Next]_vars PROVE ViewInv'
  OBVIOUS
<1> USE DEF ViewInv
<1>0. /\ db \in Nat
      /\ view # None => view \in Nat
      /\ fetch.version \in Nat
  BY ViewAssumption DEF TypeOK, Version
<1>1. CASE UNCHANGED <<db, view, fetch>>
  BY <1>1
<1>2. CASE commit \/ quiet_commit
  BY <1>0, <1>2 DEF commit, quiet_commit, viewVars
<1>3. CASE UNCHANGED <<db, view>> /\ fetch' \in {fetch, Sent, NoFetch}
  BY <1>3 DEF Sent, NoFetch
<1>4. CASE answer
  BY <1>0, <1>4 DEF answer, Answer
<1>5. CASE response
  BY <1>0, <1>5 DEF response, NoFetch
<1>6. CASE onmessage
  <2>1. UNCHANGED <<db, view>> /\ fetch' \in {fetch, Sent}
    BY <1>6 DEF onmessage, Invalidated, refetch
  <2>2. QED
    BY <1>3, <2>1
<1>7. QED
  BY <1>1, <1>2, <1>3, <1>4, <1>5, <1>6
     DEF Next, Dashboard, Publish, abort, master_restart, Bus, connect, onclose,
         refetchInterval, late_response, fetch_error, vars, viewVars

\* No response replaces the view by older data, however polls, invalidations,
\* errors and late answers overtake each other.
THEOREM ViewMonotone == Spec => ViewNeverGoesBack
<1>1. Init => ViewInv
  BY DEF Init, ViewInv, Sent
<1>2. TypeOK /\ ViewInv /\ [Next]_vars => [view # None => view' >= view]_vars
  <2> SUFFICES ASSUME TypeOK, ViewInv, Next, view # None PROVE view' >= view
    OBVIOUS
  <2>0. view \in Nat /\ fetch.version \in Nat
    BY ViewAssumption DEF TypeOK, Version
  <2>1. CASE response
    BY <2>0, <2>1 DEF response, ViewInv
  <2>2. CASE view' = view
    BY <2>0, <2>2
  <2>3. QED
    BY <2>1, <2>2
       DEF Next, Dashboard, Publish, commit, abort, quiet_commit, master_restart, Bus, connect,
           onclose, onmessage, refetchInterval, answer, late_response, fetch_error, viewVars
<1>3. QED
  BY <1>1, <1>2, ViewInvStep, LiveViewTypes, PTL DEF Spec, ViewNeverGoesBack

====
