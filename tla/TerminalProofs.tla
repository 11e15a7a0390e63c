--------------------------- MODULE TerminalProofs ---------------------------
(***************************************************************************)
(* Proofs about the terminals.  The tab of an SSH terminal, for any number  *)
(* of keys, pieces of output and lost connections: what was typed and what  *)
(* was printed are kept, and a connection is tried again only when it       *)
(* should be.  The telnet terminal, for any texts and options: no           *)
(* negotiation loses, doubles or changes a byte of text, and what is typed *)
(* comes through until a size with a byte 255 is told.                     *)
(***************************************************************************)
EXTENDS MCConnections, SequenceTheorems, TLAPS

LEMMA Bounds == /\ Keys \in Nat /\ Outputs \in Nat /\ Failures \in Nat
  BY BoundsAssumption

Words == {"start", "proceed", "queueData", "stop",
          "errorOccurred", "hostKeyFingerprint", "connected", "dataReceived",
          "authenticationFailed", "remoteExited", "disconnected"}
Messages == [op : Words, arg : Nat]
Carriers(queue, what) == {i \in 1 .. Len(queue) : queue[i].op = what}

LEMMA MessageArgs ==
    ASSUME NEW queue \in Seq(Messages)
    PROVE  \A i \in 1 .. Len(queue) : queue[i].arg \in Nat
<1>1. \A i \in 1 .. Len(queue) : queue[i] \in Messages
  OBVIOUS
<1>2. QED
  BY <1>1 DEF Messages

\* What it is that a queue carries the numbers n + 1 .. m.
LEMMA CarriesMeans ==
    ASSUME NEW queue \in Seq(Messages), NEW what, NEW n \in Nat, NEW m \in Nat
    PROVE  Terminal!Carries(queue, what, n, m) <=>
              /\ \A i \in Carriers(queue, what) : queue[i].arg \in n + 1 .. m
              /\ \A k \in n + 1 .. m : \E i \in Carriers(queue, what) : queue[i].arg = k
              /\ \A i, j \in Carriers(queue, what) : i < j => queue[i].arg < queue[j].arg
<1>1. Carriers(queue, what) = {i \in DOMAIN queue : queue[i].op = what}
  BY DEF Carriers
<1> DEFINE C == Carriers(queue, what)
<1>2. {queue[i].arg : i \in C} = n + 1 .. m <=>
         /\ \A i \in C : queue[i].arg \in n + 1 .. m
         /\ \A k \in n + 1 .. m : \E i \in C : queue[i].arg = k
  <2> HIDE DEF C
  <2> QED
    OBVIOUS
<1>3. QED
  BY <1>1, <1>2 DEF Terminal!Carries

\* An empty queue carries nothing.
LEMMA CarriesNone ==
    ASSUME NEW n \in Nat, NEW what
    PROVE  Terminal!Carries(<< >>, what, n, n)
<1>1. << >> \in Seq(Messages) /\ Carriers(<< >>, what) = {}
  BY DEF Carriers
<1> DEFINE queue == << >>
<1>2. queue \in Seq(Messages) /\ Carriers(queue, what) = {} /\ n + 1 .. n = {}
  BY <1>1
<1> HIDE DEF queue
<1>3. Terminal!Carries(queue, what, n, n)
  BY <1>2, CarriesMeans
<1>4. QED
  BY <1>3 DEF queue

\* Taking the head of a queue takes the first of the numbers, or none.
LEMMA CarriesTail ==
    ASSUME NEW queue \in Seq(Messages), queue # << >>, NEW n \in Nat, NEW m \in Nat, n <= m,
           NEW what, Terminal!Carries(queue, what, n, m)
    PROVE  /\ Head(queue).op # what => Terminal!Carries(Tail(queue), what, n, m)
           /\ Head(queue).op = what => /\ n < m /\ Head(queue).arg = n + 1
                                       /\ Terminal!Carries(Tail(queue), what, n + 1, m)
<1> DEFINE rest == Tail(queue)
           C == Carriers(queue, what)
           T == Carriers(rest, what)
<1>0. /\ rest \in Seq(Messages) /\ Len(rest) = Len(queue) - 1
      /\ Len(queue) \in Nat \ {0} /\ Head(queue) = queue[1]
      /\ \A i \in 1 .. Len(queue) - 1 : rest[i] = queue[i + 1]
  OBVIOUS
<1>00. \A i \in 1 .. Len(queue) : queue[i].arg \in Nat
  BY MessageArgs
<1>1. /\ \A i \in C : queue[i].arg \in n + 1 .. m
      /\ \A k \in n + 1 .. m : \E i \in C : queue[i].arg = k
      /\ \A i, j \in C : i < j => queue[i].arg < queue[j].arg
  BY CarriesMeans
<1>2. /\ \A i \in T : i \in 1 .. Len(queue) - 1 /\ i + 1 \in C /\ rest[i] = queue[i + 1]
      /\ \A i \in C : i \in 1 .. Len(queue) /\ (i # 1 => i - 1 \in T /\ rest[i - 1] = queue[i])
      /\ 1 \in C <=> queue[1].op = what
  BY <1>0 DEF Carriers
<1> HIDE DEF C, T, rest
<1>3. \A i, j \in T : i < j => rest[i].arg < rest[j].arg
  <2> TAKE i, j \in T
  <2> HAVE i < j
  <2>1. i + 1 \in C /\ j + 1 \in C /\ i + 1 < j + 1
    BY <1>2, <1>0
  <2>2. QED
    BY <2>1, <1>1, <1>2
<1>4. CASE queue[1].op # what
  <2>1. \A i \in T : rest[i].arg \in n + 1 .. m
    BY <1>1, <1>2
  <2>2. \A k \in n + 1 .. m : \E i \in T : rest[i].arg = k
    <3> TAKE k \in n + 1 .. m
    <3>1. PICK i \in C : queue[i].arg = k
      BY <1>1
    <3>2. i # 1
      BY <1>2, <1>4
    <3>3. QED
      BY <3>1, <3>2, <1>2
  <2>3. Terminal!Carries(rest, what, n, m)
    BY <2>1, <2>2, <1>3, <1>0, CarriesMeans DEF T
  <2>4. QED
    BY <2>3, <1>0, <1>4 DEF rest
<1>5. CASE queue[1].op = what
  <2>1. 1 \in C /\ \A i \in C : i # 1 => queue[1].arg < queue[i].arg
    BY <1>0, <1>1, <1>2, <1>5
  <2>2. n < m /\ queue[1].arg = n + 1
    <3>1. queue[1].arg \in n + 1 .. m
      BY <2>1, <1>1
    <3>2. n + 1 \in n + 1 .. m
      BY <3>1
    <3>3. PICK i \in C : queue[i].arg = n + 1
      BY <3>2, <1>1
    <3>4. QED
      BY <3>1, <3>3, <2>1
  <2>3. \A i \in T : rest[i].arg \in n + 2 .. m
    <3> TAKE i \in T
    <3>1. i + 1 \in C /\ i + 1 # 1 /\ rest[i] = queue[i + 1]
      BY <1>2, <1>0
    <3>2. queue[i + 1].arg \in n + 1 .. m /\ queue[1].arg < queue[i + 1].arg
      BY <3>1, <2>1, <1>1
    <3>3. QED
      BY <3>1, <3>2, <2>2
  <2>4. \A k \in n + 2 .. m : \E i \in T : rest[i].arg = k
    <3> TAKE k \in n + 2 .. m
    <3>1. k \in n + 1 .. m /\ k # n + 1
      OBVIOUS
    <3>2. PICK i \in C : queue[i].arg = k
      BY <3>1, <1>1
    <3>3. QED
      BY <3>1, <3>2, <2>2, <1>2
  <2>5. Terminal!Carries(rest, what, n + 1, m)
    <3>1. n + 1 \in Nat /\ (n + 1) + 1 = n + 2
      OBVIOUS
    <3>2. QED
      BY <3>1, <2>3, <2>4, <1>3, <1>0, CarriesMeans DEF T
  <2>6. QED
    BY <2>5, <2>2, <1>0, <1>5 DEF rest
<1>6. QED
  BY <1>0, <1>4, <1>5

\* A events of messages at the end of a queue carries on where the queue ends.
LEMMA CarriesMore ==
    ASSUME NEW queue \in Seq(Messages), NEW events \in Seq(Messages),
           NEW n \in Nat, NEW m \in Nat, NEW k \in Nat, n <= m, k <= Len(events),
           NEW what, Terminal!Carries(queue, what, n, m),
           \A i \in 1 .. Len(events) : events[i].op = what <=> i <= k,
           \A i \in 1 .. k : events[i].arg = m + i
    PROVE  Terminal!Carries(queue \o events, what, n, m + k)
<1> DEFINE both == queue \o events
           C == Carriers(queue, what)
           B == Carriers(both, what)
           L == Len(queue)
<1>0. /\ both \in Seq(Messages) /\ Len(both) = L + Len(events)
      /\ L \in Nat /\ Len(events) \in Nat
      /\ \A i \in 1 .. L : both[i] = queue[i]
      /\ \A i \in 1 .. Len(events) : both[L + i] = events[i]
  OBVIOUS
<1>00. \A i \in 1 .. L : queue[i].arg \in Nat
  BY MessageArgs
<1>1. /\ \A i \in C : queue[i].arg \in n + 1 .. m
      /\ \A a \in n + 1 .. m : \E i \in C : queue[i].arg = a
      /\ \A i, j \in C : i < j => queue[i].arg < queue[j].arg
  BY CarriesMeans
<1>2. \A i \in C : i \in 1 .. L /\ i \in B /\ both[i] = queue[i]
  BY <1>0 DEF Carriers
<1>3. \A i \in 1 .. k : L + i \in B /\ both[L + i].arg = m + i
  <2> TAKE i \in 1 .. k
  <2>1. i \in 1 .. Len(events) /\ L + i \in 1 .. Len(both)
    BY <1>0
  <2>2. both[L + i] = events[i] /\ events[i].op = what /\ events[i].arg = m + i
    BY <2>1, <1>0
  <2> HIDE DEF both
  <2>3. QED
    BY <2>1, <2>2 DEF Carriers
<1>4. \A i \in B : i \in C \/ (i > L /\ i - L \in 1 .. k /\ both[i].arg = m + (i - L))
  <2> TAKE i \in B
  <2>1. i \in 1 .. L + Len(events) /\ both[i].op = what
    BY <1>0 DEF Carriers
  <2>2. CASE i <= L
    BY <2>1, <2>2, <1>0 DEF Carriers
  <2>3. CASE i > L
    <3>1. i - L \in 1 .. Len(events) /\ i = L + (i - L)
      BY <2>1, <2>3, <1>0
    <3>2. both[i] = events[i - L]
      BY <3>1, <1>0
    <3>3. QED
      BY <3>1, <3>2, <2>1, <2>3, SMTT(30)
  <2>4. QED
    BY <2>1, <2>2, <2>3, <1>0
<1> HIDE DEF B, C, L, both
<1>5. \A i \in B : both[i].arg \in n + 1 .. m + k
  <2> TAKE i \in B
  <2>1. CASE i \in C
    <3>1. both[i].arg \in n + 1 .. m
      BY <2>1, <1>1, <1>2
    <3>2. QED
      BY <3>1
  <2>2. CASE i > L /\ i - L \in 1 .. k /\ both[i].arg = m + (i - L)
    BY <2>2
  <2>3. QED
    BY <2>1, <2>2, <1>4
<1>6. \A a \in n + 1 .. m + k : \E i \in B : both[i].arg = a
  <2> TAKE a \in n + 1 .. m + k
  <2>1. CASE a <= m
    <3>1. PICK i \in C : queue[i].arg = a
      BY <2>1, <1>1
    <3>2. QED
      BY <3>1, <1>2
  <2>2. CASE a > m
    <3>1. a - m \in 1 .. k /\ m + (a - m) = a
      BY <2>2
    <3>2. QED
      BY <3>1, <1>3
  <2>3. QED
    BY <2>1, <2>2
<1>7. \A i, j \in B : i < j => both[i].arg < both[j].arg
  <2> TAKE i, j \in B
  <2> HAVE i < j
  <2>1. CASE i \in C /\ j \in C
    BY <2>1, <1>1, <1>2
  <2>2. CASE i \in C /\ j \notin C
    <3>1. both[i].arg \in n + 1 .. m
      BY <2>2, <1>1, <1>2
    <3>2. j - L \in 1 .. k /\ both[j].arg = m + (j - L)
      BY <2>2, <1>4
    <3>3. QED
      BY <3>1, <3>2
  <2>3. CASE i \notin C
    <3>1. j \notin C
      <4>1. i > L /\ i \in Int
        BY <2>3, <1>4, <1>0 DEF B, Carriers
      <4>2. j \in Int
        BY <1>0 DEF B, Carriers
      <4>3. j > L
        BY <4>1, <4>2, <1>0
      <4>4. \A x \in C : x <= L
        BY <1>2, <1>0
      <4>5. QED
        BY <4>2, <4>3, <4>4, <1>0
    <3>2. /\ i - L \in 1 .. k /\ both[i].arg = m + (i - L)
          /\ j - L \in 1 .. k /\ both[j].arg = m + (j - L)
          /\ i > L /\ j > L
      BY <2>3, <3>1, <1>4
    <3>3. i \in Int /\ j \in Int
      BY <1>0 DEF B, Carriers
    <3>4. QED
      BY <3>2, <3>3, <1>0
  <2>4. QED
    BY <2>1, <2>2, <2>3
<1>8. QED
  <2>1. m + k \in Nat
    OBVIOUS
  <2>2. QED
    BY <2>1, <1>0, <1>5, <1>6, <1>7, CarriesMeans DEF B, both

\* A queue of messages with one more.
LEMMA CarriesAppend ==
    ASSUME NEW queue \in Seq(Messages), NEW e \in Messages, NEW n \in Nat, NEW m \in Nat, n <= m,
           NEW what, Terminal!Carries(queue, what, n, m)
    PROVE  /\ e.op # what => Terminal!Carries(Append(queue, e), what, n, m)
           /\ e.op = what /\ e.arg = m + 1 => Terminal!Carries(Append(queue, e), what, n, m + 1)
<1> DEFINE events == <<e>>
<1>1. events \in Seq(Messages) /\ Len(events) = 1 /\ events[1] = e /\ Append(queue, e) = queue \o events
  BY AppendIsConcat
<1> HIDE DEF events
<1>2. CASE e.op # what
  <2>1. \A i \in 1 .. Len(events) : events[i].op = what <=> i <= 0
    BY <1>1, <1>2
  <2>2. Terminal!Carries(queue \o events, what, n, m + 0)
    BY <2>1, <1>1, CarriesMore
  <2>3. QED
    BY <2>2, <1>1, <1>2
<1>3. CASE e.op = what /\ e.arg = m + 1
  <2>1. \A i \in 1 .. Len(events) : (events[i].op = what <=> i <= 1) /\ events[i].arg = m + i
    BY <1>1, <1>3
  <2>2. 1 <= Len(events) /\ 1 \in Nat /\ 1 .. 1 \subseteq 1 .. Len(events)
    BY <1>1
  <2>3. Terminal!Carries(queue \o events, what, n, m + 1)
    BY <2>1, <2>2, <1>1, CarriesMore
  <2>4. QED
    BY <2>3, <1>1, <1>3
<1>4. QED
  BY <1>2, <1>3

-----------------------------------------------------------------------------
(* What a queue of signals says.                                           *)

Has(queue, what) == \E i \in 1 .. Len(queue) : queue[i].op = what
OnlyDrops(queue) == \A i \in 1 .. Len(queue) : queue[i].op = "disconnected"
DropsLast(queue) ==
    \A i, j \in 1 .. Len(queue) :
       i < j /\ queue[i].op = "disconnected" => queue[j].op = "disconnected"
ExitsLast(queue) ==
    \A i, j \in 1 .. Len(queue) :
       i < j /\ queue[i].op = "remoteExited" => queue[j].op # "dataReceived"

LEMMA QueueTail ==
    ASSUME NEW queue \in Seq(Messages), queue # << >>
    PROVE  /\ Tail(queue) \in Seq(Messages) /\ Head(queue) \in Messages
           /\ Head(queue) = queue[1] /\ 1 \in 1 .. Len(queue)
           /\ \A what : Has(Tail(queue), what) => Has(queue, what)
           /\ Has(queue, Head(queue).op)
           /\ OnlyDrops(queue) => OnlyDrops(Tail(queue))
           /\ DropsLast(queue) => DropsLast(Tail(queue))
           /\ DropsLast(queue) /\ Head(queue).op = "disconnected" => OnlyDrops(queue)
           /\ ExitsLast(queue) => ExitsLast(Tail(queue))
           /\ ExitsLast(queue) /\ Head(queue).op = "remoteExited" => ~Has(Tail(queue), "dataReceived")
<1> DEFINE rest == Tail(queue)
<1>1. /\ rest \in Seq(Messages) /\ Len(rest) = Len(queue) - 1 /\ Len(queue) \in Nat \ {0}
      /\ Head(queue) = queue[1] /\ queue[1] \in Messages
      /\ \A i \in 1 .. Len(rest) : i + 1 \in 1 .. Len(queue) /\ rest[i] = queue[i + 1]
  OBVIOUS
<1>2. \A i, j \in 1 .. Len(rest) : i < j => i + 1 < j + 1
  BY <1>1
<1>3. \A i \in 1 .. Len(rest) : 1 < i + 1
  BY <1>1
<1>4. \A i \in 1 .. Len(queue) : i = 1 \/ 1 < i
  OBVIOUS
<1> HIDE DEF rest
<1>5. /\ \A what : Has(rest, what) => Has(queue, what)
      /\ Has(queue, queue[1].op) /\ 1 \in 1 .. Len(queue)
  BY <1>1 DEF Has
<1>6. OnlyDrops(queue) => OnlyDrops(rest)
  BY <1>1 DEF OnlyDrops
<1>7. ASSUME DropsLast(queue) PROVE DropsLast(rest)
  <2> SUFFICES ASSUME NEW i \in 1 .. Len(rest), NEW j \in 1 .. Len(rest), i < j,
                      rest[i].op = "disconnected"
               PROVE  rest[j].op = "disconnected"
    BY DEF DropsLast
  <2>1. /\ i + 1 \in 1 .. Len(queue) /\ j + 1 \in 1 .. Len(queue) /\ i + 1 < j + 1
        /\ rest[i] = queue[i + 1] /\ rest[j] = queue[j + 1]
    BY <1>1, <1>2
  <2>2. QED
    BY <2>1, <1>7 DEF DropsLast
<1>8. ASSUME DropsLast(queue), queue[1].op = "disconnected" PROVE OnlyDrops(queue)
  BY <1>4, <1>5, <1>8 DEF OnlyDrops, DropsLast
<1>9. ASSUME ExitsLast(queue) PROVE ExitsLast(rest)
  BY <1>1, <1>2, <1>9 DEF ExitsLast
<1>10. ASSUME ExitsLast(queue), queue[1].op = "remoteExited" PROVE ~Has(rest, "dataReceived")
  <2> SUFFICES ASSUME NEW i \in 1 .. Len(rest) PROVE rest[i].op # "dataReceived"
    BY DEF Has
  <2>1. i + 1 \in 1 .. Len(queue) /\ 1 < i + 1 /\ rest[i] = queue[i + 1]
    BY <1>1, <1>3
  <2>2. QED
    BY <2>1, <1>5, <1>10 DEF ExitsLast
<1>11. QED
  BY <1>1, <1>5, <1>6, <1>7, <1>8, <1>9, <1>10 DEF rest

LEMMA QueueMore ==
    ASSUME NEW queue \in Seq(Messages), NEW events \in Seq(Messages)
    PROVE  /\ queue \o events \in Seq(Messages)
           /\ \A what : Has(queue \o events, what) <=> Has(queue, what) \/ Has(events, what)
           /\ OnlyDrops(queue) /\ OnlyDrops(events) => OnlyDrops(queue \o events)
           /\ /\ DropsLast(queue) /\ DropsLast(events)
              /\ Has(queue, "disconnected") => OnlyDrops(events)
              => DropsLast(queue \o events)
           /\ /\ ExitsLast(queue) /\ ExitsLast(events)
              /\ Has(queue, "remoteExited") => ~Has(events, "dataReceived")
              => ExitsLast(queue \o events)
<1> DEFINE both == queue \o events
           L == Len(queue)
<1>1. /\ both \in Seq(Messages) /\ Len(both) = L + Len(events) /\ L \in Nat /\ Len(events) \in Nat
      /\ \A i \in 1 .. L : both[i] = queue[i]
      /\ \A i \in 1 .. Len(events) : both[L + i] = events[i]
  OBVIOUS
<1> HIDE DEF both, L
<1>2. \A i \in 1 .. Len(both) :
         \/ i \in 1 .. L /\ both[i] = queue[i]
         \/ i > L /\ i - L \in 1 .. Len(events) /\ both[i] = events[i - L]
  <2> TAKE i \in 1 .. Len(both)
  <2>1. CASE i <= L
    BY <2>1, <1>1
  <2>2. CASE i > L
    <3>1. i - L \in 1 .. Len(events) /\ i = L + (i - L)
      BY <2>2, <1>1
    <3>2. QED
      BY <3>1, <2>2, <1>1
  <2>3. QED
    BY <2>1, <2>2, <1>1
<1>3. /\ \A i \in 1 .. L : i \in 1 .. Len(both)
      /\ \A i \in 1 .. Len(events) : L + i \in 1 .. Len(both)
  BY <1>1
<1>4. \A what : Has(both, what) <=> Has(queue, what) \/ Has(events, what)
  <2> TAKE what
  <2>1. ASSUME Has(both, what) PROVE Has(queue, what) \/ Has(events, what)
    BY <2>1, <1>2 DEF Has, L
  <2>2. ASSUME Has(queue, what) PROVE Has(both, what)
    BY <2>2, <1>1, <1>3 DEF Has, L
  <2>3. ASSUME Has(events, what) PROVE Has(both, what)
    BY <2>3, <1>1, <1>3 DEF Has
  <2>4. QED
    BY <2>1, <2>2, <2>3
<1>5. OnlyDrops(queue) /\ OnlyDrops(events) => OnlyDrops(both)
  BY <1>2 DEF OnlyDrops, L
<1>6. ASSUME NEW i \in 1 .. Len(both), NEW j \in 1 .. Len(both), i < j
      PROVE  \/ i \in 1 .. L /\ j \in 1 .. L /\ both[i] = queue[i] /\ both[j] = queue[j]
             \/ i \in 1 .. L /\ j - L \in 1 .. Len(events) /\ both[i] = queue[i] /\ both[j] = events[j - L]
             \/ /\ i - L \in 1 .. Len(events) /\ j - L \in 1 .. Len(events) /\ i - L < j - L
                /\ both[i] = events[i - L] /\ both[j] = events[j - L]
  BY <1>1, <1>2, <1>6
<1>7. ASSUME DropsLast(queue), DropsLast(events), Has(queue, "disconnected") => OnlyDrops(events)
      PROVE  DropsLast(both)
  <2> SUFFICES ASSUME NEW i \in 1 .. Len(both), NEW j \in 1 .. Len(both), i < j,
                      both[i].op = "disconnected"
               PROVE  both[j].op = "disconnected"
    BY DEF DropsLast
  <2>1. CASE i \in 1 .. L /\ j \in 1 .. L /\ both[i] = queue[i] /\ both[j] = queue[j]
    BY <2>1, <1>7 DEF DropsLast, L
  <2>2. CASE i \in 1 .. L /\ j - L \in 1 .. Len(events) /\ both[i] = queue[i] /\ both[j] = events[j - L]
    BY <2>2, <1>7 DEF OnlyDrops, Has, L
  <2>3. CASE /\ i - L \in 1 .. Len(events) /\ j - L \in 1 .. Len(events) /\ i - L < j - L
             /\ both[i] = events[i - L] /\ both[j] = events[j - L]
    BY <2>3, <1>7 DEF DropsLast
  <2>4. QED
    BY <2>1, <2>2, <2>3, <1>6
<1>8. ASSUME ExitsLast(queue), ExitsLast(events), Has(queue, "remoteExited") => ~Has(events, "dataReceived")
      PROVE  ExitsLast(both)
  BY <1>6, <1>8 DEF ExitsLast, Has, L
<1>9. QED
  BY <1>1, <1>4, <1>5, <1>7, <1>8 DEF both

\* Messages of another kind carry no numbers.
LEMMA CarriesOver ==
    ASSUME NEW queue \in Seq(Messages), NEW events \in Seq(Messages), NEW n \in Nat, NEW m \in Nat,
           n <= m, NEW what, Terminal!Carries(queue, what, n, m), ~Has(events, what)
    PROVE  Terminal!Carries(queue \o events, what, n, m)
<1>1. Terminal!Carries(queue \o events, what, n, m + 0)
  <2>1. \A i \in 1 .. Len(events) : events[i].op = what <=> i <= 0
    BY DEF Has
  <2>2. 0 \in Nat /\ 0 <= Len(events) /\ \A i \in 1 .. 0 : events[i].arg = m + i
    OBVIOUS
  <2>3. QED
    BY <2>1, <2>2, CarriesMore
<1>2. QED
  BY <1>1

Note(what) == [op |-> what, arg |-> 0]

LEMMA OneNote ==
    ASSUME NEW a \in Words
    PROVE  /\ Terminal!Signals(<<a>>) = <<Note(a)>> /\ Terminal!Signals(Append(<< >>, a)) = <<Note(a)>>
           /\ <<Note(a)>> \in Seq(Messages)
           /\ \A what : Has(<<Note(a)>>, what) <=> what = a
           /\ DropsLast(<<Note(a)>>) /\ ExitsLast(<<Note(a)>>)
           /\ a = "disconnected" => OnlyDrops(<<Note(a)>>)
<1>1. <<Note(a)>> \in Seq(Messages) /\ Len(<<Note(a)>>) = 1 /\ <<Note(a)>>[1].op = a
  BY DEF Note, Messages
<1>2. /\ Terminal!Signals(<<a>>) = <<Note(a)>> /\ Terminal!Signals(Append(<< >>, a)) = <<Note(a)>>
  BY DEF Terminal!Signals, Terminal!Signal, Note
<1>3. QED
  BY <1>1, <1>2 DEF Has, DropsLast, ExitsLast, OnlyDrops

LEMMA TwoNotes ==
    ASSUME NEW a \in Words, NEW b \in Words
    PROVE  /\ Terminal!Signals(Append(<<a>>, b)) = <<Note(a), Note(b)>>
           /\ Terminal!Signals(<<a, b>>) = <<Note(a), Note(b)>>
           /\ <<Note(a), Note(b)>> \in Seq(Messages)
           /\ \A what : Has(<<Note(a), Note(b)>>, what) <=> what = a \/ what = b
           /\ a # "disconnected" => DropsLast(<<Note(a), Note(b)>>)
           /\ b # "dataReceived" => ExitsLast(<<Note(a), Note(b)>>)
<1> DEFINE two == <<Note(a), Note(b)>>
<1>1. two \in Seq(Messages) /\ Len(two) = 2 /\ two[1].op = a /\ two[2].op = b
  BY DEF Note, Messages
<1>2. Terminal!Signals(Append(<<a>>, b)) = two /\ Terminal!Signals(<<a, b>>) = two
  BY DEF Terminal!Signals, Terminal!Signal, Note
<1> HIDE DEF two
<1>3. \A i \in 1 .. 2 : i = 1 \/ i = 2
  OBVIOUS
<1>4. \A what : Has(two, what) <=> what = a \/ what = b
  BY <1>1, <1>3 DEF Has
<1>5. \A i, j \in 1 .. 2 : i < j => i = 1 /\ j = 2
  OBVIOUS
<1>6. (a # "disconnected" => DropsLast(two)) /\ (b # "dataReceived" => ExitsLast(two))
  BY <1>1, <1>5 DEF DropsLast, ExitsLast
<1>7. QED
  BY <1>1, <1>2, <1>4, <1>6 DEF two

-----------------------------------------------------------------------------
(* The SSH terminal tab.                                                   *)

\* A worker starts once, and a stop is somebody's wish.
CallsWanted ==
    \A i \in 1 .. Len(calls) :
       /\ calls[i].op = "start" => i = 1 /\ worker \in {"idle", "ended"}
       /\ calls[i].op = "stop" => userClosing \/ closed

\* Nothing but more of the same follows a "disconnected".
WorkerOrder ==
    /\ DropsLast(signals)
    /\ Has(signals, "disconnected") => worker \in {"down", "ended"}
    /\ worker = "ended" => closed

\* The timer runs only over a worker that is down for good.
TimerMeansDown ==
    timer =>
       /\ worker \in {"down", "ended"} /\ connections <= failures
       /\ ~userClosing /\ ~exited /\ autoReconnect /\ ~connected
       /\ OnlyDrops(signals)

\* A connection that ended, and that nobody asked to end, is a failure.
EndsCounted ==
    /\ connections <= failures + 1
    /\ host = "dropped" => connections <= failures
    /\ worker \in {"down", "ended"} =>
          connections <= failures \/ userClosing \/ closed \/ exited \/ Has(signals, "remoteExited")

\* The keys of a connection are taken, to be sent, or in the calls; a key that
\* comes before the shell is dropped.
RunTo(s, n) ==
    /\ \A i \in 1 .. Len(s) - 1 : s[i + 1] = s[i] + 1
    /\ s # << >> => s[Len(s)] = n
KeysFrom(n) ==
    /\ Terminal!Carries(calls, "queueData", n, typed)
    /\ worker = "open" /\ host = "shell" => RunTo(accepted \o writeBuf, n)
KeysKept ==
    /\ worker \in {"idle", "key"} => accepted = << >> /\ writeBuf = << >>
    /\ \E n \in 0 .. typed : KeysFrom(n)

\* The output is shown, under way to the widget, or still in the channel.
ShownTo(n, m) ==
    /\ n <= m
    /\ shown = [i \in 1 .. n |-> i]
    /\ Terminal!Carries(signals, "dataReceived", n, m)
    /\ unread = [i \in 1 .. produced - m |-> m + i]
OutputKept == \E n, m \in 0 .. produced : ShownTo(n, m)

\* An exit is reported after all output.
ExitLast ==
    /\ exited \/ Has(signals, "remoteExited") => unread = << >> /\ worker \in {"down", "ended"}
    /\ exited => ~Has(signals, "dataReceived")
    /\ ExitsLast(signals)

TerminalInv ==
    /\ Terminal!TypeOK /\ CallsWanted /\ WorkerOrder /\ TimerMeansDown /\ EndsCounted
    /\ KeysKept /\ OutputKept /\ ExitLast

LEMMA QueueTypes ==
    ASSUME Terminal!TypeOK
    PROVE  /\ calls \in Seq(Messages) /\ signals \in Seq(Messages)
           /\ typed \in Nat /\ produced \in Nat /\ failures \in Nat /\ connections \in Nat
<1>1. /\ calls \in Seq(Terminal!OneOf({"start", "proceed", "queueData", "stop"}))
      /\ signals \in Seq(Terminal!OneOf({"errorOccurred", "hostKeyFingerprint", "connected",
              "dataReceived", "authenticationFailed", "remoteExited", "disconnected"}))
      /\ typed \in Nat /\ produced \in Nat /\ failures \in Nat /\ connections \in Nat
  BY Bounds DEF Terminal!TypeOK
<1>2. /\ Terminal!OneOf({"start", "proceed", "queueData", "stop"}) \subseteq Messages
      /\ Terminal!OneOf({"errorOccurred", "hostKeyFingerprint", "connected",
              "dataReceived", "authenticationFailed", "remoteExited", "disconnected"}) \subseteq Messages
  <2>1. 0 .. Keys + Outputs + 1 \subseteq Nat
    BY Bounds
  <2>2. \A ops \in SUBSET Words : Terminal!OneOf(ops) \subseteq Messages
    BY <2>1 DEF Terminal!OneOf, Messages
  <2>3. {"start", "proceed", "queueData", "stop"} \in SUBSET Words
    BY DEF Words
  <2>4. {"errorOccurred", "hostKeyFingerprint", "connected", "dataReceived",
         "authenticationFailed", "remoteExited", "disconnected"} \in SUBSET Words
    BY DEF Words
  <2>5. QED
    BY ONLY <2>2, <2>3, <2>4
<1>3. \A S, T : S \subseteq T => Seq(S) \subseteq Seq(T)
  OBVIOUS
<1>4. QED
  BY <1>1, <1>2, <1>3

\* What taking a call and handling a signal do to the queues.
LEMMA Calls ==
    ASSUME calls \in Seq(Messages)
    PROVE  \A what : Terminal!Takes(what) =>
              /\ calls # << >> /\ calls' = Tail(calls) /\ calls' \in Seq(Messages)
              /\ Head(calls) = calls[1] /\ calls[1] \in Messages
              /\ calls[1].op = what /\ 1 \in 1 .. Len(calls)
              /\ \A i \in 1 .. Len(calls') : i + 1 \in 1 .. Len(calls) /\ calls'[i] = calls[i + 1]
  BY DEF Terminal!Takes

LEMMA CallsLeft ==
    ASSUME calls \in Seq(Messages), CallsWanted, NEW what, Terminal!Takes(what)
    PROVE  \A i \in 1 .. Len(calls') : /\ calls'[i].op # "start"
                                      /\ calls'[i].op = "stop" => userClosing \/ closed
<1> TAKE i \in 1 .. Len(calls')
<1>1. i + 1 \in 1 .. Len(calls) /\ calls'[i] = calls[i + 1] /\ i + 1 # 1
  BY Calls
<1>2. QED
  BY <1>1 DEF CallsWanted

LEMMA NoSignals ==
    /\ \A what : ~Has(<< >>, what)
    /\ OnlyDrops(<< >>) /\ DropsLast(<< >>) /\ ExitsLast(<< >>)
  BY DEF Has, OnlyDrops, DropsLast, ExitsLast

LEMMA Handled ==
    ASSUME signals \in Seq(Messages)
    PROVE  \A what : Terminal!Handles(what) =>
              /\ ~closed /\ signals # << >> /\ signals' = Tail(signals) /\ signals' \in Seq(Messages)
              /\ Head(signals) = signals[1] /\ signals[1].op = what /\ 1 \in 1 .. Len(signals)
              /\ Has(signals, what) /\ \A a : (Has(signals', a) => Has(signals, a))
                               /\ (a # what /\ Has(signals, a) => Has(signals', a))
              /\ OnlyDrops(signals) => what = "disconnected" /\ OnlyDrops(signals')
              /\ DropsLast(signals) => DropsLast(signals')
              /\ DropsLast(signals) /\ what = "disconnected" => OnlyDrops(signals)
              /\ ExitsLast(signals) => ExitsLast(signals')
              /\ ExitsLast(signals) /\ what = "remoteExited" => ~Has(signals', "dataReceived")
<1> SUFFICES ASSUME NEW what, Terminal!Handles(what)
             PROVE  /\ ~closed /\ signals # << >> /\ signals' = Tail(signals) /\ signals' \in Seq(Messages)
                    /\ Head(signals) = signals[1] /\ signals[1].op = what /\ 1 \in 1 .. Len(signals)
                    /\ Has(signals, what) /\ \A a : (Has(signals', a) => Has(signals, a))
                               /\ (a # what /\ Has(signals, a) => Has(signals', a))
                    /\ OnlyDrops(signals) => what = "disconnected" /\ OnlyDrops(signals')
                    /\ DropsLast(signals) => DropsLast(signals')
                    /\ DropsLast(signals) /\ what = "disconnected" => OnlyDrops(signals)
                    /\ ExitsLast(signals) => ExitsLast(signals')
                    /\ ExitsLast(signals) /\ what = "remoteExited" => ~Has(signals', "dataReceived")
  OBVIOUS
<1>1. ~closed /\ signals # << >> /\ Head(signals).op = what /\ signals' = Tail(signals)
  BY DEF Terminal!Handles
<1>2. 1 \in 1 .. Len(signals) /\ (OnlyDrops(signals) => signals[1].op = "disconnected")
  BY <1>1, QueueTail DEF OnlyDrops
<1>3. \A a : a # what /\ Has(signals, a) => Has(signals', a)
  <2> SUFFICES ASSUME NEW a, a # what, Has(signals, a)
               PROVE  Has(signals', a)
    OBVIOUS
  <2>1. PICK i \in 1 .. Len(signals) : signals[i].op = a
    BY DEF Has
  <2>2. i # 1
    BY <2>1, <1>1
  <2>3. i - 1 \in 1 .. Len(signals') /\ signals'[i - 1] = signals[i]
    BY <2>2, <1>1
  <2>4. QED
    BY <2>1, <2>3 DEF Has
<1>4. QED
  BY <1>1, <1>2, <1>3, QueueTail

LEMMA DropsAlone ==
    ASSUME OnlyDrops(signals)
    PROVE  ~Has(signals, "remoteExited") /\ ~Has(signals, "dataReceived")
  BY DEF OnlyDrops, Has

\* What emitting one signal, or a signal and then "disconnected", does to them.
LEMMA Emits ==
    ASSUME signals \in Seq(Messages), NEW a \in Words,
           Terminal!Emit(<<a>>) \/ Terminal!Emit(Append(<< >>, a))
    PROVE  /\ signals' = signals \o <<Note(a)>> /\ signals' \in Seq(Messages)
           /\ \A w : Has(signals', w) <=> Has(signals, w) \/ w = a
           /\ OnlyDrops(signals) /\ a = "disconnected" => OnlyDrops(signals')
           /\ DropsLast(signals) /\ (Has(signals, "disconnected") => a = "disconnected")
                 => DropsLast(signals')
           /\ ExitsLast(signals) /\ a # "dataReceived" => ExitsLast(signals')
           /\ \A n, m \in Nat : \A what :
                 n <= m /\ what # a /\ Terminal!Carries(signals, what, n, m)
                    => Terminal!Carries(signals', what, n, m)
<1> DEFINE events == <<Note(a)>>
<1>1. /\ events \in Seq(Messages) /\ \A what : Has(events, what) <=> what = a
      /\ DropsLast(events) /\ ExitsLast(events) /\ (a = "disconnected" => OnlyDrops(events))
  BY OneNote
<1>2. signals' = signals \o events
  BY OneNote DEF Terminal!Emit
<1> HIDE DEF events
<1>3. \A n, m \in Nat : \A what :
         n <= m /\ what # a /\ Terminal!Carries(signals, what, n, m)
            => Terminal!Carries(signals', what, n, m)
  BY <1>1, <1>2, CarriesOver
<1>4. QED
  BY <1>1, <1>2, <1>3, QueueMore DEF events

LEMMA EmitsTwo ==
    ASSUME signals \in Seq(Messages), NEW a \in Words, a \notin {"disconnected", "dataReceived"},
           Terminal!Emit(Append(<<a>>, "disconnected"))
    PROVE  /\ signals' \in Seq(Messages) /\ signals' = signals \o <<Note(a), Note("disconnected")>>
           /\ \A w : Has(signals', w) <=> Has(signals, w) \/ w \in {a, "disconnected"}
           /\ DropsLast(signals) /\ ~Has(signals, "disconnected") => DropsLast(signals')
           /\ ExitsLast(signals) => ExitsLast(signals')
           /\ \A n, m \in Nat : \A what :
                 n <= m /\ what \notin {a, "disconnected"} /\ Terminal!Carries(signals, what, n, m)
                    => Terminal!Carries(signals', what, n, m)
<1>0. PICK b \in Words : b = "disconnected" /\ a # b /\ a # "dataReceived" /\ b # "dataReceived"
  BY DEF Words
<1> DEFINE events == <<Note(a), Note(b)>>
<1>1. /\ events \in Seq(Messages) /\ \A what : Has(events, what) <=> what \in {a, "disconnected"}
      /\ DropsLast(events) /\ ExitsLast(events)
  <2>1. /\ events \in Seq(Messages) /\ \A what : Has(events, what) <=> what = a \/ what = b
        /\ DropsLast(events) /\ ExitsLast(events)
    BY <1>0, TwoNotes, ZenonT(30)
  <2>2. QED
    BY <2>1, <1>0
<1>2. signals' = signals \o events
  BY <1>0, TwoNotes DEF Terminal!Emit
<1> HIDE DEF events
<1>3. \A n, m \in Nat : \A what :
         n <= m /\ what \notin {a, "disconnected"} /\ Terminal!Carries(signals, what, n, m)
            => Terminal!Carries(signals', what, n, m)
  BY <1>1, <1>2, CarriesOver
<1>4. QED
  BY <1>0, <1>1, <1>2, <1>3, QueueMore DEF events

LEMMA EmitsDown ==
    ASSUME signals \in Seq(Messages), Terminal!Emit(Append(<< >>, "disconnected"))
    PROVE  /\ signals' \in Seq(Messages) /\ signals' = signals \o <<Note("disconnected")>>
           /\ \A w : Has(signals', w) <=> Has(signals, w) \/ w = "disconnected"
           /\ OnlyDrops(signals) => OnlyDrops(signals')
           /\ DropsLast(signals) => DropsLast(signals')
           /\ ExitsLast(signals) => ExitsLast(signals')
           /\ \A n, m \in Nat : \A what :
                 n <= m /\ what # "disconnected" /\ Terminal!Carries(signals, what, n, m)
                    => Terminal!Carries(signals', what, n, m)
<1>1. PICK a \in Words : a = "disconnected"
  BY DEF Words
<1>2. Terminal!Emit(Append(<< >>, a)) /\ a # "dataReceived"
  BY <1>1
<1>3. QED
  BY <1>1, <1>2, Emits

\* A drain of the channel posts the output, and then its end if it has come.
LEMMA Posts ==
    ASSUME signals \in Seq(Messages), NEW k \in Nat, NEW m \in Nat, unread = [i \in 1 .. k |-> m + i],
           NEW what \in {"none", "exit"},
           signals' = signals \o Terminal!Posted(IF what = "none" THEN << >>
                                                 ELSE <<"remoteExited", "disconnected">>)
    PROVE  /\ signals' \in Seq(Messages)
           /\ \A w : Has(signals', w) <=> \/ Has(signals, w)
                                          \/ w = "dataReceived" /\ k # 0
                                          \/ what = "exit" /\ w \in {"remoteExited", "disconnected"}
           /\ DropsLast(signals) /\ ~Has(signals, "disconnected") => DropsLast(signals')
           /\ ExitsLast(signals) /\ ~Has(signals, "remoteExited") => ExitsLast(signals')
           /\ \A n \in Nat : n <= m /\ Terminal!Carries(signals, "dataReceived", n, m)
                               => Terminal!Carries(signals', "dataReceived", n, m + k)
<1> DEFINE data == [i \in 1 .. k |-> [op |-> "dataReceived", arg |-> m + i]]
           more == signals \o data
           two == <<Note("remoteExited"), Note("disconnected")>>
<1>1. data \in Seq(Messages) /\ Len(data) = k /\ \A i \in 1 .. k : data[i].op = "dataReceived" /\ data[i].arg = m + i
  <2>1. \A i \in 1 .. k : [op |-> "dataReceived", arg |-> m + i] \in Messages
    BY DEF Messages, Words
  <2>2. data \in [1 .. k -> Messages] /\ DOMAIN data = 1 .. k
    BY <2>1
  <2>3. \A i \in 1 .. k : data[i].op = "dataReceived" /\ data[i].arg = m + i
    OBVIOUS
  <2> HIDE DEF data
  <2>4. data \in Seq(Messages) /\ Len(data) = k
    BY <2>2
  <2>5. QED
    BY <2>3, <2>4
<1>2. [i \in 1 .. Len(unread) |-> Terminal!Signal("dataReceived", unread[i])] = data
  BY DEF Terminal!Signal
<1>3. /\ two \in Seq(Messages) /\ DropsLast(two) /\ ExitsLast(two)
      /\ Terminal!Signals(<<"remoteExited", "disconnected">>) = two
      /\ \A w : Has(two, w) <=> w \in {"remoteExited", "disconnected"}
  <2>1. PICK a \in Words, b \in Words : a = "remoteExited" /\ b = "disconnected"
    BY DEF Words
  <2>2. a # "disconnected" /\ b # "dataReceived"
    BY <2>1
  <2>3. QED
    BY <2>1, <2>2, TwoNotes
<1>4. Terminal!Signals(<< >>) = << >>
  BY DEF Terminal!Signals
<1> HIDE DEF data, two
<1>5. signals' = IF what = "none" THEN more ELSE more \o two
  <2>1. CASE what = "none"
    <3>1. signals' = signals \o (data \o << >>)
      BY <2>1, <1>2, <1>4 DEF Terminal!Posted
    <3>2. data \o << >> = data
      BY <1>1
    <3>3. QED
      BY <3>1, <3>2, <2>1
  <2>2. CASE what = "exit"
    <3>1. signals' = signals \o (data \o two)
      BY <2>2, <1>2, <1>3 DEF Terminal!Posted
    <3>2. signals \o (data \o two) = more \o two
      BY <1>1, <1>3, SMTT(30)
    <3>3. QED
      BY <3>1, <3>2, <2>2
  <2>3. QED
    BY <2>1, <2>2
<1>6. /\ \A w : Has(data, w) <=> w = "dataReceived" /\ k # 0
      /\ DropsLast(data) /\ ExitsLast(data)
  <2>1. k # 0 => 1 \in 1 .. k
    OBVIOUS
  <2>2. k = 0 => 1 .. k = {}
    OBVIOUS
  <2>3. QED
    BY <2>1, <2>2, <1>1 DEF Has, DropsLast, ExitsLast
<1>7. /\ more \in Seq(Messages)
      /\ \A w : Has(more, w) <=> Has(signals, w) \/ (w = "dataReceived" /\ k # 0)
      /\ DropsLast(signals) /\ ~Has(signals, "disconnected") => DropsLast(more)
      /\ ExitsLast(signals) /\ ~Has(signals, "remoteExited") => ExitsLast(more)
  BY <1>1, <1>6, QueueMore
<1>8. ASSUME NEW n \in Nat, n <= m, Terminal!Carries(signals, "dataReceived", n, m)
      PROVE  Terminal!Carries(more, "dataReceived", n, m + k)
  <2>1. /\ \A i \in 1 .. Len(data) : data[i].op = "dataReceived" <=> i <= k
        /\ k <= Len(data)
    BY <1>1
  <2>2. QED
    BY <2>1, <1>1, <1>8, CarriesMore
<1> HIDE DEF more
<1>9. CASE what = "none"
  BY <1>5, <1>7, <1>8, <1>9
<1>10. CASE what = "exit"
  <2>1. signals' = more \o two
    BY <1>5, <1>10
  <2>2. /\ more \o two \in Seq(Messages)
        /\ \A w : Has(more \o two, w) <=> Has(more, w) \/ w \in {"remoteExited", "disconnected"}
        /\ DropsLast(more) /\ ~Has(more, "disconnected") => DropsLast(more \o two)
        /\ ExitsLast(more) => ExitsLast(more \o two)
    BY <1>3, <1>7, QueueMore
  <2>3. ~Has(two, "dataReceived")
    BY <1>3
  <2>4. ASSUME NEW n \in Nat, n <= m, Terminal!Carries(more, "dataReceived", n, m + k)
        PROVE  Terminal!Carries(more \o two, "dataReceived", n, m + k)
    <3>1. m + k \in Nat /\ n <= m + k
      BY <2>4
    <3>2. QED
      BY <3>1, <2>3, <2>4, <1>3, <1>7, CarriesOver
  <2>5. DropsLast(signals) /\ ~Has(signals, "disconnected") => DropsLast(signals')
    <3>1. ~Has(signals, "disconnected") => ~Has(more, "disconnected")
      BY <1>7
    <3>2. QED
      BY <3>1, <2>1, <2>2, <1>7
  <2>6. ExitsLast(signals) /\ ~Has(signals, "remoteExited") => ExitsLast(signals')
    BY <2>1, <2>2, <1>7
  <2>10. signals' \in Seq(Messages)
    BY <2>1, <2>2
  <2>7. \A n \in Nat : n <= m /\ Terminal!Carries(signals, "dataReceived", n, m)
                         => Terminal!Carries(signals', "dataReceived", n, m + k)
    BY <2>1, <2>4, <1>8
  <2>8. \A w : Has(signals', w) <=>
           Has(signals, w) \/ (w = "dataReceived" /\ k # 0) \/ w \in {"remoteExited", "disconnected"}
    BY <2>1, <2>2, <1>7
  <2>9. QED
    BY <2>5, <2>6, <2>7, <2>8, <2>10, <1>10
<1>11. QED
  BY <1>9, <1>10

\* A timer that runs is over a connection that ended as a failure.
LEMMA TimerStep ==
    ASSUME TerminalInv, Terminal!Next
    PROVE  TimerMeansDown'
<1>a. TerminalInv /\ calls \in Seq(Messages) /\ signals \in Seq(Messages)
  BY QueueTypes DEF TerminalInv
<1>1. CASE Terminal!StartOpens /\ worker # "ended"
  BY <1>1, <1>a, Calls, Emits
  DEF Terminal!StartOpens, Terminal!widget, Terminal!remote, TerminalInv, TimerMeansDown, WorkerOrder, CallsWanted, EndsCounted, Words
<1>2. CASE Terminal!StartUnreachable /\ worker # "ended"
  BY <1>2, <1>a, Calls, Emits
  DEF Terminal!StartUnreachable, Terminal!Fails, Terminal!widget, Terminal!remote, TerminalInv, TimerMeansDown, WorkerOrder, CallsWanted, EndsCounted, Words
<1>3. CASE Terminal!StartFails /\ worker # "ended"
  BY <1>3, <1>a, Calls, EmitsTwo
  DEF Terminal!StartFails, Terminal!Fails, Terminal!Teardown, Terminal!widget, Terminal!remote, TerminalInv, TimerMeansDown, WorkerOrder, CallsWanted, EndsCounted, Words
<1>4. CASE Terminal!ProceedOpens /\ worker # "ended"
  BY <1>4, <1>a, Calls, Emits
  DEF Terminal!ProceedOpens, Terminal!widget, Terminal!remote, TerminalInv, TimerMeansDown, WorkerOrder, CallsWanted, EndsCounted, Words
<1>5. CASE Terminal!ProceedFails /\ worker # "ended"
  BY <1>5, <1>a, Calls, EmitsTwo
  DEF Terminal!ProceedFails, Terminal!Fails, Terminal!Teardown, Terminal!widget, Terminal!remote, TerminalInv, TimerMeansDown, WorkerOrder, CallsWanted, EndsCounted, Words
<1>6. CASE Terminal!ProceedTooLate /\ worker # "ended"
  BY <1>6, <1>a, Calls
  DEF Terminal!ProceedTooLate, Terminal!widget, Terminal!remote, TerminalInv, TimerMeansDown, WorkerOrder, CallsWanted, EndsCounted, Words
<1>7. CASE Terminal!QueueData /\ worker # "ended"
  BY <1>7, <1>a, Calls, Emits
  DEF Terminal!QueueData, Terminal!widget, Terminal!remote, TerminalInv, TimerMeansDown, WorkerOrder, CallsWanted, EndsCounted, Words
<1>8. CASE Terminal!Stop /\ worker # "ended"
  BY <1>8, <1>a, Calls, EmitsDown
  DEF Terminal!Stop, Terminal!Teardown, Terminal!widget, Terminal!remote, TerminalInv, TimerMeansDown, WorkerOrder, CallsWanted, EndsCounted, Words
<1>9. CASE Terminal!PumpReads /\ worker # "ended"
  BY <1>9, <1>a
  DEF Terminal!PumpReads, Terminal!widget, Terminal!remote, TerminalInv, TimerMeansDown, WorkerOrder, CallsWanted, EndsCounted, Words
<1>10. CASE Terminal!PumpSeesExit /\ worker # "ended"
  BY <1>10, <1>a
  DEF Terminal!PumpSeesExit, Terminal!widget, Terminal!remote, TerminalInv, TimerMeansDown, WorkerOrder, CallsWanted, EndsCounted, Words
<1>11. CASE Terminal!PumpSeesDrop /\ worker # "ended"
  BY <1>11, <1>a, EmitsDown
  DEF Terminal!PumpSeesDrop, Terminal!Teardown, Terminal!widget, Terminal!remote, TerminalInv, TimerMeansDown, WorkerOrder, CallsWanted, EndsCounted, Words
<1>12. CASE Terminal!ThreadEnds /\ worker # "ended"
  BY <1>12, <1>a
  DEF Terminal!ThreadEnds, Terminal!widget, Terminal!remote, TerminalInv, TimerMeansDown, WorkerOrder, CallsWanted, EndsCounted, Words
<1>13. CASE Terminal!Output
  BY <1>13, <1>a
  DEF Terminal!Output, Terminal!widget, Terminal!remote, TerminalInv, TimerMeansDown, WorkerOrder, CallsWanted, EndsCounted, Words
<1>14. CASE Terminal!Exit
  BY <1>14, <1>a
  DEF Terminal!Exit, Terminal!widget, Terminal!remote, TerminalInv, TimerMeansDown, WorkerOrder, CallsWanted, EndsCounted, Words
<1>15. CASE Terminal!Drop
  BY <1>15, <1>a
  DEF Terminal!Drop, Terminal!Fails, Terminal!widget, Terminal!remote, TerminalInv, TimerMeansDown, WorkerOrder, CallsWanted, EndsCounted, Words
<1>16. CASE Terminal!ShowData
  BY <1>16, <1>a, Handled
  DEF Terminal!ShowData, Terminal!widget, Terminal!remote, TerminalInv, TimerMeansDown, WorkerOrder, CallsWanted, EndsCounted, Words
<1>17. CASE Terminal!OnHostKey
  BY <1>17, <1>a, Handled
  DEF Terminal!OnHostKey, Terminal!Call, Terminal!widget, Terminal!remote, TerminalInv, TimerMeansDown, WorkerOrder, CallsWanted, EndsCounted, Words
<1>18. CASE Terminal!OnConnected
  BY <1>18, <1>a, Handled
  DEF Terminal!OnConnected, Terminal!widget, Terminal!remote, TerminalInv, TimerMeansDown, WorkerOrder, CallsWanted, EndsCounted, Words
<1>19. CASE Terminal!OnError
  BY <1>19, <1>a, Handled
  DEF Terminal!OnError, Terminal!widget, Terminal!remote, TerminalInv, TimerMeansDown, WorkerOrder, CallsWanted, EndsCounted, Words
<1>20. CASE Terminal!OnAuthenticationFailed
  BY <1>20, <1>a, Handled
  DEF Terminal!OnAuthenticationFailed, Terminal!widget, Terminal!remote, TerminalInv, TimerMeansDown, WorkerOrder, CallsWanted, EndsCounted, Words
<1>21. CASE Terminal!OnRemoteExited
  BY <1>21, <1>a, Handled
  DEF Terminal!OnRemoteExited, Terminal!widget, Terminal!remote, TerminalInv, TimerMeansDown, WorkerOrder, CallsWanted, EndsCounted, Words
<1>22. CASE Terminal!OnDisconnected
  BY <1>22, <1>a, Handled, DropsAlone
  DEF Terminal!OnDisconnected, Terminal!Retries, Terminal!widget, Terminal!remote, TerminalInv, TimerMeansDown, WorkerOrder, CallsWanted, EndsCounted, Words
<1>23. CASE Terminal!Reconnect
  BY <1>23, <1>a
  DEF Terminal!Reconnect, Terminal!NewConnection, Terminal!Call, Terminal!widget, Terminal!remote, TerminalInv, TimerMeansDown, WorkerOrder, CallsWanted, EndsCounted, Words
<1>24. CASE Terminal!Type
  BY <1>24, <1>a
  DEF Terminal!Type, Terminal!widget, Terminal!remote, TerminalInv, TimerMeansDown, WorkerOrder, CallsWanted, EndsCounted, Words
<1>25. CASE Terminal!DisconnectSession
  BY <1>25, <1>a
  DEF Terminal!DisconnectSession, Terminal!StopTimer, Terminal!widget, Terminal!remote, TerminalInv, TimerMeansDown, WorkerOrder, CallsWanted, EndsCounted, Words
<1>26. CASE Terminal!CloseTab
  BY <1>26, <1>a
  DEF Terminal!CloseTab, Terminal!Call, Terminal!widget, Terminal!remote, TerminalInv, TimerMeansDown, WorkerOrder, CallsWanted, EndsCounted, Words
<1>27. QED
  BY <1>1, <1>2, <1>3, <1>4, <1>5, <1>6, <1>7, <1>8, <1>9, <1>10, <1>11, <1>12, <1>13, <1>14, <1>15, <1>16, <1>17, <1>18, <1>19, <1>20, <1>21, <1>22, <1>23, <1>24, <1>25, <1>26
  DEF Terminal!Next, Terminal!Worker, Terminal!Slots, Terminal!Server, Terminal!Widget, Terminal!User

\* What waits for the worker is wanted.
LEMMA CallsStep ==
    ASSUME TerminalInv, Terminal!Next
    PROVE  CallsWanted'
<1>a. TerminalInv /\ calls \in Seq(Messages) /\ signals \in Seq(Messages)
  BY QueueTypes DEF TerminalInv
<1>1. CASE Terminal!StartOpens /\ worker # "ended"
  BY <1>1, <1>a, Calls, CallsLeft
  DEF Terminal!StartOpens, Terminal!widget, Terminal!remote, TerminalInv, CallsWanted
<1>2. CASE Terminal!StartUnreachable /\ worker # "ended"
  BY <1>2, <1>a, Calls, CallsLeft
  DEF Terminal!StartUnreachable, Terminal!Fails, Terminal!widget, Terminal!remote, TerminalInv, CallsWanted
<1>3. CASE Terminal!StartFails /\ worker # "ended"
  BY <1>3, <1>a, Calls, CallsLeft
  DEF Terminal!StartFails, Terminal!Fails, Terminal!Teardown, Terminal!widget, Terminal!remote, TerminalInv, CallsWanted
<1>4. CASE Terminal!ProceedOpens /\ worker # "ended"
  BY <1>4, <1>a, Calls, CallsLeft
  DEF Terminal!ProceedOpens, Terminal!widget, Terminal!remote, TerminalInv, CallsWanted
<1>5. CASE Terminal!ProceedFails /\ worker # "ended"
  BY <1>5, <1>a, Calls, CallsLeft
  DEF Terminal!ProceedFails, Terminal!Fails, Terminal!Teardown, Terminal!widget, Terminal!remote, TerminalInv, CallsWanted
<1>6. CASE Terminal!ProceedTooLate /\ worker # "ended"
  BY <1>6, <1>a, Calls, CallsLeft
  DEF Terminal!ProceedTooLate, Terminal!widget, Terminal!remote, TerminalInv, CallsWanted
<1>7. CASE Terminal!QueueData /\ worker # "ended"
  BY <1>7, <1>a, Calls, CallsLeft
  DEF Terminal!QueueData, Terminal!widget, Terminal!remote, TerminalInv, CallsWanted
<1>8. CASE Terminal!Stop /\ worker # "ended"
  BY <1>8, <1>a, Calls, CallsLeft
  DEF Terminal!Stop, Terminal!Teardown, Terminal!widget, Terminal!remote, TerminalInv, CallsWanted
<1>9. CASE Terminal!PumpReads /\ worker # "ended"
  BY <1>9, <1>a
  DEF Terminal!PumpReads, Terminal!widget, Terminal!remote, TerminalInv, CallsWanted
<1>10. CASE Terminal!PumpSeesExit /\ worker # "ended"
  BY <1>10, <1>a
  DEF Terminal!PumpSeesExit, Terminal!widget, Terminal!remote, TerminalInv, CallsWanted
<1>11. CASE Terminal!PumpSeesDrop /\ worker # "ended"
  BY <1>11, <1>a
  DEF Terminal!PumpSeesDrop, Terminal!Teardown, Terminal!widget, Terminal!remote, TerminalInv, CallsWanted
<1>12. CASE Terminal!ThreadEnds /\ worker # "ended"
  BY <1>12, <1>a
  DEF Terminal!ThreadEnds, Terminal!widget, Terminal!remote, TerminalInv, CallsWanted
<1>13. CASE Terminal!Output
  BY <1>13, <1>a
  DEF Terminal!Output, Terminal!widget, Terminal!remote, TerminalInv, CallsWanted
<1>14. CASE Terminal!Exit
  BY <1>14, <1>a
  DEF Terminal!Exit, Terminal!widget, Terminal!remote, TerminalInv, CallsWanted
<1>15. CASE Terminal!Drop
  BY <1>15, <1>a
  DEF Terminal!Drop, Terminal!Fails, Terminal!widget, Terminal!remote, TerminalInv, CallsWanted
<1>16. CASE Terminal!ShowData
  BY <1>16, <1>a
  DEF Terminal!ShowData, Terminal!widget, Terminal!remote, TerminalInv, CallsWanted
<1>17. CASE Terminal!OnHostKey
  BY <1>17, <1>a
  DEF Terminal!OnHostKey, Terminal!Call, Terminal!widget, Terminal!remote, TerminalInv, CallsWanted
<1>18. CASE Terminal!OnConnected
  BY <1>18, <1>a
  DEF Terminal!OnConnected, Terminal!widget, Terminal!remote, TerminalInv, CallsWanted
<1>19. CASE Terminal!OnError
  BY <1>19, <1>a
  DEF Terminal!OnError, Terminal!widget, Terminal!remote, TerminalInv, CallsWanted
<1>20. CASE Terminal!OnAuthenticationFailed
  BY <1>20, <1>a
  DEF Terminal!OnAuthenticationFailed, Terminal!widget, Terminal!remote, TerminalInv, CallsWanted
<1>21. CASE Terminal!OnRemoteExited
  BY <1>21, <1>a
  DEF Terminal!OnRemoteExited, Terminal!widget, Terminal!remote, TerminalInv, CallsWanted
<1>22. CASE Terminal!OnDisconnected
  BY <1>22, <1>a
  DEF Terminal!OnDisconnected, Terminal!Retries, Terminal!widget, Terminal!remote, TerminalInv, CallsWanted
<1>23. CASE Terminal!Reconnect
  BY <1>23, <1>a
  DEF Terminal!Reconnect, Terminal!NewConnection, Terminal!Call, Terminal!widget, Terminal!remote, TerminalInv, CallsWanted
<1>24. CASE Terminal!Type
  BY <1>24, <1>a
  DEF Terminal!Type, Terminal!Call, Terminal!widget, Terminal!remote, TerminalInv, CallsWanted
<1>25. CASE Terminal!DisconnectSession
  BY <1>25, <1>a
  DEF Terminal!DisconnectSession, Terminal!StopTimer, Terminal!Call, Terminal!widget, Terminal!remote, TerminalInv, CallsWanted
<1>26. CASE Terminal!CloseTab
  BY <1>26, <1>a
  DEF Terminal!CloseTab, Terminal!Call, Terminal!widget, Terminal!remote, TerminalInv, CallsWanted
<1>27. QED
  BY <1>1, <1>2, <1>3, <1>4, <1>5, <1>6, <1>7, <1>8, <1>9, <1>10, <1>11, <1>12, <1>13, <1>14, <1>15, <1>16, <1>17, <1>18, <1>19, <1>20, <1>21, <1>22, <1>23, <1>24, <1>25, <1>26
  DEF Terminal!Next, Terminal!Worker, Terminal!Slots, Terminal!Server, Terminal!Widget, Terminal!User

\* A worker that is down stays so, and says no more.
LEMMA OrderStep ==
    ASSUME TerminalInv, Terminal!Next
    PROVE  WorkerOrder'
<1>a. TerminalInv /\ calls \in Seq(Messages) /\ signals \in Seq(Messages)
  BY QueueTypes DEF TerminalInv
<1>b. OutputKept /\ produced \in Nat
  BY QueueTypes DEF TerminalInv
<1>1. CASE Terminal!StartOpens /\ worker # "ended"
  BY <1>1, <1>a, Calls, Emits
  DEF Terminal!StartOpens, Terminal!widget, Terminal!remote, TerminalInv, WorkerOrder, CallsWanted, Words
<1>2. CASE Terminal!StartUnreachable /\ worker # "ended"
  BY <1>2, <1>a, Calls, Emits
  DEF Terminal!StartUnreachable, Terminal!Fails, Terminal!widget, Terminal!remote, TerminalInv, WorkerOrder, CallsWanted, Words
<1>3. CASE Terminal!StartFails /\ worker # "ended"
  BY <1>3, <1>a, Calls, EmitsTwo
  DEF Terminal!StartFails, Terminal!Fails, Terminal!Teardown, Terminal!widget, Terminal!remote, TerminalInv, WorkerOrder, CallsWanted, Words
<1>4. CASE Terminal!ProceedOpens /\ worker # "ended"
  BY <1>4, <1>a, Calls, Emits
  DEF Terminal!ProceedOpens, Terminal!widget, Terminal!remote, TerminalInv, WorkerOrder, CallsWanted, Words
<1>5. CASE Terminal!ProceedFails /\ worker # "ended"
  BY <1>5, <1>a, Calls, EmitsTwo
  DEF Terminal!ProceedFails, Terminal!Fails, Terminal!Teardown, Terminal!widget, Terminal!remote, TerminalInv, WorkerOrder, CallsWanted, Words
<1>6. CASE Terminal!ProceedTooLate /\ worker # "ended"
  BY <1>6, <1>a, Calls
  DEF Terminal!ProceedTooLate, Terminal!widget, Terminal!remote, TerminalInv, WorkerOrder, CallsWanted, Words
<1>7. CASE Terminal!QueueData /\ worker # "ended"
  BY <1>7, <1>a, Calls, Emits
  DEF Terminal!QueueData, Terminal!widget, Terminal!remote, TerminalInv, WorkerOrder, CallsWanted, Words
<1>8. CASE Terminal!Stop /\ worker # "ended"
  BY <1>8, <1>a, Calls, EmitsDown
  DEF Terminal!Stop, Terminal!Teardown, Terminal!widget, Terminal!remote, TerminalInv, WorkerOrder, CallsWanted, Words
<1>9. CASE Terminal!PumpReads /\ worker # "ended"
  <2>1. PICK k \in Nat, m \in Nat : unread = [i \in 1 .. k |-> m + i]
    <3>1. PICK n \in 0 .. produced, m \in 0 .. produced : unread = [i \in 1 .. produced - m |-> m + i]
      BY <1>b DEF OutputKept, ShownTo
    <3>2. produced - m \in Nat /\ m \in Nat
      BY <1>b
    <3>3. QED
      BY <3>1, <3>2
  <2>2. signals' = signals \o Terminal!Posted(IF "none" = "none" THEN << >>
                                              ELSE <<"remoteExited", "disconnected">>)
    BY <1>9 DEF Terminal!PumpReads
  <2>3. QED
    BY <2>1, <2>2, <1>9, <1>a, Posts DEF Terminal!PumpReads, TerminalInv, WorkerOrder, Terminal!widget, Terminal!remote
<1>10. CASE Terminal!PumpSeesExit /\ worker # "ended"
  <2>1. PICK k \in Nat, m \in Nat : unread = [i \in 1 .. k |-> m + i]
    <3>1. PICK n \in 0 .. produced, m \in 0 .. produced : unread = [i \in 1 .. produced - m |-> m + i]
      BY <1>b DEF OutputKept, ShownTo
    <3>2. produced - m \in Nat /\ m \in Nat
      BY <1>b
    <3>3. QED
      BY <3>1, <3>2
  <2>2. signals' = signals \o Terminal!Posted(IF "exit" = "none" THEN << >>
                                              ELSE <<"remoteExited", "disconnected">>)
    BY <1>10 DEF Terminal!PumpSeesExit
  <2>3. QED
    BY <2>1, <2>2, <1>10, <1>a, Posts DEF Terminal!PumpSeesExit, TerminalInv, WorkerOrder, Terminal!widget, Terminal!remote
<1>11. CASE Terminal!PumpSeesDrop /\ worker # "ended"
  BY <1>11, <1>a, EmitsDown
  DEF Terminal!PumpSeesDrop, Terminal!Teardown, Terminal!widget, Terminal!remote, TerminalInv, WorkerOrder, CallsWanted, Words
<1>12. CASE Terminal!ThreadEnds /\ worker # "ended"
  BY <1>12, <1>a
  DEF Terminal!ThreadEnds, Terminal!widget, Terminal!remote, TerminalInv, WorkerOrder, CallsWanted, Words
<1>13. CASE Terminal!Output
  BY <1>13, <1>a
  DEF Terminal!Output, Terminal!widget, Terminal!remote, TerminalInv, WorkerOrder, CallsWanted, Words
<1>14. CASE Terminal!Exit
  BY <1>14, <1>a
  DEF Terminal!Exit, Terminal!widget, Terminal!remote, TerminalInv, WorkerOrder, CallsWanted, Words
<1>15. CASE Terminal!Drop
  BY <1>15, <1>a
  DEF Terminal!Drop, Terminal!Fails, Terminal!widget, Terminal!remote, TerminalInv, WorkerOrder, CallsWanted, Words
<1>16. CASE Terminal!ShowData
  BY <1>16, <1>a, Handled
  DEF Terminal!ShowData, Terminal!widget, Terminal!remote, TerminalInv, WorkerOrder, CallsWanted, Words
<1>17. CASE Terminal!OnHostKey
  BY <1>17, <1>a, Handled
  DEF Terminal!OnHostKey, Terminal!Call, Terminal!widget, Terminal!remote, TerminalInv, WorkerOrder, CallsWanted, Words
<1>18. CASE Terminal!OnConnected
  BY <1>18, <1>a, Handled
  DEF Terminal!OnConnected, Terminal!widget, Terminal!remote, TerminalInv, WorkerOrder, CallsWanted, Words
<1>19. CASE Terminal!OnError
  BY <1>19, <1>a, Handled
  DEF Terminal!OnError, Terminal!widget, Terminal!remote, TerminalInv, WorkerOrder, CallsWanted, Words
<1>20. CASE Terminal!OnAuthenticationFailed
  BY <1>20, <1>a, Handled
  DEF Terminal!OnAuthenticationFailed, Terminal!widget, Terminal!remote, TerminalInv, WorkerOrder, CallsWanted, Words
<1>21. CASE Terminal!OnRemoteExited
  BY <1>21, <1>a, Handled
  DEF Terminal!OnRemoteExited, Terminal!widget, Terminal!remote, TerminalInv, WorkerOrder, CallsWanted, Words
<1>22. CASE Terminal!OnDisconnected
  BY <1>22, <1>a, Handled
  DEF Terminal!OnDisconnected, Terminal!Retries, Terminal!widget, Terminal!remote, TerminalInv, WorkerOrder, CallsWanted, Words
<1>23. CASE Terminal!Reconnect
  BY <1>23, <1>a, NoSignals
  DEF Terminal!Reconnect, Terminal!NewConnection, Terminal!Call, Terminal!widget, Terminal!remote, TerminalInv, WorkerOrder, CallsWanted, Words
<1>24. CASE Terminal!Type
  BY <1>24, <1>a
  DEF Terminal!Type, Terminal!Call, Terminal!widget, Terminal!remote, TerminalInv, WorkerOrder, CallsWanted, Words
<1>25. CASE Terminal!DisconnectSession
  BY <1>25, <1>a
  DEF Terminal!DisconnectSession, Terminal!StopTimer, Terminal!Call, Terminal!widget, Terminal!remote, TerminalInv, WorkerOrder, CallsWanted, Words
<1>26. CASE Terminal!CloseTab
  BY <1>26, <1>a
  DEF Terminal!CloseTab, Terminal!Call, Terminal!widget, Terminal!remote, TerminalInv, WorkerOrder, CallsWanted, Words
<1>27. QED
  BY <1>1, <1>2, <1>3, <1>4, <1>5, <1>6, <1>7, <1>8, <1>9, <1>10, <1>11, <1>12, <1>13, <1>14, <1>15, <1>16, <1>17, <1>18, <1>19, <1>20, <1>21, <1>22, <1>23, <1>24, <1>25, <1>26
  DEF Terminal!Next, Terminal!Worker, Terminal!Slots, Terminal!Server, Terminal!Widget, Terminal!User

\* A connection that ends by itself is counted as a failure.
LEMMA CountStep ==
    ASSUME TerminalInv, Terminal!Next
    PROVE  EndsCounted'
<1>a. TerminalInv /\ calls \in Seq(Messages) /\ signals \in Seq(Messages)
  BY QueueTypes DEF TerminalInv
<1>b. OutputKept /\ produced \in Nat
  BY QueueTypes DEF TerminalInv
<1>c. connections \in Nat /\ failures \in Nat
  BY QueueTypes DEF TerminalInv
<1>1. CASE Terminal!StartOpens /\ worker # "ended"
  BY <1>1, <1>a, <1>c, Calls, Emits
  DEF Terminal!StartOpens, Terminal!widget, Terminal!remote, TerminalInv, EndsCounted, WorkerOrder, CallsWanted, TimerMeansDown, Words
<1>2. CASE Terminal!StartUnreachable /\ worker # "ended"
  BY <1>2, <1>a, <1>c, Calls, Emits
  DEF Terminal!StartUnreachable, Terminal!Fails, Terminal!widget, Terminal!remote, TerminalInv, EndsCounted, WorkerOrder, CallsWanted, TimerMeansDown, Words
<1>3. CASE Terminal!StartFails /\ worker # "ended"
  BY <1>3, <1>a, <1>c, Calls, EmitsTwo
  DEF Terminal!StartFails, Terminal!Fails, Terminal!Teardown, Terminal!widget, Terminal!remote, TerminalInv, EndsCounted, WorkerOrder, CallsWanted, TimerMeansDown, Words
<1>4. CASE Terminal!ProceedOpens /\ worker # "ended"
  BY <1>4, <1>a, <1>c, Calls, Emits
  DEF Terminal!ProceedOpens, Terminal!widget, Terminal!remote, TerminalInv, EndsCounted, WorkerOrder, CallsWanted, TimerMeansDown, Words
<1>5. CASE Terminal!ProceedFails /\ worker # "ended"
  BY <1>5, <1>a, <1>c, Calls, EmitsTwo
  DEF Terminal!ProceedFails, Terminal!Fails, Terminal!Teardown, Terminal!widget, Terminal!remote, TerminalInv, EndsCounted, WorkerOrder, CallsWanted, TimerMeansDown, Words
<1>6. CASE Terminal!ProceedTooLate /\ worker # "ended"
  BY <1>6, <1>a, <1>c, Calls
  DEF Terminal!ProceedTooLate, Terminal!widget, Terminal!remote, TerminalInv, EndsCounted, WorkerOrder, CallsWanted, TimerMeansDown, Words
<1>7. CASE Terminal!QueueData /\ worker # "ended"
  BY <1>7, <1>a, <1>c, Calls, Emits
  DEF Terminal!QueueData, Terminal!widget, Terminal!remote, TerminalInv, EndsCounted, WorkerOrder, CallsWanted, TimerMeansDown, Words
<1>8. CASE Terminal!Stop /\ worker # "ended"
  BY <1>8, <1>a, <1>c, Calls, EmitsDown
  DEF Terminal!Stop, Terminal!Teardown, Terminal!widget, Terminal!remote, TerminalInv, EndsCounted, WorkerOrder, CallsWanted, TimerMeansDown, Words
<1>9. CASE Terminal!PumpReads /\ worker # "ended"
  BY <1>9, <1>a, <1>c
  DEF Terminal!PumpReads, Terminal!widget, Terminal!remote, TerminalInv, EndsCounted, WorkerOrder, CallsWanted, TimerMeansDown, Words
<1>10. CASE Terminal!PumpSeesExit /\ worker # "ended"
  <2>1. PICK k \in Nat, m \in Nat : unread = [i \in 1 .. k |-> m + i]
    <3>1. PICK n \in 0 .. produced, m \in 0 .. produced : unread = [i \in 1 .. produced - m |-> m + i]
      BY <1>b DEF OutputKept, ShownTo
    <3>2. produced - m \in Nat /\ m \in Nat
      BY <1>b
    <3>3. QED
      BY <3>1, <3>2
  <2>2. signals' = signals \o Terminal!Posted(IF "exit" = "none" THEN << >>
                                              ELSE <<"remoteExited", "disconnected">>)
    BY <1>10 DEF Terminal!PumpSeesExit
  <2>3. QED
    BY <2>1, <2>2, <1>10, <1>a, Posts DEF Terminal!PumpSeesExit, TerminalInv, EndsCounted, Terminal!widget, Terminal!remote
<1>11. CASE Terminal!PumpSeesDrop /\ worker # "ended"
  BY <1>11, <1>a, <1>c, EmitsDown
  DEF Terminal!PumpSeesDrop, Terminal!Teardown, Terminal!widget, Terminal!remote, TerminalInv, EndsCounted, WorkerOrder, CallsWanted, TimerMeansDown, Words
<1>12. CASE Terminal!ThreadEnds /\ worker # "ended"
  BY <1>12, <1>a, <1>c
  DEF Terminal!ThreadEnds, Terminal!widget, Terminal!remote, TerminalInv, EndsCounted, WorkerOrder, CallsWanted, TimerMeansDown, Words
<1>13. CASE Terminal!Output
  BY <1>13, <1>a, <1>c
  DEF Terminal!Output, Terminal!widget, Terminal!remote, TerminalInv, EndsCounted, WorkerOrder, CallsWanted, TimerMeansDown, Words
<1>14. CASE Terminal!Exit
  BY <1>14, <1>a, <1>c
  DEF Terminal!Exit, Terminal!widget, Terminal!remote, TerminalInv, EndsCounted, WorkerOrder, CallsWanted, TimerMeansDown, Words
<1>15. CASE Terminal!Drop
  BY <1>15, <1>a, <1>c
  DEF Terminal!Drop, Terminal!Fails, Terminal!widget, Terminal!remote, TerminalInv, EndsCounted, WorkerOrder, CallsWanted, TimerMeansDown, Words
<1>16. CASE Terminal!ShowData
  BY <1>16, <1>a, <1>c, Handled
  DEF Terminal!ShowData, Terminal!widget, Terminal!remote, TerminalInv, EndsCounted, WorkerOrder, CallsWanted, TimerMeansDown, Words
<1>17. CASE Terminal!OnHostKey
  BY <1>17, <1>a, <1>c, Handled
  DEF Terminal!OnHostKey, Terminal!Call, Terminal!widget, Terminal!remote, TerminalInv, EndsCounted, WorkerOrder, CallsWanted, TimerMeansDown, Words
<1>18. CASE Terminal!OnConnected
  BY <1>18, <1>a, <1>c, Handled
  DEF Terminal!OnConnected, Terminal!widget, Terminal!remote, TerminalInv, EndsCounted, WorkerOrder, CallsWanted, TimerMeansDown, Words
<1>19. CASE Terminal!OnError
  BY <1>19, <1>a, <1>c, Handled
  DEF Terminal!OnError, Terminal!widget, Terminal!remote, TerminalInv, EndsCounted, WorkerOrder, CallsWanted, TimerMeansDown, Words
<1>20. CASE Terminal!OnAuthenticationFailed
  BY <1>20, <1>a, <1>c, Handled
  DEF Terminal!OnAuthenticationFailed, Terminal!widget, Terminal!remote, TerminalInv, EndsCounted, WorkerOrder, CallsWanted, TimerMeansDown, Words
<1>21. CASE Terminal!OnRemoteExited
  BY <1>21, <1>a, <1>c, Handled
  DEF Terminal!OnRemoteExited, Terminal!widget, Terminal!remote, TerminalInv, EndsCounted, WorkerOrder, CallsWanted, TimerMeansDown, Words
<1>22. CASE Terminal!OnDisconnected
  BY <1>22, <1>a, <1>c, Handled
  DEF Terminal!OnDisconnected, Terminal!Retries, Terminal!widget, Terminal!remote, TerminalInv, EndsCounted, WorkerOrder, CallsWanted, TimerMeansDown, Words
<1>23. CASE Terminal!Reconnect
  BY <1>23, <1>a, <1>c
  DEF Terminal!Reconnect, Terminal!NewConnection, Terminal!Call, Terminal!widget, Terminal!remote, TerminalInv, EndsCounted, WorkerOrder, CallsWanted, TimerMeansDown, Words
<1>24. CASE Terminal!Type
  BY <1>24, <1>a, <1>c
  DEF Terminal!Type, Terminal!Call, Terminal!widget, Terminal!remote, TerminalInv, EndsCounted, WorkerOrder, CallsWanted, TimerMeansDown, Words
<1>25. CASE Terminal!DisconnectSession
  BY <1>25, <1>a, <1>c
  DEF Terminal!DisconnectSession, Terminal!StopTimer, Terminal!Call, Terminal!widget, Terminal!remote, TerminalInv, EndsCounted, WorkerOrder, CallsWanted, TimerMeansDown, Words
<1>26. CASE Terminal!CloseTab
  BY <1>26, <1>a, <1>c
  DEF Terminal!CloseTab, Terminal!Call, Terminal!widget, Terminal!remote, TerminalInv, EndsCounted, WorkerOrder, CallsWanted, TimerMeansDown, Words
<1>27. QED
  BY <1>1, <1>2, <1>3, <1>4, <1>5, <1>6, <1>7, <1>8, <1>9, <1>10, <1>11, <1>12, <1>13, <1>14, <1>15, <1>16, <1>17, <1>18, <1>19, <1>20, <1>21, <1>22, <1>23, <1>24, <1>25, <1>26
  DEF Terminal!Next, Terminal!Worker, Terminal!Slots, Terminal!Server, Terminal!Widget, Terminal!User

\* A run of keys that goes on, and one of which the channel takes a part.
LEMMA RunGoesOn ==
    ASSUME NEW s \in Seq(Nat), NEW n \in Nat, RunTo(s, n)
    PROVE  RunTo(Append(s, n + 1), n + 1)
<1> DEFINE t == Append(s, n + 1)
<1>1. /\ Len(s) \in Nat /\ Len(t) = Len(s) + 1 /\ t[Len(s) + 1] = n + 1
      /\ \A i \in 1 .. Len(s) : t[i] = s[i]
      /\ Len(s) # 0 => s # << >>
  OBVIOUS
<1> HIDE DEF t
<1>2. ASSUME NEW i \in 1 .. Len(t) - 1 PROVE t[i + 1] = t[i] + 1
  <2>1. CASE i < Len(s)
    <3>1. i \in 1 .. Len(s) - 1 /\ i + 1 \in 1 .. Len(s) /\ i \in 1 .. Len(s)
      BY <2>1, <1>1
    <3>2. QED
      BY <3>1, <1>1 DEF RunTo
  <2>2. CASE i = Len(s)
    BY <2>2, <1>1 DEF RunTo
  <2>3. QED
    BY <2>1, <2>2, <1>1
<1>3. QED
  BY <1>1, <1>2 DEF RunTo, t

LEMMA FlushKeeps ==
    ASSUME NEW s \in Seq(Nat), NEW buf \in Seq(Nat), NEW n \in 0 .. Len(buf)
    PROVE  (s \o SubSeq(buf, 1, n)) \o SubSeq(buf, n + 1, Len(buf)) = s \o buf
<1> DEFINE one == SubSeq(buf, 1, n)
           two == SubSeq(buf, n + 1, Len(buf))
<1>1. /\ one \in Seq(Nat) /\ Len(one) = n /\ \A i \in 1 .. n : one[i] = buf[i]
      /\ two \in Seq(Nat) /\ Len(two) = Len(buf) - n
      /\ \A i \in 1 .. Len(buf) - n : two[i] = buf[n + i]
  BY SubSeqProperties
<1> HIDE DEF one, two
<1>2. Len(buf) \in Nat /\ n \in Nat /\ n <= Len(buf)
  OBVIOUS
<1>3. one \o two = buf
  <2>1. /\ one \o two \in Seq(Nat) /\ Len(one \o two) = Len(one) + Len(two)
        /\ \A i \in 1 .. Len(one) + Len(two) : (one \o two)[i] = IF i <= Len(one) THEN one[i] ELSE two[i - Len(one)]
    BY <1>1, ConcatProperties
  <2> DEFINE both == one \o two
  <2>2. both \in Seq(Nat) /\ Len(both) = Len(buf)
    BY <2>1, <1>1, <1>2
  <2>3. ASSUME NEW i \in 1 .. Len(buf) PROVE both[i] = buf[i]
    <3>1. both[i] = IF i <= n THEN one[i] ELSE two[i - n]
      BY <2>1, <1>1, <1>2, SMTT(30)
    <3> HIDE DEF both
    <3>2. CASE i <= n
      BY <3>1, <3>2, <1>1
    <3>3. CASE ~(i <= n)
      <4>1. i - n \in 1 .. Len(buf) - n /\ n + (i - n) = i
        BY <3>3, <1>2
      <4>2. QED
        BY <4>1, <3>1, <3>3, <1>1
    <3>4. QED
      BY <3>2, <3>3
  <2> HIDE DEF both
  <2>4. both = buf
    BY <2>2, <2>3, SeqEqual
  <2>5. QED
    BY <2>4 DEF both
<1>4. (s \o one) \o two = s \o (one \o two)
  BY <1>1, SMTT(30)
<1>5. QED
  BY <1>3, <1>4 DEF one, two

LEMMA KeysLeft ==
    ASSUME calls \in Seq(Messages), NEW n \in Nat, typed \in Nat, n <= typed,
           Terminal!Carries(calls, "queueData", n, typed), NEW what, Terminal!Takes(what)
    PROVE  /\ what # "queueData" => Terminal!Carries(calls', "queueData", n, typed)
           /\ what = "queueData" => /\ n < typed /\ Head(calls).arg = n + 1
                                    /\ Terminal!Carries(calls', "queueData", n + 1, typed)
  BY CarriesTail DEF Terminal!Takes

LEMMA KeysMore ==
    ASSUME calls \in Seq(Messages), NEW n \in Nat, typed \in Nat, n <= typed,
           Terminal!Carries(calls, "queueData", n, typed), NEW what, NEW k \in Nat,
           calls' = Append(calls, Terminal!Call(what, k)), what \in Words
    PROVE  /\ what # "queueData" => Terminal!Carries(calls', "queueData", n, typed)
           /\ what = "queueData" /\ k = typed + 1 => Terminal!Carries(calls', "queueData", n, typed + 1)
<1> DEFINE e == Terminal!Call(what, k)
<1>1. e \in Messages /\ e.op = what /\ e.arg = k /\ calls' = Append(calls, e)
  BY DEF Messages, Terminal!Call
<1> HIDE DEF e
<1>2. QED
  BY <1>1, CarriesAppend

LEMMA KeyTypes ==
    ASSUME Terminal!TypeOK
    PROVE  accepted \in Seq(Nat) /\ writeBuf \in Seq(Nat)
<1>1. accepted \in Seq(1 .. Keys) /\ writeBuf \in Seq(1 .. Keys) /\ 1 .. Keys \subseteq Nat
  BY Bounds DEF Terminal!TypeOK
<1>2. \A S, T : S \subseteq T => Seq(S) \subseteq Seq(T)
  OBVIOUS
<1>3. QED
  BY <1>1, <1>2

\* No key is lost or overtaken between the keyboard and the channel.
LEMMA KeysStep ==
    ASSUME TerminalInv, Terminal!Next
    PROVE  KeysKept'
<1>a. TerminalInv /\ calls \in Seq(Messages) /\ signals \in Seq(Messages)
  BY QueueTypes DEF TerminalInv
<1>b. PICK n \in Nat : n \in 0 .. typed /\ KeysFrom(n) /\ Terminal!Carries(calls, "queueData", n, typed) /\ n <= typed /\ typed \in Nat
  BY QueueTypes DEF TerminalInv, KeysKept, KeysFrom
<1>t. accepted \in Seq(Nat) /\ writeBuf \in Seq(Nat)
  BY KeyTypes DEF TerminalInv
<1>1. CASE Terminal!StartOpens /\ worker # "ended"
  <2>1. Terminal!Carries(calls', "queueData", n, typed) /\ UNCHANGED <<typed, accepted, writeBuf, host>>
    BY <1>1, <1>a, <1>b, KeysLeft DEF Terminal!StartOpens, Terminal!Teardown, Terminal!remote
  <2>2. worker' # "open" \/ worker' = worker
    BY <1>1 DEF Terminal!StartOpens, Terminal!Teardown
  <2>3. worker' \in {"idle", "key"} => worker \in {"idle", "key"} \/ worker' = worker
    BY <1>1, <1>a, Calls DEF Terminal!StartOpens, TerminalInv, CallsWanted
  <2>4. KeysFrom(n)' /\ n \in 0 .. typed'
    BY <2>1, <2>2, <1>b DEF KeysFrom
  <2>5. QED
    BY <2>1, <2>3, <2>4, <1>a DEF KeysKept, TerminalInv
<1>2. CASE Terminal!StartUnreachable /\ worker # "ended"
  <2>1. Terminal!Carries(calls', "queueData", n, typed) /\ UNCHANGED <<typed, accepted, writeBuf, host>>
    BY <1>2, <1>a, <1>b, KeysLeft DEF Terminal!StartUnreachable, Terminal!Teardown, Terminal!remote
  <2>2. worker' # "open" \/ worker' = worker
    BY <1>2 DEF Terminal!StartUnreachable, Terminal!Teardown
  <2>3. worker' \in {"idle", "key"} => worker \in {"idle", "key"} \/ worker' = worker
    BY <1>2, <1>a DEF Terminal!StartUnreachable, Terminal!Teardown, TerminalInv, CallsWanted
  <2>4. KeysFrom(n)' /\ n \in 0 .. typed'
    BY <2>1, <2>2, <1>b DEF KeysFrom
  <2>5. QED
    BY <2>1, <2>3, <2>4, <1>a DEF KeysKept, TerminalInv
<1>3. CASE Terminal!StartFails /\ worker # "ended"
  <2>1. Terminal!Carries(calls', "queueData", n, typed) /\ UNCHANGED <<typed, accepted, writeBuf, host>>
    BY <1>3, <1>a, <1>b, KeysLeft DEF Terminal!StartFails, Terminal!Teardown, Terminal!remote
  <2>2. worker' # "open" \/ worker' = worker
    BY <1>3 DEF Terminal!StartFails, Terminal!Teardown
  <2>3. worker' \in {"idle", "key"} => worker \in {"idle", "key"} \/ worker' = worker
    BY <1>3, <1>a DEF Terminal!StartFails, Terminal!Teardown, TerminalInv, CallsWanted
  <2>4. KeysFrom(n)' /\ n \in 0 .. typed'
    BY <2>1, <2>2, <1>b DEF KeysFrom
  <2>5. QED
    BY <2>1, <2>3, <2>4, <1>a DEF KeysKept, TerminalInv
<1>4. CASE Terminal!ProceedOpens /\ worker # "ended"
  <2>1. Terminal!Carries(calls', "queueData", n, typed) /\ UNCHANGED <<typed, accepted, writeBuf>>
    BY <1>4, <1>a, <1>b, KeysLeft DEF Terminal!ProceedOpens
  <2>2. accepted \o writeBuf = << >>
    BY <1>4, <1>a DEF TerminalInv, KeysKept, Terminal!ProceedOpens
  <2>3. KeysFrom(n)' /\ n \in 0 .. typed'
    BY <2>1, <2>2, <1>b DEF KeysFrom, RunTo
  <2>4. QED
    BY <2>3, <1>4 DEF KeysKept, Terminal!ProceedOpens
<1>5. CASE Terminal!ProceedFails /\ worker # "ended"
  <2>1. Terminal!Carries(calls', "queueData", n, typed) /\ UNCHANGED <<typed, accepted, writeBuf, host>>
    BY <1>5, <1>a, <1>b, KeysLeft DEF Terminal!ProceedFails, Terminal!Teardown, Terminal!remote
  <2>2. worker' # "open" \/ worker' = worker
    BY <1>5 DEF Terminal!ProceedFails, Terminal!Teardown
  <2>3. worker' \in {"idle", "key"} => worker \in {"idle", "key"} \/ worker' = worker
    BY <1>5, <1>a DEF Terminal!ProceedFails, Terminal!Teardown, TerminalInv, CallsWanted
  <2>4. KeysFrom(n)' /\ n \in 0 .. typed'
    BY <2>1, <2>2, <1>b DEF KeysFrom
  <2>5. QED
    BY <2>1, <2>3, <2>4, <1>a DEF KeysKept, TerminalInv
<1>6. CASE Terminal!ProceedTooLate /\ worker # "ended"
  <2>1. Terminal!Carries(calls', "queueData", n, typed) /\ UNCHANGED <<typed, accepted, writeBuf, host>>
    BY <1>6, <1>a, <1>b, KeysLeft DEF Terminal!ProceedTooLate, Terminal!Teardown, Terminal!remote
  <2>2. worker' # "open" \/ worker' = worker
    BY <1>6 DEF Terminal!ProceedTooLate, Terminal!Teardown
  <2>3. worker' \in {"idle", "key"} => worker \in {"idle", "key"} \/ worker' = worker
    BY <1>6, <1>a DEF Terminal!ProceedTooLate, Terminal!Teardown, TerminalInv, CallsWanted
  <2>4. KeysFrom(n)' /\ n \in 0 .. typed'
    BY <2>1, <2>2, <1>b DEF KeysFrom
  <2>5. QED
    BY <2>1, <2>3, <2>4, <1>a DEF KeysKept, TerminalInv
<1>7. CASE Terminal!QueueData /\ worker # "ended"
  <2>1. /\ n < typed /\ Head(calls).arg = n + 1 /\ Terminal!Carries(calls', "queueData", n + 1, typed)
        /\ UNCHANGED <<typed, worker, host>>
    BY <1>7, <1>a, <1>b, KeysLeft DEF Terminal!QueueData, Terminal!remote
  <2> DEFINE buf == Append(writeBuf, n + 1)
  <2>2. CASE worker = "open" /\ host = "shell"
    <3>1. PICK j \in 0 .. Len(buf) : /\ accepted' = accepted \o SubSeq(buf, 1, j)
                                     /\ writeBuf' = SubSeq(buf, j + 1, Len(buf))
      BY <2>1, <2>2, <1>7 DEF Terminal!QueueData, Terminal!Flush, Terminal!Left
    <3>2. buf \in Seq(Nat) /\ accepted \o buf = Append(accepted \o writeBuf, n + 1) /\ accepted \o writeBuf \in Seq(Nat)
      BY <1>t, <1>b, SMTT(30)
    <3>3. accepted' \o writeBuf' = Append(accepted \o writeBuf, n + 1)
      BY <3>1, <3>2, <1>t, FlushKeeps
    <3> HIDE DEF buf
    <3>4. RunTo(accepted' \o writeBuf', n + 1)
      BY <3>2, <3>3, <2>2, <1>b, RunGoesOn DEF KeysFrom
    <3>5. KeysFrom(n + 1)' /\ n + 1 \in 0 .. typed'
      BY <3>4, <2>1, <1>b DEF KeysFrom
    <3>6. QED
      BY <3>5, <2>1, <2>2 DEF KeysKept
  <2>3. CASE ~(worker = "open" /\ host = "shell")
    <3>1. KeysFrom(n + 1)' /\ n + 1 \in 0 .. typed'
      BY <2>1, <2>3, <1>b DEF KeysFrom
    <3>2. worker \in {"idle", "key"} => UNCHANGED <<accepted, writeBuf>>
      BY <1>7 DEF Terminal!QueueData
    <3>3. QED
      BY <3>1, <3>2, <2>1, <1>a DEF KeysKept, TerminalInv
  <2>4. QED
    BY <2>2, <2>3
<1>8. CASE Terminal!Stop /\ worker # "ended"
  <2>1. Terminal!Carries(calls', "queueData", n, typed) /\ UNCHANGED <<typed, accepted, writeBuf, host>>
    BY <1>8, <1>a, <1>b, KeysLeft DEF Terminal!Stop, Terminal!Teardown, Terminal!remote
  <2>2. worker' # "open" \/ worker' = worker
    BY <1>8 DEF Terminal!Stop, Terminal!Teardown
  <2>3. worker' \in {"idle", "key"} => worker \in {"idle", "key"} \/ worker' = worker
    BY <1>8, <1>a DEF Terminal!Stop, Terminal!Teardown, TerminalInv, CallsWanted
  <2>4. KeysFrom(n)' /\ n \in 0 .. typed'
    BY <2>1, <2>2, <1>b DEF KeysFrom
  <2>5. QED
    BY <2>1, <2>3, <2>4, <1>a DEF KeysKept, TerminalInv
<1>9. CASE Terminal!PumpReads /\ worker # "ended"
  <2>1. PICK j \in 0 .. Len(writeBuf) : /\ accepted' = accepted \o SubSeq(writeBuf, 1, j)
                                       /\ writeBuf' = SubSeq(writeBuf, j + 1, Len(writeBuf))
    BY <1>9, KeyTypes, <1>t DEF Terminal!PumpReads, Terminal!Flush, Terminal!Left
  <2>2. accepted' \o writeBuf' = accepted \o writeBuf
    BY <2>1, <1>t, FlushKeeps
  <2>3. KeysFrom(n)' /\ n \in 0 .. typed'
    BY <2>2, <1>9, <1>b DEF KeysFrom, Terminal!PumpReads
  <2>4. QED
    BY <2>3, <1>9 DEF KeysKept, Terminal!PumpReads
<1>10. CASE Terminal!PumpSeesExit /\ worker # "ended"
  BY <1>10, <1>a, <1>b
  DEF Terminal!PumpSeesExit, Terminal!widget, Terminal!remote, TerminalInv, KeysKept, KeysFrom
<1>11. CASE Terminal!PumpSeesDrop /\ worker # "ended"
  BY <1>11, <1>a, <1>b
  DEF Terminal!PumpSeesDrop, Terminal!Teardown, Terminal!widget, Terminal!remote, TerminalInv, KeysKept, KeysFrom
<1>12. CASE Terminal!ThreadEnds /\ worker # "ended"
  BY <1>12, <1>a, <1>b
  DEF Terminal!ThreadEnds, Terminal!widget, Terminal!remote, TerminalInv, KeysKept, KeysFrom
<1>13. CASE Terminal!Output
  BY <1>13, <1>a, <1>b
  DEF Terminal!Output, Terminal!widget, Terminal!remote, TerminalInv, KeysKept, KeysFrom
<1>14. CASE Terminal!Exit
  BY <1>14, <1>a, <1>b
  DEF Terminal!Exit, Terminal!widget, Terminal!remote, TerminalInv, KeysKept, KeysFrom
<1>15. CASE Terminal!Drop
  BY <1>15, <1>a, <1>b
  DEF Terminal!Drop, Terminal!Fails, Terminal!widget, Terminal!remote, TerminalInv, KeysKept, KeysFrom
<1>16. CASE Terminal!ShowData
  BY <1>16, <1>a, <1>b
  DEF Terminal!ShowData, Terminal!widget, Terminal!remote, TerminalInv, KeysKept, KeysFrom
<1>17. CASE Terminal!OnHostKey
  <2>1. /\ UNCHANGED <<typed, worker, host, accepted, writeBuf>>
        /\ calls' = calls \/ \E k \in {0, 1} : calls' = Append(calls, Terminal!Call("proceed", k))
    BY <1>17 DEF Terminal!OnHostKey, Terminal!remote
  <2>2. "proceed" \in Words /\ {0, 1} \subseteq Nat
    BY DEF Words
  <2>3. Terminal!Carries(calls', "queueData", n, typed)
    BY <2>1, <2>2, <1>a, <1>b, KeysMore
  <2>4. KeysFrom(n)' /\ n \in 0 .. typed'
    BY <2>1, <2>3, <1>b DEF KeysFrom
  <2>5. QED
    BY <2>1, <2>4, <1>a DEF KeysKept, TerminalInv
<1>18. CASE Terminal!OnConnected
  BY <1>18, <1>a, <1>b
  DEF Terminal!OnConnected, Terminal!widget, Terminal!remote, TerminalInv, KeysKept, KeysFrom
<1>19. CASE Terminal!OnError
  BY <1>19, <1>a, <1>b
  DEF Terminal!OnError, Terminal!widget, Terminal!remote, TerminalInv, KeysKept, KeysFrom
<1>20. CASE Terminal!OnAuthenticationFailed
  BY <1>20, <1>a, <1>b
  DEF Terminal!OnAuthenticationFailed, Terminal!widget, Terminal!remote, TerminalInv, KeysKept, KeysFrom
<1>21. CASE Terminal!OnRemoteExited
  BY <1>21, <1>a, <1>b
  DEF Terminal!OnRemoteExited, Terminal!widget, Terminal!remote, TerminalInv, KeysKept, KeysFrom
<1>22. CASE Terminal!OnDisconnected
  BY <1>22, <1>a, <1>b
  DEF Terminal!OnDisconnected, Terminal!Retries, Terminal!widget, Terminal!remote, TerminalInv, KeysKept, KeysFrom
<1>23. CASE Terminal!Reconnect
  <2> DEFINE queue == <<[op |-> "start", arg |-> 0]>>
  <2>1. /\ calls' = queue /\ worker' = "idle" /\ accepted' = << >> /\ writeBuf' = << >>
        /\ UNCHANGED typed
    BY <1>23 DEF Terminal!Reconnect, Terminal!NewConnection, Terminal!Call
  <2>2. queue \in Seq(Messages) /\ Carriers(queue, "queueData") = {} /\ typed + 1 .. typed = {}
    BY <1>b DEF Messages, Words, Carriers
  <2> HIDE DEF queue
  <2>3. Terminal!Carries(queue, "queueData", typed, typed)
    BY <2>2, <1>b, CarriesMeans
  <2>4. KeysFrom(typed)' /\ typed \in 0 .. typed'
    BY <2>1, <2>3, <1>b DEF KeysFrom
  <2>5. QED
    BY <2>1, <2>4 DEF KeysKept
<1>24. CASE Terminal!Type
  <2>1. calls' = Append(calls, Terminal!Call("queueData", typed + 1)) /\ typed' = typed + 1
    BY <1>24 DEF Terminal!Type
  <2>2. "queueData" \in Words /\ typed + 1 \in Nat
    BY <1>b DEF Words
  <2>3. Terminal!Carries(calls', "queueData", n, typed + 1)
    BY <2>1, <2>2, <1>a, <1>b, KeysMore
  <2>4. KeysFrom(n)' /\ n \in 0 .. typed'
    BY <2>1, <2>3, <1>24, <1>b DEF KeysFrom, Terminal!Type, Terminal!remote
  <2>5. QED
    BY <2>4, <1>24, <1>a DEF KeysKept, Terminal!Type, TerminalInv
<1>25. CASE Terminal!DisconnectSession
  <2>1. /\ UNCHANGED <<typed, worker, host, accepted, writeBuf>>
        /\ calls' = calls \/ \E k \in {0, 1} : calls' = Append(calls, Terminal!Call("stop", k))
    BY <1>25 DEF Terminal!DisconnectSession, Terminal!remote
  <2>2. "stop" \in Words /\ {0, 1} \subseteq Nat
    BY DEF Words
  <2>3. Terminal!Carries(calls', "queueData", n, typed)
    BY <2>1, <2>2, <1>a, <1>b, KeysMore
  <2>4. KeysFrom(n)' /\ n \in 0 .. typed'
    BY <2>1, <2>3, <1>b DEF KeysFrom
  <2>5. QED
    BY <2>1, <2>4, <1>a DEF KeysKept, TerminalInv
<1>26. CASE Terminal!CloseTab
  <2>1. /\ UNCHANGED <<typed, worker, host, accepted, writeBuf>>
        /\ calls' = calls \/ \E k \in {0, 1} : calls' = Append(calls, Terminal!Call("stop", k))
    BY <1>26 DEF Terminal!CloseTab, Terminal!remote
  <2>2. "stop" \in Words /\ {0, 1} \subseteq Nat
    BY DEF Words
  <2>3. Terminal!Carries(calls', "queueData", n, typed)
    BY <2>1, <2>2, <1>a, <1>b, KeysMore
  <2>4. KeysFrom(n)' /\ n \in 0 .. typed'
    BY <2>1, <2>3, <1>b DEF KeysFrom
  <2>5. QED
    BY <2>1, <2>4, <1>a DEF KeysKept, TerminalInv
<1>27. QED
  BY <1>1, <1>2, <1>3, <1>4, <1>5, <1>6, <1>7, <1>8, <1>9, <1>10, <1>11, <1>12, <1>13, <1>14, <1>15, <1>16, <1>17, <1>18, <1>19, <1>20, <1>21, <1>22, <1>23, <1>24, <1>25, <1>26
  DEF Terminal!Next, Terminal!Worker, Terminal!Slots, Terminal!Server, Terminal!Widget, Terminal!User

\* No output is lost or overtaken between the channel and the screen.
LEMMA OutputStep ==
    ASSUME TerminalInv, Terminal!Next
    PROVE  OutputKept'
<1>a. TerminalInv /\ calls \in Seq(Messages) /\ signals \in Seq(Messages)
  BY QueueTypes DEF TerminalInv
<1>b. PICK n \in Nat, m \in Nat : /\ ShownTo(n, m) /\ produced \in Nat
                                 /\ n <= m /\ n \in 0 .. produced /\ m \in 0 .. produced
  BY QueueTypes DEF TerminalInv, OutputKept, ShownTo
<1>w. {"hostKeyFingerprint", "errorOccurred", "connected", "authenticationFailed", "disconnected"} \subseteq Words
  BY DEF Words
<1>1. CASE Terminal!StartOpens /\ worker # "ended"
  <2>1. UNCHANGED <<produced, shown, unread>>
    BY <1>1 DEF Terminal!StartOpens, Terminal!Teardown, Terminal!remote
  <2>2. Terminal!Carries(signals', "dataReceived", n, m)
    BY <1>1, <1>a, <1>b, <1>w, Emits DEF Terminal!StartOpens, Terminal!Teardown, ShownTo
  <2>3. ShownTo(n, m)'
    BY <2>1, <2>2, <1>b DEF ShownTo
  <2>4. QED
    BY <2>1, <2>3, <1>b DEF OutputKept
<1>2. CASE Terminal!StartUnreachable /\ worker # "ended"
  <2>1. UNCHANGED <<produced, shown, unread>>
    BY <1>2 DEF Terminal!StartUnreachable, Terminal!Teardown, Terminal!remote
  <2>2. Terminal!Carries(signals', "dataReceived", n, m)
    BY <1>2, <1>a, <1>b, <1>w, Emits DEF Terminal!StartUnreachable, Terminal!Teardown, ShownTo
  <2>3. ShownTo(n, m)'
    BY <2>1, <2>2, <1>b DEF ShownTo
  <2>4. QED
    BY <2>1, <2>3, <1>b DEF OutputKept
<1>3. CASE Terminal!StartFails /\ worker # "ended"
  <2>1. UNCHANGED <<produced, shown, unread>>
    BY <1>3 DEF Terminal!StartFails, Terminal!Teardown, Terminal!remote
  <2>2. Terminal!Carries(signals', "dataReceived", n, m)
    BY <1>3, <1>a, <1>b, <1>w, EmitsTwo DEF Terminal!StartFails, Terminal!Teardown, ShownTo
  <2>3. ShownTo(n, m)'
    BY <2>1, <2>2, <1>b DEF ShownTo
  <2>4. QED
    BY <2>1, <2>3, <1>b DEF OutputKept
<1>4. CASE Terminal!ProceedOpens /\ worker # "ended"
  <2>1. UNCHANGED <<produced, shown, unread>>
    BY <1>4 DEF Terminal!ProceedOpens, Terminal!Teardown, Terminal!remote
  <2>2. Terminal!Carries(signals', "dataReceived", n, m)
    BY <1>4, <1>a, <1>b, <1>w, Emits DEF Terminal!ProceedOpens, Terminal!Teardown, ShownTo
  <2>3. ShownTo(n, m)'
    BY <2>1, <2>2, <1>b DEF ShownTo
  <2>4. QED
    BY <2>1, <2>3, <1>b DEF OutputKept
<1>5. CASE Terminal!ProceedFails /\ worker # "ended"
  <2>1. UNCHANGED <<produced, shown, unread>>
    BY <1>5 DEF Terminal!ProceedFails, Terminal!Teardown, Terminal!remote
  <2>2. Terminal!Carries(signals', "dataReceived", n, m)
    BY <1>5, <1>a, <1>b, <1>w, EmitsTwo DEF Terminal!ProceedFails, Terminal!Teardown, ShownTo
  <2>3. ShownTo(n, m)'
    BY <2>1, <2>2, <1>b DEF ShownTo
  <2>4. QED
    BY <2>1, <2>3, <1>b DEF OutputKept
<1>6. CASE Terminal!ProceedTooLate /\ worker # "ended"
  BY <1>6, <1>b
  DEF Terminal!ProceedTooLate, Terminal!widget, Terminal!remote, OutputKept, ShownTo
<1>7. CASE Terminal!QueueData /\ worker # "ended"
  <2>1. UNCHANGED <<produced, shown, unread>>
    BY <1>7 DEF Terminal!QueueData, Terminal!Teardown, Terminal!remote
  <2>2. Terminal!Carries(signals', "dataReceived", n, m)
    BY <1>7, <1>a, <1>b, <1>w, Emits DEF Terminal!QueueData, Terminal!Teardown, ShownTo
  <2>3. ShownTo(n, m)'
    BY <2>1, <2>2, <1>b DEF ShownTo
  <2>4. QED
    BY <2>1, <2>3, <1>b DEF OutputKept
<1>8. CASE Terminal!Stop /\ worker # "ended"
  <2>1. UNCHANGED <<produced, shown, unread>>
    BY <1>8 DEF Terminal!Stop, Terminal!Teardown, Terminal!remote
  <2>2. Terminal!Carries(signals', "dataReceived", n, m)
    BY <1>8, <1>a, <1>b, <1>w, EmitsDown DEF Terminal!Stop, Terminal!Teardown, ShownTo
  <2>3. ShownTo(n, m)'
    BY <2>1, <2>2, <1>b DEF ShownTo
  <2>4. QED
    BY <2>1, <2>3, <1>b DEF OutputKept
<1>9. CASE Terminal!PumpReads /\ worker # "ended"
  <2>1. UNCHANGED <<produced, shown>> /\ unread' = << >>
    BY <1>9 DEF Terminal!PumpReads
  <2>2. signals' = signals \o Terminal!Posted(IF "none" = "none" THEN << >>
                                              ELSE <<"remoteExited", "disconnected">>)
    BY <1>9 DEF Terminal!PumpReads
  <2> DEFINE k == produced - m
  <2>3. k \in Nat /\ unread = [i \in 1 .. k |-> m + i] /\ m + k = produced
    BY <1>b DEF ShownTo
  <2> HIDE DEF k
  <2>4. Terminal!Carries(signals', "dataReceived", n, m + k)
    BY <2>2, <2>3, <1>a, <1>b, Posts DEF ShownTo
  <2>5. << >> = [i \in 1 .. produced - produced |-> produced + i]
    BY <1>b
  <2>6. ShownTo(n, produced)'
    BY <2>1, <2>3, <2>4, <2>5, <1>b DEF ShownTo
  <2>7. QED
    BY <2>1, <2>6, <1>b DEF OutputKept
<1>10. CASE Terminal!PumpSeesExit /\ worker # "ended"
  <2>1. UNCHANGED <<produced, shown>> /\ unread' = << >>
    BY <1>10 DEF Terminal!PumpSeesExit
  <2>2. signals' = signals \o Terminal!Posted(IF "exit" = "none" THEN << >>
                                              ELSE <<"remoteExited", "disconnected">>)
    BY <1>10 DEF Terminal!PumpSeesExit
  <2> DEFINE k == produced - m
  <2>3. k \in Nat /\ unread = [i \in 1 .. k |-> m + i] /\ m + k = produced
    BY <1>b DEF ShownTo
  <2> HIDE DEF k
  <2>4. Terminal!Carries(signals', "dataReceived", n, m + k)
    BY <2>2, <2>3, <1>a, <1>b, Posts DEF ShownTo
  <2>5. << >> = [i \in 1 .. produced - produced |-> produced + i]
    BY <1>b
  <2>6. ShownTo(n, produced)'
    BY <2>1, <2>3, <2>4, <2>5, <1>b DEF ShownTo
  <2>7. QED
    BY <2>1, <2>6, <1>b DEF OutputKept
<1>11. CASE Terminal!PumpSeesDrop /\ worker # "ended"
  <2>1. UNCHANGED <<produced, shown, unread>>
    BY <1>11 DEF Terminal!PumpSeesDrop, Terminal!Teardown, Terminal!remote
  <2>2. Terminal!Carries(signals', "dataReceived", n, m)
    BY <1>11, <1>a, <1>b, <1>w, EmitsDown DEF Terminal!PumpSeesDrop, Terminal!Teardown, ShownTo
  <2>3. ShownTo(n, m)'
    BY <2>1, <2>2, <1>b DEF ShownTo
  <2>4. QED
    BY <2>1, <2>3, <1>b DEF OutputKept
<1>12. CASE Terminal!ThreadEnds /\ worker # "ended"
  BY <1>12, <1>b
  DEF Terminal!ThreadEnds, Terminal!widget, Terminal!remote, OutputKept, ShownTo
<1>13. CASE Terminal!Output
  <2>1. /\ UNCHANGED <<shown, signals>> /\ produced' = produced + 1
        /\ unread' = Append(unread, produced + 1)
    BY <1>13 DEF Terminal!Output
  <2>2. unread' = [i \in 1 .. (produced + 1) - m |-> m + i]
    BY <2>1, <1>b DEF ShownTo
  <2>3. ShownTo(n, m)' /\ n \in 0 .. produced' /\ m \in 0 .. produced'
    BY <2>1, <2>2, <1>b DEF ShownTo
  <2>4. QED
    BY <2>3 DEF OutputKept
<1>14. CASE Terminal!Exit
  BY <1>14, <1>b
  DEF Terminal!Exit, Terminal!widget, Terminal!remote, OutputKept, ShownTo
<1>15. CASE Terminal!Drop
  BY <1>15, <1>b
  DEF Terminal!Drop, Terminal!Fails, Terminal!widget, Terminal!remote, OutputKept, ShownTo
<1>16. CASE Terminal!ShowData
  <2>1. UNCHANGED <<produced, unread>> /\ shown' = Append(shown, Head(signals).arg)
    BY <1>16 DEF Terminal!ShowData, Terminal!remote
  <2>2. n < m /\ Head(signals).arg = n + 1 /\ Terminal!Carries(signals', "dataReceived", n + 1, m)
    BY <1>16, <1>a, <1>b, CarriesTail DEF Terminal!ShowData, Terminal!Handles, ShownTo
  <2>3. shown' = [i \in 1 .. n + 1 |-> i]
    BY <2>1, <2>2, <1>b DEF ShownTo
  <2>4. ShownTo(n + 1, m)' /\ n + 1 \in 0 .. produced'
    BY <2>1, <2>2, <2>3, <1>b DEF ShownTo
  <2>5. QED
    BY <2>1, <2>4, <1>b DEF OutputKept
<1>17. CASE Terminal!OnHostKey
  <2>1. UNCHANGED <<produced, shown, unread>>
    BY <1>17 DEF Terminal!OnHostKey, Terminal!remote
  <2>2. Terminal!Carries(signals', "dataReceived", n, m)
    BY <1>17, <1>a, <1>b, CarriesTail DEF Terminal!OnHostKey, Terminal!Handles, ShownTo
  <2>3. ShownTo(n, m)'
    BY <2>1, <2>2, <1>b DEF ShownTo
  <2>4. QED
    BY <2>1, <2>3, <1>b DEF OutputKept
<1>18. CASE Terminal!OnConnected
  <2>1. UNCHANGED <<produced, shown, unread>>
    BY <1>18 DEF Terminal!OnConnected, Terminal!remote
  <2>2. Terminal!Carries(signals', "dataReceived", n, m)
    BY <1>18, <1>a, <1>b, CarriesTail DEF Terminal!OnConnected, Terminal!Handles, ShownTo
  <2>3. ShownTo(n, m)'
    BY <2>1, <2>2, <1>b DEF ShownTo
  <2>4. QED
    BY <2>1, <2>3, <1>b DEF OutputKept
<1>19. CASE Terminal!OnError
  <2>1. UNCHANGED <<produced, shown, unread>>
    BY <1>19 DEF Terminal!OnError, Terminal!remote
  <2>2. Terminal!Carries(signals', "dataReceived", n, m)
    BY <1>19, <1>a, <1>b, CarriesTail DEF Terminal!OnError, Terminal!Handles, ShownTo
  <2>3. ShownTo(n, m)'
    BY <2>1, <2>2, <1>b DEF ShownTo
  <2>4. QED
    BY <2>1, <2>3, <1>b DEF OutputKept
<1>20. CASE Terminal!OnAuthenticationFailed
  <2>1. UNCHANGED <<produced, shown, unread>>
    BY <1>20 DEF Terminal!OnAuthenticationFailed, Terminal!remote
  <2>2. Terminal!Carries(signals', "dataReceived", n, m)
    BY <1>20, <1>a, <1>b, CarriesTail DEF Terminal!OnAuthenticationFailed, Terminal!Handles, ShownTo
  <2>3. ShownTo(n, m)'
    BY <2>1, <2>2, <1>b DEF ShownTo
  <2>4. QED
    BY <2>1, <2>3, <1>b DEF OutputKept
<1>21. CASE Terminal!OnRemoteExited
  <2>1. UNCHANGED <<produced, shown, unread>>
    BY <1>21 DEF Terminal!OnRemoteExited, Terminal!remote
  <2>2. Terminal!Carries(signals', "dataReceived", n, m)
    BY <1>21, <1>a, <1>b, CarriesTail DEF Terminal!OnRemoteExited, Terminal!Handles, ShownTo
  <2>3. ShownTo(n, m)'
    BY <2>1, <2>2, <1>b DEF ShownTo
  <2>4. QED
    BY <2>1, <2>3, <1>b DEF OutputKept
<1>22. CASE Terminal!OnDisconnected
  <2>1. UNCHANGED <<produced, shown, unread>>
    BY <1>22 DEF Terminal!OnDisconnected, Terminal!remote
  <2>2. Terminal!Carries(signals', "dataReceived", n, m)
    BY <1>22, <1>a, <1>b, CarriesTail DEF Terminal!OnDisconnected, Terminal!Handles, ShownTo
  <2>3. ShownTo(n, m)'
    BY <2>1, <2>2, <1>b DEF ShownTo
  <2>4. QED
    BY <2>1, <2>3, <1>b DEF OutputKept
<1>23. CASE Terminal!Reconnect
  <2>1. signals' = << >> /\ shown' = << >> /\ unread' = << >> /\ produced' = 0
    BY <1>23 DEF Terminal!Reconnect, Terminal!NewConnection
  <2>2. Terminal!Carries(<< >>, "dataReceived", 0, 0)
    BY CarriesNone
  <2>3. << >> = [i \in 1 .. 0 |-> i] /\ << >> = [i \in 1 .. 0 - 0 |-> 0 + i]
    OBVIOUS
  <2>4. ShownTo(0, 0)' /\ 0 \in 0 .. produced'
    BY <2>1, <2>2, <2>3 DEF ShownTo
  <2>5. QED
    BY <2>4 DEF OutputKept
<1>24. CASE Terminal!Type
  BY <1>24, <1>b
  DEF Terminal!Type, Terminal!widget, Terminal!remote, OutputKept, ShownTo
<1>25. CASE Terminal!DisconnectSession
  BY <1>25, <1>b
  DEF Terminal!DisconnectSession, Terminal!StopTimer, Terminal!widget, Terminal!remote, OutputKept, ShownTo
<1>26. CASE Terminal!CloseTab
  BY <1>26, <1>b
  DEF Terminal!CloseTab, Terminal!Call, Terminal!widget, Terminal!remote, OutputKept, ShownTo
<1>27. QED
  BY <1>1, <1>2, <1>3, <1>4, <1>5, <1>6, <1>7, <1>8, <1>9, <1>10, <1>11, <1>12, <1>13, <1>14, <1>15, <1>16, <1>17, <1>18, <1>19, <1>20, <1>21, <1>22, <1>23, <1>24, <1>25, <1>26
  DEF Terminal!Next, Terminal!Worker, Terminal!Slots, Terminal!Server, Terminal!Widget, Terminal!User

\* The end of a shell is reported after all its output.
LEMMA ExitStep ==
    ASSUME TerminalInv, Terminal!Next
    PROVE  ExitLast'
<1>a. TerminalInv /\ calls \in Seq(Messages) /\ signals \in Seq(Messages)
  BY QueueTypes DEF TerminalInv
<1>b. OutputKept /\ produced \in Nat
  BY QueueTypes DEF TerminalInv
<1>1. CASE Terminal!StartOpens /\ worker # "ended"
  BY <1>1, <1>a, Calls, Emits
  DEF Terminal!StartOpens, Terminal!widget, Terminal!remote, TerminalInv, ExitLast, WorkerOrder, CallsWanted, Words
<1>2. CASE Terminal!StartUnreachable /\ worker # "ended"
  BY <1>2, <1>a, Calls, Emits
  DEF Terminal!StartUnreachable, Terminal!Fails, Terminal!widget, Terminal!remote, TerminalInv, ExitLast, WorkerOrder, CallsWanted, Words
<1>3. CASE Terminal!StartFails /\ worker # "ended"
  <2>1. ~exited /\ ~Has(signals, "remoteExited") /\ UNCHANGED <<exited, unread>>
    BY <1>3, <1>a, Calls DEF Terminal!StartFails, TerminalInv, ExitLast, CallsWanted, Terminal!widget, Terminal!remote
  <2>2. PICK a \in {"errorOccurred", "authenticationFailed"} : Terminal!Emit(Append(<<a>>, "disconnected"))
    BY <1>3 DEF Terminal!StartFails, Terminal!Teardown
  <2>3. a \in Words /\ a \notin {"disconnected", "dataReceived"}
    BY DEF Words
  <2>4. ~Has(signals', "remoteExited") /\ ExitsLast(signals')
    BY <2>1, <2>2, <2>3, <1>a, EmitsTwo DEF TerminalInv, ExitLast
  <2>5. QED
    BY <2>1, <2>4 DEF ExitLast
<1>4. CASE Terminal!ProceedOpens /\ worker # "ended"
  BY <1>4, <1>a, Calls, Emits
  DEF Terminal!ProceedOpens, Terminal!widget, Terminal!remote, TerminalInv, ExitLast, WorkerOrder, CallsWanted, Words
<1>5. CASE Terminal!ProceedFails /\ worker # "ended"
  <2>1. ~exited /\ ~Has(signals, "remoteExited") /\ UNCHANGED <<exited, unread>>
    BY <1>5, <1>a, Calls DEF Terminal!ProceedFails, TerminalInv, ExitLast, CallsWanted, Terminal!widget, Terminal!remote
  <2>2. PICK a \in {"errorOccurred", "authenticationFailed"} : Terminal!Emit(Append(<<a>>, "disconnected"))
    BY <1>5 DEF Terminal!ProceedFails, Terminal!Teardown
  <2>3. a \in Words /\ a \notin {"disconnected", "dataReceived"}
    BY DEF Words
  <2>4. ~Has(signals', "remoteExited") /\ ExitsLast(signals')
    BY <2>1, <2>2, <2>3, <1>a, EmitsTwo DEF TerminalInv, ExitLast
  <2>5. QED
    BY <2>1, <2>4 DEF ExitLast
<1>6. CASE Terminal!ProceedTooLate /\ worker # "ended"
  BY <1>6, <1>a, Calls
  DEF Terminal!ProceedTooLate, Terminal!widget, Terminal!remote, TerminalInv, ExitLast, WorkerOrder, CallsWanted, Words
<1>7. CASE Terminal!QueueData /\ worker # "ended"
  BY <1>7, <1>a, Calls, Emits
  DEF Terminal!QueueData, Terminal!widget, Terminal!remote, TerminalInv, ExitLast, WorkerOrder, CallsWanted, Words
<1>8. CASE Terminal!Stop /\ worker # "ended"
  BY <1>8, <1>a, Calls, EmitsDown
  DEF Terminal!Stop, Terminal!Teardown, Terminal!widget, Terminal!remote, TerminalInv, ExitLast, WorkerOrder, CallsWanted, Words
<1>9. CASE Terminal!PumpReads /\ worker # "ended"
  <2>1. PICK k \in Nat, i0 \in Nat : unread = [i \in 1 .. k |-> i0 + i]
    <3>1. PICK n \in 0 .. produced, m \in 0 .. produced : unread = [i \in 1 .. produced - m |-> m + i]
      BY <1>b DEF OutputKept, ShownTo
    <3>2. produced - m \in Nat /\ m \in Nat
      BY <1>b
    <3>3. QED
      BY <3>1, <3>2
  <2>2. signals' = signals \o Terminal!Posted(IF "none" = "none" THEN << >>
                                              ELSE <<"remoteExited", "disconnected">>)
    BY <1>9 DEF Terminal!PumpReads
  <2>3. QED
    BY <2>1, <2>2, <1>9, <1>a, Posts DEF Terminal!PumpReads, TerminalInv, ExitLast, Terminal!widget, Terminal!remote
<1>10. CASE Terminal!PumpSeesExit /\ worker # "ended"
  <2>1. PICK k \in Nat, i0 \in Nat : unread = [i \in 1 .. k |-> i0 + i]
    <3>1. PICK n \in 0 .. produced, m \in 0 .. produced : unread = [i \in 1 .. produced - m |-> m + i]
      BY <1>b DEF OutputKept, ShownTo
    <3>2. produced - m \in Nat /\ m \in Nat
      BY <1>b
    <3>3. QED
      BY <3>1, <3>2
  <2>2. signals' = signals \o Terminal!Posted(IF "exit" = "none" THEN << >>
                                              ELSE <<"remoteExited", "disconnected">>)
    BY <1>10 DEF Terminal!PumpSeesExit
  <2>3. QED
    BY <2>1, <2>2, <1>10, <1>a, Posts DEF Terminal!PumpSeesExit, TerminalInv, ExitLast, Terminal!widget, Terminal!remote
<1>11. CASE Terminal!PumpSeesDrop /\ worker # "ended"
  BY <1>11, <1>a, EmitsDown
  DEF Terminal!PumpSeesDrop, Terminal!Teardown, Terminal!widget, Terminal!remote, TerminalInv, ExitLast, WorkerOrder, CallsWanted, Words
<1>12. CASE Terminal!ThreadEnds /\ worker # "ended"
  BY <1>12, <1>a
  DEF Terminal!ThreadEnds, Terminal!widget, Terminal!remote, TerminalInv, ExitLast, WorkerOrder, CallsWanted, Words
<1>13. CASE Terminal!Output
  BY <1>13, <1>a
  DEF Terminal!Output, Terminal!widget, Terminal!remote, TerminalInv, ExitLast, WorkerOrder, CallsWanted, Words
<1>14. CASE Terminal!Exit
  BY <1>14, <1>a
  DEF Terminal!Exit, Terminal!widget, Terminal!remote, TerminalInv, ExitLast, WorkerOrder, CallsWanted, Words
<1>15. CASE Terminal!Drop
  BY <1>15, <1>a
  DEF Terminal!Drop, Terminal!Fails, Terminal!widget, Terminal!remote, TerminalInv, ExitLast, WorkerOrder, CallsWanted, Words
<1>16. CASE Terminal!ShowData
  BY <1>16, <1>a, Handled
  DEF Terminal!ShowData, Terminal!widget, Terminal!remote, TerminalInv, ExitLast, WorkerOrder, CallsWanted, Words
<1>17. CASE Terminal!OnHostKey
  BY <1>17, <1>a, Handled
  DEF Terminal!OnHostKey, Terminal!Call, Terminal!widget, Terminal!remote, TerminalInv, ExitLast, WorkerOrder, CallsWanted, Words
<1>18. CASE Terminal!OnConnected
  BY <1>18, <1>a, Handled
  DEF Terminal!OnConnected, Terminal!widget, Terminal!remote, TerminalInv, ExitLast, WorkerOrder, CallsWanted, Words
<1>19. CASE Terminal!OnError
  BY <1>19, <1>a, Handled
  DEF Terminal!OnError, Terminal!widget, Terminal!remote, TerminalInv, ExitLast, WorkerOrder, CallsWanted, Words
<1>20. CASE Terminal!OnAuthenticationFailed
  BY <1>20, <1>a, Handled
  DEF Terminal!OnAuthenticationFailed, Terminal!widget, Terminal!remote, TerminalInv, ExitLast, WorkerOrder, CallsWanted, Words
<1>21. CASE Terminal!OnRemoteExited
  BY <1>21, <1>a, Handled
  DEF Terminal!OnRemoteExited, Terminal!widget, Terminal!remote, TerminalInv, ExitLast, WorkerOrder, CallsWanted, Words
<1>22. CASE Terminal!OnDisconnected
  BY <1>22, <1>a, Handled
  DEF Terminal!OnDisconnected, Terminal!Retries, Terminal!widget, Terminal!remote, TerminalInv, ExitLast, WorkerOrder, CallsWanted, Words
<1>23. CASE Terminal!Reconnect
  BY <1>23, <1>a, NoSignals
  DEF Terminal!Reconnect, Terminal!NewConnection, Terminal!Call, Terminal!widget, Terminal!remote, TerminalInv, ExitLast, WorkerOrder, CallsWanted, Words
<1>24. CASE Terminal!Type
  BY <1>24, <1>a
  DEF Terminal!Type, Terminal!widget, Terminal!remote, TerminalInv, ExitLast, WorkerOrder, CallsWanted, Words
<1>25. CASE Terminal!DisconnectSession
  BY <1>25, <1>a
  DEF Terminal!DisconnectSession, Terminal!StopTimer, Terminal!widget, Terminal!remote, TerminalInv, ExitLast, WorkerOrder, CallsWanted, Words
<1>26. CASE Terminal!CloseTab
  BY <1>26, <1>a
  DEF Terminal!CloseTab, Terminal!Call, Terminal!widget, Terminal!remote, TerminalInv, ExitLast, WorkerOrder, CallsWanted, Words
<1>27. QED
  BY <1>1, <1>2, <1>3, <1>4, <1>5, <1>6, <1>7, <1>8, <1>9, <1>10, <1>11, <1>12, <1>13, <1>14, <1>15, <1>16, <1>17, <1>18, <1>19, <1>20, <1>21, <1>22, <1>23, <1>24, <1>25, <1>26
  DEF Terminal!Next, Terminal!Worker, Terminal!Slots, Terminal!Server, Terminal!Widget, Terminal!User

-----------------------------------------------------------------------------

CallWords == {"start", "proceed", "queueData", "stop"}
SignalWords == {"errorOccurred", "hostKeyFingerprint", "connected", "dataReceived",
                "authenticationFailed", "remoteExited", "disconnected"}

LEMMA NoteTypes ==
    \A a \in SignalWords : Note(a) \in Terminal!OneOf(SignalWords)
  BY Bounds DEF Note, Terminal!OneOf

LEMMA EmitTypes ==
    ASSUME signals \in Seq(Terminal!OneOf(SignalWords))
    PROVE  /\ \A a \in SignalWords :
                 Terminal!Emit(<<a>>) \/ Terminal!Emit(Append(<< >>, a))
                    => signals' \in Seq(Terminal!OneOf(SignalWords))
           /\ \A a, b \in SignalWords :
                 Terminal!Emit(Append(<<a>>, b)) => signals' \in Seq(Terminal!OneOf(SignalWords))
<1>0. SignalWords \subseteq Words
  BY DEF SignalWords, Words
<1> DEFINE O == Terminal!OneOf(SignalWords)
<1>1. \A a \in SignalWords : Note(a) \in O
  BY NoteTypes
<1> HIDE DEF O
<1>2. ASSUME NEW a \in SignalWords, Terminal!Emit(<<a>>) \/ Terminal!Emit(Append(<< >>, a))
      PROVE  signals' \in Seq(O)
  <2>1. signals' = signals \o <<Note(a)>>
    BY <1>0, <1>2, OneNote DEF Terminal!Emit
  <2>2. <<Note(a)>> \in Seq(O) /\ signals \in Seq(O)
    BY <1>1 DEF O
  <2>3. QED
    BY <2>1, <2>2
<1>3. ASSUME NEW a \in SignalWords, NEW b \in SignalWords, Terminal!Emit(Append(<<a>>, b))
      PROVE  signals' \in Seq(O)
  <2>1. signals' = signals \o <<Note(a), Note(b)>>
    BY <1>0, <1>3, TwoNotes DEF Terminal!Emit
  <2>2. <<Note(a), Note(b)>> \in Seq(O) /\ signals \in Seq(O)
    BY <1>1 DEF O
  <2>3. QED
    BY <2>1, <2>2
<1>4. QED
  BY <1>2, <1>3 DEF O

LEMMA PostTypes ==
    ASSUME signals \in Seq(Terminal!OneOf(SignalWords)), unread \in Seq(1 .. Outputs),
           NEW end \in {<< >>, <<"remoteExited", "disconnected">>},
           signals' = signals \o Terminal!Posted(end)
    PROVE  signals' \in Seq(Terminal!OneOf(SignalWords))
<1> DEFINE O == Terminal!OneOf(SignalWords)
           data == [i \in 1 .. Len(unread) |-> Terminal!Signal("dataReceived", unread[i])]
<1>1. \A i \in 1 .. Len(unread) : data[i] \in O
  <2>1. \A i \in 1 .. Len(unread) : unread[i] \in 0 .. Keys + Outputs + 1
    BY Bounds
  <2>2. "dataReceived" \in SignalWords
    BY DEF SignalWords
  <2>3. QED
    BY <2>1, <2>2 DEF Terminal!OneOf, Terminal!Signal
<1>2. data \in [1 .. Len(unread) -> O]
  BY <1>1
<1>3. Terminal!Signals(end) \in Seq(O)
  <2>1. CASE end = << >>
    BY <2>1 DEF Terminal!Signals
  <2>2. CASE end = <<"remoteExited", "disconnected">>
    <3>1. PICK a \in SignalWords, b \in SignalWords : a = "remoteExited" /\ b = "disconnected"
      BY DEF SignalWords
    <3>2. a \in Words /\ b \in Words
      BY DEF SignalWords, Words
    <3>5. Terminal!Signals(<<a, b>>) = <<Note(a), Note(b)>>
      BY <3>2, TwoNotes
    <3>3. <<Note(a), Note(b)>> \in Seq(O)
      BY NoteTypes
    <3>4. QED
      BY <3>1, <3>5, <3>3, <2>2
  <2>3. QED
    BY <2>1, <2>2
<1>4. Terminal!Posted(end) = data \o Terminal!Signals(end)
  BY DEF Terminal!Posted
<1> HIDE DEF O, data
<1>5. data \in Seq(O)
  BY <1>2
<1>6. data \o Terminal!Signals(end) \in Seq(O) /\ signals \in Seq(O)
  BY <1>3, <1>5 DEF O
<1>7. signals' \in Seq(O)
  BY <1>4, <1>6
<1>8. QED
  BY <1>7 DEF O

\* The types of the queues and buffers, and of all the rest.
BufferTypes ==
    /\ calls \in Seq(Terminal!OneOf(CallWords)) /\ signals \in Seq(Terminal!OneOf(SignalWords))
    /\ writeBuf \in Seq(1 .. Keys) /\ accepted \in Seq(1 .. Keys)
    /\ unread \in Seq(1 .. Outputs) /\ shown \in Seq(1 .. Outputs)
FlagTypes ==
    /\ connected \in BOOLEAN /\ autoReconnect \in BOOLEAN /\ userClosing \in BOOLEAN
    /\ reconnecting \in BOOLEAN /\ exited \in BOOLEAN /\ timer \in BOOLEAN /\ closed \in BOOLEAN
    /\ delay \in {2, 4, 8, 16, 30}
    /\ worker \in {"idle", "key", "open", "down", "ended"}
    /\ host \in {"none", "shell", "exited", "dropped"}
    /\ typed \in 0 .. Keys /\ produced \in 0 .. Outputs
    /\ failures \in 0 .. Failures /\ connections \in 1 .. Failures + 1

LEMMA TerminalTypes == Terminal!TypeOK <=> BufferTypes /\ FlagTypes
  BY DEF Terminal!TypeOK, BufferTypes, FlagTypes, CallWords, SignalWords

LEMMA FlagStep ==
    ASSUME TerminalInv, Terminal!Next
    PROVE  FlagTypes'
<1>a. TerminalInv /\ calls \in Seq(Messages) /\ signals \in Seq(Messages)
  BY QueueTypes DEF TerminalInv
<1>b. FlagTypes /\ Keys \in Nat /\ Outputs \in Nat /\ Failures \in Nat
  BY TerminalTypes, Bounds DEF TerminalInv
<1>c. timer => connections <= failures
  BY DEF TerminalInv, TimerMeansDown
<1>d. Terminal!Lesser(2 * delay, 30) \in {2, 4, 8, 16, 30}
  BY <1>b DEF FlagTypes, Terminal!Lesser
<1>1. CASE Terminal!StartOpens /\ worker # "ended"
  BY <1>1, <1>b, <1>d
  DEF Terminal!StartOpens, Terminal!widget, Terminal!remote, FlagTypes
<1>2. CASE Terminal!StartUnreachable /\ worker # "ended"
  BY <1>2, <1>b, <1>d
  DEF Terminal!StartUnreachable, Terminal!Fails, Terminal!widget, Terminal!remote, FlagTypes
<1>3. CASE Terminal!StartFails /\ worker # "ended"
  BY <1>3, <1>b, <1>d
  DEF Terminal!StartFails, Terminal!Fails, Terminal!Teardown, Terminal!widget, Terminal!remote, FlagTypes
<1>4. CASE Terminal!ProceedOpens /\ worker # "ended"
  BY <1>4, <1>b, <1>d
  DEF Terminal!ProceedOpens, Terminal!widget, Terminal!remote, FlagTypes
<1>5. CASE Terminal!ProceedFails /\ worker # "ended"
  BY <1>5, <1>b, <1>d
  DEF Terminal!ProceedFails, Terminal!Fails, Terminal!Teardown, Terminal!widget, Terminal!remote, FlagTypes
<1>6. CASE Terminal!ProceedTooLate /\ worker # "ended"
  BY <1>6, <1>b, <1>d
  DEF Terminal!ProceedTooLate, Terminal!widget, Terminal!remote, FlagTypes
<1>7. CASE Terminal!QueueData /\ worker # "ended"
  BY <1>7, <1>b, <1>d
  DEF Terminal!QueueData, Terminal!widget, Terminal!remote, FlagTypes
<1>8. CASE Terminal!Stop /\ worker # "ended"
  BY <1>8, <1>b, <1>d
  DEF Terminal!Stop, Terminal!Teardown, Terminal!widget, Terminal!remote, FlagTypes
<1>9. CASE Terminal!PumpReads /\ worker # "ended"
  BY <1>9, <1>b, <1>d
  DEF Terminal!PumpReads, Terminal!widget, Terminal!remote, FlagTypes
<1>10. CASE Terminal!PumpSeesExit /\ worker # "ended"
  BY <1>10, <1>b, <1>d
  DEF Terminal!PumpSeesExit, Terminal!widget, Terminal!remote, FlagTypes
<1>11. CASE Terminal!PumpSeesDrop /\ worker # "ended"
  BY <1>11, <1>b, <1>d
  DEF Terminal!PumpSeesDrop, Terminal!Teardown, Terminal!widget, Terminal!remote, FlagTypes
<1>12. CASE Terminal!ThreadEnds /\ worker # "ended"
  BY <1>12, <1>b, <1>d
  DEF Terminal!ThreadEnds, Terminal!widget, Terminal!remote, FlagTypes
<1>13. CASE Terminal!Output
  BY <1>13, <1>b, <1>d
  DEF Terminal!Output, Terminal!widget, Terminal!remote, FlagTypes
<1>14. CASE Terminal!Exit
  BY <1>14, <1>b, <1>d
  DEF Terminal!Exit, Terminal!widget, Terminal!remote, FlagTypes
<1>15. CASE Terminal!Drop
  BY <1>15, <1>b, <1>d
  DEF Terminal!Drop, Terminal!Fails, Terminal!widget, Terminal!remote, FlagTypes
<1>16. CASE Terminal!ShowData
  BY <1>16, <1>b, <1>d
  DEF Terminal!ShowData, Terminal!widget, Terminal!remote, FlagTypes
<1>17. CASE Terminal!OnHostKey
  BY <1>17, <1>b, <1>d
  DEF Terminal!OnHostKey, Terminal!Call, Terminal!widget, Terminal!remote, FlagTypes
<1>18. CASE Terminal!OnConnected
  BY <1>18, <1>b, <1>d, ZenonT(30)
  DEF Terminal!OnConnected, Terminal!widget, Terminal!remote, FlagTypes
<1>19. CASE Terminal!OnError
  BY <1>19, <1>b, <1>d
  DEF Terminal!OnError, Terminal!widget, Terminal!remote, FlagTypes
<1>20. CASE Terminal!OnAuthenticationFailed
  <2>1. /\ autoReconnect' = FALSE
        /\ UNCHANGED <<connected, userClosing, reconnecting, exited, delay, timer, closed, worker,
                       host, produced, typed, connections, failures>>
    BY <1>20 DEF Terminal!OnAuthenticationFailed, Terminal!remote
  <2>2. QED
    <3>1. /\ connected' \in BOOLEAN /\ autoReconnect' \in BOOLEAN /\ userClosing' \in BOOLEAN
          /\ reconnecting' \in BOOLEAN /\ exited' \in BOOLEAN /\ timer' \in BOOLEAN /\ closed' \in BOOLEAN
      BY <2>1, <1>b, Zenon DEF FlagTypes
    <3>2. /\ delay' \in {2, 4, 8, 16, 30}
          /\ worker' \in {"idle", "key", "open", "down", "ended"}
          /\ host' \in {"none", "shell", "exited", "dropped"}
      BY <2>1, <1>b, <1>d DEF FlagTypes
    <3>3. /\ typed' \in 0 .. Keys /\ produced' \in 0 .. Outputs
          /\ failures' \in 0 .. Failures /\ connections' \in 1 .. Failures + 1
      BY <2>1, <1>b DEF FlagTypes
    <3>4. QED
      BY <3>1, <3>2, <3>3 DEF FlagTypes
<1>21. CASE Terminal!OnRemoteExited
  BY <1>21, <1>b, <1>d
  DEF Terminal!OnRemoteExited, Terminal!widget, Terminal!remote, FlagTypes
<1>22. CASE Terminal!OnDisconnected
  <2>1. /\ connected' = FALSE
        /\ \/ reconnecting' = TRUE /\ timer' = TRUE /\ delay' = Terminal!Lesser(2 * delay, 30)
           \/ UNCHANGED <<reconnecting, timer, delay>>
        /\ UNCHANGED <<autoReconnect, userClosing, exited, closed, worker, host, produced, typed,
                       connections, failures>>
    BY <1>22 DEF Terminal!OnDisconnected, Terminal!remote
  <2>2. QED
    <3>1. /\ connected' \in BOOLEAN /\ autoReconnect' \in BOOLEAN /\ userClosing' \in BOOLEAN
          /\ reconnecting' \in BOOLEAN /\ exited' \in BOOLEAN /\ timer' \in BOOLEAN /\ closed' \in BOOLEAN
      BY <2>1, <1>b, Zenon DEF FlagTypes
    <3>2. /\ delay' \in {2, 4, 8, 16, 30}
          /\ worker' \in {"idle", "key", "open", "down", "ended"}
          /\ host' \in {"none", "shell", "exited", "dropped"}
      BY <2>1, <1>b, <1>d DEF FlagTypes
    <3>3. /\ typed' \in 0 .. Keys /\ produced' \in 0 .. Outputs
          /\ failures' \in 0 .. Failures /\ connections' \in 1 .. Failures + 1
      BY <2>1, <1>b DEF FlagTypes
    <3>4. QED
      BY <3>1, <3>2, <3>3 DEF FlagTypes
<1>23. CASE Terminal!Reconnect
  <2>1. /\ timer /\ timer' = FALSE /\ exited' = FALSE /\ worker' = "idle" /\ host' = "none"
        /\ produced' = 0 /\ connections' = connections + 1
        /\ UNCHANGED <<connected, autoReconnect, userClosing, reconnecting, delay, closed, typed, failures>>
    BY <1>23 DEF Terminal!Reconnect, Terminal!NewConnection
  <2>2. connections + 1 \in 1 .. Failures + 1
    BY <2>1, <1>b, <1>c DEF FlagTypes
  <2>3. QED
    <3>1. /\ connected' \in BOOLEAN /\ autoReconnect' \in BOOLEAN /\ userClosing' \in BOOLEAN
          /\ reconnecting' \in BOOLEAN /\ exited' \in BOOLEAN /\ timer' \in BOOLEAN /\ closed' \in BOOLEAN
      BY <2>1, <1>b, Zenon DEF FlagTypes
    <3>2. /\ delay' \in {2, 4, 8, 16, 30}
          /\ worker' \in {"idle", "key", "open", "down", "ended"}
          /\ host' \in {"none", "shell", "exited", "dropped"}
      BY <2>1, <1>b, <1>d DEF FlagTypes
    <3>3. /\ typed' \in 0 .. Keys /\ produced' \in 0 .. Outputs
          /\ failures' \in 0 .. Failures /\ connections' \in 1 .. Failures + 1
      BY <2>1, <2>2, <1>b DEF FlagTypes
    <3>4. QED
      BY <3>1, <3>2, <3>3 DEF FlagTypes
<1>24. CASE Terminal!Type
  BY <1>24, <1>b, <1>d
  DEF Terminal!Type, Terminal!widget, Terminal!remote, FlagTypes
<1>25. CASE Terminal!DisconnectSession
  BY <1>25, <1>b, <1>d, ZenonT(30)
  DEF Terminal!DisconnectSession, Terminal!StopTimer, Terminal!widget, Terminal!remote, FlagTypes
<1>26. CASE Terminal!CloseTab
  BY <1>26, <1>b, <1>d
  DEF Terminal!CloseTab, Terminal!Call, Terminal!widget, Terminal!remote, FlagTypes
<1>27. QED
  BY <1>1, <1>2, <1>3, <1>4, <1>5, <1>6, <1>7, <1>8, <1>9, <1>10, <1>11, <1>12, <1>13, <1>14, <1>15, <1>16, <1>17, <1>18, <1>19, <1>20, <1>21, <1>22, <1>23, <1>24, <1>25, <1>26
  DEF Terminal!Next, Terminal!Worker, Terminal!Slots, Terminal!Server, Terminal!Widget, Terminal!User

LEMMA FlushTypes ==
    ASSUME NEW buf \in Seq(1 .. Keys), accepted \in Seq(1 .. Keys), Terminal!Flush(buf)
    PROVE  accepted' \in Seq(1 .. Keys) /\ writeBuf' \in Seq(1 .. Keys)
<1>0. Len(buf) \in Nat /\ \A i \in 1 .. Len(buf) : buf[i] \in 1 .. Keys
  BY LenProperties, ElementOfSeq
<1>1. PICK j \in 0 .. Len(buf) : /\ accepted' = accepted \o SubSeq(buf, 1, j)
                                 /\ writeBuf' = SubSeq(buf, j + 1, Len(buf))
  <2>1. PICK j \in 0 .. (IF host = "shell" THEN Len(buf) ELSE 0) :
                                 /\ accepted' = accepted \o SubSeq(buf, 1, j)
                                 /\ writeBuf' = SubSeq(buf, j + 1, Len(buf))
    BY DEF Terminal!Flush, Terminal!Left
  <2>2. j \in 0 .. Len(buf)
    BY <1>0
  <2>3. QED
    BY <2>1, <2>2
<1>2. SubSeq(buf, 1, j) \in Seq(1 .. Keys) /\ SubSeq(buf, j + 1, Len(buf)) \in Seq(1 .. Keys)
  <2>1. (\A i \in 1 .. j : buf[i] \in 1 .. Keys) /\ (\A i \in j + 1 .. Len(buf) : buf[i] \in 1 .. Keys)
    BY <1>0
  <2>2. 1 \in Int /\ j \in Int /\ j + 1 \in Int /\ Len(buf) \in Int
    BY <1>0
  <2>3. QED
    BY <2>1, <2>2, SubSeqProperties
<1>3. QED
  BY <1>1, <1>2

LEMMA BufferStep ==
    ASSUME TerminalInv, Terminal!Next
    PROVE  BufferTypes'
<1>a. TerminalInv /\ calls \in Seq(Messages) /\ signals \in Seq(Messages)
  BY QueueTypes DEF TerminalInv
<1>b. BufferTypes /\ FlagTypes
  BY TerminalTypes DEF TerminalInv
<1>w. {"hostKeyFingerprint", "errorOccurred", "connected", "authenticationFailed", "disconnected"} \subseteq SignalWords
  BY DEF SignalWords
<1>1. CASE Terminal!StartOpens /\ worker # "ended"
  <2>1. UNCHANGED <<writeBuf, accepted, unread, shown>>
    BY <1>1 DEF Terminal!StartOpens, Terminal!Teardown, Terminal!remote
  <2>2. signals' \in Seq(Terminal!OneOf(SignalWords))
    BY <1>1, <1>b, <1>w, EmitTypes DEF Terminal!StartOpens, Terminal!Teardown, BufferTypes, Terminal!widget, Terminal!remote
  <2>3. calls' \in Seq(Terminal!OneOf(CallWords))
    BY <1>1, <1>b DEF Terminal!StartOpens, Terminal!Takes, BufferTypes
  <2>4. QED
    BY <2>1, <2>2, <2>3, <1>b DEF BufferTypes
<1>2. CASE Terminal!StartUnreachable /\ worker # "ended"
  <2>1. UNCHANGED <<writeBuf, accepted, unread, shown>>
    BY <1>2 DEF Terminal!StartUnreachable, Terminal!Teardown, Terminal!remote
  <2>2. signals' \in Seq(Terminal!OneOf(SignalWords))
    BY <1>2, <1>b, <1>w, EmitTypes DEF Terminal!StartUnreachable, Terminal!Teardown, BufferTypes, Terminal!widget, Terminal!remote
  <2>3. calls' \in Seq(Terminal!OneOf(CallWords))
    BY <1>2, <1>b DEF Terminal!StartUnreachable, Terminal!Takes, BufferTypes
  <2>4. QED
    BY <2>1, <2>2, <2>3, <1>b DEF BufferTypes
<1>3. CASE Terminal!StartFails /\ worker # "ended"
  <2>1. UNCHANGED <<writeBuf, accepted, unread, shown>>
    BY <1>3 DEF Terminal!StartFails, Terminal!Teardown, Terminal!remote
  <2>2. signals' \in Seq(Terminal!OneOf(SignalWords))
    BY <1>3, <1>b, <1>w, EmitTypes DEF Terminal!StartFails, Terminal!Teardown, BufferTypes, Terminal!widget, Terminal!remote
  <2>3. calls' \in Seq(Terminal!OneOf(CallWords))
    BY <1>3, <1>b DEF Terminal!StartFails, Terminal!Takes, BufferTypes
  <2>4. QED
    BY <2>1, <2>2, <2>3, <1>b DEF BufferTypes
<1>4. CASE Terminal!ProceedOpens /\ worker # "ended"
  <2>1. UNCHANGED <<writeBuf, accepted, unread, shown>>
    BY <1>4 DEF Terminal!ProceedOpens, Terminal!Teardown, Terminal!remote
  <2>2. signals' \in Seq(Terminal!OneOf(SignalWords))
    BY <1>4, <1>b, <1>w, EmitTypes DEF Terminal!ProceedOpens, Terminal!Teardown, BufferTypes, Terminal!widget, Terminal!remote
  <2>3. calls' \in Seq(Terminal!OneOf(CallWords))
    BY <1>4, <1>b DEF Terminal!ProceedOpens, Terminal!Takes, BufferTypes
  <2>4. QED
    BY <2>1, <2>2, <2>3, <1>b DEF BufferTypes
<1>5. CASE Terminal!ProceedFails /\ worker # "ended"
  <2>1. UNCHANGED <<writeBuf, accepted, unread, shown>>
    BY <1>5 DEF Terminal!ProceedFails, Terminal!Teardown, Terminal!remote
  <2>2. signals' \in Seq(Terminal!OneOf(SignalWords))
    BY <1>5, <1>b, <1>w, EmitTypes DEF Terminal!ProceedFails, Terminal!Teardown, BufferTypes, Terminal!widget, Terminal!remote
  <2>3. calls' \in Seq(Terminal!OneOf(CallWords))
    BY <1>5, <1>b DEF Terminal!ProceedFails, Terminal!Takes, BufferTypes
  <2>4. QED
    BY <2>1, <2>2, <2>3, <1>b DEF BufferTypes
<1>6. CASE Terminal!ProceedTooLate /\ worker # "ended"
  BY <1>6, <1>b
  DEF Terminal!ProceedTooLate, Terminal!widget, Terminal!remote, BufferTypes, Terminal!Takes, Terminal!Handles
<1>7. CASE Terminal!QueueData /\ worker # "ended"
  <2>1. calls # << >> /\ calls' = Tail(calls) /\ Head(calls).op = "queueData" /\ UNCHANGED <<unread, shown>>
    BY <1>7 DEF Terminal!QueueData, Terminal!Takes, Terminal!remote
  <2>2. Head(calls).arg \in 1 .. Keys
    <3>1. PICK n \in Nat : n < typed /\ Head(calls).arg = n + 1
      BY <1>a, <1>7, QueueTypes, KeysLeft DEF TerminalInv, KeysKept, KeysFrom, Terminal!QueueData
    <3>2. QED
      BY <3>1, <1>b, Bounds DEF FlagTypes
  <2> DEFINE buf == Append(writeBuf, Head(calls).arg)
  <2>3. buf \in Seq(1 .. Keys) /\ calls' \in Seq(Terminal!OneOf(CallWords))
    BY <2>1, <2>2, <1>b DEF BufferTypes
  <2>4. signals' \in Seq(Terminal!OneOf(SignalWords))
    BY <1>7, <1>b, <1>w, EmitTypes DEF Terminal!QueueData, BufferTypes
  <2>5. writeBuf' \in Seq(1 .. Keys) /\ accepted' \in Seq(1 .. Keys)
    <3>1. \/ UNCHANGED <<accepted, writeBuf>> \/ Terminal!Flush(buf) \/ Terminal!FlushFails
      BY <1>7 DEF Terminal!QueueData
    <3>2. Terminal!FlushFails => writeBuf' = << >> /\ UNCHANGED accepted
      BY DEF Terminal!FlushFails
    <3> HIDE DEF buf
    <3>3. accepted \in Seq(1 .. Keys) /\ writeBuf \in Seq(1 .. Keys)
      BY <1>b DEF BufferTypes
    <3>4. CASE Terminal!Flush(buf)
      BY <3>3, <3>4, <2>3, FlushTypes
    <3>5. CASE Terminal!FlushFails
      <4>1. << >> \in Seq(1 .. Keys)
        OBVIOUS
      <4>2. QED
        BY <4>1, <3>2, <3>3, <3>5
    <3>6. CASE UNCHANGED <<accepted, writeBuf>>
      BY <3>3, <3>6
    <3>7. QED
      BY <3>1, <3>4, <3>5, <3>6
  <2>6. QED
    BY <2>1, <2>3, <2>4, <2>5, <1>b DEF BufferTypes
<1>8. CASE Terminal!Stop /\ worker # "ended"
  <2>1. UNCHANGED <<writeBuf, accepted, unread, shown>>
    BY <1>8 DEF Terminal!Stop, Terminal!Teardown, Terminal!remote
  <2>2. signals' \in Seq(Terminal!OneOf(SignalWords))
    BY <1>8, <1>b, <1>w, EmitTypes DEF Terminal!Stop, Terminal!Teardown, BufferTypes, Terminal!widget, Terminal!remote
  <2>3. calls' \in Seq(Terminal!OneOf(CallWords))
    BY <1>8, <1>b DEF Terminal!Stop, Terminal!Takes, BufferTypes
  <2>4. QED
    BY <2>1, <2>2, <2>3, <1>b DEF BufferTypes
<1>9. CASE Terminal!PumpReads /\ worker # "ended"
  <2>1. signals' \in Seq(Terminal!OneOf(SignalWords))
    BY <1>9, <1>b, PostTypes DEF Terminal!PumpReads, BufferTypes
  <2>2. writeBuf' \in Seq(1 .. Keys) /\ accepted' \in Seq(1 .. Keys)
    BY <1>9, <1>b, FlushTypes DEF Terminal!PumpReads, BufferTypes
  <2>3. UNCHANGED <<calls, shown>> /\ unread' = << >>
    BY <1>9 DEF Terminal!PumpReads
  <2>4. QED
    BY <2>1, <2>2, <2>3, <1>b DEF BufferTypes
<1>10. CASE Terminal!PumpSeesExit /\ worker # "ended"
  <2>1. signals' \in Seq(Terminal!OneOf(SignalWords))
    BY <1>10, <1>b, PostTypes DEF Terminal!PumpSeesExit, BufferTypes
  <2>2. writeBuf' \in Seq(1 .. Keys) /\ accepted' \in Seq(1 .. Keys)
    BY <1>10, <1>b, FlushTypes DEF Terminal!PumpSeesExit, BufferTypes
  <2>3. UNCHANGED <<calls, shown>> /\ unread' = << >>
    BY <1>10 DEF Terminal!PumpSeesExit
  <2>4. QED
    BY <2>1, <2>2, <2>3, <1>b DEF BufferTypes
<1>11. CASE Terminal!PumpSeesDrop /\ worker # "ended"
  <2>1. UNCHANGED <<writeBuf, accepted, unread, shown>>
    BY <1>11 DEF Terminal!PumpSeesDrop, Terminal!Teardown, Terminal!remote
  <2>2. signals' \in Seq(Terminal!OneOf(SignalWords))
    BY <1>11, <1>b, <1>w, EmitTypes DEF Terminal!PumpSeesDrop, Terminal!Teardown, BufferTypes, Terminal!widget, Terminal!remote
  <2>3. calls' \in Seq(Terminal!OneOf(CallWords))
    BY <1>11, <1>b DEF Terminal!PumpSeesDrop, Terminal!Takes, BufferTypes
  <2>4. QED
    BY <2>1, <2>2, <2>3, <1>b DEF BufferTypes
<1>12. CASE Terminal!ThreadEnds /\ worker # "ended"
  BY <1>12, <1>b
  DEF Terminal!ThreadEnds, Terminal!widget, Terminal!remote, BufferTypes, Terminal!Takes, Terminal!Handles
<1>13. CASE Terminal!Output
  <2>1. /\ unread' = Append(unread, produced + 1) /\ produced < Outputs
        /\ UNCHANGED <<calls, signals, writeBuf, accepted, shown>>
    BY <1>13 DEF Terminal!Output
  <2>2. produced + 1 \in 1 .. Outputs
    BY <2>1, <1>b, Bounds DEF FlagTypes
  <2>3. QED
    BY <2>1, <2>2, <1>b DEF BufferTypes
<1>14. CASE Terminal!Exit
  BY <1>14, <1>b
  DEF Terminal!Exit, Terminal!widget, Terminal!remote, BufferTypes, Terminal!Takes, Terminal!Handles
<1>15. CASE Terminal!Drop
  BY <1>15, <1>b
  DEF Terminal!Drop, Terminal!Fails, Terminal!widget, Terminal!remote, BufferTypes, Terminal!Takes, Terminal!Handles
<1>16. CASE Terminal!ShowData
  <2>1. /\ signals # << >> /\ signals' = Tail(signals) /\ Head(signals).op = "dataReceived"
        /\ shown' = Append(shown, Head(signals).arg) /\ UNCHANGED <<calls, writeBuf, accepted, unread>>
    BY <1>16 DEF Terminal!ShowData, Terminal!Handles, Terminal!remote
  <2>2. Head(signals).arg \in 1 .. Outputs
    <3>1. PICK n \in Nat, m \in Nat : n < m /\ m <= produced /\ Head(signals).arg = n + 1
      <4>1. PICK n \in 0 .. produced, m \in 0 .. produced : ShownTo(n, m)
        BY <1>a DEF TerminalInv, OutputKept
      <4>2. n < m /\ Head(signals).arg = n + 1
        BY <4>1, <2>1, <1>a, CarriesTail DEF ShownTo
      <4>3. QED
        BY <4>1, <4>2
    <3>2. QED
      BY <3>1, <1>b, Bounds DEF FlagTypes
  <2>3. QED
    BY <2>1, <2>2, <1>b DEF BufferTypes
<1>17. CASE Terminal!OnHostKey
  <2>1. UNCHANGED <<writeBuf, accepted, unread, shown>> /\ (signals' = signals \/ (signals # << >> /\ signals' = Tail(signals)))
    BY <1>17 DEF Terminal!OnHostKey, Terminal!remote, Terminal!Handles
  <2>2. calls' = calls \/ \E k \in 0 .. Keys + 1 : calls' = Append(calls, [op |-> "proceed", arg |-> k])
    BY <1>17, <1>b, Bounds DEF Terminal!OnHostKey, Terminal!Call, FlagTypes
  <2>3. \A k \in 0 .. Keys + 1 : [op |-> "proceed", arg |-> k] \in Terminal!OneOf(CallWords)
    BY Bounds DEF Terminal!OneOf, CallWords
  <2>4. calls \in Seq(Terminal!OneOf(CallWords)) /\ signals \in Seq(Terminal!OneOf(SignalWords))
    BY <1>b DEF BufferTypes
  <2>5. calls' \in Seq(Terminal!OneOf(CallWords))
    <3>1. CASE calls' = calls
      BY <3>1, <2>4
    <3>2. CASE calls' # calls
      <4>1. PICK k \in 0 .. Keys + 1 : calls' = Append(calls, [op |-> "proceed", arg |-> k])
        BY <3>2, <2>2
      <4>2. QED
        BY <4>1, <2>3, <2>4, AppendProperties
    <3>3. QED
      BY <3>1, <3>2
  <2>6. signals' \in Seq(Terminal!OneOf(SignalWords))
    BY <2>1, <2>4, HeadTailProperties
  <2>7. QED
    BY <2>1, <2>5, <2>6, <1>b DEF BufferTypes
<1>18. CASE Terminal!OnConnected
  BY <1>18, <1>b
  DEF Terminal!OnConnected, Terminal!widget, Terminal!remote, BufferTypes, Terminal!Takes, Terminal!Handles
<1>19. CASE Terminal!OnError
  BY <1>19, <1>b
  DEF Terminal!OnError, Terminal!widget, Terminal!remote, BufferTypes, Terminal!Takes, Terminal!Handles
<1>20. CASE Terminal!OnAuthenticationFailed
  BY <1>20, <1>b
  DEF Terminal!OnAuthenticationFailed, Terminal!widget, Terminal!remote, BufferTypes, Terminal!Takes, Terminal!Handles
<1>21. CASE Terminal!OnRemoteExited
  BY <1>21, <1>b
  DEF Terminal!OnRemoteExited, Terminal!widget, Terminal!remote, BufferTypes, Terminal!Takes, Terminal!Handles
<1>22. CASE Terminal!OnDisconnected
  BY <1>22, <1>b
  DEF Terminal!OnDisconnected, Terminal!Retries, Terminal!widget, Terminal!remote, BufferTypes, Terminal!Takes, Terminal!Handles
<1>23. CASE Terminal!Reconnect
  <2>1. /\ calls' = <<[op |-> "start", arg |-> 0]>> /\ signals' = << >> /\ writeBuf' = << >>
        /\ accepted' = << >> /\ unread' = << >> /\ shown' = << >>
    BY <1>23 DEF Terminal!Reconnect, Terminal!NewConnection, Terminal!Call
  <2>2. [op |-> "start", arg |-> 0] \in Terminal!OneOf(CallWords)
    BY Bounds DEF Terminal!OneOf, CallWords
  <2>3. QED
    BY <2>1, <2>2 DEF BufferTypes
<1>24. CASE Terminal!Type
  <2>1. UNCHANGED <<writeBuf, accepted, unread, shown>> /\ (signals' = signals \/ (signals # << >> /\ signals' = Tail(signals)))
    BY <1>24 DEF Terminal!Type, Terminal!remote, Terminal!Handles
  <2>2. calls' = calls \/ \E k \in 0 .. Keys + 1 : calls' = Append(calls, [op |-> "queueData", arg |-> k])
    BY <1>24, <1>b, Bounds DEF Terminal!Type, Terminal!Call, FlagTypes
  <2>3. \A k \in 0 .. Keys + 1 : [op |-> "queueData", arg |-> k] \in Terminal!OneOf(CallWords)
    BY Bounds DEF Terminal!OneOf, CallWords
  <2>4. calls \in Seq(Terminal!OneOf(CallWords)) /\ signals \in Seq(Terminal!OneOf(SignalWords))
    BY <1>b DEF BufferTypes
  <2>5. calls' \in Seq(Terminal!OneOf(CallWords))
    <3>1. CASE calls' = calls
      BY <3>1, <2>4
    <3>2. CASE calls' # calls
      <4>1. PICK k \in 0 .. Keys + 1 : calls' = Append(calls, [op |-> "queueData", arg |-> k])
        BY <3>2, <2>2
      <4>2. QED
        BY <4>1, <2>3, <2>4, AppendProperties
    <3>3. QED
      BY <3>1, <3>2
  <2>6. signals' \in Seq(Terminal!OneOf(SignalWords))
    BY <2>1, <2>4, HeadTailProperties
  <2>7. QED
    BY <2>1, <2>5, <2>6, <1>b DEF BufferTypes
<1>25. CASE Terminal!DisconnectSession
  <2>1. UNCHANGED <<writeBuf, accepted, unread, shown>> /\ (signals' = signals \/ (signals # << >> /\ signals' = Tail(signals)))
    BY <1>25 DEF Terminal!DisconnectSession, Terminal!remote, Terminal!Handles
  <2>2. calls' = calls \/ \E k \in 0 .. Keys + 1 : calls' = Append(calls, [op |-> "stop", arg |-> k])
    BY <1>25, <1>b, Bounds DEF Terminal!DisconnectSession, Terminal!Call, FlagTypes
  <2>3. \A k \in 0 .. Keys + 1 : [op |-> "stop", arg |-> k] \in Terminal!OneOf(CallWords)
    BY Bounds DEF Terminal!OneOf, CallWords
  <2>4. calls \in Seq(Terminal!OneOf(CallWords)) /\ signals \in Seq(Terminal!OneOf(SignalWords))
    BY <1>b DEF BufferTypes
  <2>5. calls' \in Seq(Terminal!OneOf(CallWords))
    <3>1. CASE calls' = calls
      BY <3>1, <2>4
    <3>2. CASE calls' # calls
      <4>1. PICK k \in 0 .. Keys + 1 : calls' = Append(calls, [op |-> "stop", arg |-> k])
        BY <3>2, <2>2
      <4>2. QED
        BY <4>1, <2>3, <2>4, AppendProperties
    <3>3. QED
      BY <3>1, <3>2
  <2>6. signals' \in Seq(Terminal!OneOf(SignalWords))
    BY <2>1, <2>4, HeadTailProperties
  <2>7. QED
    BY <2>1, <2>5, <2>6, <1>b DEF BufferTypes
<1>26. CASE Terminal!CloseTab
  <2>1. UNCHANGED <<writeBuf, accepted, unread, shown>> /\ (signals' = signals \/ (signals # << >> /\ signals' = Tail(signals)))
    BY <1>26 DEF Terminal!CloseTab, Terminal!remote, Terminal!Handles
  <2>2. calls' = calls \/ \E k \in 0 .. Keys + 1 : calls' = Append(calls, [op |-> "stop", arg |-> k])
    BY <1>26, <1>b, Bounds DEF Terminal!CloseTab, Terminal!Call, FlagTypes
  <2>3. \A k \in 0 .. Keys + 1 : [op |-> "stop", arg |-> k] \in Terminal!OneOf(CallWords)
    BY Bounds DEF Terminal!OneOf, CallWords
  <2>4. calls \in Seq(Terminal!OneOf(CallWords)) /\ signals \in Seq(Terminal!OneOf(SignalWords))
    BY <1>b DEF BufferTypes
  <2>5. calls' \in Seq(Terminal!OneOf(CallWords))
    <3>1. CASE calls' = calls
      BY <3>1, <2>4
    <3>2. CASE calls' # calls
      <4>1. PICK k \in 0 .. Keys + 1 : calls' = Append(calls, [op |-> "stop", arg |-> k])
        BY <3>2, <2>2
      <4>2. QED
        BY <4>1, <2>3, <2>4, AppendProperties
    <3>3. QED
      BY <3>1, <3>2
  <2>6. signals' \in Seq(Terminal!OneOf(SignalWords))
    BY <2>1, <2>4, HeadTailProperties
  <2>7. QED
    BY <2>1, <2>5, <2>6, <1>b DEF BufferTypes
<1>27. QED
  BY <1>1, <1>2, <1>3, <1>4, <1>5, <1>6, <1>7, <1>8, <1>9, <1>10, <1>11, <1>12, <1>13, <1>14, <1>15, <1>16, <1>17, <1>18, <1>19, <1>20, <1>21, <1>22, <1>23, <1>24, <1>25, <1>26
  DEF Terminal!Next, Terminal!Worker, Terminal!Slots, Terminal!Server, Terminal!Widget, Terminal!User

-----------------------------------------------------------------------------

LEMMA TerminalStarts == Terminal!Init => TerminalInv
<1> SUFFICES ASSUME Terminal!Init
             PROVE  TerminalInv
  OBVIOUS
<1> DEFINE queue == <<[op |-> "start", arg |-> 0]>>
<1>1. calls = queue
  BY DEF Terminal!Init, Terminal!Call
<1>2. /\ queue \in Seq(Messages) /\ Len(queue) = 1 /\ queue[1].op = "start"
      /\ queue \in Seq(Terminal!OneOf(CallWords))
  BY Bounds DEF Messages, Words, Terminal!OneOf, CallWords
<1> HIDE DEF queue
<1>3. BufferTypes /\ FlagTypes
  <2>1. BufferTypes
    <3>1. /\ signals = << >> /\ writeBuf = << >> /\ accepted = << >> /\ unread = << >> /\ shown = << >>
      BY DEF Terminal!Init
    <3>2. \A S : << >> \in Seq(S)
      OBVIOUS
    <3>3. QED
      BY <3>1, <3>2, <1>1, <1>2 DEF BufferTypes
  <2>2. FlagTypes
    <3>1. /\ connected \in BOOLEAN /\ autoReconnect \in BOOLEAN /\ userClosing \in BOOLEAN
          /\ reconnecting \in BOOLEAN /\ exited \in BOOLEAN /\ timer \in BOOLEAN /\ closed \in BOOLEAN
      BY Zenon DEF Terminal!Init
    <3>2. /\ delay = 2 /\ worker = "idle" /\ host = "none" /\ typed = 0 /\ produced = 0
          /\ failures = 0 /\ connections = 1
      BY DEF Terminal!Init
    <3>3. QED
      BY <3>1, <3>2, Bounds DEF FlagTypes
  <2>3. QED
    BY <2>1, <2>2
<1>4. CallsWanted
  BY <1>1, <1>2 DEF CallsWanted, Terminal!Init
<1>5. WorkerOrder /\ TimerMeansDown /\ EndsCounted /\ ExitLast
  BY NoSignals DEF WorkerOrder, TimerMeansDown, EndsCounted, ExitLast, Terminal!Init
<1>6. KeysKept
  <2>1. Carriers(queue, "queueData") = {} /\ 0 + 1 .. 0 = {}
    BY <1>2 DEF Carriers
  <2>2. Terminal!Carries(queue, "queueData", 0, 0)
    BY <2>1, <1>2, CarriesMeans
  <2>3. KeysFrom(0)
    BY <2>2, <1>1 DEF KeysFrom, Terminal!Init
  <2>4. QED
    BY <2>3 DEF KeysKept, Terminal!Init
<1>7. OutputKept
  <2>1. Terminal!Carries(<< >>, "dataReceived", 0, 0)
    BY CarriesNone
  <2>2. << >> = [i \in 1 .. 0 |-> i] /\ << >> = [i \in 1 .. 0 - 0 |-> 0 + i]
    OBVIOUS
  <2>3. ShownTo(0, 0) /\ 0 \in 0 .. produced
    BY <2>1, <2>2 DEF ShownTo, Terminal!Init
  <2>4. QED
    BY <2>3 DEF OutputKept
<1>8. QED
  BY <1>3, <1>4, <1>5, <1>6, <1>7, TerminalTypes DEF TerminalInv

LEMMA TypeStep ==
    ASSUME TerminalInv, Terminal!Next
    PROVE  Terminal!TypeOK'
<1>1. BufferTypes' /\ FlagTypes'
  BY FlagStep, BufferStep
<1>2. QED
  BY <1>1 DEF Terminal!TypeOK, BufferTypes, FlagTypes, CallWords, SignalWords

LEMMA TerminalStep ==
    TerminalInv /\ [Terminal!Next]_<<Terminal!vars, wireVars>> => TerminalInv'
<1> SUFFICES ASSUME TerminalInv, [Terminal!Next]_<<Terminal!vars, wireVars>>
             PROVE  TerminalInv'
  OBVIOUS
<1>1. CASE Terminal!Next
  BY <1>1, TypeStep, CallsStep, OrderStep, TimerStep, CountStep, KeysStep, OutputStep, ExitStep
  DEF TerminalInv
<1>2. CASE UNCHANGED <<Terminal!vars, wireVars>>
  <2>1. UNCHANGED <<connected, autoReconnect, userClosing, reconnecting, exited, delay, timer, closed,
                    calls, signals, worker, writeBuf, host, unread, produced, typed, accepted, shown,
                    connections, failures>>
    BY <1>2 DEF Terminal!vars, Terminal!widget, Terminal!remote
  <2>2. BufferTypes' /\ FlagTypes'
    BY <2>1, TerminalTypes DEF TerminalInv, BufferTypes, FlagTypes
  <2>3. CallsWanted' /\ WorkerOrder' /\ TimerMeansDown' /\ EndsCounted' /\ ExitLast'
    BY <2>1 DEF TerminalInv, CallsWanted, WorkerOrder, TimerMeansDown, EndsCounted, ExitLast
  <2>4. KeysKept' /\ OutputKept'
    BY <2>1 DEF TerminalInv, KeysKept, KeysFrom, OutputKept, ShownTo
  <2>5. Terminal!TypeOK'
    BY <2>2 DEF Terminal!TypeOK, BufferTypes, FlagTypes, CallWords, SignalWords
  <2>6. QED
    BY <2>3, <2>4, <2>5 DEF TerminalInv
<1>3. QED
  BY <1>1, <1>2

\* What the invariant says of the text.
LEMMA TerminalTextIs ==
    TerminalInv => Terminal!TypeOK /\ Terminal!KeysInOrder /\ Terminal!OutputComplete
<1> SUFFICES ASSUME TerminalInv
             PROVE  Terminal!KeysInOrder /\ Terminal!OutputComplete
  BY DEF TerminalInv
<1>1. ASSUME worker = "open", host = "shell"
      PROVE  \E n \in 0 .. typed :
                /\ Terminal!Consecutive(accepted \o writeBuf)
                /\ accepted \o writeBuf # << >> => Terminal!Last(accepted \o writeBuf) = n
                /\ Terminal!Carries(calls, "queueData", n, typed)
  BY <1>1 DEF TerminalInv, KeysKept, KeysFrom, RunTo, Terminal!Consecutive, Terminal!Last
<1>2. ASSUME exited
      PROVE  Len(shown) = produced /\ Terminal!Consecutive(shown)
  <2>1. unread = << >> /\ ~Has(signals, "dataReceived") /\ signals \in Seq(Messages) /\ produced \in Nat
    BY <1>2, QueueTypes DEF TerminalInv, ExitLast
  <2>2. PICK n \in 0 .. produced, m \in 0 .. produced : ShownTo(n, m)
    BY DEF TerminalInv, OutputKept
  <2>3. m = produced
    <3>1. Len([i \in 1 .. produced - m |-> m + i]) = produced - m /\ Len(<< >>) = 0
      BY <2>1
    <3>2. QED
      BY <3>1, <2>1, <2>2 DEF ShownTo
  <2>4. n = m
    <3>1. Carriers(signals, "dataReceived") = {}
      BY <2>1 DEF Carriers, Has
    <3>0. n \in Nat /\ m \in Nat /\ Terminal!Carries(signals, "dataReceived", n, m)
      BY <2>1, <2>2 DEF ShownTo
    <3>2. n + 1 .. m = {}
      BY <3>0, <3>1, <2>1, CarriesMeans
    <3>3. n < m => n + 1 \in n + 1 .. m
      BY <2>1
    <3>4. QED
      BY <3>2, <3>3, <2>1, <2>2 DEF ShownTo
  <2>5. shown = [i \in 1 .. produced |-> i]
    BY <2>2, <2>3, <2>4 DEF ShownTo
  <2>6. QED
    BY <2>1, <2>5 DEF Terminal!Consecutive
<1>3. QED
  BY <1>1, <1>2 DEF Terminal!KeysInOrder, Terminal!OutputComplete

\* The keys a connection takes are a run of those typed, and the output of a shell
\* that ends is on the screen when its end is known, whatever is lost or fails.
THEOREM TextKept == Spec => []TerminalText
<1>1. Init => (op = "terminal" => TerminalInv)
  BY TerminalStarts DEF Init
<1>2. (op = "terminal" => TerminalInv) /\ [Next]_vars => (op = "terminal" => TerminalInv)'
  <2> SUFFICES ASSUME op = "terminal" => TerminalInv, [Next]_vars, op' = "terminal"
               PROVE  TerminalInv'
    OBVIOUS
  <2>1. op = "terminal"
    BY DEF Next, vars, Terminals, Tftps, Telnets, Forwards
  <2>2. Terminal!Next \/ UNCHANGED vars
    BY <2>1 DEF Next, Terminals, Tftps, Telnets, Forwards
  <2>3. [Terminal!Next]_<<Terminal!vars, wireVars>>
    BY <2>2 DEF vars, terminalVars, textVars, wireVars, Terminal!vars, Terminal!widget, Terminal!remote
  <2>4. QED
    BY <2>1, <2>3, TerminalStep
<1>3. (op = "terminal" => TerminalInv) => TerminalText
  BY TerminalTextIs DEF TerminalText
<1>4. QED
  BY <1>1, <1>2, <1>3, PTL DEF Spec

\* A new connection is made only after a drop that nobody asked for.
THEOREM RetriesWanted == Spec => WantedRetry
<1>1. Init => (op = "terminal" => TerminalInv)
  BY TerminalStarts DEF Init
<1>2. (op = "terminal" => TerminalInv) /\ [Next]_vars => (op = "terminal" => TerminalInv)'
  <2> SUFFICES ASSUME op = "terminal" => TerminalInv, [Next]_vars, op' = "terminal"
               PROVE  TerminalInv'
    OBVIOUS
  <2>1. op = "terminal"
    BY DEF Next, vars, Terminals, Tftps, Telnets, Forwards
  <2>2. Terminal!Next \/ UNCHANGED vars
    BY <2>1 DEF Next, Terminals, Tftps, Telnets, Forwards
  <2>3. [Terminal!Next]_<<Terminal!vars, wireVars>>
    BY <2>2 DEF vars, terminalVars, textVars, wireVars, Terminal!vars, Terminal!widget, Terminal!remote
  <2>4. QED
    BY <2>1, <2>3, TerminalStep
<1>3. (op = "terminal" => TerminalInv) /\ [Next]_vars => [op = "terminal" => Terminal!WantedRetry]_vars
  <2> SUFFICES ASSUME op = "terminal", TerminalInv, Next, connections' > connections
               PROVE  /\ ~userClosing /\ ~exited /\ autoReconnect
                      /\ worker = "down" /\ ~connected
    BY DEF Terminal!WantedRetry
  <2>1. Terminal!Next
    BY DEF Next, Terminals, Tftps, Telnets, Forwards
  <2>2. Terminal!Reconnect \/ connections' = connections
    BY <2>1
    DEF Terminal!Next, Terminal!Worker, Terminal!Slots, Terminal!Server, Terminal!Widget, Terminal!User,
        Terminal!StartOpens, Terminal!StartUnreachable, Terminal!StartFails, Terminal!ProceedOpens,
        Terminal!ProceedFails, Terminal!ProceedTooLate, Terminal!QueueData, Terminal!Stop,
        Terminal!PumpReads, Terminal!PumpSeesExit, Terminal!PumpSeesDrop, Terminal!ThreadEnds,
        Terminal!Output, Terminal!Exit, Terminal!Drop, Terminal!ShowData, Terminal!OnHostKey,
        Terminal!OnConnected, Terminal!OnError, Terminal!OnAuthenticationFailed,
        Terminal!OnRemoteExited, Terminal!OnDisconnected, Terminal!Type,
        Terminal!DisconnectSession, Terminal!CloseTab
  <2>3. connections \in Nat
    BY QueueTypes DEF TerminalInv
  <2>4. timer /\ ~closed
    BY <2>2, <2>3 DEF Terminal!Reconnect
  <2>5. QED
    BY <2>4 DEF TerminalInv, TimerMeansDown, WorkerOrder
<1>4. QED
  BY <1>1, <1>2, <1>3, PTL DEF Spec, WantedRetry

-----------------------------------------------------------------------------
(* The telnet terminal.  Behind each byte under way is its place in a unit: a *)
(* byte of text, a command, a subnegotiation.  Either decoder stands at the   *)
(* place of the last byte it took.                                            *)

AnyByte == TextBytes \cup Telnet!Verbs \cup Options
               \cup {"IAC", "SE", "SB", "NAWS", "0", "TTYPE", "IS", "SEND"}
Question == <<"IAC", "SB", "TTYPE", "SEND", "IAC", "SE">>
TextUnits == {Telnet!Escaped(b) : b \in TextBytes}
Commands == {<<"IAC", v, o>> : v \in Telnet!Verbs, o \in Options}
ServerUnits == TextUnits \cup Commands \cup {Question}
SizeUnits == {Telnet!Naws(s) : s \in {z \in Telnet!Sizes : ~Telnet!Marred(z)}}
ClientUnits == TextUnits \cup Commands \cup SizeUnits \cup {Telnet!TerminalType}
TelnetUnits == ServerUnits \cup ClientUnits

\* The place of a byte: n bytes of the text began up to it.
Places == [unit : TelnetUnits, at : 1 .. 9, no : Nat]
Place(u, k, n) == [unit |-> u, at |-> k, no |-> n]
Within(p) == p.at < Len(p.unit)
Placed(p, text) ==
    /\ p \in Places /\ p.at <= Len(p.unit) /\ p.no <= Len(text)
    /\ p.unit \in TextUnits => p.no > 0 /\ p.unit = Telnet!Escaped(text[p.no])
More(u) == IF u \in TextUnits THEN 1 ELSE 0
Follows(p, q) ==
    IF Within(p) THEN q = Place(p.unit, p.at + 1, p.no)
                 ELSE q = Place(q.unit, 1, p.no + More(q.unit))

\* After the place p come the bytes, which are units to their end, and all of
\* the text is among them.
Trail(T, p, bytes, text) ==
    /\ Len(T) = Len(bytes) + 1 /\ T[1] = p
    /\ \A i \in 1 .. Len(T) : Placed(T[i], text)
    /\ \A i \in 1 .. Len(bytes) : Follows(T[i], T[i + 1]) /\ bytes[i] = T[i + 1].unit[T[i + 1].at]
    /\ ~Within(T[Len(T)]) /\ T[Len(T)].no = Len(text)
Coded(units, p, bytes, text) ==
    \E T \in Seq(Places) : Trail(T, p, bytes, text) /\ \A i \in 1 .. Len(T) : T[i].unit \in units

LEMMA Literals ==
    /\ "IAC" \notin Telnet!Verbs /\ "SB" \notin Telnet!Verbs /\ "SE" \notin Telnet!Verbs
    /\ "IAC" \in AnyByte /\ "SB" \in AnyByte /\ "SE" \in AnyByte /\ "NAWS" \in AnyByte
    /\ "0" \in AnyByte /\ "TTYPE" \in AnyByte /\ "IS" \in AnyByte /\ "SEND" \in AnyByte
    /\ Telnet!Verbs \subseteq AnyByte /\ Options \subseteq AnyByte /\ TextBytes \subseteq AnyByte
  BY DEF Telnet!Verbs, AnyByte

LEMMA TextUnit ==
    ASSUME NEW b \in TextBytes
    PROVE  LET u == Telnet!Escaped(b) IN
           /\ u \in Seq(AnyByte) /\ u \in TextUnits
           /\ b = "IAC" => Len(u) = 2 /\ u[1] = "IAC" /\ u[2] = "IAC"
           /\ b # "IAC" => Len(u) = 1 /\ u[1] = b
<1>1. CASE b = "IAC"
  <2>1. Telnet!Escaped(b) = <<"IAC", "IAC">>
    BY <1>1 DEF Telnet!Escaped
  <2>2. <<"IAC", "IAC">> \in Seq(AnyByte)
    BY Literals
  <2>3. Telnet!Escaped(b) \in TextUnits
    BY DEF TextUnits
  <2> DEFINE u == <<"IAC", "IAC">>
  <2>4. Len(u) = 2 /\ u[1] = "IAC" /\ u[2] = "IAC"
    OBVIOUS
  <2> HIDE DEF u
  <2>5. Telnet!Escaped(b) = u /\ u \in Seq(AnyByte) /\ u \in TextUnits
    BY <2>1, <2>2, <2>3 DEF u
  <2>6. QED
    BY <1>1, <2>4, <2>5
<1>2. CASE b # "IAC"
  <2>1. Telnet!Escaped(b) = <<b>>
    BY <1>2 DEF Telnet!Escaped
  <2>2. b \in AnyByte
    BY Literals
  <2>3. <<b>> \in Seq(AnyByte)
    BY <2>2
  <2>4. QED
    BY <1>2, <2>1, <2>3 DEF TextUnits
<1>3. QED
  BY <1>1, <1>2

LEMMA LongUnit ==
    ASSUME NEW u \in {Question, Telnet!TerminalType}
    PROVE  /\ u \in Seq(AnyByte) /\ Len(u) = 6
           /\ u[1] = "IAC" /\ u[2] = "SB" /\ u[3] = "TTYPE"
           /\ u[4] \in {"SEND", "IS"} /\ u[5] = "IAC" /\ u[6] = "SE"
<1>1. CASE u = Question
  <2>1. <<"IAC", "SB", "TTYPE", "SEND", "IAC", "SE">> \in Seq(AnyByte)
    BY Literals
  <2>2. QED
    BY <1>1, <2>1 DEF Question
<1>2. CASE u = Telnet!TerminalType
  <2>1. <<"IAC", "SB", "TTYPE", "IS", "IAC", "SE">> \in Seq(AnyByte)
    BY Literals
  <2>2. QED
    BY <1>2, <2>1 DEF Telnet!TerminalType
<1>3. QED
  BY <1>1, <1>2

\* A size without a byte 255.
LEMMA SizeUnit ==
    ASSUME NEW s \in Telnet!Sizes, ~Telnet!Marred(s)
    PROVE  LET u == Telnet!Naws(s) IN
           /\ u \in SizeUnits /\ u \in Seq(AnyByte) /\ Len(u) = 9
           /\ u[1] = "IAC" /\ u[2] = "SB" /\ u[4] = "0" /\ u[5] # "IAC" /\ u[6] = "0"
           /\ u[7] # "IAC" /\ u[8] = "IAC" /\ u[9] = "SE"
<1> DEFINE c == s.cols
           r == s.rows
<1>1. c \in AnyByte /\ r \in AnyByte
  <2>1. CASE s = Telnet!FirstSize
    BY <2>1, Literals DEF Telnet!FirstSize
  <2>2. CASE s \in [cols : TextBytes, rows : TextBytes]
    BY <2>2, Literals
  <2>3. QED
    BY <2>1, <2>2 DEF Telnet!Sizes
<1>2. c # "IAC" /\ r # "IAC"
  BY DEF Telnet!Marred
<1>3. Telnet!Naws(s) = <<"IAC", "SB", "NAWS", "0", c, "0", r, "IAC", "SE">>
  BY DEF Telnet!Naws
<1>4. Telnet!Naws(s) \in SizeUnits
  BY DEF SizeUnits
<1> HIDE DEF c, r
<1>5. <<"IAC", "SB", "NAWS", "0", c, "0", r, "IAC", "SE">> \in Seq(AnyByte)
  BY <1>1, Literals
<1>6. QED
  BY <1>2, <1>3, <1>4, <1>5

LEMMA CommandUnit ==
    ASSUME NEW v \in Telnet!Verbs, NEW o \in Options
    PROVE  LET u == <<"IAC", v, o>> IN
           /\ u \in Seq(AnyByte) /\ u \in Commands
           /\ Len(u) = 3 /\ u[1] = "IAC" /\ u[2] = v /\ u[3] = o
<1>1. "IAC" \in AnyByte /\ v \in AnyByte /\ o \in AnyByte
  BY Literals
<1>2. <<"IAC", v, o>> \in Seq(AnyByte)
  BY <1>1
<1>3. QED
  BY <1>2 DEF Commands

\* What each unit begins and ends with.
LEMMA UnitFacts ==
    ASSUME NEW u \in TelnetUnits
    PROVE  /\ u \in Seq(AnyByte) /\ Len(u) \in 1 .. 9 /\ Len(u) \in {1, 2, 3, 6, 9}
           /\ u \in TextUnits <=> Len(u) \in {1, 2}
           /\ Len(u) = 1 => u[1] # "IAC"
           /\ Len(u) > 1 => u[1] = "IAC"
           /\ Len(u) = 2 => u[2] = "IAC"
           /\ Len(u) = 3 => u[2] \in Telnet!Verbs /\ u[3] \in Options
           /\ Len(u) = 6 => /\ u[2] = "SB" /\ u[4] \in {"SEND", "IS"}
                            /\ u[5] = "IAC" /\ u[6] = "SE"
           /\ Len(u) = 9 => /\ u[2] = "SB" /\ u[4] = "0" /\ u[5] # "IAC" /\ u[6] = "0"
                            /\ u[7] # "IAC" /\ u[8] = "IAC" /\ u[9] = "SE"
           /\ u \in ServerUnits => Len(u) # 9
<1>1. ASSUME NEW t \in TextUnits
      PROVE  /\ t \in Seq(AnyByte) /\ Len(t) \in {1, 2}
             /\ Len(t) = 1 => t[1] # "IAC"
             /\ Len(t) = 2 => t[1] = "IAC" /\ t[2] = "IAC"
  <2>1. PICK b \in TextBytes : t = Telnet!Escaped(b)
    BY DEF TextUnits
  <2>2. QED
    BY <2>1, TextUnit
<1>2. ASSUME NEW c \in Commands
      PROVE  /\ c \in Seq(AnyByte) /\ Len(c) = 3 /\ c[1] = "IAC"
             /\ c[2] \in Telnet!Verbs /\ c[3] \in Options
  <2>1. PICK v \in Telnet!Verbs, o \in Options : c = <<"IAC", v, o>>
    BY DEF Commands
  <2>2. QED
    BY <2>1, CommandUnit
<1>3. ASSUME NEW z \in SizeUnits
      PROVE  /\ z \in Seq(AnyByte) /\ Len(z) = 9
             /\ z[1] = "IAC" /\ z[2] = "SB" /\ z[4] = "0" /\ z[5] # "IAC" /\ z[6] = "0"
             /\ z[7] # "IAC" /\ z[8] = "IAC" /\ z[9] = "SE"
  <2>1. PICK s \in Telnet!Sizes : ~Telnet!Marred(s) /\ z = Telnet!Naws(s)
    BY DEF SizeUnits
  <2>2. QED
    BY <2>1, SizeUnit
<1>4. ASSUME NEW q \in ServerUnits
      PROVE  Len(q) # 9
  <2>1. CASE q \in TextUnits
    <3>1. Len(q) \in {1, 2}
      BY <1>1, <2>1
    <3>2. QED
      BY <3>1
  <2>2. CASE q \in Commands
    <3>1. Len(q) = 3
      BY <1>2, <2>2
    <3>2. QED
      BY <3>1
  <2>3. CASE q = Question
    BY <2>3, LongUnit
  <2>4. QED
    BY <2>1, <2>2, <2>3 DEF ServerUnits
<1>5. CASE u \in TextUnits
  <2>1. CASE Len(u) = 1
    BY <1>1, <1>5, <2>1
  <2>2. CASE Len(u) = 2
    BY <1>1, <1>5, <2>2
  <2>3. QED
    BY <1>1, <1>5, <1>4, <2>1, <2>2
<1>6. CASE u \in Commands
  <2>1. u \notin TextUnits
    BY <1>1, <1>2, <1>6
  <2>2. QED
    BY <1>2, <1>6, <1>4, <2>1
<1>7. CASE u \in {Question, Telnet!TerminalType}
  <2>1. u \notin TextUnits
    BY <1>1, <1>7, LongUnit
  <2>2. u \in Seq(AnyByte) /\ Len(u) = 6
    BY <1>7, LongUnit
  <2>3. /\ u[1] = "IAC" /\ u[2] = "SB" /\ u[4] \in {"SEND", "IS"}
        /\ u[5] = "IAC" /\ u[6] = "SE"
    BY <1>7, LongUnit
  <2>4. QED
    BY <1>4, <2>1, <2>2, <2>3
<1>8. CASE u \in SizeUnits
  <2>1. u \notin TextUnits
    BY <1>1, <1>8, <1>3
  <2>2. QED
    BY <1>8, <1>4, <1>3, <2>1
<1>9. QED
  BY <1>5, <1>6, <1>7, <1>8 DEF TelnetUnits, ServerUnits, ClientUnits

LEMMA PlaceTyped ==
    ASSUME NEW u \in TelnetUnits, NEW k \in 1 .. Len(u), NEW n \in Nat
    PROVE  Place(u, k, n) \in Places
<1>1. Len(u) \in 1 .. 9
  BY UnitFacts
<1> DEFINE l == Len(u)
<1>2. k \in 1 .. l /\ l \in 1 .. 9
  BY <1>1
<1> HIDE DEF l
<1>3. k \in 1 .. 9
  BY <1>2
<1>4. QED
  BY <1>3 DEF Place, Places

\* A unit more is sent; text has its byte more.
LEMMA UnitMore ==
    ASSUME NEW units, units \subseteq TelnetUnits, NEW p,
           NEW bytes \in Seq(AnyByte), NEW text \in Seq(TextBytes),
           Coded(units, p, bytes, text),
           NEW u \in units, NEW more \in Seq(TextBytes),
           Len(more) = Len(text) + More(u),
           \A i \in 1 .. Len(text) : more[i] = text[i],
           u \in TextUnits => u = Telnet!Escaped(more[Len(more)])
    PROVE  /\ Coded(units, p, bytes \o u, more)
           /\ bytes \o u \in Seq(AnyByte)
<1>1. PICK T \in Seq(Places) :
         Trail(T, p, bytes, text) /\ \A i \in 1 .. Len(T) : T[i].unit \in units
  BY DEF Coded
<1> DEFINE n == Len(more)
           l == Len(u)
           new == [k \in 1 .. l |-> Place(u, k, n)]
           all == T \o new
           out == bytes \o u
           L == Len(bytes)
<1>2. /\ u \in TelnetUnits /\ u \in Seq(AnyByte) /\ l \in 1 .. 9 /\ n \in Nat /\ L \in Nat
      /\ More(u) \in {0, 1} /\ Len(text) \in Nat
  BY UnitFacts DEF More
<1>3. Len(T) = L + 1 /\ T[1] = p /\ ~Within(T[L + 1]) /\ T[L + 1].no = Len(text)
  BY <1>1, <1>2 DEF Trail
<1>4. new \in Seq(Places) /\ Len(new) = l /\ \A k \in 1 .. l : new[k] = Place(u, k, n)
  <2>1. \A k \in 1 .. l : Place(u, k, n) \in Places
    BY <1>2, PlaceTyped
  <2>2. new \in [1 .. l -> Places]
    BY <2>1
  <2>3. QED
    BY <2>2, <1>2
<1> HIDE DEF new
<1>5. /\ all \in Seq(Places) /\ Len(all) = L + 1 + l
      /\ \A i \in 1 .. L + 1 : all[i] = T[i]
      /\ \A k \in 1 .. l : all[L + 1 + k] = Place(u, k, n)
  <2>1. T \in Seq(Places) /\ new \in Seq(Places)
    BY <1>4
  <2>2. /\ all \in Seq(Places) /\ Len(all) = Len(T) + Len(new)
        /\ \A i \in 1 .. Len(T) : all[i] = T[i]
        /\ \A k \in 1 .. Len(new) : all[Len(T) + k] = new[k]
    BY <2>1
  <2> HIDE DEF all, l, L
  <2>3. QED
    BY <2>2, <1>3, <1>4
<1>6. /\ out \in Seq(AnyByte) /\ Len(out) = L + l
      /\ \A i \in 1 .. L : out[i] = bytes[i]
      /\ \A k \in 1 .. l : out[L + k] = u[k]
  BY <1>2
<1> HIDE DEF all, out, l, L, n
<1>7. \A k \in 1 .. l : Placed(Place(u, k, n), more) /\ Place(u, k, n).unit = u
  <2> TAKE k \in 1 .. l
  <2> DEFINE q == Place(u, k, n)
  <2>1. q \in Places
    BY <1>2, PlaceTyped DEF l
  <2>2. q.unit = u /\ q.at = k /\ q.no = n
    BY DEF Place
  <2>3. u \in TextUnits => n > 0
    BY <1>2 DEF More, n
  <2> HIDE DEF q
  <2>4. k <= Len(u) /\ n <= Len(more)
    BY <1>2 DEF l, n
  <2>5. Placed(q, more)
    BY <2>1, <2>2, <2>3, <2>4 DEF Placed, n
  <2>6. QED
    BY <2>2, <2>5 DEF q
<1>8. \A i \in 1 .. L + 1 : Placed(T[i], more) /\ T[i].unit \in units
  <2> TAKE i \in 1 .. L + 1
  <2>1. Placed(T[i], text) /\ T[i].unit \in units
    BY <1>1, <1>3 DEF Trail
  <2>2. T[i].no \in Nat /\ T[i].no <= Len(text)
    BY <2>1 DEF Placed, Places
  <2>3. T[i].no <= Len(more)
    BY <2>2, <1>2 DEF n
  <2>4. T[i].no > 0 => more[T[i].no] = text[T[i].no]
    BY <2>2, <1>2
  <2>5. QED
    BY <2>1, <2>3, <2>4 DEF Placed
<1>9. \A i \in 1 .. Len(all) : Placed(all[i], more) /\ all[i].unit \in units
  <2> TAKE i \in 1 .. Len(all)
  <2>1. CASE i \in 1 .. L + 1
    BY <2>1, <1>5, <1>8
  <2>2. CASE i > L + 1
    <3>1. i - (L + 1) \in 1 .. l /\ L + 1 + (i - (L + 1)) = i
      BY <2>2, <1>2, <1>5
    <3>2. all[i] = Place(u, i - (L + 1), n)
      BY <3>1, <1>5
    <3>3. QED
      BY <3>1, <3>2, <1>7
  <2>3. QED
    BY <2>1, <2>2, <1>2, <1>5
<1>10. \A i \in 1 .. Len(out) : Follows(all[i], all[i + 1]) /\ out[i] = all[i + 1].unit[all[i + 1].at]
  <2> TAKE i \in 1 .. Len(out)
  <2>1. CASE i <= L
    <3>1. i \in 1 .. L /\ i \in 1 .. L + 1 /\ i + 1 \in 1 .. L + 1
      BY <2>1, <1>2, <1>6
    <3>2. all[i] = T[i] /\ all[i + 1] = T[i + 1] /\ out[i] = bytes[i]
      BY <3>1, <1>5, <1>6
    <3>3. Follows(T[i], T[i + 1]) /\ bytes[i] = T[i + 1].unit[T[i + 1].at]
      BY <3>1, <1>1 DEF Trail, L
    <3>4. QED
      BY <3>2, <3>3
  <2>2. CASE i = L + 1
    <3>1. all[i] = T[L + 1] /\ all[i + 1] = Place(u, 1, n) /\ out[i] = u[1]
      <4>1. 1 \in 1 .. l /\ i \in 1 .. L + 1 /\ i + 1 = L + 1 + 1
        BY <2>2, <1>2
      <4>2. QED
        BY <4>1, <2>2, <1>5, <1>6
    <3>2. n = T[L + 1].no + More(u)
      BY <1>3 DEF n
    <3>3. Place(u, 1, n).unit = u /\ Place(u, 1, n).at = 1
      BY DEF Place
    <3>4. QED
      BY <3>1, <3>2, <3>3, <1>3 DEF Follows
  <2>3. CASE i > L + 1
    <3> DEFINE k == i - (L + 1)
    <3>0. i \in Nat /\ i <= L + l
      BY <1>2, <1>6
    <3>1. k \in 1 .. l /\ k + 1 \in 1 .. l /\ i = L + 1 + k /\ i + 1 = L + 1 + (k + 1) /\ i = L + (k + 1)
      BY <2>3, <1>2, <3>0
    <3> HIDE DEF k
    <3>2. all[i] = Place(u, k, n) /\ all[i + 1] = Place(u, k + 1, n) /\ out[i] = u[k + 1]
      BY <3>1, <1>5, <1>6
    <3>3. /\ Place(u, k, n).unit = u /\ Place(u, k, n).at = k /\ Place(u, k, n).no = n
          /\ Place(u, k + 1, n).unit = u /\ Place(u, k + 1, n).at = k + 1
      BY DEF Place
    <3>4. Within(Place(u, k, n))
      BY <3>1, <3>3, <1>2 DEF Within, l
    <3>5. QED
      BY <3>2, <3>3, <3>4 DEF Follows
  <2>4. QED
    BY <2>1, <2>2, <2>3, <1>2, <1>6
<1>11. ~Within(all[Len(all)]) /\ all[Len(all)].no = n
  <2>1. Len(all) = L + 1 + l /\ l \in 1 .. l
    BY <1>2, <1>5
  <2>2. all[L + 1 + l] = Place(u, l, n)
    BY <2>1, <1>5
  <2>3. all[Len(all)] = Place(u, l, n)
    BY <2>1, <2>2
  <2>4. QED
    BY <2>3, <1>2 DEF Place, Within, l
<1>12. all[1] = p /\ Len(all) = Len(out) + 1
  BY <1>2, <1>3, <1>5, <1>6
<1>13. Trail(all, p, out, more)
  BY <1>9, <1>10, <1>11, <1>12 DEF Trail, n
<1>14. Coded(units, p, out, more)
  BY <1>5, <1>9, <1>13 DEF Coded
<1>15. QED
  BY <1>6, <1>14 DEF out

\* No byte is under way: the last unit is at its end, and no text is left.
LEMMA CodedEnd ==
    ASSUME NEW units, NEW p, NEW text, Coded(units, p, << >>, text)
    PROVE  ~Within(p) /\ p.no = Len(text)
<1>1. PICK T \in Seq(Places) : Trail(T, p, << >>, text)
  BY DEF Coded
<1>2. Len(T) = 1 /\ T[1] = p
  BY <1>1 DEF Trail
<1>3. ~Within(T[Len(T)]) /\ T[Len(T)].no = Len(text)
  BY <1>1 DEF Trail
<1>4. QED
  BY <1>2, <1>3

\* The decoder's own place is one of the stream's.
LEMMA CodedPlace ==
    ASSUME NEW units, NEW p, NEW bytes \in Seq(AnyByte), NEW text \in Seq(TextBytes),
           Coded(units, p, bytes, text)
    PROVE  p \in Places /\ Placed(p, text) /\ p.unit \in units
<1>1. PICK T \in Seq(Places) :
         Trail(T, p, bytes, text) /\ \A i \in 1 .. Len(T) : T[i].unit \in units
  BY DEF Coded
<1>2. Len(T) = Len(bytes) + 1 /\ T[1] = p
  BY <1>1 DEF Trail
<1>3. 1 \in 1 .. Len(T)
  BY <1>2
<1>4. Placed(T[1], text) /\ T[1].unit \in units
  BY <1>1, <1>3 DEF Trail
<1>5. QED
  BY <1>2, <1>4 DEF Placed

\* A byte is taken.
LEMMA CodedTail ==
    ASSUME NEW units, NEW p, NEW bytes \in Seq(AnyByte), NEW text \in Seq(TextBytes),
           Coded(units, p, bytes, text), bytes # << >>
    PROVE  \E q \in Places :
              /\ Placed(q, text) /\ q.unit \in units /\ Follows(p, q)
              /\ Head(bytes) = q.unit[q.at]
              /\ Coded(units, q, Tail(bytes), text) /\ Tail(bytes) \in Seq(AnyByte)
<1>1. PICK T \in Seq(Places) :
         Trail(T, p, bytes, text) /\ \A i \in 1 .. Len(T) : T[i].unit \in units
  BY DEF Coded
<1> DEFINE rest == Tail(bytes)
           U == Tail(T)
           L == Len(bytes)
<1>2. /\ L \in Nat \ {0} /\ rest \in Seq(AnyByte) /\ Len(rest) = L - 1
      /\ \A i \in 1 .. L - 1 : rest[i] = bytes[i + 1]
      /\ Head(bytes) = bytes[1]
  OBVIOUS
<1>3. Len(T) = L + 1 /\ T[1] = p
  BY <1>1 DEF Trail
<1>4. T # << >>
  BY <1>2, <1>3
<1>5. /\ U \in Seq(Places) /\ Len(U) = L /\ \A i \in 1 .. L : U[i] = T[i + 1]
  BY <1>2, <1>3, <1>4
<1> HIDE DEF rest, U, L
<1>6. \A i \in 1 .. Len(U) : Placed(U[i], text) /\ U[i].unit \in units
  <2> TAKE i \in 1 .. Len(U)
  <2>1. U[i] = T[i + 1] /\ i + 1 \in 1 .. Len(T)
    BY <1>2, <1>3, <1>5
  <2>2. Placed(T[i + 1], text) /\ T[i + 1].unit \in units
    BY <1>1, <2>1 DEF Trail
  <2>3. QED
    BY <2>1, <2>2
<1>7. \A i \in 1 .. Len(rest) : Follows(U[i], U[i + 1]) /\ rest[i] = U[i + 1].unit[U[i + 1].at]
  <2> TAKE i \in 1 .. Len(rest)
  <2>1. i \in 1 .. L - 1 /\ i \in 1 .. L /\ i + 1 \in 1 .. L
    BY <1>2
  <2>2. U[i] = T[i + 1] /\ U[i + 1] = T[i + 1 + 1] /\ rest[i] = bytes[i + 1]
    BY <2>1, <1>2, <1>5
  <2>3. Follows(T[i + 1], T[i + 1 + 1]) /\ bytes[i + 1] = T[i + 1 + 1].unit[T[i + 1 + 1].at]
    BY <1>1, <2>1 DEF Trail, L
  <2>4. QED
    BY <2>2, <2>3
<1>8. ~Within(U[Len(U)]) /\ U[Len(U)].no = Len(text)
  <2>1. U[Len(U)] = T[Len(T)]
    BY <1>2, <1>3, <1>5
  <2>2. QED
    BY <1>1, <2>1 DEF Trail
<1>9. Len(U) = Len(rest) + 1
  BY <1>2, <1>5
<1>10. Trail(U, U[1], rest, text)
  BY <1>6, <1>7, <1>8, <1>9 DEF Trail
<1>11. Coded(units, U[1], rest, text)
  BY <1>5, <1>6, <1>10 DEF Coded
<1>12. 1 \in 1 .. Len(U) /\ 1 \in 1 .. Len(bytes)
  BY <1>2, <1>5 DEF L
<1>13. Placed(U[1], text) /\ U[1].unit \in units /\ U[1] \in Places
  BY <1>6, <1>12 DEF Placed
<1>14. Follows(p, U[1]) /\ Head(bytes) = U[1].unit[U[1].at]
  <2>1. U[1] = T[1 + 1]
    BY <1>5, <1>12
  <2>2. Follows(T[1], T[1 + 1]) /\ bytes[1] = T[1 + 1].unit[T[1 + 1].at]
    BY <1>1, <1>12 DEF Trail
  <2>3. QED
    BY <1>2, <1>3, <2>1, <2>2
<1>15. QED
  BY <1>2, <1>11, <1>13, <1>14 DEF rest

\* A command more, or a byte of text more.
LEMMA CommandMore ==
    ASSUME NEW units, units \subseteq TelnetUnits, NEW p,
           NEW bytes \in Seq(AnyByte), NEW text \in Seq(TextBytes),
           Coded(units, p, bytes, text), NEW u \in units, u \notin TextUnits
    PROVE  Coded(units, p, bytes \o u, text) /\ bytes \o u \in Seq(AnyByte)
<1>1. More(u) = 0 /\ Len(text) = Len(text) + 0
  BY DEF More
<1>2. QED
  BY <1>1, UnitMore

LEMMA TextMore ==
    ASSUME NEW units, units \subseteq TelnetUnits, TextUnits \subseteq units, NEW p,
           NEW bytes \in Seq(AnyByte), NEW text \in Seq(TextBytes),
           Coded(units, p, bytes, text), NEW b \in TextBytes
    PROVE  /\ Coded(units, p, bytes \o Telnet!Escaped(b), Append(text, b))
           /\ bytes \o Telnet!Escaped(b) \in Seq(AnyByte)
<1> DEFINE u == Telnet!Escaped(b)
           more == Append(text, b)
<1>1. u \in TextUnits /\ u \in units /\ More(u) = 1
  BY DEF TextUnits, More
<1>2. /\ more \in Seq(TextBytes) /\ Len(more) = Len(text) + 1
      /\ \A i \in 1 .. Len(text) : more[i] = text[i]
      /\ more[Len(more)] = b
  OBVIOUS
<1> HIDE DEF more
<1>3. u = Telnet!Escaped(more[Len(more)])
  BY <1>2
<1> HIDE DEF u
<1>4. Len(more) = Len(text) + More(u)
  BY <1>1, <1>2
<1>5. QED
  BY <1>1, <1>2, <1>3, <1>4, UnitMore DEF u, more

-----------------------------------------------------------------------------
(* Where the decoders stand.  What either has passed on is the text up to its *)
(* place, without a byte whose first half only it has taken.                  *)

Begins(list, text, n) == Len(list) = n /\ \A i \in 1 .. n : list[i] = text[i]
Taken(p) == IF Within(p) /\ p.unit \in TextUnits THEN p.no - 1 ELSE p.no

Decoder(p, s, v, sub) ==
    /\ s = IF ~Within(p) THEN "Data"
           ELSE IF p.at = 1 THEN "Iac"
           ELSE IF Len(p.unit) = 3 THEN "Verb"
           ELSE IF p.at = 2 THEN "SubOption"
           ELSE IF p.at < 5 THEN "SubData" ELSE "SubIac"
    /\ s = "Verb" => v \in Telnet!Verbs
    /\ Within(p) /\ Len(p.unit) = 6 /\ p.at > 1 => Len(sub) = IF p.at = 5 THEN 2 ELSE p.at - 2
ClientAt(p, s, v, sub, list, bytes, text) ==
    /\ Decoder(p, s, v, sub) /\ Begins(list, text, Taken(p)) /\ Coded(ServerUnits, p, bytes, text)

Prefix(p) == IF Within(p) THEN SubSeq(p.unit, 1, p.at) ELSE << >>
ServerAt(p, s, list, bytes, text) ==
    /\ s = Prefix(p) /\ Begins(list, text, Taken(p)) /\ Coded(ClientUnits, p, bytes, text)

ClientHalf ==
    /\ state \in {"Data", "Iac", "Verb", "SubOption", "SubData", "SubIac"}
    /\ verb \in Telnet!Verbs \cup {"none"}
    /\ subBuffer \in Seq(AnyByte) /\ Len(subBuffer) \in 0 .. 2
    /\ shown \in Seq(TextBytes) /\ sentText \in Seq(TextBytes)
    /\ toClient \in Seq(AnyByte)
    /\ \E p \in Places : ClientAt(p, state, verb, subBuffer, shown, toClient, sentText)
ServerClean ==
    /\ heardText \in Seq(TextBytes) /\ typed \in Seq(TextBytes)
    /\ toServer \in Seq(AnyByte)
    /\ \E p \in Places : ServerAt(p, serverState, heardText, toServer, typed)
ServerHalf == typed \in Seq(TextBytes) /\ (~bare => ServerClean)
Views ==
    /\ local \in [Options -> {"no", "yes", "wantYes", "wantNo"}]
    /\ remote \in [Options -> {"no", "yes", "wantYes", "wantNo"}]
    /\ requests \in 0 .. Requests /\ resizes \in 0 .. Resizes
    /\ size \in Telnet!Sizes /\ bare \in BOOLEAN
TelnetInv == ClientHalf /\ ServerHalf /\ Views

LEMMA TakenBound ==
    ASSUME NEW p, NEW text \in Seq(TextBytes), Placed(p, text)
    PROVE  /\ p.no \in 0 .. Len(text) /\ Taken(p) \in 0 .. Len(text)
           /\ p.unit \in TelnetUnits /\ p.at \in 1 .. Len(p.unit)
<1>1. p.no \in 0 .. Len(text) /\ p.unit \in TelnetUnits /\ p.at \in 1 .. 9 /\ p.at <= Len(p.unit)
  BY DEF Placed, Places
<1>2. Len(p.unit) \in 1 .. 9
  BY <1>1, UnitFacts
<1>3. p.unit \in TextUnits => p.no > 0
  BY DEF Placed
<1>4. Taken(p) \in 0 .. Len(text)
  BY <1>1, <1>3 DEF Taken
<1>5. QED
  BY <1>1, <1>2, <1>4

LEMMA BeginsMore ==
    ASSUME NEW list, NEW text \in Seq(TextBytes), NEW n \in 0 .. Len(text),
           NEW b \in TextBytes, Begins(list, text, n)
    PROVE  Begins(list, Append(text, b), n)
<1>1. \A i \in 1 .. n : i \in 1 .. Len(text) /\ Append(text, b)[i] = text[i]
  OBVIOUS
<1>2. QED
  BY <1>1 DEF Begins

\* The streams to either side grow at their ends; the reader stays.
LEMMA ClientMore ==
    ASSUME NEW s, NEW v, NEW sub, NEW list,
           NEW bytes \in Seq(AnyByte), NEW text \in Seq(TextBytes),
           \E p \in Places : ClientAt(p, s, v, sub, list, bytes, text)
    PROVE  /\ \A u \in ServerUnits \ TextUnits :
                 /\ \E p \in Places : ClientAt(p, s, v, sub, list, bytes \o u, text)
                 /\ bytes \o u \in Seq(AnyByte)
           /\ \A b \in TextBytes :
                 /\ \E p \in Places : ClientAt(p, s, v, sub, list, bytes \o Telnet!Escaped(b), Append(text, b))
                 /\ bytes \o Telnet!Escaped(b) \in Seq(AnyByte)
<1>1. PICK p \in Places : ClientAt(p, s, v, sub, list, bytes, text)
  OBVIOUS
<1>2. Decoder(p, s, v, sub) /\ Begins(list, text, Taken(p)) /\ Coded(ServerUnits, p, bytes, text)
  BY <1>1 DEF ClientAt
<1>3. Taken(p) \in 0 .. Len(text)
  BY <1>2, CodedPlace, TakenBound
<1>4. ServerUnits \subseteq TelnetUnits /\ TextUnits \subseteq ServerUnits
  BY DEF TelnetUnits, ServerUnits
<1>5. ASSUME NEW u \in ServerUnits \ TextUnits
      PROVE  ClientAt(p, s, v, sub, list, bytes \o u, text) /\ bytes \o u \in Seq(AnyByte)
  BY <1>2, <1>4, <1>5, CommandMore DEF ClientAt
<1>6. ASSUME NEW b \in TextBytes
      PROVE  /\ ClientAt(p, s, v, sub, list, bytes \o Telnet!Escaped(b), Append(text, b))
             /\ bytes \o Telnet!Escaped(b) \in Seq(AnyByte)
  <2>1. Begins(list, Append(text, b), Taken(p))
    BY <1>2, <1>3, <1>6, BeginsMore
  <2>2. QED
    BY <1>2, <1>4, <1>6, <2>1, TextMore DEF ClientAt
<1>7. QED
  BY <1>1, <1>5, <1>6

LEMMA ServerMore ==
    ASSUME NEW s, NEW list,
           NEW bytes \in Seq(AnyByte), NEW text \in Seq(TextBytes),
           \E p \in Places : ServerAt(p, s, list, bytes, text)
    PROVE  /\ \A u \in ClientUnits \ TextUnits :
                 /\ \E p \in Places : ServerAt(p, s, list, bytes \o u, text)
                 /\ bytes \o u \in Seq(AnyByte)
           /\ \A b \in TextBytes :
                 /\ \E p \in Places : ServerAt(p, s, list, bytes \o Telnet!Escaped(b), Append(text, b))
                 /\ bytes \o Telnet!Escaped(b) \in Seq(AnyByte)
<1>1. PICK p \in Places : ServerAt(p, s, list, bytes, text)
  OBVIOUS
<1>2. s = Prefix(p) /\ Begins(list, text, Taken(p)) /\ Coded(ClientUnits, p, bytes, text)
  BY <1>1 DEF ServerAt
<1>3. Taken(p) \in 0 .. Len(text)
  BY <1>2, CodedPlace, TakenBound
<1>4. ClientUnits \subseteq TelnetUnits /\ TextUnits \subseteq ClientUnits
  BY DEF TelnetUnits, ClientUnits
<1>5. ASSUME NEW u \in ClientUnits \ TextUnits
      PROVE  ServerAt(p, s, list, bytes \o u, text) /\ bytes \o u \in Seq(AnyByte)
  BY <1>2, <1>4, <1>5, CommandMore DEF ServerAt
<1>6. ASSUME NEW b \in TextBytes
      PROVE  /\ ServerAt(p, s, list, bytes \o Telnet!Escaped(b), Append(text, b))
             /\ bytes \o Telnet!Escaped(b) \in Seq(AnyByte)
  <2>1. Begins(list, Append(text, b), Taken(p))
    BY <1>2, <1>3, <1>6, BeginsMore
  <2>2. QED
    BY <1>2, <1>4, <1>6, <2>1, TextMore DEF ServerAt
<1>7. QED
  BY <1>1, <1>5, <1>6

\* The byte that ends a unit of text is that text; no other byte passes any on.
LEMMA PassedOn ==
    ASSUME NEW p, NEW q, NEW list \in Seq(TextBytes), NEW text \in Seq(TextBytes),
           Placed(p, text), Placed(q, text), Follows(p, q), Begins(list, text, Taken(p))
    PROVE  IF ~Within(q) /\ q.unit \in TextUnits
             THEN /\ q.unit[q.at] \in TextBytes
                  /\ Begins(Append(list, q.unit[q.at]), text, Taken(q))
             ELSE Begins(list, text, Taken(q))
<1>1. /\ p.no \in 0 .. Len(text) /\ p.unit \in TelnetUnits /\ p.at \in 1 .. Len(p.unit)
      /\ q.no \in 0 .. Len(text) /\ q.unit \in TelnetUnits /\ q.at \in 1 .. Len(q.unit)
  BY TakenBound
<1>2. CASE ~Within(q) /\ q.unit \in TextUnits
  <2>1. Taken(q) = q.no /\ q.no \in 1 .. Len(text)
    BY <1>1, <1>2 DEF Taken, Placed
  <2>2. Taken(p) = q.no - 1
    <3>1. CASE Within(p)
      <4>1. q.unit = p.unit /\ q.no = p.no
        BY <3>1 DEF Follows, Place
      <4>2. QED
        BY <1>2, <3>1, <4>1 DEF Taken
    <3>2. CASE ~Within(p)
      <4>1. q.no = p.no + 1
        BY <1>2, <3>2 DEF Follows, Place, More
      <4>2. QED
        BY <1>1, <3>2, <4>1 DEF Taken
    <3>3. QED
      BY <3>1, <3>2
  <2> DEFINE b == text[q.no]
             n == q.no
  <2>3. b \in TextBytes
    BY <2>1
  <2>4. q.unit = Telnet!Escaped(b)
    BY <1>2 DEF Placed
  <2>5. q.at = Len(q.unit)
    <3>1. Len(q.unit) \in 1 .. 9
      BY <1>1, UnitFacts
    <3>2. QED
      BY <1>1, <1>2, <3>1 DEF Within
  <2>6. q.unit[q.at] = b
    <3> HIDE DEF b
    <3>1. QED
      BY <2>3, <2>4, <2>5, TextUnit
  <2> HIDE DEF b
  <2>7. Begins(Append(list, b), text, n)
    <3> HIDE DEF n
    <3>1. n \in 1 .. Len(text) /\ Len(list) = n - 1 /\ \A i \in 1 .. n - 1 : list[i] = text[i]
      BY <2>1, <2>2 DEF Begins, n
    <3>2. /\ Len(Append(list, b)) = n /\ Append(list, b)[n] = b
          /\ \A i \in 1 .. n - 1 : Append(list, b)[i] = list[i]
      BY <2>3, <3>1
    <3>3. b = text[n]
      BY DEF b, n
    <3>4. \A i \in 1 .. n : i \in 1 .. n - 1 \/ i = n
      BY <3>1
    <3> HIDE DEF b
    <3>5. QED
      BY <3>1, <3>2, <3>3, <3>4 DEF Begins
  <2>8. QED
    BY <1>2, <2>1, <2>3, <2>6, <2>7 DEF n
<1>3. CASE ~(~Within(q) /\ q.unit \in TextUnits)
  <2>1. Taken(q) = Taken(p)
    <3>1. CASE Within(p)
      <4>1. q.unit = p.unit /\ q.no = p.no
        BY <3>1 DEF Follows, Place
      <4>2. QED
        BY <1>3, <3>1, <4>1 DEF Taken
    <3>2. CASE ~Within(p)
      <4>1. q.no = p.no + More(q.unit)
        BY <3>2 DEF Follows, Place
      <4>2. QED
        BY <1>1, <1>3, <3>2, <4>1 DEF Taken, More
    <3>3. QED
      BY <3>1, <3>2
  <2>2. QED
    BY <1>3, <2>1
<1>4. QED
  BY <1>2, <1>3

-----------------------------------------------------------------------------
(* The client's decoder. *)

\* The byte it takes, its place, and what is left.
Taking(p, q) ==
    /\ p \in Places /\ q \in Places /\ Placed(q, sentText)
    /\ p.unit \in ServerUnits /\ p.at \in 1 .. Len(p.unit)
    /\ q.unit \in ServerUnits /\ q.at \in 1 .. Len(q.unit)
    /\ Follows(p, q) /\ Decoder(p, state, verb, subBuffer)
    /\ Telnet!Byte = q.unit[q.at]
    /\ Coded(ServerUnits, q, Tail(toClient), sentText) /\ Tail(toClient) \in Seq(AnyByte)
    /\ IF ~Within(q) /\ q.unit \in TextUnits
         THEN /\ Telnet!Byte \in TextBytes
              /\ Begins(Append(shown, Telnet!Byte), sentText, Taken(q))
         ELSE Begins(shown, sentText, Taken(q))

LEMMA Sizes ==
    ASSUME NEW l \in {1, 2, 3, 6}
    PROVE  (l = 1 \/ 1 < l) /\ (l = 3 \/ l = 6 => 2 < l) /\ (1 < l => l \in {2, 3, 6})
  OBVIOUS

LEMMA ClientTakes ==
    ASSUME ClientHalf, toClient # << >>
    PROVE  \E p, q \in Places : Taking(p, q)
<1>1. PICK p \in Places : ClientAt(p, state, verb, subBuffer, shown, toClient, sentText)
  BY DEF ClientHalf
<1>2. /\ Decoder(p, state, verb, subBuffer) /\ Begins(shown, sentText, Taken(p))
      /\ Coded(ServerUnits, p, toClient, sentText)
  BY <1>1 DEF ClientAt
<1>3. /\ toClient \in Seq(AnyByte) /\ sentText \in Seq(TextBytes)
      /\ shown \in Seq(TextBytes)
  BY DEF ClientHalf
<1>4. Placed(p, sentText) /\ p.unit \in ServerUnits
  BY <1>2, <1>3, CodedPlace
<1>5. PICK q \in Places :
        /\ Placed(q, sentText) /\ q.unit \in ServerUnits /\ Follows(p, q)
        /\ Head(toClient) = q.unit[q.at]
        /\ Coded(ServerUnits, q, Tail(toClient), sentText) /\ Tail(toClient) \in Seq(AnyByte)
  BY <1>2, <1>3, CodedTail
<1>6. p.at \in 1 .. Len(p.unit) /\ q.at \in 1 .. Len(q.unit)
  BY <1>3, <1>4, <1>5, TakenBound
<1>7. IF ~Within(q) /\ q.unit \in TextUnits
        THEN /\ Telnet!Byte \in TextBytes
             /\ Begins(Append(shown, Telnet!Byte), sentText, Taken(q))
        ELSE Begins(shown, sentText, Taken(q))
  BY <1>2, <1>3, <1>4, <1>5, PassedOn DEF Telnet!Byte
<1>8. QED
  BY <1>1, <1>2, <1>4, <1>5, <1>6, <1>7 DEF Taking, Telnet!Byte

\* What the unit is, from where the decoder stands in it.
LEMMA Standing ==
    ASSUME NEW p, NEW q, Taking(p, q)
    PROVE  /\ Len(q.unit) \in {1, 2, 3, 6} /\ q.unit \in Seq(AnyByte) /\ q.unit \in TelnetUnits /\ q.at \in Nat
           /\ Within(q) <=> q.at < Len(q.unit)
           /\ state = "Data" => q.at = 1
           /\ state # "Data" => Within(p) /\ q.unit = p.unit /\ q.at = p.at + 1
           /\ state = "Iac" => q.at = 2
           /\ state = "Verb" => q.at = 3 /\ Len(q.unit) = 3 /\ verb \in Telnet!Verbs
           /\ state = "SubOption" => q.at = 3 /\ Len(q.unit) = 6 /\ Len(subBuffer) = 0
           /\ state = "SubData" => q.at \in {4, 5} /\ Len(q.unit) = 6 /\ Len(subBuffer) = q.at - 3
           /\ state = "SubIac" => q.at = 6 /\ Len(q.unit) = 6 /\ Len(subBuffer) = 2
<1>1. /\ p.unit \in TelnetUnits /\ q.unit \in TelnetUnits
      /\ p.at \in 1 .. Len(p.unit) /\ q.at \in 1 .. Len(q.unit)
      /\ p.unit \in ServerUnits /\ q.unit \in ServerUnits
      /\ Follows(p, q) /\ Decoder(p, state, verb, subBuffer)
  BY DEF Taking, TelnetUnits
<1>2. /\ Len(q.unit) \in {1, 2, 3, 6} /\ Len(p.unit) \in {1, 2, 3, 6} /\ Len(p.unit) \in 1 .. 9 /\ Len(q.unit) \in 1 .. 9
      /\ q.unit \in Seq(AnyByte) /\ p.unit \in Seq(AnyByte)
  BY <1>1, UnitFacts
<1>3. q.at \in Nat /\ p.at \in Nat /\ p.at >= 1
  BY <1>1, <1>2
<1>4. Within(q) <=> q.at < Len(q.unit)
  BY DEF Within
<1>5. CASE ~Within(p)
  <2>1. state = "Data"
    BY <1>1, <1>5 DEF Decoder
  <2>2. q.at = 1
    BY <1>1, <1>5 DEF Follows, Place
  <2>3. QED
    BY <1>1, <1>2, <1>3, <1>4, <2>1, <2>2
<1>6. CASE Within(p)
  <2>1. q.unit = p.unit /\ q.at = p.at + 1 /\ p.at < Len(p.unit)
    BY <1>1, <1>6 DEF Follows, Place, Within
  <2>2. CASE p.at = 1
    <3>1. state = "Iac"
      BY <1>1, <1>6, <2>2 DEF Decoder
    <3>2. QED
      BY <1>1, <1>2, <1>3, <1>4, <1>6, <2>1, <2>2, <3>1
  <2>3. CASE p.at > 1 /\ Len(p.unit) = 3
    <3>1. state = "Verb" /\ verb \in Telnet!Verbs
      BY <1>1, <1>6, <1>3, <2>3 DEF Decoder
    <3>2. p.at = 2
      BY <1>3, <2>1, <2>3
    <3>3. QED
      BY <1>1, <1>2, <1>3, <1>4, <1>6, <2>1, <2>3, <3>1, <3>2
  <2>4. CASE p.at > 1 /\ Len(p.unit) # 3
    <3>1. Len(p.unit) = 6
      <4> DEFINE l == Len(p.unit)
                 k == p.at
      <4>1. l \in {1, 2, 3, 6} /\ k \in Nat /\ k < l /\ k > 1 /\ l # 3
        BY <1>2, <1>3, <2>1, <2>4
      <4> HIDE DEF l, k
      <4>2. l = 6
        BY <4>1
      <4>3. QED
        BY <4>2 DEF l
    <3>2. p.at \in {2, 3, 4, 5}
      BY <1>3, <2>1, <2>4, <3>1
    <3>3. Len(subBuffer) = IF p.at = 5 THEN 2 ELSE p.at - 2
      BY <1>1, <1>6, <2>4, <3>1 DEF Decoder
    <3>4. CASE p.at = 2
      <4>1. state = "SubOption"
        BY <1>1, <1>6, <2>4, <3>4 DEF Decoder
      <4>2. QED
        BY <1>1, <1>2, <1>4, <1>6, <2>1, <3>1, <3>3, <3>4, <4>1
    <3>5. CASE p.at \in {3, 4}
      <4>1. state = "SubData"
        BY <1>1, <1>6, <2>4, <3>5 DEF Decoder
      <4>2. QED
        BY <1>1, <1>2, <1>4, <1>6, <2>1, <3>1, <3>3, <3>5, <4>1
    <3>6. CASE p.at = 5
      <4>1. state = "SubIac"
        BY <1>1, <1>6, <2>4, <3>6 DEF Decoder
      <4>2. QED
        BY <1>1, <1>2, <1>4, <1>6, <2>1, <3>1, <3>3, <3>6, <4>1
    <3>7. QED
      BY <3>2, <3>4, <3>5, <3>6
  <2>5. QED
    BY <1>3, <2>2, <2>3, <2>4
<1>7. QED
  BY <1>5, <1>6

LEMMA ReadsData ==
    ASSUME ClientHalf, Telnet!OnData, sentText' = sentText
    PROVE  ClientHalf'
<1>1. /\ state = "Data" /\ toClient # << >> /\ toClient' = Tail(toClient)
      /\ verb' = verb /\ subBuffer' = subBuffer
      /\ IF Telnet!Byte = "IAC" THEN state' = "Iac" /\ shown' = shown
         ELSE shown' = Append(shown, Telnet!Byte) /\ state' = state
  BY DEF Telnet!OnData, Telnet!Arrives, Telnet!Deliver
<1>2. PICK p, q \in Places : Taking(p, q)
  BY <1>1, ClientTakes
<1>3. /\ Len(q.unit) \in {1, 2, 3, 6} /\ q.unit \in Seq(AnyByte) /\ q.unit \in TelnetUnits /\ q.at = 1
      /\ Within(q) <=> 1 < Len(q.unit)
  BY <1>1, <1>2, Standing
<1>4. Telnet!Byte = q.unit[1]
  BY <1>2, <1>3 DEF Taking
<1>5. /\ shown \in Seq(TextBytes) /\ sentText \in Seq(TextBytes)
      /\ subBuffer \in Seq(AnyByte) /\ Len(subBuffer) \in 0 .. 2 /\ verb \in Telnet!Verbs \cup {"none"}
  BY DEF ClientHalf
<1>6. /\ Coded(ServerUnits, q, toClient', sentText') /\ toClient' \in Seq(AnyByte)
  BY <1>1, <1>2 DEF Taking
<1>7. CASE Telnet!Byte = "IAC"
  <2>1. Len(q.unit) # 1
    BY <1>3, <1>4, <1>7, UnitFacts
  <2>2. Within(q)
    BY <1>3, <2>1, Sizes
  <2>3. Decoder(q, "Iac", verb, subBuffer)
    BY <1>3, <2>2 DEF Decoder
  <2>4. Begins(shown, sentText, Taken(q))
    BY <1>2, <2>2 DEF Taking
  <2>5. ClientAt(q, state', verb', subBuffer', shown', toClient', sentText')
    BY <1>1, <1>6, <1>7, <2>3, <2>4 DEF ClientAt
  <2>6. QED
    BY <1>1, <1>2, <1>5, <1>6, <1>7, <2>5 DEF ClientHalf
<1>8. CASE Telnet!Byte # "IAC"
  <2>1. ~(Len(q.unit) > 1)
    BY <1>3, <1>4, <1>8, UnitFacts
  <2>2. ~Within(q) /\ q.unit \in TextUnits
    BY <1>3, <2>1, UnitFacts
  <2>3. Decoder(q, "Data", verb, subBuffer)
    BY <2>2 DEF Decoder
  <2>4. Telnet!Byte \in TextBytes /\ Begins(Append(shown, Telnet!Byte), sentText, Taken(q))
    BY <1>2, <2>2 DEF Taking
  <2>5. ClientAt(q, state', verb', subBuffer', shown', toClient', sentText')
    BY <1>1, <1>6, <1>8, <2>3, <2>4 DEF ClientAt
  <2>6. shown' \in Seq(TextBytes)
    <3>1. shown' = Append(shown, Telnet!Byte)
      BY <1>1, <1>8
    <3>2. QED
      BY <1>5, <2>4, <3>1
  <2>7. QED
    BY <1>1, <1>2, <1>5, <1>6, <1>8, <2>5, <2>6 DEF ClientHalf
<1>9. QED
  BY <1>7, <1>8

LEMMA ReadsIac ==
    ASSUME ClientHalf, Telnet!OnIac, sentText' = sentText
    PROVE  ClientHalf'
<1>1. state = "Iac" /\ toClient # << >> /\ toClient' = Tail(toClient)
  BY DEF Telnet!OnIac, Telnet!Arrives
<1>2. PICK p, q \in Places : Taking(p, q)
  BY <1>1, ClientTakes
<1>3. /\ Len(q.unit) \in {1, 2, 3, 6} /\ q.unit \in Seq(AnyByte) /\ q.unit \in TelnetUnits /\ q.at = 2
      /\ Within(q) <=> 2 < Len(q.unit)
      /\ Within(p) /\ q.unit = p.unit /\ p.at = 1
  <2>1. Within(p) /\ q.unit = p.unit /\ q.at = p.at + 1 /\ q.at = 2 /\ Len(q.unit) \in {1, 2, 3, 6}
        /\ q.unit \in Seq(AnyByte)
        /\ q.unit \in TelnetUnits /\ (Within(q) <=> 2 < Len(q.unit))
    BY <1>1, <1>2, Standing
  <2>2. p.at \in Nat
    BY <1>2, <2>1, UnitFacts DEF Taking, Places
  <2>3. QED
    BY <2>1, <2>2
<1>4. Telnet!Byte = q.unit[2]
  BY <1>2, <1>3 DEF Taking
<1>5. /\ shown \in Seq(TextBytes) /\ sentText \in Seq(TextBytes)
      /\ subBuffer \in Seq(AnyByte) /\ Len(subBuffer) \in 0 .. 2 /\ verb \in Telnet!Verbs \cup {"none"}
  BY DEF ClientHalf
<1>6. /\ Coded(ServerUnits, q, toClient', sentText') /\ toClient' \in Seq(AnyByte)
  BY <1>1, <1>2 DEF Taking
<1>7. 1 < Len(q.unit)
  BY <1>3 DEF Within
<1>8. CASE Len(q.unit) = 2
  <2>1. Telnet!Byte = "IAC" /\ ~Within(q) /\ q.unit \in TextUnits
    BY <1>3, <1>4, <1>8, UnitFacts
  <2>2. shown' = Append(shown, Telnet!Byte) /\ state' = "Data" /\ verb' = verb /\ subBuffer' = subBuffer
    BY <2>1, Literals DEF Telnet!OnIac, Telnet!Deliver
  <2>3. Decoder(q, "Data", verb, subBuffer)
    BY <2>1 DEF Decoder
  <2>4. Telnet!Byte \in TextBytes /\ Begins(Append(shown, Telnet!Byte), sentText, Taken(q))
    BY <1>2, <2>1 DEF Taking
  <2>5. ClientAt(q, state', verb', subBuffer', shown', toClient', sentText')
    BY <1>6, <2>2, <2>3, <2>4 DEF ClientAt
  <2>6. shown' \in Seq(TextBytes)
    BY <1>5, <2>2, <2>4
  <2>7. QED
    BY <1>2, <1>5, <1>6, <2>2, <2>5, <2>6 DEF ClientHalf
<1>9. ASSUME Len(q.unit) = 3 \/ Len(q.unit) = 6
      PROVE  Within(q) /\ Begins(shown, sentText, Taken(q))
  <2>1. Within(q)
    BY <1>3, <1>9, Sizes
  <2>2. QED
    BY <1>2, <2>1 DEF Taking
<1>10. CASE Len(q.unit) = 3
  <2>1. Telnet!Byte \in Telnet!Verbs /\ Within(q) /\ Begins(shown, sentText, Taken(q))
    BY <1>3, <1>4, <1>9, <1>10, UnitFacts
  <2>2. shown' = shown /\ state' = "Verb" /\ verb' = Telnet!Byte /\ subBuffer' = subBuffer
    BY <2>1, Literals DEF Telnet!OnIac
  <2>3. Decoder(q, "Verb", Telnet!Byte, subBuffer)
    BY <1>3, <1>10, <2>1 DEF Decoder
  <2>4. ClientAt(q, state', verb', subBuffer', shown', toClient', sentText')
    BY <1>6, <2>1, <2>2, <2>3 DEF ClientAt
  <2>5. QED
    BY <1>2, <1>5, <1>6, <2>1, <2>2, <2>4 DEF ClientHalf
<1>11. CASE Len(q.unit) = 6
  <2>1. Telnet!Byte = "SB" /\ Within(q) /\ Begins(shown, sentText, Taken(q))
    BY <1>3, <1>4, <1>9, <1>11, UnitFacts
  <2>2. shown' = shown /\ state' = "SubOption" /\ verb' = verb /\ subBuffer' = << >>
    BY <2>1, Literals DEF Telnet!OnIac
  <2>3. Decoder(q, "SubOption", verb, << >>)
    BY <1>3, <1>11, <2>1 DEF Decoder
  <2>4. ClientAt(q, state', verb', subBuffer', shown', toClient', sentText')
    BY <1>6, <2>1, <2>2, <2>3 DEF ClientAt
  <2>5. << >> \in Seq(AnyByte) /\ Len(<< >>) = 0
    OBVIOUS
  <2>6. QED
    BY <1>2, <1>5, <1>6, <2>2, <2>4, <2>5 DEF ClientHalf
<1>12. QED
  <2>1. Len(q.unit) = 2 \/ Len(q.unit) = 3 \/ Len(q.unit) = 6
    BY <1>3, <1>7, Sizes
  <2>2. QED
    BY <2>1, <1>8, <1>10, <1>11

LEMMA ReadsVerb ==
    ASSUME ClientHalf, Telnet!OnVerb, sentText' = sentText
    PROVE  ClientHalf' /\ verb \in Telnet!Verbs /\ Telnet!Byte \in Options
<1>1. /\ state = "Verb" /\ toClient # << >> /\ toClient' = Tail(toClient)
      /\ state' = "Data" /\ verb' = verb /\ subBuffer' = subBuffer /\ shown' = shown
  BY DEF Telnet!OnVerb, Telnet!Arrives
<1>2. PICK p, q \in Places : Taking(p, q)
  BY <1>1, ClientTakes
<1>3. /\ Len(q.unit) = 3 /\ q.unit \in TelnetUnits /\ q.at = 3 /\ verb \in Telnet!Verbs
      /\ q.unit \in Seq(AnyByte)
  BY <1>1, <1>2, Standing
<1>4. Telnet!Byte = q.unit[3] /\ Telnet!Byte \in Options /\ q.unit \notin TextUnits
  BY <1>2, <1>3, UnitFacts DEF Taking
<1>5. ~Within(q)
  BY <1>3 DEF Within
<1>6. Begins(shown, sentText, Taken(q)) /\ Decoder(q, "Data", verb, subBuffer)
  BY <1>2, <1>4, <1>5 DEF Taking, Decoder
<1>7. /\ Coded(ServerUnits, q, toClient', sentText') /\ toClient' \in Seq(AnyByte)
  BY <1>1, <1>2 DEF Taking
<1>8. ClientAt(q, state', verb', subBuffer', shown', toClient', sentText')
  BY <1>1, <1>6, <1>7 DEF ClientAt
<1>9. QED
  BY <1>1, <1>2, <1>3, <1>4, <1>7, <1>8 DEF ClientHalf

\* The three states of a subnegotiation.
LEMMA ReadsSub ==
    ASSUME ClientHalf, sentText' = sentText,
           Telnet!OnSubOption \/ Telnet!OnSubData \/ Telnet!OnSubIac
    PROVE  ClientHalf'
<1>1. /\ state \in {"SubOption", "SubData", "SubIac"} /\ toClient # << >>
      /\ toClient' = Tail(toClient) /\ verb' = verb /\ shown' = shown
  BY DEF Telnet!OnSubOption, Telnet!OnSubData, Telnet!OnSubIac, Telnet!Arrives
<1>2. PICK p, q \in Places : Taking(p, q)
  BY <1>1, ClientTakes
<1>3. /\ Len(q.unit) = 6 /\ q.unit \in TelnetUnits /\ q.unit \in Seq(AnyByte) /\ q.at \in Nat
      /\ state = "SubOption" => q.at = 3 /\ Len(subBuffer) = 0
      /\ state = "SubData" => q.at \in {4, 5} /\ Len(subBuffer) = q.at - 3
      /\ state = "SubIac" => q.at = 6 /\ Len(subBuffer) = 2
  BY <1>1, <1>2, Standing
<1>4. /\ Telnet!Byte = q.unit[q.at] /\ Telnet!Byte \in AnyByte
      /\ q.unit[4] # "IAC" /\ q.unit[5] = "IAC" /\ q.unit[6] = "SE" /\ q.unit \notin TextUnits
  <2>1. /\ q.unit[4] # "IAC" /\ q.unit[5] = "IAC" /\ q.unit[6] = "SE" /\ q.unit \notin TextUnits
    BY <1>3, UnitFacts
  <2>2. Telnet!Byte = q.unit[q.at] /\ q.at \in 1 .. Len(q.unit)
    BY <1>2 DEF Taking
  <2>3. QED
    BY <1>3, <2>1, <2>2
<1>5. Begins(shown, sentText, Taken(q))
  BY <1>2, <1>4 DEF Taking
<1>6. /\ shown \in Seq(TextBytes) /\ sentText \in Seq(TextBytes)
      /\ subBuffer \in Seq(AnyByte) /\ verb \in Telnet!Verbs \cup {"none"}
  BY DEF ClientHalf
<1>7. Coded(ServerUnits, q, toClient', sentText') /\ toClient' \in Seq(AnyByte)
  BY <1>1, <1>2 DEF Taking
<1>8. Append(subBuffer, Telnet!Byte) \in Seq(AnyByte)
      /\ Len(Append(subBuffer, Telnet!Byte)) = Len(subBuffer) + 1
  BY <1>4, <1>6
<1>9. ASSUME Decoder(q, state', verb, subBuffer'), subBuffer' \in Seq(AnyByte), Len(subBuffer') \in 0 .. 2,
             state' \in {"Data", "SubData", "SubIac"}
      PROVE  ClientHalf'
  <2>1. ClientAt(q, state', verb', subBuffer', shown', toClient', sentText')
    BY <1>1, <1>5, <1>7, <1>9 DEF ClientAt
  <2>2. QED
    BY <1>1, <1>2, <1>6, <1>7, <1>9, <2>1 DEF ClientHalf
<1>10. CASE state = "SubOption"
  <2>1. subBuffer' = Append(subBuffer, Telnet!Byte) /\ state' = "SubData"
    BY <1>10 DEF Telnet!OnSubOption, Telnet!OnSubData, Telnet!OnSubIac, Telnet!Arrives
  <2>2. q.at = 3 /\ Len(subBuffer') = 1
    BY <1>3, <1>8, <1>10, <2>1
  <2>3. Decoder(q, "SubData", verb, subBuffer')
    BY <1>3, <2>2 DEF Decoder, Within
  <2>4. QED
    BY <1>8, <1>9, <2>1, <2>2, <2>3
<1>11. CASE state = "SubData"
  <2>1. IF Telnet!Byte = "IAC" THEN state' = "SubIac" /\ subBuffer' = subBuffer
        ELSE subBuffer' = Append(subBuffer, Telnet!Byte) /\ state' = "SubData"
    BY <1>11 DEF Telnet!OnSubOption, Telnet!OnSubData, Telnet!OnSubIac, Telnet!Arrives
  <2>2. CASE q.at = 4
    <3>1. subBuffer' = Append(subBuffer, Telnet!Byte) /\ state' = "SubData"
      BY <1>4, <2>1, <2>2
    <3>2. Len(subBuffer') = 2
      <4>1. Len(subBuffer) = 4 - 3
        BY <1>3, <1>11, <2>2
      <4>2. QED
        BY <1>8, <3>1, <4>1
    <3>3. Decoder(q, "SubData", verb, subBuffer')
      BY <1>3, <2>2, <3>2 DEF Decoder, Within
    <3>4. QED
      BY <1>8, <1>9, <3>1, <3>2, <3>3
  <2>3. CASE q.at = 5
    <3>1. subBuffer' = subBuffer /\ state' = "SubIac"
      BY <1>4, <2>1, <2>3
    <3>2. Len(subBuffer') = 2
      BY <1>3, <1>11, <2>3, <3>1
    <3>3. Decoder(q, "SubIac", verb, subBuffer')
      BY <1>3, <2>3, <3>2 DEF Decoder, Within
    <3>4. QED
      BY <1>6, <1>9, <3>1, <3>2, <3>3
  <2>4. QED
    BY <1>3, <1>11, <2>2, <2>3
<1>12. CASE state = "SubIac"
  <2>1. q.at = 6 /\ Telnet!Byte = "SE"
    BY <1>3, <1>4, <1>12
  <2>2. subBuffer' = subBuffer /\ state' = "Data"
    BY <1>12, <2>1 DEF Telnet!OnSubOption, Telnet!OnSubData, Telnet!OnSubIac, Telnet!Arrives, Telnet!AfterSub
  <2>3. Len(subBuffer') = 2
    BY <1>3, <1>12, <2>2
  <2>4. Decoder(q, "Data", verb, subBuffer')
    BY <1>3, <2>1 DEF Decoder, Within
  <2>5. QED
    BY <1>6, <1>9, <2>2, <2>3, <2>4
<1>13. QED
  BY <1>1, <1>10, <1>11, <1>12

-----------------------------------------------------------------------------
(* The client answers, and the server reads. *)

LEMMA SizeIsUnit ==
    ASSUME NEW s \in Telnet!Sizes, ~Telnet!Marred(s)
    PROVE  Telnet!Naws(s) \in ClientUnits \ TextUnits /\ Telnet!Naws(s) \in Seq(AnyByte)
<1> DEFINE z == Telnet!Naws(s)
<1>1. z \in SizeUnits /\ Len(z) = 9 /\ z \in Seq(AnyByte)
  BY SizeUnit
<1> HIDE DEF z
<1>2. z \in ClientUnits /\ z \in TelnetUnits
  BY <1>1 DEF ClientUnits, TelnetUnits
<1>3. z \notin TextUnits
  BY <1>1, <1>2, UnitFacts
<1>4. QED
  BY <1>1, <1>2, <1>3 DEF z

LEMMA AnswerMore ==
    ASSUME ServerClean, NEW v \in Telnet!Verbs, NEW o \in Options, size \in Telnet!Sizes,
           v = "DO" /\ o = "NAWS" => ~Telnet!Marred(size)
    PROVE  LET out == toServer \o Telnet!Answer(v, o) IN
           /\ \E p \in Places : ServerAt(p, serverState, heardText, out, typed)
           /\ out \in Seq(AnyByte)
<1>0. /\ heardText \in Seq(TextBytes) /\ typed \in Seq(TextBytes)
      /\ toServer \in Seq(AnyByte)
      /\ \E p \in Places : ServerAt(p, serverState, heardText, toServer, typed)
  BY DEF ServerClean
<1>1. \A w \in Telnet!Verbs : /\ <<"IAC", w, o>> \in ClientUnits \ TextUnits
                              /\ <<"IAC", w, o>> \in Seq(AnyByte)
  <2> TAKE w \in Telnet!Verbs
  <2> DEFINE c == <<"IAC", w, o>>
  <2>1. c \in Seq(AnyByte) /\ c \in Commands /\ Len(c) = 3
    BY CommandUnit
  <2> HIDE DEF c
  <2>2. c \in ClientUnits /\ c \in TelnetUnits
    BY <2>1 DEF ClientUnits, TelnetUnits
  <2>3. c \notin TextUnits
    BY <2>1, <2>2, UnitFacts
  <2>4. QED
    BY <2>1, <2>2, <2>3 DEF c
<1>2. ~Telnet!Marred(size) => /\ Telnet!Naws(size) \in ClientUnits \ TextUnits
                              /\ Telnet!Naws(size) \in Seq(AnyByte)
  BY SizeIsUnit
<1>3. \A u \in ClientUnits \ TextUnits :
         /\ \E p \in Places : ServerAt(p, serverState, heardText, toServer \o u, typed)
         /\ toServer \o u \in Seq(AnyByte)
  BY <1>0, ServerMore
<1>4. CASE v = "DO" /\ o = "NAWS"
  <2> DEFINE c == <<"IAC", "WILL", o>>
             z == Telnet!Naws(size)
             out == toServer \o c
  <2>0. z \in ClientUnits \ TextUnits /\ z \in Seq(AnyByte)
    BY <1>2, <1>4
  <2>1. Telnet!Answer(v, o) = c \o z
    BY <1>4 DEF Telnet!Answer, Telnet!Supported
  <2>2. "WILL" \in Telnet!Verbs
    BY DEF Telnet!Verbs
  <2>3. c \in ClientUnits \ TextUnits /\ c \in Seq(AnyByte)
    BY <1>1, <2>2
  <2> HIDE DEF c, z
  <2>4. /\ \E p \in Places : ServerAt(p, serverState, heardText, out, typed)
        /\ out \in Seq(AnyByte)
    BY <1>3, <2>3
  <2>5. toServer \o (c \o z) = out \o z
    BY <1>0, <2>0, <2>3, ConcatAssociative, SMTT(30)
  <2> HIDE DEF out
  <2>6. /\ \E p \in Places : ServerAt(p, serverState, heardText, out \o z, typed)
        /\ out \o z \in Seq(AnyByte)
    BY <1>0, <2>0, <2>4, ServerMore
  <2>7. QED
    BY <2>1, <2>5, <2>6
<1>5. CASE ~(v = "DO" /\ o = "NAWS")
  <2>1. \E w \in Telnet!Verbs : Telnet!Answer(v, o) = <<"IAC", w, o>>
    <3>1. CASE v = "DO"
      <4> DEFINE w == IF o \in Telnet!Supported THEN "WILL" ELSE "WONT"
      <4>1. Telnet!Answer(v, o) = <<"IAC", w, o>> \o << >>
        BY <1>5, <3>1 DEF Telnet!Answer
      <4>2. w \in Telnet!Verbs
        BY DEF Telnet!Verbs
      <4> HIDE DEF w
      <4>3. <<"IAC", w, o>> \o << >> = <<"IAC", w, o>>
        BY <1>1, <4>2, ConcatEmptySeq
      <4>4. QED
        BY <4>1, <4>2, <4>3
    <3>2. CASE v = "WILL"
      <4> DEFINE w == IF o \in Telnet!Wanted THEN "DO" ELSE "DONT"
      <4>1. Telnet!Answer(v, o) = <<"IAC", w, o>>
        BY <3>2 DEF Telnet!Answer
      <4>2. w \in Telnet!Verbs
        BY DEF Telnet!Verbs
      <4>3. QED
        BY <4>1, <4>2
    <3>3. CASE v = "DONT"
      <4>1. Telnet!Answer(v, o) = <<"IAC", "WONT", o>>
        BY <3>3 DEF Telnet!Answer
      <4>2. QED
        BY <4>1 DEF Telnet!Verbs
    <3>4. CASE v = "WONT"
      <4>1. Telnet!Answer(v, o) = <<"IAC", "DONT", o>>
        BY <3>4 DEF Telnet!Answer
      <4>2. QED
        BY <4>1 DEF Telnet!Verbs
    <3>5. QED
      BY <3>1, <3>2, <3>3, <3>4 DEF Telnet!Verbs
  <2>2. QED
    BY <1>1, <1>3, <2>1
<1>6. QED
  BY <1>4, <1>5

\* The server takes a unit for whole just at its end.
LEMMA WholeAtEnd ==
    ASSUME NEW u \in ClientUnits, NEW k \in 1 .. Len(u)
    PROVE  LET b == SubSeq(u, 1, k) IN
           /\ Telnet!Complete(b) <=> k = Len(u)
           /\ Len(b) = k /\ b \in Seq(AnyByte) /\ \A i \in 1 .. k : b[i] = u[i]
<1> DEFINE l == Len(u)
           b == SubSeq(u, 1, k)
<1>1. /\ u \in Seq(AnyByte) /\ l \in {1, 2, 3, 6, 9} /\ k \in Nat \ {0} /\ k <= l
      /\ l = 1 => u[1] # "IAC"
      /\ l > 1 => u[1] = "IAC"
      /\ l = 2 => u[2] = "IAC"
      /\ l = 3 => u[2] \in Telnet!Verbs
      /\ l = 6 => u[2] = "SB" /\ u[4] \notin {"SE", "IAC"} /\ u[5] = "IAC" /\ u[6] = "SE"
      /\ l = 9 => /\ u[2] = "SB" /\ u[4] = "0" /\ u[5] # "IAC" /\ u[6] = "0"
                  /\ u[7] # "IAC" /\ u[8] = "IAC" /\ u[9] = "SE"
  <2>1. u \in TelnetUnits
    BY DEF TelnetUnits
  <2>2. u \in Seq(AnyByte) /\ k \in Nat \ {0} /\ k <= l
    BY <2>1, UnitFacts
  <2>3. QED
    BY <2>1, <2>2, UnitFacts
<1>2. Len(b) = k /\ b \in Seq(AnyByte) /\ \A i \in 1 .. k : b[i] = u[i]
  <2>1. \A i \in 1 .. k : u[i] \in AnyByte
    BY <1>1
  <2>2. /\ b \in Seq(AnyByte) /\ Len(b) = IF 1 <= k THEN k - 1 + 1 ELSE 0
        /\ \A i \in 1 .. k - 1 + 1 : b[i] = u[1 + i - 1]
    BY <1>1, <2>1, SubSeqProperties
  <2> HIDE DEF b
  <2>3. QED
    BY <1>1, <2>2
<1> HIDE DEF b, l
<1>3. /\ b[1] = u[1]
      /\ k > 1 => b[2] = u[2]
      /\ b[Len(b)] = u[k]
      /\ k > 3 => b[Len(b) - 1] = u[k - 1] /\ b[Len(b) - 2] = u[k - 2]
  BY <1>1, <1>2
<1>4. k = 1 => (Telnet!Complete(b) <=> u[1] # "IAC")
  BY <1>2, <1>3 DEF Telnet!Complete
<1>5. k = 2 => (Telnet!Complete(b) <=> u[2] \notin Telnet!Verbs \cup {"SB"})
  BY <1>2, <1>3 DEF Telnet!Complete
<1>6. k = 3 => (Telnet!Complete(b) <=> u[2] \in Telnet!Verbs)
  BY <1>2, <1>3 DEF Telnet!Complete
<1>7. k > 3 => (Telnet!Complete(b) <=> u[k] = "SE" /\ u[k - 1] = "IAC" /\ u[k - 2] # "IAC")
  BY <1>1, <1>2, <1>3 DEF Telnet!Complete
<1>8. CASE l = 1
  <2>1. k = 1
    BY <1>1, <1>8
  <2>2. QED
    BY <1>1, <1>2, <1>4, <1>8, <2>1 DEF b, l
<1>9. CASE l = 2
  <2>1. k = 1 \/ k = 2
    BY <1>1, <1>9
  <2>2. Telnet!Complete(b) <=> k = l
    BY <1>1, <1>4, <1>5, <1>9, <2>1, Literals
  <2>3. QED
    BY <1>2, <2>2 DEF b, l
<1>10. CASE l = 3
  <2>1. k = 1 \/ k = 2 \/ k = 3
    BY <1>1, <1>10
  <2>2. Telnet!Complete(b) <=> k = l
    BY <1>1, <1>4, <1>5, <1>6, <1>10, <2>1
  <2>3. QED
    BY <1>2, <2>2 DEF b, l
<1>11. CASE l = 6
  <2>1. k = 1 \/ k = 2 \/ k = 3 \/ k = 4 \/ k = 5 \/ k = 6
    BY <1>1, <1>11
  <2>2. k > 3 => (Telnet!Complete(b) <=> k = l)
    <3>1. CASE k = 4
      BY <1>1, <1>7, <1>11, <3>1
    <3>2. CASE k = 5
      BY <1>1, <1>7, <1>11, <3>2
    <3>3. CASE k = 6
      BY <1>1, <1>7, <1>11, <3>3
    <3>4. QED
      BY <2>1, <3>1, <3>2, <3>3
  <2>3. Telnet!Complete(b) <=> k = l
    BY <1>1, <1>4, <1>5, <1>6, <1>11, <2>1, <2>2, Literals
  <2>4. QED
    BY <1>2, <2>3 DEF b, l
<1>12. CASE l = 9
  <2>1. k = 1 \/ k = 2 \/ k = 3 \/ k = 4 \/ k = 5 \/ k = 6 \/ k = 7 \/ k = 8 \/ k = 9
    BY <1>1, <1>12
  <2>2. k > 3 => (Telnet!Complete(b) <=> k = l)
    <3>1. CASE k \in {4, 5, 6}
      BY <1>1, <1>7, <1>12, <3>1
    <3>2. CASE k = 7
      BY <1>1, <1>7, <1>12, <3>2
    <3>3. CASE k = 8
      BY <1>1, <1>7, <1>12, <3>3
    <3>4. CASE k = 9
      BY <1>1, <1>7, <1>12, <3>4
    <3>5. QED
      BY <2>1, <3>1, <3>2, <3>3, <3>4
  <2>3. Telnet!Complete(b) <=> k = l
    BY <1>1, <1>4, <1>5, <1>6, <1>12, <2>1, <2>2, Literals
  <2>4. QED
    BY <1>2, <2>3 DEF b, l
<1>13. QED
  BY <1>1, <1>8, <1>9, <1>10, <1>11, <1>12 DEF l, b

LEMMA PrefixMore ==
    ASSUME NEW u \in ClientUnits, NEW k \in Nat, k + 1 \in 1 .. Len(u)
    PROVE  Append(IF k = 0 THEN << >> ELSE SubSeq(u, 1, k), u[k + 1]) = SubSeq(u, 1, k + 1)
<1> DEFINE a == IF k = 0 THEN << >> ELSE SubSeq(u, 1, k)
           b == SubSeq(u, 1, k + 1)
           n == k + 1
<1>1. Len(b) = n /\ b \in Seq(AnyByte) /\ \A i \in 1 .. n : b[i] = u[i]
  BY WholeAtEnd
<1>2. u \in Seq(AnyByte) /\ u[k + 1] \in AnyByte /\ Len(u) \in Nat
  <2>1. u \in Seq(AnyByte)
    BY UnitFacts DEF TelnetUnits
  <2>2. QED
    BY <2>1
<1>3. a \in Seq(AnyByte) /\ Len(a) = k /\ \A i \in 1 .. k : a[i] = u[i]
  <2>1. CASE k = 0
    BY <2>1
  <2>2. CASE k # 0
    <3>1. k \in 1 .. Len(u)
      BY <1>2, <2>2
    <3>2. a = SubSeq(u, 1, k)
      BY <2>2
    <3>3. QED
      BY <3>1, <3>2, WholeAtEnd
  <2>3. QED
    BY <2>1, <2>2
<1> HIDE DEF a, b
<1> DEFINE c == Append(a, u[k + 1])
<1>4. /\ c \in Seq(AnyByte) /\ Len(c) = k + 1 /\ c[k + 1] = u[k + 1]
      /\ \A i \in 1 .. k : c[i] = a[i]
  BY <1>2, <1>3
<1> HIDE DEF c
<1>5. \A i \in 1 .. Len(c) : c[i] = b[i]
  <2> TAKE i \in 1 .. Len(c)
  <2>1. CASE i = k + 1
    BY <2>1, <1>1, <1>4
  <2>2. CASE i \in 1 .. k
    BY <2>2, <1>1, <1>3, <1>4
  <2>3. QED
    BY <2>1, <2>2, <1>4
<1>6. c = b
  BY <1>1, <1>4, <1>5, SeqEqual
<1>7. QED
  BY <1>6 DEF a, b, c

LEMMA ChangedTyped ==
    ASSUME NEW v, NEW o, NEW mine \in [Options -> {"no", "yes", "wantYes", "wantNo"}]
    PROVE  Telnet!Changed(v, mine, o) \in [Options -> {"no", "yes", "wantYes", "wantNo"}]
<1>1. CASE v \in {"DO", "WILL"}
  BY <1>1 DEF Telnet!Changed
<1>2. CASE v \notin {"DO", "WILL"}
  BY <1>2 DEF Telnet!Changed
<1>3. QED
  BY <1>1, <1>2

LEMMA ServerTakes ==
    ASSUME ServerClean, Telnet!ServerReads
    PROVE  ServerClean'
<1> DEFINE bytes == Append(serverState, Head(toServer))
<1>1. /\ toServer # << >> /\ toServer' = Tail(toServer) /\ typed' = typed
      /\ IF ~Telnet!Complete(bytes)
           THEN serverState' = bytes /\ heardText' = heardText
           ELSE /\ serverState' = << >>
                /\ heardText' = IF Len(bytes) < 3 THEN Append(heardText, bytes[Len(bytes)]) ELSE heardText
  BY DEF Telnet!ServerReads, Telnet!Last
<1>2. /\ heardText \in Seq(TextBytes) /\ typed \in Seq(TextBytes)
      /\ toServer \in Seq(AnyByte)
  BY DEF ServerClean
<1>3. PICK p \in Places : ServerAt(p, serverState, heardText, toServer, typed)
  BY DEF ServerClean
<1>4. /\ serverState = Prefix(p) /\ Begins(heardText, typed, Taken(p))
      /\ Coded(ClientUnits, p, toServer, typed)
  BY <1>3 DEF ServerAt
<1>5. Placed(p, typed) /\ p.unit \in ClientUnits
  BY <1>2, <1>4, CodedPlace
<1>6. PICK q \in Places :
        /\ Placed(q, typed) /\ q.unit \in ClientUnits /\ Follows(p, q)
        /\ Head(toServer) = q.unit[q.at]
        /\ Coded(ClientUnits, q, Tail(toServer), typed) /\ Tail(toServer) \in Seq(AnyByte)
  BY <1>1, <1>2, <1>4, CodedTail
<1> DEFINE u == q.unit
           k == q.at
<1>7. /\ p.at \in 1 .. Len(p.unit) /\ q.at \in 1 .. Len(q.unit) /\ q.unit \in TelnetUnits
      /\ p.unit \in TelnetUnits
  BY <1>2, <1>5, <1>6, TakenBound
<1>8. /\ u \in Seq(AnyByte) /\ p.unit \in Seq(AnyByte) /\ k \in 1 .. Len(u)
      /\ Len(u) \in {1, 2, 3, 6, 9} /\ (u \in TextUnits <=> Len(u) \in {1, 2})
  BY <1>7, UnitFacts
<1>9. bytes = SubSeq(u, 1, k)
  <2>1. CASE ~Within(p)
    <3>1. serverState = << >> /\ k = 1
      BY <1>4, <1>6, <2>1 DEF Prefix, Follows, Place
    <3>2. 0 + 1 \in 1 .. Len(u)
      BY <1>8, <3>1
    <3>3. Append(<< >>, u[0 + 1]) = SubSeq(u, 1, 0 + 1)
      BY <1>6, <3>2, PrefixMore
    <3>4. QED
      BY <1>6, <3>1, <3>3
  <2>2. CASE Within(p)
    <3> DEFINE j == p.at
    <3>1. u = p.unit /\ k = j + 1 /\ serverState = SubSeq(u, 1, j)
      <4>1. u = p.unit /\ k = j + 1
        BY <1>6, <2>2 DEF Follows, Place
      <4>2. serverState = SubSeq(p.unit, 1, j)
        BY <1>4, <2>2 DEF Prefix
      <4>3. QED
        BY <4>1, <4>2
    <3>2. j \in Nat /\ j # 0 /\ j + 1 \in 1 .. Len(u)
      BY <1>7, <1>8, <3>1
    <3> HIDE DEF j
    <3>3. Append(SubSeq(u, 1, j), u[j + 1]) = SubSeq(u, 1, j + 1)
      BY <1>6, <3>2, PrefixMore
    <3>4. QED
      BY <1>6, <3>1, <3>3
  <2>3. QED
    BY <2>1, <2>2
<1> HIDE DEF bytes
<1>10. /\ Telnet!Complete(bytes) <=> k = Len(u)
       /\ Len(bytes) = k /\ bytes \in Seq(AnyByte) /\ \A i \in 1 .. k : bytes[i] = u[i]
  BY <1>6, <1>8, <1>9, WholeAtEnd
<1>11. Telnet!Complete(bytes) <=> ~Within(q)
  BY <1>8, <1>10 DEF Within
<1>12. IF ~Within(q) /\ u \in TextUnits
         THEN u[k] \in TextBytes /\ Begins(Append(heardText, u[k]), typed, Taken(q))
         ELSE Begins(heardText, typed, Taken(q))
  BY <1>2, <1>4, <1>5, <1>6, PassedOn
<1>13. Coded(ClientUnits, q, toServer', typed') /\ toServer' \in Seq(AnyByte)
  BY <1>1, <1>6
<1>14. CASE ~Telnet!Complete(bytes)
  <2>1. Within(q) /\ serverState' = bytes /\ heardText' = heardText
    BY <1>1, <1>11, <1>14
  <2>2. serverState' = Prefix(q)
    BY <1>9, <2>1 DEF Prefix
  <2>3. Begins(heardText', typed', Taken(q))
    BY <1>1, <1>12, <2>1
  <2>4. ServerAt(q, serverState', heardText', toServer', typed')
    BY <1>13, <2>2, <2>3 DEF ServerAt
  <2>5. QED
    BY <1>1, <1>2, <1>6, <1>13, <2>1, <2>4 DEF ServerClean
<1>15. CASE Telnet!Complete(bytes)
  <2>1. ~Within(q) /\ serverState' = << >> /\ k = Len(u) /\ Len(bytes) = Len(u)
    BY <1>1, <1>10, <1>11, <1>15
  <2>2. serverState' = Prefix(q)
    BY <2>1 DEF Prefix
  <2>3. heardText' \in Seq(TextBytes) /\ Begins(heardText', typed', Taken(q))
    <3>1. CASE u \in TextUnits
      <4>1. Len(bytes) < 3
        <5>1. k \in {1, 2} /\ Len(bytes) = k
          BY <1>8, <1>10, <2>1, <3>1
        <5> HIDE DEF k
        <5>2. QED
          BY <5>1
      <4>2. bytes[Len(bytes)] = u[k]
        <5>1. k \in 1 .. k
          BY <1>8
        <5>2. QED
          BY <1>10, <5>1
      <4>3. heardText' = Append(heardText, u[k])
        BY <1>1, <1>15, <4>1, <4>2
      <4>4. u[k] \in TextBytes /\ Begins(Append(heardText, u[k]), typed, Taken(q))
        BY <1>12, <2>1, <3>1
      <4>5. heardText' \in Seq(TextBytes)
        BY <1>2, <4>3, <4>4
      <4>6. QED
        BY <1>1, <4>3, <4>4, <4>5
    <3>2. CASE u \notin TextUnits
      <4>1. Len(bytes) = 3 \/ Len(bytes) = 6 \/ Len(bytes) = 9
        BY <1>8, <2>1, <3>2
      <4>2. ~(Len(bytes) < 3)
        BY <4>1, <1>10, <1>8
      <4>3. heardText' = heardText
        BY <1>1, <1>15, <4>2
      <4>4. QED
        BY <1>1, <1>2, <1>12, <3>2, <4>3
    <3>3. QED
      BY <3>1, <3>2
  <2>4. ServerAt(q, serverState', heardText', toServer', typed')
    BY <1>13, <2>2, <2>3 DEF ServerAt
  <2>5. QED
    BY <1>1, <1>2, <1>6, <1>13, <2>3, <2>4 DEF ServerClean
<1>16. QED
  BY <1>14, <1>15

-----------------------------------------------------------------------------
(* The telnet terminal as a whole. *)

LEMMA TelnetStep ==
    ASSUME TelnetInv, Telnet!Next
    PROVE  TelnetInv'
<1>1. /\ ClientHalf /\ ServerHalf /\ Views
      /\ typed \in Seq(TextBytes) /\ bare \in BOOLEAN /\ size \in Telnet!Sizes
  BY DEF TelnetInv, ServerHalf, Views
<1>0. ASSUME ServerClean
      PROVE  /\ heardText \in Seq(TextBytes) /\ typed \in Seq(TextBytes)
             /\ toServer \in Seq(AnyByte)
             /\ \E p \in Places : ServerAt(p, serverState, heardText, toServer, typed)
  BY <1>0 DEF ServerClean
<1>2. CASE Telnet!SendData
  <2>1. PICK b \in TextBytes :
          typed' = Append(typed, b) /\ toServer' = toServer \o Telnet!Escaped(b)
    BY <1>2 DEF Telnet!SendData
  <2>2. /\ ClientHalf' <=> ClientHalf
        /\ Views' <=> Views
        /\ serverState' = serverState /\ heardText' = heardText /\ bare' = bare
    BY <1>2 DEF Telnet!SendData, Telnet!decoder, Telnet!window, Telnet!view, ClientHalf, Views
  <2>3. typed' \in Seq(TextBytes)
    BY <1>1, <2>1
  <2>4. ASSUME ServerClean
        PROVE  ServerClean'
    <3>1. /\ \E p \in Places : ServerAt(p, serverState, heardText, toServer', typed')
          /\ toServer' \in Seq(AnyByte)
      BY <1>0, <2>1, <2>4, ServerMore
    <3>2. QED
      BY <1>0, <2>2, <2>3, <2>4, <3>1 DEF ServerClean
  <2>6. ServerHalf'
    BY <1>1, <2>2, <2>3, <2>4 DEF ServerHalf
  <2>7. QED
    BY <1>1, <2>2, <2>6 DEF TelnetInv
<1>3. CASE Telnet!Resize
  <2>1. /\ resizes < Resizes /\ resizes' = resizes + 1 /\ toServer' = toServer \o Telnet!Naws(size')
        /\ size' \in Telnet!Sizes /\ bare' = (bare \/ Telnet!Marred(size'))
        /\ local' = local /\ remote' = remote /\ requests' = requests
        /\ serverState' = serverState /\ heardText' = heardText /\ typed' = typed
    BY <1>3 DEF Telnet!Resize, Telnet!view
  <2>2. ClientHalf' <=> ClientHalf
    BY <1>3 DEF Telnet!Resize, Telnet!decoder, ClientHalf
  <2>3. bare' \in BOOLEAN
    BY <1>1, <2>1 DEF Telnet!Marred
  <2>4. ASSUME ServerClean, ~Telnet!Marred(size')
        PROVE  ServerClean'
    <3> DEFINE z == Telnet!Naws(size')
    <3>1. z \in ClientUnits \ TextUnits
      BY <2>1, <2>4, SizeIsUnit
    <3> HIDE DEF z
    <3>2. /\ \E p \in Places : ServerAt(p, serverState, heardText, toServer \o z, typed)
          /\ toServer \o z \in Seq(AnyByte)
      BY <1>0, <2>4, <3>1, ServerMore
    <3>3. QED
      BY <1>0, <2>1, <2>4, <3>2 DEF ServerClean, z
  <2>5. ServerHalf'
    BY <1>1, <2>1, <2>4 DEF ServerHalf
  <2>6. resizes' \in 0 .. Resizes
    BY <1>1, <2>1, BoundsAssumption DEF Views
  <2>7. Views'
    BY <1>1, <2>1, <2>3, <2>6 DEF Views
  <2>8. QED
    BY <1>1, <2>2, <2>5, <2>7 DEF TelnetInv
<1>4. CASE Telnet!ProcessIncoming
  <2>1. /\ typed' = typed /\ sentText' = sentText /\ heardText' = heardText
        /\ serverState' = serverState /\ local' = local /\ remote' = remote
        /\ requests' = requests /\ resizes' = resizes /\ size' = size
        /\ bare' = bare \/ (Telnet!OnVerb /\ bare' = (bare \/ (verb = "DO" /\ Telnet!Byte = "NAWS"
                                                          /\ Telnet!Marred(size))))
    BY <1>4 DEF Telnet!ProcessIncoming, Telnet!view, Telnet!OnVerb
  <2>2. Views'
    <3>1. bare' \in BOOLEAN
      BY <1>1, <2>1
    <3>2. QED
      BY <1>1, <2>1, <3>1 DEF Views
  <2>3. ASSUME toServer' = toServer
        PROVE  ServerHalf'
    <3>1. ServerClean => ServerClean'
      BY <2>1, <2>3 DEF ServerClean
    <3>2. ~bare' => ~bare
      BY <1>1, <2>1
    <3>3. QED
      BY <1>1, <2>1, <3>1, <3>2 DEF ServerHalf
  <2>4. CASE Telnet!OnData
    <3>1. toServer' = toServer
      BY <2>4 DEF Telnet!OnData
    <3>2. QED
      BY <1>1, <2>1, <2>2, <2>3, <2>4, <3>1, ReadsData DEF TelnetInv
  <2>5. CASE Telnet!OnIac
    <3>1. toServer' = toServer
      BY <2>5 DEF Telnet!OnIac
    <3>2. QED
      BY <1>1, <2>1, <2>2, <2>3, <2>5, <3>1, ReadsIac DEF TelnetInv
  <2>6. CASE Telnet!OnVerb
    <3>1. ClientHalf' /\ verb \in Telnet!Verbs /\ Telnet!Byte \in Options
      BY <1>1, <2>1, <2>6, ReadsVerb
    <3>2. toServer' = toServer \o Telnet!Answer(verb, Telnet!Byte)
      BY <2>6 DEF Telnet!OnVerb
    <3>3. ~bare' => ~bare /\ (verb = "DO" /\ Telnet!Byte = "NAWS" => ~Telnet!Marred(size))
      BY <1>1, <2>6 DEF Telnet!OnVerb
    <3>4. ServerHalf'
      <4>1. ASSUME ~bare'
            PROVE  ServerClean'
        <5>1. ServerClean
          BY <1>1, <3>3, <4>1 DEF ServerHalf
        <5>2. /\ \E p \in Places : ServerAt(p, serverState, heardText, toServer', typed)
              /\ toServer' \in Seq(AnyByte)
          BY <1>1, <3>1, <3>2, <3>3, <4>1, <5>1, AnswerMore
        <5>3. QED
          BY <1>0, <2>1, <5>1, <5>2 DEF ServerClean
      <4>2. QED
        BY <1>1, <2>1, <4>1 DEF ServerHalf
    <3>5. QED
      BY <2>2, <3>1, <3>4 DEF TelnetInv
  <2>7. CASE Telnet!OnSubOption \/ Telnet!OnSubData
    <3>1. toServer' = toServer
      BY <2>7 DEF Telnet!OnSubOption, Telnet!OnSubData
    <3>2. QED
      BY <1>1, <2>1, <2>2, <2>3, <2>7, <3>1, ReadsSub DEF TelnetInv
  <2>8. CASE Telnet!OnSubIac
    <3>1. ClientHalf'
      BY <1>1, <2>1, <2>8, ReadsSub
    <3>2. toServer' = toServer \/ toServer' = toServer \o Telnet!TerminalType
      BY <2>8 DEF Telnet!OnSubIac
    <3>3. ServerHalf'
      <4>1. CASE toServer' = toServer
        BY <2>3, <4>1
      <4>2. CASE toServer' = toServer \o Telnet!TerminalType
        <5>1. Telnet!TerminalType \in ClientUnits \ TextUnits
          <6>1. /\ Telnet!TerminalType \in ClientUnits /\ Telnet!TerminalType \in TelnetUnits
                /\ Len(Telnet!TerminalType) = 6
            BY LongUnit DEF ClientUnits, TelnetUnits
          <6>2. QED
            BY <6>1, UnitFacts
        <5>2. ASSUME ServerClean
              PROVE  ServerClean'
          <6>1. /\ \E p \in Places : ServerAt(p, serverState, heardText, toServer', typed)
                /\ toServer' \in Seq(AnyByte)
            BY <1>0, <4>2, <5>1, <5>2, ServerMore
          <6>2. QED
            BY <1>0, <2>1, <5>2, <6>1 DEF ServerClean
        <5>3. ~bare' => ~bare
          BY <1>1, <2>1
        <5>4. QED
          BY <1>1, <2>1, <5>2, <5>3 DEF ServerHalf
      <4>3. QED
        BY <3>2, <4>1, <4>2
    <3>4. QED
      BY <2>2, <3>1, <3>3 DEF TelnetInv
  <2>9. QED
    BY <1>4, <2>4, <2>5, <2>6, <2>7, <2>8 DEF Telnet!ProcessIncoming
<1>5. ASSUME Telnet!ServerText \/ Telnet!ServerRequest \/ Telnet!ServerSub
      PROVE  /\ state' = state /\ verb' = verb /\ subBuffer' = subBuffer /\ shown' = shown
             /\ (ServerHalf' <=> ServerHalf) /\ resizes' = resizes /\ size' = size /\ bare' = bare
  BY <1>5
  DEF Telnet!ServerText, Telnet!ServerRequest, Telnet!ServerSub, Telnet!decoder, Telnet!window,
      ServerHalf, ServerClean
<1>6. /\ state \in {"Data", "Iac", "Verb", "SubOption", "SubData", "SubIac"}
      /\ verb \in Telnet!Verbs \cup {"none"}
      /\ subBuffer \in Seq(AnyByte) /\ Len(subBuffer) \in 0 .. 2
      /\ shown \in Seq(TextBytes) /\ sentText \in Seq(TextBytes)
      /\ toClient \in Seq(AnyByte)
      /\ \E p \in Places : ClientAt(p, state, verb, subBuffer, shown, toClient, sentText)
  BY <1>1 DEF ClientHalf
<1>7. ASSUME sentText' = sentText, NEW u \in ServerUnits \ TextUnits, toClient' = toClient \o u,
             Telnet!ServerRequest \/ Telnet!ServerSub
      PROVE  ClientHalf'
  <2>1. /\ \E p \in Places : ClientAt(p, state, verb, subBuffer, shown, toClient', sentText)
        /\ toClient' \in Seq(AnyByte)
    BY <1>6, <1>7, ClientMore
  <2>2. QED
    BY <1>5, <1>6, <1>7, <2>1 DEF ClientHalf
<1>8. CASE Telnet!ServerText
  <2>1. PICK b \in TextBytes :
          sentText' = Append(sentText, b) /\ toClient' = toClient \o Telnet!Escaped(b)
    BY <1>8 DEF Telnet!ServerText, Telnet!Escaped
  <2>2. /\ \E p \in Places : ClientAt(p, state, verb, subBuffer, shown, toClient', sentText')
        /\ toClient' \in Seq(AnyByte)
    BY <1>6, <2>1, ClientMore
  <2>3. sentText' \in Seq(TextBytes)
    BY <1>6, <2>1
  <2>4. ClientHalf'
    BY <1>5, <1>6, <1>8, <2>2, <2>3 DEF ClientHalf
  <2>5. Views'
    BY <1>1, <1>5, <1>8 DEF Telnet!ServerText, Telnet!view, Views
  <2>6. QED
    BY <1>1, <1>5, <1>8, <2>4, <2>5 DEF TelnetInv
<1>9. CASE Telnet!ServerRequest
  <2>1. PICK o \in Options :
          \/ local' = [local EXCEPT ![o] = "wantYes"] /\ Telnet!Asks(o, "WILL") /\ remote' = remote
          \/ local' = [local EXCEPT ![o] = "wantNo"] /\ Telnet!Asks(o, "WONT") /\ remote' = remote
          \/ remote' = [remote EXCEPT ![o] = "wantYes"] /\ Telnet!Asks(o, "DO") /\ local' = local
          \/ remote' = [remote EXCEPT ![o] = "wantNo"] /\ Telnet!Asks(o, "DONT") /\ local' = local
    BY <1>9 DEF Telnet!ServerRequest
  <2>2. /\ sentText' = sentText /\ requests < Requests /\ requests' = requests + 1
    BY <1>9 DEF Telnet!ServerRequest
  <2>3. PICK v \in Telnet!Verbs : toClient' = toClient \o <<"IAC", v, o>>
    BY <2>1 DEF Telnet!Asks, Telnet!Verbs
  <2> DEFINE c == <<"IAC", v, o>>
  <2>4. c \in Commands /\ Len(c) = 3
    BY CommandUnit
  <2> HIDE DEF c
  <2>5. c \in ServerUnits \ TextUnits
    <3>1. c \in ServerUnits /\ c \in TelnetUnits
      BY <2>4 DEF ServerUnits, TelnetUnits
    <3>2. QED
      BY <2>4, <3>1, UnitFacts
  <2>6. ClientHalf'
    BY <1>7, <1>9, <2>2, <2>3, <2>5 DEF c
  <2>7. /\ local' \in [Options -> {"no", "yes", "wantYes", "wantNo"}]
        /\ remote' \in [Options -> {"no", "yes", "wantYes", "wantNo"}]
    BY <1>1, <2>1 DEF Views
  <2>8. requests' \in 0 .. Requests
    BY <1>1, <2>2, BoundsAssumption DEF Views
  <2>9. Views'
    BY <1>1, <1>5, <1>9, <2>7, <2>8 DEF Views
  <2>10. QED
    BY <1>1, <1>5, <1>9, <2>6, <2>9 DEF TelnetInv
<1>10. CASE Telnet!ServerSub
  <2>1. /\ toClient' = toClient \o Question /\ sentText' = sentText
        /\ requests < Requests /\ requests' = requests + 1
        /\ local' = local /\ remote' = remote
    BY <1>10 DEF Telnet!ServerSub, Telnet!view, Question
  <2>2. Question \in ServerUnits \ TextUnits
    <3>1. Question \in ServerUnits /\ Question \in TelnetUnits /\ Len(Question) = 6
      BY LongUnit DEF ServerUnits, TelnetUnits
    <3>2. QED
      BY <3>1, UnitFacts
  <2>3. ClientHalf'
    BY <1>7, <1>10, <2>1, <2>2
  <2>4. requests' \in 0 .. Requests
    BY <1>1, <2>1, BoundsAssumption DEF Views
  <2>5. Views'
    BY <1>1, <1>5, <1>10, <2>1, <2>4 DEF Views
  <2>6. QED
    BY <1>1, <1>5, <1>10, <2>3, <2>5 DEF TelnetInv
<1>11. CASE Telnet!ServerReads
  <2>1. ClientHalf' <=> ClientHalf
    BY <1>11 DEF Telnet!ServerReads, Telnet!decoder, ClientHalf
  <2>2. /\ requests' = requests /\ resizes' = resizes /\ size' = size /\ bare' = bare
        /\ typed' = typed
    BY <1>11 DEF Telnet!ServerReads, Telnet!window
  <2>3. Views'
    <3>1. /\ local' = local \/ \E v, o : local' = Telnet!Changed(v, local, o)
          /\ remote' = remote \/ \E v, o : remote' = Telnet!Changed(v, remote, o)
      BY <1>11 DEF Telnet!ServerReads, Telnet!view
    <3>2. /\ local' \in [Options -> {"no", "yes", "wantYes", "wantNo"}]
          /\ remote' \in [Options -> {"no", "yes", "wantYes", "wantNo"}]
      BY <1>1, <3>1, ChangedTyped DEF Views
    <3>3. QED
      BY <1>1, <2>2, <3>2 DEF Views
  <2>4. ServerHalf'
    BY <1>1, <1>11, <2>2, ServerTakes DEF ServerHalf
  <2>5. QED
    BY <1>1, <2>1, <2>3, <2>4 DEF TelnetInv
<1>12. QED
  BY <1>2, <1>3, <1>4, <1>8, <1>9, <1>10, <1>11 DEF Telnet!Next

\* What the two halves say of the text that has come through.
LEMMA PrefixOf ==
    ASSUME NEW list \in Seq(TextBytes), NEW text \in Seq(TextBytes),
           NEW n \in 0 .. Len(text), Begins(list, text, n)
    PROVE  Telnet!IsPrefix(list, text) /\ (n = Len(text) => list = text)
<1> DEFINE u == SubSeq(text, 1, n)
<1>1. n \in Nat /\ n <= Len(text) /\ Len(list) = n /\ \A i \in 1 .. n : list[i] = text[i]
  BY DEF Begins
<1>2. u \in Seq(TextBytes) /\ Len(u) = n /\ \A i \in 1 .. n : u[i] = text[i]
  <2>1. \A i \in 1 .. n : text[i] \in TextBytes
    BY <1>1
  <2>2. QED
    BY <2>1, <1>1, SubSeqProperties
<1> HIDE DEF u
<1>3. list = u
  <2>1. Len(list) = Len(u) /\ \A i \in 1 .. Len(list) : list[i] = u[i]
    BY <1>1, <1>2
  <2>2. QED
    BY <1>2, <2>1, SeqEqual
<1>4. SubSeq(list, 1, Len(list)) = list
  BY SubSeqFull
<1>5. Telnet!IsPrefix(list, text)
  BY <1>1, <1>3, <1>4 DEF Telnet!IsPrefix, u
<1>6. n = Len(text) => list = text
  <2>1. n = Len(text) => Len(list) = Len(text) /\ \A i \in 1 .. Len(list) : list[i] = text[i]
    BY <1>1
  <2>2. QED
    BY <2>1, SeqEqual
<1>7. QED
  BY <1>5, <1>6

LEMMA TelnetText ==
    ASSUME TelnetInv
    PROVE  Telnet!TypeOK /\ Telnet!TextIntact
<1>1. ClientHalf /\ ServerHalf /\ Views
  BY DEF TelnetInv
<1>2. Telnet!TypeOK
  BY <1>1 DEF ClientHalf, ServerHalf, ServerClean, Views, Telnet!TypeOK
<1>3. Telnet!IsPrefix(shown, sentText) /\ (toClient = << >> => shown = sentText)
  <2>1. /\ shown \in Seq(TextBytes) /\ sentText \in Seq(TextBytes)
        /\ toClient \in Seq(AnyByte)
    BY <1>1 DEF ClientHalf
  <2>2. PICK p \in Places : ClientAt(p, state, verb, subBuffer, shown, toClient, sentText)
    BY <1>1 DEF ClientHalf
  <2>3. Begins(shown, sentText, Taken(p)) /\ Coded(ServerUnits, p, toClient, sentText)
    BY <2>2 DEF ClientAt
  <2>4. Taken(p) \in 0 .. Len(sentText)
    BY <2>1, <2>3, CodedPlace, TakenBound
  <2>5. toClient = << >> => Taken(p) = Len(sentText)
    BY <2>3, CodedEnd DEF Taken
  <2>6. QED
    BY <2>1, <2>3, <2>4, <2>5, PrefixOf
<1>4. ASSUME ~bare
      PROVE  Telnet!IsPrefix(heardText, typed) /\ (toServer = << >> => heardText = typed)
  <2>0. ServerClean
    BY <1>1, <1>4 DEF ServerHalf
  <2>1. /\ heardText \in Seq(TextBytes) /\ typed \in Seq(TextBytes)
        /\ toServer \in Seq(AnyByte)
    BY <2>0 DEF ServerClean
  <2>2. PICK p \in Places : ServerAt(p, serverState, heardText, toServer, typed)
    BY <2>0 DEF ServerClean
  <2>3. Begins(heardText, typed, Taken(p)) /\ Coded(ClientUnits, p, toServer, typed)
    BY <2>2 DEF ServerAt
  <2>4. Taken(p) \in 0 .. Len(typed)
    BY <2>1, <2>3, CodedPlace, TakenBound
  <2>5. toServer = << >> => Taken(p) = Len(typed)
    BY <2>3, CodedEnd DEF Taken
  <2>6. QED
    BY <2>1, <2>3, <2>4, <2>5, PrefixOf
<1>5. QED
  BY <1>2, <1>3, <1>4 DEF Telnet!TextIntact

\* Before the first byte either reader is as after a command.
LEMMA StartsCoded ==
    ASSUME NEW units, NEW u \in units, units \subseteq TelnetUnits, Len(u) = 6
    PROVE  LET p == Place(u, 6, 0) IN
           /\ p \in Places /\ Coded(units, p, << >>, << >>)
           /\ Begins(<< >>, << >>, Taken(p)) /\ ~Within(p)
<1> DEFINE p == Place(u, 6, 0)
           T == <<p>>
<1>1. u \in TelnetUnits /\ u \notin TextUnits /\ u \in Seq(AnyByte)
  BY UnitFacts
<1>2. p.unit = u /\ p.at = 6 /\ p.no = 0 /\ Len(p.unit) = 6
  BY DEF Place
<1>3. p \in Places
  <2>1. 6 \in 1 .. Len(u) /\ 0 \in Nat
    OBVIOUS
  <2>2. QED
    BY <1>1, <2>1, PlaceTyped
<1>4. ~Within(p) /\ Taken(p) = 0
  <2>1. ~(6 < 6)
    OBVIOUS
  <2>2. ~Within(p)
    BY <1>2, <2>1 DEF Within
  <2>3. QED
    BY <1>2, <2>2 DEF Taken
<1> HIDE DEF p
<1>5. T \in Seq(Places) /\ Len(T) = 1 /\ T[1] = p
  BY <1>3
<1> HIDE DEF T
<1>6. Placed(p, << >>)
  <2>1. 6 <= 6 /\ 0 <= Len(<< >>)
    OBVIOUS
  <2>2. p.at <= Len(p.unit) /\ p.no <= Len(<< >>)
    BY <1>2, <2>1
  <2>3. QED
    BY <1>1, <1>2, <1>3, <2>2 DEF Placed
<1>7. Trail(T, p, << >>, << >>)
  BY <1>2, <1>4, <1>5, <1>6 DEF Trail
<1>8. Coded(units, p, << >>, << >>)
  BY <1>2, <1>5, <1>7 DEF Coded
<1>9. Begins(<< >>, << >>, Taken(p))
  BY <1>4 DEF Begins
<1>10. QED
  BY <1>3, <1>4, <1>8, <1>9 DEF p

LEMMA TelnetStarts ==
    ASSUME Telnet!Init
    PROVE  TelnetInv
<1>1. /\ state = "Data" /\ verb = "none" /\ subBuffer = << >>
      /\ toClient = << >> /\ toServer = << >>
      /\ shown = << >> /\ typed = << >> /\ sentText = << >> /\ heardText = << >>
      /\ serverState = << >>
      /\ local = [o \in Options |-> "no"] /\ remote = [o \in Options |-> "no"]
      /\ requests = 0 /\ resizes \in 0 .. Resizes /\ size \in Telnet!Sizes /\ bare = FALSE
  BY DEF Telnet!Init
<1>2. << >> \in Seq(AnyByte) /\ << >> \in Seq(TextBytes) /\ Len(<< >>) = 0
  OBVIOUS
<1>3. ClientHalf
  <2> DEFINE p == Place(Question, 6, 0)
  <2>1. Question \in ServerUnits /\ Len(Question) = 6 /\ ServerUnits \subseteq TelnetUnits
    BY LongUnit DEF ServerUnits, TelnetUnits
  <2>2. /\ p \in Places /\ Coded(ServerUnits, p, << >>, << >>)
        /\ Begins(<< >>, << >>, Taken(p)) /\ ~Within(p)
    BY <2>1, StartsCoded
  <2> HIDE DEF p
  <2>3. Decoder(p, "Data", "none", << >>)
    BY <2>2 DEF Decoder
  <2>4. ClientAt(p, state, verb, subBuffer, shown, toClient, sentText)
    BY <1>1, <2>2, <2>3 DEF ClientAt
  <2>5. QED
    BY <1>1, <1>2, <2>2, <2>4 DEF ClientHalf
<1>4. ServerHalf
  <2> DEFINE p == Place(Telnet!TerminalType, 6, 0)
  <2>1. Telnet!TerminalType \in ClientUnits /\ Len(Telnet!TerminalType) = 6 /\ ClientUnits \subseteq TelnetUnits
    BY LongUnit DEF ClientUnits, TelnetUnits
  <2>2. /\ p \in Places /\ Coded(ClientUnits, p, << >>, << >>)
        /\ Begins(<< >>, << >>, Taken(p)) /\ ~Within(p)
    BY <2>1, StartsCoded
  <2> HIDE DEF p
  <2>3. << >> = Prefix(p)
    BY <2>2 DEF Prefix
  <2>4. ServerAt(p, serverState, heardText, toServer, typed)
    BY <1>1, <2>2, <2>3 DEF ServerAt
  <2>5. QED
    BY <1>1, <1>2, <2>2, <2>4 DEF ServerHalf, ServerClean
<1>5. Views
  <2>1. 0 \in 0 .. Requests
    BY BoundsAssumption
  <2>2. /\ local \in [Options -> {"no", "yes", "wantYes", "wantNo"}]
        /\ remote \in [Options -> {"no", "yes", "wantYes", "wantNo"}]
    BY <1>1
  <2>3. QED
    BY <1>1, <2>1, <2>2 DEF Views
<1>6. QED
  BY <1>3, <1>4, <1>5 DEF TelnetInv

\* Telnet text comes through whole in both directions, whatever bytes it has and
\* whatever is negotiated between them; what is typed does as long as no size with
\* a byte 255 has been told.
THEOREM TextComesThrough == Spec => []TextIntact
<1> DEFINE Inv == op = "telnet" => TelnetInv
<1>1. Init => Inv
  <2>1. Init /\ op = "telnet" => Telnet!Init
    BY DEF Init
  <2>2. QED
    BY <2>1, TelnetStarts
<1>2. Inv /\ [Next]_vars => Inv'
  <2> SUFFICES ASSUME Inv, [Next]_vars, op' = "telnet"
               PROVE  TelnetInv'
    OBVIOUS
  <2>1. CASE Telnets(Telnet!Next)
    BY <2>1, TelnetStep DEF Telnets
  <2>2. CASE Terminals(Terminal!Next) \/ Tftps(Tftp!Next) \/ Forwards(Forward!Next)
    BY <2>2 DEF Terminals, Tftps, Forwards
  <2>3. CASE UNCHANGED vars
    <3>1. op' = op /\ UNCHANGED <<textVars, wireVars, telnetVars>>
      BY <2>3 DEF vars
    <3>2. (ClientHalf' <=> ClientHalf) /\ (ServerHalf' <=> ServerHalf) /\ (Views' <=> Views)
      BY <3>1 DEF textVars, wireVars, telnetVars, ClientHalf, ServerHalf, ServerClean, Views
    <3>3. QED
      BY <3>1, <3>2 DEF TelnetInv
  <2>4. QED
    BY <2>1, <2>2, <2>3 DEF Next
<1>3. Inv => TextIntact
  BY TelnetText DEF TextIntact
<1> HIDE DEF Inv
<1>4. QED
  BY <1>1, <1>2, <1>3, PTL DEF Spec
=============================================================================
