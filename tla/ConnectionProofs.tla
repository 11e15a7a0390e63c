------------------------- MODULE ConnectionProofs --------------------------
(***************************************************************************)
(* Proofs about the program at the other end of a network: the forwarded    *)
(* port, for any number of clients and of bytes to relay, and the TFTP      *)
(* transfer, for any number of blocks and of faults of the network.         *)
(***************************************************************************)
EXTENDS MCConnections, SequenceTheorems, TLAPS

-----------------------------------------------------------------------------
(* The forwarded port.  The script of a client is local, or speaks SOCKS well *)
(* or badly; a pipe is right when what its two ends have and what is between   *)
(* them are what was said.                                                     *)

Pieces == [of : {"greeting", "request", "bad", "data", "accepted", "succeeded", "refused", "unsupported"},
           number : Nat]
Pipes == [step : {"absent", "greeting", "request", "relay", "closed"},
          unread : Seq(Pieces), socksBuf : Seq(Pieces), unsent : Seq(Pieces), got : Seq(Pieces),
          target : Seq(Pieces), incoming : Seq(Pieces), produced : Nat, eof : BOOLEAN]

Local == Forward!DataUpTo(Units)
Socks == Forward!Greeting \o Forward!Request \o Local
Unasked == Forward!Greeting \o Forward!Bad
Word(of, n) == [of |-> of, number |-> n]
Accepted == <<Word("accepted", 0)>>

\* A sequence that another begins with, point by point.
Begins(s, t) == Len(s) <= Len(t) /\ \A i \in 1 .. Len(s) : s[i] = t[i]

RepliesTo(s) ==
    CASE s = Local -> << >>
      [] s = Forward!Bad -> <<Word("refused", 0)>>
      [] s = Unasked -> <<Word("accepted", 0), Word("unsupported", 0)>>
      [] OTHER -> <<Word("accepted", 0), Word("succeeded", 0)>>
DataOf(s, k) == SubSeq(s, (IF s = Local THEN 0 ELSE 4) + 1, k)

\* Of the two pieces of a greeting or request that follow the first "from" of the
\* script, k - from have come and some are buffered.
Partly(p, s, k, from, what) ==
    \/ k = from /\ p.socksBuf = << >> /\ p.unread = << >>
    \/ k = from + 1 /\ p.socksBuf = << >> /\ p.unread = <<s[from + 1]>>
    \/ k = from + 1 /\ p.socksBuf = <<what[1]>> /\ p.unread = << >> /\ s[from + 1] = what[1]
    \/ k = from + 2 /\ p.socksBuf = << >> /\ p.unread = <<s[from + 1], s[from + 2]>>
    \/ k = from + 2 /\ p.socksBuf = <<what[1]>> /\ p.unread = <<s[from + 2]>> /\ s[from + 1] = what[1]

Idle(p) == p.target = << >> /\ p.incoming = << >> /\ p.produced = 0 /\ p.eof = FALSE
Sound(p, s, k) ==
    /\ Begins(p.target, DataOf(s, k))
    /\ Begins(p.got \o p.unsent, RepliesTo(s) \o Forward!DataUpTo(p.produced))
PipeInv(p, s, k) ==
    /\ p \in Pipes /\ k \in 0 .. Len(s)
    /\ p.step = "absent" => k = 0 /\ p = Forward!NoPipe
    /\ p.step = "greeting" =>
          /\ s # Local /\ Idle(p) /\ p.got = << >> /\ p.unsent = << >>
          /\ Partly(p, s, k, 0, Forward!Greeting)
    /\ p.step = "request" =>
          /\ s \in {Socks, Unasked} /\ Idle(p) /\ p.got \o p.unsent = Accepted
          /\ Partly(p, s, k, 2, Forward!Request)
    /\ p.step = "relay" =>
          /\ s = Local \/ (s = Socks /\ k >= 4)
          /\ p.target \o p.unread = DataOf(s, k)
          /\ (p.got \o p.unsent) \o p.incoming = RepliesTo(s) \o Forward!DataUpTo(p.produced)
    /\ p.step = "closed" => p.unsent = << >> /\ Sound(p, s, k)

\* While pump() writes to a channel, what it has still to write is there.
Busy(p, b) == b > 0 => p.step = "relay" /\ b <= Len(p.unread)
BatchInv == batch \in [Clients -> Nat] /\ \A c \in Clients : Busy(pipe[c], batch[c])

PortInv ==
    /\ script \in [Clients -> Forward!Scripts] /\ said \in [Clients -> Nat]
    /\ DOMAIN pipe = Clients
    /\ \A c \in Clients : PipeInv(pipe[c], script[c], said[c])

LEMMA UnitsBound == Units \in Nat
  BY BoundsAssumption

LEMMA Dataset ==
    ASSUME NEW n \in Nat
    PROVE  /\ Forward!DataUpTo(n) \in Seq(Pieces) /\ Len(Forward!DataUpTo(n)) = n
           /\ \A i \in 1 .. n : Forward!DataUpTo(n)[i] = Word("data", i)
<1> DEFINE d == [i \in 1 .. n |-> Word("data", i)]
<1>1. Forward!DataUpTo(n) = d
  BY DEF Forward!DataUpTo, Forward!Piece, Word
<1>2. \A i \in 1 .. n : Word("data", i) \in Pieces
  BY DEF Word, Pieces
<1>3. d \in [1 .. n -> Pieces] /\ \A i \in 1 .. n : d[i] = Word("data", i)
  BY <1>2
<1> HIDE DEF d
<1>4. d \in Seq(Pieces) /\ Len(d) = n
  BY <1>3
<1>5. QED
  BY <1>1, <1>3, <1>4

LEMMA ScriptShapes ==
    /\ Local \in Seq(Pieces) /\ Len(Local) = Units /\ \A i \in 1 .. Units : Local[i] = Word("data", i)
    /\ Socks \in Seq(Pieces) /\ Len(Socks) = 4 + Units
    /\ Socks[1] = Word("greeting", 1) /\ Socks[2] = Word("greeting", 2)
    /\ Socks[3] = Word("request", 1) /\ Socks[4] = Word("request", 2)
    /\ \A i \in 1 .. Units : Socks[4 + i] = Word("data", i)
    /\ Forward!Bad \in Seq(Pieces) /\ Len(Forward!Bad) = 1 /\ Forward!Bad[1] = Word("bad", 1)
    /\ Unasked \in Seq(Pieces) /\ Len(Unasked) = 3 /\ Unasked[1] = Word("greeting", 1)
    /\ Unasked[2] = Word("greeting", 2) /\ Unasked[3] = Word("bad", 1)
<1>1. Local \in Seq(Pieces) /\ Len(Local) = Units /\ \A i \in 1 .. Units : Local[i] = Word("data", i)
  BY Dataset, UnitsBound DEF Local
<1> DEFINE g == <<Word("greeting", 1), Word("greeting", 2)>>
           q == <<Word("request", 1), Word("request", 2)>>
           b == <<Word("bad", 1)>>
<1>2. Forward!Greeting = g /\ Forward!Request = q /\ Forward!Bad = b
  BY DEF Forward!Greeting, Forward!Request, Forward!Bad, Forward!Piece, Word
<1>3. g \in Seq(Pieces) /\ q \in Seq(Pieces) /\ b \in Seq(Pieces)
  BY DEF Word, Pieces
<1>4. /\ Len(g) = 2 /\ g[1] = Word("greeting", 1) /\ g[2] = Word("greeting", 2)
      /\ Len(q) = 2 /\ q[1] = Word("request", 1) /\ q[2] = Word("request", 2)
      /\ Len(b) = 1 /\ b[1] = Word("bad", 1)
  OBVIOUS
<1> HIDE DEF g, q, b
<1>5. /\ g \o q \in Seq(Pieces) /\ Len(g \o q) = 4
      /\ \A i \in 1 .. 4 : (g \o q)[i] = IF i <= 2 THEN g[i] ELSE q[i - 2]
  BY <1>3, <1>4, ConcatProperties
<1> DEFINE gq == g \o q
<1>6. /\ gq \in Seq(Pieces) /\ Len(gq) = 4
      /\ gq[1] = Word("greeting", 1) /\ gq[2] = Word("greeting", 2)
      /\ gq[3] = Word("request", 1) /\ gq[4] = Word("request", 2)
  BY <1>4, <1>5
<1> HIDE DEF gq
<1>7. /\ gq \o Local \in Seq(Pieces) /\ Len(gq \o Local) = 4 + Units
      /\ \A i \in 1 .. 4 + Units : (gq \o Local)[i] = IF i <= 4 THEN gq[i] ELSE Local[i - 4]
  <2>1. /\ gq \o Local \in Seq(Pieces) /\ Len(gq \o Local) = Len(gq) + Len(Local)
        /\ \A i \in 1 .. Len(gq) + Len(Local) :
              (gq \o Local)[i] = IF i <= Len(gq) THEN gq[i] ELSE Local[i - Len(gq)]
    BY <1>1, <1>6, ConcatProperties
  <2>2. Len(gq) = 4 /\ Len(Local) = Units
    BY <1>1, <1>6
  <2>3. QED
    BY ONLY <2>1, <2>2
<1>8. Socks = gq \o Local
  BY <1>2 DEF Socks, gq
<1>9. /\ Socks \in Seq(Pieces) /\ Len(Socks) = 4 + Units
      /\ Socks[1] = Word("greeting", 1) /\ Socks[2] = Word("greeting", 2)
      /\ Socks[3] = Word("request", 1) /\ Socks[4] = Word("request", 2)
  BY <1>6, <1>7, <1>8, UnitsBound
<1>10. \A i \in 1 .. Units : Socks[4 + i] = Word("data", i)
  <2> TAKE i \in 1 .. Units
  <2>1. 4 + i \in 1 .. 4 + Units /\ ~(4 + i <= 4) /\ (4 + i) - 4 = i
    BY UnitsBound
  <2>2. QED
    BY <2>1, <1>1, <1>7, <1>8
<1>11. /\ g \o b \in Seq(Pieces) /\ Len(g \o b) = 3
       /\ \A i \in 1 .. 3 : (g \o b)[i] = IF i <= 2 THEN g[i] ELSE b[i - 2]
  <2>1. /\ g \o b \in Seq(Pieces) /\ Len(g \o b) = Len(g) + Len(b)
        /\ \A i \in 1 .. Len(g) + Len(b) : (g \o b)[i] = IF i <= Len(g) THEN g[i] ELSE b[i - Len(g)]
    BY <1>3, ConcatProperties
  <2>2. QED
    BY ONLY <2>1, <1>4
<1>12. /\ Unasked \in Seq(Pieces) /\ Len(Unasked) = 3 /\ Unasked[1] = Word("greeting", 1)
       /\ Unasked[2] = Word("greeting", 2) /\ Unasked[3] = Word("bad", 1)
  BY <1>2, <1>4, <1>11 DEF Unasked
<1>13. QED
  BY <1>1, <1>2, <1>3, <1>4, <1>9, <1>10, <1>12

LEMMA ScriptKinds ==
    /\ Forward!Scripts = {Local, Socks, Forward!Bad, Unasked}
    /\ Local # Socks /\ Local # Forward!Bad /\ Local # Unasked
    /\ Socks # Forward!Bad /\ Socks # Unasked /\ Forward!Bad # Unasked
<1>1. Forward!Scripts = {Local, Socks, Forward!Bad, Unasked}
  BY DEF Forward!Scripts, Local, Socks, Unasked
<1>2. Local # Socks /\ Socks # Forward!Bad /\ Socks # Unasked /\ Forward!Bad # Unasked
  <2>1. Units # 4 + Units /\ 4 + Units # 1 /\ 4 + Units # 3
    BY UnitsBound
  <2>2. Len(Local) # Len(Socks) /\ Len(Socks) # Len(Forward!Bad) /\ Len(Socks) # Len(Unasked)
        /\ Len(Forward!Bad) # Len(Unasked)
    BY <2>1, ScriptShapes
  <2>3. QED
    BY ONLY <2>2
<1>3. Local # Forward!Bad
  <2>1. Units = 1 => Local[1] = Word("data", 1)
    BY ScriptShapes, UnitsBound
  <2>2. Word("data", 1) # Word("bad", 1)
    BY DEF Word
  <2>3. QED
    BY <2>1, <2>2, ScriptShapes
<1>4. Local # Unasked
  <2>1. Units = 3 => Local[1] = Word("data", 1)
    BY ScriptShapes, UnitsBound
  <2>2. Word("data", 1) # Word("greeting", 1)
    BY DEF Word
  <2>3. QED
    BY <2>1, <2>2, ScriptShapes
<1>5. QED
  BY <1>1, <1>2, <1>3, <1>4

\* What a forwarder says of prefixes.
LEMMA PrefixIs ==
    ASSUME NEW s \in Seq(Pieces), NEW t \in Seq(Pieces)
    PROVE  Forward!IsPrefix(s, t) <=> Begins(s, t)
<1>1. /\ Len(s) \in Nat /\ Len(t) \in Nat
      /\ (\A i \in 1 .. Len(s) : s[i] \in Pieces) /\ (\A i \in 1 .. Len(t) : t[i] \in Pieces)
  BY LenProperties, ElementOfSeq
<1>2. ASSUME Len(s) <= Len(t)
      PROVE  SubSeq(s, 1, Len(s)) = SubSeq(t, 1, Len(s)) <=> \A i \in 1 .. Len(s) : s[i] = t[i]
  <2> DEFINE u == SubSeq(t, 1, Len(s))
  <2>1. \A i \in 1 .. Len(s) : t[i] \in Pieces
    BY <1>1, <1>2
  <2>2. u \in Seq(Pieces) /\ Len(u) = Len(s) /\ \A i \in 1 .. Len(s) : u[i] = t[i]
    BY <2>1, <1>1, SubSeqProperties
  <2> HIDE DEF u
  <2>3. SubSeq(s, 1, Len(s)) = s
    BY SubSeqFull
  <2>4. (\A i \in 1 .. Len(s) : s[i] = t[i]) => s = u
    BY <2>2, SeqEqual
  <2>5. s = u => \A i \in 1 .. Len(s) : s[i] = t[i]
    BY <2>2
  <2>6. QED
    BY <2>3, <2>4, <2>5 DEF u
<1>3. QED
  BY <1>1, <1>2 DEF Forward!IsPrefix, Begins

\* Two sequences end to end, and one of which a part is left out.
LEMMA JoinIs ==
    ASSUME NEW s \in Seq(Pieces), NEW t \in Seq(Pieces)
    PROVE  /\ s \o t \in Seq(Pieces) /\ Len(s \o t) = Len(s) + Len(t)
           /\ \A i \in 1 .. Len(s) : (s \o t)[i] = s[i]
           /\ \A i \in 1 .. Len(t) : (s \o t)[Len(s) + i] = t[i]
           /\ Len(s) \in Nat /\ Len(t) \in Nat
  OBVIOUS

LEMMA PartBegins ==
    ASSUME NEW s \in Seq(Pieces), NEW t \in Seq(Pieces), NEW u \in Seq(Pieces), Begins(s \o t, u)
    PROVE  Begins(s, u)
<1>1. /\ Len(s \o t) = Len(s) + Len(t) /\ Len(s) \in Nat /\ Len(t) \in Nat /\ Len(u) \in Nat
      /\ \A i \in 1 .. Len(s) : (s \o t)[i] = s[i]
  BY JoinIs, LenProperties
<1>2. QED
  BY <1>1 DEF Begins

LEMMA BeginsMore ==
    ASSUME NEW s \in Seq(Pieces), NEW t \in Seq(Pieces), NEW u \in Seq(Pieces), Begins(s, t)
    PROVE  Begins(s, t \o u)
<1>1. /\ Len(t \o u) = Len(t) + Len(u) /\ Len(s) \in Nat /\ Len(t) \in Nat /\ Len(u) \in Nat
      /\ \A i \in 1 .. Len(t) : (t \o u)[i] = t[i]
  BY JoinIs, LenProperties
<1>2. QED
  BY <1>1 DEF Begins

LEMMA BeginsItself ==
    ASSUME NEW s \in Seq(Pieces)
    PROVE  Begins(s, s) /\ Begins(<< >>, s)
<1>1. Len(s) \in Nat /\ Len(<< >>) = 0
  BY LenProperties
<1>2. QED
  BY <1>1 DEF Begins

\* The data that a client has said are all in its script, and one piece more is
\* one more of them.
LEMMA DataGrows ==
    ASSUME NEW s \in Forward!Scripts, NEW k \in Nat, k < Len(s)
    PROVE  /\ DataOf(s, k) \in Seq(Pieces) /\ DataOf(s, k + 1) \in Seq(Pieces)
           /\ s = Local \/ k >= 4 => DataOf(s, k + 1) = Append(DataOf(s, k), s[k + 1])
           /\ Begins(DataOf(s, k), DataOf(s, k + 1))
<1> DEFINE h == IF s = Local THEN 0 ELSE 4
<1>1. /\ s \in Seq(Pieces) /\ Len(s) \in Nat /\ h \in Nat /\ k + 1 \in Nat
      /\ \A i \in 1 .. Len(s) : s[i] \in Pieces
  BY ScriptShapes, ScriptKinds, LenProperties, ElementOfSeq
<1>2. DataOf(s, k) = SubSeq(s, h + 1, k) /\ DataOf(s, k + 1) = SubSeq(s, h + 1, k + 1)
  BY DEF DataOf
<1> HIDE DEF h
<1> DEFINE d == SubSeq(s, h + 1, k)
           e == SubSeq(s, h + 1, k + 1)
<1>3. /\ d \in Seq(Pieces) /\ Len(d) = IF h + 1 <= k THEN k - (h + 1) + 1 ELSE 0
      /\ \A i \in 1 .. k - (h + 1) + 1 : d[i] = s[(h + 1) + i - 1]
  <2>1. \A i \in h + 1 .. k : s[i] \in Pieces
    BY <1>1
  <2>2. h + 1 \in Int /\ k \in Int
    BY <1>1
  <2>3. QED
    BY <2>1, <2>2, SubSeqProperties
<1>4. /\ e \in Seq(Pieces) /\ Len(e) = IF h + 1 <= k + 1 THEN (k + 1) - (h + 1) + 1 ELSE 0
      /\ \A i \in 1 .. (k + 1) - (h + 1) + 1 : e[i] = s[(h + 1) + i - 1]
  <2>1. \A i \in h + 1 .. k + 1 : s[i] \in Pieces
    BY <1>1
  <2>2. h + 1 \in Int /\ k + 1 \in Int
    BY <1>1
  <2>3. QED
    BY <2>1, <2>2, SubSeqProperties
<1> HIDE DEF d, e
<1>5. Len(d) <= Len(e) /\ \A i \in 1 .. Len(d) : d[i] = e[i]
  <2>1. CASE h + 1 <= k
    BY <2>1, <1>1, <1>3, <1>4
  <2>2. CASE ~(h + 1 <= k)
    BY <2>2, <1>1, <1>3, <1>4
  <2>3. QED
    BY <2>1, <2>2
<1>6. ASSUME h <= k PROVE e = Append(d, s[k + 1])
  <2>1. Len(d) = k - h /\ Len(e) = (k - h) + 1 /\ e[(k - h) + 1] = s[k + 1] /\ s[k + 1] \in Pieces
    BY <1>1, <1>3, <1>4, <1>6
  <2> DEFINE a == Append(d, s[k + 1])
  <2>2. a \in Seq(Pieces) /\ Len(a) = Len(d) + 1 /\ a[Len(d) + 1] = s[k + 1] /\ \A i \in 1 .. Len(d) : a[i] = d[i]
    BY <2>1, <1>3, AppendProperties
  <2> HIDE DEF a
  <2>3. \A i \in 1 .. Len(e) : e[i] = a[i]
    <3> TAKE i \in 1 .. Len(e)
    <3>1. i \in 1 .. Len(d) \/ i = Len(d) + 1
      BY <2>1, <1>1, <1>6
    <3>2. QED
      BY <3>1, <2>1, <2>2, <1>5
  <2>4. Len(e) = Len(a)
    BY <2>1, <2>2
  <2>5. e = a
    BY <2>2, <2>3, <2>4, <1>4, SeqEqual
  <2>6. QED
    BY <2>5 DEF a
<1>7. s = Local \/ k >= 4 => h <= k
  BY DEF h
<1>8. QED
  BY <1>2, <1>3, <1>4, <1>5, <1>6, <1>7 DEF d, e, Begins

LEMMA DataTyped ==
    ASSUME NEW s \in Forward!Scripts, NEW k \in 0 .. Len(s)
    PROVE  DataOf(s, k) \in Seq(Pieces) /\ (k <= 4 /\ s # Local => DataOf(s, k) = << >>)
                                        /\ (k = 0 => DataOf(s, k) = << >>)
<1>1. s \in Seq(Pieces) /\ Len(s) \in Nat /\ \A i \in 1 .. Len(s) : s[i] \in Pieces
  BY ScriptShapes, ScriptKinds, LenProperties, ElementOfSeq
<1>2. \A h \in {0, 4} : SubSeq(s, h + 1, k) \in Seq(Pieces) /\ (k < h + 1 => SubSeq(s, h + 1, k) = << >>)
  <2> TAKE h \in {0, 4}
  <2>1. h + 1 \in Int /\ k \in Int /\ \A i \in h + 1 .. k : s[i] \in Pieces
    BY <1>1
  <2>2. QED
    BY <2>1, SubSeqProperties, SubSeqEmpty
<1>3. QED
  BY <1>1, <1>2 DEF DataOf

\* What the replies are.
LEMMA RepliesTyped ==
    ASSUME NEW s \in Forward!Scripts
    PROVE  /\ RepliesTo(s) \in Seq(Pieces)
           /\ s = Local => RepliesTo(s) = << >>
           /\ s = Forward!Bad => RepliesTo(s) = <<Word("refused", 0)>>
           /\ s = Unasked => RepliesTo(s) = <<Word("accepted", 0), Word("unsupported", 0)>>
           /\ s = Socks => RepliesTo(s) = <<Word("accepted", 0), Word("succeeded", 0)>>
<1> DEFINE a == <<Word("refused", 0)>>
           b == <<Word("accepted", 0), Word("unsupported", 0)>>
           e == <<Word("accepted", 0), Word("succeeded", 0)>>
<1>1. /\ Word("refused", 0) \in Pieces /\ Word("accepted", 0) \in Pieces
      /\ Word("unsupported", 0) \in Pieces /\ Word("succeeded", 0) \in Pieces
  BY DEF Word, Pieces
<1>2. a \in Seq(Pieces) /\ b \in Seq(Pieces) /\ e \in Seq(Pieces) /\ << >> \in Seq(Pieces)
  BY <1>1
<1>3. RepliesTo(s) = CASE s = Local -> << >> [] s = Forward!Bad -> a [] s = Unasked -> b [] OTHER -> e
  BY DEF RepliesTo
<1> HIDE DEF a, b, e
<1>4. /\ s = Local => RepliesTo(s) = << >>
      /\ s = Forward!Bad => RepliesTo(s) = a
      /\ s = Unasked => RepliesTo(s) = b
      /\ s = Socks => RepliesTo(s) = e
  BY <1>3, ScriptKinds
<1>5. s \in {Local, Socks, Forward!Bad, Unasked}
  BY ScriptKinds
<1>6. RepliesTo(s) \in Seq(Pieces)
  BY <1>2, <1>4, <1>5
<1>7. QED
  BY <1>4, <1>6 DEF a, b, e

\* A pipe that is right while it lives is right when it is closed, whether what
\* its socket had not sent goes with it or not.
LEMMA LiveSound ==
    ASSUME NEW s \in Forward!Scripts, NEW k \in Nat, NEW p, PipeInv(p, s, k), p.step # "absent"
    PROVE  p \in Pipes /\ Sound(p, s, k)
<1>0. p \in Pipes /\ k \in 0 .. Len(s)
  BY DEF PipeInv
<1>1. /\ p.got \in Seq(Pieces) /\ p.unsent \in Seq(Pieces) /\ p.incoming \in Seq(Pieces)
      /\ p.target \in Seq(Pieces) /\ p.unread \in Seq(Pieces) /\ p.produced \in Nat
      /\ p.step \in {"absent", "greeting", "request", "relay", "closed"}
  BY <1>0 DEF Pipes
<1> DEFINE d == Forward!DataUpTo(p.produced)
           h == p.got \o p.unsent
           e == DataOf(s, k)
           t == RepliesTo(s)
<1>2. d \in Seq(Pieces) /\ e \in Seq(Pieces) /\ t \in Seq(Pieces) /\ h \in Seq(Pieces)
  BY <1>0, <1>1, Dataset, DataTyped, RepliesTyped, JoinIs
<1>3. CASE p.step = "greeting"
  <2>1. p.target = << >> /\ p.got = << >> /\ p.unsent = << >>
    BY <1>3 DEF PipeInv, Idle
  <2>2. h = << >>
    BY <2>1
  <2> HIDE DEF h
  <2>3. t \o d \in Seq(Pieces)
    BY <1>2, JoinIs
  <2>4. Begins(<< >>, e) /\ Begins(<< >>, t \o d)
    BY <1>2, <2>3, BeginsItself
  <2>5. QED
    BY <1>0, <2>1, <2>2, <2>4 DEF Sound, h
<1>4. CASE p.step = "request"
  <2>1. p.target = << >> /\ h = Accepted /\ s \in {Socks, Unasked}
    BY <1>4 DEF PipeInv, Idle
  <2> DEFINE x == IF s = Socks THEN Word("succeeded", 0) ELSE Word("unsupported", 0)
             w == <<Word("accepted", 0), x>>
  <2>2. t = w
    BY <2>1, RepliesTyped, ScriptKinds
  <2>3. Begins(Accepted, w)
    BY DEF Begins, Accepted
  <2> HIDE DEF w, h, t
  <2>4. Begins(h, t \o d)
    BY <1>2, <2>1, <2>2, <2>3, BeginsMore
  <2>5. Begins(<< >>, e)
    BY <1>2, BeginsItself
  <2>6. QED
    BY <1>0, <2>1, <2>4, <2>5 DEF Sound, h, t
<1>5. CASE p.step = "relay"
  <2>1. p.target \o p.unread = e /\ h \o p.incoming = t \o d
    BY <1>5 DEF PipeInv
  <2> HIDE DEF h, t, d, e
  <2>2. t \o d \in Seq(Pieces)
    BY <1>2, JoinIs
  <2>3. Begins(e, e) /\ Begins(t \o d, t \o d)
    BY <1>2, <2>2, BeginsItself
  <2>4. Begins(p.target, e)
    BY <1>1, <1>2, <2>1, <2>3, PartBegins
  <2>5. Begins(h, t \o d)
    BY <1>1, <1>2, <2>1, <2>2, <2>3, PartBegins
  <2>6. QED
    BY <1>0, <2>4, <2>5 DEF Sound, h, t, d, e
<1>6. CASE p.step = "closed"
  BY <1>0, <1>6 DEF PipeInv
<1>7. QED
  BY <1>1, <1>3, <1>4, <1>5, <1>6

LEMMA ClosingsRight ==
    ASSUME NEW s \in Forward!Scripts, NEW k \in 0 .. Len(s), NEW p \in Pipes, Sound(p, s, k),
           NEW r \in Forward!Closings(p)
    PROVE  PipeInv(r, s, k) /\ r.step = "closed"
<1>1. /\ p.got \in Seq(Pieces) /\ p.unsent \in Seq(Pieces) /\ p.produced \in Nat
      /\ p.target \in Seq(Pieces)
  BY DEF Pipes
<1>2. PICK told \in {<< >>, p.unsent} :
         r = [p EXCEPT !.step = "closed", !.unsent = << >>, !.unread = << >>, !.got = @ \o told]
  BY DEF Forward!Closings
<1>3. p.got \o told \in Seq(Pieces)
  <2>1. << >> \in Seq(Pieces)
    OBVIOUS
  <2>2. told \in Seq(Pieces)
    BY <1>1, <1>2, <2>1
  <2>3. QED
    BY <1>1, <2>2, JoinIs
<1>4. /\ r \in Pipes /\ r.step = "closed" /\ r.unsent = << >> /\ r.target = p.target
      /\ r.produced = p.produced /\ r.got = p.got \o told
  <2> DEFINE g == p.got \o told
  <2>1. g \in Seq(Pieces)
    BY <1>3
  <2>2. r = [p EXCEPT !.step = "closed", !.unsent = << >>, !.unread = << >>, !.got = g]
    BY <1>2 DEF Pipes
  <2> HIDE DEF g
  <2>3. << >> \in Seq(Pieces)
    OBVIOUS
  <2>4. r \in Pipes /\ r.step = "closed" /\ r.unsent = << >> /\ r.target = p.target
        /\ r.produced = p.produced /\ r.got = g
    BY <2>1, <2>2, <2>3 DEF Pipes
  <2>5. QED
    BY <2>4 DEF g
<1> DEFINE all == RepliesTo(s) \o Forward!DataUpTo(p.produced)
<1>5. all \in Seq(Pieces)
  BY <1>1, Dataset, RepliesTyped, JoinIs
<1>6. Begins(p.target, DataOf(s, k)) /\ Begins(p.got \o p.unsent, all)
  BY DEF Sound
<1> HIDE DEF all
<1>7. Begins(p.got, all)
  BY <1>1, <1>5, <1>6, PartBegins
<1>8. Begins(p.got \o told, all)
  <2>1. p.got \o << >> = p.got
    BY <1>1, ConcatEmptySeq
  <2>2. QED
    BY <1>2, <1>6, <1>7, <2>1
<1>9. r.got \o r.unsent = p.got \o told
  <2>1. (p.got \o told) \o << >> = p.got \o told
    BY <1>3, ConcatEmptySeq
  <2>2. QED
    BY <1>4, <2>1
<1>10. Sound(r, s, k)
  BY <1>4, <1>6, <1>8, <1>9 DEF Sound, all
<1>11. QED
  BY <1>4, <1>10 DEF PipeInv

\* How two pieces compare with a buffer of at most two.
LEMMA Tests ==
    ASSUME NEW a \in Pieces, NEW b \in Pieces
    PROVE  /\ Forward!IsStrictPrefix(<< >>, <<a, b>>) /\ Forward!IsStrictPrefix(<<a>>, <<a, b>>)
           /\ ~Forward!IsStrictPrefix(<<a, b>>, <<a, b>>) /\ Forward!IsPrefix(<<a, b>>, <<a, b>>)
           /\ \A c \in Pieces : c # a => ~Forward!IsStrictPrefix(<<c>>, <<a, b>>)
                                         /\ ~Forward!IsPrefix(<<a, b>>, <<c>>)
<1>1. << >> \in Seq(Pieces) /\ <<a>> \in Seq(Pieces) /\ <<a, b>> \in Seq(Pieces)
  OBVIOUS
<1>2. Begins(<< >>, <<a, b>>) /\ Begins(<<a>>, <<a, b>>) /\ Begins(<<a, b>>, <<a, b>>)
  BY DEF Begins
<1>3. << >> # <<a, b>> /\ <<a>> # <<a, b>>
  OBVIOUS
<1>4. ASSUME NEW c \in Pieces, c # a
      PROVE  <<c>> \in Seq(Pieces) /\ ~Begins(<<c>>, <<a, b>>) /\ ~Begins(<<a, b>>, <<c>>)
  BY <1>4 DEF Begins
<1>5. QED
  <2>1. /\ Forward!IsPrefix(<< >>, <<a, b>>) /\ Forward!IsPrefix(<<a>>, <<a, b>>)
        /\ Forward!IsPrefix(<<a, b>>, <<a, b>>)
    BY <1>1, <1>2, PrefixIs
  <2>2. ASSUME NEW c \in Pieces, c # a
        PROVE  ~Forward!IsPrefix(<<c>>, <<a, b>>) /\ ~Forward!IsPrefix(<<a, b>>, <<c>>)
    BY <1>1, <1>4, <2>2, PrefixIs
  <2>3. QED
    BY <1>3, <2>1, <2>2 DEF Forward!IsStrictPrefix

\* What a handshake has of its client is no more than its first two pieces, and
\* what they are tells the scripts apart.
LEMMA Shaken ==
    /\ Forward!Greeting = <<Word("greeting", 1), Word("greeting", 2)>>
    /\ Forward!Request = <<Word("request", 1), Word("request", 2)>>
    /\ Word("greeting", 1) \in Pieces /\ Word("greeting", 2) \in Pieces
    /\ Word("request", 1) \in Pieces /\ Word("request", 2) \in Pieces
    /\ Word("bad", 1) \in Pieces /\ Word("refused", 0) \in Pieces
    /\ Word("accepted", 0) \in Pieces /\ Word("succeeded", 0) \in Pieces
    /\ Word("unsupported", 0) \in Pieces
    /\ Word("bad", 1) # Word("greeting", 1) /\ Word("bad", 1) # Word("request", 1)
  BY DEF Forward!Greeting, Forward!Request, Forward!Piece, Word, Pieces

\* Small sequences end to end.
LEMMA Pair ==
    ASSUME NEW a \in Pieces, NEW b \in Pieces
    PROVE  <<a>> \o <<b>> = <<a, b>> /\ Append(<<a>>, b) = <<a, b>>
<1>1. <<a>> \in Seq(Pieces) /\ <<b>> \in Seq(Pieces) /\ <<a, b>> \in Seq(Pieces)
  OBVIOUS
<1> DEFINE l == <<a>> \o <<b>>
           m == Append(<<a>>, b)
           r == <<a, b>>
<1>2. /\ l \in Seq(Pieces) /\ Len(l) = 2 /\ l[1] = a /\ l[2] = b
      /\ m \in Seq(Pieces) /\ Len(m) = 2 /\ m[1] = a /\ m[2] = b
      /\ r \in Seq(Pieces) /\ Len(r) = 2 /\ r[1] = a /\ r[2] = b
  BY <1>1
<1> HIDE DEF l, m, r
<1>3. \A i \in 1 .. 2 : l[i] = r[i] /\ m[i] = r[i]
  BY <1>2
<1>4. l = r
  <2>1. Len(l) = Len(r) /\ \A i \in 1 .. Len(l) : l[i] = r[i]
    BY <1>2, <1>3
  <2>2. QED
    BY <1>2, <2>1, SeqEqual
<1>5. m = r
  <2>1. Len(m) = Len(r) /\ \A i \in 1 .. Len(m) : m[i] = r[i]
    BY <1>2, <1>3
  <2>2. QED
    BY <1>2, <2>1, SeqEqual
<1>6. QED
  BY <1>4, <1>5 DEF l, m, r

LEMMA AppendJoin ==
    ASSUME NEW s \in Seq(Pieces), NEW t \in Seq(Pieces), NEW e \in Pieces
    PROVE  s \o Append(t, e) = Append(s \o t, e)
<1> DEFINE l == s \o Append(t, e)
           r == Append(s \o t, e)
<1>1. /\ l \in Seq(Pieces) /\ r \in Seq(Pieces) /\ Len(l) = Len(r)
      /\ \A i \in 1 .. Len(l) : l[i] = r[i]
  OBVIOUS
<1> HIDE DEF l, r
<1>2. l = r
  BY <1>1, SeqEqual
<1>3. QED
  BY <1>2 DEF l, r

\* A pipe that has taken all that its socket brought.
LEMMA Buffering ==
    ASSUME NEW p \in Pipes
    PROVE  /\ Forward!Buffered(p) \in Pipes
           /\ Forward!Buffered(p).unread = << >>
           /\ Forward!Buffered(p).socksBuf = p.socksBuf \o p.unread
           /\ Forward!Buffered(p).step = p.step /\ Forward!Buffered(p).unsent = p.unsent
           /\ Forward!Buffered(p).got = p.got /\ Forward!Buffered(p).target = p.target
           /\ Forward!Buffered(p).incoming = p.incoming
           /\ Forward!Buffered(p).produced = p.produced /\ Forward!Buffered(p).eof = p.eof
<1> DEFINE b == p.socksBuf \o p.unread
<1>1. p.socksBuf \in Seq(Pieces) /\ p.unread \in Seq(Pieces) /\ << >> \in Seq(Pieces)
  BY DEF Pipes
<1>2. b \in Seq(Pieces)
  BY <1>1, JoinIs
<1>3. Forward!Buffered(p) = [p EXCEPT !.socksBuf = b, !.unread = << >>]
  BY DEF Forward!Buffered, Pipes
<1> HIDE DEF b
<1>4. QED
  BY <1>1, <1>2, <1>3 DEF Pipes, b

\* A pipe that tells its client something.
LEMMA Telling ==
    ASSUME NEW p \in Pipes, NEW of \in {"accepted", "refused", "succeeded", "unsupported"}
    PROVE  /\ Forward!Tell(p, of) \in Pipes
           /\ Forward!Tell(p, of).unsent = Append(p.unsent, Word(of, 0))
           /\ Forward!Tell(p, of).unread = p.unread /\ Forward!Tell(p, of).socksBuf = p.socksBuf
           /\ Forward!Tell(p, of).step = p.step /\ Forward!Tell(p, of).got = p.got
           /\ Forward!Tell(p, of).target = p.target /\ Forward!Tell(p, of).incoming = p.incoming
           /\ Forward!Tell(p, of).produced = p.produced /\ Forward!Tell(p, of).eof = p.eof
<1> DEFINE u == Append(p.unsent, Word(of, 0))
<1>1. p.unsent \in Seq(Pieces) /\ Word(of, 0) \in Pieces
  BY DEF Pipes, Word, Pieces
<1>2. u \in Seq(Pieces)
  BY <1>1, AppendProperties
<1>3. Forward!Tell(p, of) = [p EXCEPT !.unsent = u]
  BY DEF Forward!Tell, Forward!Reply, Forward!Piece, Word, Pipes
<1> HIDE DEF u
<1>4. QED
  BY <1>2, <1>3 DEF Pipes, u

\* A greeting in pieces: the pipe waits for the rest, goes on to the request or
\* refuses the client.
LEMMA GreetingKept ==
    ASSUME NEW s \in Forward!Scripts, NEW k \in Nat, NEW p, PipeInv(p, s, k),
           p.step = "greeting", p.unread # << >>, NEW q \in Forward!HandleSocks(p)
    PROVE  PipeInv(q, s, k) /\ q.step # "relay"
<1>1. /\ p \in Pipes /\ k \in 0 .. Len(s) /\ s # Local /\ Idle(p)
      /\ p.got = << >> /\ p.unsent = << >> /\ Partly(p, s, k, 0, Forward!Greeting)
  BY DEF PipeInv
<1>2. PICK r \in Forward!Greeted(Forward!Buffered(p)) :
         q \in IF r.step = "request" THEN Forward!Requested(r) ELSE {r}
  BY DEF Forward!HandleSocks
<1> DEFINE b == Forward!Buffered(p)
           g == Word("greeting", 1)
           h == Word("greeting", 2)
<1>3. /\ b \in Pipes /\ b.unread = << >> /\ b.step = "greeting" /\ Idle(b)
      /\ b.got = << >> /\ b.unsent = << >> /\ b.socksBuf = p.socksBuf \o p.unread
  BY <1>1, Buffering DEF Idle
<1>4. g \in Pieces /\ h \in Pieces /\ Forward!Greeting = <<g, h>>
  BY Shaken
<1>5. s \in {Socks, Forward!Bad, Unasked}
  BY <1>1, ScriptKinds
<1>6. /\ s[1] \in Pieces /\ (s # Forward!Bad => s[1] = g /\ s[2] = h)
      /\ (s = Forward!Bad => Len(s) = 1 /\ s[1] = Word("bad", 1))
  BY <1>4, <1>5, ScriptShapes, Shaken
<1> HIDE DEF b, g, h
<1>7. CASE k = 1 /\ p.socksBuf = << >> /\ p.unread = <<s[1]>> /\ s # Forward!Bad
  <2>1. b.socksBuf = <<g>>
    BY <1>3, <1>6, <1>7
  <2>2. Forward!Incomplete(b, Forward!Greeting)
    BY <1>4, <2>1, Tests DEF Forward!Incomplete
  <2>3. r = b
    BY <1>2, <2>2 DEF Forward!Greeted, b
  <2>4. q = b
    BY <1>2, <1>3, <2>3
  <2>5. Partly(b, s, k, 0, Forward!Greeting)
    BY <1>3, <1>4, <1>6, <1>7, <2>1 DEF Partly
  <2>6. QED
    BY <1>1, <1>3, <2>4, <2>5 DEF PipeInv
<1>8. CASE k = 1 /\ p.socksBuf = << >> /\ p.unread = <<s[1]>> /\ s = Forward!Bad
  <2>1. b.socksBuf = <<Word("bad", 1)>>
    BY <1>3, <1>6, <1>8
  <2>2. ~Forward!Incomplete(b, Forward!Greeting) /\ ~Forward!IsPrefix(Forward!Greeting, b.socksBuf)
    <3> DEFINE x == Word("bad", 1)
    <3>1. x \in Pieces /\ x # g /\ b.socksBuf = <<x>>
      BY <2>1, Shaken DEF g
    <3> HIDE DEF x
    <3>2. ~Forward!IsStrictPrefix(<<x>>, <<g, h>>) /\ ~Forward!IsPrefix(<<g, h>>, <<x>>)
      BY <1>4, <3>1, Tests
    <3>3. QED
      BY <1>4, <3>1, <3>2 DEF Forward!Incomplete
  <2> DEFINE t == Forward!Tell(b, "refused")
  <2>3. r \in Forward!Closings(t)
    BY <1>2, <2>2 DEF Forward!Greeted, b
  <2>4. /\ t \in Pipes /\ t.target = << >> /\ t.got = << >> /\ t.produced = 0
        /\ t.unsent = Append(<< >>, Word("refused", 0))
    BY <1>3, Telling DEF Idle
  <2> HIDE DEF t
  <2>5. t.got \o t.unsent = <<Word("refused", 0)>>
    BY <2>4, Shaken
  <2>6. Sound(t, s, k)
    <3> DEFINE w == <<Word("refused", 0)>>
               d == Forward!DataUpTo(t.produced)
    <3>1. w \in Seq(Pieces) /\ d \in Seq(Pieces) /\ DataOf(s, k) \in Seq(Pieces)
      BY <1>1, <2>4, Shaken, Dataset, DataTyped
    <3>2. RepliesTo(s) = w /\ t.got \o t.unsent = w
      BY <1>8, <2>5, RepliesTyped
    <3> HIDE DEF w, d
    <3>3. Begins(w, w)
      BY <3>1, BeginsItself
    <3>4. Begins(w, w \o d)
      BY <3>1, <3>3, BeginsMore
    <3>5. Begins(<< >>, DataOf(s, k))
      BY <3>1, BeginsItself
    <3>6. QED
      BY <2>4, <3>2, <3>4, <3>5 DEF Sound, d
  <2>7. PipeInv(r, s, k) /\ r.step = "closed"
    BY <1>1, <2>3, <2>4, <2>6, ClosingsRight
  <2>8. q = r
    BY <1>2, <2>7
  <2>9. QED
    BY <2>7, <2>8
<1>9. CASE k = 2 /\ b.socksBuf = <<g, h>> /\ s # Forward!Bad
  <2>1. ~Forward!Incomplete(b, Forward!Greeting) /\ Forward!IsPrefix(Forward!Greeting, b.socksBuf)
    BY <1>4, <1>9, Tests DEF Forward!Incomplete
  <2> DEFINE t == Forward!Tell(b, "accepted")
             a == Word("accepted", 0)
  <2>2. r = [t EXCEPT !.step = "request", !.socksBuf = Forward!Rest(b)]
    BY <1>2, <2>1 DEF Forward!Greeted, b
  <2>3. /\ t \in Pipes /\ Idle(t) /\ t.got = << >> /\ t.unsent = Append(<< >>, a)
        /\ t.unread = << >>
    BY <1>3, Telling DEF Idle
  <2>4. Forward!Rest(b) = << >>
    BY <1>9 DEF Forward!Rest
  <2> HIDE DEF t
  <2>5. /\ r \in Pipes /\ r.step = "request" /\ r.socksBuf = << >> /\ r.unread = << >>
        /\ r.got = << >> /\ r.unsent = Append(<< >>, a) /\ Idle(r)
    BY <2>2, <2>3, <2>4 DEF Pipes, Idle
  <2>6. r.got \o r.unsent = Accepted
    BY <2>5, Shaken DEF Accepted
  <2>7. Forward!Incomplete(r, Forward!Request)
    <3> DEFINE x == Word("request", 1)
               y == Word("request", 2)
    <3>1. x \in Pieces /\ y \in Pieces /\ Forward!Request = <<x, y>>
      BY Shaken
    <3> HIDE DEF x, y
    <3>2. Forward!IsStrictPrefix(<< >>, <<x, y>>)
      BY <3>1, Tests
    <3>3. QED
      BY <2>5, <3>1, <3>2 DEF Forward!Incomplete
  <2>8. q = r
    BY <1>2, <2>5, <2>7 DEF Forward!Requested
  <2>9. Partly(r, s, k, 2, Forward!Request)
    BY <1>9, <2>5 DEF Partly
  <2>10. QED
    BY <1>1, <1>5, <1>9, <2>5, <2>6, <2>8, <2>9 DEF PipeInv
<1>10. \/ k = 1 /\ p.socksBuf = << >> /\ p.unread = <<s[1]>>
       \/ k = 2 /\ b.socksBuf = <<g, h>> /\ s # Forward!Bad
  <2>1. CASE k = 1 /\ p.socksBuf = << >> /\ p.unread = <<s[1]>>
    BY <2>1
  <2>2. CASE k = 2 /\ p.socksBuf = << >> /\ p.unread = <<s[1], s[2]>>
    <3>1. s # Forward!Bad
      BY <1>1, <1>6, <2>2
    <3>2. b.socksBuf = <<g, h>>
      BY <1>3, <1>4, <1>6, <2>2, <3>1
    <3>3. QED
      BY <2>2, <3>1, <3>2
  <2>3. CASE k = 2 /\ p.socksBuf = <<g>> /\ p.unread = <<s[2]>>
    <3>1. s # Forward!Bad
      BY <1>1, <1>6, <2>3
    <3>2. b.socksBuf = <<g>> \o <<h>>
      BY <1>3, <1>6, <2>3, <3>1
    <3>3. <<g>> \o <<h>> = <<g, h>>
      BY <1>4, Pair
    <3>4. QED
      BY <2>3, <3>1, <3>2, <3>3
  <2>4. Forward!Greeting[1] = g
    BY <1>4
  <2>5. QED
    BY <1>1, <2>1, <2>2, <2>3, <2>4 DEF Partly
<1>11. QED
  BY <1>7, <1>8, <1>9, <1>10

\* A request in pieces: the pipe waits for the rest, relays from now on or tells
\* the client that the proxy cannot do it.
LEMMA RequestKept ==
    ASSUME NEW s \in Forward!Scripts, NEW k \in Nat, NEW p, PipeInv(p, s, k),
           p.step = "request", p.unread # << >>, NEW q \in Forward!HandleSocks(p)
    PROVE  PipeInv(q, s, k)
<1>1. /\ p \in Pipes /\ k \in 0 .. Len(s) /\ s \in {Socks, Unasked} /\ Idle(p)
      /\ p.got \o p.unsent = Accepted /\ Partly(p, s, k, 2, Forward!Request)
  BY DEF PipeInv
<1> DEFINE b == Forward!Buffered(p)
           g == Word("request", 1)
           h == Word("request", 2)
<1>2. /\ b \in Pipes /\ b.unread = << >> /\ b.step = "request" /\ Idle(b)
      /\ b.got = p.got /\ b.unsent = p.unsent /\ b.socksBuf = p.socksBuf \o p.unread
  BY <1>1, Buffering DEF Idle
<1>3. q \in Forward!Requested(b)
  BY <1>2 DEF Forward!HandleSocks
<1>4. g \in Pieces /\ h \in Pieces /\ Forward!Request = <<g, h>>
  BY Shaken
<1>5. /\ s[3] \in Pieces /\ (s = Socks => s[3] = g /\ s[4] = h)
      /\ (s = Unasked => Len(s) = 3 /\ s[3] = Word("bad", 1))
  BY <1>1, <1>4, ScriptShapes, Shaken
<1>6. b.got \in Seq(Pieces) /\ b.unsent \in Seq(Pieces) /\ b.produced = 0 /\ b.target = << >>
  BY <1>2 DEF Pipes, Idle
<1> HIDE DEF b, g, h
<1>7. CASE k = 3 /\ p.socksBuf = << >> /\ p.unread = <<s[3]>> /\ s = Socks
  <2>1. b.socksBuf = <<g>>
    BY <1>2, <1>5, <1>7
  <2>2. Forward!Incomplete(b, Forward!Request)
    BY <1>4, <2>1, Tests DEF Forward!Incomplete
  <2>3. q = b
    BY <1>3, <2>2 DEF Forward!Requested
  <2>4. Partly(b, s, k, 2, Forward!Request)
    BY <1>2, <1>4, <1>5, <1>7, <2>1 DEF Partly
  <2>5. QED
    BY <1>1, <1>2, <2>3, <2>4 DEF PipeInv
<1>8. CASE k = 3 /\ p.socksBuf = << >> /\ p.unread = <<s[3]>> /\ s = Unasked
  <2> DEFINE x == Word("bad", 1)
             t == Forward!Tell(b, "unsupported")
             u == Word("unsupported", 0)
             a == Word("accepted", 0)
  <2>1. x \in Pieces /\ x # g /\ b.socksBuf = <<x>> /\ u \in Pieces /\ a \in Pieces
    BY <1>2, <1>5, <1>8, Shaken DEF g
  <2>2. ~Forward!Incomplete(b, Forward!Request) /\ ~Forward!IsPrefix(Forward!Request, b.socksBuf)
    <3> HIDE DEF x
    <3>1. ~Forward!IsStrictPrefix(<<x>>, <<g, h>>) /\ ~Forward!IsPrefix(<<g, h>>, <<x>>)
      BY <1>4, <2>1, Tests
    <3>2. QED
      BY <1>4, <2>1, <3>1 DEF Forward!Incomplete
  <2>3. q \in Forward!Closings(t)
    BY <1>3, <2>2 DEF Forward!Requested
  <2>4. /\ t \in Pipes /\ t.target = << >> /\ t.got = b.got /\ t.produced = 0
        /\ t.unsent = Append(b.unsent, u)
    BY <1>2, <1>6, Telling
  <2> HIDE DEF t, u, x
  <2>5. t.got \o t.unsent = Append(b.got \o b.unsent, u)
    BY <1>6, <2>1, <2>4, AppendJoin
  <2>6. b.got \o b.unsent = <<a>>
    BY <1>1, <1>2 DEF Accepted
  <2> HIDE DEF a
  <2>7. t.got \o t.unsent = <<a, u>>
    BY <2>1, <2>5, <2>6, Pair
  <2>8. RepliesTo(s) = <<a, u>>
    BY <1>8, RepliesTyped DEF a, u
  <2>9. Sound(t, s, k)
    <3> DEFINE w == <<a, u>>
               d == Forward!DataUpTo(t.produced)
    <3>1. w \in Seq(Pieces) /\ d \in Seq(Pieces) /\ DataOf(s, k) \in Seq(Pieces)
      BY <1>1, <2>1, <2>4, Dataset, DataTyped
    <3>2. RepliesTo(s) = w /\ t.got \o t.unsent = w
      BY <2>7, <2>8
    <3> HIDE DEF w, d
    <3>3. Begins(w, w)
      BY <3>1, BeginsItself
    <3>4. Begins(w, w \o d)
      BY <3>1, <3>3, BeginsMore
    <3>5. Begins(<< >>, DataOf(s, k))
      BY <3>1, BeginsItself
    <3>6. QED
      BY <2>4, <3>2, <3>4, <3>5 DEF Sound, d
  <2>10. QED
    BY <1>1, <2>3, <2>4, <2>9, ClosingsRight
<1>9. CASE k = 4 /\ b.socksBuf = <<g, h>> /\ s = Socks
  <2>1. ~Forward!Incomplete(b, Forward!Request) /\ Forward!IsPrefix(Forward!Request, b.socksBuf)
    BY <1>4, <1>9, Tests DEF Forward!Incomplete
  <2> DEFINE t == Forward!Tell(b, "succeeded")
             u == Word("succeeded", 0)
             a == Word("accepted", 0)
  <2>2. q = [t EXCEPT !.step = "relay", !.socksBuf = << >>]
    BY <1>3, <2>1 DEF Forward!Requested
  <2>3. /\ t \in Pipes /\ t.target = << >> /\ t.got = b.got /\ t.produced = 0
        /\ t.unsent = Append(b.unsent, u) /\ t.unread = << >> /\ t.incoming = << >>
    BY <1>2, <1>6, Telling DEF Idle
  <2>4. u \in Pieces /\ a \in Pieces
    BY Shaken
  <2> HIDE DEF t, u
  <2>5. /\ q \in Pipes /\ q.step = "relay" /\ q.unread = << >> /\ q.target = << >>
        /\ q.incoming = << >> /\ q.produced = 0 /\ q.got = b.got /\ q.unsent = Append(b.unsent, u)
    BY <2>2, <2>3 DEF Pipes
  <2>6. q.got \o q.unsent = Append(b.got \o b.unsent, u)
    BY <1>6, <2>4, <2>5, AppendJoin
  <2>7. b.got \o b.unsent = <<a>>
    BY <1>1, <1>2 DEF Accepted
  <2> HIDE DEF a
  <2>8. q.got \o q.unsent = <<a, u>>
    BY <2>4, <2>6, <2>7, Pair
  <2>9. RepliesTo(s) = <<a, u>>
    BY <1>9, RepliesTyped DEF a, u
  <2>10. (q.got \o q.unsent) \o q.incoming = RepliesTo(s) \o Forward!DataUpTo(q.produced)
    <3>1. Forward!DataUpTo(0) = << >>
      <4>1. Forward!DataUpTo(0) \in Seq(Pieces) /\ Len(Forward!DataUpTo(0)) = 0
        BY Dataset
      <4>2. QED
        BY <4>1, EmptySeq
    <3>2. QED
      BY <2>5, <2>8, <2>9, <3>1
  <2>11. q.target \o q.unread = DataOf(s, k)
    <3>1. DataOf(s, k) = << >>
      BY <1>1, <1>9, DataTyped, ScriptKinds
    <3>2. QED
      BY <2>5, <3>1
  <2>12. QED
    <3>1. k >= 4
      BY <1>9
    <3>2. QED
      BY <1>1, <1>9, <2>5, <2>10, <2>11, <3>1 DEF PipeInv
<1>10. \/ k = 3 /\ p.socksBuf = << >> /\ p.unread = <<s[3]>>
       \/ k = 4 /\ b.socksBuf = <<g, h>> /\ s = Socks
  <2>0. k = 4 => s = Socks
    <3>1. s = Unasked => Len(s) = 3
      BY <1>5
    <3>2. s = Unasked => k \in 0 .. 3
      BY <1>1, <3>1
    <3>3. QED
      BY <1>1, <3>2
  <2>1. CASE k = 3 /\ p.socksBuf = << >> /\ p.unread = <<s[3]>>
    BY <2>1
  <2>2. CASE k = 4 /\ p.socksBuf = << >> /\ p.unread = <<s[3], s[4]>>
    BY <1>2, <1>4, <1>5, <2>0, <2>2
  <2>3. CASE k = 4 /\ p.socksBuf = <<g>> /\ p.unread = <<s[4]>>
    <3>1. b.socksBuf = <<g>> \o <<h>>
      BY <1>2, <1>5, <2>0, <2>3
    <3>2. <<g>> \o <<h>> = <<g, h>>
      BY <1>4, Pair
    <3>3. QED
      BY <2>0, <2>3, <3>1, <3>2
  <2>4. Forward!Request[1] = g
    BY <1>4
  <2>5. QED
    BY <1>1, <2>1, <2>2, <2>3, <2>4 DEF Partly
<1>11. QED
  BY <1>1, <1>7, <1>8, <1>9, <1>10

\* What the fields of a pipe are.
LEMMA PipeFields ==
    ASSUME NEW p \in Pipes
    PROVE  /\ p.step \in {"absent", "greeting", "request", "relay", "closed"}
           /\ p.unread \in Seq(Pieces) /\ p.socksBuf \in Seq(Pieces) /\ p.unsent \in Seq(Pieces)
           /\ p.got \in Seq(Pieces) /\ p.target \in Seq(Pieces) /\ p.incoming \in Seq(Pieces)
           /\ p.produced \in Nat /\ p.eof \in BOOLEAN /\ << >> \in Seq(Pieces)
  BY DEF Pipes

LEMMA JoinJoin ==
    ASSUME NEW s \in Seq(Pieces), NEW t \in Seq(Pieces), NEW u \in Seq(Pieces)
    PROVE  (s \o t) \o u = s \o (t \o u)
  BY ConcatAssociative

LEMMA HeadMoves ==
    ASSUME NEW s \in Seq(Pieces), NEW t \in Seq(Pieces), t # << >>
    PROVE  Append(s, Head(t)) \o Tail(t) = s \o t
<1> DEFINE a == Append(s, Head(t))
           b == Tail(t)
<1>1. /\ a \in Seq(Pieces) /\ Len(a) = Len(s) + 1 /\ b \in Seq(Pieces) /\ Len(b) = Len(t) - 1
      /\ \A i \in 1 .. Len(s) : a[i] = s[i]
      /\ a[Len(s) + 1] = t[1]
      /\ \A i \in 1 .. Len(t) - 1 : b[i] = t[i + 1]
      /\ Len(s) \in Nat /\ Len(t) \in Nat \ {0}
  OBVIOUS
<1> HIDE DEF a, b
<1>2. /\ a \o b \in Seq(Pieces) /\ Len(a \o b) = Len(s) + Len(t)
      /\ \A i \in 1 .. Len(s) + Len(t) : (a \o b)[i] = IF i <= Len(s) + 1 THEN a[i] ELSE b[i - (Len(s) + 1)]
  <2>1. /\ a \o b \in Seq(Pieces) /\ Len(a \o b) = Len(a) + Len(b)
        /\ \A i \in 1 .. Len(a) + Len(b) : (a \o b)[i] = IF i <= Len(a) THEN a[i] ELSE b[i - Len(a)]
    BY <1>1, ConcatProperties
  <2>2. Len(a) + Len(b) = Len(s) + Len(t) /\ Len(a) = Len(s) + 1
    BY <1>1
  <2>3. QED
    BY ONLY <2>1, <2>2
<1>3. /\ s \o t \in Seq(Pieces) /\ Len(s \o t) = Len(s) + Len(t)
      /\ \A i \in 1 .. Len(s) + Len(t) : (s \o t)[i] = IF i <= Len(s) THEN s[i] ELSE t[i - Len(s)]
  BY ConcatProperties
<1> DEFINE x == a \o b
           y == s \o t
<1> HIDE DEF x, y
<1>4. \A i \in 1 .. Len(x) : x[i] = y[i]
  <2> TAKE i \in 1 .. Len(x)
  <2>1. i \in 1 .. Len(s) + Len(t)
    BY <1>2 DEF x
  <2>2. CASE i <= Len(s)
    BY <1>1, <1>2, <1>3, <2>1, <2>2 DEF x, y
  <2>3. CASE i = Len(s) + 1
    <3>1. x[i] = t[1] /\ y[i] = t[i - Len(s)] /\ i - Len(s) = 1
      BY <1>1, <1>2, <1>3, <2>1, <2>3 DEF x, y
    <3>2. QED
      BY <3>1
  <2>4. CASE i > Len(s) + 1
    <3> DEFINE j == i - (Len(s) + 1)
    <3>1. j \in 1 .. Len(t) - 1 /\ i - Len(s) = j + 1
      BY <1>1, <2>1, <2>4
    <3>2. x[i] = b[j] /\ y[i] = t[i - Len(s)]
      BY <1>1, <1>2, <1>3, <2>1, <2>4 DEF x, y
    <3> HIDE DEF j
    <3>3. QED
      BY <1>1, <3>1, <3>2
  <2>5. QED
    BY <1>1, <2>1, <2>2, <2>3, <2>4
<1>5. x = y
  BY <1>2, <1>3, <1>4, SeqEqual DEF x, y
<1>6. QED
  BY <1>5 DEF x, y, a, b

\* The channel takes a piece of the client's data.
LEMMA WrittenKept ==
    ASSUME NEW s \in Forward!Scripts, NEW k \in Nat, NEW p, PipeInv(p, s, k),
           p.step = "relay", p.unread # << >>
    PROVE  /\ PipeInv(Forward!ToChannel(p), s, k) /\ Forward!ToChannel(p).step = "relay"
           /\ Len(Forward!ToChannel(p).unread) = Len(p.unread) - 1
<1>1. /\ p \in Pipes /\ k \in 0 .. Len(s) /\ (s = Local \/ (s = Socks /\ k >= 4))
      /\ p.target \o p.unread = DataOf(s, k)
      /\ (p.got \o p.unsent) \o p.incoming = RepliesTo(s) \o Forward!DataUpTo(p.produced)
  BY DEF PipeInv
<1>2. p.unread \in Seq(Pieces) /\ p.target \in Seq(Pieces)
  BY <1>1, PipeFields
<1> DEFINE e == Head(p.unread)
           rest == Tail(p.unread)
           t == Append(p.target, e)
           q == [p EXCEPT !.target = t, !.unread = rest]
<1>3. e \in Pieces /\ rest \in Seq(Pieces) /\ Len(rest) = Len(p.unread) - 1 /\ t \in Seq(Pieces)
  BY <1>2
<1>4. t \o rest = p.target \o p.unread
  BY <1>2, HeadMoves
<1>5. Forward!ToChannel(p) = q
  BY <1>1 DEF Forward!ToChannel, Pipes
<1> HIDE DEF e, rest, t
<1>6. /\ q \in Pipes /\ q.step = "relay" /\ q.target = t /\ q.unread = rest
      /\ q.unsent = p.unsent /\ q.incoming = p.incoming /\ q.got = p.got /\ q.produced = p.produced
  BY <1>1, <1>2, <1>3 DEF Pipes
<1> HIDE DEF q
<1>7. PipeInv(q, s, k)
  BY <1>1, <1>4, <1>6 DEF PipeInv
<1>8. QED
  BY <1>3, <1>5, <1>6, <1>7

\* What the channel holds comes to the client's socket, and its end closes the pipe.
LEMMA ReadKept ==
    ASSUME NEW s \in Forward!Scripts, NEW k \in Nat, NEW p, PipeInv(p, s, k),
           p.step = "relay", NEW r \in Forward!FromChannel(p)
    PROVE  PipeInv(r, s, k)
<1>1. /\ p \in Pipes /\ k \in 0 .. Len(s) /\ (s = Local \/ (s = Socks /\ k >= 4))
      /\ p.target \o p.unread = DataOf(s, k)
      /\ (p.got \o p.unsent) \o p.incoming = RepliesTo(s) \o Forward!DataUpTo(p.produced)
  BY DEF PipeInv
<1>2. /\ p.unsent \in Seq(Pieces) /\ p.got \in Seq(Pieces)
      /\ p.incoming \in Seq(Pieces) /\ << >> \in Seq(Pieces)
  BY <1>1, PipeFields
<1> DEFINE u == p.unsent \o p.incoming
           q == [p EXCEPT !.unsent = u, !.incoming = << >>]
<1>3. u \in Seq(Pieces)
  BY <1>2, JoinIs
<1>4. r \in IF p.eof THEN Forward!Closings(q) ELSE {q}
  <2>1. [p EXCEPT !.unsent = @ \o p.incoming, !.incoming = << >>] = q
    BY <1>1 DEF Pipes
  <2> HIDE DEF q, u
  <2>2. QED
    BY <2>1 DEF Forward!FromChannel
<1> HIDE DEF u
<1>5. /\ q \in Pipes /\ q.step = "relay" /\ q.target = p.target /\ q.unread = p.unread
      /\ q.unsent = u /\ q.incoming = << >> /\ q.got = p.got /\ q.produced = p.produced
  BY <1>1, <1>2, <1>3 DEF Pipes
<1> HIDE DEF q
<1>6. q.target \o q.unread = DataOf(s, k)
  BY <1>1, <1>5
<1>7. (q.got \o q.unsent) \o q.incoming = RepliesTo(s) \o Forward!DataUpTo(q.produced)
  <2>1. p.got \o u = (p.got \o p.unsent) \o p.incoming
    BY <1>2, JoinJoin, ZenonT(30) DEF u
  <2>2. (p.got \o u) \o << >> = p.got \o u
    <3>1. p.got \o u \in Seq(Pieces)
      BY <1>2, <1>3, JoinIs
    <3>2. QED
      BY <3>1, ConcatEmptySeq
  <2>3. QED
    BY <1>1, <1>5, <2>1, <2>2
<1>8. PipeInv(q, s, k)
  BY <1>1, <1>5, <1>6, <1>7 DEF PipeInv
<1>9. CASE p.eof
  <2>1. q \in Pipes /\ Sound(q, s, k)
    BY <1>5, <1>8, LiveSound
  <2>2. QED
    BY <1>1, <1>4, <1>9, <2>1, ClosingsRight
<1>10. CASE ~p.eof
  BY <1>4, <1>8, <1>10
<1>11. QED
  BY <1>9, <1>10

\* Closing a pipe, alive or not.
LEMMA ClosedKept ==
    ASSUME NEW s \in Forward!Scripts, NEW k \in Nat, NEW p, PipeInv(p, s, k),
           NEW r \in Forward!Closed(p)
    PROVE  PipeInv(r, s, k)
<1>1. CASE Forward!Live(p)
  <2>1. r \in Forward!Closings(p) /\ p.step # "absent"
    BY <1>1 DEF Forward!Closed, Forward!Live
  <2>2. p \in Pipes /\ Sound(p, s, k) /\ k \in 0 .. Len(s)
    BY <2>1, LiveSound DEF PipeInv
  <2>3. QED
    BY <2>1, <2>2, ClosingsRight
<1>2. CASE ~Forward!Live(p)
  BY <1>2 DEF Forward!Closed
<1>3. QED
  BY <1>1, <1>2

\* The socket sends what it holds.
Flushed(p, r) == r = [p EXCEPT !.got = @ \o p.unsent, !.unsent = << >>]
LEMMA FlushKept ==
    ASSUME NEW s \in Forward!Scripts, NEW k \in Nat, NEW p, PipeInv(p, s, k),
           Forward!Live(p), p.unsent # << >>, NEW r, Flushed(p, r)
    PROVE  PipeInv(r, s, k)
<1>1. p \in Pipes /\ k \in 0 .. Len(s)
  BY DEF PipeInv
<1>2. /\ p.unsent \in Seq(Pieces) /\ p.got \in Seq(Pieces) /\ << >> \in Seq(Pieces)
      /\ p.step \in {"absent", "greeting", "request", "relay", "closed"}
  BY <1>1, PipeFields
<1> DEFINE g == p.got \o p.unsent
           q == [p EXCEPT !.got = g, !.unsent = << >>]
<1>3. g \in Seq(Pieces) /\ g \o << >> = g
  <2>1. g \in Seq(Pieces)
    BY <1>2, JoinIs
  <2> HIDE DEF g
  <2>2. QED
    BY <2>1, ConcatEmptySeq
<1>4. r = q
  BY <1>1 DEF Pipes, Flushed
<1> HIDE DEF g
<1>5. /\ q \in Pipes /\ q.got = g /\ q.unsent = << >> /\ q.step = p.step /\ q.unread = p.unread
      /\ q.socksBuf = p.socksBuf /\ q.target = p.target /\ q.incoming = p.incoming
      /\ q.produced = p.produced /\ q.eof = p.eof
  BY <1>1, <1>2, <1>3 DEF Pipes
<1> HIDE DEF q
<1>6. q.got \o q.unsent = p.got \o p.unsent
  BY <1>3, <1>5 DEF g
<1>7. p.step \in {"request", "relay"}
  BY <1>2 DEF PipeInv, Forward!Live
<1>8. CASE p.step = "request"
  <2>1. /\ s \in {Socks, Unasked} /\ Idle(p) /\ p.got \o p.unsent = Accepted
        /\ Partly(p, s, k, 2, Forward!Request)
    BY <1>8 DEF PipeInv
  <2>2. Idle(q) /\ Partly(q, s, k, 2, Forward!Request) /\ q.got \o q.unsent = Accepted
    <3>1. Idle(q)
      BY <1>5, <2>1 DEF Idle
    <3>2. Partly(q, s, k, 2, Forward!Request)
      BY <1>5, <2>1 DEF Partly
    <3>3. QED
      BY <1>6, <2>1, <3>1, <3>2
  <2>3. QED
    BY <1>1, <1>4, <1>5, <1>8, <2>1, <2>2 DEF PipeInv
<1>9. CASE p.step = "relay"
  <2>1. /\ s = Local \/ (s = Socks /\ k >= 4)
        /\ p.target \o p.unread = DataOf(s, k)
        /\ (p.got \o p.unsent) \o p.incoming = RepliesTo(s) \o Forward!DataUpTo(p.produced)
    BY <1>9 DEF PipeInv
  <2>2. /\ q.target \o q.unread = DataOf(s, k)
        /\ (q.got \o q.unsent) \o q.incoming = RepliesTo(s) \o Forward!DataUpTo(q.produced)
    BY <1>5, <1>6, <2>1
  <2>3. QED
    BY <1>1, <1>4, <1>5, <1>9, <2>1, <2>2 DEF PipeInv
<1>10. QED
  BY <1>7, <1>8, <1>9

\* The data that a target has sent, with one piece more.
LEMMA DataMore ==
    ASSUME NEW n \in Nat
    PROVE  Append(Forward!DataUpTo(n), Word("data", n + 1)) = Forward!DataUpTo(n + 1)
<1> DEFINE d == Forward!DataUpTo(n)
           e == Forward!DataUpTo(n + 1)
           w == Word("data", n + 1)
           a == Append(d, w)
<1>1. /\ d \in Seq(Pieces) /\ Len(d) = n /\ \A i \in 1 .. n : d[i] = Word("data", i)
      /\ w \in Pieces
  <2>1. w \in Pieces
    BY DEF Word, Pieces
  <2>2. d \in Seq(Pieces) /\ Len(d) = n /\ \A i \in 1 .. n : d[i] = Word("data", i)
    BY Dataset
  <2>3. QED
    BY <2>1, <2>2
<1>2. n + 1 \in Nat /\ e \in Seq(Pieces) /\ Len(e) = n + 1 /\ \A i \in 1 .. n + 1 : e[i] = Word("data", i)
  BY Dataset
<1> HIDE DEF d, e
<1>3. /\ a \in Seq(Pieces) /\ Len(a) = n + 1 /\ a[n + 1] = w /\ \A i \in 1 .. n : a[i] = d[i]
  <2>1. /\ a \in Seq(Pieces) /\ Len(a) = Len(d) + 1 /\ a[Len(d) + 1] = w
        /\ \A i \in 1 .. Len(d) : a[i] = d[i]
    BY <1>1, AppendProperties
  <2>2. QED
    BY <1>1, <2>1
<1> HIDE DEF a
<1>4. \A i \in 1 .. n + 1 : a[i] = e[i]
  <2> TAKE i \in 1 .. n + 1
  <2>1. i \in 1 .. n \/ i = n + 1
    OBVIOUS
  <2>2. QED
    BY <1>1, <1>2, <1>3, <2>1
<1>5. Len(a) = Len(e) /\ \A i \in 1 .. Len(a) : a[i] = e[i]
  BY <1>2, <1>3, <1>4
<1>6. a = e
  BY <1>2, <1>3, <1>5, SeqEqual
<1>7. QED
  BY <1>6 DEF a, d, e, w

\* A piece of the script that arrives goes to the end of what the pipe has not read.
LEMMA Arriving ==
    ASSUME NEW p \in Pipes, NEW e \in Pieces
    PROVE  /\ [p EXCEPT !.unread = Append(@, e)] \in Pipes
           /\ [p EXCEPT !.unread = Append(@, e)].unread = Append(p.unread, e)
           /\ [p EXCEPT !.unread = Append(@, e)].step = p.step
           /\ [p EXCEPT !.unread = Append(@, e)].socksBuf = p.socksBuf
           /\ [p EXCEPT !.unread = Append(@, e)].unsent = p.unsent
           /\ [p EXCEPT !.unread = Append(@, e)].got = p.got
           /\ [p EXCEPT !.unread = Append(@, e)].target = p.target
           /\ [p EXCEPT !.unread = Append(@, e)].incoming = p.incoming
           /\ [p EXCEPT !.unread = Append(@, e)].produced = p.produced
           /\ [p EXCEPT !.unread = Append(@, e)].eof = p.eof
<1> DEFINE u == Append(p.unread, e)
<1>1. p.unread \in Seq(Pieces)
  BY PipeFields
<1>2. u \in Seq(Pieces)
  BY <1>1, AppendProperties
<1>3. [p EXCEPT !.unread = Append(@, e)] = [p EXCEPT !.unread = u]
  BY DEF Pipes
<1> HIDE DEF u
<1>4. QED
  BY <1>2, <1>3 DEF Pipes, u

\* One more piece of a greeting or request.
LEMMA PartlyMore ==
    ASSUME NEW s \in Forward!Scripts, NEW from \in {0, 2}, NEW k \in Nat, NEW what,
           k < Len(s), k < from + 2, NEW p \in Pipes, Partly(p, s, k, from, what), NEW q,
           q.socksBuf = p.socksBuf, q.unread = Append(p.unread, s[k + 1])
    PROVE  Partly(q, s, k + 1, from, what)
<1>1. s[k + 1] \in Pieces /\ (k > from => s[from + 1] \in Pieces)
  <2>1. s \in Seq(Pieces) /\ Len(s) \in Nat
    BY ScriptShapes, ScriptKinds, LenProperties
  <2>2. k + 1 \in 1 .. Len(s) /\ (k > from => from + 1 \in 1 .. Len(s))
    BY <2>1
  <2>3. QED
    BY <2>1, <2>2, ElementOfSeq
<1>2. Append(<< >>, s[k + 1]) = <<s[k + 1]>>
  OBVIOUS
<1>3. CASE k = from /\ p.socksBuf = << >> /\ p.unread = << >>
  BY <1>2, <1>3 DEF Partly
<1>4. CASE k = from + 1 /\ p.socksBuf = << >> /\ p.unread = <<s[from + 1]>>
  <2>1. k + 1 = from + 2
    BY <1>4
  <2> DEFINE a == s[from + 1]
             b == s[from + 2]
  <2>2. a \in Pieces /\ b \in Pieces /\ q.unread = Append(<<a>>, b) /\ q.socksBuf = << >>
    BY <1>1, <1>4, <2>1
  <2> HIDE DEF a, b
  <2>3. q.unread = <<a, b>>
    BY <2>2, Pair
  <2>4. QED
    BY <2>1, <2>2, <2>3 DEF Partly, a, b
<1>5. CASE k = from + 1 /\ p.socksBuf = <<what[1]>> /\ p.unread = << >> /\ s[from + 1] = what[1]
  <2>1. k + 1 = from + 2
    BY <1>5
  <2>2. q.unread = <<s[from + 2]>> /\ q.socksBuf = <<what[1]>>
    BY <1>2, <1>5, <2>1
  <2>3. QED
    BY <1>5, <2>1, <2>2 DEF Partly
<1>6. k # from + 2
  BY DEF Partly
<1>7. QED
  BY <1>3, <1>4, <1>5, <1>6 DEF Partly

\* A client that has waited for its replies says the next piece of its script.
LEMMA SaysKept ==
    ASSUME NEW s \in Forward!Scripts, NEW k \in Nat, NEW p, PipeInv(p, s, k),
           Forward!Live(p), k < Len(s),
           ~(s = Local \/ k < 2) => Len(p.got) >= IF s[k + 1].of = "data" THEN 2 ELSE 1
    PROVE  PipeInv([p EXCEPT !.unread = Append(@, s[k + 1])], s, k + 1)
<1> DEFINE e == s[k + 1]
           q == [p EXCEPT !.unread = Append(@, e)]
<1>1. p \in Pipes /\ k \in 0 .. Len(s) /\ Len(s) \in Nat /\ k + 1 \in 0 .. Len(s)
  <2>1. s \in Seq(Pieces)
    BY ScriptShapes, ScriptKinds
  <2>2. Len(s) \in Nat
    BY <2>1, LenProperties
  <2>3. QED
    BY <2>2 DEF PipeInv
<1>2. e \in Pieces
  <2>1. s \in Seq(Pieces) /\ k + 1 \in 1 .. Len(s)
    BY <1>1, ScriptShapes, ScriptKinds
  <2>2. QED
    BY <2>1, ElementOfSeq
<1>3. /\ q \in Pipes /\ q.unread = Append(p.unread, e) /\ q.step = p.step
      /\ q.socksBuf = p.socksBuf /\ q.unsent = p.unsent /\ q.got = p.got /\ q.target = p.target
      /\ q.incoming = p.incoming /\ q.produced = p.produced /\ q.eof = p.eof
  BY <1>1, <1>2, Arriving
<1>4. /\ p.got \in Seq(Pieces) /\ p.unsent \in Seq(Pieces) /\ p.target \in Seq(Pieces)
      /\ p.unread \in Seq(Pieces)
      /\ p.step \in {"absent", "greeting", "request", "relay", "closed"}
  BY <1>1, PipeFields
<1> HIDE DEF q
<1>5. CASE p.step = "greeting"
  <2>1. /\ s # Local /\ Idle(p) /\ p.got = << >> /\ p.unsent = << >>
        /\ Partly(p, s, k, 0, Forward!Greeting)
    BY <1>5 DEF PipeInv
  <2>2. k < 2
    BY <2>1
  <2>3. Partly(q, s, k + 1, 0, Forward!Greeting)
    BY <1>1, <1>3, <2>1, <2>2, PartlyMore
  <2>4. Idle(q)
    BY <1>3, <2>1 DEF Idle
  <2>5. QED
    BY <1>1, <1>3, <1>5, <2>1, <2>3, <2>4 DEF PipeInv, q
<1>6. CASE p.step = "request"
  <2>1. /\ s \in {Socks, Unasked} /\ Idle(p) /\ p.got \o p.unsent = Accepted
        /\ Partly(p, s, k, 2, Forward!Request)
    BY <1>6 DEF PipeInv
  <2>2. Len(p.got) <= 1
    <3>1. Len(p.got \o p.unsent) = Len(p.got) + Len(p.unsent) /\ Len(p.got) \in Nat /\ Len(p.unsent) \in Nat
      BY <1>4, JoinIs
    <3>2. Len(Accepted) = 1
      BY DEF Accepted
    <3>3. Len(p.got) + Len(p.unsent) = 1
      BY <2>1, <3>1, <3>2
    <3> DEFINE a == Len(p.got)
               b == Len(p.unsent)
    <3>4. a \in Nat /\ b \in Nat /\ a + b = 1
      BY <3>1, <3>3
    <3> HIDE DEF a, b
    <3>5. a <= 1
      BY <3>4
    <3>6. QED
      BY <3>5 DEF a
  <2>3. k >= 2 /\ k <= 4
    BY <2>1 DEF Partly
  <2>4. s # Local
    BY <2>1, ScriptKinds
  <2>5. e.of # "data"
    <3>1. Len(p.got) \in Nat
      BY <1>4, LenProperties
    <3>2. QED
      BY <2>2, <2>3, <2>4, <3>1
  <2>6. k # 4
    <3>1. ASSUME k = 4 PROVE FALSE
      <4>1. s = Socks
        <5>1. s = Unasked => Len(s) = 3
          BY ScriptShapes
        <5>2. s = Unasked => k < 3
          BY <5>1
        <5>3. s # Unasked
          BY <3>1, <5>2
        <5>4. QED
          BY <2>1, <5>3
      <4>2. Len(s) = 4 + Units
        BY <4>1, ScriptShapes
      <4>3. 1 \in 1 .. Units
        BY <3>1, <4>2, UnitsBound
      <4>4. s[4 + 1] = Word("data", 1)
        BY <4>1, <4>3, ScriptShapes
      <4>5. QED
        BY <2>5, <3>1, <4>4 DEF Word
    <3>2. QED
      BY <3>1
  <2>7. k < 2 + 2
    BY <2>3, <2>6
  <2>8. Partly(q, s, k + 1, 2, Forward!Request)
    BY <1>1, <1>3, <2>1, <2>7, PartlyMore
  <2>9. Idle(q)
    BY <1>3, <2>1 DEF Idle
  <2>10. QED
    BY <1>1, <1>3, <1>6, <2>1, <2>8, <2>9 DEF PipeInv, q
<1>7. CASE p.step = "relay"
  <2>1. /\ s = Local \/ (s = Socks /\ k >= 4)
        /\ p.target \o p.unread = DataOf(s, k)
        /\ (p.got \o p.unsent) \o p.incoming = RepliesTo(s) \o Forward!DataUpTo(p.produced)
    BY <1>7 DEF PipeInv
  <2>2. DataOf(s, k + 1) = Append(DataOf(s, k), e)
    BY <2>1, DataGrows
  <2> HIDE DEF e
  <2>3. p.target \o Append(p.unread, e) = Append(p.target \o p.unread, e)
    BY <1>2, <1>4, AppendJoin
  <2>4. q.target \o q.unread = DataOf(s, k + 1)
    BY <1>3, <2>1, <2>2, <2>3
  <2>5. (q.got \o q.unsent) \o q.incoming = RepliesTo(s) \o Forward!DataUpTo(q.produced)
    BY <1>3, <2>1
  <2>6. s = Local \/ (s = Socks /\ k + 1 >= 4)
    BY <2>1
  <2>7. QED
    BY <1>1, <1>3, <1>7, <2>4, <2>5, <2>6 DEF PipeInv, q, e
<1>8. QED
  BY <1>4, <1>5, <1>6, <1>7 DEF Forward!Live

\* A target sends a piece more, or no more.
Ended(p, r) == r = [p EXCEPT !.eof = TRUE]
Spoken(p, r) == r = [p EXCEPT !.produced = @ + 1,
                              !.incoming = Append(@, Forward!Piece("data", p.produced + 1))]
LEMMA TargetKept ==
    ASSUME NEW s \in Forward!Scripts, NEW k \in Nat, NEW p, PipeInv(p, s, k), p.step = "relay",
           NEW r, Ended(p, r) \/ Spoken(p, r)
    PROVE  PipeInv(r, s, k)
<1>1. /\ p \in Pipes /\ k \in 0 .. Len(s) /\ (s = Local \/ (s = Socks /\ k >= 4))
      /\ p.target \o p.unread = DataOf(s, k)
      /\ (p.got \o p.unsent) \o p.incoming = RepliesTo(s) \o Forward!DataUpTo(p.produced)
  BY DEF PipeInv
<1>2. /\ p.got \in Seq(Pieces) /\ p.unsent \in Seq(Pieces) /\ p.incoming \in Seq(Pieces)
      /\ p.produced \in Nat
  BY <1>1, PipeFields
<1>3. PipeInv([p EXCEPT !.eof = TRUE], s, k)
  <2> DEFINE q == [p EXCEPT !.eof = TRUE]
  <2>1. /\ q \in Pipes /\ q.step = "relay" /\ q.target = p.target /\ q.unread = p.unread
        /\ q.got = p.got /\ q.unsent = p.unsent /\ q.incoming = p.incoming
        /\ q.produced = p.produced
    BY <1>1 DEF Pipes
  <2> HIDE DEF q
  <2>2. PipeInv(q, s, k)
    BY <1>1, <2>1 DEF PipeInv
  <2>3. QED
    BY <2>2 DEF q
<1>4. PipeInv([p EXCEPT !.produced = @ + 1,
                        !.incoming = Append(@, Forward!Piece("data", p.produced + 1))], s, k)
  <2> DEFINE w == Word("data", p.produced + 1)
             i == Append(p.incoming, w)
             n == p.produced + 1
             q == [p EXCEPT !.produced = n, !.incoming = i]
  <2>1. w \in Pieces
    BY <1>2 DEF Word, Pieces
  <2>2. i \in Seq(Pieces)
    BY <1>2, <2>1, AppendProperties
  <2>3. [p EXCEPT !.produced = @ + 1, !.incoming = Append(@, Forward!Piece("data", p.produced + 1))] = q
    BY <1>1 DEF Pipes, Forward!Piece, Word
  <2>a. n \in Nat
    BY <1>2
  <2> HIDE DEF i, n
  <2>4. /\ q \in Pipes /\ q.step = "relay" /\ q.target = p.target /\ q.unread = p.unread
        /\ q.got = p.got /\ q.unsent = p.unsent /\ q.incoming = i /\ q.produced = n
    BY <1>1, <1>2, <2>2, <2>a DEF Pipes
  <2> HIDE DEF q
  <2> DEFINE h == p.got \o p.unsent
             t == RepliesTo(s)
             d == Forward!DataUpTo(p.produced)
  <2>5. h \in Seq(Pieces) /\ t \in Seq(Pieces) /\ d \in Seq(Pieces)
    BY <1>1, <1>2, JoinIs, RepliesTyped, Dataset
  <2>6. h \o p.incoming = t \o d /\ Append(d, w) = Forward!DataUpTo(p.produced + 1)
    BY <1>1, <1>2, DataMore
  <2> HIDE DEF h, t, d, w
  <2>7. h \o Append(p.incoming, w) = Append(h \o p.incoming, w) /\ t \o Append(d, w) = Append(t \o d, w)
    BY <1>2, <2>1, <2>5, AppendJoin
  <2>8. h \o i = t \o Forward!DataUpTo(p.produced + 1)
    BY <2>6, <2>7 DEF i
  <2>9. (q.got \o q.unsent) \o q.incoming = RepliesTo(s) \o Forward!DataUpTo(q.produced)
    BY <2>4, <2>8 DEF h, t, n
  <2>10. PipeInv(q, s, k)
    BY <1>1, <2>4, <2>9 DEF PipeInv
  <2>11. QED
    BY <2>3, <2>10
<1>5. QED
  BY <1>3, <1>4, Zenon DEF Ended, Spoken

\* A pipe that is opened, or closed at once.
LEMMA OpenedKept ==
    ASSUME NEW s \in Forward!Scripts, NEW step, step \in IF s = Local THEN {"relay", "closed"} ELSE {"greeting"}
    PROVE  PipeInv([Forward!NoPipe EXCEPT !.step = step], s, 0) /\ PipeInv(Forward!NoPipe, s, 0)
<1> DEFINE q == [Forward!NoPipe EXCEPT !.step = step]
<1>1. step \in {"relay", "closed", "greeting"}
  OBVIOUS
<1>2. /\ q.step = step /\ q.unread = << >> /\ q.socksBuf = << >> /\ q.unsent = << >>
      /\ q.got = << >> /\ q.target = << >> /\ q.incoming = << >> /\ q.produced = 0 /\ q.eof = FALSE
      /\ q \in Pipes /\ Forward!NoPipe \in Pipes /\ Forward!NoPipe.step = "absent"
  <2>1. << >> \in Seq(Pieces)
    OBVIOUS
  <2>2. QED
    BY <1>1, <2>1 DEF Forward!NoPipe, Pipes
<1>3. s \in Seq(Pieces) /\ Len(s) \in Nat /\ 0 \in 0 .. Len(s)
  <2>1. s \in Seq(Pieces)
    BY ScriptShapes, ScriptKinds
  <2>2. QED
    BY <2>1, LenProperties
<1>4. DataOf(s, 0) = << >> /\ Forward!DataUpTo(0) = << >>
  <2>1. Forward!DataUpTo(0) \in Seq(Pieces) /\ Len(Forward!DataUpTo(0)) = 0
    BY Dataset
  <2>2. Forward!DataUpTo(0) = << >>
    BY <2>1, EmptySeq
  <2>3. QED
    BY <1>3, <2>2, DataTyped
<1> HIDE DEF q
<1>5. << >> \o << >> = << >>
  OBVIOUS
<1>6. CASE step = "greeting"
  <2>1. s # Local /\ Idle(q) /\ Partly(q, s, 0, 0, Forward!Greeting)
    BY <1>2, <1>6 DEF Idle, Partly
  <2>2. QED
    BY <1>2, <1>3, <1>6, <2>1 DEF PipeInv, q
<1>7. CASE step = "relay"
  <2>1. s = Local /\ RepliesTo(s) = << >>
    BY <1>7, RepliesTyped
  <2>2. /\ q.target \o q.unread = DataOf(s, 0)
        /\ (q.got \o q.unsent) \o q.incoming = RepliesTo(s) \o Forward!DataUpTo(q.produced)
    BY <1>2, <1>4, <1>5, <2>1
  <2>3. QED
    BY <1>2, <1>3, <1>7, <2>1, <2>2 DEF PipeInv, q
<1>8. CASE step = "closed"
  <2>1. s = Local /\ RepliesTo(s) = << >>
    BY <1>8, RepliesTyped
  <2>2. Begins(<< >>, << >>)
    BY <1>3, BeginsItself DEF Begins
  <2>3. Sound(q, s, 0)
    BY <1>2, <1>4, <1>5, <2>1, <2>2 DEF Sound
  <2>4. QED
    BY <1>2, <1>3, <1>8, <2>3 DEF PipeInv, q
<1>9. PipeInv(Forward!NoPipe, s, 0)
  BY <1>2, <1>3 DEF PipeInv
<1>10. QED
  BY <1>1, <1>6, <1>7, <1>8, <1>9 DEF q

\* Steps that leave the pipes alone.
LEMMA PortsSame ==
    ASSUME PortInv, UNCHANGED <<script, said, pipe>>
    PROVE  PortInv'
<1>1. /\ script' = script /\ said' = said /\ pipe' = pipe
  OBVIOUS
<1>2. \A c \in Clients : PipeInv(pipe'[c], script'[c], said'[c])
  BY <1>1 DEF PortInv
<1>3. QED
  BY <1>1, <1>2 DEF PortInv

\* A step of one pipe.
LEMMA PipeMoves ==
    ASSUME PortInv, NEW c \in Clients, NEW q, pipe' = [pipe EXCEPT ![c] = q],
           UNCHANGED <<script, said>>, PipeInv(q, script[c], said[c])
    PROVE  PortInv'
<1>1. /\ script' = script /\ said' = said /\ DOMAIN pipe = Clients
      /\ \A d \in Clients : PipeInv(pipe[d], script[d], said[d])
  BY DEF PortInv
<1>2. /\ DOMAIN pipe' = Clients /\ pipe'[c] = q /\ \A d \in Clients : d # c => pipe'[d] = pipe[d]
  BY <1>1
<1>3. \A d \in Clients : PipeInv(pipe'[d], script'[d], said'[d])
  <2> TAKE d \in Clients
  <2>1. CASE d = c
    BY <1>1, <1>2, <2>1
  <2>2. CASE d # c
    BY <1>1, <1>2, <2>2
  <2>3. QED
    BY <2>1, <2>2
<1>4. QED
  BY <1>1, <1>2, <1>3 DEF PortInv

\* What is known of one pipe.
LEMMA PipeKnown ==
    ASSUME PortInv, NEW c \in Clients
    PROVE  /\ script[c] \in Forward!Scripts /\ said[c] \in Nat
           /\ PipeInv(pipe[c], script[c], said[c]) /\ pipe[c] \in Pipes
           /\ Forward!IsLocal(c) <=> script[c] = Local
  BY DEF PortInv, PipeInv, Forward!IsLocal, Local

LEMMA PortInit ==
    ASSUME Forward!Init
    PROVE  PortInv /\ BatchInv
<1>1. /\ script \in [Clients -> Forward!Scripts] /\ said = [c \in Clients |-> 0]
      /\ pipe = [c \in Clients |-> Forward!NoPipe]
  BY DEF Forward!Init
<1>2. ASSUME NEW c \in Clients
      PROVE  PipeInv(pipe[c], script[c], said[c])
  <2>1. script[c] \in Forward!Scripts /\ said[c] = 0 /\ pipe[c] = Forward!NoPipe
    BY <1>1
  <2> DEFINE step == IF script[c] = Local THEN "relay" ELSE "greeting"
  <2>2. step \in IF script[c] = Local THEN {"relay", "closed"} ELSE {"greeting"}
    OBVIOUS
  <2> HIDE DEF step
  <2>3. PipeInv(Forward!NoPipe, script[c], 0)
    BY <2>1, <2>2, OpenedKept
  <2>4. QED
    BY <2>1, <2>3
<1>3. said \in [Clients -> Nat] /\ DOMAIN pipe = Clients
  BY <1>1
<1>4. BatchInv
  <2>1. batch = [c \in Clients |-> 0]
    BY DEF Forward!Init
  <2>2. QED
    BY <2>1 DEF BatchInv, Busy
<1>5. QED
  BY <1>1, <1>2, <1>3, <1>4 DEF PortInv

\* Each step of the forwarder, its clients and its targets.
LEMMA PortStep ==
    ASSUME PortInv, BatchInv, Forward!Next
    PROVE  PortInv'
<1>1. CASE Forward!Run
  BY <1>1, PortsSame DEF Forward!Run
<1>2. CASE Forward!UseAfterClose
  BY <1>2, PortsSame DEF Forward!UseAfterClose
<1>3. CASE Forward!Shutdown
  <2>1. /\ script' = script /\ said' = said
        /\ pipe' \in {f \in [Clients -> UNION {Forward!Closed(pipe[c]) : c \in Clients}] :
                         \A c \in Clients : f[c] \in Forward!Closed(pipe[c])}
    BY <1>3 DEF Forward!Shutdown
  <2>2. DOMAIN pipe' = Clients /\ \A c \in Clients : pipe'[c] \in Forward!Closed(pipe[c])
    BY <2>1
  <2>3. ASSUME NEW c \in Clients
        PROVE  PipeInv(pipe'[c], script'[c], said'[c])
    BY <2>1, <2>2, PipeKnown, ClosedKept
  <2>4. QED
    BY <2>1, <2>2, <2>3 DEF PortInv
<1>4. ASSUME NEW c \in Clients, Forward!Pump(c)
      PROVE  PortInv'
  <2> DEFINE s == script[c]
             k == said[c]
             p == pipe[c]
  <2>1. PICK q \in IF p.step # "relay" /\ p.unread # << >> THEN Forward!HandleSocks(p) ELSE {p} :
           \/ pipe' = [pipe EXCEPT ![c] = q]
           \/ \E r \in IF q.step = "relay" THEN Forward!FromChannel(q) ELSE {q} :
                 pipe' = [pipe EXCEPT ![c] = r]
    BY <1>4 DEF Forward!Pump
  <2>2. PICK r \in {q} \cup IF q.step = "relay" THEN Forward!FromChannel(q) ELSE {q} :
           pipe' = [pipe EXCEPT ![c] = r]
    BY <2>1
  <2>3. /\ s \in Forward!Scripts /\ k \in Nat /\ PipeInv(p, s, k) /\ p \in Pipes
        /\ p.step \notin {"absent", "closed"} /\ UNCHANGED <<script, said>>
    BY <1>4, PipeKnown DEF Forward!Pump, Forward!Live
  <2>4. p.step \in {"greeting", "request", "relay"}
    BY <2>3, PipeFields
  <2> HIDE DEF s, k, p
  <2>5. PipeInv(q, s, k)
    <3>1. CASE p.step = "relay" \/ p.unread = << >>
      BY <2>1, <2>3, <3>1
    <3>2. CASE p.step = "greeting" /\ p.unread # << >>
      BY <2>1, <2>3, <3>2, GreetingKept
    <3>3. CASE p.step = "request" /\ p.unread # << >>
      BY <2>1, <2>3, <3>3, RequestKept
    <3>4. QED
      BY <2>4, <3>1, <3>2, <3>3
  <2>6. PipeInv(r, s, k)
    <3>1. CASE r = q
      BY <2>5, <3>1
    <3>2. CASE q.step = "relay" /\ r \in Forward!FromChannel(q)
      BY <2>3, <2>5, <3>2, ReadKept
    <3>3. QED
      BY <2>2, <3>1, <3>2
  <2>7. QED
    BY <2>2, <2>3, <2>6, PipeMoves DEF s, k
<1>5. ASSUME NEW c \in Clients, Forward!Connected(c)
      PROVE  PortInv'
  <2>1. PICK step \in IF Forward!IsLocal(c) THEN {"relay", "closed"} ELSE {"greeting"} :
           pipe' = [pipe EXCEPT ![c].step = step]
    BY <1>5 DEF Forward!Connected
  <2>2. /\ script[c] \in Forward!Scripts /\ PipeInv(pipe[c], script[c], said[c])
        /\ Forward!IsLocal(c) <=> script[c] = Local
    BY PipeKnown
  <2>3. pipe[c].step = "absent" /\ UNCHANGED <<script, said>>
    BY <1>5 DEF Forward!Connected
  <2>4. pipe[c] = Forward!NoPipe /\ said[c] = 0
    BY <2>2, <2>3 DEF PipeInv
  <2> DEFINE q == [Forward!NoPipe EXCEPT !.step = step]
  <2>5. PipeInv(q, script[c], said[c])
    <3>1. step \in IF script[c] = Local THEN {"relay", "closed"} ELSE {"greeting"}
      BY <2>1, <2>2
    <3>2. QED
      BY <2>2, <2>4, <3>1, OpenedKept
  <2>6. pipe' = [pipe EXCEPT ![c] = q]
    BY <2>1, <2>4
  <2> HIDE DEF q
  <2>7. QED
    BY <2>3, <2>5, <2>6, PipeMoves
<1>6. ASSUME NEW c \in Clients, Forward!Disconnected(c)
      PROVE  PortInv'
  <2>1. PICK q \in Forward!Closings(pipe[c]) : pipe' = [pipe EXCEPT ![c] = q]
    BY <1>6 DEF Forward!Disconnected
  <2>2. UNCHANGED <<script, said>> /\ Forward!Live(pipe[c])
    BY <1>6 DEF Forward!Disconnected
  <2>3. q \in Forward!Closed(pipe[c])
    BY <2>1, <2>2 DEF Forward!Closed
  <2>4. PipeInv(q, script[c], said[c])
    BY <2>3, PipeKnown, ClosedKept
  <2>5. QED
    BY <2>1, <2>2, <2>4, PipeMoves
<1>7. ASSUME NEW c \in Clients, Forward!Flush(c)
      PROVE  PortInv'
  <2> DEFINE q == [pipe[c] EXCEPT !.got = @ \o pipe[c].unsent, !.unsent = << >>]
  <2>1. /\ UNCHANGED <<script, said>> /\ Forward!Live(pipe[c]) /\ pipe[c].unsent # << >>
        /\ pipe' = [pipe EXCEPT ![c].got = @ \o pipe[c].unsent, ![c].unsent = << >>]
    BY <1>7 DEF Forward!Flush
  <2>2. PipeInv(q, script[c], said[c])
    <3> DEFINE s == script[c]
               k == said[c]
               p == pipe[c]
    <3>1. /\ s \in Forward!Scripts /\ k \in Nat /\ PipeInv(p, s, k)
          /\ Forward!Live(p) /\ p.unsent # << >>
      BY <2>1, PipeKnown
    <3>2. Flushed(p, q)
      BY DEF Flushed
    <3> HIDE DEF s, k, p, q
    <3>3. PipeInv(q, s, k)
      BY <3>1, <3>2, FlushKept
    <3>4. QED
      BY <3>3 DEF s, k
  <2>3. pipe' = [pipe EXCEPT ![c] = q]
    BY <2>1 DEF PortInv
  <2> HIDE DEF q
  <2>4. QED
    BY <2>1, <2>2, <2>3, PipeMoves
<1>8. ASSUME NEW c \in Clients, Forward!ClientSays(c)
      PROVE  PortInv'
  <2> DEFINE s == script[c]
             k == said[c]
             p == pipe[c]
             q == [p EXCEPT !.unread = Append(@, s[k + 1])]
  <2>1. /\ Forward!Live(p) /\ k < Len(s) /\ Len(p.got) >= Forward!Awaited(c) /\ script' = script
        /\ said' = [said EXCEPT ![c] = @ + 1]
        /\ pipe' = [pipe EXCEPT ![c].unread = Append(@, s[k + 1])]
    BY <1>8 DEF Forward!ClientSays
  <2>2. /\ s \in Forward!Scripts /\ k \in Nat /\ PipeInv(p, s, k)
        /\ Forward!IsLocal(c) <=> s = Local
    BY PipeKnown
  <2>3. ~(s = Local \/ k < 2) => Len(p.got) >= IF s[k + 1].of = "data" THEN 2 ELSE 1
    <3>1. Len(Forward!Greeting) = 2
      BY DEF Forward!Greeting
    <3>2. ~(s = Local \/ k < 2) => Forward!Awaited(c) = IF s[k + 1].of = "data" THEN 2 ELSE 1
      BY <2>2, <3>1 DEF Forward!Awaited
    <3>3. QED
      BY <2>1, <3>2
  <2>4. PipeInv(q, s, k + 1)
    <3> HIDE DEF s, k, p
    <3>1. QED
      BY <2>1, <2>2, <2>3, SaysKept
  <2>5. /\ DOMAIN pipe = Clients /\ said \in [Clients -> Nat] /\ script \in [Clients -> Forward!Scripts]
        /\ \A d \in Clients : PipeInv(pipe[d], script[d], said[d])
    BY DEF PortInv
  <2>6. pipe' = [pipe EXCEPT ![c] = q]
    BY <2>1
  <2> HIDE DEF q
  <2>7. /\ DOMAIN pipe' = Clients /\ pipe'[c] = q /\ \A d \in Clients : d # c => pipe'[d] = pipe[d]
    BY <2>5, <2>6
  <2>8. /\ said' \in [Clients -> Nat] /\ said'[c] = k + 1 /\ \A d \in Clients : d # c => said'[d] = said[d]
    BY <2>1, <2>5
  <2>9. ASSUME NEW d \in Clients
        PROVE  PipeInv(pipe'[d], script'[d], said'[d])
    <3>1. CASE d = c
      BY <2>1, <2>4, <2>7, <2>8, <3>1
    <3>2. CASE d # c
      BY <2>1, <2>5, <2>7, <2>8, <3>2
    <3>3. QED
      BY <3>1, <3>2
  <2>10. QED
    BY <2>1, <2>5, <2>7, <2>8, <2>9 DEF PortInv
<1>9. ASSUME NEW c \in Clients, Forward!ClientLeaves(c)
      PROVE  PortInv'
  BY <1>9, PortsSame DEF Forward!ClientLeaves
<1>10. ASSUME NEW c \in Clients, Forward!TargetSays(c)
       PROVE  PortInv'
  <2> DEFINE p == pipe[c]
             more == [p EXCEPT !.produced = @ + 1,
                               !.incoming = Append(@, Forward!Piece("data", p.produced + 1))]
             end == [p EXCEPT !.eof = TRUE]
  <2>1. /\ p.step = "relay" /\ UNCHANGED <<script, said>>
        /\ \/ pipe' = [pipe EXCEPT ![c].produced = @ + 1,
                                   ![c].incoming = Append(@, Forward!Piece("data", pipe[c].produced + 1))]
           \/ pipe' = [pipe EXCEPT ![c].eof = TRUE]
    BY <1>10 DEF Forward!TargetSays
  <2>2. PipeInv(more, script[c], said[c]) /\ PipeInv(end, script[c], said[c])
    <3> DEFINE s == script[c]
               k == said[c]
    <3>1. s \in Forward!Scripts /\ k \in Nat /\ PipeInv(p, s, k) /\ p.step = "relay"
      BY <2>1, PipeKnown
    <3>2. Ended(p, end) /\ Spoken(p, more)
      BY DEF Ended, Spoken
    <3> HIDE DEF s, k, p, more, end
    <3>3. PipeInv(more, s, k)
      BY <3>1, <3>2, TargetKept
    <3>4. PipeInv(end, s, k)
      BY <3>1, <3>2, TargetKept
    <3>5. QED
      BY <3>3, <3>4 DEF s, k
  <2>3. pipe' = [pipe EXCEPT ![c] = more] \/ pipe' = [pipe EXCEPT ![c] = end]
    BY <2>1 DEF PortInv
  <2> HIDE DEF more, end
  <2>4. QED
    BY <2>1, <2>2, <2>3, PipeMoves
<1>11. ASSUME NEW c \in Clients, Forward!Write(c)
       PROVE  PortInv'
  <2> DEFINE p == pipe[c]
             q == Forward!ToChannel(p)
  <2>1. PICK r \in IF batch[c] = 1 THEN Forward!FromChannel(q) ELSE {q} : pipe' = [pipe EXCEPT ![c] = r]
    BY <1>11 DEF Forward!Write
  <2>2. UNCHANGED <<script, said>> /\ batch[c] > 0
    BY <1>11 DEF Forward!Write
  <2>3. p.step = "relay" /\ p.unread # << >>
    BY <2>2, PipeKnown, PipeFields DEF BatchInv, Busy
  <2>4. PipeInv(q, script[c], said[c]) /\ q.step = "relay"
    BY <2>3, PipeKnown, WrittenKept
  <2> HIDE DEF p, q
  <2>5. PipeInv(r, script[c], said[c])
    <3>1. CASE r = q
      BY <2>4, <3>1
    <3>2. CASE r \in Forward!FromChannel(q)
      BY <2>4, <3>2, PipeKnown, ReadKept
    <3>3. QED
      BY <2>1, <3>1, <3>2
  <2>6. QED
    BY <2>1, <2>2, <2>5, PipeMoves
<1>12. ASSUME NEW c \in Clients, Forward!TargetReads(c)
       PROVE  PortInv'
  BY <1>12, PortsSame DEF Forward!TargetReads
<1>13. QED
  BY <1>1, <1>2, <1>3, <1>4, <1>5, <1>6, <1>7, <1>8, <1>9, <1>10, <1>11, <1>12 DEF Forward!Next

\* What is to be written stays there until it is.
LEMMA BatchStep ==
    ASSUME PortInv, BatchInv, Forward!Next
    PROVE  BatchInv'
<1>0. /\ batch \in [Clients -> Nat] /\ DOMAIN pipe = Clients
      /\ \A c \in Clients : Busy(pipe[c], batch[c]) /\ batch[c] \in Nat /\ pipe[c] \in Pipes
  BY PipeKnown DEF PortInv, BatchInv, Busy
<1>1. CASE UNCHANGED <<pipe, batch>>
  BY <1>1 DEF BatchInv
<1>2. ASSUME \A c \in Clients : batch[c] = 0, batch' = batch
      PROVE  BatchInv'
  BY <1>0, <1>2 DEF BatchInv, Busy
<1>3. ASSUME NEW c \in Clients, NEW q, NEW b, pipe' = [pipe EXCEPT ![c] = q],
             batch' = [batch EXCEPT ![c] = b], b \in Nat, Busy(q, b)
      PROVE  BatchInv'
  <2>1. /\ batch' \in [Clients -> Nat] /\ pipe'[c] = q /\ batch'[c] = b
        /\ \A d \in Clients : d # c => pipe'[d] = pipe[d] /\ batch'[d] = batch[d]
    BY <1>0, <1>3
  <2>2. \A d \in Clients : Busy(pipe'[d], batch'[d])
    BY <1>0, <1>3, <2>1
  <2>3. QED
    BY <2>1, <2>2 DEF BatchInv
<1>4. CASE Forward!Run \/ Forward!UseAfterClose
  BY <1>1, <1>4 DEF Forward!Run, Forward!UseAfterClose, Forward!writeVars
<1>5. CASE Forward!Shutdown
  BY <1>2, <1>5 DEF Forward!Shutdown, Forward!NoWrite, Forward!writeVars
<1>6. ASSUME NEW c \in Clients, Forward!Connected(c) \/ Forward!Disconnected(c) \/ Forward!Flush(c)
      PROVE  BatchInv'
  BY <1>2, <1>6
  DEF Forward!Connected, Forward!Disconnected, Forward!Flush, Forward!AtRest, Forward!NoWrite, Forward!writeVars
<1>7. ASSUME NEW c \in Clients, Forward!ClientLeaves(c) \/ Forward!TargetReads(c)
      PROVE  BatchInv'
  BY <1>1, <1>7 DEF Forward!ClientLeaves, Forward!TargetReads, Forward!writeVars
<1>8. ASSUME NEW c \in Clients, Forward!Pump(c)
      PROVE  BatchInv'
  <2>1. PICK q : \/ /\ q.step = "relay" /\ pipe' = [pipe EXCEPT ![c] = q]
                    /\ batch' = [batch EXCEPT ![c] = Len(q.unread)]
                 \/ batch' = batch
    BY <1>8 DEF Forward!Pump
  <2>2. \A d \in Clients : batch[d] = 0
    BY <1>8 DEF Forward!Pump, Forward!AtRest, Forward!NoWrite
  <2>3. CASE batch' = batch
    BY <1>2, <2>2, <2>3
  <2>4. CASE /\ q.step = "relay" /\ pipe' = [pipe EXCEPT ![c] = q]
             /\ batch' = [batch EXCEPT ![c] = Len(q.unread)]
    <3>1. q = pipe'[c]
      BY <1>0, <2>4
    <3>2. PortInv'
      BY PortStep, <1>8 DEF Forward!Next
    <3>3. q \in Pipes
      BY <3>1, <3>2 DEF PortInv, PipeInv
    <3>4. Len(q.unread) \in Nat
      BY <3>3, PipeFields
    <3>5. Busy(q, Len(q.unread))
      BY <2>4, <3>4 DEF Busy
    <3>6. QED
      BY <1>3, <2>4, <3>4, <3>5
  <2>5. QED
    BY <2>1, <2>3, <2>4
<1>9. ASSUME NEW c \in Clients, Forward!Write(c)
      PROVE  BatchInv'
  <2> DEFINE p == pipe[c]
             q == Forward!ToChannel(p)
             b == batch[c] - 1
  <2>1. PICK r \in IF batch[c] = 1 THEN Forward!FromChannel(q) ELSE {q} : pipe' = [pipe EXCEPT ![c] = r]
    BY <1>9 DEF Forward!Write
  <2>2. batch' = [batch EXCEPT ![c] = b] /\ batch[c] > 0 /\ b \in Nat
    BY <1>0, <1>9 DEF Forward!Write
  <2>3. p.step = "relay" /\ batch[c] <= Len(p.unread) /\ Len(p.unread) \in Nat /\ p.unread # << >>
    BY <1>0, <2>2, PipeFields DEF Busy
  <2>4. q.step = "relay" /\ Len(q.unread) = Len(p.unread) - 1
    BY <2>3, PipeKnown, WrittenKept
  <2> HIDE DEF p, q
  <2>5. Busy(r, b)
    <3>1. CASE batch[c] = 1
      BY <3>1 DEF Busy
    <3>2. CASE batch[c] # 1
      <4>1. r = q
        BY <2>1, <3>2
      <4>2. b <= Len(q.unread)
        BY <1>0, <2>2, <2>3, <2>4
      <4>3. QED
        BY <2>4, <4>1, <4>2 DEF Busy
    <3>3. QED
      BY <3>1, <3>2
  <2> HIDE DEF b
  <2>6. QED
    BY <1>3, <2>1, <2>2, <2>5
<1>10. ASSUME NEW c \in Clients, Forward!ClientSays(c)
       PROVE  BatchInv'
  <2> DEFINE p == pipe[c]
             e == script[c][said[c] + 1]
             q == [p EXCEPT !.unread = Append(@, e)]
  <2>1. pipe' = [pipe EXCEPT ![c] = q] /\ batch' = [batch EXCEPT ![c] = batch[c]]
    <3>1. pipe' = [pipe EXCEPT ![c].unread = Append(@, script[c][said[c] + 1])] /\ batch' = batch
      BY <1>10 DEF Forward!ClientSays, Forward!writeVars
    <3>2. batch = [batch EXCEPT ![c] = batch[c]]
      BY <1>0
    <3>3. QED
      BY <3>1, <3>2
  <2>2. p \in Pipes /\ p.unread \in Seq(Pieces) /\ e \in Pieces
    <3>1. script[c] \in Forward!Scripts /\ said[c] \in Nat /\ said[c] < Len(script[c])
      BY <1>10, PipeKnown DEF Forward!ClientSays
    <3>2. script[c] \in Seq(Pieces)
      BY <3>1, ScriptShapes, ScriptKinds
    <3>3. e \in Pieces
      BY <3>1, <3>2
    <3>4. QED
      BY <1>0, <3>3, PipeFields
  <2> HIDE DEF p, e
  <2>3. q.step = p.step /\ q.unread = Append(p.unread, e)
    BY <2>2 DEF Pipes
  <2>4. Len(q.unread) = Len(p.unread) + 1 /\ Len(p.unread) \in Nat
    BY <2>2, <2>3
  <2> HIDE DEF q
  <2>5. Busy(q, batch[c])
    BY <1>0, <2>3, <2>4 DEF Busy, p
  <2>6. QED
    BY <1>0, <1>3, <2>1, <2>5
<1>11. ASSUME NEW c \in Clients, Forward!TargetSays(c)
       PROVE  BatchInv'
  <2> DEFINE p == pipe[c]
             more == [p EXCEPT !.produced = @ + 1,
                               !.incoming = Append(@, Forward!Piece("data", p.produced + 1))]
             end == [p EXCEPT !.eof = TRUE]
  <2>1. /\ pipe' = [pipe EXCEPT ![c] = more] \/ pipe' = [pipe EXCEPT ![c] = end]
        /\ batch' = [batch EXCEPT ![c] = batch[c]]
    <3>1. /\ \/ pipe' = [pipe EXCEPT ![c].produced = @ + 1,
                                   ![c].incoming = Append(@, Forward!Piece("data", pipe[c].produced + 1))]
             \/ pipe' = [pipe EXCEPT ![c].eof = TRUE]
          /\ batch' = batch
      BY <1>11 DEF Forward!TargetSays, Forward!writeVars
    <3>2. batch = [batch EXCEPT ![c] = batch[c]]
      BY <1>0
    <3>3. QED
      BY <1>0, <3>1, <3>2
  <2>2. /\ more.step = p.step /\ more.unread = p.unread
        /\ end.step = p.step /\ end.unread = p.unread
    BY <1>0 DEF Pipes
  <2> HIDE DEF more, end, p
  <2>3. Busy(more, batch[c]) /\ Busy(end, batch[c])
    BY <1>0, <2>2 DEF Busy, p
  <2>4. QED
    BY <1>0, <1>3, <2>1, <2>3
<1>12. QED
  BY <1>4, <1>5, <1>6, <1>7, <1>8, <1>9, <1>10, <1>11 DEF Forward!Next

\* The property of the run, from the invariant.
LEMMA PortsInOrder ==
    ASSUME PortInv
    PROVE  Forward!RelayInOrder
<1> SUFFICES ASSUME NEW c \in Clients
             PROVE  /\ Forward!IsPrefix(pipe[c].target, Forward!DataSaid(c))
                    /\ Forward!IsPrefix(pipe[c].got, Forward!Replies(c) \o Forward!DataUpTo(pipe[c].produced))
  BY DEF Forward!RelayInOrder
<1> DEFINE s == script[c]
           k == said[c]
           p == pipe[c]
<1>1. /\ s \in Forward!Scripts /\ k \in Nat /\ PipeInv(p, s, k) /\ p \in Pipes
      /\ Forward!IsLocal(c) <=> s = Local
  BY PipeKnown
<1>2. Forward!DataSaid(c) = DataOf(s, k)
  <2>1. Len(Forward!Handshake(c)) = IF s = Local THEN 0 ELSE 4
    BY <1>1 DEF Forward!Handshake, Forward!Greeting, Forward!Request
  <2>2. QED
    BY <2>1 DEF Forward!DataSaid, DataOf
<1>3. Forward!Replies(c) = RepliesTo(s)
  <2> DEFINE a == Word("refused", 0)
             b == Word("accepted", 0)
             d == Word("unsupported", 0)
             e == Word("succeeded", 0)
  <2>1. /\ Forward!Reply("refused") = a /\ Forward!Reply("accepted") = b
        /\ Forward!Reply("unsupported") = d /\ Forward!Reply("succeeded") = e
    BY DEF Forward!Reply, Forward!Piece, Word
  <2>2. s \in {Local, Socks, Forward!Bad, Unasked}
    BY <1>1, ScriptKinds
  <2>3. /\ s = Local => RepliesTo(s) = << >>
        /\ s = Forward!Bad => RepliesTo(s) = <<a>>
        /\ s = Unasked => RepliesTo(s) = <<b, d>>
        /\ s = Socks => RepliesTo(s) = <<b, e>>
    BY <1>1, RepliesTyped
  <2> DEFINE r == Forward!Replies(c)
  <2>4. r = CASE s = Local -> << >>
              [] s = Forward!Bad -> <<a>>
              [] s = Unasked -> <<b, d>>
              [] OTHER -> <<b, e>>
    <3> HIDE DEF a, b, d, e
    <3>1. QED
      BY <2>1 DEF Forward!Replies, Forward!IsLocal, Local, Unasked
  <2> HIDE DEF a, b, d, e, r
  <2>5. /\ s = Local => r = << >>
        /\ s = Forward!Bad => r = <<a>>
        /\ s = Unasked => r = <<b, d>>
        /\ s = Socks => r = <<b, e>>
    BY <2>4, ScriptKinds
  <2>6. r = RepliesTo(s)
    BY <2>2, <2>3, <2>5
  <2>7. QED
    BY <2>6 DEF r
<1> HIDE DEF s, k, p
<1>4. /\ p.target \in Seq(Pieces) /\ p.got \in Seq(Pieces) /\ p.unsent \in Seq(Pieces)
      /\ p.produced \in Nat /\ k \in 0 .. Len(s)
  BY <1>1, PipeFields DEF PipeInv
<1> DEFINE all == RepliesTo(s) \o Forward!DataUpTo(p.produced)
<1>5. DataOf(s, k) \in Seq(Pieces) /\ all \in Seq(Pieces)
  BY <1>1, <1>4, DataTyped, RepliesTyped, Dataset, JoinIs
<1>6. Begins(p.target, DataOf(s, k)) /\ Begins(p.got, all)
  <2>1. CASE p.step = "absent"
    <3>1. p.target = << >> /\ p.got = << >>
      BY <1>1, <2>1 DEF PipeInv, Forward!NoPipe
    <3> HIDE DEF all
    <3>2. QED
      BY <1>5, <3>1, BeginsItself
  <2>2. CASE p.step # "absent"
    <3>1. Begins(p.target, DataOf(s, k)) /\ Begins(p.got \o p.unsent, all)
      BY <1>1, <2>2, LiveSound DEF Sound
    <3> HIDE DEF all
    <3>2. QED
      BY <1>4, <1>5, <3>1, PartBegins
  <2>3. QED
    BY <2>1, <2>2
<1> HIDE DEF all
<1>7. Forward!IsPrefix(p.target, DataOf(s, k)) /\ Forward!IsPrefix(p.got, all)
  BY <1>4, <1>5, <1>6, PrefixIs
<1>8. QED
  BY <1>2, <1>3, <1>7 DEF all, s, k, p

\* A client of a forwarded port and its target hear each other, in order, and
\* nothing of the handshake but its replies, as long as no pipe has been used after
\* it was deleted; what is being written does not change until it is written.
THEOREM RelaysInOrder == Spec => []RelayInOrder
<1> DEFINE Inv == op = "forward" => PortInv /\ BatchInv
<1>1. Init => Inv
  <2>1. Init /\ op = "forward" => Forward!Init
    BY DEF Init
  <2>2. QED
    BY <2>1, PortInit
<1>2. Inv /\ [Next]_vars => Inv'
  <2> SUFFICES ASSUME Inv, [Next]_vars, op' = "forward"
               PROVE  (PortInv /\ BatchInv)'
    OBVIOUS
  <2>1. CASE Forwards(Forward!Next)
    BY <2>1, PortStep, BatchStep DEF Forwards
  <2>2. CASE Terminals(Terminal!Next) \/ Tftps(Tftp!Next) \/ Telnets(Telnet!Next)
    BY <2>2 DEF Terminals, Tftps, Telnets
  <2>3. CASE UNCHANGED vars
    <3>1. op' = op /\ UNCHANGED <<script, said, pipe, batch>>
      BY <2>3 DEF vars, forwardVars
    <3>2. QED
      BY <3>1, PortsSame DEF BatchInv
  <2>4. QED
    BY <2>1, <2>2, <2>3 DEF Next
<1>3. Inv => RelayInOrder
  BY PortsInOrder DEF RelayInOrder
<1> HIDE DEF Inv
<1>4. QED
  BY <1>1, <1>2, <1>3, PTL DEF Spec

-----------------------------------------------------------------------------
(* The TFTP transfer.  Numbers of blocks are remainders, and two numbers less *)
(* than the divisor apart are told apart by them.                            *)

LEMMA RemainderIs ==
    ASSUME NEW a \in Nat, NEW w \in Nat \ {0}
    PROVE  a % w \in 0 .. w - 1 /\ a \div w \in Nat /\ a = w * (a \div w) + (a % w)
  OBVIOUS

LEMMA SameProduct ==
    ASSUME NEW w \in Nat \ {0}, NEW p \in Int, NEW q \in Int, NEW x \in 0 .. w - 1, NEW y \in 0 .. w - 1,
           w * p + x = w * q + y
    PROVE  x = y /\ p = q
<1>1. w * (p - q) = y - x
  OBVIOUS
<1>2. CASE p = q
  BY <1>1, <1>2
<1>3. CASE p > q
  <2>1. w * (p - q) >= w
    BY <1>3
  <2>2. QED
    BY <2>1, <1>1
<1>4. CASE p < q
  <2>1. w * (p - q) <= -w
    BY <1>4
  <2>2. QED
    BY <2>1, <1>1
<1>5. QED
  BY <1>2, <1>3, <1>4

LEMMA SameRemainder ==
    ASSUME NEW w \in Nat \ {0}, NEW x \in Nat, NEW y \in Nat, x <= y, y < x + w, x % w = y % w
    PROVE  x = y
<1> DEFINE p == x \div w
           q == y \div w
           r == x % w
<1>1. p \in Nat /\ q \in Nat /\ r \in 0 .. w - 1 /\ x = w * p + r
  BY RemainderIs
<1>2. y = w * q + (y % w)
  BY RemainderIs
<1>3. y = w * q + r
  BY <1>2
<1> HIDE DEF p, q, r
<1>4. y - x = w * (q - p)
  BY <1>1, <1>3
<1>5. CASE q = p
  BY <1>1, <1>3, <1>5
<1>6. CASE q > p
  <2>1. w * (q - p) >= w
    BY <1>1, <1>6
  <2>2. QED
    BY <2>1, <1>4
<1>7. CASE q < p
  <2>1. w * (q - p) <= -w
    BY <1>1, <1>7
  <2>2. QED
    BY <2>1, <1>4
<1>8. QED
  BY <1>1, <1>5, <1>6, <1>7

LEMMA NextRemainder ==
    ASSUME NEW w \in Nat \ {0}, NEW x \in Nat
    PROVE  ((x % w) + 1) % w = (x + 1) % w
<1> DEFINE r == x % w
           s == (x + 1) % w
           u == (r + 1) % w
           p == x \div w
           q == (x + 1) \div w
           t == (r + 1) \div w
<1>1. p \in Nat /\ r \in 0 .. w - 1 /\ x = w * p + r
  BY RemainderIs
<1>2. q \in Nat /\ s \in 0 .. w - 1 /\ x + 1 = w * q + s
  <2>1. x + 1 \in Nat
    OBVIOUS
  <2>2. QED
    BY <2>1, RemainderIs
<1>3. t \in Nat /\ u \in 0 .. w - 1 /\ r + 1 = w * t + u
  <2>1. r + 1 \in Nat
    BY <1>1
  <2> HIDE DEF r
  <2>2. QED
    BY <2>1, RemainderIs
<1>4. ((x % w) + 1) % w = u /\ (x + 1) % w = s
  OBVIOUS
<1> HIDE DEF r, s, u, p, q, t
<1>5. w * (p + t) + u = w * q + s
  <2>1. w * (p + t) = w * p + w * t
    BY <1>1, <1>3
  <2>2. QED
    BY <1>1, <1>2, <1>3, <2>1
<1>6. u = s
  BY <1>1, <1>2, <1>3, <1>5, SameProduct
<1>7. QED
  BY <1>4, <1>6

LEMMA TftpBounds ==
    /\ Blocks \in Nat \ {0} /\ MaxRetries \in Nat /\ Faults \in Nat
    /\ Width \in Nat \ {0} /\ Width > Faults + 1
  BY BoundsAssumption

-----------------------------------------------------------------------------
(* Datagrams under way.  Behind their numbers are the blocks they are of, all *)
(* that were ever sent: none is of a later block than the last one, and none *)
(* overtook another, or lags behind, by more than the network's faults.      *)

Datagram(what, n) == IF what = "data" THEN Tftp!Data(n % Width, n) ELSE Tftp!Ack(n % Width)
Behind(queue, what, T, low, high, slack) ==
    /\ T \in Seq(Nat) /\ Len(T) = Len(queue)
    /\ \A i \in 1 .. Len(T) :
          /\ queue[i] = Datagram(what, T[i]) /\ T[i] <= high /\ low <= T[i] + slack + 1
          /\ what = "data" => T[i] > 0
    /\ \A i, j \in 1 .. Len(T) : i < j => T[i] <= T[j] + slack
Trail(queue, what, low, high, slack) == \E T : Behind(queue, what, T, low, high, slack)

\* Nothing is under way.
LEMMA TrailNone ==
    ASSUME NEW what, NEW low, NEW high, NEW slack
    PROVE  Trail(<< >>, what, low, high, slack)
<1>1. Behind(<< >>, what, << >>, low, high, slack)
  BY DEF Behind
<1>2. QED
  BY <1>1 DEF Trail

\* The last block is sent again, or the next one.
LEMMA TrailMore ==
    ASSUME NEW D, NEW queue \in Seq(D), NEW what \in {"data", "ack"}, NEW low \in Nat, NEW high \in Nat,
           NEW slack \in Nat, NEW n \in Nat, Trail(queue, what, low, high, slack), high <= n,
           low <= n + slack + 1, what = "data" => n > 0, Datagram(what, n) \in D
    PROVE  Trail(Append(queue, Datagram(what, n)), what, low, n, slack)
<1>1. PICK T : Behind(queue, what, T, low, high, slack)
  BY DEF Trail
<1>2. /\ T \in Seq(Nat) /\ Len(T) = Len(queue)
      /\ \A i \in 1 .. Len(T) :
            /\ queue[i] = Datagram(what, T[i]) /\ T[i] <= high /\ low <= T[i] + slack + 1
            /\ what = "data" => T[i] > 0
      /\ \A i, j \in 1 .. Len(T) : i < j => T[i] <= T[j] + slack
  BY <1>1 DEF Behind
<1> DEFINE U == Append(T, n)
           d == Datagram(what, n)
           both == Append(queue, d)
           l == Len(T)
<1>3. /\ U \in Seq(Nat) /\ Len(U) = l + 1 /\ U[l + 1] = n /\ \A i \in 1 .. l : U[i] = T[i]
      /\ l \in Nat
  BY <1>2, AppendProperties, LenProperties
<1>4. Len(both) = l + 1 /\ both[l + 1] = d /\ \A i \in 1 .. l : both[i] = queue[i]
  <2> HIDE DEF d
  <2>1. /\ Len(both) = Len(queue) + 1 /\ both[Len(queue) + 1] = d
        /\ \A i \in 1 .. Len(queue) : both[i] = queue[i]
    BY AppendProperties DEF d
  <2>2. QED
    BY <1>2, <2>1
<1>5. \A i \in 1 .. l : T[i] \in Nat
  BY <1>2
<1> HIDE DEF U, both, l, d
<1>6. \A i \in 1 .. l + 1 : i \in 1 .. l \/ i = l + 1
  BY <1>3
<1>7. ASSUME NEW i \in 1 .. l + 1
      PROVE  /\ both[i] = Datagram(what, U[i]) /\ U[i] <= n /\ low <= U[i] + slack + 1
             /\ what = "data" => U[i] > 0
  <2>1. CASE i \in 1 .. l
    <3>1. /\ both[i] = Datagram(what, U[i]) /\ U[i] <= high /\ low <= U[i] + slack + 1
          /\ (what = "data" => U[i] > 0) /\ U[i] \in Nat
      BY <1>2, <1>3, <1>4, <1>5, <2>1 DEF l
    <3>2. QED
      BY <3>1
  <2>2. CASE i = l + 1
    BY <1>3, <1>4, <2>2 DEF d
  <2>3. QED
    BY <1>6, <2>1, <2>2
<1>8. ASSUME NEW i \in 1 .. l + 1, NEW j \in 1 .. l + 1, i < j
      PROVE  U[i] <= U[j] + slack
  <2>1. i \in 1 .. l
    BY <1>3, <1>8
  <2>2. U[i] = T[i] /\ T[i] \in Nat /\ T[i] <= high
    BY <1>2, <1>3, <1>5, <2>1 DEF l
  <2>3. CASE j \in 1 .. l
    BY <1>2, <1>3, <1>8, <2>1, <2>3 DEF l
  <2>4. CASE j = l + 1
    BY <1>3, <2>2, <2>4
  <2>5. QED
    BY <1>6, <2>3, <2>4
<1>9. Behind(both, what, U, low, n, slack)
  BY <1>3, <1>4, <1>7, <1>8 DEF Behind
<1>10. QED
  BY <1>9 DEF Trail, both, d

\* A datagram is taken that is not what was waited for.
LEMMA TrailDrop ==
    ASSUME NEW D, NEW queue \in Seq(D), queue # << >>, NEW what, NEW low, NEW high, NEW slack,
           Trail(queue, what, low, high, slack)
    PROVE  Trail(Tail(queue), what, low, high, slack)
<1>1. PICK T : Behind(queue, what, T, low, high, slack)
  BY DEF Trail
<1>2. /\ T \in Seq(Nat) /\ Len(T) = Len(queue)
      /\ \A i \in 1 .. Len(T) :
            /\ queue[i] = Datagram(what, T[i]) /\ T[i] <= high /\ low <= T[i] + slack + 1
            /\ what = "data" => T[i] > 0
      /\ \A i, j \in 1 .. Len(T) : i < j => T[i] <= T[j] + slack
  BY <1>1 DEF Behind
<1> DEFINE U == Tail(T)
           rest == Tail(queue)
           l == Len(T)
<1>3. l \in Nat \ {0} /\ T # << >>
  <2>1. Len(queue) \in Nat \ {0}
    OBVIOUS
  <2>2. QED
    BY <1>2, <2>1
<1>4. U \in Seq(Nat) /\ Len(U) = l - 1 /\ \A i \in 1 .. l - 1 : U[i] = T[i + 1]
  BY <1>2, <1>3
<1>5. Len(rest) = l - 1 /\ \A i \in 1 .. l - 1 : rest[i] = queue[i + 1]
  <2>1. Len(rest) = Len(queue) - 1 /\ \A i \in 1 .. Len(queue) - 1 : rest[i] = queue[i + 1]
    OBVIOUS
  <2>2. QED
    BY <1>2, <2>1
<1>6. \A i \in 1 .. l - 1 : i + 1 \in 1 .. l
  BY <1>3
<1> HIDE DEF U, rest
<1>7. \A i \in 1 .. l - 1 :
         /\ rest[i] = Datagram(what, U[i]) /\ U[i] <= high /\ low <= U[i] + slack + 1
         /\ what = "data" => U[i] > 0
  BY <1>2, <1>4, <1>5, <1>6
<1>8. \A i, j \in 1 .. l - 1 : i < j => U[i] <= U[j] + slack
  <2> TAKE i, j \in 1 .. l - 1
  <2> HAVE i < j
  <2>1. i + 1 < j + 1 /\ i + 1 \in 1 .. l /\ j + 1 \in 1 .. l
    BY <1>6
  <2>2. QED
    BY <1>2, <1>4, <2>1
<1>9. Behind(rest, what, U, low, high, slack)
  BY <1>4, <1>5, <1>7, <1>8 DEF Behind
<1>10. QED
  BY <1>9 DEF Trail, rest

\* The datagram that is waited for is known by its number, as none lags behind
\* or overtook another by a whole round of them; and none that comes after it
\* lags behind it by more than the others did.
LEMMA TrailTake ==
    ASSUME NEW D, NEW queue \in Seq(D), queue # << >>, NEW what \in {"data", "ack"}, NEW low \in Nat,
           NEW high \in Nat, NEW slack \in Nat, Trail(queue, what, low, high, slack), high <= low,
           slack <= Faults, Head(queue).block = low % Width
    PROVE  /\ Head(queue) = Datagram(what, low) /\ high = low /\ (what = "data" => low > 0)
           /\ Trail(Tail(queue), what, low + 1, high, slack)
<1>1. PICK T : Behind(queue, what, T, low, high, slack)
  BY DEF Trail
<1>2. /\ T \in Seq(Nat) /\ Len(T) = Len(queue)
      /\ \A i \in 1 .. Len(T) :
            /\ queue[i] = Datagram(what, T[i]) /\ T[i] <= high /\ low <= T[i] + slack + 1
            /\ what = "data" => T[i] > 0
      /\ \A i, j \in 1 .. Len(T) : i < j => T[i] <= T[j] + slack
  BY <1>1 DEF Behind
<1> DEFINE U == Tail(T)
           rest == Tail(queue)
           l == Len(T)
<1>3. l \in Nat \ {0} /\ T # << >> /\ Head(queue) = queue[1]
  <2>1. Len(queue) \in Nat \ {0} /\ Head(queue) = queue[1]
    OBVIOUS
  <2>2. QED
    BY <1>2, <2>1
<1>4. U \in Seq(Nat) /\ Len(U) = l - 1 /\ \A i \in 1 .. l - 1 : U[i] = T[i + 1]
  BY <1>2, <1>3
<1>5. Len(rest) = l - 1 /\ \A i \in 1 .. l - 1 : rest[i] = queue[i + 1]
  <2>1. Len(rest) = Len(queue) - 1 /\ \A i \in 1 .. Len(queue) - 1 : rest[i] = queue[i + 1]
    OBVIOUS
  <2>2. QED
    BY <1>2, <2>1
<1>6. \A i \in 1 .. l - 1 : i + 1 \in 1 .. l
  BY <1>3
<1>7. /\ T[1] \in Nat /\ queue[1] = Datagram(what, T[1]) /\ T[1] <= high /\ low <= T[1] + slack + 1
      /\ what = "data" => T[1] > 0
  BY <1>2, <1>3
<1>8. T[1] = low
  <2>1. queue[1].block = T[1] % Width
    BY <1>7 DEF Datagram, Tftp!Data, Tftp!Ack
  <2>2. T[1] <= low /\ low < T[1] + Width
    BY <1>7, TftpBounds
  <2>3. T[1] % Width = low % Width
    BY <1>3, <2>1
  <2>4. QED
    BY <1>7, <2>2, <2>3, SameRemainder, TftpBounds
<1> HIDE DEF U, rest
<1>9. \A i \in 1 .. l - 1 :
         /\ rest[i] = Datagram(what, U[i]) /\ U[i] <= high /\ low + 1 <= U[i] + slack + 1
         /\ what = "data" => U[i] > 0
  <2> TAKE i \in 1 .. l - 1
  <2>1. i + 1 \in 1 .. l /\ 1 \in 1 .. l /\ 1 < i + 1
    BY <1>3
  <2>2. T[1] <= T[i + 1] + slack /\ T[i + 1] \in Nat
    BY <1>2, <2>1
  <2>3. low + 1 <= T[i + 1] + slack + 1
    BY <1>8, <2>2
  <2>4. /\ queue[i + 1] = Datagram(what, T[i + 1]) /\ T[i + 1] <= high
        /\ what = "data" => T[i + 1] > 0
    BY <1>2, <2>1
  <2>5. U[i] = T[i + 1] /\ rest[i] = queue[i + 1]
    BY <1>4, <1>5
  <2>6. QED
    BY <2>3, <2>4, <2>5
<1>10. \A i, j \in 1 .. l - 1 : i < j => U[i] <= U[j] + slack
  <2> TAKE i, j \in 1 .. l - 1
  <2> HAVE i < j
  <2>1. i + 1 < j + 1 /\ i + 1 \in 1 .. l /\ j + 1 \in 1 .. l
    BY <1>6
  <2>2. QED
    BY <1>2, <1>4, <2>1
<1>11. Behind(rest, what, U, low + 1, high, slack)
  BY <1>4, <1>5, <1>9, <1>10 DEF Behind
<1>12. QED
  BY <1>3, <1>7, <1>8, <1>11 DEF Trail, rest

\* A receiver that gets further makes nothing lag that did not, and more faults
\* allow more.
LEMMA TrailLooser ==
    ASSUME NEW queue, NEW what, NEW low \in Nat, NEW high \in Nat, NEW more \in Nat, NEW slack \in Nat,
           Trail(queue, what, low, high, slack), high <= more
    PROVE  Trail(queue, what, low, more, slack) /\ Trail(queue, what, low, more, slack + 1)
<1>1. PICK T : Behind(queue, what, T, low, high, slack)
  BY DEF Trail
<1>2. /\ T \in Seq(Nat) /\ Len(T) = Len(queue)
      /\ \A i \in 1 .. Len(T) :
            /\ queue[i] = Datagram(what, T[i]) /\ T[i] <= high /\ low <= T[i] + slack + 1
            /\ what = "data" => T[i] > 0
      /\ \A i, j \in 1 .. Len(T) : i < j => T[i] <= T[j] + slack
  BY <1>1 DEF Behind
<1>3. \A i \in 1 .. Len(T) : T[i] \in Nat
  BY <1>2
<1>4. ASSUME NEW s \in {slack, slack + 1}
      PROVE  Behind(queue, what, T, low, more, s)
  <2>1. \A i \in 1 .. Len(T) : T[i] <= more /\ low <= T[i] + s + 1
    <3> TAKE i \in 1 .. Len(T)
    <3>1. T[i] \in Nat /\ T[i] <= high /\ low <= T[i] + slack + 1
      BY <1>2, <1>3
    <3>2. QED
      BY <3>1, <1>4
  <2>2. \A i, j \in 1 .. Len(T) : i < j => T[i] <= T[j] + s
    <3> TAKE i, j \in 1 .. Len(T)
    <3> HAVE i < j
    <3>1. T[i] \in Nat /\ T[j] \in Nat /\ T[i] <= T[j] + slack
      BY <1>2, <1>3
    <3>2. QED
      BY <3>1, <1>4
  <2>3. QED
    BY <1>2, <2>1, <2>2 DEF Behind
<1>5. QED
  BY <1>4 DEF Trail

\* A datagram that comes twice.
LEMMA TrailTwice ==
    ASSUME NEW D, NEW queue \in Seq(D), queue # << >>, NEW what, NEW low \in Nat, NEW high \in Nat,
           NEW slack \in Nat, Trail(queue, what, low, high, slack)
    PROVE  Trail(<<Head(queue)>> \o queue, what, low, high, slack)
<1>1. PICK T : Behind(queue, what, T, low, high, slack)
  BY DEF Trail
<1>2. /\ T \in Seq(Nat) /\ Len(T) = Len(queue)
      /\ \A i \in 1 .. Len(T) :
            /\ queue[i] = Datagram(what, T[i]) /\ T[i] <= high /\ low <= T[i] + slack + 1
            /\ what = "data" => T[i] > 0
      /\ \A i, j \in 1 .. Len(T) : i < j => T[i] <= T[j] + slack
  BY <1>1 DEF Behind
<1> DEFINE l == Len(T)
           h == Head(queue)
           t == T[1]
           U == <<t>> \o T
           both == <<h>> \o queue
<1>3. l \in Nat \ {0} /\ h = queue[1] /\ h \in D /\ t \in Nat
  <2>1. Len(queue) \in Nat \ {0} /\ h = queue[1] /\ h \in D
    OBVIOUS
  <2>2. QED
    BY <1>2, <2>1
<1> HIDE DEF t, h
<1>4. U \in Seq(Nat) /\ Len(U) = l + 1 /\ U[1] = t /\ \A i \in 1 .. l : U[i + 1] = T[i]
  <2>1. <<t>> \in Seq(Nat) /\ Len(<<t>>) = 1 /\ <<t>>[1] = t
    BY <1>3
  <2> DEFINE one == <<t>>
  <2> HIDE DEF one
  <2>2. /\ one \o T \in Seq(Nat) /\ Len(one \o T) = Len(one) + Len(T)
        /\ \A i \in 1 .. Len(one) + Len(T) : (one \o T)[i] = IF i <= Len(one) THEN one[i] ELSE T[i - Len(one)]
    BY <1>2, <2>1, ConcatProperties DEF one
  <2>3. Len(one) = 1 /\ one[1] = t
    BY <2>1 DEF one
  <2>4. /\ Len(one \o T) = l + 1 /\ (one \o T)[1] = t
        /\ \A i \in 1 .. l : (one \o T)[i + 1] = T[i]
    BY <1>3, <2>2, <2>3, SMTT(30)
  <2>5. QED
    BY <2>2, <2>4 DEF one
<1>5. Len(both) = l + 1 /\ both[1] = h /\ \A i \in 1 .. l : both[i + 1] = queue[i]
  <2>1. <<h>> \in Seq(D) /\ Len(<<h>>) = 1 /\ <<h>>[1] = h
    BY <1>3
  <2> DEFINE one == <<h>>
  <2> HIDE DEF one
  <2>2. /\ Len(one \o queue) = Len(one) + Len(queue)
        /\ \A i \in 1 .. Len(one) + Len(queue) :
              (one \o queue)[i] = IF i <= Len(one) THEN one[i] ELSE queue[i - Len(one)]
    BY <2>1, ConcatProperties DEF one
  <2>3. Len(one) = 1 /\ one[1] = h /\ Len(queue) = l
    BY <1>2, <2>1 DEF one
  <2>4. /\ Len(one \o queue) = l + 1 /\ (one \o queue)[1] = h
        /\ \A i \in 1 .. l : (one \o queue)[i + 1] = queue[i]
    BY <1>3, <2>2, <2>3
  <2>5. QED
    BY <2>4 DEF one
<1> HIDE DEF U, both
<1>6. \A i \in 1 .. l : T[i] \in Nat
  BY <1>2
<1>7. \A i \in 1 .. l + 1 : i = 1 \/ (i - 1 \in 1 .. l /\ U[i] = T[i - 1] /\ both[i] = queue[i - 1])
  <2> TAKE i \in 1 .. l + 1
  <2>1. i = 1 \/ (i - 1 \in 1 .. l /\ (i - 1) + 1 = i)
    BY <1>3
  <2>2. QED
    BY <1>4, <1>5, <2>1
<1>8. both[1] = queue[1] /\ U[1] = T[1] /\ 1 \in 1 .. l
  BY <1>3, <1>4, <1>5 DEF t
<1>9. \A i \in 1 .. l + 1 :
         /\ both[i] = Datagram(what, U[i]) /\ U[i] <= high /\ low <= U[i] + slack + 1
         /\ what = "data" => U[i] > 0
  BY <1>2, <1>7, <1>8
<1>10. \A i, j \in 1 .. l + 1 : i < j => U[i] <= U[j] + slack
  <2> TAKE i, j \in 1 .. l + 1
  <2> HAVE i < j
  <2>1. j # 1 /\ j - 1 \in 1 .. l /\ U[j] = T[j - 1]
    BY <1>3, <1>7
  <2>2. CASE i # 1
    <3>1. i - 1 \in 1 .. l /\ U[i] = T[i - 1] /\ i - 1 < j - 1
      BY <1>3, <1>7, <2>2
    <3>2. QED
      BY <1>2, <2>1, <3>1
  <2>3. CASE i = 1 /\ j - 1 = 1
    BY <1>6, <1>8, <2>1, <2>3
  <2>4. CASE i = 1 /\ j - 1 # 1
    <3>1. 1 < j - 1
      BY <2>1, <2>4
    <3>2. T[1] <= T[j - 1] + slack
      BY <1>2, <1>8, <2>1, <3>1
    <3>3. QED
      BY <1>8, <2>1, <2>4, <3>2
  <2>5. QED
    BY <2>2, <2>3, <2>4
<1>11. Behind(both, what, U, low, high, slack)
  <2>1. Len(U) = Len(both)
    BY <1>4, <1>5
  <2>2. QED
    BY <1>4, <1>9, <1>10, <2>1 DEF Behind
<1>12. QED
  BY <1>11 DEF Trail, both, h

\* Two datagrams change places: of a transfer that waits for every block, none
\* is more than one block ahead of what lags behind the most.
LEMMA TrailSwapped ==
    ASSUME NEW D, NEW queue \in Seq(D), Len(queue) > 1, NEW what, NEW low \in Nat, NEW high \in Nat,
           NEW slack \in Nat, Trail(queue, what, low, high, slack), high <= low
    PROVE  Trail(<<queue[2], queue[1]>> \o SubSeq(queue, 3, Len(queue)), what, low, high, slack + 1)
<1>1. PICK T : Behind(queue, what, T, low, high, slack)
  BY DEF Trail
<1>2. /\ T \in Seq(Nat) /\ Len(T) = Len(queue)
      /\ \A i \in 1 .. Len(T) :
            /\ queue[i] = Datagram(what, T[i]) /\ T[i] <= high /\ low <= T[i] + slack + 1
            /\ what = "data" => T[i] > 0
      /\ \A i, j \in 1 .. Len(T) : i < j => T[i] <= T[j] + slack
  BY <1>1 DEF Behind
<1> DEFINE l == Len(T)
           at(i) == IF i = 1 THEN 2 ELSE IF i = 2 THEN 1 ELSE i
           U == [i \in 1 .. l |-> T[at(i)]]
           pair == <<queue[2], queue[1]>>
           rest == SubSeq(queue, 3, Len(queue))
           both == pair \o rest
<1>3. l \in Nat /\ l > 1 /\ Len(queue) = l
  BY <1>2, LenProperties
<1>4. \A i \in 1 .. l : T[i] \in Nat /\ queue[i] \in D
  BY <1>2, ElementOfSeq
<1>5. \A i \in 1 .. l : at(i) \in 1 .. l
  BY <1>3
<1>6. U \in Seq(Nat) /\ Len(U) = l /\ \A i \in 1 .. l : U[i] = T[at(i)]
  <2>1. U \in [1 .. l -> Nat]
    BY <1>4, <1>5
  <2>2. \A i \in 1 .. l : U[i] = T[at(i)]
    OBVIOUS
  <2> HIDE DEF U, l
  <2>3. QED
    BY <1>3, <2>1, <2>2
<1>7. Len(both) = l /\ \A i \in 1 .. l : both[i] = queue[at(i)]
  <2>1. pair \in Seq(D) /\ Len(pair) = 2 /\ pair[1] = queue[2] /\ pair[2] = queue[1]
    <3>1. queue[1] \in D /\ queue[2] \in D
      BY <1>3, <1>4
    <3>2. QED
      BY <3>1
  <2>2. rest \in Seq(D) /\ Len(rest) = l - 2 /\ \A i \in 1 .. l - 2 : rest[i] = queue[i + 2]
    <3>1. \A i \in 3 .. l : queue[i] \in D
      BY <1>4
    <3>2. 3 \in Int /\ l \in Int
      BY <1>3
    <3> DEFINE r == SubSeq(queue, 3, l)
    <3>3. /\ r \in Seq(D) /\ Len(r) = IF 3 <= l THEN l - 3 + 1 ELSE 0
          /\ \A i \in 1 .. l - 3 + 1 : r[i] = queue[3 + i - 1]
      BY <3>1, <3>2, SubSeqProperties
    <3> HIDE DEF r
    <3>4. r \in Seq(D) /\ Len(r) = l - 2 /\ \A i \in 1 .. l - 2 : r[i] = queue[i + 2]
      BY <1>3, <3>3
    <3>5. rest = r
      BY <1>3 DEF r
    <3>6. QED
      BY <3>4, <3>5
  <2> HIDE DEF pair, rest
  <2>3. /\ Len(both) = Len(pair) + Len(rest)
        /\ \A i \in 1 .. Len(pair) + Len(rest) : both[i] = IF i <= Len(pair) THEN pair[i] ELSE rest[i - Len(pair)]
    <3>1. pair \in Seq(D) /\ rest \in Seq(D)
      BY <2>1, <2>2
    <3>2. /\ Len(pair \o rest) = Len(pair) + Len(rest)
          /\ \A i \in 1 .. Len(pair) + Len(rest) :
                (pair \o rest)[i] = IF i <= Len(pair) THEN pair[i] ELSE rest[i - Len(pair)]
      BY ONLY <3>1, ConcatProperties
    <3>3. QED
      BY <3>2
  <2> HIDE DEF both
  <2>4. Len(both) = l /\ \A i \in 1 .. l : both[i] = IF i <= 2 THEN pair[i] ELSE rest[i - 2]
    BY <1>3, <2>1, <2>2, <2>3
  <2>5. \A i \in 1 .. l : both[i] = queue[at(i)]
    <3> TAKE i \in 1 .. l
    <3>1. CASE i = 1
      BY <2>1, <2>4, <3>1
    <3>2. CASE i = 2
      BY <2>1, <2>4, <3>2
    <3>3. CASE i > 2
      <4>1. i - 2 \in 1 .. l - 2 /\ (i - 2) + 2 = i /\ at(i) = i
        BY <1>3, <3>3
      <4>2. both[i] = rest[i - 2]
        BY <2>4, <3>3
      <4>3. rest[i - 2] = queue[(i - 2) + 2]
        BY <2>2, <4>1
      <4>4. QED
        BY <4>1, <4>2, <4>3
    <3>4. QED
      BY <1>3, <3>1, <3>2, <3>3
  <2>6. QED
    BY <2>4, <2>5
<1> HIDE DEF U, both
<1>8. \A i \in 1 .. l :
         /\ both[i] = Datagram(what, U[i]) /\ U[i] <= high /\ low <= U[i] + (slack + 1) + 1
         /\ what = "data" => U[i] > 0
  <2> TAKE i \in 1 .. l
  <2> DEFINE k == at(i)
  <2>1. k \in 1 .. l /\ U[i] = T[k] /\ both[i] = queue[k]
    BY <1>5, <1>6, <1>7
  <2> HIDE DEF k
  <2>2. /\ queue[k] = Datagram(what, T[k]) /\ T[k] <= high /\ low <= T[k] + slack + 1
        /\ (what = "data" => T[k] > 0) /\ T[k] \in Nat
    BY <1>2, <1>4, <2>1
  <2>3. low <= T[k] + (slack + 1) + 1
    BY <2>2
  <2>4. QED
    BY <2>1, <2>2, <2>3
<1>9. \A i, j \in 1 .. l : i < j => U[i] <= U[j] + (slack + 1)
  <2> TAKE i, j \in 1 .. l
  <2> DEFINE a == at(i)
             b == at(j)
  <2>1. a \in 1 .. l /\ b \in 1 .. l /\ U[i] = T[a] /\ U[j] = T[b]
    BY <1>5, <1>6
  <2> HIDE DEF a, b
  <2>2. T[a] \in Nat /\ T[b] \in Nat /\ T[a] <= high /\ low <= T[b] + slack + 1
    BY <1>2, <1>4, <2>1
  <2>3. T[a] <= T[b] + (slack + 1)
    BY <2>2
  <2>4. QED
    BY <2>1, <2>3
<1>10. Behind(both, what, U, low, high, slack + 1)
  <2>1. Len(U) = Len(both)
    BY <1>6, <1>7
  <2>2. QED
    BY <1>6, <1>8, <1>9, <2>1 DEF Behind
<1>11. QED
  BY <1>10 DEF Trail, both, pair, rest

\* Whatever the network does to the datagrams under way.
LEMMA TrailDisturbed ==
    ASSUME NEW D, NEW queue \in Seq(D), queue # << >>, NEW what, NEW low \in Nat, NEW high \in Nat,
           NEW slack \in Nat, Trail(queue, what, low, high, slack), high <= low,
           NEW r \in Tftp!Disturbed(queue)
    PROVE  Trail(r, what, low, high, slack + 1)
<1>1. CASE r = Tail(queue)
  <2>1. Trail(r, what, low, high, slack)
    BY <1>1, TrailDrop
  <2>2. QED
    BY <2>1, TrailLooser
<1>2. CASE r = <<Head(queue)>> \o queue
  <2>1. Trail(r, what, low, high, slack)
    BY <1>2, TrailTwice
  <2>2. QED
    BY <2>1, TrailLooser
<1>3. CASE Len(queue) > 1 /\ r = <<queue[2], queue[1]>> \o SubSeq(queue, 3, Len(queue))
  BY <1>3, TrailSwapped
<1>4. QED
  BY <1>1, <1>2, <1>3 DEF Tftp!Disturbed

-----------------------------------------------------------------------------
(* The two ends.  The sender has sent the blocks up to the last, the receiver *)
(* has all of them or all but one; what is under way is data behind what the *)
(* receiver waits for, and acknowledgements behind what the sender waits for. *)

Exchange(data, acks, sent, received, slack) ==
    /\ received \in Nat /\ sent \in Nat /\ received <= sent /\ sent <= received + 1
    /\ Trail(data, "data", received + 1, sent, slack)
    /\ Trail(acks, "ack", sent, received, slack)
Received(list, n) == Len(list) = n /\ \A k \in 1 .. n : list[k] = k

ReadInv(n) ==
    /\ block = last % Width /\ peerBlock = n % Width
    /\ Exchange(toClient, toServer, last, n, faults)
    /\ Received(copy, n)
    /\ (peerDone <=> n = Blocks) /\ (done = "ok" => n = Blocks)
WriteInv(n) ==
    /\ peerBlock = peerLast % Width /\ block = n % Width
    /\ Exchange(toServer, toClient, peerLast, n, faults)
    /\ diskOk => Received(copy, n)
    /\ (peerDone => n = Blocks) /\ (done = "ok" <=> n = Blocks)
TftpInv ==
    /\ Tftp!TypeOK
    /\ ~writing /\ diskOk => \E n \in Nat : ReadInv(n)
    /\ writing => \E n \in Nat : WriteInv(n)

LEMMA NumbersTyped ==
    /\ \A n \in Nat : n % Width \in Tftp!Numbers
                      /\ Tftp!Succ(n % Width) = (n + 1) % Width
    /\ \A n \in Tftp!Numbers : Tftp!Succ(n) \in Tftp!Numbers /\ Tftp!Ack(n) \in Tftp!Datagrams
    /\ \A n \in Tftp!Numbers, k \in 1 .. Blocks : Tftp!Data(n, k) \in Tftp!Datagrams
    /\ 0 \in Tftp!Numbers /\ 1 \in Tftp!Numbers /\ 0 % Width = 0 /\ 1 % Width = 1
<1>1. ASSUME NEW n \in Nat
      PROVE  n % Width \in Tftp!Numbers /\ Tftp!Succ(n % Width) = (n + 1) % Width
  BY TftpBounds, RemainderIs, NextRemainder DEF Tftp!Numbers, Tftp!Succ
<1>2. ASSUME NEW n \in Tftp!Numbers
      PROVE  Tftp!Succ(n) \in Tftp!Numbers /\ Tftp!Ack(n) \in Tftp!Datagrams
  <2>1. n + 1 \in Nat
    BY TftpBounds DEF Tftp!Numbers
  <2>2. (n + 1) % Width \in 0 .. Width - 1
    BY <2>1, TftpBounds, RemainderIs
  <2>3. QED
    BY <2>2 DEF Tftp!Succ, Tftp!Numbers, Tftp!Ack, Tftp!Datagrams
<1>3. ASSUME NEW n \in Tftp!Numbers, NEW k \in 1 .. Blocks
      PROVE  Tftp!Data(n, k) \in Tftp!Datagrams
  BY DEF Tftp!Data, Tftp!Datagrams
<1>4. 0 \in Tftp!Numbers /\ 1 \in Tftp!Numbers
  BY TftpBounds DEF Tftp!Numbers
<1>5. \A k \in {0, 1} : k % Width = k
  <2> TAKE k \in {0, 1}
  <2> DEFINE r == k % Width
             q == k \div Width
  <2>1. r \in 0 .. Width - 1 /\ q \in Nat /\ k = Width * q + r
    BY TftpBounds, RemainderIs
  <2> HIDE DEF r, q
  <2>2. Width * 0 + k = Width * q + r /\ k \in 0 .. Width - 1 /\ 0 \in Int /\ q \in Int
    BY <2>1, TftpBounds
  <2>3. k = r
    BY <2>1, <2>2, SameProduct, TftpBounds
  <2>4. QED
    BY <2>3 DEF r
<1>6. QED
  BY <1>1, <1>2, <1>3, <1>4, <1>5

LEMMA DatagramTyped ==
    /\ \A n \in Nat : Datagram("ack", n) \in Tftp!Datagrams /\ Datagram("ack", n) = Tftp!Ack(n % Width)
    /\ \A n \in 1 .. Blocks : Datagram("data", n) \in Tftp!Datagrams
    /\ \A n \in Nat : Datagram("data", n) = Tftp!Data(n % Width, n)
<1>1. \A n \in Nat : Datagram("ack", n) = Tftp!Ack(n % Width) /\ Datagram("data", n) = Tftp!Data(n % Width, n)
  BY DEF Datagram
<1>2. 1 .. Blocks \subseteq Nat
  BY TftpBounds
<1>3. QED
  BY <1>1, <1>2, NumbersTyped

\* The sender has the acknowledgement it waits for, and goes on.
LEMMA SenderTakes ==
    ASSUME NEW data \in Seq(Tftp!Datagrams), NEW acks \in Seq(Tftp!Datagrams), NEW sent \in Nat,
           NEW received, NEW slack \in 0 .. Faults, Exchange(data, acks, sent, received, slack),
           acks # << >>, Head(acks).block = sent % Width
    PROVE  /\ received = sent
           /\ Exchange(data, Tail(acks), sent, received, slack)
           /\ sent < Blocks => Exchange(Append(data, Datagram("data", sent + 1)), Tail(acks), sent + 1, received, slack)
<1>1. /\ received \in Nat /\ received <= sent /\ sent <= received + 1 /\ slack \in Nat /\ slack <= Faults
      /\ Trail(data, "data", received + 1, sent, slack)
      /\ Trail(acks, "ack", sent, received, slack)
  BY TftpBounds DEF Exchange
<1>2. received = sent /\ Trail(Tail(acks), "ack", sent + 1, received, slack)
  BY <1>1, TrailTake
<1>3. Trail(Tail(acks), "ack", sent, received, slack)
  BY <1>1, TrailDrop
<1>4. ASSUME sent < Blocks
      PROVE  Trail(Append(data, Datagram("data", sent + 1)), "data", received + 1, sent + 1, slack)
  <2>1. sent + 1 \in 1 .. Blocks /\ sent + 1 \in Nat /\ received + 1 \in Nat
    BY <1>1, <1>4, TftpBounds
  <2>2. Datagram("data", sent + 1) \in Tftp!Datagrams
    BY <2>1, DatagramTyped
  <2>3. sent <= sent + 1 /\ received + 1 <= (sent + 1) + slack + 1 /\ sent + 1 > 0
    BY <1>1
  <2>4. QED
    BY <1>1, <2>1, <2>2, <2>3, TrailMore
<1>5. QED
  BY <1>1, <1>2, <1>3, <1>4 DEF Exchange

\* A block is sent again.
LEMMA SenderAgain ==
    ASSUME NEW data \in Seq(Tftp!Datagrams), NEW acks \in Seq(Tftp!Datagrams), NEW sent \in 1 .. Blocks,
           NEW received, NEW slack \in 0 .. Faults, Exchange(data, acks, sent, received, slack)
    PROVE  Exchange(Append(data, Datagram("data", sent)), acks, sent, received, slack)
<1>1. /\ received \in Nat /\ received <= sent /\ sent <= received + 1 /\ slack \in Nat
      /\ Trail(data, "data", received + 1, sent, slack) /\ received + 1 \in Nat /\ sent \in Nat
      /\ Trail(acks, "ack", sent, received, slack)
  BY TftpBounds DEF Exchange
<1>2. Datagram("data", sent) \in Tftp!Datagrams
  BY DatagramTyped
<1>3. sent <= sent /\ received + 1 <= sent + slack + 1 /\ sent > 0
  BY <1>1
<1>4. Trail(Append(data, Datagram("data", sent)), "data", received + 1, sent, slack)
  BY <1>1, <1>2, <1>3, TrailMore
<1>5. QED
  BY <1>1, <1>4 DEF Exchange

\* The receiver has the block it waits for.
LEMMA ReceiverTakes ==
    ASSUME NEW data \in Seq(Tftp!Datagrams), NEW acks \in Seq(Tftp!Datagrams), NEW sent \in Nat,
           NEW received, NEW slack \in 0 .. Faults, Exchange(data, acks, sent, received, slack),
           data # << >>, Head(data).block = (received + 1) % Width
    PROVE  /\ Head(data) = Datagram("data", received + 1) /\ sent = received + 1
           /\ Exchange(Tail(data), Append(acks, Datagram("ack", received + 1)), sent, received + 1, slack)
<1>1. /\ received \in Nat /\ received <= sent /\ sent <= received + 1 /\ slack \in Nat /\ slack <= Faults
      /\ Trail(data, "data", received + 1, sent, slack) /\ received + 1 \in Nat
      /\ Trail(acks, "ack", sent, received, slack)
  BY TftpBounds DEF Exchange
<1>2. /\ Head(data) = Datagram("data", received + 1) /\ sent = received + 1
      /\ Trail(Tail(data), "data", (received + 1) + 1, sent, slack)
  BY <1>1, TrailTake
<1>3. Datagram("ack", received + 1) \in Tftp!Datagrams
  BY <1>1, DatagramTyped
<1>4. received <= received + 1 /\ sent <= (received + 1) + slack + 1
  BY <1>1
<1>5. Trail(Append(acks, Datagram("ack", received + 1)), "ack", sent, received + 1, slack)
  BY <1>1, <1>3, <1>4, TrailMore
<1>6. QED
  BY <1>1, <1>2, <1>5 DEF Exchange

\* The last block is acknowledged again.
LEMMA ReceiverAgain ==
    ASSUME NEW data \in Seq(Tftp!Datagrams), NEW acks \in Seq(Tftp!Datagrams), NEW sent \in Nat,
           NEW received, NEW slack \in 0 .. Faults, Exchange(data, acks, sent, received, slack)
    PROVE  Exchange(data, Append(acks, Datagram("ack", received)), sent, received, slack)
<1>1. /\ received \in Nat /\ received <= sent /\ sent <= received + 1 /\ slack \in Nat
      /\ Trail(data, "data", received + 1, sent, slack)
      /\ Trail(acks, "ack", sent, received, slack)
  BY TftpBounds DEF Exchange
<1>2. Datagram("ack", received) \in Tftp!Datagrams
  BY <1>1, DatagramTyped
<1>3. received <= received /\ sent <= received + slack + 1
  BY <1>1
<1>4. Trail(Append(acks, Datagram("ack", received)), "ack", sent, received, slack)
  BY <1>1, <1>2, <1>3, TrailMore
<1>5. QED
  BY <1>1, <1>4 DEF Exchange

\* A datagram of no use.
LEMMA ExchangeDrops ==
    ASSUME NEW data \in Seq(Tftp!Datagrams), NEW acks \in Seq(Tftp!Datagrams), NEW sent \in Nat,
           NEW received, NEW slack, Exchange(data, acks, sent, received, slack)
    PROVE  /\ data # << >> => Exchange(Tail(data), acks, sent, received, slack)
           /\ acks # << >> => Exchange(data, Tail(acks), sent, received, slack)
<1>1. /\ Trail(data, "data", received + 1, sent, slack)
      /\ Trail(acks, "ack", sent, received, slack)
  BY DEF Exchange
<1>2. /\ data # << >> => Trail(Tail(data), "data", received + 1, sent, slack)
      /\ acks # << >> => Trail(Tail(acks), "ack", sent, received, slack)
  BY <1>1, TrailDrop
<1>3. QED
  BY <1>1, <1>2 DEF Exchange

\* A fault of the network, in one direction.
LEMMA ExchangeDisturbed ==
    ASSUME NEW data \in Seq(Tftp!Datagrams), NEW acks \in Seq(Tftp!Datagrams), NEW sent \in Nat,
           NEW received, NEW slack \in Nat, Exchange(data, acks, sent, received, slack)
    PROVE  /\ \A r \in Tftp!Disturbed(data) : data # << >> => Exchange(r, acks, sent, received, slack + 1)
           /\ \A r \in Tftp!Disturbed(acks) : acks # << >> => Exchange(data, r, sent, received, slack + 1)
<1>1. /\ received \in Nat /\ received <= sent /\ sent <= received + 1 /\ received + 1 \in Nat
      /\ Trail(data, "data", received + 1, sent, slack)
      /\ Trail(acks, "ack", sent, received, slack)
  BY DEF Exchange
<1>2. /\ Trail(data, "data", received + 1, sent, slack + 1)
      /\ Trail(acks, "ack", sent, received, slack + 1)
  BY <1>1, TrailLooser
<1>3. ASSUME NEW r \in Tftp!Disturbed(data), data # << >>
      PROVE  Trail(r, "data", received + 1, sent, slack + 1)
  BY <1>1, <1>3, TrailDisturbed
<1>4. ASSUME NEW r \in Tftp!Disturbed(acks), acks # << >>
      PROVE  Trail(r, "ack", sent, received, slack + 1)
  BY <1>1, <1>4, TrailDisturbed
<1>5. QED
  BY <1>1, <1>2, <1>3, <1>4 DEF Exchange

\* One more block in its place.
LEMMA OneMore ==
    ASSUME NEW list \in Seq(1 .. Blocks), NEW n \in Nat, Received(list, n), n + 1 \in 1 .. Blocks
    PROVE  Received(Append(list, n + 1), n + 1)
<1> DEFINE e == n + 1
           a == Append(list, e)
<1>1. Len(list) = n /\ \A k \in 1 .. n : list[k] = k
  BY DEF Received
<1>2. Len(a) = Len(list) + 1 /\ a[Len(list) + 1] = e /\ \A k \in 1 .. Len(list) : a[k] = list[k]
  BY AppendProperties
<1> HIDE DEF a
<1>3. Len(a) = n + 1 /\ \A k \in 1 .. n + 1 : a[k] = k
  <2>1. \A k \in 1 .. n + 1 : k \in 1 .. n \/ k = n + 1
    OBVIOUS
  <2>2. QED
    BY <1>1, <1>2, <2>1
<1>4. QED
  BY <1>3 DEF Received, a

-----------------------------------------------------------------------------
(* The types of a transfer. *)

LEMMA TftpTypes ==
    ASSUME Tftp!TypeOK
    PROVE  /\ writing \in BOOLEAN /\ diskOk \in BOOLEAN /\ peerDone \in BOOLEAN /\ timer \in BOOLEAN
           /\ block \in Tftp!Numbers /\ peerBlock \in Tftp!Numbers
           /\ writing => last = 0 /\ peerLast \in 0 .. Blocks
           /\ ~writing => last \in 1 .. Blocks /\ peerLast = 0
           /\ retries \in 0 .. MaxRetries /\ peerRetries \in 0 .. MaxRetries
           /\ 0 \in 0 .. MaxRetries
           /\ done \in {"no", "ok", "failed", "deleted"} /\ copy \in Seq(1 .. Blocks)
           /\ toServer \in Seq(Tftp!Datagrams) /\ toClient \in Seq(Tftp!Datagrams)
           /\ faults \in 0 .. Faults
  BY TftpBounds DEF Tftp!TypeOK

\* What a queue of datagrams may become.
LEMMA QueueTyped ==
    ASSUME NEW queue \in Seq(Tftp!Datagrams)
    PROVE  /\ \A d \in Tftp!Datagrams : Append(queue, d) \in Seq(Tftp!Datagrams)
           /\ queue # << >> => Tail(queue) \in Seq(Tftp!Datagrams) /\ Head(queue) \in Tftp!Datagrams
  OBVIOUS

LEMMA HeadTyped ==
    ASSUME NEW d \in Tftp!Datagrams
    PROVE  /\ d.block \in Tftp!Numbers
           /\ d.op = "data" => d.payload \in 1 .. Blocks
  BY DEF Tftp!Datagrams

LEMMA DisturbedTyped ==
    ASSUME NEW queue \in Seq(Tftp!Datagrams), queue # << >>, NEW r \in Tftp!Disturbed(queue)
    PROVE  r \in Seq(Tftp!Datagrams)
<1>1. CASE r = Tail(queue)
  BY <1>1
<1>2. CASE r = <<Head(queue)>> \o queue
  <2> DEFINE h == Head(queue)
             one == <<h>>
  <2>1. h \in Tftp!Datagrams
    OBVIOUS
  <2> HIDE DEF h
  <2>2. one \in Seq(Tftp!Datagrams)
    BY <2>1
  <2>3. one \o queue \in Seq(Tftp!Datagrams)
    BY <2>2, ConcatProperties
  <2>4. QED
    BY <1>2, <2>3 DEF h, one
<1>3. CASE Len(queue) > 1 /\ r = <<queue[2], queue[1]>> \o SubSeq(queue, 3, Len(queue))
  <2> DEFINE pair == <<queue[2], queue[1]>>
             rest == SubSeq(queue, 3, Len(queue))
  <2>1. Len(queue) \in Nat /\ \A i \in 1 .. Len(queue) : queue[i] \in Tftp!Datagrams
    BY LenProperties, ElementOfSeq
  <2>2. pair \in Seq(Tftp!Datagrams)
    BY <1>3, <2>1
  <2>3. rest \in Seq(Tftp!Datagrams)
    <3>1. 3 \in Int /\ Len(queue) \in Int /\ \A i \in 3 .. Len(queue) : queue[i] \in Tftp!Datagrams
      BY <2>1
    <3>2. QED
      BY <3>1, SubSeqProperties
  <2> HIDE DEF pair, rest
  <2>4. pair \o rest \in Seq(Tftp!Datagrams)
    BY <2>2, <2>3, ConcatProperties
  <2>5. QED
    BY <1>3, <2>4 DEF pair, rest
<1>4. QED
  BY <1>1, <1>2, <1>3 DEF Tftp!Disturbed

LEMMA ServerTyped ==
    ASSUME Tftp!TypeOK, Tftp!OnAck \/ Tftp!OnData \/ Tftp!OnTimeout \/ Tftp!ServerStops
    PROVE  Tftp!TypeOK'
<1>1. CASE Tftp!OnAck
  <2>1. /\ ~writing /\ toServer # << >> /\ toServer' = Tail(toServer)
        /\ UNCHANGED <<writing, copy, peerBlock, peerLast, peerRetries, peerDone, faults>>
    BY <1>1 DEF Tftp!OnAck, Tftp!Takes, Tftp!peer
  <2>2. toServer' \in Seq(Tftp!Datagrams)
    BY <2>1, TftpTypes, QueueTyped
  <2>3. /\ block' \in Tftp!Numbers /\ last' \in 1 .. Blocks /\ retries' \in 0 .. MaxRetries
        /\ timer' \in BOOLEAN /\ done' \in {"no", "ok", "failed", "deleted"} /\ diskOk' \in BOOLEAN
        /\ toClient' \in Seq(Tftp!Datagrams)
    <3>1. CASE UNCHANGED <<block, last, retries, timer, done, diskOk, toClient>>
      BY <2>1, <3>1, TftpTypes
    <3>2. CASE /\ retries' = 0 /\ timer' = ~Tftp!Short(last) /\ done' = "ok"
               /\ UNCHANGED <<block, last, diskOk, toClient>>
      BY <2>1, <3>2, TftpTypes DEF Tftp!Short
    <3>3. CASE /\ retries' = 0 /\ timer' = ~Tftp!Short(last) /\ ~Tftp!Short(last)
               /\ Tftp!NextBlock /\ UNCHANGED done
      <4>1. /\ block' = Tftp!Succ(block) /\ toClient' = Append(toClient, Tftp!Data(block', last'))
            /\ (last' = last + 1 /\ UNCHANGED diskOk) \/ (last' = Blocks /\ diskOk' = FALSE)
        BY <3>3 DEF Tftp!NextBlock, Tftp!Send
      <4>2. last \in 1 .. Blocks /\ last # Blocks
        BY <2>1, <3>3, TftpTypes DEF Tftp!Short
      <4>3. last' \in 1 .. Blocks
        BY <4>1, <4>2, TftpBounds
      <4>4. block' \in Tftp!Numbers
        BY <4>1, TftpTypes, NumbersTyped
      <4>5. toClient' \in Seq(Tftp!Datagrams)
        BY <4>1, <4>3, <4>4, TftpTypes, NumbersTyped, QueueTyped
      <4>6. timer' \in BOOLEAN /\ diskOk' \in BOOLEAN
        BY <3>3, <4>1, TftpTypes DEF Tftp!Short
      <4>7. QED
        BY <3>3, <4>3, <4>4, <4>5, <4>6, TftpTypes
    <3>4. QED
      BY <1>1, <3>1, <3>2, <3>3 DEF Tftp!OnAck
  <2>4. QED
    BY <2>1, <2>2, <2>3, TftpTypes DEF Tftp!TypeOK
<1>2. CASE Tftp!OnData
  <2>1. /\ writing /\ toServer # << >> /\ Head(toServer).op = "data" /\ toServer' = Tail(toServer)
        /\ UNCHANGED <<writing, last, peerBlock, peerLast, peerRetries, peerDone, faults>>
    BY <1>2 DEF Tftp!OnData, Tftp!Takes, Tftp!peer
  <2> DEFINE d == Head(toServer)
  <2>2. toServer' \in Seq(Tftp!Datagrams) /\ d.block \in Tftp!Numbers /\ d.payload \in 1 .. Blocks
    BY <2>1, TftpTypes, QueueTyped, HeadTyped
  <2>3. /\ block' \in Tftp!Numbers /\ retries' \in 0 .. MaxRetries
        /\ timer' \in BOOLEAN /\ done' \in {"no", "ok", "failed", "deleted"} /\ diskOk' \in BOOLEAN
        /\ toClient' \in Seq(Tftp!Datagrams) /\ copy' \in Seq(1 .. Blocks)
    <3>1. CASE /\ Tftp!Stored(d.payload) /\ block' = d.block /\ retries' = 0
               /\ toClient' = Append(toClient, Tftp!Ack(d.block))
               /\ done' = (IF Tftp!Short(d.payload) THEN "ok" ELSE done) /\ timer' = ~Tftp!Short(d.payload)
      <4>1. copy' \in Seq(1 .. Blocks) /\ diskOk' \in BOOLEAN
        <5>1. Append(copy, d.payload) \in Seq(1 .. Blocks)
          <6>1. copy \in Seq(1 .. Blocks)
            BY TftpTypes
          <6> HIDE DEF d
          <6>2. QED
            BY <2>2, <6>1, AppendProperties
        <5>2. QED
          BY <3>1, <5>1, TftpTypes DEF Tftp!Stored
      <4>2. toClient' \in Seq(Tftp!Datagrams)
        BY <2>2, <3>1, TftpTypes, NumbersTyped, QueueTyped
      <4>3. QED
        BY <2>2, <3>1, <4>1, <4>2, TftpTypes DEF Tftp!Short
    <3>2. CASE /\ toClient' = Append(toClient, Tftp!Ack(block))
               /\ UNCHANGED <<block, retries, timer, done, diskOk, copy>>
      <4>1. toClient' \in Seq(Tftp!Datagrams)
        BY <3>2, TftpTypes, NumbersTyped, QueueTyped
      <4>2. QED
        BY <3>2, <4>1, TftpTypes
    <3>3. CASE UNCHANGED <<block, retries, timer, done, diskOk, copy, toClient>>
      BY <3>3, TftpTypes
    <3>4. QED
      BY <1>2, <3>1, <3>2, <3>3 DEF Tftp!OnData, Tftp!Send
  <2>4. QED
    BY <2>1, <2>2, <2>3, TftpTypes DEF Tftp!TypeOK
<1>3. CASE Tftp!OnTimeout
  <2>1. UNCHANGED <<writing, block, last, diskOk, copy, toServer, peerBlock, peerLast, peerRetries, peerDone, faults>>
    BY <1>3 DEF Tftp!OnTimeout, Tftp!peer
  <2>2. /\ retries' \in 0 .. MaxRetries /\ timer' \in BOOLEAN /\ done' \in {"no", "ok", "failed", "deleted"}
        /\ toClient' \in Seq(Tftp!Datagrams)
    <3>1. CASE retries >= MaxRetries
      BY <1>3, <3>1, TftpTypes DEF Tftp!OnTimeout
    <3>2. CASE ~(retries >= MaxRetries)
      <4>1. /\ retries' = retries + 1 /\ timer' = Tftp!Rearmed /\ done' = done
            /\ toClient' = Append(toClient, IF writing THEN Tftp!Ack(block) ELSE Tftp!Data(block, last))
        BY <1>3, <3>2 DEF Tftp!OnTimeout, Tftp!Send
      <4>2. retries' \in 0 .. MaxRetries
        BY <3>2, <4>1, TftpTypes, TftpBounds
      <4>3. (IF writing THEN Tftp!Ack(block) ELSE Tftp!Data(block, last)) \in Tftp!Datagrams
        BY TftpTypes, NumbersTyped
      <4>4. toClient' \in Seq(Tftp!Datagrams)
        BY <4>1, <4>3, TftpTypes, QueueTyped
      <4>5. QED
        BY <4>1, <4>2, <4>4, TftpTypes DEF Tftp!Rearmed
    <3>3. QED
      BY <3>1, <3>2
  <2>3. QED
    BY <2>1, <2>2, TftpTypes DEF Tftp!TypeOK
<1>4. CASE Tftp!ServerStops
  <2>1. /\ done' = "deleted" /\ timer' = FALSE
        /\ UNCHANGED <<writing, block, last, retries, diskOk, copy, toServer, toClient, peerBlock, peerLast,
                       peerRetries, peerDone, faults>>
    BY <1>4 DEF Tftp!ServerStops, Tftp!peer
  <2>2. QED
    BY <2>1, TftpTypes DEF Tftp!TypeOK
<1>5. QED
  BY <1>1, <1>2, <1>3, <1>4

LEMMA PeerTyped ==
    ASSUME Tftp!TypeOK, writing => peerBlock = peerLast % Width,
           Tftp!PeerOnData \/ Tftp!PeerOnAck \/ Tftp!PeerOnTimeout \/ Tftp!Fault
    PROVE  Tftp!TypeOK'
<1>1. CASE Tftp!PeerOnData
  <2>1. /\ ~writing /\ toClient # << >> /\ Head(toClient).op = "data" /\ toClient' = Tail(toClient)
        /\ UNCHANGED <<writing, block, last, retries, timer, done, diskOk, peerLast, faults>>
    BY <1>1 DEF Tftp!PeerOnData, Tftp!server
  <2> DEFINE d == Head(toClient)
  <2>2. toClient' \in Seq(Tftp!Datagrams) /\ d.block \in Tftp!Numbers /\ d.payload \in 1 .. Blocks
    BY <2>1, TftpTypes, QueueTyped, HeadTyped
  <2>3. Append(copy, d.payload) \in Seq(1 .. Blocks) /\ Append(toServer, Tftp!Ack(d.block)) \in Seq(Tftp!Datagrams)
    <3>1. Append(toServer, Tftp!Ack(d.block)) \in Seq(Tftp!Datagrams)
      BY <2>2, TftpTypes, NumbersTyped, QueueTyped
    <3>2. copy \in Seq(1 .. Blocks)
      BY TftpTypes
    <3>3. Append(copy, d.payload) \in Seq(1 .. Blocks)
      <4> HIDE DEF d
      <4>1. QED
        BY <2>2, <3>2, AppendProperties
    <3>4. QED
      BY <3>1, <3>3
  <2>4. /\ copy' \in Seq(1 .. Blocks) /\ peerBlock' \in Tftp!Numbers /\ peerRetries' \in 0 .. MaxRetries
        /\ peerDone' \in BOOLEAN /\ toServer' \in Seq(Tftp!Datagrams)
    <3>1. CASE /\ copy' = Append(copy, d.payload) /\ peerBlock' = d.block /\ peerRetries' = 0
               /\ peerDone' = Tftp!Short(d.payload) /\ toServer' = Append(toServer, Tftp!Ack(d.block))
      BY <2>2, <2>3, <3>1, TftpTypes DEF Tftp!Short
    <3>2. CASE /\ toServer' = Append(toServer, Tftp!Ack(d.block))
               /\ UNCHANGED <<copy, peerBlock, peerRetries, peerDone>>
      BY <2>3, <3>2, TftpTypes
    <3>3. CASE UNCHANGED <<copy, peerBlock, peerRetries, peerDone, toServer>>
      BY <3>3, TftpTypes
    <3>4. QED
      BY <1>1, <3>1, <3>2, <3>3 DEF Tftp!PeerOnData, Tftp!Reply
  <2>5. QED
    BY <2>1, <2>2, <2>4, TftpTypes DEF Tftp!TypeOK
<1>2. CASE Tftp!PeerOnAck
  <2>1. /\ writing /\ toClient # << >> /\ toClient' = Tail(toClient)
        /\ UNCHANGED <<writing, block, last, retries, timer, done, diskOk, copy, faults>>
    BY <1>2 DEF Tftp!PeerOnAck, Tftp!server
  <2>2. toClient' \in Seq(Tftp!Datagrams)
    BY <2>1, TftpTypes, QueueTyped
  <2>3. /\ peerBlock' \in Tftp!Numbers /\ peerLast' \in 0 .. Blocks /\ peerRetries' \in 0 .. MaxRetries
        /\ peerDone' \in BOOLEAN /\ toServer' \in Seq(Tftp!Datagrams)
    <3>1. CASE UNCHANGED <<peerBlock, peerLast, peerRetries, peerDone, toServer>>
      BY <2>1, <3>1, TftpTypes
    <3>2. CASE /\ peerRetries' = 0 /\ peerDone' = TRUE /\ UNCHANGED <<peerBlock, peerLast, toServer>>
      BY <2>1, <3>2, TftpTypes
    <3>3. CASE /\ peerRetries' = 0 /\ peerLast # Blocks /\ peerBlock' = Tftp!Succ(peerBlock)
               /\ peerLast' = peerLast + 1
               /\ toServer' = Append(toServer, Tftp!Data(peerBlock', peerLast')) /\ UNCHANGED peerDone
      <4>1. peerLast' \in 1 .. Blocks
        BY <2>1, <3>3, TftpTypes, TftpBounds
      <4>2. peerBlock' \in Tftp!Numbers
        BY <3>3, TftpTypes, NumbersTyped
      <4>3. toServer' \in Seq(Tftp!Datagrams)
        BY <3>3, <4>1, <4>2, TftpTypes, NumbersTyped, QueueTyped
      <4>4. QED
        BY <3>3, <4>1, <4>2, <4>3, TftpTypes
    <3>4. QED
      BY <1>2, <3>1, <3>2, <3>3 DEF Tftp!PeerOnAck, Tftp!Reply, Tftp!peer
  <2>4. QED
    BY <2>1, <2>2, <2>3, TftpTypes DEF Tftp!TypeOK
<1>3. CASE Tftp!PeerOnTimeout
  <2>1. /\ peerBlock # 0 /\ peerRetries < MaxRetries /\ peerRetries' = peerRetries + 1
        /\ toServer' = Append(toServer, IF writing THEN Tftp!Data(peerBlock, peerLast) ELSE Tftp!Ack(peerBlock))
        /\ UNCHANGED <<writing, block, last, retries, timer, done, diskOk, copy, toClient, peerBlock, peerLast,
                       peerDone, faults>>
    BY <1>3 DEF Tftp!PeerOnTimeout, Tftp!server, Tftp!Reply
  <2>2. writing => peerLast \in 1 .. Blocks
    <3>1. writing => peerLast # 0
      BY <2>1, NumbersTyped
    <3>2. QED
      BY <3>1, TftpTypes
  <2>3. (IF writing THEN Tftp!Data(peerBlock, peerLast) ELSE Tftp!Ack(peerBlock)) \in Tftp!Datagrams
    BY <2>2, TftpTypes, NumbersTyped
  <2>4. toServer' \in Seq(Tftp!Datagrams)
    BY <2>1, <2>3, TftpTypes, QueueTyped
  <2>5. peerRetries' \in 0 .. MaxRetries
    BY <2>1, TftpTypes, TftpBounds
  <2>6. QED
    BY <2>1, <2>4, <2>5, TftpTypes DEF Tftp!TypeOK
<1>4. CASE Tftp!Fault
  <2>1. /\ faults < Faults /\ faults' = faults + 1
        /\ UNCHANGED <<writing, block, last, retries, timer, done, diskOk, copy, peerBlock, peerLast,
                       peerRetries, peerDone>>
        /\ \/ toServer # << >> /\ toServer' \in Tftp!Disturbed(toServer) /\ UNCHANGED toClient
           \/ toClient # << >> /\ toClient' \in Tftp!Disturbed(toClient) /\ UNCHANGED toServer
    BY <1>4 DEF Tftp!Fault, Tftp!server, Tftp!peer
  <2>2. faults' \in 0 .. Faults
    BY <2>1, TftpTypes, TftpBounds
  <2>3. toServer' \in Seq(Tftp!Datagrams) /\ toClient' \in Seq(Tftp!Datagrams)
    BY <2>1, TftpTypes, DisturbedTyped
  <2>4. QED
    BY <2>1, <2>2, <2>3, TftpTypes DEF Tftp!TypeOK
<1>5. QED
  BY <1>1, <1>2, <1>3, <1>4

-----------------------------------------------------------------------------
(* Each step of a read, as long as the disk has not failed. *)

\* What a read is known by.
LEMMA ReadKnown ==
    ASSUME Tftp!TypeOK, NEW n \in Nat, ReadInv(n), ~writing
    PROVE  /\ block = last % Width /\ peerBlock = n % Width /\ Received(copy, n)
           /\ Exchange(toClient, toServer, last, n, faults)
           /\ (peerDone <=> n = Blocks) /\ (done = "ok" => n = Blocks)
           /\ last \in 1 .. Blocks /\ last \in Nat /\ n \in 0 .. Blocks /\ n <= last /\ last <= n + 1
           /\ faults \in 0 .. Faults
           /\ toServer \in Seq(Tftp!Datagrams) /\ toClient \in Seq(Tftp!Datagrams)
<1>1. Exchange(toClient, toServer, last, n, faults) /\ last \in 1 .. Blocks
  BY TftpTypes DEF ReadInv
<1>2. n <= last /\ last <= n + 1
  BY <1>1 DEF Exchange
<1>3. n \in 0 .. Blocks /\ last \in Nat
  BY <1>1, <1>2, TftpBounds
<1>4. QED
  BY <1>1, <1>2, <1>3, TftpTypes DEF ReadInv

LEMMA OnAckReads ==
    ASSUME Tftp!TypeOK, NEW n \in Nat, ReadInv(n), ~writing, diskOk', Tftp!OnAck
    PROVE  \E m \in Nat : ReadInv(m)'
<1>1. /\ toServer # << >> /\ toServer' = Tail(toServer)
      /\ UNCHANGED <<copy, peerBlock, peerDone, faults>>
  BY DEF Tftp!OnAck, Tftp!Takes, Tftp!peer
<1>2. CASE UNCHANGED <<block, last, done, toClient>> /\ Head(toServer).block # block
  <2>1. Exchange(toClient, Tail(toServer), last, n, faults)
    BY <1>1, ReadKnown, ExchangeDrops
  <2>2. ReadInv(n)'
    BY <1>1, <1>2, <2>1, ReadKnown DEF ReadInv
  <2>3. QED
    BY <2>2
<1>3. CASE Head(toServer).block = block /\ last = Blocks
  <2>1. done' = "ok" /\ UNCHANGED <<block, last, toClient>>
    BY <1>3 DEF Tftp!OnAck, Tftp!Current, Tftp!Short
  <2>2. n = last /\ Exchange(toClient, Tail(toServer), last, n, faults)
    BY <1>1, <1>3, ReadKnown, SenderTakes
  <2>3. ReadInv(n)'
    BY <1>1, <1>3, <2>1, <2>2, ReadKnown DEF ReadInv
  <2>4. QED
    BY <2>3
<1>4. CASE Head(toServer).block = block /\ last # Blocks
  <2>1. /\ block' = Tftp!Succ(block) /\ last' = last + 1 /\ UNCHANGED done
        /\ toClient' = Append(toClient, Tftp!Data(block', last'))
    <3>1. Tftp!NextBlock /\ UNCHANGED done
      BY <1>4 DEF Tftp!OnAck, Tftp!Current, Tftp!Short
    <3>2. QED
      BY <3>1 DEF Tftp!NextBlock, Tftp!Send
  <2>2. last < Blocks
    BY <1>4, ReadKnown, TftpBounds
  <2>3. /\ n = last
        /\ Exchange(Append(toClient, Datagram("data", last + 1)), Tail(toServer), last + 1, n, faults)
    BY <1>1, <1>4, <2>2, ReadKnown, SenderTakes
  <2>4. block' = last' % Width /\ toClient' = Append(toClient, Datagram("data", last + 1))
    <3>1. block' = (last + 1) % Width
      BY <2>1, ReadKnown, NumbersTyped
    <3>2. last + 1 \in Nat
      BY ReadKnown
    <3>3. Datagram("data", last + 1) = Tftp!Data((last + 1) % Width, last + 1)
      BY <3>2, DatagramTyped
    <3>4. QED
      BY <2>1, <3>1, <3>3
  <2>5. Exchange(toClient', toServer', last', n, faults')
    BY <1>1, <2>1, <2>3, <2>4
  <2>6. ReadInv(n)'
    BY <1>1, <2>1, <2>4, <2>5, ReadKnown DEF ReadInv
  <2>7. QED
    BY <2>6
<1>5. QED
  BY <1>2, <1>3, <1>4 DEF Tftp!OnAck, Tftp!Current

LEMMA OnTimeoutReads ==
    ASSUME Tftp!TypeOK, NEW n \in Nat, ReadInv(n), ~writing, Tftp!OnTimeout
    PROVE  ReadInv(n)'
<1>1. UNCHANGED <<block, last, copy, toServer, peerBlock, peerDone, faults>> /\ done = "no"
  BY DEF Tftp!OnTimeout, Tftp!peer
<1>2. CASE done' = "failed" /\ UNCHANGED toClient
  BY <1>1, <1>2, ReadKnown DEF ReadInv
<1>3. CASE UNCHANGED done /\ toClient' = Append(toClient, Tftp!Data(block, last))
  <2>1. Exchange(Append(toClient, Datagram("data", last)), toServer, last, n, faults)
    BY ReadKnown, SenderAgain
  <2>2. Datagram("data", last) = Tftp!Data(block, last)
    BY ReadKnown, DatagramTyped
  <2>3. QED
    BY <1>1, <1>3, <2>1, <2>2, ReadKnown DEF ReadInv
<1>4. QED
  BY <1>2, <1>3 DEF Tftp!OnTimeout, Tftp!Send

LEMMA StopReads ==
    ASSUME Tftp!TypeOK, NEW n \in Nat, ReadInv(n), ~writing, Tftp!ServerStops
    PROVE  ReadInv(n)'
<1>1. /\ UNCHANGED <<block, last, copy, toServer, toClient, peerBlock, peerDone, faults>>
      /\ done' = "deleted"
  BY DEF Tftp!ServerStops, Tftp!peer
<1>2. QED
  BY <1>1, ReadKnown DEF ReadInv

LEMMA PeerOnDataReads ==
    ASSUME Tftp!TypeOK, NEW n \in Nat, ReadInv(n), ~writing, Tftp!PeerOnData
    PROVE  \E m \in Nat : ReadInv(m)'
<1> DEFINE d == Head(toClient)
<1>1. /\ toClient # << >> /\ toClient' = Tail(toClient)
      /\ UNCHANGED <<block, last, done, faults>>
  BY DEF Tftp!PeerOnData, Tftp!server
<1>2. CASE /\ d.block = Tftp!Succ(peerBlock) /\ ~peerDone
           /\ copy' = Append(copy, d.payload) /\ peerBlock' = d.block
           /\ peerDone' = Tftp!Short(d.payload) /\ toServer' = Append(toServer, Tftp!Ack(d.block))
  <2>1. d.block = (n + 1) % Width
    BY <1>2, ReadKnown, NumbersTyped
  <2>2. /\ d = Datagram("data", n + 1) /\ last = n + 1
        /\ Exchange(Tail(toClient), Append(toServer, Datagram("ack", n + 1)), last, n + 1, faults)
    BY <1>1, <2>1, ReadKnown, ReceiverTakes
  <2>3. n + 1 \in Nat /\ d.payload = n + 1 /\ Datagram("ack", n + 1) = Tftp!Ack(d.block)
    <3>1. n + 1 \in Nat
      OBVIOUS
    <3>2. d = Tftp!Data((n + 1) % Width, n + 1)
      BY <2>2, <3>1, DatagramTyped
    <3>3. QED
      BY <2>1, <3>1, <3>2, DatagramTyped DEF Tftp!Data
  <2>4. n + 1 \in 1 .. Blocks
    BY <2>2, ReadKnown
  <2>5. Received(Append(copy, n + 1), n + 1)
    BY <2>4, ReadKnown, TftpTypes, OneMore
  <2>6. peerDone' <=> n + 1 = Blocks
    BY <1>2, <2>3 DEF Tftp!Short
  <2>7. done = "ok" => FALSE
    BY <1>2, ReadKnown
  <2>8. ReadInv(n + 1)'
    BY <1>1, <1>2, <2>1, <2>2, <2>3, <2>5, <2>6, <2>7, ReadKnown DEF ReadInv
  <2>9. QED
    BY <2>3, <2>8
<1>3. CASE /\ d.block = peerBlock /\ toServer' = Append(toServer, Tftp!Ack(d.block))
           /\ UNCHANGED <<copy, peerBlock, peerDone>>
  <2>1. Exchange(toClient, Append(toServer, Datagram("ack", n)), last, n, faults)
    BY ReadKnown, ReceiverAgain
  <2>2. Datagram("ack", n) = Tftp!Ack(d.block) /\ toServer' \in Seq(Tftp!Datagrams)
    <3>1. Datagram("ack", n) = Tftp!Ack(d.block) /\ Datagram("ack", n) \in Tftp!Datagrams
      BY <1>3, ReadKnown, DatagramTyped
    <3>2. QED
      BY <1>3, <3>1, ReadKnown, QueueTyped
  <2>3. Exchange(toClient, toServer', last, n, faults)
    BY <1>3, <2>1, <2>2
  <2>4. Exchange(Tail(toClient), toServer', last, n, faults)
    BY <1>1, <2>2, <2>3, ReadKnown, ExchangeDrops
  <2>5. ReadInv(n)'
    BY <1>1, <1>3, <2>4, ReadKnown DEF ReadInv
  <2>6. QED
    BY <2>5
<1>4. CASE UNCHANGED <<copy, peerBlock, peerDone, toServer>>
  <2>1. Exchange(Tail(toClient), toServer, last, n, faults)
    BY <1>1, ReadKnown, ExchangeDrops
  <2>2. ReadInv(n)'
    BY <1>1, <1>4, <2>1, ReadKnown DEF ReadInv
  <2>3. QED
    BY <2>2
<1>5. QED
  BY <1>2, <1>3, <1>4 DEF Tftp!PeerOnData, Tftp!Reply

LEMMA PeerOnTimeoutReads ==
    ASSUME Tftp!TypeOK, NEW n \in Nat, ReadInv(n), ~writing, Tftp!PeerOnTimeout
    PROVE  ReadInv(n)'
<1>1. /\ toServer' = Append(toServer, Tftp!Ack(peerBlock))
      /\ UNCHANGED <<block, last, done, copy, toClient, peerBlock, peerDone, faults>>
  BY DEF Tftp!PeerOnTimeout, Tftp!server, Tftp!Reply
<1>2. Exchange(toClient, Append(toServer, Datagram("ack", n)), last, n, faults)
  BY ReadKnown, ReceiverAgain
<1>3. Datagram("ack", n) = Tftp!Ack(peerBlock)
  BY ReadKnown, DatagramTyped
<1>4. QED
  BY <1>1, <1>2, <1>3, ReadKnown DEF ReadInv

LEMMA FaultReads ==
    ASSUME Tftp!TypeOK, NEW n \in Nat, ReadInv(n), ~writing, Tftp!Fault
    PROVE  ReadInv(n)'
<1>1. /\ faults' = faults + 1
      /\ UNCHANGED <<block, last, done, copy, peerBlock, peerDone>>
      /\ \/ toServer # << >> /\ toServer' \in Tftp!Disturbed(toServer) /\ UNCHANGED toClient
         \/ toClient # << >> /\ toClient' \in Tftp!Disturbed(toClient) /\ UNCHANGED toServer
  BY DEF Tftp!Fault, Tftp!server, Tftp!peer
<1>2. faults \in Nat
  BY ReadKnown, TftpBounds
<1>3. Exchange(toClient', toServer', last, n, faults + 1)
  BY <1>1, <1>2, ReadKnown, ExchangeDisturbed
<1>4. QED
  BY <1>1, <1>3, ReadKnown DEF ReadInv

-----------------------------------------------------------------------------
(* Each step of a write. *)

LEMMA WriteKnown ==
    ASSUME Tftp!TypeOK, NEW n \in Nat, WriteInv(n), writing
    PROVE  /\ peerBlock = peerLast % Width /\ block = n % Width /\ (diskOk => Received(copy, n))
           /\ Exchange(toServer, toClient, peerLast, n, faults)
           /\ (peerDone => n = Blocks) /\ (done = "ok" <=> n = Blocks)
           /\ peerLast \in 0 .. Blocks /\ peerLast \in Nat /\ n \in 0 .. Blocks
           /\ n <= peerLast /\ peerLast <= n + 1
           /\ faults \in 0 .. Faults
           /\ toServer \in Seq(Tftp!Datagrams) /\ toClient \in Seq(Tftp!Datagrams)
<1>1. Exchange(toServer, toClient, peerLast, n, faults) /\ peerLast \in 0 .. Blocks
  BY TftpTypes DEF WriteInv
<1>2. n <= peerLast /\ peerLast <= n + 1
  BY <1>1 DEF Exchange
<1>3. n \in 0 .. Blocks /\ peerLast \in Nat
  BY <1>1, <1>2, TftpBounds
<1>4. QED
  BY <1>1, <1>2, <1>3, TftpTypes DEF WriteInv

LEMMA OnDataWrites ==
    ASSUME Tftp!TypeOK, NEW n \in Nat, WriteInv(n), writing, Tftp!OnData
    PROVE  \E m \in Nat : WriteInv(m)'
<1> DEFINE d == Head(toServer)
<1>1. /\ toServer # << >> /\ toServer' = Tail(toServer) /\ done = "no"
      /\ UNCHANGED <<peerBlock, peerLast, peerDone, faults>>
  BY DEF Tftp!OnData, Tftp!Takes, Tftp!peer
<1>2. CASE /\ d.block = Tftp!Succ(block) /\ Tftp!Stored(d.payload) /\ block' = d.block
           /\ toClient' = Append(toClient, Tftp!Ack(d.block))
           /\ done' = (IF Tftp!Short(d.payload) THEN "ok" ELSE done)
  <2>1. d.block = (n + 1) % Width
    BY <1>2, WriteKnown, NumbersTyped
  <2>2. /\ d = Datagram("data", n + 1) /\ peerLast = n + 1
        /\ Exchange(Tail(toServer), Append(toClient, Datagram("ack", n + 1)), peerLast, n + 1, faults)
    BY <1>1, <2>1, WriteKnown, ReceiverTakes
  <2>3. n + 1 \in Nat /\ d.payload = n + 1 /\ Datagram("ack", n + 1) = Tftp!Ack(d.block)
    <3>1. n + 1 \in Nat
      OBVIOUS
    <3>2. d = Tftp!Data((n + 1) % Width, n + 1)
      BY <2>2, <3>1, DatagramTyped
    <3>3. QED
      BY <2>1, <3>1, <3>2, DatagramTyped DEF Tftp!Data
  <2>4. n + 1 \in 1 .. Blocks
    BY <2>2, WriteKnown
  <2>5. diskOk' => Received(copy', n + 1)
    <3>1. CASE copy' = Append(copy, d.payload) /\ UNCHANGED diskOk
      BY <2>3, <2>4, <3>1, WriteKnown, TftpTypes, OneMore
    <3>2. CASE diskOk' = FALSE
      BY <3>2
    <3>3. QED
      BY <1>2, <3>1, <3>2 DEF Tftp!Stored
  <2>6. done' = "ok" <=> n + 1 = Blocks
    BY <1>1, <1>2, <2>3 DEF Tftp!Short
  <2>7. ~peerDone
    BY <1>1, WriteKnown
  <2>8. WriteInv(n + 1)'
    BY <1>1, <1>2, <2>1, <2>2, <2>3, <2>5, <2>6, <2>7, WriteKnown DEF WriteInv
  <2>9. QED
    BY <2>3, <2>8
<1>3. CASE /\ toClient' = Append(toClient, Tftp!Ack(block))
           /\ UNCHANGED <<block, done, diskOk, copy>>
  <2>1. Exchange(toServer, Append(toClient, Datagram("ack", n)), peerLast, n, faults)
    BY WriteKnown, ReceiverAgain
  <2>2. Datagram("ack", n) = Tftp!Ack(block) /\ toClient' \in Seq(Tftp!Datagrams)
    <3>1. Datagram("ack", n) = Tftp!Ack(block) /\ Datagram("ack", n) \in Tftp!Datagrams
      BY WriteKnown, DatagramTyped
    <3>2. QED
      BY <1>3, <3>1, WriteKnown, QueueTyped
  <2>3. Exchange(toServer, toClient', peerLast, n, faults)
    BY <1>3, <2>1, <2>2
  <2>4. Exchange(Tail(toServer), toClient', peerLast, n, faults)
    BY <1>1, <2>2, <2>3, WriteKnown, ExchangeDrops
  <2>5. WriteInv(n)'
    BY <1>1, <1>3, <2>4, WriteKnown DEF WriteInv
  <2>6. QED
    BY <2>5
<1>4. CASE UNCHANGED <<block, done, diskOk, copy, toClient>>
  <2>1. Exchange(Tail(toServer), toClient, peerLast, n, faults)
    BY <1>1, WriteKnown, ExchangeDrops
  <2>2. WriteInv(n)'
    BY <1>1, <1>4, <2>1, WriteKnown DEF WriteInv
  <2>3. QED
    BY <2>2
<1>5. QED
  BY <1>2, <1>3, <1>4 DEF Tftp!OnData, Tftp!Send

LEMMA OnTimeoutWrites ==
    ASSUME Tftp!TypeOK, NEW n \in Nat, WriteInv(n), writing, Tftp!OnTimeout
    PROVE  WriteInv(n)'
<1>1. /\ UNCHANGED <<block, diskOk, copy, toServer, peerBlock, peerLast, peerDone, faults>>
      /\ done = "no"
  BY DEF Tftp!OnTimeout, Tftp!peer
<1>2. CASE done' = "failed" /\ UNCHANGED toClient
  BY <1>1, <1>2, WriteKnown DEF WriteInv
<1>3. CASE UNCHANGED done /\ toClient' = Append(toClient, Tftp!Ack(block))
  <2>1. Exchange(toServer, Append(toClient, Datagram("ack", n)), peerLast, n, faults)
    BY WriteKnown, ReceiverAgain
  <2>2. Datagram("ack", n) = Tftp!Ack(block)
    BY WriteKnown, DatagramTyped
  <2>3. QED
    BY <1>1, <1>3, <2>1, <2>2, WriteKnown DEF WriteInv
<1>4. QED
  BY <1>2, <1>3 DEF Tftp!OnTimeout, Tftp!Send

LEMMA StopWrites ==
    ASSUME Tftp!TypeOK, NEW n \in Nat, WriteInv(n), writing, Tftp!ServerStops
    PROVE  WriteInv(n)'
<1>1. /\ UNCHANGED <<block, diskOk, copy, toServer, toClient, peerBlock, peerLast, peerDone, faults>>
      /\ done = "no" /\ done' = "deleted"
  BY DEF Tftp!ServerStops, Tftp!peer
<1>2. QED
  BY <1>1, WriteKnown DEF WriteInv

LEMMA PeerOnAckWrites ==
    ASSUME Tftp!TypeOK, NEW n \in Nat, WriteInv(n), writing, Tftp!PeerOnAck
    PROVE  WriteInv(n)'
<1>1. /\ toClient # << >> /\ toClient' = Tail(toClient)
      /\ UNCHANGED <<block, done, diskOk, copy, faults>>
  BY DEF Tftp!PeerOnAck, Tftp!server
<1>2. Exchange(toServer, Tail(toClient), peerLast, n, faults)
  BY <1>1, WriteKnown, ExchangeDrops
<1>3. CASE UNCHANGED <<peerBlock, peerLast, peerDone, toServer>>
  BY <1>1, <1>2, <1>3, WriteKnown DEF WriteInv
<1>4. CASE /\ Head(toClient).block = peerBlock /\ peerLast = Blocks
           /\ peerDone' = TRUE /\ UNCHANGED <<peerBlock, peerLast, toServer>>
  <2>1. n = peerLast
    BY <1>1, <1>4, WriteKnown, SenderTakes
  <2>2. QED
    BY <1>1, <1>2, <1>4, <2>1, WriteKnown DEF WriteInv
<1>5. CASE /\ Head(toClient).block = peerBlock /\ peerLast # Blocks
           /\ peerBlock' = Tftp!Succ(peerBlock) /\ peerLast' = peerLast + 1
           /\ toServer' = Append(toServer, Tftp!Data(peerBlock', peerLast'))
           /\ UNCHANGED peerDone
  <2>1. peerLast < Blocks
    BY <1>5, WriteKnown, TftpBounds
  <2>2. /\ n = peerLast
        /\ Exchange(Append(toServer, Datagram("data", peerLast + 1)), Tail(toClient), peerLast + 1, n, faults)
    BY <1>1, <1>5, <2>1, WriteKnown, SenderTakes
  <2>3. peerBlock' = peerLast' % Width /\ toServer' = Append(toServer, Datagram("data", peerLast + 1))
    <3>1. peerBlock' = (peerLast + 1) % Width
      BY <1>5, WriteKnown, NumbersTyped
    <3>2. peerLast + 1 \in Nat
      BY WriteKnown
    <3>3. Datagram("data", peerLast + 1) = Tftp!Data((peerLast + 1) % Width, peerLast + 1)
      BY <3>2, DatagramTyped
    <3>4. QED
      BY <1>5, <3>1, <3>3
  <2>4. Exchange(toServer', toClient', peerLast', n, faults')
    BY <1>1, <1>5, <2>2, <2>3
  <2>5. QED
    BY <1>1, <1>5, <2>3, <2>4, WriteKnown DEF WriteInv
<1>6. QED
  BY <1>3, <1>4, <1>5 DEF Tftp!PeerOnAck, Tftp!Reply, Tftp!peer

LEMMA PeerOnTimeoutWrites ==
    ASSUME Tftp!TypeOK, NEW n \in Nat, WriteInv(n), writing, Tftp!PeerOnTimeout
    PROVE  WriteInv(n)'
<1>1. /\ toServer' = Append(toServer, Tftp!Data(peerBlock, peerLast)) /\ peerBlock # 0
      /\ UNCHANGED <<block, done, diskOk, copy, toClient, peerBlock, peerLast, peerDone, faults>>
  BY DEF Tftp!PeerOnTimeout, Tftp!server, Tftp!Reply
<1>2. peerLast \in 1 .. Blocks
  <2>1. peerLast # 0
    BY <1>1, WriteKnown, NumbersTyped
  <2>2. QED
    BY <2>1, WriteKnown
<1>3. Exchange(Append(toServer, Datagram("data", peerLast)), toClient, peerLast, n, faults)
  BY <1>2, WriteKnown, SenderAgain
<1>4. Datagram("data", peerLast) = Tftp!Data(peerBlock, peerLast)
  BY WriteKnown, DatagramTyped
<1>5. QED
  BY <1>1, <1>3, <1>4, WriteKnown DEF WriteInv

LEMMA FaultWrites ==
    ASSUME Tftp!TypeOK, NEW n \in Nat, WriteInv(n), writing, Tftp!Fault
    PROVE  WriteInv(n)'
<1>1. /\ faults' = faults + 1
      /\ UNCHANGED <<block, done, diskOk, copy, peerBlock, peerLast, peerDone>>
      /\ \/ toServer # << >> /\ toServer' \in Tftp!Disturbed(toServer) /\ UNCHANGED toClient
         \/ toClient # << >> /\ toClient' \in Tftp!Disturbed(toClient) /\ UNCHANGED toServer
  BY DEF Tftp!Fault, Tftp!server, Tftp!peer
<1>2. faults \in Nat
  BY WriteKnown, TftpBounds
<1>3. Exchange(toServer', toClient', peerLast, n, faults + 1)
  BY <1>1, <1>2, WriteKnown, ExchangeDisturbed
<1>4. QED
  BY <1>1, <1>3, WriteKnown DEF WriteInv

-----------------------------------------------------------------------------

LEMMA TftpInit ==
    ASSUME Tftp!Init
    PROVE  TftpInv
<1>1. /\ writing \in BOOLEAN /\ retries = 0 /\ timer = TRUE /\ done = "no" /\ copy = << >>
      /\ toServer = << >> /\ peerBlock = 0 /\ peerLast = 0 /\ peerRetries = 0 /\ peerDone = FALSE
      /\ faults = 0
  BY DEF Tftp!Init
<1>2. Received(copy, 0) /\ 0 \in Nat /\ 0 % Width = 0 /\ 1 % Width = 1 /\ 0 # Blocks
  BY <1>1, TftpBounds, NumbersTyped DEF Received
<1>20. /\ 0 \in 0 .. MaxRetries /\ 0 \in 0 .. Faults /\ 0 \in 0 .. Blocks
       /\ 0 \in Tftp!Numbers /\ 1 \in Tftp!Numbers
  BY TftpBounds DEF Tftp!Numbers
<1>21. /\ writing \in BOOLEAN /\ peerDone \in BOOLEAN /\ timer \in BOOLEAN /\ peerBlock \in Tftp!Numbers
       /\ peerLast \in (IF writing THEN 0 .. Blocks ELSE {0})
       /\ retries \in 0 .. MaxRetries /\ peerRetries \in 0 .. MaxRetries
       /\ done \in {"no", "ok", "failed", "deleted"} /\ faults \in 0 .. Faults
  BY <1>1, <1>20
<1>3. CASE writing
  <2>1. block = 0 /\ last = 0 /\ diskOk = TRUE /\ toClient = <<Tftp!Ack(0)>>
    BY <1>3 DEF Tftp!Init
  <2> DEFINE a == Datagram("ack", 0)
  <2>2. a = Tftp!Ack(0) /\ a \in Tftp!Datagrams
    BY <1>2, DatagramTyped
  <2> HIDE DEF a
  <2>3. /\ << >> \in Seq(Tftp!Datagrams) /\ Append(<< >>, a) = <<a>>
        /\ <<a>> \in Seq(Tftp!Datagrams) /\ << >> \in Seq(1 .. Blocks)
    BY <2>2
  <2>4. Tftp!TypeOK
    <3>1. /\ diskOk \in BOOLEAN /\ block \in Tftp!Numbers
          /\ last \in (IF writing THEN {0} ELSE 1 .. Blocks)
      BY <1>3, <1>20, <2>1
    <3>2. /\ copy \in Seq(1 .. Blocks) /\ toServer \in Seq(Tftp!Datagrams)
          /\ toClient \in Seq(Tftp!Datagrams)
      BY <1>1, <2>1, <2>2, <2>3
    <3>3. QED
      BY <1>21, <3>1, <3>2 DEF Tftp!TypeOK
  <2>5. Exchange(<< >>, << >>, 0, 0, 0)
    BY TrailNone DEF Exchange
  <2>6. Exchange(<< >>, Append(<< >>, a), 0, 0, 0)
    <3>1. 0 \in 0 .. Faults
      BY TftpBounds
    <3>2. QED
      BY <2>3, <2>5, <3>1, ReceiverAgain DEF a
  <2>7. WriteInv(0)
    BY <1>1, <1>2, <2>1, <2>2, <2>3, <2>6 DEF WriteInv
  <2>8. QED
    BY <1>2, <1>3, <2>4, <2>7 DEF TftpInv
<1>4. CASE ~writing
  <2>1. block = 1 /\ last \in {1, Blocks} /\ diskOk = (last = 1) /\ toClient = <<Tftp!Data(1, last)>>
    BY <1>4 DEF Tftp!Init
  <2>2. last \in 1 .. Blocks /\ 1 \in 1 .. Blocks
    BY <2>1, TftpBounds
  <2> DEFINE d == Tftp!Data(1, last)
  <2>3. d \in Tftp!Datagrams
    BY <2>2, NumbersTyped
  <2>4. << >> \in Seq(Tftp!Datagrams) /\ << >> \in Seq(1 .. Blocks) /\ <<d>> \in Seq(Tftp!Datagrams)
    BY <2>3
  <2>5. Tftp!TypeOK
    <3> HIDE DEF d
    <3>1. diskOk \in BOOLEAN /\ toClient = <<d>>
      BY <2>1 DEF d
    <3>2. block \in Tftp!Numbers /\ last \in (IF writing THEN {0} ELSE 1 .. Blocks)
      BY <1>4, <1>20, <2>1, <2>2
    <3>3. /\ copy \in Seq(1 .. Blocks) /\ toServer \in Seq(Tftp!Datagrams)
          /\ toClient \in Seq(Tftp!Datagrams)
      BY <1>1, <2>4, <3>1
    <3>4. QED
      BY <1>21, <3>1, <3>2, <3>3 DEF Tftp!TypeOK
  <2>6. ASSUME diskOk
        PROVE  ReadInv(0)
    <3> DEFINE e == Datagram("data", 1)
    <3>1. last = 1 /\ e = Tftp!Data(1, 1) /\ e \in Tftp!Datagrams
      BY <1>2, <2>1, <2>2, <2>6, DatagramTyped
    <3>2. toClient = <<e>>
      BY <2>1, <3>1
    <3> HIDE DEF e
    <3>3. Append(<< >>, e) = <<e>>
      BY <3>1
    <3>4. Exchange(<< >>, << >>, 1, 0, 0)
      BY TrailNone DEF Exchange
    <3>5. Exchange(Append(<< >>, e), << >>, 1, 0, 0)
      <4>1. 0 \in 0 .. Faults
        BY TftpBounds
      <4>2. QED
        BY <2>2, <2>4, <3>4, <4>1, SenderAgain DEF e
    <3>6. QED
      BY <1>1, <1>2, <2>1, <3>1, <3>2, <3>3, <3>5 DEF ReadInv
  <2>7. QED
    BY <1>2, <1>4, <2>5, <2>6 DEF TftpInv
<1>5. QED
  BY <1>1, <1>3, <1>4

LEMMA TftpStep ==
    ASSUME TftpInv, Tftp!Next
    PROVE  TftpInv'
<1>1. Tftp!TypeOK /\ writing \in BOOLEAN
  BY TftpTypes DEF TftpInv
<1>2. writing' = writing
  BY DEF Tftp!Next, Tftp!Server, Tftp!Peer, Tftp!OnAck, Tftp!OnData, Tftp!OnTimeout, Tftp!ServerStops,
         Tftp!PeerOnData, Tftp!PeerOnAck, Tftp!PeerOnTimeout, Tftp!Fault, Tftp!server
<1>3. Tftp!TypeOK'
  <2>1. writing => peerBlock = peerLast % Width
    BY DEF TftpInv, WriteInv
  <2>2. CASE Tftp!OnAck \/ Tftp!OnData \/ Tftp!OnTimeout \/ Tftp!ServerStops
    BY <1>1, <2>2, ServerTyped
  <2>3. CASE Tftp!PeerOnData \/ Tftp!PeerOnAck \/ Tftp!PeerOnTimeout \/ Tftp!Fault
    BY <1>1, <2>1, <2>3, PeerTyped
  <2>4. QED
    BY <2>2, <2>3 DEF Tftp!Next, Tftp!Server, Tftp!Peer
<1>4. ASSUME ~writing, diskOk'
      PROVE  \E m \in Nat : ReadInv(m)'
  <2>1. diskOk
    BY <1>4 DEF Tftp!Next, Tftp!Server, Tftp!Peer, Tftp!OnAck, Tftp!NextBlock, Tftp!OnData, Tftp!OnTimeout,
         Tftp!ServerStops, Tftp!PeerOnData, Tftp!PeerOnAck, Tftp!PeerOnTimeout, Tftp!Fault, Tftp!server
  <2>2. PICK n \in Nat : ReadInv(n)
    BY <1>4, <2>1 DEF TftpInv
  <2>3. CASE Tftp!OnAck
    BY <1>1, <1>4, <2>2, <2>3, OnAckReads
  <2>4. CASE Tftp!OnTimeout
    BY <1>1, <1>4, <2>2, <2>4, OnTimeoutReads
  <2>5. CASE Tftp!ServerStops
    BY <1>1, <1>4, <2>2, <2>5, StopReads
  <2>6. CASE Tftp!PeerOnData
    BY <1>1, <1>4, <2>2, <2>6, PeerOnDataReads
  <2>7. CASE Tftp!PeerOnTimeout
    BY <1>1, <1>4, <2>2, <2>7, PeerOnTimeoutReads
  <2>8. CASE Tftp!Fault
    BY <1>1, <1>4, <2>2, <2>8, FaultReads
  <2>9. ~Tftp!OnData /\ ~Tftp!PeerOnAck
    BY <1>4 DEF Tftp!OnData, Tftp!PeerOnAck
  <2>10. QED
    BY <2>3, <2>4, <2>5, <2>6, <2>7, <2>8, <2>9 DEF Tftp!Next, Tftp!Server, Tftp!Peer
<1>5. ASSUME writing
      PROVE  \E m \in Nat : WriteInv(m)'
  <2>1. PICK n \in Nat : WriteInv(n)
    BY <1>5 DEF TftpInv
  <2>2. CASE Tftp!OnData
    BY <1>1, <1>5, <2>1, <2>2, OnDataWrites
  <2>3. CASE Tftp!OnTimeout
    BY <1>1, <1>5, <2>1, <2>3, OnTimeoutWrites
  <2>4. CASE Tftp!ServerStops
    BY <1>1, <1>5, <2>1, <2>4, StopWrites
  <2>5. CASE Tftp!PeerOnAck
    BY <1>1, <1>5, <2>1, <2>5, PeerOnAckWrites
  <2>6. CASE Tftp!PeerOnTimeout
    BY <1>1, <1>5, <2>1, <2>6, PeerOnTimeoutWrites
  <2>7. CASE Tftp!Fault
    BY <1>1, <1>5, <2>1, <2>7, FaultWrites
  <2>8. ~Tftp!OnAck /\ ~Tftp!PeerOnData
    BY <1>5 DEF Tftp!OnAck, Tftp!PeerOnData
  <2>9. QED
    BY <2>2, <2>3, <2>4, <2>5, <2>6, <2>7, <2>8 DEF Tftp!Next, Tftp!Server, Tftp!Peer
<1>6. QED
  BY <1>2, <1>3, <1>4, <1>5 DEF TftpInv

\* A transfer that nothing happens to.
LEMMA TftpSame ==
    ASSUME TftpInv, UNCHANGED <<timer, toServer, toClient, tftpVars>>
    PROVE  TftpInv'
<1>1. UNCHANGED <<timer, toServer, toClient, writing, block, last, retries, done, diskOk, copy,
                  peerBlock, peerLast, peerRetries, peerDone, faults>>
  BY DEF tftpVars
<1>2. /\ Tftp!TypeOK
      /\ ~writing /\ diskOk => \E n \in Nat : ReadInv(n)
      /\ writing => \E n \in Nat : WriteInv(n)
  BY DEF TftpInv
<1>3. Tftp!TypeOK'
  BY <1>1, <1>2 DEF Tftp!TypeOK
<1>4. \A n \in Nat : (ReadInv(n) => ReadInv(n)') /\ (WriteInv(n) => WriteInv(n)')
  BY <1>1 DEF ReadInv, WriteInv
<1>5. QED
  BY <1>1, <1>2, <1>3, <1>4 DEF TftpInv

\* The property of the run, from the invariant.
LEMMA CopyOf ==
    ASSUME NEW n \in 0 .. Blocks, Received(copy, n), copy \in Seq(1 .. Blocks)
    PROVE  Tftp!IsPrefix(copy, Tftp!File) /\ (n = Blocks => copy = Tftp!File)
<1> DEFINE f == Tftp!File
<1>1. f \in Seq(1 .. Blocks) /\ Len(f) = Blocks /\ \A k \in 1 .. Blocks : f[k] = k
  <2>1. f \in [1 .. Blocks -> 1 .. Blocks] /\ \A k \in 1 .. Blocks : f[k] = k
    BY DEF Tftp!File
  <2> HIDE DEF f
  <2>2. QED
    BY <2>1, TftpBounds
<1> HIDE DEF f
<1>2. Len(copy) = n /\ \A k \in 1 .. n : copy[k] = k
  BY DEF Received
<1>3. n \in Nat /\ n <= Blocks
  BY TftpBounds
<1> DEFINE u == SubSeq(f, 1, n)
<1>4. u \in Seq(1 .. Blocks) /\ Len(u) = n /\ \A k \in 1 .. n : u[k] = f[k]
  <2>1. \A k \in 1 .. n : f[k] \in 1 .. Blocks
    BY <1>1, <1>3, TftpBounds
  <2>2. QED
    BY <2>1, <1>3, SubSeqProperties
<1> HIDE DEF u
<1>5. \A k \in 1 .. n : u[k] = copy[k]
  BY <1>1, <1>2, <1>3, <1>4, TftpBounds
<1>6. copy = u
  <2>1. Len(copy) = Len(u) /\ \A k \in 1 .. Len(copy) : copy[k] = u[k]
    BY <1>2, <1>4, <1>5
  <2>2. QED
    BY <1>4, <2>1, SeqEqual
<1>7. SubSeq(copy, 1, Len(copy)) = copy
  BY SubSeqFull
<1>8. Tftp!IsPrefix(copy, f)
  BY <1>1, <1>2, <1>3, <1>6, <1>7 DEF Tftp!IsPrefix, u
<1>9. n = Blocks => copy = f
  <2>1. n = Blocks => Len(copy) = Len(f) /\ \A k \in 1 .. Len(copy) : copy[k] = f[k]
    BY <1>1, <1>2
  <2>2. QED
    BY <1>1, <2>1, SeqEqual
<1>10. QED
  BY <1>8, <1>9 DEF f

LEMMA TftpCopies ==
    ASSUME TftpInv
    PROVE  Tftp!TypeOK /\ Tftp!CorrectTransfer
<1>1. Tftp!TypeOK /\ copy \in Seq(1 .. Blocks) /\ writing \in BOOLEAN
  BY TftpTypes DEF TftpInv
<1>2. CASE writing
  <2>1. PICK n \in Nat : WriteInv(n)
    BY <1>2 DEF TftpInv
  <2>2. /\ diskOk => Received(copy, n)
        /\ (peerDone => n = Blocks) /\ (done = "ok" <=> n = Blocks) /\ n \in 0 .. Blocks
    BY <1>1, <1>2, <2>1, WriteKnown
  <2>3. QED
    BY <1>1, <1>2, <2>2, CopyOf DEF Tftp!CorrectTransfer
<1>3. CASE ~writing
  <2>1. ASSUME diskOk
        PROVE  Tftp!IsPrefix(copy, Tftp!File) /\ (done = "ok" \/ peerDone => copy = Tftp!File)
    <3>1. PICK n \in Nat : ReadInv(n)
      BY <1>3, <2>1 DEF TftpInv
    <3>2. QED
      BY <1>1, <1>3, <3>1, ReadKnown, CopyOf
  <2>2. QED
    BY <1>1, <1>3, <2>1 DEF Tftp!CorrectTransfer
<1>4. QED
  BY <1>1, <1>2, <1>3

\* What a TFTP transfer has copied is the beginning of the file, and all of it
\* when either side takes it to be over, as long as the numbers of the blocks do
\* not come round within what the network loses, doubles and reorders.
THEOREM TransfersCopy == Spec => []CorrectTransfer
<1> DEFINE Inv == op = "tftp" => TftpInv
<1>1. Init => Inv
  <2>1. Init /\ op = "tftp" => Tftp!Init
    BY DEF Init
  <2>2. QED
    BY <2>1, TftpInit
<1>2. Inv /\ [Next]_vars => Inv'
  <2> SUFFICES ASSUME Inv, [Next]_vars, op' = "tftp"
               PROVE  TftpInv'
    OBVIOUS
  <2>1. CASE Tftps(Tftp!Next)
    BY <2>1, TftpStep DEF Tftps
  <2>2. CASE Terminals(Terminal!Next) \/ Telnets(Telnet!Next) \/ Forwards(Forward!Next)
    BY <2>2 DEF Terminals, Telnets, Forwards
  <2>3. CASE UNCHANGED vars
    <3>1. op' = op /\ UNCHANGED <<timer, toServer, toClient, tftpVars>>
      BY <2>3 DEF vars, wireVars
    <3>2. QED
      BY <3>1, TftpSame
  <2>4. QED
    BY <2>1, <2>2, <2>3 DEF Next
<1>3. Inv => CorrectTransfer
  BY TftpCopies DEF CorrectTransfer
<1> HIDE DEF Inv
<1>4. QED
  BY <1>1, <1>2, <1>3, PTL DEF Spec
=============================================================================
