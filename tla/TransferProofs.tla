--------------------------- MODULE TransferProofs ---------------------------
(***************************************************************************)
(* Proofs about the transfers of a file, for files of any size and any     *)
(* number of attempts, lanes and blocks in flight: the ranges of the lanes *)
(* of a parallel download are apart and cover the file, a lane's watermark *)
(* is what it has on disk, and a download that reports success has left no *)
(* hole; a retry keeps what was written, and what it skips is there.  Then *)
(* about what copies many: a synchronization that ends well has made its   *)
(* target match, and the next one finds no change; that of a window loses  *)
(* no edit; a job of the scheduler does not run before its time; and a     *)
(* folder carried as one stream is at the other end what it was.           *)
(***************************************************************************)
EXTENDS MCTransfers, FiniteSetTheorems, SequenceTheorems, TLAPS

\* What is assumed of the constants.
LaneBounds ==
    /\ Blocks \in Nat /\ Workers \in Nat \ {0}
    /\ MaxAttempts \in Nat \ {0} /\ Resumes \in Nat

-----------------------------------------------------------------------------
(* The ranges. *)

LEMMA QuotientIs ==
    ASSUME NEW a \in Nat, NEW b \in Nat \ {0}
    PROVE  a \div b \in Nat /\ b * (a \div b) <= a /\ a < b * (a \div b) + b
OBVIOUS

LEMMA ProductGrows ==
    ASSUME NEW a \in Nat, NEW b \in Nat, NEW c \in Nat, b < c
    PROVE  a * b + a <= a * c
OBVIOUS

\* The span is the least for which the lanes reach the end of the file.
LEMMA SpanReaches ==
    ASSUME LaneBounds, startOffset \in Nat, startOffset < Blocks
    PROVE  Span \in Nat \ {0} /\ Blocks - startOffset <= Span * Workers
<1> DEFINE rest == Blocks - startOffset
           q == (rest + Workers - 1) \div Workers
<1>1. rest \in Nat \ {0} /\ Workers \in Nat \ {0} BY DEF LaneBounds
<1> HIDE DEF rest
<1>2. rest + Workers - 1 \in Nat BY <1>1
<1>3. q \in Nat /\ rest + Workers - 1 < Workers * q + Workers BY <1>1, <1>2, QuotientIs
<1> HIDE DEF q
<1>4. q * Workers = Workers * q /\ Workers * q \in Nat BY <1>1, <1>3
<1>5. rest <= q * Workers BY <1>1, <1>3, <1>4
<1>6. q # 0 BY <1>1, <1>5
<1> QED BY <1>3, <1>5, <1>6 DEF Span, rest, q

LEMMA Ranges ==
    ASSUME LaneBounds, startOffset \in Nat, startOffset < Blocks
    PROVE  /\ \A i \in Lanes : Offset(i) \in Nat /\ startOffset <= Offset(i)
           /\ \A i \in Lanes : Used(i) =>
                 Length(i) \in 1 .. Blocks /\ Offset(i) + Length(i) <= Blocks
           /\ \A i, j \in Lanes : Used(i) /\ Used(j) /\ i < j =>
                 Offset(i) + Length(i) <= Offset(j)
           /\ \A k \in startOffset + 1 .. Blocks : \E i \in Lanes :
                 Used(i) /\ k - Offset(i) \in 1 .. Length(i)
<1>1. /\ Span \in Nat \ {0} /\ Blocks - startOffset <= Span * Workers
      /\ Blocks \in Nat /\ Workers \in Nat \ {0}
  BY SpanReaches DEF LaneBounds
<1>2. \A i \in Lanes : i \in Nat /\ i < Workers BY <1>1 DEF Lanes
<1> DEFINE s == Span
<1> HIDE DEF s
<1>3. s \in Nat \ {0} /\ Blocks - startOffset <= s * Workers BY <1>1 DEF s
<1>4. \A i : Offset(i) = startOffset + s * i BY DEF Offset, s
<1>5. \A i : Length(i) = IF s < Blocks - Offset(i) THEN s ELSE Blocks - Offset(i)
  BY DEF Length, s
<1>6. ASSUME NEW i \in Lanes PROVE s * i \in Nat BY <1>2, <1>3
<1>7. ASSUME NEW i \in Lanes PROVE Offset(i) \in Nat /\ startOffset <= Offset(i)
  BY <1>4, <1>6
<1>8. ASSUME NEW i \in Lanes, Used(i)
      PROVE  Length(i) \in 1 .. Blocks /\ Offset(i) + Length(i) <= Blocks /\ Length(i) <= s
  BY <1>1, <1>3, <1>5, <1>7, <1>8 DEF Used
<1>9. ASSUME NEW i \in Lanes, NEW j \in Lanes, Used(i), i < j
      PROVE  Offset(i) + Length(i) <= Offset(j)
  <2>1. s * i + s <= s * j BY <1>2, <1>3, <1>9, ProductGrows
  <2> QED BY <1>3, <1>4, <1>6, <1>8, <1>9, <2>1
<1>10. ASSUME NEW k \in startOffset + 1 .. Blocks
       PROVE  \E i \in Lanes : Used(i) /\ k - Offset(i) \in 1 .. Length(i)
  <2> DEFINE a == k - startOffset - 1
             i == a \div s
  <2>1. a \in Nat /\ a < Blocks - startOffset /\ k = startOffset + a + 1 BY <1>1
  <2> HIDE DEF a
  <2>2. i \in Nat /\ s * i <= a /\ a < s * i + s BY <1>3, <2>1, QuotientIs
  <2> HIDE DEF i
  <2>3. s * i \in Nat BY <1>3, <2>2
  <2>4. i < Workers
    <3> SUFFICES ASSUME ~(i < Workers) PROVE FALSE OBVIOUS
    <3>1. s * Workers <= s * i
      <4>1. CASE i = Workers BY <1>1, <1>3, <2>3, <4>1
      <4>2. CASE Workers < i
        <5>1. s * Workers + s <= s * i BY <1>1, <1>3, <2>2, <4>2, ProductGrows
        <5>2. s * Workers \in Nat BY <1>1, <1>3
        <5> QED BY <1>3, <2>3, <5>1, <5>2
      <4> QED BY <1>1, <2>2, <4>1, <4>2
    <3>2. s * Workers \in Nat BY <1>1, <1>3
    <3> QED BY <1>1, <1>3, <2>1, <2>2, <2>3, <3>1, <3>2
  <2>5. i \in Lanes BY <1>1, <2>2, <2>4 DEF Lanes
  <2>6. Offset(i) = startOffset + s * i BY <1>4
  <2>7. Used(i) /\ k - Offset(i) \in 1 .. Length(i)
    BY <1>1, <1>3, <1>5, <2>1, <2>2, <2>3, <2>6 DEF Used
  <2> QED BY <2>5, <2>7
<1> QED BY <1>7, <1>8, <1>9, <1>10

-----------------------------------------------------------------------------
(* The inductive invariant. *)

Returned == result = "none" <=> main # "done"
Idle == main # "join" => \A i \in Lanes : lane[i] = "off"

\* What is there when the file is asked for the first time is a prefix of it.
Prefix == main = "start" /\ asked = 1 => \A k \in 1 .. Len(dest) : dest[k] = "new"

\* The local file while its lanes are started and run.
SizedToWhole ==
    /\ main \in {"spawn", "join"} =>
          /\ startOffset < Blocks /\ Len(dest) = Blocks
          /\ asked = 1 => \A k \in 1 .. startOffset : dest[k] = "new"
    /\ main = "spawn" => \A k \in startOffset + 1 .. Blocks : dest[k] = "hole"

\* A lane stands where its watermark is, and ends short of its range only in
\* a download that does not succeed.
LaneKnown(i) ==
    /\ lane[i] # "off" => Used(i)
    /\ lane[i] \in {"connect", "fetch"} => pos[i] = Offset(i) + laneDone[i]
    /\ lane[i] = "failed" => error[i] # "none"
    /\ Used(i) /\ lane[i] = "off" => laneDone[i] = Length(i) \/ cancel \/ stop

LanesKnown == main = "join" => \A i \in Lanes : LaneKnown(i)
StopKnown == stop => firstError # "none"

Inv ==
    /\ LaneBounds /\ TypeOK /\ LaneOnDisk /\ CorrectCopy
    /\ Returned /\ Idle /\ Prefix /\ SizedToWhole /\ LanesKnown /\ StopKnown

LEMMA InitInv == LaneBounds /\ Init => Inv
<1> SUFFICES ASSUME LaneBounds, Init PROVE Inv OBVIOUS
<1>1. PICK n \in 0 .. Blocks : dest = [k \in 1 .. n |-> "new"] BY DEF Init
<1>2. n \in Nat /\ n <= Blocks BY DEF LaneBounds
<1>3. dest \in Seq({"new", "hole"}) /\ Len(dest) = n BY <1>1, <1>2
<1>4. TypeOK
  <2>1. 0 \in 0 .. Blocks /\ 1 \in 1 .. MaxAttempts /\ 1 \in 1 .. Resumes + 1
    BY DEF LaneBounds
  <2>2. /\ lane \in [Lanes -> {"off", "check", "connect", "fetch", "failed"}]
        /\ attempt \in [Lanes -> 1 .. MaxAttempts]
        /\ laneDone \in [Lanes -> 0 .. Blocks] /\ pos \in [Lanes -> 0 .. Blocks]
        /\ error \in [Lanes -> {"none", "drop", "refused", "hard"}]
    BY <2>1 DEF Init
  <2> QED BY <1>2, <1>3, <2>1, <2>2 DEF Init, TypeOK
<1>5. Prefix BY <1>1, <1>3 DEF Prefix
<1>6. LaneOnDisk /\ CorrectCopy /\ Returned /\ Idle /\ SizedToWhole /\ LanesKnown /\ StopKnown
  BY DEF Init, LaneOnDisk, CorrectCopy, Returned, Idle, SizedToWhole, LanesKnown, StopKnown
<1> QED BY <1>4, <1>5, <1>6 DEF Inv

\* A file with every block new is the whole file.
LEMMA WholeFile ==
    ASSUME NEW f \in Seq({"new", "hole"}), Len(f) = Blocks, \A k \in 1 .. Blocks : f[k] = "new"
    PROVE  f = [k \in 1 .. Blocks |-> "new"]
OBVIOUS

LEMMA BeyondStart ==
    ASSUME NEW n \in Nat, NEW k \in n + 1 .. Blocks
    PROVE  k \in 1 .. Blocks /\ ~(k <= n)
OBVIOUS

\* A place in one of two ranges that are apart is not in the other.
LEMMA PlacesApart ==
    ASSUME NEW a \in Nat, NEW m \in Nat, NEW b \in Nat, NEW n \in Nat,
           a + m <= b \/ b + n <= a, b + n <= Blocks, Blocks \in Nat
    PROVE  \A d \in Nat, k \in 1 .. n :
               d < m => b + k \in 1 .. Blocks /\ b + k # a + d + 1
OBVIOUS

-----------------------------------------------------------------------------
(* The calling thread, and the user. *)

LEMMA StartInv == Inv /\ Start => Inv'
<1> SUFFICES ASSUME Inv, Start PROVE Inv' OBVIOUS
<1> USE DEF Inv
<1>1. /\ main = "start" /\ UNCHANGED <<laneVars, firstError, stop, cancel, asked>>
      /\ dest \in Seq({"new", "hole"}) /\ Len(dest) \in Nat /\ Len(dest) <= Blocks
      /\ Blocks \in Nat
  BY DEF Start, TypeOK, LaneBounds
<1>2. startOffset' \in Nat /\ startOffset' <= Len(dest) /\ startOffset' <= Blocks
  BY <1>1 DEF Start
<1>3. CASE startOffset' = Blocks /\ main' = "done" /\ result' = "true" /\ UNCHANGED dest
  <2>1. Len(dest) = Blocks BY <1>1, <1>2, <1>3
  <2>2. CorrectCopy' BY <1>1, <1>3, <2>1, WholeFile DEF CorrectCopy, Prefix
  <2>3. TypeOK' BY <1>1, <1>2, <1>3 DEF TypeOK, laneVars
  <2>4. (LaneOnDisk /\ Returned /\ Idle /\ Prefix /\ SizedToWhole /\ LanesKnown /\ StopKnown)'
    BY <1>1, <1>3 DEF LaneOnDisk, Returned, Idle, Prefix, SizedToWhole, LanesKnown, StopKnown,
                      laneVars
  <2> QED BY <2>2, <2>3, <2>4 DEF LaneBounds
<1>4. CASE startOffset' # Blocks /\ main' = "spawn" /\ dest' = Sized /\ UNCHANGED result
  <2>1. startOffset' < Blocks BY <1>1, <1>2, <1>4
  <2>2. /\ dest' = [k \in 1 .. Blocks |-> IF k <= startOffset' THEN dest[k] ELSE "hole"]
        /\ \A k \in 1 .. startOffset' : dest[k] \in {"new", "hole"}
    BY <1>1, <1>2, <1>4 DEF Sized
  <2>3. dest' \in Seq({"new", "hole"}) /\ Len(dest') = Blocks
    <3>1. \A k \in 1 .. Blocks : dest'[k] \in {"new", "hole"} BY <1>1, <1>2, <2>2
    <3> QED BY <1>1, <2>2, <3>1
  <2>4. TypeOK' BY <1>1, <1>2, <1>4, <2>3 DEF TypeOK, laneVars
  <2>5. SizedToWhole'
    <3>1. ASSUME NEW k \in startOffset' + 1 .. Blocks PROVE dest'[k] = "hole"
      <4>1. k \in 1 .. Blocks /\ ~(k <= startOffset') BY <1>2, BeyondStart
      <4> QED BY <2>2, <4>1
    <3>2. asked = 1 => \A k \in 1 .. startOffset' : dest'[k] = "new"
      BY <1>1, <1>2, <2>1, <2>2 DEF Prefix
    <3> QED BY <1>1, <1>4, <2>1, <2>3, <3>1, <3>2 DEF SizedToWhole
  <2>6. (LaneOnDisk /\ CorrectCopy /\ Returned /\ Idle /\ Prefix /\ LanesKnown /\ StopKnown)'
    BY <1>1, <1>4 DEF LaneOnDisk, CorrectCopy, Returned, Idle, Prefix, LanesKnown, StopKnown,
                      laneVars
  <2> QED BY <2>4, <2>5, <2>6 DEF LaneBounds
<1>5. CASE /\ main' = "done" /\ result' = "false"
           /\ dest' \in {dest, SubSeq(dest, 1, startOffset')}
  <2>1. dest' \in Seq({"new", "hole"}) /\ Len(dest') <= Blocks
    <3> DEFINE n == startOffset'
    <3>1. n \in Nat /\ n <= Blocks /\ \A k \in 1 .. n : dest[k] \in {"new", "hole"}
      BY <1>1, <1>2
    <3> HIDE DEF n
    <3>2. SubSeq(dest, 1, n) \in Seq({"new", "hole"})
          /\ Len(SubSeq(dest, 1, n)) = IF 1 <= n THEN n - 1 + 1 ELSE 0
      BY <3>1, SubSeqProperties
    <3>3. Len(SubSeq(dest, 1, n)) = n BY <3>1, <3>2
    <3>4. dest' \in {dest, SubSeq(dest, 1, n)} BY <1>5 DEF n
    <3> QED BY <1>1, <3>1, <3>2, <3>3, <3>4
  <2>2. TypeOK' BY <1>1, <1>2, <1>5, <2>1 DEF TypeOK, laneVars
  <2>3. (LaneOnDisk /\ CorrectCopy /\ Returned /\ Idle /\ Prefix /\ SizedToWhole /\ LanesKnown
         /\ StopKnown)'
    BY <1>1, <1>5 DEF LaneOnDisk, CorrectCopy, Returned, Idle, Prefix, SizedToWhole, LanesKnown,
                      StopKnown, laneVars
  <2> QED BY <2>2, <2>3 DEF LaneBounds
<1> QED BY <1>3, <1>4, <1>5 DEF Start

LEMMA SpawnInv == Inv /\ Spawn => Inv'
<1> SUFFICES ASSUME Inv, Spawn PROVE Inv' OBVIOUS
<1> USE DEF Inv
<1>1. /\ main = "spawn" /\ main' = "join"
      /\ UNCHANGED <<startOffset, dest, cancel, result, asked>>
      /\ lane' = [i \in Lanes |-> IF Used(i) THEN "check" ELSE "off"]
      /\ attempt' = [i \in Lanes |-> 1]
      /\ laneDone' = [i \in Lanes |-> 0] /\ pos' = [i \in Lanes |-> 0]
      /\ error' = [i \in Lanes |-> "none"] /\ firstError' = "none" /\ stop' = FALSE
  BY DEF Spawn
<1>2. /\ startOffset \in Nat /\ startOffset < Blocks /\ Len(dest) = Blocks
      /\ \A k \in startOffset + 1 .. Blocks : dest[k] = "hole"
  BY <1>1 DEF TypeOK, SizedToWhole, LaneBounds
<1>3. TypeOK'
  <2>1. 0 \in 0 .. Blocks /\ 1 \in 1 .. MaxAttempts BY DEF LaneBounds
  <2>2. /\ lane' \in [Lanes -> {"off", "check", "connect", "fetch", "failed"}]
        /\ attempt' \in [Lanes -> 1 .. MaxAttempts]
        /\ laneDone' \in [Lanes -> 0 .. Blocks] /\ pos' \in [Lanes -> 0 .. Blocks]
        /\ error' \in [Lanes -> {"none", "drop", "refused", "hard"}]
    BY <1>1, <2>1
  <2> QED BY <1>1, <2>2 DEF TypeOK
<1>4. \A i \in Lanes : Offset(i)' = Offset(i) /\ Length(i)' = Length(i) /\ Used(i)' = Used(i)
  BY <1>1 DEF Offset, Length, Used, Span
<1>5. LaneOnDisk'
  <2>1. ASSUME NEW i \in Lanes, Used(i)
        PROVE  /\ 0 <= Length(i)
               /\ \A k \in 1 .. Length(i) : (dest[Offset(i) + k] = "new") <=> k <= 0
    <3>1. /\ Offset(i) \in Nat /\ startOffset <= Offset(i)
          /\ Length(i) \in Nat /\ Offset(i) + Length(i) <= Blocks
      BY <1>2, <2>1, Ranges
    <3>2. \A k \in 1 .. Length(i) : dest[Offset(i) + k] = "hole"
      BY <1>2, <3>1 DEF LaneBounds
    <3> QED BY <3>1, <3>2
  <2>2. \A i \in Lanes : laneDone'[i] = 0 BY <1>1
  <2> QED BY <1>1, <1>4, <2>1, <2>2 DEF LaneOnDisk
<1>6. LanesKnown' BY <1>1, <1>4 DEF LanesKnown, LaneKnown
<1>7. (CorrectCopy /\ Returned /\ Idle /\ Prefix /\ SizedToWhole /\ StopKnown)'
  BY <1>1 DEF CorrectCopy, Returned, Idle, Prefix, SizedToWhole, StopKnown
<1> QED BY <1>3, <1>5, <1>6, <1>7 DEF LaneBounds

\* When all lanes have ended without an error, their ranges make up the file.
LEMMA JoinInv == Inv /\ Join => Inv'
<1> SUFFICES ASSUME Inv, Join PROVE Inv' OBVIOUS
<1> USE DEF Inv
<1>1. /\ main = "join" /\ main' = "done" /\ \A i \in Lanes : lane[i] = "off"
      /\ result' = IF cancel \/ firstError # "none" THEN "false" ELSE "true"
      /\ UNCHANGED <<startOffset, dest, laneVars, firstError, stop, cancel, asked>>
  BY DEF Join, Outcome
<1>2. TypeOK' BY <1>1 DEF TypeOK, laneVars
<1>3. CorrectCopy'
  <2> SUFFICES ASSUME asked = 1, result' = "true"
               PROVE  dest = [k \in 1 .. Blocks |-> "new"]
    BY <1>1 DEF CorrectCopy
  <2>1. ~cancel /\ ~stop BY <1>1 DEF StopKnown
  <2>2. /\ startOffset \in Nat /\ startOffset < Blocks /\ Len(dest) = Blocks
        /\ \A k \in 1 .. startOffset : dest[k] = "new"
        /\ Blocks \in Nat /\ dest \in Seq({"new", "hole"})
    BY <1>1 DEF TypeOK, SizedToWhole, LaneBounds
  <2>3. ASSUME NEW k \in startOffset + 1 .. Blocks PROVE dest[k] = "new"
    <3>1. PICK i \in Lanes : Used(i) /\ k - Offset(i) \in 1 .. Length(i) BY <2>2, Ranges
    <3>2. laneDone[i] = Length(i) BY <1>1, <2>1, <3>1 DEF LanesKnown, LaneKnown
    <3>3. Offset(i) \in Nat /\ Length(i) \in Nat BY <2>2, <3>1, Ranges
    <3>4. dest[Offset(i) + (k - Offset(i))] = "new" BY <1>1, <3>1, <3>2, <3>3 DEF LaneOnDisk
    <3>5. Offset(i) + (k - Offset(i)) = k BY <2>2, <3>3
    <3> QED BY <3>4, <3>5
  <2>4. \A k \in 1 .. Blocks : dest[k] = "new" BY <2>2, <2>3
  <2> QED BY <2>2, <2>4, WholeFile
<1>4. (LaneOnDisk /\ Returned /\ Idle /\ Prefix /\ SizedToWhole /\ LanesKnown /\ StopKnown)'
  BY <1>1 DEF LaneOnDisk, Returned, Idle, Prefix, SizedToWhole, LanesKnown, StopKnown, laneVars
<1> QED BY <1>2, <1>3, <1>4 DEF LaneBounds

LEMMA UserInv == Inv /\ (Cancel \/ Again \/ UNCHANGED vars) => Inv'
<1> SUFFICES ASSUME Inv, Cancel \/ Again \/ UNCHANGED vars PROVE Inv' OBVIOUS
<1> USE DEF Inv
<1>1. CASE Cancel
  <2>1. /\ main # "done" /\ cancel' = TRUE
        /\ UNCHANGED <<startOffset, dest, main, laneVars, firstError, stop, result, asked>>
    BY <1>1 DEF Cancel
  <2>2. TypeOK' BY <2>1 DEF TypeOK, laneVars
  <2>3. \A i \in Lanes : Offset(i)' = Offset(i) /\ Length(i)' = Length(i) /\ Used(i)' = Used(i)
    BY <2>1 DEF Offset, Length, Used, Span
  <2>4. LaneOnDisk' /\ LanesKnown'
    BY <2>1, <2>3 DEF LaneOnDisk, LanesKnown, LaneKnown, laneVars
  <2>5. (CorrectCopy /\ Returned /\ Idle /\ Prefix /\ SizedToWhole /\ StopKnown)'
    BY <2>1 DEF CorrectCopy, Returned, Idle, Prefix, SizedToWhole, StopKnown, laneVars
  <2> QED BY <2>2, <2>4, <2>5 DEF LaneBounds
<1>2. CASE Again
  <2>1. /\ main = "done" /\ main' = "start" /\ result' = "none" /\ cancel' = FALSE
        /\ asked' = asked + 1 /\ asked <= Resumes /\ asked \in Nat \ {0} /\ Resumes \in Nat
        /\ UNCHANGED <<startOffset, dest, laneVars, firstError, stop>>
    BY <1>2 DEF Again, TypeOK, LaneBounds
  <2>2. asked' \in 1 .. Resumes + 1 /\ asked' # 1 BY <2>1
  <2>3. TypeOK' BY <2>1, <2>2 DEF TypeOK, laneVars
  <2>4. (LaneOnDisk /\ CorrectCopy /\ Returned /\ Idle /\ Prefix /\ SizedToWhole /\ LanesKnown
         /\ StopKnown)'
    BY <2>1, <2>2 DEF LaneOnDisk, CorrectCopy, Returned, Idle, Prefix, SizedToWhole, LanesKnown,
                      StopKnown, laneVars
  <2> QED BY <2>3, <2>4 DEF LaneBounds
<1>3. CASE UNCHANGED vars
  <2>1. TypeOK' BY <1>3 DEF vars, laneVars, TypeOK
  <2>2. \A i \in Lanes : Offset(i)' = Offset(i) /\ Length(i)' = Length(i) /\ Used(i)' = Used(i)
    BY <1>3 DEF vars, Offset, Length, Used, Span
  <2>3. LaneOnDisk' /\ LanesKnown'
    BY <1>3, <2>2 DEF vars, laneVars, LaneOnDisk, LanesKnown, LaneKnown
  <2>4. (CorrectCopy /\ Returned /\ Idle /\ Prefix /\ SizedToWhole /\ StopKnown)'
    BY <1>3 DEF vars, laneVars, CorrectCopy, Returned, Idle, Prefix, SizedToWhole, StopKnown
  <2> QED BY <2>1, <2>3, <2>4 DEF LaneBounds
<1> QED BY <1>1, <1>2, <1>3

-----------------------------------------------------------------------------
(* A lane.  It moves in the middle of a download only, and only what it     *)
(* does itself changes what is known of it.                                 *)

LEMMA InJoin == ASSUME Inv, NEW i \in Lanes, lane[i] # "off" PROVE main = "join" /\ Used(i)
BY DEF Inv, Idle, LanesKnown, LaneKnown

LEMMA LaneKeeps ==
    ASSUME Inv, NEW i \in Lanes, lane[i] # "off",
           UNCHANGED <<startOffset, main, result, asked, cancel>>,
           TypeOK', StopKnown', stop => stop',
           Len(dest') = Len(dest), \A k \in 1 .. startOffset : dest'[k] = dest[k],
           \A j \in Lanes \ {i} :
              /\ lane'[j] = lane[j] /\ pos'[j] = pos[j] /\ laneDone'[j] = laneDone[j]
              /\ error'[j] = error[j]
              /\ Used(j) => \A k \in 1 .. Length(j) : dest'[Offset(j) + k] = dest[Offset(j) + k],
           /\ laneDone'[i] <= Length(i)
           /\ \A k \in 1 .. Length(i) : (dest'[Offset(i) + k] = "new") <=> k <= laneDone'[i],
           LaneKnown(i)'
    PROVE  Inv'
<1> USE DEF Inv
<1>1. main = "join" /\ main' = "join" BY InJoin
<1>2. \A j \in Lanes : Offset(j)' = Offset(j) /\ Length(j)' = Length(j) /\ Used(j)' = Used(j)
  BY DEF Offset, Length, Used, Span
<1>3. LaneOnDisk'
  <2> SUFFICES ASSUME NEW j \in Lanes, Used(j)
               PROVE  /\ laneDone'[j] <= Length(j)
                      /\ \A k \in 1 .. Length(j) :
                            (dest'[Offset(j) + k] = "new") <=> k <= laneDone'[j]
    BY <1>2 DEF LaneOnDisk
  <2>1. CASE j = i BY <2>1
  <2>2. CASE j # i BY <1>1, <2>2 DEF LaneOnDisk
  <2> QED BY <2>1, <2>2
<1>4. LanesKnown'
  <2> SUFFICES ASSUME NEW j \in Lanes PROVE LaneKnown(j)' BY DEF LanesKnown
  <2>1. CASE j = i BY <2>1
  <2>2. CASE j # i BY <1>1, <1>2, <2>2 DEF LanesKnown, LaneKnown
  <2> QED BY <2>1, <2>2
<1>5. result' = "none" BY <1>1 DEF Returned
<1>6. (CorrectCopy /\ Returned /\ Idle /\ Prefix /\ SizedToWhole)'
  BY <1>1, <1>5 DEF CorrectCopy, Returned, Idle, Prefix, SizedToWhole
<1> QED BY <1>3, <1>4, <1>6 DEF LaneBounds

\* Where a lane writes, no other lane has its range.
LEMMA FetchInv == ASSUME NEW i \in Lanes, Inv, Fetch(i) PROVE Inv'
<1> USE DEF Inv
<1>1. /\ lane[i] = "fetch" /\ laneDone[i] < Length(i)
      /\ dest' = [dest EXCEPT ![pos[i] + 1] = "new"]
      /\ pos' = [pos EXCEPT ![i] = @ + 1] /\ laneDone' = [laneDone EXCEPT ![i] = @ + 1]
      /\ UNCHANGED <<startOffset, main, lane, attempt, error, firstError, stop, cancel, result,
                     asked>>
  BY DEF Fetch
<1>2. main = "join" /\ Used(i) BY <1>1, InJoin
<1>3. /\ pos[i] = Offset(i) + laneDone[i] /\ laneDone[i] \in Nat
      /\ dest \in Seq({"new", "hole"}) /\ Len(dest) = Blocks /\ Blocks \in Nat
      /\ startOffset \in Nat /\ startOffset < Blocks
      /\ laneDone \in [Lanes -> 0 .. Blocks] /\ pos \in [Lanes -> 0 .. Blocks]
  BY <1>1, <1>2 DEF LanesKnown, LaneKnown, TypeOK, SizedToWhole, LaneBounds
<1>4. /\ Offset(i) \in Nat /\ startOffset <= Offset(i)
      /\ Length(i) \in Nat /\ Offset(i) + Length(i) <= Blocks
  BY <1>2, <1>3, Ranges
<1>5. pos[i] + 1 \in 1 .. Blocks BY <1>1, <1>3, <1>4
<1>6. /\ dest' \in Seq({"new", "hole"}) /\ Len(dest') = Blocks
      /\ dest'[pos[i] + 1] = "new"
      /\ \A k \in 1 .. Blocks : k # pos[i] + 1 => dest'[k] = dest[k]
  BY <1>1, <1>3, <1>5
<1>7. laneDone'[i] = laneDone[i] + 1 /\ pos'[i] = pos[i] + 1
      /\ \A j \in Lanes \ {i} : laneDone'[j] = laneDone[j] /\ pos'[j] = pos[j]
  BY <1>1, <1>3
<1>8. TypeOK'
  <2>1. laneDone[i] + 1 \in 0 .. Blocks /\ pos[i] + 1 \in 0 .. Blocks BY <1>1, <1>3, <1>4
  <2>2. laneDone' \in [Lanes -> 0 .. Blocks] /\ pos' \in [Lanes -> 0 .. Blocks]
    BY <1>1, <1>3, <2>1
  <2> QED BY <1>1, <1>3, <1>6, <2>2 DEF TypeOK
<1>9. \A k \in 1 .. startOffset : dest'[k] = dest[k] BY <1>3, <1>4, <1>6
<1>10. ASSUME NEW j \in Lanes \ {i}, Used(j), NEW k \in 1 .. Length(j)
       PROVE  dest'[Offset(j) + k] = dest[Offset(j) + k]
  <2>1. /\ Offset(j) \in Nat /\ Length(j) \in Nat /\ Offset(j) + Length(j) <= Blocks
    BY <1>3, <1>10, Ranges
  <2>2. i \in Nat /\ j \in Nat BY DEF Lanes, LaneBounds
  <2>3. Offset(i) + Length(i) <= Offset(j) \/ Offset(j) + Length(j) <= Offset(i)
    <3>1. CASE i < j BY <1>2, <1>3, <1>10, <3>1, Ranges
    <3>2. CASE j < i BY <1>2, <1>3, <1>10, <3>2, Ranges
    <3> QED BY <2>2, <3>1, <3>2
  <2>4. Offset(j) + k \in 1 .. Blocks /\ Offset(j) + k # Offset(i) + laneDone[i] + 1
    <3>1. laneDone[i] \in Nat /\ laneDone[i] < Length(i) BY <1>1, <1>3, <1>4
    <3>2. Blocks \in Nat BY DEF LaneBounds
    <3>3. \A d \in Nat : d < Length(i) =>
             Offset(j) + k \in 1 .. Blocks /\ Offset(j) + k # Offset(i) + d + 1
      BY <1>4, <2>1, <2>3, <3>2, PlacesApart
    <3> QED BY <3>1, <3>3
  <2>5. Offset(j) + k # pos[i] + 1 BY <1>3, <2>4
  <2> QED BY <1>6, <2>4, <2>5
<1>11. /\ laneDone'[i] <= Length(i)
       /\ \A k \in 1 .. Length(i) : (dest'[Offset(i) + k] = "new") <=> k <= laneDone'[i]
  <2>1. ASSUME NEW k \in 1 .. Length(i)
        PROVE  (dest'[Offset(i) + k] = "new") <=> k <= laneDone'[i]
    <3>1. Offset(i) + k \in 1 .. Blocks BY <1>3, <1>4
    <3>2. (dest[Offset(i) + k] = "new") <=> k <= laneDone[i] BY <1>2 DEF LaneOnDisk
    <3>3. CASE k = laneDone[i] + 1 BY <1>3, <1>4, <1>6, <1>7, <3>3
    <3>4. CASE k # laneDone[i] + 1
      <4>1. Offset(i) + k # pos[i] + 1 BY <1>3, <1>4, <3>4
      <4>2. dest'[Offset(i) + k] = dest[Offset(i) + k] BY <1>6, <3>1, <4>1
      <4> QED BY <1>3, <1>4, <1>7, <3>2, <3>4, <4>2
    <3> QED BY <3>3, <3>4
  <2> QED BY <1>1, <1>3, <1>4, <1>7, <2>1
<1>12. LaneKnown(i)'
  <2>1. Offset(i)' = Offset(i) /\ Used(i)' = Used(i) BY <1>1 DEF Offset, Used, Span
  <2> QED BY <1>1, <1>2, <1>3, <1>4, <1>7, <2>1 DEF LaneKnown
<1>13. StopKnown' BY <1>1 DEF StopKnown
<1>14. \A j \in Lanes \ {i} :
          /\ lane'[j] = lane[j] /\ pos'[j] = pos[j] /\ laneDone'[j] = laneDone[j]
          /\ error'[j] = error[j]
          /\ Used(j) => \A k \in 1 .. Length(j) : dest'[Offset(j) + k] = dest[Offset(j) + k]
  BY <1>1, <1>7, <1>10
<1> QED BY <1>1, <1>3, <1>6, <1>8, <1>9, <1>11, <1>12, <1>13, <1>14, LaneKeeps

\* A step of a lane that writes nothing.
LEMMA OtherInv ==
    ASSUME NEW i \in Lanes, Inv,
           Check(i) \/ Connect(i) \/ ConnectFails(i) \/ RangeDone(i) \/ FetchFails(i) \/ Failed(i)
    PROVE  Inv'
<1> USE DEF Inv
<1>1. /\ lane[i] # "off" /\ main = "join" /\ Used(i)
      /\ UNCHANGED <<startOffset, dest, main, laneDone, cancel, result, asked>>
  BY InJoin DEF Check, Connect, ConnectFails, RangeDone, FetchFails, Failed
<1>2. /\ lane \in [Lanes -> {"off", "check", "connect", "fetch", "failed"}]
      /\ attempt \in [Lanes -> 1 .. MaxAttempts] /\ MaxAttempts \in Nat
      /\ pos \in [Lanes -> 0 .. Blocks] /\ laneDone \in [Lanes -> 0 .. Blocks]
      /\ error \in [Lanes -> {"none", "drop", "refused", "hard"}]
      /\ firstError \in {"none", "drop", "refused", "hard"} /\ Blocks \in Nat
      /\ startOffset \in Nat /\ startOffset < Blocks
      /\ stop \in BOOLEAN /\ (stop => firstError # "none")
  BY <1>1 DEF TypeOK, LaneBounds, StopKnown, SizedToWhole
<1>3. /\ Offset(i) \in Nat /\ Length(i) \in Nat /\ Offset(i) + Length(i) <= Blocks
      /\ laneDone[i] \in Nat /\ laneDone[i] <= Length(i)
      /\ \A k \in 1 .. Length(i) : (dest[Offset(i) + k] = "new") <=> k <= laneDone[i]
  BY <1>1, <1>2, Ranges DEF LaneOnDisk
<1>4. Offset(i)' = Offset(i) /\ Length(i)' = Length(i) /\ Used(i)' = Used(i)
  BY <1>1 DEF Offset, Length, Used, Span
<1>5. LaneKnown(i) BY <1>1 DEF LanesKnown
<1>6. /\ lane' \in [Lanes -> {"off", "check", "connect", "fetch", "failed"}]
      /\ \A j \in Lanes \ {i} :
            lane'[j] = lane[j] /\ pos'[j] = pos[j] /\ error'[j] = error[j]
      /\ attempt' \in [Lanes -> 1 .. MaxAttempts] /\ pos' \in [Lanes -> 0 .. Blocks]
      /\ error' \in [Lanes -> {"none", "drop", "refused", "hard"}]
      /\ firstError' \in {"none", "drop", "refused", "hard"}
      /\ stop' \in BOOLEAN /\ (stop => stop') /\ (stop' => firstError' # "none")
      /\ LaneKnown(i)'
  <2>1. CASE Check(i)
    <3>1. ResumeFrom(i) \in 0 .. Blocks BY <1>2, <1>3 DEF ResumeFrom
    <3>2. CASE Stopped \/ laneDone[i] >= Length(i)
      <4>1. /\ lane' = [lane EXCEPT ![i] = "off"] /\ UNCHANGED <<pos, attempt, error, firstError, stop>>
        BY <2>1, <3>2 DEF Check, Goes
      <4>2. laneDone[i] = Length(i) \/ cancel \/ stop BY <1>3, <3>2 DEF Stopped
      <4>3. LaneKnown(i)' BY <1>1, <1>2, <1>4, <4>1, <4>2 DEF LaneKnown
      <4> QED BY <1>2, <4>1, <4>3
    <3>3. CASE ~(Stopped \/ laneDone[i] >= Length(i))
      <4>1. /\ lane' = [lane EXCEPT ![i] = "connect"] /\ pos' = [pos EXCEPT ![i] = ResumeFrom(i)]
            /\ UNCHANGED <<attempt, error, firstError, stop>>
        BY <2>1, <3>3 DEF Check, Goes
      <4>2. LaneKnown(i)' BY <1>1, <1>2, <1>4, <4>1 DEF LaneKnown, ResumeFrom
      <4> QED BY <1>2, <3>1, <4>1, <4>2
    <3> QED BY <3>2, <3>3
  <2>2. CASE Connect(i)
    <3>1. /\ lane[i] = "connect" /\ lane' = [lane EXCEPT ![i] = "fetch"]
          /\ UNCHANGED <<attempt, pos, error, firstError, stop>>
      BY <2>2 DEF Connect, Goes
    <3>2. LaneKnown(i)' BY <1>1, <1>2, <1>4, <1>5, <3>1 DEF LaneKnown
    <3> QED BY <1>2, <3>1, <3>2
  <2>3. CASE ConnectFails(i) \/ FetchFails(i)
    <3>1. PICK e \in {"refused", "drop", "hard"} :
             lane' = [lane EXCEPT ![i] = "failed"] /\ error' = [error EXCEPT ![i] = e]
      BY <2>3 DEF ConnectFails, FetchFails, Fails, Goes
    <3>2. UNCHANGED <<attempt, pos, firstError, stop>> BY <2>3 DEF ConnectFails, FetchFails
    <3>3. LaneKnown(i)' BY <1>1, <1>2, <1>4, <3>1 DEF LaneKnown
    <3> QED BY <1>2, <3>1, <3>2, <3>3
  <2>4. CASE RangeDone(i)
    <3>1. /\ laneDone[i] = Length(i) /\ lane' = [lane EXCEPT ![i] = "off"]
          /\ UNCHANGED <<attempt, pos, error, firstError, stop>>
      BY <2>4 DEF RangeDone, Goes
    <3>2. LaneKnown(i)' BY <1>1, <1>2, <1>4, <3>1 DEF LaneKnown
    <3> QED BY <1>2, <3>1, <3>2
  <2>5. CASE Failed(i)
    <3>1. lane[i] = "failed" /\ error[i] # "none" /\ UNCHANGED <<pos, error>>
      BY <1>5, <2>5 DEF Failed, LaneKnown
    <3>2. CASE Stopped
      <4>1. lane' = [lane EXCEPT ![i] = "off"] /\ UNCHANGED <<attempt, firstError, stop>>
        BY <2>5, <3>2 DEF Failed, Goes
      <4>2. LaneKnown(i)' BY <1>1, <1>2, <1>4, <3>2, <4>1 DEF LaneKnown, Stopped
      <4> QED BY <1>2, <3>1, <4>1, <4>2
    <3>3. CASE ~Stopped /\ GivesUp(i)
      <4>1. /\ lane' = [lane EXCEPT ![i] = "off"] /\ stop' = TRUE /\ UNCHANGED attempt
            /\ firstError' = IF firstError = "none" THEN error[i] ELSE firstError
        BY <2>5, <3>3 DEF Failed, Goes
      <4>2. LaneKnown(i)' BY <1>1, <1>2, <1>4, <4>1 DEF LaneKnown
      <4>3. firstError' \in {"none", "drop", "refused", "hard"} /\ firstError' # "none"
        BY <1>2, <3>1, <4>1
      <4> QED BY <1>2, <3>1, <4>1, <4>2, <4>3
    <3>4. CASE ~Stopped /\ ~GivesUp(i)
      <4>1. /\ lane' = [lane EXCEPT ![i] = "check"] /\ UNCHANGED <<firstError, stop>>
            /\ attempt' = [attempt EXCEPT ![i] = attempt[i] + 1] /\ attempt[i] < MaxAttempts
        BY <1>2, <2>5, <3>4 DEF Failed, Goes, GivesUp, NextAttempt
      <4>2. LaneKnown(i)' BY <1>1, <1>2, <1>4, <4>1 DEF LaneKnown
      <4>3. attempt' \in [Lanes -> 1 .. MaxAttempts] BY <1>2, <4>1
      <4> QED BY <1>2, <3>1, <4>1, <4>2, <4>3
    <3> QED BY <3>2, <3>3, <3>4
  <2> QED BY <2>1, <2>2, <2>3, <2>4, <2>5
<1>7. TypeOK' BY <1>1, <1>6 DEF TypeOK
<1>8. StopKnown' BY <1>6 DEF StopKnown
<1> QED BY <1>1, <1>3, <1>6, <1>7, <1>8, LaneKeeps

LEMMA StepInv == Inv /\ [Next]_vars => Inv'
BY StartInv, SpawnInv, JoinInv, UserInv, FetchInv, OtherInv DEF Next, Main, Lane

-----------------------------------------------------------------------------

\* A lane's watermark is the blocks of its own range that are on disk.
THEOREM WatermarksHold == LaneBounds /\ Spec => []LaneOnDisk
<1>1. Inv => LaneOnDisk BY DEF Inv
<1> QED BY <1>1, InitInv, StepInv, PTL DEF Spec

\* A parallel download that reports success has left the whole file, however
\* its lanes were split, dropped, retried or stopped.
THEOREM NoHoles == LaneBounds /\ Spec => []CorrectCopy
<1>1. Inv => CorrectCopy BY DEF Inv
<1> QED BY <1>1, InitInv, StepInv, PTL DEF Spec

-----------------------------------------------------------------------------
(* A sequential download. *)

LEMMA FileBounds == FileBlocks \in Nat /\ FileAttempts \in Nat \ {0} /\ StaleRetries \in BOOLEAN
BY BoundsAssumption DEF BoundsAssumption

\* Nothing in it but blocks of the file, and no more than it has.
OnlyNew == dest \in Seq({"new"}) /\ Len(dest) <= FileBlocks

\* Where the next attempt is to go on, what an attempt has written, and what is
\* left of a file that was to be overwritten: only a single attempt finds one.
DownloadInv ==
    /\ Download!TypeOK
    /\ result = "true" => pc = "done" /\ (~StaleRetries => OnlyNew /\ Len(dest) = FileBlocks)
    /\ pc = "start" => attempt = 1 /\ startOffset = 0
    /\ total = 0 => startOffset = 0
    /\ pc \in {"open", "openLocal"} =>
          /\ startOffset # 0 \/ (total > 0 /\ attempt > 1) =>
                startOffset = Download!Lesser(Len(dest), FileBlocks)
          /\ attempt > 1 \/ startOffset # 0 => StaleRetries \/ OnlyNew
    /\ pc \in {"copy", "close"} =>
          (StaleRetries \/ OnlyNew) /\ pos = Download!Lesser(Len(dest), FileBlocks)
    /\ pc = "close" => pos = FileBlocks
    /\ pc \in {"backoff", "reconnect"} => attempt < maxAttempts
    /\ \/ StaleRetries
       \/ OnlyNew
       \/ ~resume /\ attempt = 1 /\ startOffset = 0 /\ maxAttempts = 1

LEMMA DownloadStarts == Download!Init => DownloadInv
<1> SUFFICES ASSUME Download!Init PROVE DownloadInv OBVIOUS
<1> USE FileBounds
<1>1. \/ dest \in Seq({"new"}) /\ Len(dest) <= FileBlocks
      \/ dest \in Seq({"old"}) /\ ~resume
  BY DEF Download!Init, Download!Filled
<1>2. dest \in Seq({"new", "old"}) BY <1>1
<1>3. \/ StaleRetries
      \/ OnlyNew
      \/ maxAttempts = 1 /\ ~resume
  <2>1. CASE dest = << >>
    <3>1. Len(dest) = 0 /\ dest \in Seq({"new"}) BY <2>1
    <3> QED BY <3>1 DEF OnlyNew
  <2>2. CASE dest # << >> /\ ~OnlyNew
    <3>1. dest \in Seq({"old"}) /\ ~resume BY <1>1, <2>2 DEF OnlyNew
    <3>2. 1 \in DOMAIN dest /\ dest[1] = "old" BY <3>1, <2>2
    <3> QED BY <3>1, <3>2 DEF Download!Init
  <2> QED BY <2>1, <2>2
<1>4. /\ total \in {0, FileBlocks} /\ startOffset \in 0 .. FileBlocks /\ pos \in 0 .. FileBlocks
      /\ attempt \in 1 .. maxAttempts /\ maxAttempts \in {1, FileAttempts} /\ resume \in BOOLEAN
      /\ pc = "start" /\ result = "none"
  BY DEF Download!Init
<1>5. connected \in BOOLEAN /\ drop \in BOOLEAN /\ cancel \in BOOLEAN
  <2>1. connected = TRUE /\ drop = FALSE /\ cancel = FALSE BY DEF Download!Init
  <2> QED BY <2>1
<1>6. Download!TypeOK BY <1>2, <1>4, <1>5 DEF Download!TypeOK
<1> QED BY <1>3, <1>6 DEF Download!Init, DownloadInv

LEMMA DownloadStep ==
    ASSUME DownloadInv, Download!Next \/ UNCHANGED Download!vars
    PROVE  DownloadInv' /\ Download!Keeps
<1> USE FileBounds DEF DownloadInv, Download!TypeOK, Download!Keeps, Download!options, Download!Return,
            Download!Lesser, OnlyNew
<1>0. Download!IsPrefix(dest, dest) BY DEF Download!IsPrefix
<1>1. CASE Download!Start
  <2>1. Download!IsPrefix(dest, dest') BY <1>0, <1>1 DEF Download!Start
  <2> QED BY <1>1, <2>1 DEF Download!Start
<1>2. CASE Download!OpenRemote BY <1>0, <1>2 DEF Download!OpenRemote
<1>3. CASE Download!OpenRemoteFails BY <1>0, <1>3 DEF Download!OpenRemoteFails
<1>4. CASE Download!OpenLocal BY <1>0, <1>4 DEF Download!OpenLocal, Download!Opened
<1>5. CASE Download!OpenLocalFails BY <1>0, <1>5 DEF Download!OpenLocalFails
<1>6. CASE Download!CopyBlock BY <1>6 DEF Download!CopyBlock, Download!IsPrefix
<1>7. CASE Download!CopyEnds BY <1>0, <1>7 DEF Download!CopyEnds, Download!AtEnd
<1>8. CASE Download!Close BY <1>0, <1>8 DEF Download!Close
<1>9. CASE Download!CopyFails BY <1>0, <1>9 DEF Download!CopyFails
<1>10. CASE Download!Failed BY <1>0, <1>10 DEF Download!Failed, Download!GiveUp
<1>11. CASE Download!Backoff BY <1>0, <1>11 DEF Download!Backoff
<1>12. CASE Download!Reconnect BY <1>0, <1>12 DEF Download!Reconnect, Download!ResumeAt, Download!NextAttempt
<1>13. CASE Download!Cancel BY <1>0, <1>13 DEF Download!Cancel
<1>14. CASE UNCHANGED Download!vars BY <1>0, <1>14 DEF Download!vars
<1> QED
  BY <1>1, <1>2, <1>3, <1>4, <1>5, <1>6, <1>7, <1>8, <1>9, <1>10, <1>11, <1>12, <1>13, <1>14
  DEF Download!Next, Download!Engine

LEMMA DownloadCopied ==
    ASSUME DownloadInv, ~StaleRetries
    PROVE  Download!TypeOK /\ Download!CorrectCopy
<1>1. ASSUME result = "true" PROVE dest = Download!Filled("new", FileBlocks)
  BY <1>1 DEF DownloadInv, OnlyNew, Download!Filled
<1> QED BY <1>1 DEF DownloadInv, Download!CorrectCopy

-----------------------------------------------------------------------------
(* A sequential upload. *)

\* As for a download; what was sent and not committed is not in the remote file.
UploadInv ==
    /\ Upload!TypeOK
    /\ result = "true" => pc = "done" /\ (~StaleRetries => OnlyNew /\ Len(dest) = FileBlocks)
    /\ pc = "start" => attempt = 1 /\ startOffset = 0
    /\ pc \in {"open", "copy", "close"} =>
          /\ startOffset # 0 => StaleRetries \/ OnlyNew
          /\ pc = "open" => startOffset \in {0, Upload!Lesser(Len(dest), FileBlocks)}
    /\ pc \in {"copy", "close"} => StaleRetries \/ (OnlyNew /\ committed = Len(dest))
    /\ pc = "close" => sent = FileBlocks
    /\ pc \in {"backoff", "reconnect"} => attempt < maxAttempts
    /\ \/ StaleRetries
       \/ OnlyNew
       \/ ~resume /\ attempt = 1 /\ startOffset = 0 /\ maxAttempts = 1

LEMMA UploadStarts == Upload!Init => UploadInv
<1> SUFFICES ASSUME Upload!Init PROVE UploadInv OBVIOUS
<1> USE FileBounds
<1>1. \/ dest \in Seq({"new"}) /\ Len(dest) <= FileBlocks
      \/ dest \in Seq({"old"}) /\ ~resume
  BY DEF Upload!Init, Upload!Filled
<1>2. dest \in Seq({"new", "old", "hole"}) BY <1>1
<1>3. \/ StaleRetries
      \/ OnlyNew
      \/ maxAttempts = 1 /\ ~resume
  <2>1. CASE dest = << >>
    <3>1. Len(dest) = 0 /\ dest \in Seq({"new"}) BY <2>1
    <3> QED BY <3>1 DEF OnlyNew
  <2>2. CASE dest # << >> /\ ~OnlyNew
    <3>1. dest \in Seq({"old"}) /\ ~resume BY <1>1, <2>2 DEF OnlyNew
    <3>2. 1 \in DOMAIN dest /\ dest[1] = "old" BY <3>1, <2>2
    <3> QED BY <3>1, <3>2 DEF Upload!Init
  <2> QED BY <2>1, <2>2
<1>4. /\ startOffset \in 0 .. FileBlocks /\ sent \in 0 .. FileBlocks /\ committed \in 0 .. sent
      /\ attempt \in 1 .. maxAttempts /\ maxAttempts \in {1, FileAttempts} /\ resume \in BOOLEAN
      /\ pc = "start" /\ result = "none"
  BY DEF Upload!Init
<1>5. connected \in BOOLEAN /\ drop \in BOOLEAN /\ cancel \in BOOLEAN
  <2>1. connected = TRUE /\ drop = FALSE /\ cancel = FALSE BY DEF Upload!Init
  <2> QED BY <2>1
<1>6. Upload!TypeOK BY <1>2, <1>4, <1>5 DEF Upload!TypeOK
<1> QED BY <1>3, <1>6 DEF Upload!Init, UploadInv

LEMMA UploadStep ==
    ASSUME UploadInv, Upload!Next \/ UNCHANGED Upload!vars
    PROVE  UploadInv'
<1> USE FileBounds DEF UploadInv, Upload!TypeOK, Upload!options, Upload!file, Upload!Return,
                       Upload!Lesser, OnlyNew
<1>1. CASE Upload!Start BY <1>1 DEF Upload!Start, Upload!Reported
<1>2. CASE Upload!Open BY <1>2 DEF Upload!Open, Upload!Opened
<1>3. CASE Upload!OpenFails BY <1>3 DEF Upload!OpenFails
<1>4. CASE Upload!Send BY <1>4 DEF Upload!Send
<1>5. CASE Upload!Commit
  <2>1. dest' = Upload!Written(committed) /\ committed < sent /\ committed' = committed + 1
    BY <1>5 DEF Upload!Commit
  <2>2. dest' \in Seq({"new", "old", "hole"})
    BY <2>1 DEF Upload!Written
  <2>3. OnlyNew /\ committed = Len(dest) =>
           dest' \in Seq({"new"}) /\ Len(dest') = committed + 1 /\ committed + 1 <= FileBlocks
    BY <2>1 DEF Upload!Written
  <2> QED BY <1>5, <2>1, <2>2, <2>3 DEF Upload!Commit
<1>6. CASE Upload!CopyEnds BY <1>6 DEF Upload!CopyEnds
<1>7. CASE Upload!Close BY <1>7 DEF Upload!Close, Upload!Acknowledged
<1>8. CASE Upload!CopyFails BY <1>8 DEF Upload!CopyFails
<1>9. CASE Upload!Failed BY <1>9 DEF Upload!Failed, Upload!GiveUp
<1>10. CASE Upload!Backoff BY <1>10 DEF Upload!Backoff
<1>11. CASE Upload!Reconnect
  BY <1>11 DEF Upload!Reconnect, Upload!ResumeAt, Upload!NextAttempt, Upload!Reported
<1>12. CASE Upload!Cancel BY <1>12 DEF Upload!Cancel
<1>13. CASE UNCHANGED Upload!vars BY <1>13 DEF Upload!vars
<1> QED
  BY <1>1, <1>2, <1>3, <1>4, <1>5, <1>6, <1>7, <1>8, <1>9, <1>10, <1>11, <1>12, <1>13
  DEF Upload!Next, Upload!Engine

LEMMA UploadCopied ==
    ASSUME UploadInv, ~StaleRetries
    PROVE  Upload!TypeOK /\ Upload!CorrectCopy
<1>1. ASSUME result = "true" PROVE dest = Upload!Filled("new", FileBlocks)
  BY <1>1 DEF UploadInv, OnlyNew, Upload!Filled
<1> QED BY <1>1 DEF UploadInv, Upload!CorrectCopy
-----------------------------------------------------------------------------
(* An upload in lanes: its ranges are those of a download.                 *)

LEMMA LaneFacts ==
    /\ Blocks \in Nat \ {0} /\ Workers \in Nat \ {0} /\ MaxAttempts \in Nat \ {0} /\ Resumes \in Nat
    /\ Margin \in Nat /\ Window \in 1 .. Margin
    /\ LaneBounds
BY BoundsAssumption DEF BoundsAssumption, LaneBounds

LEMMA SameRanges ==
    /\ LaneUpload!Lanes = Lanes /\ LaneUpload!Span = Span
    /\ \A i : LaneUpload!Offset(i) = Offset(i) /\ LaneUpload!Length(i) = Length(i)
              /\ (LaneUpload!Used(i) <=> Used(i))
BY DEF LaneUpload!Lanes, LaneUpload!Span, LaneUpload!Offset, LaneUpload!Length, LaneUpload!Used,
       Lanes, Span, Offset, Length, Used

\* The server is behind what a lane counts by at most the window, and by less
\* than the margin that a retry goes back.
LaneSent(i) ==
    /\ committed[i] <= sent[i] /\ sent[i] <= committed[i] + Window
    /\ resumeFrom[i] + sent[i] <= Length(i)
    /\ \A k \in 1 .. resumeFrom[i] + committed[i] :
          Offset(i) + k <= Len(dest) /\ dest[Offset(i) + k] = "new"
    /\ lane[i] = "check" => base[i] = resumeFrom[i] + sent[i] 
    /\ attempt[i] = 1 => base[i] = 0
    /\ lane[i] = "failed" => error[i] # "none"
    /\ lane[i] = "off" => \/ cancel \/ stop
                          \/ attempt[i] # 1
                          \/ resumeFrom[i] + committed[i] = Length(i)

LaneUploadInv ==
    /\ LaneUpload!TypeOK
    /\ result = "none" <=> upMain # "done"
    /\ upMain # "join" => \A i \in Lanes : lane[i] = "off"
    /\ upMain \in {"spawn", "join"} => startOffset < Blocks /\ startOffset <= Len(dest)
    /\ upMain = "join" => \A i \in Lanes : IF Used(i) THEN LaneSent(i) ELSE lane[i] = "off"
    /\ stop => firstError # "none"
    /\ upAsked = 1 /\ upMain # "done" =>
          \A k \in 1 .. (IF upMain = "start" THEN Len(dest) ELSE startOffset) : dest[k] = "new"
    /\ LaneUpload!CorrectCopy

LEMMA LaneUploadStarts == LaneUpload!Init => LaneUploadInv
<1> SUFFICES ASSUME LaneUpload!Init PROVE LaneUploadInv OBVIOUS
<1> USE LaneFacts
<1>1. PICK n \in 0 .. Blocks : dest = [k \in 1 .. n |-> "new"] BY DEF LaneUpload!Init
<1>2. /\ dest \in Seq({"new", "hole"}) /\ Len(dest) <= Blocks
      /\ \A k \in 1 .. Len(dest) : dest[k] = "new"
  BY <1>1
<1>3. /\ startOffset = 0 /\ upMain = "start" /\ result = "none" /\ upAsked = 1
      /\ firstError = "none"
      /\ stop = FALSE /\ cancel = FALSE
  BY DEF LaneUpload!Init
<1>4. /\ lane = [i \in Lanes |-> "off"] /\ attempt = [i \in Lanes |-> 1]
      /\ base = [i \in Lanes |-> 0] /\ resumeFrom = [i \in Lanes |-> 0]
      /\ sent = [i \in Lanes |-> 0] /\ committed = [i \in Lanes |-> 0]
      /\ error = [i \in Lanes |-> "none"]
  BY SameRanges DEF LaneUpload!Init, LaneUpload!Zero
<1>5. stop \in BOOLEAN /\ cancel \in BOOLEAN BY <1>3
<1>6. LaneUpload!TypeOK
  <2>1. /\ lane \in [Lanes -> {"off", "check", "connect", "send", "failed"}]
        /\ attempt \in [Lanes -> 1 .. MaxAttempts]
        /\ base \in [Lanes -> 0 .. Blocks] /\ resumeFrom \in [Lanes -> 0 .. Blocks]
        /\ sent \in [Lanes -> 0 .. Blocks] /\ committed \in [Lanes -> 0 .. Blocks]
        /\ error \in [Lanes -> {"none", "drop", "hard"}]
    BY <1>4
  <2>2. startOffset \in 0 .. Blocks /\ upAsked \in 1 .. Resumes + 1 BY <1>3
  <2> QED BY <1>2, <1>3, <1>5, <2>1, <2>2, SameRanges DEF LaneUpload!TypeOK
<1>7. LaneUpload!CorrectCopy BY <1>3 DEF LaneUpload!CorrectCopy
<1> QED BY <1>2, <1>3, <1>4, <1>6, <1>7 DEF LaneUploadInv

\* What an invariant says of the types, in terms of the lanes here.
LaneUploadTypes ==
    /\ startOffset \in 0 .. Blocks /\ upAsked \in 1 .. Resumes + 1
    /\ upMain \in {"start", "spawn", "join", "done"} /\ result \in {"none", "true", "false"}
    /\ lane \in [Lanes -> {"off", "check", "connect", "send", "failed"}]
    /\ attempt \in [Lanes -> 1 .. MaxAttempts]
    /\ base \in [Lanes -> 0 .. Blocks] /\ resumeFrom \in [Lanes -> 0 .. Blocks]
    /\ sent \in [Lanes -> 0 .. Blocks] /\ committed \in [Lanes -> 0 .. Blocks]
    /\ error \in [Lanes -> {"none", "drop", "hard"}] /\ firstError \in {"none", "drop", "hard"}
    /\ stop \in BOOLEAN /\ cancel \in BOOLEAN
    /\ dest \in Seq({"new", "hole"}) /\ Len(dest) <= Blocks

LEMMA SameTypes == (LaneUpload!TypeOK <=> LaneUploadTypes) /\ (LaneUploadTypes' => LaneUpload!TypeOK')
<1>1. LaneUpload!Lanes = Lanes BY DEF LaneUpload!Lanes, Lanes
<1> QED BY <1>1 DEF LaneUpload!TypeOK, LaneUploadTypes

LEMMA LaneUploadStart == LaneUploadInv /\ LaneUpload!Start => LaneUploadInv'
<1> SUFFICES ASSUME LaneUploadInv, LaneUpload!Start PROVE LaneUploadInv' OBVIOUS
<1> USE LaneFacts
<1>1. LaneUploadTypes BY SameTypes DEF LaneUploadInv
<1>2. /\ upMain = "start" /\ result = "none" /\ startOffset' \in {0, Len(dest)}
      /\ UNCHANGED <<lane, attempt, base, resumeFrom, sent, committed, error, firstError, stop,
                     cancel, upAsked>>
  BY DEF LaneUpload!Start, LaneUpload!Resumed, LaneUpload!laneVars, LaneUploadInv
<1>3. startOffset' \in 0 .. Blocks BY <1>1, <1>2 DEF LaneUploadTypes
<1>4. \A i \in Lanes : lane[i] = "off" BY <1>2 DEF LaneUploadInv
<1>5. upAsked = 1 => \A k \in 1 .. Len(dest) : dest[k] = "new" BY <1>2 DEF LaneUploadInv
<1>6. stop => firstError # "none" BY DEF LaneUploadInv
<1>7. CASE startOffset' = Blocks /\ upMain' = "done" /\ result' = "true" /\ dest' = dest
  <2>1. LaneUploadTypes' BY <1>1, <1>2, <1>3, <1>7 DEF LaneUploadTypes
  <2>2. LaneUpload!TypeOK' BY <2>1, SameTypes
  <2>3. LaneUpload!CorrectCopy'
    <3>1. Len(dest) = Blocks /\ dest \in Seq({"new", "hole"}) BY <1>1, <1>2, <1>7 DEF LaneUploadTypes
    <3>2. DOMAIN dest = 1 .. Blocks /\ dest = [k \in 1 .. Blocks |-> dest[k]] BY <3>1
    <3>3. upAsked = 1 => dest = [k \in 1 .. Blocks |-> "new"] BY <1>5, <3>1, <3>2
    <3> QED BY <1>2, <1>7, <3>3 DEF LaneUpload!CorrectCopy
  <2> QED BY <1>2, <1>4, <1>6, <1>7, <2>2, <2>3 DEF LaneUploadInv
<1>8. CASE /\ startOffset' # Blocks /\ upMain' = "spawn" /\ result' = result
           /\ dest' = IF startOffset' = 0 THEN << >> ELSE dest
  <2>1. LaneUploadTypes' BY <1>1, <1>2, <1>3, <1>8 DEF LaneUploadTypes
  <2>2. LaneUpload!TypeOK' BY <2>1, SameTypes
  <2>3. LaneUpload!CorrectCopy' BY <1>2, <1>8 DEF LaneUpload!CorrectCopy
  <2>4. startOffset' < Blocks /\ startOffset' <= Len(dest')
    BY <1>1, <1>2, <1>3, <1>8 DEF LaneUploadTypes
  <2>5. upAsked = 1 => \A k \in 1 .. startOffset' : dest'[k] = "new"
    BY <1>1, <1>2, <1>3, <1>5, <1>8 DEF LaneUploadTypes
  <2> QED BY <1>2, <1>4, <1>6, <1>8, <2>2, <2>3, <2>4, <2>5 DEF LaneUploadInv
<1>9. CASE startOffset' = 0 /\ upMain' = "done" /\ result' = "false" /\ dest' = dest
  <2>1. LaneUploadTypes' BY <1>1, <1>2, <1>3, <1>9 DEF LaneUploadTypes
  <2>2. LaneUpload!TypeOK' BY <2>1, SameTypes
  <2>3. LaneUpload!CorrectCopy' BY <1>9 DEF LaneUpload!CorrectCopy
  <2> QED BY <1>2, <1>4, <1>6, <1>9, <2>2, <2>3 DEF LaneUploadInv
<1> QED BY <1>7, <1>8, <1>9 DEF LaneUpload!Start

LEMMA LaneUploadSpawn == LaneUploadInv /\ LaneUpload!Spawn => LaneUploadInv'
<1> SUFFICES ASSUME LaneUploadInv, LaneUpload!Spawn PROVE LaneUploadInv' OBVIOUS
<1> USE LaneFacts
<1>1. LaneUploadTypes BY SameTypes DEF LaneUploadInv
<1>2. /\ upMain = "spawn" /\ upMain' = "join" /\ firstError' = "none" /\ stop' = FALSE
      /\ UNCHANGED <<startOffset, dest, cancel, result, upAsked>>
  BY DEF LaneUpload!Spawn
<1>3. /\ lane' = [i \in Lanes |-> IF Used(i) THEN "check" ELSE "off"]
      /\ attempt' = [i \in Lanes |-> 1]
      /\ base' = [i \in Lanes |-> 0] /\ resumeFrom' = [i \in Lanes |-> 0]
      /\ sent' = [i \in Lanes |-> 0] /\ committed' = [i \in Lanes |-> 0]
      /\ error' = [i \in Lanes |-> "none"]
  BY SameRanges DEF LaneUpload!Spawn, LaneUpload!Zero
<1>4. stop' \in BOOLEAN BY <1>2
<1>5. LaneUploadTypes'
  <2>1. /\ lane' \in [Lanes -> {"off", "check", "connect", "send", "failed"}]
        /\ attempt' \in [Lanes -> 1 .. MaxAttempts]
        /\ base' \in [Lanes -> 0 .. Blocks] /\ resumeFrom' \in [Lanes -> 0 .. Blocks]
        /\ sent' \in [Lanes -> 0 .. Blocks] /\ committed' \in [Lanes -> 0 .. Blocks]
        /\ error' \in [Lanes -> {"none", "drop", "hard"}]
    BY <1>3
  <2> QED BY <1>1, <1>2, <1>4, <2>1 DEF LaneUploadTypes
<1>6. startOffset < Blocks /\ startOffset <= Len(dest) /\ startOffset \in Nat
  BY <1>1, <1>2 DEF LaneUploadInv, LaneUploadTypes
<1>7. ASSUME NEW i \in Lanes
      PROVE  IF Used(i)' THEN LaneSent(i)' ELSE lane'[i] = "off"
  <2>1. (Used(i)' <=> Used(i)) /\ Length(i)' = Length(i) /\ Offset(i)' = Offset(i)
    BY <1>2 DEF Used, Offset, Length, Span
  <2>2. Used(i) => Length(i) \in 1 .. Blocks BY <1>6, Ranges
  <2> QED BY <1>2, <1>3, <2>1, <2>2 DEF LaneSent
<1>8. LaneUpload!CorrectCopy' BY <1>2 DEF LaneUpload!CorrectCopy, LaneUploadInv
<1>9. LaneUpload!TypeOK' BY <1>5, SameTypes
<1> QED BY <1>2, <1>6, <1>7, <1>8, <1>9 DEF LaneUploadInv

LEMMA LaneUploadJoin == LaneUploadInv /\ LaneUpload!Join => LaneUploadInv'
<1> SUFFICES ASSUME LaneUploadInv, LaneUpload!Join PROVE LaneUploadInv' OBVIOUS
<1> USE LaneFacts
<1>1. LaneUploadTypes BY SameTypes DEF LaneUploadInv
<1>2. /\ upMain = "join" /\ upMain' = "done" /\ \A i \in Lanes : lane[i] = "off"
      /\ result' \in {"true", "false"}
      /\ result' = "true" => ~cancel /\ firstError = "none" /\ Len(dest) = Blocks
      /\ UNCHANGED <<startOffset, dest, lane, attempt, base, resumeFrom, sent, committed, error,
                     firstError, stop, cancel, upAsked>>
  BY SameRanges DEF LaneUpload!Join, LaneUpload!Accepted, LaneUpload!laneVars
<1>3. LaneUploadTypes' BY <1>1, <1>2 DEF LaneUploadTypes
<1>4. LaneUpload!TypeOK' BY <1>3, SameTypes
<1>5. startOffset \in Nat /\ startOffset < Blocks /\ startOffset <= Len(dest)
  BY <1>1, <1>2 DEF LaneUploadInv, LaneUploadTypes
<1>6. ASSUME upAsked = 1, \A i \in Lanes : attempt[i] = 1, result' = "true"
      PROVE  dest = [k \in 1 .. Blocks |-> "new"]
  <2>1. ~cancel /\ ~stop /\ Len(dest) = Blocks BY <1>2, <1>6 DEF LaneUploadInv
  <2>2. \A k \in 1 .. startOffset : dest[k] = "new" BY <1>2, <1>6 DEF LaneUploadInv
  <2>3. ASSUME NEW k \in startOffset + 1 .. Blocks PROVE dest[k] = "new"
    <3>1. PICK i \in Lanes : Used(i) /\ k - Offset(i) \in 1 .. Length(i) BY <1>5, Ranges
    <3>2. Offset(i) \in Nat BY <1>5, Ranges
    <3>3. LaneSent(i) BY <1>2, <3>1 DEF LaneUploadInv
    <3>4. resumeFrom[i] + committed[i] = Length(i) BY <1>2, <1>6, <2>1, <3>3 DEF LaneSent
    <3>5. dest[Offset(i) + (k - Offset(i))] = "new" BY <3>1, <3>3, <3>4 DEF LaneSent
    <3> QED BY <3>2, <3>5
  <2>4. dest \in Seq({"new", "hole"}) BY <1>1 DEF LaneUploadTypes
  <2>5. dest = [k \in 1 .. Blocks |-> dest[k]] BY <2>1, <2>4
  <2>6. ASSUME NEW k \in 1 .. Blocks PROVE dest[k] = "new" BY <1>5, <2>2, <2>3
  <2> QED BY <2>5, <2>6
<1>7. LaneUpload!CorrectCopy'
  <2>1. LaneUpload!Lanes = Lanes BY DEF LaneUpload!Lanes, Lanes
  <2> QED BY <1>2, <1>6, <2>1 DEF LaneUpload!CorrectCopy
<1> QED BY <1>2, <1>4, <1>7 DEF LaneUploadInv

LEMMA LaneUploadUser ==
    LaneUploadInv /\ (LaneUpload!Cancel \/ LaneUpload!Again \/ UNCHANGED LaneUpload!vars) => LaneUploadInv'
<1> SUFFICES ASSUME LaneUploadInv,
                    LaneUpload!Cancel \/ LaneUpload!Again \/ UNCHANGED LaneUpload!vars
             PROVE  LaneUploadInv'
  OBVIOUS
<1> USE LaneFacts
<1>1. LaneUploadTypes BY SameTypes DEF LaneUploadInv
<1>2. UNCHANGED <<startOffset, dest, lane, attempt, base, resumeFrom, sent, committed, error,
                  firstError, stop>>
  BY DEF LaneUpload!Cancel, LaneUpload!Again, LaneUpload!vars, LaneUpload!laneVars
<1>3. \A i \in Lanes : (Used(i)' <=> Used(i)) /\ Length(i)' = Length(i) /\ Offset(i)' = Offset(i)
  BY <1>2 DEF Used, Offset, Length, Span
<1>4. LaneUpload!Lanes = Lanes BY DEF LaneUpload!Lanes, Lanes
<1>5. CASE LaneUpload!Again
  <2>1. /\ upMain = "done" /\ upMain' = "start" /\ result' = "none" /\ cancel' = FALSE
        /\ upAsked <= Resumes /\ upAsked' = upAsked + 1
    BY <1>5 DEF LaneUpload!Again
  <2>2. cancel' \in BOOLEAN BY <2>1
  <2>3. LaneUploadTypes' BY <1>1, <1>2, <2>1, <2>2 DEF LaneUploadTypes
  <2>4. LaneUpload!TypeOK' BY <2>3, SameTypes
  <2>5. upAsked' # 1 BY <1>1, <2>1 DEF LaneUploadTypes
  <2> QED BY <1>2, <2>1, <2>4, <2>5 DEF LaneUploadInv, LaneUpload!CorrectCopy
<1>6. CASE LaneUpload!Cancel \/ UNCHANGED LaneUpload!vars
  <2>1. UNCHANGED <<upMain, result, upAsked>> /\ (cancel => cancel') /\ cancel' \in BOOLEAN
    BY <1>1, <1>6 DEF LaneUpload!Cancel, LaneUpload!vars, LaneUploadTypes
  <2>2. LaneUploadTypes' BY <1>1, <1>2, <2>1 DEF LaneUploadTypes
  <2>3. LaneUpload!TypeOK' BY <2>2, SameTypes
  <2>4. \A i \in Lanes : LaneSent(i) => LaneSent(i)' BY <1>2, <1>3, <2>1 DEF LaneSent
  <2>5. LaneUpload!CorrectCopy' BY <1>2, <1>4, <2>1 DEF LaneUploadInv, LaneUpload!CorrectCopy
  <2> QED BY <1>2, <1>3, <2>1, <2>3, <2>4, <2>5 DEF LaneUploadInv
<1> QED BY <1>5, <1>6

\* Of a step of lane i only its own part has to be looked at.
LEMMA LaneUploadKeeps ==
    ASSUME LaneUploadInv, NEW i \in Lanes, upMain = "join", Used(i),
           UNCHANGED <<startOffset, upMain, cancel, result, upAsked>>,
           \A k \in 1 .. Len(dest) :
              k <= Len(dest') /\ (dest[k] = "new" => dest'[k] = "new"),
           \A j \in Lanes \ {i} :
              /\ lane'[j] = lane[j] /\ attempt'[j] = attempt[j] /\ base'[j] = base[j]
              /\ resumeFrom'[j] = resumeFrom[j] /\ sent'[j] = sent[j]
              /\ committed'[j] = committed[j] /\ error'[j] = error[j],
           stop => stop', stop' => firstError' # "none",
           LaneUploadTypes', LaneSent(i)'
    PROVE  LaneUploadInv'
<1> USE LaneFacts
<1>1. LaneUploadTypes BY SameTypes DEF LaneUploadInv
<1>2. LaneUpload!TypeOK' BY SameTypes
<1>3. /\ startOffset \in Nat /\ startOffset < Blocks /\ startOffset <= Len(dest)
      /\ \A j \in Lanes : IF Used(j) THEN LaneSent(j) ELSE lane[j] = "off"
      /\ upAsked = 1 => \A k \in 1 .. startOffset : dest[k] = "new"
  BY <1>1 DEF LaneUploadInv, LaneUploadTypes
<1>4. /\ dest \in Seq({"new", "hole"}) /\ dest' \in Seq({"new", "hole"})
      /\ \A j \in Lanes : resumeFrom[j] \in Nat /\ committed[j] \in Nat
  BY <1>1 DEF LaneUploadTypes
<1>5. Len(dest) \in Nat /\ Len(dest') \in Nat /\ Len(dest) <= Len(dest') BY <1>4
<1>6. /\ \A j \in Lanes : (Used(j)' <=> Used(j)) /\ Length(j)' = Length(j) /\ Offset(j)' = Offset(j)
      /\ \A j \in Lanes : Offset(j) \in Nat
  BY <1>3, Ranges DEF Used, Offset, Length, Span
<1>7. ASSUME NEW j \in Lanes PROVE IF Used(j)' THEN LaneSent(j)' ELSE lane'[j] = "off"
  <2>1. CASE j = i BY <1>6, <2>1
  <2>2. CASE j # i /\ Used(j)
    <3>1. LaneSent(j) BY <1>3, <2>2
    <3>2. ASSUME NEW k \in 1 .. resumeFrom[j] + committed[j]
          PROVE  Offset(j) + k <= Len(dest') /\ dest'[Offset(j) + k] = "new"
      <4>1. Offset(j) + k \in 1 .. Len(dest) /\ dest[Offset(j) + k] = "new"
        BY <1>4, <1>5, <1>6, <3>1 DEF LaneSent
      <4> QED BY <1>5, <4>1
    <3> QED BY <1>6, <2>2, <3>1, <3>2 DEF LaneSent
  <2>3. CASE j # i /\ ~Used(j) BY <1>3, <1>6, <2>3
  <2> QED BY <2>1, <2>2, <2>3
<1>8. upAsked' = 1 => \A k \in 1 .. startOffset' : dest'[k] = "new" BY <1>3, <1>5
<1>9. result' = "none" BY DEF LaneUploadInv
<1>10. LaneUpload!CorrectCopy' BY <1>9 DEF LaneUpload!CorrectCopy
<1> QED BY <1>2, <1>3, <1>5, <1>7, <1>8, <1>9, <1>10 DEF LaneUploadInv

LEMMA LaneUploadLane ==
    ASSUME NEW i \in Lanes, LaneUploadInv, LaneUpload!Lane(i)
    PROVE  LaneUploadInv'
<1> USE LaneFacts
<1>1. LaneUploadTypes BY SameTypes DEF LaneUploadInv
<1>2. /\ lane \in [Lanes -> {"off", "check", "connect", "send", "failed"}]
      /\ attempt \in [Lanes -> 1 .. MaxAttempts]
      /\ base \in [Lanes -> 0 .. Blocks] /\ resumeFrom \in [Lanes -> 0 .. Blocks]
      /\ sent \in [Lanes -> 0 .. Blocks] /\ committed \in [Lanes -> 0 .. Blocks]
      /\ error \in [Lanes -> {"none", "drop", "hard"}] /\ firstError \in {"none", "drop", "hard"}
      /\ dest \in Seq({"new", "hole"}) /\ Len(dest) <= Blocks
  BY <1>1 DEF LaneUploadTypes
<1> DEFINE r == resumeFrom[i]  c == committed[i]  n == sent[i]
<1>a. /\ r \in 0 .. Blocks /\ n \in 0 .. Blocks /\ c \in 0 .. Blocks
      /\ base[i] \in 0 .. Blocks /\ attempt[i] \in 1 .. MaxAttempts
  BY <1>2
<1>3. lane[i] # "off"
  BY DEF LaneUpload!Lane, LaneUpload!Check, LaneUpload!Connect, LaneUpload!Send, LaneUpload!Commit,
         LaneUpload!RangeDone, LaneUpload!LaneFails, LaneUpload!Failed
<1>4. upMain = "join" /\ Used(i) BY <1>3 DEF LaneUploadInv
<1>5. LaneSent(i) /\ startOffset < Blocks /\ (stop => firstError # "none") BY <1>4 DEF LaneUploadInv
<1>b. /\ c <= n /\ n <= c + Window /\ r + n <= Length(i)
      /\ lane[i] = "check" => base[i] = r + n
  BY <1>5 DEF LaneSent
<1>6. UNCHANGED <<startOffset, upMain, cancel, result, upAsked>>
  BY DEF LaneUpload!Lane, LaneUpload!Check, LaneUpload!Connect, LaneUpload!Send, LaneUpload!Commit,
         LaneUpload!RangeDone, LaneUpload!LaneFails, LaneUpload!Failed
<1>7. Offset(i)' = Offset(i) /\ Length(i)' = Length(i) BY <1>6 DEF Offset, Length, Span
<1>8. /\ Offset(i) \in Nat /\ Length(i) \in 1 .. Blocks /\ Offset(i) + Length(i) <= Blocks
      /\ startOffset <= Offset(i)
  BY <1>1, <1>4, <1>5, Ranges DEF LaneUploadTypes
<1>9. LaneUpload!Offset(i) = Offset(i) /\ LaneUpload!Length(i) = Length(i) BY SameRanges
<1>10. CASE LaneUpload!Commit(i)
  <2>1. /\ lane[i] = "send" /\ committed[i] < sent[i]
        /\ dest' = LaneUpload!Written(Offset(i) + resumeFrom[i] + committed[i])
        /\ committed' = [committed EXCEPT ![i] = @ + 1]
        /\ UNCHANGED <<lane, attempt, base, resumeFrom, sent, error, firstError, stop>>
    BY <1>9, <1>10 DEF LaneUpload!Commit
  <2> DEFINE place == Offset(i) + r + c
  <2>2. place \in Nat /\ place < Blocks BY <1>a, <1>b, <1>8, <2>1
  <2>3. /\ dest' \in Seq({"new", "hole"}) /\ Len(dest') <= Blocks
        /\ Len(dest) <= Len(dest') /\ place + 1 <= Len(dest') /\ dest'[place + 1] = "new"
        /\ \A k \in 1 .. Len(dest) : dest[k] = "new" => dest'[k] = "new"
    <3>1. CASE place < Len(dest)
      <4>1. dest' = [k \in 1 .. Len(dest) |-> IF k = place + 1 THEN "new" ELSE dest[k]]
        BY <1>2, <2>1, <2>2, <3>1 DEF LaneUpload!Written
      <4> QED BY <1>2, <2>2, <3>1, <4>1
    <3>2. CASE place >= Len(dest)
      <4>1. dest' = [k \in 1 .. place + 1 |->
                      IF k = place + 1 THEN "new" ELSE IF k <= Len(dest) THEN dest[k] ELSE "hole"]
        BY <1>2, <2>1, <2>2, <3>2 DEF LaneUpload!Written
      <4>2. dest' \in Seq({"new", "hole"}) /\ Len(dest') = place + 1
        <5>1. \A k \in 1 .. Len(dest) : dest[k] \in {"new", "hole"} BY <1>2
        <5>2. Len(dest) \in Nat BY <1>2
        <5>3. \A k \in 1 .. place + 1 : k <= Len(dest) => k \in 1 .. Len(dest) BY <2>2, <5>2
        <5>4. dest' \in [1 .. place + 1 -> {"new", "hole"}] BY <4>1, <5>1, <5>3
        <5> QED BY <2>2, <5>4
      <4>3. \A k \in 1 .. Len(dest) : k \in 1 .. place /\ dest'[k] = dest[k] BY <1>2, <2>2, <3>2, <4>1
      <4> QED BY <1>2, <2>2, <3>2, <4>1, <4>2, <4>3
    <3> QED BY <1>2, <2>2, <3>1, <3>2
  <2>4. committed' \in [Lanes -> 0 .. Blocks] BY <1>2, <2>1
  <2>5. LaneUploadTypes' BY <1>1, <1>6, <2>1, <2>3, <2>4 DEF LaneUploadTypes
  <2>6. ASSUME NEW k \in 1 .. resumeFrom[i] + committed[i] + 1
        PROVE  Offset(i) + k <= Len(dest') /\ dest'[Offset(i) + k] = "new"
    <3>1. CASE k = resumeFrom[i] + committed[i] + 1
      <4>1. Offset(i) + k = place + 1 BY <1>2, <1>8, <3>1
      <4> QED BY <2>3, <4>1
    <3>2. CASE k # resumeFrom[i] + committed[i] + 1
      <4>1. k \in 1 .. resumeFrom[i] + committed[i] BY <1>a, <3>2
      <4>2. Offset(i) + k <= Len(dest) /\ dest[Offset(i) + k] = "new" /\ Offset(i) + k \in Nat \ {0}
        BY <1>5, <1>8, <4>1 DEF LaneSent
      <4> QED BY <1>2, <2>3, <4>2
    <3> QED BY <3>1, <3>2
  <2>7. LaneSent(i)' 
    <3>1. committed'[i] = committed[i] + 1 BY <1>2, <2>1
    <3>2. c + 1 <= n /\ n <= c + 1 + Window BY <1>a, <1>5, <2>1 DEF LaneSent
    <3>3. \A k \in 1 .. r + (c + 1) : Offset(i) + k <= Len(dest') /\ dest'[Offset(i) + k] = "new"
      BY <1>a, <2>6
    <3> QED BY <1>5, <1>7, <2>1, <3>1, <3>2, <3>3 DEF LaneSent
  <2>8. \A k \in 1 .. Len(dest) : k <= Len(dest') /\ (dest[k] = "new" => dest'[k] = "new")
    BY <1>2, <2>3
  <2> QED BY <1>2, <1>4, <1>5, <1>6, <2>1, <2>5, <2>7, <2>8, LaneUploadKeeps
<1>11. CASE LaneUpload!Check(i) \/ LaneUpload!Connect(i) \/ LaneUpload!Send(i)
            \/ LaneUpload!RangeDone(i) \/ LaneUpload!LaneFails(i) \/ LaneUpload!Failed(i)
  <2>1. dest' = dest
    BY <1>11 DEF LaneUpload!Check, LaneUpload!Connect, LaneUpload!Send, LaneUpload!RangeDone,
                 LaneUpload!LaneFails, LaneUpload!Failed
  <2>2. /\ lane' \in [Lanes -> {"off", "check", "connect", "send", "failed"}]
        /\ attempt' \in [Lanes -> 1 .. MaxAttempts]
        /\ base' \in [Lanes -> 0 .. Blocks] /\ resumeFrom' \in [Lanes -> 0 .. Blocks]
        /\ sent' \in [Lanes -> 0 .. Blocks] /\ committed' \in [Lanes -> 0 .. Blocks]
        /\ error' \in [Lanes -> {"none", "drop", "hard"}] /\ firstError' \in {"none", "drop", "hard"}
        /\ stop' \in BOOLEAN /\ (stop => stop') /\ (stop' => firstError' # "none")
        /\ \A j \in Lanes \ {i} :
              /\ lane'[j] = lane[j] /\ attempt'[j] = attempt[j] /\ base'[j] = base[j]
              /\ resumeFrom'[j] = resumeFrom[j] /\ sent'[j] = sent[j]
              /\ committed'[j] = committed[j] /\ error'[j] = error[j]
        /\ LaneSent(i)'
    <3>1. CASE LaneUpload!Check(i) /\ (LaneUpload!Stopped \/ base[i] >= Length(i))
      <4>1. /\ lane[i] = "check" /\ lane' = [lane EXCEPT ![i] = "off"]
            /\ UNCHANGED <<attempt, base, resumeFrom, sent, committed, error, firstError, stop>>
        BY <1>9, <3>1 DEF LaneUpload!Check, LaneUpload!Goes
      <4>2. cancel \/ stop \/ attempt[i] # 1
        BY <1>2, <1>5, <1>8, <3>1 DEF LaneSent, LaneUpload!Stopped
      <4>3. LaneSent(i)' BY <1>2, <1>5, <1>6, <1>7, <2>1, <4>1, <4>2 DEF LaneSent
      <4> QED BY <1>1, <1>2, <1>5, <4>1, <4>3 DEF LaneUploadTypes
    <3>2. CASE LaneUpload!Check(i) /\ ~(LaneUpload!Stopped \/ base[i] >= Length(i))
      <4>1. /\ lane[i] = "check" /\ lane' = [lane EXCEPT ![i] = "connect"]
            /\ resumeFrom' = [resumeFrom EXCEPT ![i] = LaneUpload!Rewound(i)]
            /\ sent' = [sent EXCEPT ![i] = 0] /\ committed' = [committed EXCEPT ![i] = 0]
            /\ UNCHANGED <<attempt, base, error, firstError, stop>>
        BY <1>9, <3>2 DEF LaneUpload!Check, LaneUpload!Goes
      <4>2. /\ LaneUpload!Rewound(i) \in 0 .. Blocks
            /\ LaneUpload!Rewound(i) <= r + c
            /\ LaneUpload!Rewound(i) <= Length(i)
        <5>1. base[i] = r + n /\ n <= c + Margin /\ base[i] < Length(i)
          BY <1>a, <1>b, <1>8, <3>2, <4>1
        <5> QED BY <1>a, <1>8, <5>1 DEF LaneUpload!Rewound
      <4>3. LaneSent(i)' BY <1>2, <1>5, <1>7, <2>1, <4>1, <4>2 DEF LaneSent
      <4> QED BY <1>1, <1>2, <1>5, <4>1, <4>2, <4>3 DEF LaneUploadTypes
    <3>3. CASE LaneUpload!Connect(i)
      <4>1. /\ lane[i] = "connect" /\ lane' = [lane EXCEPT ![i] = "send"]
            /\ UNCHANGED <<attempt, base, resumeFrom, sent, committed, error, firstError, stop>>
        BY <3>3 DEF LaneUpload!Connect, LaneUpload!Goes
      <4>2. LaneSent(i)' BY <1>2, <1>5, <1>7, <2>1, <4>1 DEF LaneSent
      <4> QED BY <1>1, <1>2, <1>5, <4>1, <4>2 DEF LaneUploadTypes
    <3>4. CASE LaneUpload!Send(i)
      <4>1. /\ lane[i] = "send" /\ resumeFrom[i] + sent[i] < Length(i)
            /\ sent[i] - committed[i] < Window
            /\ sent' = [sent EXCEPT ![i] = @ + 1]
            /\ UNCHANGED <<lane, attempt, base, resumeFrom, committed, error, firstError, stop>>
        BY <1>9, <3>4 DEF LaneUpload!Send
      <4>2. sent' \in [Lanes -> 0 .. Blocks] /\ sent'[i] = n + 1 BY <1>2, <1>8, <4>1
      <4>3. /\ c <= sent'[i] /\ sent'[i] <= c + Window /\ r + sent'[i] <= Length(i)
        BY <1>a, <1>b, <1>8, <4>1, <4>2
      <4>4. LaneSent(i)' BY <1>5, <1>7, <2>1, <4>1, <4>3 DEF LaneSent
      <4> QED BY <1>1, <1>2, <1>5, <4>1, <4>2, <4>4 DEF LaneUploadTypes
    <3>5. CASE LaneUpload!RangeDone(i)
      <4>1. /\ lane[i] = "send" /\ lane' = [lane EXCEPT ![i] = "off"]
            /\ resumeFrom[i] + sent[i] = Length(i) /\ committed[i] = sent[i]
            /\ UNCHANGED <<attempt, base, resumeFrom, sent, committed, error, firstError, stop>>
        BY <1>9, <3>5 DEF LaneUpload!RangeDone, LaneUpload!Goes, LaneUpload!Acknowledged
      <4>2. LaneSent(i)' BY <1>2, <1>5, <1>7, <2>1, <4>1 DEF LaneSent
      <4> QED BY <1>1, <1>2, <1>5, <4>1, <4>2 DEF LaneUploadTypes
    <3>6. CASE LaneUpload!LaneFails(i)
      <4>1. PICK e \in {"drop", "hard"} : error' = [error EXCEPT ![i] = e]
        BY <3>6 DEF LaneUpload!LaneFails
      <4>2. /\ lane[i] \in {"connect", "send"} /\ lane' = [lane EXCEPT ![i] = "failed"]
            /\ UNCHANGED <<attempt, base, resumeFrom, sent, committed, firstError, stop>>
        BY <3>6 DEF LaneUpload!LaneFails, LaneUpload!Goes
      <4>3. LaneSent(i)' BY <1>2, <1>5, <1>7, <2>1, <4>1, <4>2 DEF LaneSent
      <4> QED BY <1>1, <1>2, <1>5, <4>1, <4>2, <4>3 DEF LaneUploadTypes
    <3>7. CASE LaneUpload!Failed(i) /\ LaneUpload!Stopped
      <4>1. /\ lane[i] = "failed" /\ lane' = [lane EXCEPT ![i] = "off"]
            /\ UNCHANGED <<attempt, base, resumeFrom, sent, committed, error, firstError, stop>>
        BY <3>7 DEF LaneUpload!Failed, LaneUpload!Goes
      <4>2. LaneSent(i)' BY <1>2, <1>5, <1>6, <1>7, <2>1, <3>7, <4>1 DEF LaneSent, LaneUpload!Stopped
      <4> QED BY <1>1, <1>2, <1>5, <4>1, <4>2 DEF LaneUploadTypes
    <3>8. CASE LaneUpload!Failed(i) /\ ~LaneUpload!Stopped /\ LaneUpload!GivesUp(i)
      <4>1. /\ lane[i] = "failed" /\ lane' = [lane EXCEPT ![i] = "off"]
            /\ firstError' = IF firstError = "none" THEN error[i] ELSE firstError
            /\ stop' = TRUE
            /\ UNCHANGED <<attempt, base, resumeFrom, sent, committed, error>>
        BY <3>8 DEF LaneUpload!Failed, LaneUpload!Goes
      <4>2. LaneSent(i)' BY <1>2, <1>5, <1>7, <2>1, <4>1 DEF LaneSent
      <4>3. firstError' \in {"none", "drop", "hard"} /\ firstError' # "none"
        BY <1>2, <1>5, <4>1 DEF LaneSent
      <4> QED BY <1>2, <4>1, <4>2, <4>3
    <3>9. CASE LaneUpload!Failed(i) /\ ~LaneUpload!Stopped /\ ~LaneUpload!GivesUp(i)
      <4>1. /\ lane[i] = "failed" /\ lane' = [lane EXCEPT ![i] = "check"]
            /\ attempt' = [attempt EXCEPT ![i] = attempt[i] + 1] /\ attempt[i] < MaxAttempts
            /\ base' = [base EXCEPT ![i] = resumeFrom[i] + sent[i]]
            /\ UNCHANGED <<resumeFrom, sent, committed, error, firstError, stop>>
        BY <1>2, <3>9 DEF LaneUpload!Failed, LaneUpload!Goes, LaneUpload!GivesUp, LaneUpload!NextAttempt
      <4>2. attempt' \in [Lanes -> 1 .. MaxAttempts] /\ base' \in [Lanes -> 0 .. Blocks]
        <5>1. r + n \in 0 .. Blocks BY <1>a, <1>5, <1>8 DEF LaneSent
        <5> QED BY <1>2, <1>a, <4>1, <5>1
      <4>3. LaneSent(i)' BY <1>2, <1>5, <1>7, <2>1, <4>1 DEF LaneSent
      <4> QED BY <1>1, <1>2, <1>5, <4>1, <4>2, <4>3 DEF LaneUploadTypes
    <3> QED BY <1>11, <3>1, <3>2, <3>3, <3>4, <3>5, <3>6, <3>7, <3>8, <3>9
  <2>3. LaneUploadTypes' BY <1>1, <1>6, <2>1, <2>2 DEF LaneUploadTypes
  <2>4. \A k \in 1 .. Len(dest) : k <= Len(dest') /\ (dest[k] = "new" => dest'[k] = "new")
    BY <1>2, <2>1
  <2> QED BY <1>2, <1>4, <1>6, <2>2, <2>3, <2>4, LaneUploadKeeps
<1> QED BY <1>10, <1>11 DEF LaneUpload!Lane

LEMMA LaneUploadStep ==
    LaneUploadInv /\ (LaneUpload!Next \/ UNCHANGED LaneUpload!vars) => LaneUploadInv'
<1>1. LaneUpload!Lanes = Lanes BY DEF LaneUpload!Lanes, Lanes
<1> QED
  BY <1>1, LaneUploadStart, LaneUploadSpawn, LaneUploadJoin, LaneUploadUser, LaneUploadLane
  DEF LaneUpload!Next, LaneUpload!Main

LEMMA LaneUploadSkips == LaneUploadInv => LaneUpload!SkippedIsCommitted
<1> SUFFICES ASSUME LaneUploadInv, NEW i \in Lanes, lane[i] \in {"connect", "send"},
                    NEW k \in 1 .. resumeFrom[i]
             PROVE  Offset(i) + k <= Len(dest) /\ dest[Offset(i) + k] = "new"
  BY SameRanges DEF LaneUpload!SkippedIsCommitted
<1>1. LaneUploadTypes BY SameTypes DEF LaneUploadInv
<1>2. LaneSent(i) BY DEF LaneUploadInv
<1>3. k \in 1 .. resumeFrom[i] + committed[i] BY <1>1, LaneFacts DEF LaneUploadTypes
<1> QED BY <1>2, <1>3 DEF LaneSent
-----------------------------------------------------------------------------
(* The behaviours of MCTransfers: that of one machine at a time.            *)

FilesInv ==
    /\ op = "download" => DownloadInv
    /\ op = "upload" => UploadInv
    /\ op = "laneDownload" => Inv
    /\ op = "laneUpload" => LaneUploadInv

LEMMA FilesStart == MCInit => FilesInv
<1> SUFFICES ASSUME MCInit PROVE FilesInv OBVIOUS
<1>1. CASE FileInit
  BY <1>1, DownloadStarts, UploadStarts, LaneUploadStarts, InitInv, LaneFacts DEF FileInit, FilesInv
<1>2. CASE op = "bundle" \/ Sync!Init
  <2>1. op \in {"bundle", "oneWay", "window", "schedule"} BY <1>2 DEF Sync!Init
  <2> QED BY <2>1 DEF FilesInv
<1> QED BY <1>1, <1>2 DEF MCInit

LEMMA OthersKeepOp ==
    Bundles(Bundle!Next) \/ Syncs(Sync!Next) => op \in {"bundle", "oneWay", "window", "schedule"} /\ op' = op
BY DEF Bundles, Syncs, Sync!Next, Sync!OneWays, Sync!Windows, Sync!Schedules

LEMMA FilesStep ==
    ASSUME FilesInv, [MCNext]_mcVars
    PROVE  FilesInv' /\ (op = "download" => Download!Keeps)
<1>1. CASE Downloads(Download!Next)
  <2>1. op = "download" /\ op' = op /\ DownloadInv /\ Download!Next BY <1>1 DEF Downloads, FilesInv
  <2>2. DownloadInv' /\ Download!Keeps BY <2>1, DownloadStep
  <2> QED BY <2>1, <2>2 DEF FilesInv
<1>2. CASE Uploads(Upload!Next)
  <2>1. op = "upload" /\ op' = op /\ UploadInv /\ Upload!Next BY <1>2 DEF Uploads, FilesInv
  <2>2. UploadInv' BY <2>1, UploadStep
  <2> QED BY <2>1, <2>2 DEF FilesInv
<1>3. CASE LaneDownloads(Next)
  <2>1. op = "laneDownload" /\ op' = op /\ Inv /\ Next BY <1>3 DEF LaneDownloads, FilesInv
  <2>2. Inv' BY <2>1, StepInv
  <2> QED BY <2>1, <2>2 DEF FilesInv
<1>4. CASE LaneUploads(LaneUpload!Next)
  <2>1. op = "laneUpload" /\ op' = op /\ LaneUploadInv /\ LaneUpload!Next
    BY <1>4 DEF LaneUploads, FilesInv
  <2>2. LaneUploadInv' BY <2>1, LaneUploadStep
  <2> QED BY <2>1, <2>2 DEF FilesInv
<1>5. CASE Bundles(Bundle!Next) \/ Syncs(Sync!Next)
  BY <1>5, OthersKeepOp DEF FilesInv
<1>6. CASE UNCHANGED mcVars
  <2>1. op' = op BY <1>6 DEF mcVars
  <2>2. UNCHANGED Download!vars BY <1>6 DEF mcVars, fileVars, sharedVars, sequentialVars, Download!vars, Download!options
  <2>3. UNCHANGED Upload!vars
    BY <1>6 DEF mcVars, fileVars, sharedVars, sequentialVars, Upload!vars, Upload!options, Upload!file
  <2>4. UNCHANGED vars
    BY <1>6 DEF mcVars, fileVars, sharedVars, parallelVars, laneVars, vars
  <2>5. UNCHANGED LaneUpload!vars
    BY <1>6 DEF mcVars, fileVars, sharedVars, parallelVars, uploadVars, LaneUpload!laneVars, LaneUpload!vars
  <2>6. DownloadInv => DownloadInv' /\ Download!Keeps BY <2>2, DownloadStep
  <2>7. UploadInv => UploadInv' BY <2>3, UploadStep
  <2>8. Inv => Inv' BY <2>4, StepInv
  <2>9. LaneUploadInv => LaneUploadInv' BY <2>5, LaneUploadStep
  <2> QED BY <2>1, <2>6, <2>7, <2>8, <2>9 DEF FilesInv
<1> QED BY <1>1, <1>2, <1>3, <1>4, <1>5, <1>6 DEF MCNext

\* A retry of a sequential download never takes back what the attempts before it
\* wrote, for files of any size and any number of attempts.
THEOREM RetriesKeep == MCSpec => RetryKeeps
<1>1. MCInit => FilesInv BY FilesStart
<1>2. FilesInv /\ [MCNext]_mcVars => FilesInv' BY FilesStep
<1>3. FilesInv /\ [MCNext]_mcVars => [op = "download" => Download!Keeps]_mcVars
  BY FilesStep
<1> QED BY <1>1, <1>2, <1>3, PTL DEF MCSpec, RetryKeeps

\* The blocks that the retry of a lane of a parallel upload does not send again
\* are on the server, whatever the window holds when the connection is lost.
THEOREM SkipsHold == MCSpec => []SkippedIsCommitted
<1>1. MCInit => FilesInv BY FilesStart
<1>2. FilesInv /\ [MCNext]_mcVars => FilesInv' BY FilesStep
<1>3. FilesInv => SkippedIsCommitted BY LaneUploadSkips DEF FilesInv, SkippedIsCommitted
<1> QED BY <1>1, <1>2, <1>3, PTL DEF MCSpec

-----------------------------------------------------------------------------
(* The synchronization of a window.                                         *)

FileEntries == Sync!Dialog!Entries
IsFile(x) == x.kind = "file"

\* A side was written before now, by more than a comparison overlooks.
SideAt(x, time) == x \in FileEntries /\ (IsFile(x) => x.mtime + Sync!Dialog!Later <= time)

\* The last edit left n: on the side that is newer, if they differ.
Latest(l, r, n) ==
    /\ n \in {l.data, r.data}
    /\ IsFile(l) /\ ~IsFile(r) => n = l.data
    /\ IsFile(r) /\ ~IsFile(l) => n = r.data
    /\ IsFile(l) /\ IsFile(r) /\ l.data # r.data =>
          (r.mtime < l.mtime /\ n = l.data) \/ (l.mtime < r.mtime /\ n = r.data)

\* What was listed of a side still holds, or a copy has made both sides the same.
SameContent == IsFile(local) /\ IsFile(remote) /\ local.data = remote.data
RemoteHolds(x) == SameContent \/ x = remote \/ x = Sync!Dialog!Unlisted
BothHold(d) == SameContent \/ (d.local = local /\ d.remote = remote)

Items == [type : {"upload", "download"}, direction : Sync!Dialog!Directions,
          local : FileEntries, remote : FileEntries]

WindowTypes ==
    /\ now \in Nat /\ Sync!Dialog!Later <= now /\ edits \in Nat
    /\ SideAt(local, now) /\ SideAt(remote, now)
    /\ answers \in Seq(FileEntries \union {Sync!Dialog!Unlisted})
    /\ dialog \in Seq(Sync!Dialog!Listings) /\ Len(dialog) <= 1
    /\ queue \in Seq(Items)
    /\ \A i \in DOMAIN queue :
          queue[i].type = Sync!Dialog!Compute(queue[i].direction, queue[i].local, queue[i].remote)

NewestKnown ==
    ~overruled /\ ~dotfile =>
        /\ Latest(local, remote, newest)
        /\ \A i \in DOMAIN answers : RemoteHolds(answers[i])
        /\ \A i \in DOMAIN dialog : BothHold(dialog[i])
        /\ \A i \in DOMAIN queue : BothHold(queue[i]) /\ queue[i].direction = "twoWay"

WindowInv == WindowTypes /\ NewestKnown

LEMMA WindowBounds == Tolerance \in Nat /\ Sync!Dialog!Later = Tolerance + 1 /\ Sync!Dialog!Later \in Nat
<1>1. Tolerance \in Nat BY BoundsAssumption DEF BoundsAssumption
<1> QED BY <1>1 DEF Sync!Dialog!Later

LEMMA WindowEntry ==
    ASSUME NEW x \in FileEntries
    PROVE  /\ x.kind \in {"absent", "file"} /\ x.data \in Nat /\ x.mtime \in Nat
           /\ Sync!Dialog!Present(x) <=> IsFile(x)
BY DEF FileEntries, Sync!Dialog!Entries, Sync!Dialog!Present, IsFile

LEMMA WindowFiles ==
    /\ Sync!Dialog!Absent \in FileEntries /\ ~IsFile(Sync!Dialog!Absent)
    /\ \A d, m \in Nat : Sync!Dialog!File(d, m) \in FileEntries
    /\ \A d, m : /\ IsFile(Sync!Dialog!File(d, m)) /\ Sync!Dialog!File(d, m).data = d
                 /\ Sync!Dialog!File(d, m).mtime = m
BY DEF FileEntries, Sync!Dialog!Entries, Sync!Dialog!Absent, Sync!Dialog!File, IsFile

\* What a mirror plans for two listings.
LEMMA MirrorPlans ==
    ASSUME NEW l \in FileEntries, NEW r \in FileEntries, NEW type, type = Sync!Dialog!Compute("twoWay", l, r)
    PROVE  /\ type = "upload" => IsFile(l) /\ (IsFile(r) => r.mtime <= l.mtime)
           /\ type = "download" => IsFile(r) /\ (IsFile(l) => l.mtime <= r.mtime)
<1>1. /\ l.kind \in {"absent", "file"} /\ r.kind \in {"absent", "file"}
      /\ l.mtime \in Nat /\ r.mtime \in Nat
  BY WindowEntry
<1>2. Sync!Dialog!Absent.kind = "absent" BY DEF Sync!Dialog!Absent
<1> DEFINE differ == Sync!Dialog!Changed(l, r)
<1>3. type = CASE l.kind = "absent" /\ r.kind = "absent" -> "none"
               [] l.kind = "dir" \/ r.kind = "dir" ->
                    IF r.kind = "absent" THEN "mkdirRemote"
                    ELSE IF l.kind = "absent" THEN "mkdirLocal" ELSE "none"
               [] l.kind # "absent" /\ r.kind # "absent" ->
                    IF differ THEN (IF l.mtime >= r.mtime THEN "upload" ELSE "download") ELSE "skip"
               [] l.kind # "absent" /\ r.kind = "absent" -> "upload"
               [] OTHER -> "download"
  BY <1>1, <1>2 DEF Sync!Dialog!Compute, Sync!Dialog!DiffTwoWay, Sync!Dialog!Present, Sync!Dialog!Added,
                    Sync!Dialog!Modified, Sync!Dialog!Conflict
<1> HIDE DEF differ
<1>4. CASE l.kind = "file" /\ r.kind = "file" BY <1>1, <1>3, <1>4 DEF IsFile
<1>5. CASE l.kind = "file" /\ r.kind = "absent" BY <1>3, <1>5 DEF IsFile
<1>6. CASE l.kind = "absent" /\ r.kind = "file" BY <1>3, <1>6 DEF IsFile
<1>7. CASE l.kind = "absent" /\ r.kind = "absent" BY <1>3, <1>7
<1> QED BY <1>1, <1>4, <1>5, <1>6, <1>7

LEMMA WindowStarts == ASSUME Sync!Dialog!Init PROVE WindowInv
<1>1. PICK l \in {Sync!Dialog!Absent, Sync!Dialog!File(1, 1)}, r \in {Sync!Dialog!Absent, Sync!Dialog!File(1, 1)} :
         local = l /\ remote = r
  BY DEF Sync!Dialog!Init
<1>2. /\ answers = << >> /\ dialog = << >> /\ queue = << >> /\ now = 1 + Sync!Dialog!Later /\ edits = 0
      /\ newest = IF Sync!Dialog!Present(local) \/ Sync!Dialog!Present(remote) THEN 1 ELSE 0
  BY DEF Sync!Dialog!Init
<1>3. 1 \in Nat /\ now \in Nat /\ Sync!Dialog!Later <= now BY <1>2, WindowBounds
<1>4. /\ local = Sync!Dialog!Absent \/ local = Sync!Dialog!File(1, 1)
      /\ remote = Sync!Dialog!Absent \/ remote = Sync!Dialog!File(1, 1)
      /\ local \in FileEntries /\ remote \in FileEntries
  BY <1>1, <1>3, WindowFiles
<1>5. Sync!Dialog!Absent.data = 0 BY DEF Sync!Dialog!Absent
<1>6. Latest(local, remote, newest)
  BY <1>2, <1>4, <1>5, WindowFiles, WindowEntry DEF Latest
<1>7. SideAt(local, now) /\ SideAt(remote, now)
  <2>1. IsFile(local) => local.mtime = 1 BY <1>4, WindowFiles
  <2>2. IsFile(remote) => remote.mtime = 1 BY <1>4, WindowFiles
  <2> QED BY <1>2, <1>4, <2>1, <2>2, WindowBounds DEF SideAt
<1>8. WindowTypes BY <1>2, <1>3, <1>7 DEF WindowTypes
<1> QED BY <1>2, <1>6, <1>8 DEF WindowInv, NewestKnown

\* The two sides rest while something else is done.
LEMMA SidesRest ==
    ASSUME WindowInv, UNCHANGED <<local, remote, dotfile, now, edits, newest>>,
           answers' \in Seq(FileEntries \union {Sync!Dialog!Unlisted}),
           dialog' \in Seq(Sync!Dialog!Listings), Len(dialog') <= 1, queue' \in Seq(Items),
           \A i \in DOMAIN queue' :
              queue'[i].type = Sync!Dialog!Compute(queue'[i].direction, queue'[i].local, queue'[i].remote),
           ~overruled' /\ ~dotfile =>
               /\ ~overruled
               /\ \A i \in DOMAIN answers' : RemoteHolds(answers'[i])
               /\ \A i \in DOMAIN dialog' : BothHold(dialog'[i])
               /\ \A i \in DOMAIN queue' : BothHold(queue'[i]) /\ queue'[i].direction = "twoWay"
    PROVE  WindowInv'
<1>1. WindowTypes' BY DEF WindowInv, WindowTypes
<1>2. \A x : (RemoteHolds(x) => RemoteHolds(x)') /\ (BothHold(x) => BothHold(x)')
  BY DEF RemoteHolds, BothHold, SameContent
<1>3. ASSUME ~overruled', ~dotfile'
      PROVE  /\ Latest(local, remote, newest)'
             /\ \A i \in DOMAIN answers' : RemoteHolds(answers'[i])
             /\ \A i \in DOMAIN dialog' : BothHold(dialog'[i])
             /\ \A i \in DOMAIN queue' : BothHold(queue'[i]) /\ queue'[i].direction = "twoWay"
  BY <1>3 DEF WindowInv, NewestKnown
<1>4. NewestKnown'
  BY <1>3 DEF NewestKnown, RemoteHolds, BothHold, SameContent
<1> QED BY <1>1, <1>4 DEF WindowInv

LEMMA AppendedIs ==
    ASSUME NEW S, NEW s \in Seq(S), NEW e \in S
    PROVE  /\ Append(s, e) \in Seq(S)
           /\ \A i \in DOMAIN Append(s, e) : Append(s, e)[i] = e \/ \E k \in DOMAIN s : Append(s, e)[i] = s[k]
OBVIOUS

LEMMA TailIs ==
    ASSUME NEW S, NEW s \in Seq(S), s # << >>
    PROVE  /\ Tail(s) \in Seq(S) /\ Head(s) = s[1] /\ 1 \in DOMAIN s /\ Head(s) \in S
           /\ \A i \in DOMAIN Tail(s) : \E k \in DOMAIN s : Tail(s)[i] = s[k]
<1>1. \A i \in DOMAIN Tail(s) : i + 1 \in DOMAIN s /\ Tail(s)[i] = s[i + 1] OBVIOUS
<1> QED BY <1>1

\* An edit of a side x, which has an other one y.
LEMMA EditIs ==
    ASSUME WindowTypes, NEW x \in FileEntries, NEW y \in FileEntries, NEW x1, NEW n, SideAt(y, now),
           \E data \in {1 + edits, 3 + edits} :
              \/ x1 = Sync!Dialog!File(data, now) /\ n = data
              \/ Sync!Dialog!Present(x) /\ x1 = Sync!Dialog!Absent /\ n = y.data
    PROVE  /\ SideAt(x1, now + Sync!Dialog!Later) /\ SideAt(y, now + Sync!Dialog!Later)
           /\ Latest(x1, y, n) /\ Latest(y, x1, n)
<1>1. now \in Nat /\ edits \in Nat /\ Sync!Dialog!Later \in Nat /\ Sync!Dialog!Later > 0
  BY WindowBounds DEF WindowTypes
<1>2. y.mtime \in Nat /\ y.data \in Nat BY WindowEntry
<1>3. SideAt(y, now + Sync!Dialog!Later) BY <1>1, <1>2 DEF SideAt
<1>4. IsFile(y) => y.mtime < now BY <1>1, <1>2 DEF SideAt
<1>5. PICK data \in {1 + edits, 3 + edits} :
         \/ x1 = Sync!Dialog!File(data, now) /\ n = data
         \/ Sync!Dialog!Present(x) /\ x1 = Sync!Dialog!Absent /\ n = y.data
  OBVIOUS
<1>6. CASE x1 = Sync!Dialog!File(data, now) /\ n = data
  <2>1. data \in Nat BY <1>1
  <2>2. x1 \in FileEntries /\ IsFile(x1) /\ x1.data = n /\ x1.mtime = now BY <1>1, <1>6, <2>1, WindowFiles
  <2> QED BY <1>1, <1>3, <1>4, <2>2 DEF SideAt, Latest
<1>7. CASE x1 = Sync!Dialog!Absent /\ n = y.data
  BY <1>3, <1>7, WindowFiles DEF SideAt, Latest
<1> QED BY <1>5, <1>6, <1>7

LEMMA EditKeeps == ASSUME WindowInv, Sync!Dialog!EditLocal \/ Sync!Dialog!EditRemote PROVE WindowInv'
<1>1. /\ now \in Nat /\ edits \in Nat /\ local \in FileEntries /\ remote \in FileEntries /\ WindowTypes
      /\ SideAt(local, now) /\ SideAt(remote, now)
  BY DEF WindowInv, WindowTypes, SideAt
<1>2. /\ now' = now + Sync!Dialog!Later /\ edits' = edits + 1
      /\ overruled' = (overruled \/ Sync!Dialog!Busy)
      /\ UNCHANGED <<dotfile, requests, answers, dialog, queue>>
  BY DEF Sync!Dialog!EditLocal, Sync!Dialog!EditRemote, Sync!Dialog!Edited
<1>3. SideAt(local, now)' /\ SideAt(remote, now)' /\ Latest(local, remote, newest)'
  <2>1. CASE Sync!Dialog!EditLocal
    <3>1. /\ remote' = remote
          /\ \E data \in {1 + edits, 3 + edits} :
                \/ local' = Sync!Dialog!File(data, now) /\ newest' = data
                \/ Sync!Dialog!Present(local) /\ local' = Sync!Dialog!Absent /\ newest' = remote.data
      BY <2>1 DEF Sync!Dialog!EditLocal, Sync!Dialog!Edited
    <3>2. PICK x1, n : x1 = local' /\ n = newest' OBVIOUS
    <3>3. /\ SideAt(x1, now + Sync!Dialog!Later) /\ SideAt(remote, now + Sync!Dialog!Later)
          /\ Latest(x1, remote, n)
      BY <1>1, <3>1, <3>2, EditIs
    <3> QED BY <1>2, <3>1, <3>2, <3>3
  <2>2. CASE Sync!Dialog!EditRemote
    <3>1. /\ local' = local
          /\ \E data \in {1 + edits, 3 + edits} :
                \/ remote' = Sync!Dialog!File(data, now) /\ newest' = data
                \/ Sync!Dialog!Present(remote) /\ remote' = Sync!Dialog!Absent /\ newest' = local.data
      BY <2>2 DEF Sync!Dialog!EditRemote, Sync!Dialog!Edited
    <3>2. PICK x1, n : x1 = remote' /\ n = newest' OBVIOUS
    <3>3. /\ SideAt(x1, now + Sync!Dialog!Later) /\ SideAt(local, now + Sync!Dialog!Later)
          /\ Latest(local, x1, n)
      BY <1>1, <3>1, <3>2, EditIs
    <3> QED BY <1>2, <3>1, <3>2, <3>3
  <2> QED BY <2>1, <2>2
<1>4. WindowTypes'
  <2>1. now' \in Nat /\ Sync!Dialog!Later <= now' /\ edits' \in Nat BY <1>1, <1>2, WindowBounds
  <2> QED BY <1>1, <1>2, <1>3, <2>1 DEF WindowTypes
<1>5. NewestKnown'
  <2> SUFFICES ASSUME ~overruled' PROVE NewestKnown' BY DEF NewestKnown
  <2>1. answers' = << >> /\ dialog' = << >> /\ queue' = << >> BY <1>2 DEF Sync!Dialog!Busy
  <2> QED BY <1>3, <2>1 DEF NewestKnown
<1> QED BY <1>4, <1>5 DEF WindowInv

LEMMA OnSyncClickedKeeps == ASSUME WindowInv, Sync!Dialog!OnSyncClicked PROVE WindowInv'
<1>1. UNCHANGED <<local, remote, dotfile, answers, dialog, queue, now, edits, newest, overruled>>
  BY DEF Sync!Dialog!OnSyncClicked, Sync!Dialog!sides
<1> QED BY <1>1, SidesRest DEF WindowInv, WindowTypes, NewestKnown

LEMMA DoSyncListingKeeps == ASSUME WindowInv, Sync!Dialog!DoSyncListing PROVE WindowInv'
<1>1. UNCHANGED <<local, remote, dotfile, dialog, queue, now, edits, newest, overruled>>
  BY DEF Sync!Dialog!DoSyncListing, Sync!Dialog!sides
<1>2. PICK a \in {remote, Sync!Dialog!Unlisted} : answers' = Append(answers, a)
  BY DEF Sync!Dialog!DoSyncListing
<1>3. answers \in Seq(FileEntries \union {Sync!Dialog!Unlisted}) /\ a \in FileEntries \union {Sync!Dialog!Unlisted}
  BY DEF WindowInv, WindowTypes, SideAt
<1>4. /\ answers' \in Seq(FileEntries \union {Sync!Dialog!Unlisted})
      /\ \A i \in DOMAIN answers' : answers'[i] = a \/ \E k \in DOMAIN answers : answers'[i] = answers[k]
  <2> DEFINE S == FileEntries \union {Sync!Dialog!Unlisted}
  <2>1. answers \in Seq(S) /\ a \in S BY <1>3
  <2> HIDE DEF S
  <2>2. /\ Append(answers, a) \in Seq(S)
        /\ \A i \in DOMAIN Append(answers, a) :
              Append(answers, a)[i] = a \/ \E k \in DOMAIN answers : Append(answers, a)[i] = answers[k]
    BY <2>1, AppendedIs
  <2> QED BY <1>2, <2>2 DEF S
<1>5. RemoteHolds(a) BY DEF RemoteHolds
<1> QED BY <1>1, <1>4, <1>5, SidesRest DEF WindowInv, WindowTypes, NewestKnown

LEMMA OnSyncListingReadyKeeps == ASSUME WindowInv, Sync!Dialog!OnSyncListingReady PROVE WindowInv'
<1>1. /\ UNCHANGED <<local, remote, dotfile, queue, now, edits, newest, overruled>>
      /\ answers # << >> /\ answers' = Tail(answers)
  BY DEF Sync!Dialog!OnSyncListingReady, Sync!Dialog!sides, Sync!Dialog!counts
<1> DEFINE S == FileEntries \union {Sync!Dialog!Unlisted}
           pair == [local |-> Sync!Dialog!LocalListing, remote |-> Head(answers)]
<1>2. answers \in Seq(S) BY DEF WindowInv, WindowTypes
<1> HIDE DEF S
<1>3. /\ Tail(answers) \in Seq(S) /\ Head(answers) = answers[1] /\ 1 \in DOMAIN answers /\ Head(answers) \in S
      /\ \A i \in DOMAIN Tail(answers) : \E k \in DOMAIN answers : Tail(answers)[i] = answers[k]
  BY <1>1, <1>2, TailIs
<1>4. dialog' = dialog \/ (Head(answers) # Sync!Dialog!Unlisted /\ dialog' = << pair >>)
  BY DEF Sync!Dialog!OnSyncListingReady
<1>5. Sync!Dialog!LocalListing \in FileEntries
  BY WindowFiles DEF Sync!Dialog!LocalListing, WindowInv, WindowTypes, SideAt
<1>6. Head(answers) # Sync!Dialog!Unlisted =>
         pair \in Sync!Dialog!Listings /\ (~overruled /\ ~dotfile => BothHold(pair))
  <2> SUFFICES ASSUME Head(answers) # Sync!Dialog!Unlisted
               PROVE  pair \in Sync!Dialog!Listings /\ (~overruled /\ ~dotfile => BothHold(pair))
    OBVIOUS
  <2>1. Head(answers) \in FileEntries BY <1>3 DEF S
  <2>2. pair \in Sync!Dialog!Listings BY <1>5, <2>1 DEF Sync!Dialog!Listings, FileEntries
  <2>3. ~overruled /\ ~dotfile => RemoteHolds(Head(answers)) BY <1>3 DEF WindowInv, NewestKnown
  <2>4. ~dotfile => pair.local = local BY DEF Sync!Dialog!LocalListing
  <2>5. pair.remote = Head(answers) OBVIOUS
  <2> HIDE DEF pair
  <2> QED BY <2>2, <2>3, <2>4, <2>5 DEF BothHold, RemoteHolds
<1> HIDE DEF pair
<1>7. /\ dialog' \in Seq(Sync!Dialog!Listings) /\ Len(dialog') <= 1
      /\ ~overruled /\ ~dotfile => \A i \in DOMAIN dialog' : BothHold(dialog'[i])
  <2>1. CASE dialog' = dialog BY <2>1 DEF WindowInv, WindowTypes, NewestKnown
  <2>2. CASE Head(answers) # Sync!Dialog!Unlisted /\ dialog' = << pair >> BY <1>6, <2>2
  <2> QED BY <1>4, <2>1, <2>2
<1>8. answers' \in Seq(FileEntries \union {Sync!Dialog!Unlisted}) BY <1>1, <1>3 DEF S
<1>9. ~overruled /\ ~dotfile => \A i \in DOMAIN answers' : RemoteHolds(answers'[i])
  BY <1>1, <1>3 DEF WindowInv, NewestKnown
<1> QED BY <1>1, <1>7, <1>8, <1>9, SidesRest DEF WindowInv, WindowTypes, NewestKnown

LEMMA StartKeeps == ASSUME WindowInv, Sync!Dialog!Start PROVE WindowInv'
<1>1. /\ UNCHANGED <<local, remote, dotfile, answers, now, edits, newest>>
      /\ dialog # << >> /\ dialog' = << >>
  BY DEF Sync!Dialog!Start, Sync!Dialog!sides, Sync!Dialog!counts
<1>2. PICK direction \in Sync!Dialog!Directions :
         LET d == dialog[1]  type == Sync!Dialog!Compute(direction, d.local, d.remote)
         IN  /\ type \in {"upload", "download"}
             /\ queue' = Append(queue, [type |-> type, direction |-> direction,
                                        local |-> d.local, remote |-> d.remote])
             /\ overruled' = (overruled \/ direction # "twoWay")
  BY DEF Sync!Dialog!Start
<1> DEFINE type == Sync!Dialog!Compute(direction, dialog[1].local, dialog[1].remote)
           item == [type |-> type, direction |-> direction,
                    local |-> dialog[1].local, remote |-> dialog[1].remote]
<1>3. /\ type \in {"upload", "download"} /\ queue' = Append(queue, item)
      /\ overruled' = (overruled \/ direction # "twoWay")
  BY <1>2
<1>4. 1 \in DOMAIN dialog /\ dialog[1] \in Sync!Dialog!Listings
  BY <1>1 DEF WindowInv, WindowTypes
<1> HIDE DEF type
<1>5. /\ item \in Items /\ item.direction = direction
      /\ item.local = dialog[1].local /\ item.remote = dialog[1].remote
      /\ item.type = Sync!Dialog!Compute(item.direction, item.local, item.remote)
  <2>1. dialog[1].local \in FileEntries /\ dialog[1].remote \in FileEntries
    BY <1>4 DEF Sync!Dialog!Listings, FileEntries
  <2>2. item \in Items BY <1>3, <2>1 DEF Items
  <2>3. item.type = type BY DEF item
  <2> QED BY <2>2, <2>3 DEF type
<1> HIDE DEF item
<1>6. queue \in Seq(Items) BY DEF WindowInv, WindowTypes
<1>7. /\ queue' \in Seq(Items)
      /\ \A i \in DOMAIN queue' : queue'[i] = item \/ \E k \in DOMAIN queue : queue'[i] = queue[k]
  BY <1>3, <1>5, <1>6, AppendedIs
<1>8. \A i \in DOMAIN queue' :
         queue'[i].type = Sync!Dialog!Compute(queue'[i].direction, queue'[i].local, queue'[i].remote)
  BY <1>5, <1>7 DEF WindowInv, WindowTypes
<1>9. ~overruled' /\ ~dotfile =>
         /\ ~overruled
         /\ \A i \in DOMAIN queue' : BothHold(queue'[i]) /\ queue'[i].direction = "twoWay"
  <2> SUFFICES ASSUME ~overruled', ~dotfile
               PROVE  ~overruled /\ \A i \in DOMAIN queue' : BothHold(queue'[i]) /\ queue'[i].direction = "twoWay"
    OBVIOUS
  <2>1. ~overruled /\ direction = "twoWay" BY <1>3
  <2>2. BothHold(dialog[1]) BY <1>4, <2>1 DEF WindowInv, NewestKnown
  <2>3. BothHold(item) BY <1>5, <2>2 DEF BothHold
  <2> QED BY <1>5, <1>7, <2>1, <2>3 DEF WindowInv, NewestKnown
<1>10. dialog' \in Seq(Sync!Dialog!Listings) /\ Len(dialog') <= 1 /\ \A i \in DOMAIN dialog' : BothHold(dialog'[i])
  BY <1>1
<1> QED BY <1>1, <1>7, <1>8, <1>9, <1>10, SidesRest DEF WindowInv, WindowTypes, NewestKnown

LEMMA CancelKeeps == ASSUME WindowInv, Sync!Dialog!Cancel PROVE WindowInv'
<1>1. /\ UNCHANGED <<local, remote, dotfile, answers, queue, now, edits, newest, overruled>>
      /\ dialog' = << >>
  BY DEF Sync!Dialog!Cancel, Sync!Dialog!sides, Sync!Dialog!counts
<1> QED BY <1>1, SidesRest DEF WindowInv, WindowTypes, NewestKnown

\* The copy at the head of the queue, and those behind it.
LEMMA HeadIs ==
    ASSUME WindowInv, queue # << >>, queue' = Tail(queue), NEW item, item = Head(queue)
    PROVE  /\ item \in Items /\ item.type = Sync!Dialog!Compute(item.direction, item.local, item.remote)
           /\ queue' \in Seq(Items)
           /\ \A i \in DOMAIN queue' : \E k \in DOMAIN queue : queue'[i] = queue[k]
           /\ \A i \in DOMAIN queue' :
                 queue'[i].type = Sync!Dialog!Compute(queue'[i].direction, queue'[i].local, queue'[i].remote)
           /\ ~overruled /\ ~dotfile => BothHold(item) /\ item.direction = "twoWay"
<1>1. queue \in Seq(Items) BY DEF WindowInv, WindowTypes
<1>2. /\ Tail(queue) \in Seq(Items) /\ Head(queue) = queue[1] /\ 1 \in DOMAIN queue /\ Head(queue) \in Items
      /\ \A i \in DOMAIN Tail(queue) : \E k \in DOMAIN queue : Tail(queue)[i] = queue[k]
  BY <1>1, TailIs
<1> QED BY <1>2 DEF WindowInv, WindowTypes, NewestKnown

LEMMA CopyDropped == ASSUME WindowInv, Sync!Dialog!CopyFails PROVE WindowInv'
<1>1. /\ UNCHANGED <<local, remote, dotfile, answers, dialog, now, edits, newest, overruled>>
      /\ queue # << >> /\ queue' = Tail(queue)
  BY DEF Sync!Dialog!CopyFails, Sync!Dialog!sides
<1>2. PICK item : item = Head(queue) OBVIOUS
<1>3. /\ queue' \in Seq(Items)
      /\ \A i \in DOMAIN queue' : \E k \in DOMAIN queue : queue'[i] = queue[k]
      /\ \A i \in DOMAIN queue' :
            queue'[i].type = Sync!Dialog!Compute(queue'[i].direction, queue'[i].local, queue'[i].remote)
  BY <1>1, <1>2, HeadIs
<1> QED BY <1>1, <1>3, SidesRest DEF WindowInv, WindowTypes, NewestKnown

\* What a copy writes, and when.
LEMMA CopiedIs ==
    ASSUME WindowTypes, NEW item \in Items, item = Head(queue), NEW data \in Nat, Sync!Dialog!Copied(data)
    PROVE  /\ SideAt(local, now)' /\ SideAt(remote, now)' /\ now' \in Nat /\ Sync!Dialog!Later <= now'
           /\ item.type = "upload" => local' = local /\ IsFile(remote') /\ remote'.data = data
           /\ item.type = "download" => remote' = remote /\ IsFile(local') /\ local'.data = data
<1>1. /\ now \in Nat /\ Sync!Dialog!Later <= now /\ SideAt(local, now) /\ SideAt(remote, now)
      /\ local \in FileEntries /\ remote \in FileEntries
  BY DEF WindowTypes, SideAt
<1>2. PICK time \in {now - Tolerance, now} :
         now' = time + Sync!Dialog!Later /\ Sync!Dialog!Written(item, Sync!Dialog!File(data, time))
  BY DEF Sync!Dialog!Copied
<1>3. item.type = "upload" \/ item.type = "download" BY DEF Items
<1>4. /\ item.type = "upload" => remote' = Sync!Dialog!File(data, time) /\ local' = local
      /\ item.type = "download" => local' = Sync!Dialog!File(data, time) /\ remote' = remote
  BY <1>2 DEF Sync!Dialog!Written
<1>5. time \in Nat /\ now < now' /\ now' \in Nat /\ Sync!Dialog!Later <= now' /\ now' = time + Sync!Dialog!Later
  BY <1>1, <1>2, WindowBounds
<1>6. \A x \in FileEntries : SideAt(x, now) => SideAt(x, now')
  <2> SUFFICES ASSUME NEW x \in FileEntries, SideAt(x, now) PROVE SideAt(x, now') OBVIOUS
  <2>1. x.mtime \in Nat BY WindowEntry
  <2> QED BY <1>1, <1>5, <2>1, WindowBounds DEF SideAt
<1>7. PICK f : f = Sync!Dialog!File(data, time) OBVIOUS
<1>8. f \in FileEntries /\ IsFile(f) /\ f.data = data /\ f.mtime = time BY <1>5, <1>7, WindowFiles
<1>9. SideAt(f, now') BY <1>5, <1>8, WindowBounds DEF SideAt
<1>10. CASE item.type = "upload"
  <2>1. remote' = f /\ local' = local BY <1>4, <1>7, <1>10
  <2> QED BY <1>1, <1>5, <1>6, <1>8, <1>9, <1>10, <2>1
<1>11. CASE item.type = "download"
  <2>1. local' = f /\ remote' = remote BY <1>4, <1>7, <1>11
  <2> QED BY <1>1, <1>5, <1>6, <1>8, <1>9, <1>11, <2>1
<1> QED BY <1>3, <1>10, <1>11

LEMMA CopyIs ==
    ASSUME WindowInv, Sync!Dialog!Copy \/ Sync!Dialog!CopyBreaks, NEW item, item = Head(queue),
           NEW data, data = IF Sync!Dialog!Copy THEN Sync!Dialog!From(item).data ELSE 0
    PROVE  /\ queue # << >> /\ item \in Items /\ UNCHANGED <<dotfile, answers, dialog, edits, newest>>
           /\ WindowTypes'
           /\ item.type = "upload" =>
                 local' = local /\ IsFile(local) /\ IsFile(remote') /\ remote'.data = data
           /\ item.type = "download" =>
                 remote' = remote /\ IsFile(remote) /\ IsFile(local') /\ local'.data = data
           /\ item.type = "upload" \/ item.type = "download"
<1>1. /\ queue # << >> /\ queue' = Tail(queue)
      /\ Sync!Dialog!Present(Sync!Dialog!From(item))
      /\ Sync!Dialog!Copied(data)
      /\ UNCHANGED <<dotfile, answers, dialog, edits, newest>>
  <2>1. CASE Sync!Dialog!Copy BY <2>1 DEF Sync!Dialog!Copy, Sync!Dialog!counts
  <2>2. CASE ~Sync!Dialog!Copy
    <3>1. Sync!Dialog!CopyBreaks /\ data = 0 BY <2>2
    <3> QED BY <3>1 DEF Sync!Dialog!CopyBreaks
  <2> QED BY <2>1, <2>2
<1>2. /\ item \in Items
      /\ queue' \in Seq(Items)
      /\ \A i \in DOMAIN queue' :
            queue'[i].type = Sync!Dialog!Compute(queue'[i].direction, queue'[i].local, queue'[i].remote)
  BY <1>1, HeadIs
<1>3. item.type = "upload" \/ item.type = "download" BY <1>2 DEF Items
<1>4. WindowTypes /\ local \in FileEntries /\ remote \in FileEntries BY DEF WindowInv, WindowTypes, SideAt
<1>5. Sync!Dialog!From(item) = IF item.type = "upload" THEN local ELSE remote BY DEF Sync!Dialog!From
<1>6. data \in Nat
  <2>1. Sync!Dialog!From(item).data \in Nat BY <1>4, <1>5, WindowEntry
  <2> QED BY <2>1
<1>7. /\ SideAt(local, now)' /\ SideAt(remote, now)' /\ now' \in Nat /\ Sync!Dialog!Later <= now'
      /\ item.type = "upload" => local' = local /\ IsFile(remote') /\ remote'.data = data
      /\ item.type = "download" => remote' = remote /\ IsFile(local') /\ local'.data = data
  BY <1>1, <1>2, <1>4, <1>6, CopiedIs
<1>8. /\ item.type = "upload" => IsFile(local)
      /\ item.type = "download" => IsFile(remote)
  BY <1>1, <1>4, <1>5, WindowEntry
<1>9. WindowTypes' BY <1>1, <1>2, <1>4, <1>7 DEF WindowTypes
<1> QED BY <1>1, <1>2, <1>3, <1>7, <1>8, <1>9

\* A mirror that copies what was listed copies the last edit.
LEMMA MirrorCopies == ASSUME WindowInv, Sync!Dialog!Copy PROVE WindowInv'
<1>1. PICK item : item = Head(queue) OBVIOUS
<1>2. PICK data : data = Sync!Dialog!From(item).data OBVIOUS
<1>3. data = IF Sync!Dialog!Copy THEN Sync!Dialog!From(item).data ELSE 0 BY <1>2
<1>4. /\ queue # << >> /\ item \in Items /\ UNCHANGED <<dotfile, answers, dialog, edits, newest>>
      /\ WindowTypes'
      /\ item.type = "upload" =>
            local' = local /\ IsFile(local) /\ IsFile(remote') /\ remote'.data = data
      /\ item.type = "download" =>
            remote' = remote /\ IsFile(remote) /\ IsFile(local') /\ local'.data = data
      /\ item.type = "upload" \/ item.type = "download"
  BY <1>1, <1>3, CopyIs
<1>5. queue' = Tail(queue) /\ overruled' = overruled BY DEF Sync!Dialog!Copy
<1>6. Sync!Dialog!From(item) = IF item.type = "upload" THEN local ELSE remote BY DEF Sync!Dialog!From
<1>7. SameContent' BY <1>2, <1>4, <1>6 DEF SameContent
<1>8. NewestKnown'
  <2> SUFFICES ASSUME ~overruled, ~dotfile PROVE NewestKnown' BY <1>4, <1>5 DEF NewestKnown
  <2>1. /\ item.type = Sync!Dialog!Compute(item.direction, item.local, item.remote)
        /\ \A i \in DOMAIN queue' : \E k \in DOMAIN queue : queue'[i] = queue[k]
        /\ BothHold(item) /\ item.direction = "twoWay"
    BY <1>1, <1>4, <1>5, HeadIs
  <2>2. item.local \in FileEntries /\ item.remote \in FileEntries BY <1>4 DEF Items
  <2>3. PICK type : type = item.type OBVIOUS
  <2>4. /\ type = "upload" => IsFile(item.local) /\ (IsFile(item.remote) => item.remote.mtime <= item.local.mtime)
        /\ type = "download" => IsFile(item.remote) /\ (IsFile(item.local) => item.local.mtime <= item.remote.mtime)
    BY <2>1, <2>2, <2>3, MirrorPlans
  <2>5. Latest(local, remote, newest) BY DEF WindowInv, NewestKnown
  <2>6. newest = data
    <3>1. CASE SameContent BY <1>2, <1>6, <2>5, <3>1 DEF SameContent, Latest
    <3>2. CASE item.local = local /\ item.remote = remote
      <4>1. local.mtime \in Nat /\ remote.mtime \in Nat BY <2>2, <3>2, WindowEntry
      <4>2. CASE item.type = "upload"
        <5>1. data = local.data BY <1>2, <1>6, <4>2
        <5>2. IsFile(local) /\ (IsFile(remote) => remote.mtime <= local.mtime) BY <2>3, <2>4, <3>2, <4>2
        <5> QED BY <2>5, <4>1, <5>1, <5>2 DEF Latest
      <4>3. CASE item.type = "download"
        <5>1. data = remote.data BY <1>2, <1>4, <1>6, <4>3
        <5>2. IsFile(remote) /\ (IsFile(local) => local.mtime <= remote.mtime) BY <2>3, <2>4, <3>2, <4>3
        <5> QED BY <2>5, <4>1, <5>1, <5>2 DEF Latest
      <4> QED BY <1>4, <4>2, <4>3
    <3> QED BY <2>1, <3>1, <3>2 DEF BothHold
  <2>7. Latest(local, remote, newest)'
    <3>1. newest' = data /\ (local'.data = data /\ remote'.data = data /\ IsFile(local') /\ IsFile(remote'))
      BY <1>2, <1>4, <1>6, <2>6
    <3> QED BY <3>1 DEF Latest
  <2>8. \A i \in DOMAIN queue' : queue'[i].direction = "twoWay" BY <2>1 DEF WindowInv, NewestKnown
  <2> QED BY <1>7, <2>7, <2>8 DEF NewestKnown, RemoteHolds, BothHold
<1> QED BY <1>4, <1>8 DEF WindowInv

LEMMA PartCopied == ASSUME WindowInv, Sync!Dialog!CopyBreaks PROVE WindowInv'
<1>1. PICK item : item = Head(queue) OBVIOUS
<1>2. PICK data : data = IF Sync!Dialog!Copy THEN Sync!Dialog!From(item).data ELSE 0 OBVIOUS
<1>3. WindowTypes' BY <1>1, <1>2, CopyIs
<1>4. overruled' BY DEF Sync!Dialog!CopyBreaks
<1> QED BY <1>3, <1>4 DEF WindowInv, NewestKnown

\* No step of the worker or of the dialog removes a file, and what a mirror replaces was
\* not listed as the newer one.
LEMMA ReplacesOlder ==
    ASSUME WindowInv, Sync!Dialog!Copy \/ Sync!Dialog!CopyBreaks
    PROVE  /\ ~Sync!Dialog!Gone(local) /\ ~Sync!Dialog!Gone(remote)
           /\ Head(queue).direction = "twoWay" =>
                 /\ Sync!Dialog!Replaced(local) /\ local = Head(queue).local =>
                       Head(queue).remote.mtime >= Head(queue).local.mtime
                 /\ Sync!Dialog!Replaced(remote) /\ remote = Head(queue).remote =>
                       Head(queue).local.mtime >= Head(queue).remote.mtime
<1>1. PICK item : item = Head(queue) OBVIOUS
<1>2. PICK data : data = IF Sync!Dialog!Copy THEN Sync!Dialog!From(item).data ELSE 0 OBVIOUS
<1>3. /\ queue # << >> /\ item \in Items
      /\ item.type = "upload" => local' = local /\ IsFile(local) /\ IsFile(remote')
      /\ item.type = "download" => remote' = remote /\ IsFile(remote) /\ IsFile(local')
      /\ item.type = "upload" \/ item.type = "download"
  BY <1>1, <1>2, CopyIs
<1>4. local \in FileEntries /\ remote \in FileEntries /\ item.local \in FileEntries /\ item.remote \in FileEntries
  BY <1>3 DEF WindowInv, WindowTypes, SideAt, Items
<1>5. \A x : IsFile(x) => Sync!Dialog!Present(x) BY DEF IsFile, Sync!Dialog!Present
<1>6. ~Sync!Dialog!Gone(local) /\ ~Sync!Dialog!Gone(remote)
  BY <1>3, <1>5 DEF Sync!Dialog!Gone
<1>7. ASSUME item.direction = "twoWay"
      PROVE  /\ Sync!Dialog!Replaced(local) /\ local = item.local => item.remote.mtime >= item.local.mtime
             /\ Sync!Dialog!Replaced(remote) /\ remote = item.remote => item.local.mtime >= item.remote.mtime
  <2>1. queue' = Tail(queue) BY DEF Sync!Dialog!Copy, Sync!Dialog!CopyBreaks
  <2>2. item.type = Sync!Dialog!Compute("twoWay", item.local, item.remote) BY <1>1, <1>3, <1>7, <2>1, HeadIs
  <2>3. PICK type : type = item.type OBVIOUS
  <2>4. /\ type = "upload" => IsFile(item.local) /\ (IsFile(item.remote) => item.remote.mtime <= item.local.mtime)
        /\ type = "download" => IsFile(item.remote) /\ (IsFile(item.local) => item.local.mtime <= item.remote.mtime)
    BY <1>4, <2>2, <2>3, MirrorPlans
  <2>5. item.local.mtime \in Nat /\ item.remote.mtime \in Nat BY <1>4, WindowEntry
  <2>6. ASSUME Sync!Dialog!Replaced(local), local = item.local PROVE item.remote.mtime >= item.local.mtime
    <3>1. IsFile(item.local) /\ local' # local BY <1>4, <2>6, WindowEntry DEF Sync!Dialog!Replaced
    <3> QED BY <1>3, <2>3, <2>4, <2>5, <3>1
  <2>7. ASSUME Sync!Dialog!Replaced(remote), remote = item.remote PROVE item.local.mtime >= item.remote.mtime
    <3>1. IsFile(item.remote) /\ remote' # remote BY <1>4, <2>7, WindowEntry DEF Sync!Dialog!Replaced
    <3> QED BY <1>3, <2>3, <2>4, <2>5, <3>1
  <2> QED BY <2>6, <2>7
<1> QED BY <1>1, <1>6, <1>7

LEMMA WindowStep ==
    ASSUME WindowInv, Sync!Dialog!Next \/ UNCHANGED Sync!Dialog!vars
    PROVE  WindowInv' /\ (Sync!Dialog!Next => Sync!Dialog!KeepsChanges)
<1>1. WindowInv'
  <2>1. CASE Sync!Dialog!EditLocal \/ Sync!Dialog!EditRemote BY <2>1, EditKeeps
  <2>2. CASE Sync!Dialog!OnSyncClicked BY <2>2, OnSyncClickedKeeps
  <2>3. CASE Sync!Dialog!DoSyncListing BY <2>3, DoSyncListingKeeps
  <2>4. CASE Sync!Dialog!OnSyncListingReady BY <2>4, OnSyncListingReadyKeeps
  <2>5. CASE Sync!Dialog!Start BY <2>5, StartKeeps
  <2>6. CASE Sync!Dialog!Cancel BY <2>6, CancelKeeps
  <2>7. CASE Sync!Dialog!Copy BY <2>7, MirrorCopies
  <2>8. CASE Sync!Dialog!CopyFails BY <2>8, CopyDropped
  <2>9. CASE Sync!Dialog!CopyBreaks BY <2>9, PartCopied
  <2>10. CASE UNCHANGED Sync!Dialog!vars
    <3>1. UNCHANGED <<local, remote, dotfile, answers, dialog, queue, now, edits, newest, overruled>>
      BY <2>10 DEF Sync!Dialog!vars, Sync!Dialog!sides, Sync!Dialog!counts
    <3> QED BY <3>1, SidesRest DEF WindowInv, WindowTypes, NewestKnown
  <2> QED BY <2>1, <2>2, <2>3, <2>4, <2>5, <2>6, <2>7, <2>8, <2>9, <2>10 DEF Sync!Dialog!Next
<1>2. ASSUME Sync!Dialog!Next PROVE Sync!Dialog!KeepsChanges
  <2>1. ~overruled' /\ ~dotfile' => newest' \in {local'.data, remote'.data}
    BY <1>1 DEF WindowInv, NewestKnown, Latest
  <2>2. CASE Sync!Dialog!Copy \/ Sync!Dialog!CopyBreaks
    BY <2>1, <2>2, ReplacesOlder DEF Sync!Dialog!KeepsChanges
  <2>3. CASE edits' # edits BY <2>1, <2>3 DEF Sync!Dialog!KeepsChanges
  <2>4. CASE UNCHANGED <<local, remote>>
    BY <2>1, <2>4 DEF Sync!Dialog!KeepsChanges, Sync!Dialog!Gone, Sync!Dialog!Replaced
  <2>5. edits \in Nat BY DEF WindowInv, WindowTypes
  <2>6. edits' # edits \/ UNCHANGED <<local, remote>> \/ Sync!Dialog!Copy \/ Sync!Dialog!CopyBreaks
    <3>1. CASE Sync!Dialog!EditLocal \/ Sync!Dialog!EditRemote
      <4>1. edits' = edits + 1
        BY <3>1 DEF Sync!Dialog!EditLocal, Sync!Dialog!EditRemote, Sync!Dialog!Edited
      <4> QED BY <2>5, <4>1
    <3>2. CASE \/ Sync!Dialog!OnSyncClicked \/ Sync!Dialog!DoSyncListing \/ Sync!Dialog!OnSyncListingReady
               \/ Sync!Dialog!Start \/ Sync!Dialog!Cancel \/ Sync!Dialog!CopyFails
      BY <3>2 DEF Sync!Dialog!OnSyncClicked, Sync!Dialog!DoSyncListing, Sync!Dialog!OnSyncListingReady,
                  Sync!Dialog!Start, Sync!Dialog!Cancel, Sync!Dialog!CopyFails, Sync!Dialog!sides
    <3> QED BY <1>2, <3>1, <3>2 DEF Sync!Dialog!Next
  <2> QED BY <2>2, <2>3, <2>4, <2>6
<1> QED BY <1>1, <1>2

-----------------------------------------------------------------------------
(* The scheduler.                                                          *)

JobRecords == [id : Ids, interval : Nat, lastRun : Nat, enabled : BOOLEAN]
DistinctIds(s) == \A i, k \in DOMAIN s : s[i].id = s[k].id => i = k
IdsOf(s) == {s[i].id : i \in DOMAIN s}

\* A list that knows of each of its jobs when it last ran, but for some.
MarksIn(s, ran, except) ==
    \A i \in DOMAIN s : s[i].id \in except \/ ran[s[i].id] = 0 \/ s[i].lastRun = ran[s[i].id]

\* The jobs whose marks the daemon holds, and may hold alone.
Held == IF daemon = "sleep" THEN {} ELSE IdsOf(jobs)

DueAt(j, time) == j.enabled /\ (j.lastRun = 0 \/ (j.interval > 0 /\ j.lastRun + j.interval <= time))

ScheduleInv ==
    /\ file \in Seq(JobRecords) /\ jobs \in Seq(JobRecords) /\ list \in Seq(JobRecords)
    /\ DistinctIds(file) /\ DistinctIds(jobs) /\ DistinctIds(list)
    /\ daemon \in {"sleep", "run", "truncated"} /\ command \in {"none", "loaded", "truncated"}
    /\ now \in Nat \ {0} /\ lastRan \in [Ids -> Nat]
    /\ MarksIn(file, lastRan, Held)
    /\ command # "none" => MarksIn(list, lastRan, Held)
    /\ daemon # "sleep" => MarksIn(jobs, lastRan, {})
    /\ daemon = "run" => \A i \in due : i \in DOMAIN jobs /\ DueAt(jobs[i], now)

LEMMA ScheduleBounds == Intervals \subseteq Nat
BY BoundsAssumption DEF BoundsAssumption

LEMMA EmptyList ==
    << >> \in Seq(JobRecords) /\ DistinctIds(<< >>) /\ \A ran, except : MarksIn(<< >>, ran, except)
BY DEF DistinctIds, MarksIn

\* Marks that are forgotten are missed nowhere.
LEMMA NoneRan ==
    ASSUME NEW s \in Seq(JobRecords), NEW except PROVE MarksIn(s, Sync!Schedule!Forgotten, except)
<1>1. \A i \in DOMAIN s : s[i] \in JobRecords OBVIOUS
<1>2. \A i \in DOMAIN s : s[i].id \in Ids BY <1>1 DEF JobRecords
<1> QED BY <1>2 DEF MarksIn, Sync!Schedule!Forgotten

LEMMA ScheduleStarts == Sync!Schedule!Init => ScheduleInv
<1> SUFFICES ASSUME Sync!Schedule!Init PROVE ScheduleInv OBVIOUS
<1>1. /\ file = << >> /\ jobs = << >> /\ list = << >> /\ daemon = "sleep" /\ command = "none"
      /\ now = 1 /\ lastRan = [id \in Ids |-> 0]
  BY DEF Sync!Schedule!Init
<1>2. now \in Nat \ {0} /\ lastRan \in [Ids -> Nat] BY <1>1
<1> QED BY <1>1, <1>2, EmptyList DEF ScheduleInv

LEMMA MarksStay ==
    ASSUME NEW s \in Seq(JobRecords), NEW ran \in [Ids -> Nat], NEW except, NEW more,
           MarksIn(s, ran, except), except \subseteq more
    PROVE  /\ MarksIn(s, ran, more)
           /\ \A id \in Ids : MarksIn(s, [ran EXCEPT ![id] = 0], more)
<1>1. \A i \in DOMAIN s : s[i].id \in Ids
  <2>1. \A i \in DOMAIN s : s[i] \in JobRecords OBVIOUS
  <2> QED BY <2>1 DEF JobRecords
<1> QED BY <1>1 DEF MarksIn

LEMMA LoadKeeps == ASSUME ScheduleInv, Sync!Schedule!Load PROVE ScheduleInv'
<1>1. /\ daemon = "sleep" /\ jobs' = file /\ daemon' = "run" /\ due' = {i \in DOMAIN file : Sync!Schedule!IsDue(file[i])}
      /\ UNCHANGED <<file, command, list, now, lastRan>>
  BY DEF Sync!Schedule!Load, Sync!Schedule!bounds
<1>2. Held = {} /\ Held' = IdsOf(file) BY <1>1 DEF Held, IdsOf
<1>3. /\ file \in Seq(JobRecords) /\ list \in Seq(JobRecords) /\ lastRan \in [Ids -> Nat]
      /\ MarksIn(file, lastRan, {}) /\ (command # "none" => MarksIn(list, lastRan, {}))
  BY <1>2 DEF ScheduleInv
<1>4. MarksIn(file, lastRan, IdsOf(file)) /\ (command # "none" => MarksIn(list, lastRan, IdsOf(file)))
  BY <1>3, MarksStay
<1>5. \A i \in due' : i \in DOMAIN jobs' /\ DueAt(jobs'[i], now') BY <1>1 DEF Sync!Schedule!IsDue, DueAt
<1> QED BY <1>1, <1>2, <1>3, <1>4, <1>5 DEF ScheduleInv

\* A job that runs was due, and its mark told when it ran before.
LEMMA RunKeeps ==
    ASSUME ScheduleInv, Sync!Schedule!RunJob
    PROVE  ScheduleInv' /\ Sync!Schedule!ScheduleKept
<1>1. /\ daemon = "run" /\ UNCHANGED <<file, daemon, command, list, now>>
  BY DEF Sync!Schedule!RunJob
<1>2. PICK i \in due :
        /\ due' = due \ {i} /\ jobs' = [jobs EXCEPT ![i] = Sync!Schedule!Marked(@, now)]
        /\ lastRan' = IF Sync!Schedule!Overlap THEN Sync!Schedule!Forgotten
                      ELSE [lastRan EXCEPT ![jobs[i].id] = now]
  BY DEF Sync!Schedule!RunJob
<1>3. /\ file \in Seq(JobRecords) /\ jobs \in Seq(JobRecords) /\ list \in Seq(JobRecords)
      /\ DistinctIds(jobs) /\ now \in Nat \ {0} /\ lastRan \in [Ids -> Nat]
      /\ MarksIn(jobs, lastRan, {}) /\ i \in DOMAIN jobs /\ DueAt(jobs[i], now)
      /\ MarksIn(file, lastRan, IdsOf(jobs)) /\ (command # "none" => MarksIn(list, lastRan, IdsOf(jobs)))
  BY <1>1 DEF ScheduleInv, Held
<1>4. \A k \in DOMAIN jobs : jobs[k] \in JobRecords BY <1>3
<1>5. jobs[i].id \in Ids /\ jobs[i].interval \in Nat /\ jobs[i].lastRun \in Nat /\ jobs[i].enabled \in BOOLEAN
  BY <1>3, <1>4 DEF JobRecords
<1> DEFINE job == Sync!Schedule!Marked(jobs[i], now)
<1>6. job \in JobRecords /\ job.id = jobs[i].id /\ job.lastRun = now
  <2>1. jobs[i] \in JobRecords BY <1>3, <1>4
  <2> QED BY <1>3, <1>5, <2>1 DEF Sync!Schedule!Marked, JobRecords
<1> HIDE DEF job
<1>7. jobs' = [jobs EXCEPT ![i] = job] BY <1>2 DEF job
<1>8. /\ jobs' \in Seq(JobRecords) /\ DOMAIN jobs' = DOMAIN jobs /\ jobs'[i] = job
      /\ \A k \in DOMAIN jobs : k # i => jobs'[k] = jobs[k]
      /\ \A k \in DOMAIN jobs : jobs'[k].id = jobs[k].id
  BY <1>3, <1>6, <1>7
<1>9. DistinctIds(jobs') /\ IdsOf(jobs') = IdsOf(jobs)
  <2>1. DistinctIds(jobs') BY <1>3, <1>8 DEF DistinctIds
  <2>2. IdsOf(jobs') = IdsOf(jobs) BY <1>8 DEF IdsOf
  <2> QED BY <2>1, <2>2
<1>10. Held' = IdsOf(jobs) BY <1>1, <1>9 DEF Held, IdsOf
<1>11. /\ lastRan' \in [Ids -> Nat] /\ MarksIn(file, lastRan', IdsOf(jobs))
       /\ (command # "none" => MarksIn(list, lastRan', IdsOf(jobs)))
       /\ MarksIn(jobs', lastRan', {})
  <2>1. CASE Sync!Schedule!Overlap
    <3>1. lastRan' = Sync!Schedule!Forgotten BY <1>2, <2>1
    <3>2. lastRan' \in [Ids -> Nat] BY <3>1 DEF Sync!Schedule!Forgotten
    <3> QED BY <1>3, <1>8, <3>1, <3>2, NoneRan
  <2>2. CASE ~Sync!Schedule!Overlap
    <3>1. lastRan' = [lastRan EXCEPT ![jobs[i].id] = now] BY <1>2, <2>2
    <3>2. command = "none" BY <1>1, <2>2 DEF Sync!Schedule!Overlap
    <3>3. jobs[i].id \in IdsOf(jobs) BY <1>3 DEF IdsOf
    <3>4. lastRan' \in [Ids -> Nat] BY <1>3, <1>5, <3>1
    <3>5. \A k \in DOMAIN file : file[k].id \in Ids
      <4>1. \A k \in DOMAIN file : file[k] \in JobRecords BY <1>3
      <4> QED BY <4>1 DEF JobRecords
    <3>6. MarksIn(file, lastRan', IdsOf(jobs)) BY <1>3, <3>1, <3>3, <3>5 DEF MarksIn
    <3>7. MarksIn(jobs', lastRan', {})
      <4>1. \A k \in DOMAIN jobs : jobs[k].id \in Ids BY <1>4 DEF JobRecords
      <4>2. lastRan'[jobs[i].id] = now /\ \A id \in Ids : id # jobs[i].id => lastRan'[id] = lastRan[id]
        BY <1>3, <1>5, <3>1
      <4>3. SUFFICES ASSUME NEW k \in DOMAIN jobs
                     PROVE  lastRan'[jobs'[k].id] = 0 \/ jobs'[k].lastRun = lastRan'[jobs'[k].id]
        BY <1>8 DEF MarksIn
      <4>4. CASE k = i BY <1>6, <1>8, <4>2, <4>4
      <4>5. CASE k # i
        <5>1. jobs[k].id # jobs[i].id BY <1>3, <4>5 DEF DistinctIds
        <5>2. lastRan[jobs[k].id] = 0 \/ jobs[k].lastRun = lastRan[jobs[k].id] BY <1>3 DEF MarksIn
        <5> QED BY <1>8, <4>1, <4>2, <4>5, <5>1, <5>2
      <4> QED BY <4>4, <4>5
    <3> QED BY <3>2, <3>4, <3>6, <3>7
  <2> QED BY <2>1, <2>2
<1>12. \A k \in due' : k \in DOMAIN jobs' /\ DueAt(jobs'[k], now)
  <2>1. \A k \in due : k \in DOMAIN jobs /\ DueAt(jobs[k], now) BY <1>1 DEF ScheduleInv
  <2> QED BY <1>2, <1>8, <2>1
<1>13. ScheduleInv'
  <2>1. MarksIn(file, lastRan, Held)' /\ (command # "none" => MarksIn(list, lastRan, Held))'
    BY <1>1, <1>10, <1>11 DEF MarksIn
  <2>2. DistinctIds(file)' /\ DistinctIds(jobs)' /\ DistinctIds(list)'
    BY <1>1, <1>9 DEF ScheduleInv, DistinctIds
  <2>3. MarksIn(jobs, lastRan, {})' BY <1>11 DEF MarksIn
  <2>4. (\A k \in due : k \in DOMAIN jobs /\ DueAt(jobs[k], now))' BY <1>1, <1>12 DEF DueAt
  <2>5. /\ file' \in Seq(JobRecords) /\ jobs' \in Seq(JobRecords) /\ list' \in Seq(JobRecords)
        /\ now' \in Nat \ {0} /\ lastRan' \in [Ids -> Nat] /\ daemon' = "run"
        /\ command' \in {"none", "loaded", "truncated"}
    BY <1>1, <1>3, <1>8, <1>11 DEF ScheduleInv
  <2> QED BY <2>1, <2>2, <2>3, <2>4, <2>5 DEF ScheduleInv
<1>14. ASSUME NEW id \in Ids, lastRan'[id] # lastRan[id], lastRan[id] # 0, lastRan'[id] # 0
       PROVE  Sync!Schedule!Interval(id) > 0 /\ lastRan'[id] >= lastRan[id] + Sync!Schedule!Interval(id)
  <2>1. lastRan' # Sync!Schedule!Forgotten BY <1>14 DEF Sync!Schedule!Forgotten
  <2>2. lastRan' = [lastRan EXCEPT ![jobs[i].id] = now] BY <1>2, <2>1
  <2>3. id = jobs[i].id /\ lastRan'[id] = now BY <1>3, <1>14, <2>2
  <2>4. jobs[i].lastRun = lastRan[id] BY <1>3, <1>14, <2>3 DEF MarksIn
  <2>5. jobs[i].interval > 0 /\ jobs[i].lastRun + jobs[i].interval <= now BY <1>3, <1>14, <2>4 DEF DueAt
  <2>6. Sync!Schedule!Interval(id) = jobs[i].interval
    <3> DEFINE k == CHOOSE k \in DOMAIN jobs : jobs[k].id = id
    <3>1. k \in DOMAIN jobs /\ jobs[k].id = id BY <1>3, <2>3
    <3>2. k = i BY <1>3, <2>3, <3>1 DEF DistinctIds
    <3> QED BY <3>2 DEF Sync!Schedule!Interval
  <2> QED BY <1>3, <1>5, <2>3, <2>4, <2>5, <2>6
<1> QED BY <1>13, <1>14 DEF Sync!Schedule!ScheduleKept
LEMMA OnlyForgets ==
    ASSUME \A id \in Ids : lastRan'[id] = lastRan[id] \/ lastRan'[id] = 0
    PROVE  Sync!Schedule!ScheduleKept
BY DEF Sync!Schedule!ScheduleKept

LEMMA RecordsOf ==
    ASSUME NEW s \in Seq(JobRecords) PROVE \A i \in DOMAIN s : s[i] \in JobRecords /\ s[i].id \in Ids
<1>1. \A i \in DOMAIN s : s[i] \in JobRecords OBVIOUS
<1> QED BY <1>1 DEF JobRecords

LEMMA SaveKeeps ==
    ASSUME ScheduleInv, Sync!Schedule!Truncate \/ Sync!Schedule!Write
    PROVE  ScheduleInv' /\ Sync!Schedule!ScheduleKept
<1> USE DEF Sync!Schedule!bounds
<1>1. CASE Sync!Schedule!Truncate
  <2>1. /\ daemon = "run" /\ file' = << >> /\ daemon' = "truncated"
        /\ UNCHANGED <<jobs, due, command, list, now, lastRan>>
    BY <1>1 DEF Sync!Schedule!Truncate
  <2>2. Held' = Held BY <2>1 DEF Held, IdsOf
  <2>3. ScheduleInv' BY <2>1, <2>2, EmptyList DEF ScheduleInv
  <2> QED BY <2>1, <2>3, OnlyForgets
<1>2. CASE Sync!Schedule!Write
  <2>1. /\ daemon = "truncated" /\ file' = jobs /\ daemon' = "sleep"
        /\ lastRan' = (IF Sync!Schedule!Overlap THEN Sync!Schedule!Forgotten ELSE lastRan)
        /\ UNCHANGED <<jobs, due, command, list, now>>
    BY <1>2 DEF Sync!Schedule!Write
  <2>2. Held' = {} BY <2>1 DEF Held
  <2>3. /\ jobs \in Seq(JobRecords) /\ list \in Seq(JobRecords) /\ lastRan \in [Ids -> Nat]
        /\ MarksIn(jobs, lastRan, {})
    BY <2>1 DEF ScheduleInv
  <2>4. /\ lastRan' \in [Ids -> Nat] /\ MarksIn(jobs, lastRan', {})
        /\ command # "none" => MarksIn(list, lastRan', {})
        /\ \A id \in Ids : lastRan'[id] = lastRan[id] \/ lastRan'[id] = 0
    <3>1. CASE Sync!Schedule!Overlap
      <4>1. lastRan' = Sync!Schedule!Forgotten BY <2>1, <3>1
      <4>2. lastRan' \in [Ids -> Nat] /\ \A id \in Ids : lastRan'[id] = 0
        BY <4>1 DEF Sync!Schedule!Forgotten
      <4> QED BY <2>3, <4>1, <4>2, NoneRan
    <3>2. CASE ~Sync!Schedule!Overlap
      BY <2>1, <2>3, <3>2 DEF Sync!Schedule!Overlap
    <3> QED BY <3>1, <3>2
  <2>5. ScheduleInv'
    <3>1. /\ file' \in Seq(JobRecords) /\ jobs' \in Seq(JobRecords) /\ list' \in Seq(JobRecords)
          /\ now' \in Nat \ {0} /\ lastRan' \in [Ids -> Nat] /\ daemon' = "sleep"
          /\ command' \in {"none", "loaded", "truncated"}
      BY <2>1, <2>3, <2>4 DEF ScheduleInv
    <3>2. DistinctIds(file') /\ DistinctIds(jobs') /\ DistinctIds(list') BY <2>1 DEF ScheduleInv
    <3>3. MarksIn(file', lastRan', Held') /\ (command' # "none" => MarksIn(list', lastRan', Held'))
      BY <2>1, <2>2, <2>4
    <3> QED BY <3>1, <3>2, <3>3 DEF ScheduleInv
  <2> QED BY <2>4, <2>5, OnlyForgets
<1> QED BY <1>1, <1>2

LEMMA AddedTo ==
    ASSUME NEW s \in Seq(JobRecords), DistinctIds(s), NEW job \in JobRecords,
           NEW ran \in [Ids -> Nat], NEW except, MarksIn(s, ran, except)
    PROVE  LET t == Sync!Schedule!Added(s, job)
           IN  /\ t \in Seq(JobRecords) /\ DistinctIds(t)
               /\ MarksIn(t, [ran EXCEPT ![job.id] = 0], except)
<1> DEFINE t == Sync!Schedule!Added(s, job)  forgets == [ran EXCEPT ![job.id] = 0]
<1>1. \A i \in DOMAIN s : s[i] \in JobRecords /\ s[i].id \in Ids BY RecordsOf
<1>2. job.id \in Ids BY DEF JobRecords
<1>3. forgets[job.id] = 0 /\ \A id \in Ids : id # job.id => forgets[id] = ran[id] BY <1>2
<1> HIDE DEF forgets
<1>4. CASE Sync!Schedule!Has(s, job.id)
  <2>1. t = [i \in DOMAIN s |-> IF s[i].id = job.id THEN job ELSE s[i]]
    BY <1>4 DEF Sync!Schedule!Added
  <2>2. t \in Seq(JobRecords) /\ DOMAIN t = DOMAIN s BY <1>1, <2>1
  <2>3. \A i \in DOMAIN s : t[i].id = s[i].id /\ (s[i].id # job.id => t[i] = s[i]) BY <2>1
  <2>4. DistinctIds(t) BY <2>2, <2>3 DEF DistinctIds
  <2>5. MarksIn(t, forgets, except) BY <1>1, <1>3, <2>2, <2>3 DEF MarksIn
  <2> HIDE DEF t
  <2> QED BY <2>2, <2>4, <2>5 DEF t, forgets
<1>5. CASE ~Sync!Schedule!Has(s, job.id)
  <2>1. t = Append(s, job) BY <1>5 DEF Sync!Schedule!Added
  <2>2. /\ t \in Seq(JobRecords) /\ DOMAIN t = 1 .. Len(s) + 1 /\ DOMAIN s = 1 .. Len(s) /\ Len(s) \in Nat
        /\ t[Len(s) + 1] = job /\ \A i \in DOMAIN s : t[i] = s[i]
    BY <2>1
  <2>3. \A i \in DOMAIN s : s[i].id # job.id BY <1>5 DEF Sync!Schedule!Has
  <2>4. \A i \in DOMAIN t : i \in DOMAIN s \/ i = Len(s) + 1 BY <2>2
  <2> HIDE DEF t
  <2>5. DistinctIds(t)
    <3>1. ASSUME NEW i \in DOMAIN t, NEW k \in DOMAIN t, t[i].id = t[k].id PROVE i = k
      BY <2>2, <2>3, <2>4, <3>1 DEF DistinctIds
    <3> QED BY <3>1 DEF DistinctIds
  <2>6. MarksIn(t, forgets, except)
    <3>1. ASSUME NEW i \in DOMAIN t
          PROVE  t[i].id \in except \/ forgets[t[i].id] = 0 \/ t[i].lastRun = forgets[t[i].id]
      <4>1. CASE i \in DOMAIN s BY <1>1, <1>3, <2>2, <2>3, <4>1 DEF MarksIn
      <4>2. CASE i = Len(s) + 1 BY <1>3, <2>2, <4>2
      <4> QED BY <2>4, <4>1, <4>2
    <3> QED BY <3>1 DEF MarksIn
  <2> QED BY <2>2, <2>5, <2>6 DEF t, forgets
<1> QED BY <1>4, <1>5

LEMMA Cut ==
    ASSUME NEW S, NEW s \in Seq(S), NEW a \in Nat \ {0}, NEW b \in Nat, b <= Len(s)
    PROVE  /\ SubSeq(s, a, b) \in Seq(S)
           /\ Len(SubSeq(s, a, b)) = IF a <= b THEN b - a + 1 ELSE 0
           /\ \A k \in 1 .. Len(SubSeq(s, a, b)) : SubSeq(s, a, b)[k] = s[a + k - 1]
<1>1. Len(SubSeq(s, a, b)) = IF a <= b THEN b - a + 1 ELSE 0 OBVIOUS
<1>2. \A k \in 1 .. (IF a <= b THEN b - a + 1 ELSE 0) :
         a + k - 1 \in DOMAIN s /\ SubSeq(s, a, b)[k] = s[a + k - 1]
  OBVIOUS
<1>3. SubSeq(s, a, b) \in Seq(S) OBVIOUS
<1> QED BY <1>1, <1>2, <1>3

LEMMA Chained ==
    ASSUME NEW S, NEW s \in Seq(S), NEW t \in Seq(S)
    PROVE  /\ s \o t \in Seq(S) /\ Len(s \o t) = Len(s) + Len(t)
           /\ \A k \in 1 .. Len(s) : (s \o t)[k] = s[k]
           /\ \A k \in 1 .. Len(t) : (s \o t)[Len(s) + k] = t[k]
OBVIOUS

LEMMA RemovedFrom ==
    ASSUME NEW s \in Seq(JobRecords), DistinctIds(s), NEW id, NEW t \in Sync!Schedule!Without(s, id),
           NEW ran, NEW except, MarksIn(s, ran, except)
    PROVE  t \in Seq(JobRecords) /\ DistinctIds(t) /\ MarksIn(t, ran, except)
<1>1. PICK i \in DOMAIN s : t = SubSeq(s, 1, i - 1) \o SubSeq(s, i + 1, Len(s))
  BY DEF Sync!Schedule!Without, Sync!Schedule!RemoveAt
<1>2. Len(s) \in Nat /\ i \in 1 .. Len(s) /\ DOMAIN s = 1 .. Len(s) OBVIOUS
<1> DEFINE a == SubSeq(s, 1, i - 1)  b == SubSeq(s, i + 1, Len(s))
<1>3. /\ a \in Seq(JobRecords) /\ Len(a) = i - 1 /\ \A k \in 1 .. i - 1 : a[k] = s[k]
      /\ b \in Seq(JobRecords) /\ Len(b) = Len(s) - i /\ \A k \in 1 .. Len(s) - i : b[k] = s[i + k]
  <2>1. /\ a \in Seq(JobRecords) /\ Len(a) = (IF 1 <= i - 1 THEN i - 1 - 1 + 1 ELSE 0)
        /\ \A k \in 1 .. Len(a) : a[k] = s[1 + k - 1]
    <3>1. 1 \in Nat \ {0} /\ i - 1 \in Nat /\ i - 1 <= Len(s) BY <1>2
    <3> QED BY <3>1, Cut
  <2>2. /\ b \in Seq(JobRecords)
        /\ Len(b) = (IF i + 1 <= Len(s) THEN Len(s) - (i + 1) + 1 ELSE 0)
        /\ \A k \in 1 .. Len(b) : b[k] = s[i + 1 + k - 1]
    <3>1. i + 1 \in Nat \ {0} /\ Len(s) \in Nat /\ Len(s) <= Len(s) BY <1>2
    <3> QED BY <3>1, Cut
  <2> HIDE DEF a, b
  <2>3. Len(a) = i - 1 /\ Len(b) = Len(s) - i BY <1>2, <2>1, <2>2
  <2>4. \A k \in 1 .. i - 1 : a[k] = s[k]
    <3>1. \A k \in 1 .. i - 1 : k \in 1 .. Len(a) /\ 1 + k - 1 = k BY <1>2, <2>3
    <3> QED BY <2>1, <3>1
  <2>5. \A k \in 1 .. Len(s) - i : b[k] = s[i + k]
    <3>1. \A k \in 1 .. Len(s) - i : k \in 1 .. Len(b) /\ i + 1 + k - 1 = i + k BY <1>2, <2>3
    <3> QED BY <2>2, <3>1
  <2> QED BY <2>1, <2>2, <2>3, <2>4, <2>5
<1> HIDE DEF a, b
<1>4. /\ a \o b \in Seq(JobRecords) /\ Len(a \o b) = Len(a) + Len(b)
      /\ \A k \in 1 .. Len(a) : (a \o b)[k] = a[k]
      /\ \A k \in 1 .. Len(b) : (a \o b)[Len(a) + k] = b[k]
  <2>1. a \in Seq(JobRecords) /\ b \in Seq(JobRecords) BY <1>3
  <2> QED BY <2>1, Chained
<1>5. t = a \o b BY <1>1 DEF a, b
<1>6. t \in Seq(JobRecords) /\ DOMAIN t = 1 .. Len(s) - 1
  <2>1. DOMAIN t = 1 .. Len(t) BY <1>4, <1>5
  <2> QED BY <1>2, <1>3, <1>4, <1>5, <2>1
<1>7. \A k \in DOMAIN t : t[k] = IF k < i THEN s[k] ELSE s[k + 1]
  <2> SUFFICES ASSUME NEW k \in 1 .. Len(s) - 1 PROVE t[k] = IF k < i THEN s[k] ELSE s[k + 1]
    BY <1>6
  <2>1. CASE k < i
    <3>1. k \in 1 .. Len(a) BY <1>2, <1>3, <2>1
    <3> QED BY <1>3, <1>4, <1>5, <2>1, <3>1
  <2>2. CASE ~(k < i)
    <3>1. PICK m \in Nat : m = k - i + 1 BY <1>2, <2>2
    <3>2. m \in 1 .. Len(s) - i /\ m \in 1 .. Len(b) /\ Len(a) + m = k /\ i + m = k + 1
      <4>1. Len(a) = i - 1 /\ Len(b) = Len(s) - i BY <1>3
      <4> QED BY <1>2, <2>2, <3>1, <4>1
    <3>3. (a \o b)[Len(a) + m] = b[m] /\ b[m] = s[i + m] BY <1>3, <1>4, <3>2
    <3> QED BY <1>5, <2>2, <3>2, <3>3
  <2> QED BY <2>1, <2>2
<1>8. DistinctIds(t)
  <2>1. ASSUME NEW k \in DOMAIN t, NEW m \in DOMAIN t, t[k].id = t[m].id PROVE k = m
    <3> DEFINE from(n) == IF n < i THEN n ELSE n + 1
    <3>1. from(k) \in DOMAIN s /\ from(m) \in DOMAIN s BY <1>2, <1>6
    <3>2. t[k] = s[from(k)] /\ t[m] = s[from(m)] BY <1>7
    <3>3. from(k) = from(m) BY <2>1, <3>1, <3>2 DEF DistinctIds
    <3> QED BY <1>2, <1>6, <3>3
  <2> QED BY <2>1 DEF DistinctIds
<1>9. MarksIn(t, ran, except)
  <2>1. \A k \in DOMAIN t : \E m \in DOMAIN s : t[k] = s[m]
    <3> SUFFICES ASSUME NEW k \in DOMAIN t PROVE \E m \in DOMAIN s : t[k] = s[m] OBVIOUS
    <3>1. k \in DOMAIN s /\ k + 1 \in DOMAIN s BY <1>2, <1>6
    <3> QED BY <1>7, <3>1
  <2> QED BY <2>1 DEF MarksIn
<1> QED BY <1>6, <1>8, <1>9

LEMMA CommandKeeps ==
    ASSUME ScheduleInv,
           \/ Sync!Schedule!AddJob \/ Sync!Schedule!RemoveJob
           \/ Sync!Schedule!CommandTruncates \/ Sync!Schedule!CommandWrites
    PROVE  ScheduleInv' /\ Sync!Schedule!ScheduleKept
<1> USE DEF Sync!Schedule!bounds
<1>0. /\ file \in Seq(JobRecords) /\ jobs \in Seq(JobRecords) /\ list \in Seq(JobRecords)
      /\ DistinctIds(file) /\ DistinctIds(jobs) /\ DistinctIds(list)
      /\ lastRan \in [Ids -> Nat] /\ MarksIn(file, lastRan, Held)
      /\ (command # "none" => MarksIn(list, lastRan, Held))
      /\ (daemon # "sleep" => MarksIn(jobs, lastRan, {}))
      /\ (daemon = "run" => \A i \in due : i \in DOMAIN jobs /\ DueAt(jobs[i], now))
      /\ daemon \in {"sleep", "run", "truncated"} /\ now \in Nat \ {0}
  BY DEF ScheduleInv
<1>1. CASE Sync!Schedule!AddJob
  <2>1. command' = "loaded" /\ UNCHANGED <<file, daemon, jobs, due, now>>
    BY <1>1 DEF Sync!Schedule!AddJob
  <2>2. PICK id \in Ids, interval \in Intervals :
           /\ list' = Sync!Schedule!Added(file, Sync!Schedule!Job(id, interval))
           /\ lastRan' = [lastRan EXCEPT ![id] = 0]
    BY <1>1 DEF Sync!Schedule!AddJob
  <2> DEFINE job == Sync!Schedule!Job(id, interval)
  <2>3. job \in JobRecords /\ job.id = id BY ScheduleBounds DEF Sync!Schedule!Job, JobRecords
  <2> HIDE DEF job
  <2>4. list' \in Seq(JobRecords) /\ DistinctIds(list') /\ MarksIn(list', lastRan', Held)
    BY <1>0, <2>2, <2>3, AddedTo DEF job
  <2>5. /\ MarksIn(file, lastRan', Held) /\ (daemon # "sleep" => MarksIn(jobs, lastRan', {}))
        /\ lastRan' \in [Ids -> Nat]
    <3>1. MarksIn(file, [lastRan EXCEPT ![id] = 0], Held) BY <1>0, MarksStay
    <3>2. ASSUME daemon # "sleep" PROVE MarksIn(jobs, [lastRan EXCEPT ![id] = 0], {})
      <4>1. MarksIn(jobs, lastRan, {}) BY <1>0, <3>2
      <4> DEFINE e == {}
      <4> HIDE DEF e
      <4>2. MarksIn(jobs, lastRan, e) BY <4>1 DEF e
      <4>3. MarksIn(jobs, [lastRan EXCEPT ![id] = 0], e) BY <1>0, <4>2, MarksStay
      <4> QED BY <4>3 DEF e
    <3>3. [lastRan EXCEPT ![id] = 0] \in [Ids -> Nat] BY <1>0
    <3> QED BY <2>2, <3>1, <3>2, <3>3
  <2>6. Held' = Held BY <2>1 DEF Held, IdsOf
  <2>7. ScheduleInv'
    <3>1. MarksIn(file, lastRan, Held)' /\ MarksIn(list, lastRan, Held)'
      BY <2>1, <2>4, <2>5, <2>6
    <3>2. (daemon # "sleep" => MarksIn(jobs, lastRan, {}))' BY <2>1, <2>5
    <3> QED BY <1>0, <2>1, <2>4, <2>5, <3>1, <3>2 DEF ScheduleInv
  <2>8. \A k \in Ids : lastRan'[k] = lastRan[k] \/ lastRan'[k] = 0 BY <1>0, <2>2
  <2> QED BY <2>7, <2>8, OnlyForgets
<1>2. CASE Sync!Schedule!RemoveJob
  <2>1. command' = "loaded" /\ UNCHANGED <<file, daemon, jobs, due, now, lastRan>>
    BY <1>2 DEF Sync!Schedule!RemoveJob
  <2>2. PICK id \in Ids : list' \in Sync!Schedule!Without(file, id) BY <1>2 DEF Sync!Schedule!RemoveJob
  <2>3. list' \in Seq(JobRecords) /\ DistinctIds(list') /\ MarksIn(list', lastRan, Held)
    BY <1>0, <2>2, RemovedFrom
  <2>4. Held' = Held BY <2>1 DEF Held, IdsOf
  <2>5. ScheduleInv' BY <1>0, <2>1, <2>3, <2>4 DEF ScheduleInv
  <2> QED BY <2>1, <2>5, OnlyForgets
<1>3. CASE Sync!Schedule!CommandTruncates
  <2>1. /\ command = "loaded" /\ file' = << >> /\ command' = "truncated"
        /\ UNCHANGED <<daemon, jobs, due, list, now, lastRan>>
    BY <1>3 DEF Sync!Schedule!CommandTruncates
  <2>2. Held' = Held BY <2>1 DEF Held, IdsOf
  <2>3. ScheduleInv' BY <1>0, <2>1, <2>2, EmptyList DEF ScheduleInv
  <2> QED BY <2>1, <2>3, OnlyForgets
<1>4. CASE Sync!Schedule!CommandWrites
  <2>1. /\ command = "truncated" /\ file' = list /\ command' = "none"
        /\ lastRan' = (IF Sync!Schedule!Overlap THEN Sync!Schedule!Forgotten ELSE lastRan)
        /\ UNCHANGED <<daemon, jobs, due, list, now>>
    BY <1>4 DEF Sync!Schedule!CommandWrites
  <2>2. Held' = Held BY <2>1 DEF Held, IdsOf
  <2>3. /\ lastRan' \in [Ids -> Nat] /\ MarksIn(list, lastRan', Held)
        /\ daemon # "sleep" => MarksIn(jobs, lastRan', {})
        /\ \A id \in Ids : lastRan'[id] = lastRan[id] \/ lastRan'[id] = 0
    <3>1. CASE Sync!Schedule!Overlap
      <4>1. lastRan' = Sync!Schedule!Forgotten BY <2>1, <3>1
      <4>2. lastRan' \in [Ids -> Nat] /\ \A id \in Ids : lastRan'[id] = 0
        BY <4>1 DEF Sync!Schedule!Forgotten
      <4> QED BY <1>0, <4>1, <4>2, NoneRan
    <3>2. CASE ~Sync!Schedule!Overlap
      BY <1>0, <2>1, <3>2 DEF Sync!Schedule!Overlap
    <3> QED BY <3>1, <3>2
  <2>4. ScheduleInv'
    <3>1. MarksIn(file, lastRan, Held)' BY <2>1, <2>2, <2>3
    <3>2. (daemon # "sleep" => MarksIn(jobs, lastRan, {}))' BY <2>1, <2>3
    <3> QED BY <1>0, <2>1, <2>3, <3>1, <3>2 DEF ScheduleInv
  <2> QED BY <2>3, <2>4, OnlyForgets
<1> QED BY <1>1, <1>2, <1>3, <1>4

LEMMA OutsideKeeps ==
    ASSUME ScheduleInv, Sync!Schedule!Tick \/ Sync!Schedule!Crash
    PROVE  ScheduleInv' /\ Sync!Schedule!ScheduleKept
<1> USE DEF Sync!Schedule!bounds
<1>0. /\ file \in Seq(JobRecords) /\ jobs \in Seq(JobRecords) /\ list \in Seq(JobRecords)
      /\ DistinctIds(file) /\ DistinctIds(jobs) /\ DistinctIds(list)
      /\ lastRan \in [Ids -> Nat] /\ MarksIn(file, lastRan, Held)
      /\ (command # "none" => MarksIn(list, lastRan, Held))
      /\ (daemon # "sleep" => MarksIn(jobs, lastRan, {}))
      /\ (daemon = "run" => \A i \in due : i \in DOMAIN jobs /\ DueAt(jobs[i], now))
      /\ daemon \in {"sleep", "run", "truncated"} /\ now \in Nat \ {0}
      /\ command \in {"none", "loaded", "truncated"}
  BY DEF ScheduleInv
<1>1. CASE Sync!Schedule!Tick
  <2>1. now' = now + 1 /\ UNCHANGED <<file, daemon, jobs, due, command, list, lastRan>>
    BY <1>1 DEF Sync!Schedule!Tick
  <2>2. Held' = Held BY <2>1 DEF Held, IdsOf
  <2>3. (daemon = "run" => \A i \in due : i \in DOMAIN jobs /\ DueAt(jobs[i], now))'
    <3> SUFFICES ASSUME daemon = "run", NEW i \in due PROVE i \in DOMAIN jobs /\ DueAt(jobs[i], now + 1)
      BY <2>1
    <3>1. i \in DOMAIN jobs /\ DueAt(jobs[i], now) BY <1>0
    <3>2. jobs[i].lastRun \in Nat /\ jobs[i].interval \in Nat
      <4>1. jobs[i] \in JobRecords BY <1>0, <3>1
      <4> QED BY <4>1 DEF JobRecords
    <3> QED BY <1>0, <3>1, <3>2 DEF DueAt
  <2>4. ScheduleInv' BY <1>0, <2>1, <2>2, <2>3 DEF ScheduleInv
  <2> QED BY <2>1, <2>4, OnlyForgets
<1>2. CASE Sync!Schedule!Crash
  <2>1. UNCHANGED <<file, jobs, due, list, now>> BY <1>2 DEF Sync!Schedule!Crash
  <2>2. CASE command # "none" /\ command' = "none" /\ UNCHANGED <<daemon, lastRan>>
    <3>1. Held' = Held BY <2>1, <2>2 DEF Held, IdsOf
    <3>2. ScheduleInv' BY <1>0, <2>1, <2>2, <3>1 DEF ScheduleInv
    <3> QED BY <2>2, <3>2, OnlyForgets
  <2>3. CASE /\ daemon # "sleep" /\ daemon' = "sleep" /\ UNCHANGED command
             /\ lastRan' = [id \in Ids |-> IF Sync!Schedule!Has(jobs, id) THEN 0 ELSE lastRan[id]]
    <3>1. Held = IdsOf(jobs) /\ Held' = {} BY <2>3 DEF Held
    <3>2. ASSUME NEW s \in Seq(JobRecords), MarksIn(s, lastRan, IdsOf(jobs))
          PROVE  MarksIn(s, lastRan', {})
      <4> SUFFICES ASSUME NEW i \in DOMAIN s
                   PROVE  lastRan'[s[i].id] = 0 \/ s[i].lastRun = lastRan'[s[i].id]
        BY DEF MarksIn
      <4>1. s[i].id \in Ids BY RecordsOf
      <4>2. s[i].id \in IdsOf(jobs) => lastRan'[s[i].id] = 0
        BY <2>3, <4>1 DEF IdsOf, Sync!Schedule!Has
      <4>3. lastRan'[s[i].id] \in {0, lastRan[s[i].id]} BY <2>3, <4>1
      <4> QED BY <3>2, <4>2, <4>3 DEF MarksIn
    <3>3. MarksIn(file, lastRan', {}) /\ (command # "none" => MarksIn(list, lastRan', {}))
      BY <1>0, <3>1, <3>2
    <3>4. lastRan' \in [Ids -> Nat] BY <1>0, <2>3
    <3>5. ScheduleInv' BY <1>0, <2>1, <2>3, <3>1, <3>3, <3>4 DEF ScheduleInv
    <3>6. \A id \in Ids : lastRan'[id] = lastRan[id] \/ lastRan'[id] = 0 BY <2>3
    <3> QED BY <3>5, <3>6, OnlyForgets
  <2> QED BY <1>2, <2>2, <2>3 DEF Sync!Schedule!Crash
<1> QED BY <1>1, <1>2

LEMMA ScheduleStep ==
    ASSUME ScheduleInv, Sync!Schedule!Next \/ UNCHANGED Sync!Schedule!vars
    PROVE  ScheduleInv' /\ Sync!Schedule!ScheduleKept
<1>1. CASE Sync!Schedule!Load
  <2>1. lastRan' = lastRan BY <1>1 DEF Sync!Schedule!Load
  <2> QED BY <1>1, <2>1, LoadKeeps, OnlyForgets
<1>2. CASE UNCHANGED Sync!Schedule!vars
  <2>1. UNCHANGED <<file, daemon, jobs, due, command, list, now, lastRan>> BY <1>2 DEF Sync!Schedule!vars
  <2>2. Held' = Held BY <2>1 DEF Held, IdsOf
  <2>3. ScheduleInv' BY <2>1, <2>2 DEF ScheduleInv
  <2> QED BY <2>1, <2>3, OnlyForgets
<1> QED BY <1>1, <1>2, RunKeeps, SaveKeeps, CommandKeeps, OutsideKeeps
    DEF Sync!Schedule!Next, Sync!Schedule!Daemon
-----------------------------------------------------------------------------
(* Runs of `sync`.                                                         *)

SyncPaths == Sync!OneWay!Paths
TreeEntry == {Sync!OneWay!Absent, Sync!OneWay!Dir}
             \union [kind : {"file"}, data : Nat, mtime : Nat]
Trees == [SyncPaths -> TreeEntry]
Steps == [type : {"copy", "mkdir", "delete", "skip"}, path : SyncPaths]

\* The side copied from, but for what the local lister does not see, the other one, what
\* a listing shows of that, and what was listed of the former.
FromTree == Sync!OneWay!Source(Sync!OneWay!Visible(local), remote)
SeenTree == Sync!OneWay!Target(Sync!OneWay!Visible(local), remote)
Unseen(p) == down /\ p \in hidden
ToTree == Sync!OneWay!Target(local, remote)
Listed == Sync!OneWay!Source(localList, remoteList)
Running == syncPc \in {"execute", "stamp"}
Current == Sync!OneWay!Next1

SyncTypes ==
    /\ down \in BOOLEAN /\ deleteOrphans \in BOOLEAN /\ hidden \in Hidden
    /\ dirty \in BOOLEAN /\ mirrored \in BOOLEAN
    /\ local \in Trees /\ remote \in Trees /\ localList \in Trees /\ remoteList \in Trees
    /\ plan \subseteq Steps /\ IsFiniteSet(plan) /\ failed \in Nat /\ Cardinality(plan) + failed <= 3
    /\ exitCode \in {0, 1} /\ now \in Nat
    /\ syncPc \in {"local", "remote", "execute", "stamp", "done"}

\* Files of the source were written in the past, further apart than a comparison
\* can tell, and a file that was listed is that one still, or newer, or gone.
Before(time, later) == time + Sync!OneWay!Later <= later
SourceTimes ==
    /\ down => Sync!OneWay!WellFormed(FromTree)
    /\ ~down => \A p \in SyncPaths : p \in hidden => Listed[p].kind = "absent"
    /\ \A p \in SyncPaths : FromTree[p].kind = "file" => FromTree[p].data >= 1 /\ Before(FromTree[p].mtime, now)
    /\ \A p \in SyncPaths : Listed[p].kind = "file" =>
          /\ Before(Listed[p].mtime, now)
          /\ \/ FromTree[p] = Listed[p] \/ FromTree[p].kind = "absent"
             \/ /\ FromTree[p].kind = "file"
                /\ Listed[p].mtime + Sync!OneWay!Later <= FromTree[p].mtime

\* What the comparison takes for equal is equal.
SizesTell ==
    \A p \in SyncPaths : ToTree[p].kind = "file" =>
        /\ ToTree[p].mtime <= now /\ (ToTree[p].data = 0 \/ Before(ToTree[p].mtime, now))
        /\ FromTree[p].kind = "file" /\ ~Sync!OneWay!Changed(FromTree[p], ToTree[p]) =>
              ToTree[p].data = FromTree[p].data

\* The copy under way is of what was listed, unless that was edited.
StampKnown ==
    syncPc = "stamp" =>
        /\ plan # {} /\ Current.type = "copy" /\ ToTree[Current.path].kind = "file"
        /\ ToTree[Current.path].data = 0 \/ Before(ToTree[Current.path].mtime, now)
        /\ FromTree[Current.path] = Listed[Current.path] =>
              ToTree[Current.path].data = FromTree[Current.path].data

\* A step of the plan is for what was listed.
Fits(a, s) ==
    /\ a.type \in {"copy", "skip"} => s.kind = "file"
    /\ a.type = "mkdir" => s.kind = "dir"
    /\ a.type = "delete" => s.kind = "absent"

\* The target has what the source has at a path.
Settled(p) ==
    LET s == FromTree[p]  t == ToTree[p]
    IN  /\ s.kind = "file" => /\ t.kind = "file" /\ t.data = s.data
                              /\ KeepsTimes => ~Sync!OneWay!Changed(s, t)
        /\ s.kind = "dir" => t.kind # "absent"
        /\ s.kind = "absent" /\ deleteOrphans => t.kind = "absent" \/ Unseen(p)
Pending(p) == \E a \in plan : a.path = p /\ a.type # "skip"

RunKnown ==
    /\ Running => \A a \in plan : Fits(a, Listed[a.path])
    /\ Running /\ ~dirty => FromTree = Listed
    /\ Running /\ ~dirty /\ failed = 0 => \A p \in SyncPaths : Settled(p) \/ Pending(p)
    /\ ~Running /\ mirrored => ~dirty /\ \A p \in SyncPaths : Settled(p)
    /\ syncPc = "remote" => failed = 0 /\ (down \/ ~dirty => localList = Sync!OneWay!Visible(local))

OneWayInv == SyncTypes /\ SourceTimes /\ SizesTell /\ StampKnown /\ RunKnown

LEMMA LeastNumber ==
    ASSUME NEW T, T \subseteq Nat, T # {}
    PROVE  \E x \in T : \A y \in T : x <= y
<1> DEFINE R == {ss \in Nat \X Nat : ss[1] < ss[2]}
<1>1. IsWellFoundedOn(R, Nat) BY NatLessThanWellFounded DEF OpToRel
<1> HIDE DEF R
<1>2. PICK x \in T : \A y \in T : ~(<<y, x>> \in R) BY <1>1, WFMin
<1>3. ASSUME NEW y \in T PROVE x <= y
  <2>1. ~(<<y, x>> \in R) /\ x \in Nat /\ y \in Nat BY <1>2
  <2>2. y < x => <<y, x>> \in R BY <2>1 DEF R
  <2> QED BY <2>1, <2>2
<1> QED BY <1>2, <1>3

LEMMA OneWayBounds == Tolerance \in Nat /\ Sync!OneWay!Later = Tolerance + 1 /\ Sync!OneWay!Later \in Nat
<1>1. Tolerance \in Nat BY BoundsAssumption DEF BoundsAssumption
<1> QED BY <1>1 DEF Sync!OneWay!Later

LEMMA SyncPathsAre ==
    /\ SyncPaths = {"a", "d", "d/x"} /\ IsFiniteSet(SyncPaths) /\ Cardinality(SyncPaths) = 3
<1>1. SyncPaths = {"a", "d", "d/x"} BY DEF SyncPaths, Sync!OneWay!Paths
<1>2. IsFiniteSet({"a"}) /\ Cardinality({"a"}) = 1 BY FS_Singleton
<1>3. IsFiniteSet({"a"} \union {"d"}) /\ Cardinality({"a"} \union {"d"}) = 2 BY <1>2, FS_AddElement
<1> DEFINE two == {"a"} \union {"d"}
<1>4. "d/x" \notin two OBVIOUS
<1> HIDE DEF two
<1>5. IsFiniteSet(two \union {"d/x"}) /\ Cardinality(two \union {"d/x"}) = 3
  BY <1>3, <1>4, FS_AddElement DEF two
<1>6. SyncPaths = two \union {"d/x"} BY <1>1 DEF two
<1> QED BY <1>1, <1>5, <1>6

LEMMA AtMostThree ==
    ASSUME NEW x, NEW y, NEW z
    PROVE  IsFiniteSet({x, y, z}) /\ Cardinality({x, y, z}) <= 3
<1>1. IsFiniteSet({x}) /\ Cardinality({x}) = 1 BY FS_Singleton
<1> DEFINE one == {x}  two == one \union {y}  three == two \union {z}
<1>2. IsFiniteSet(two) /\ Cardinality(two) <= 2 /\ Cardinality(two) \in Int BY <1>1, FS_AddElement
<1> HIDE DEF two
<1>3. IsFiniteSet(three) /\ Cardinality(three) <= 3 BY <1>2, FS_AddElement
<1>4. {x, y, z} = three BY DEF two
<1> HIDE DEF three
<1> QED BY <1>3, <1>4

\* The next step of the plan is one of it.
LEMMA CurrentIs ==
    ASSUME SyncTypes, plan # {}
    PROVE  /\ Current \in plan /\ Current.path \in SyncPaths /\ Current \in Steps
           /\ Sync!OneWay!Left = plan \ {Current} /\ IsFiniteSet(plan \ {Current})
           /\ Cardinality(plan \ {Current}) + 1 = Cardinality(plan) /\ Cardinality(plan) \in Nat
<1>1. \A a \in plan : a \in Steps BY DEF SyncTypes
<1>2. \A a \in plan : Sync!OneWay!Position(a) \in Nat
  <2>1. \A p \in SyncPaths : Sync!OneWay!Place(p) \in Nat BY SyncPathsAre DEF Sync!OneWay!Place
  <2>2. \A a \in plan : a.path \in SyncPaths BY <1>1 DEF Steps
  <2>3. \A a \in plan : Sync!OneWay!Place(a.path) \in Nat BY <2>1, <2>2
  <2> QED BY <2>3 DEF Sync!OneWay!Position
<1> DEFINE places == {Sync!OneWay!Position(a) : a \in plan}
<1>3. places \subseteq Nat /\ places # {} BY <1>2
<1>4. PICK n \in places : \A m \in places : n <= m
  <2> HIDE DEF places
  <2> QED BY <1>3, LeastNumber
<1>5. \E a \in plan : \A b \in plan : Sync!OneWay!Position(a) <= Sync!OneWay!Position(b) BY <1>4
<1>6. Current \in plan BY <1>5 DEF Current, Sync!OneWay!Next1
<1>7. IsFiniteSet(plan) BY DEF SyncTypes
<1>8. IsFiniteSet(plan \ {Current}) /\ Cardinality(plan \ {Current}) = Cardinality(plan) - 1
      /\ Cardinality(plan) \in Nat
  BY <1>6, <1>7, FS_RemoveElement, FS_CardinalityType
<1>9. Current.path \in SyncPaths /\ Current \in Steps BY <1>1, <1>6 DEF Steps
<1> QED BY <1>6, <1>8, <1>9 DEF Sync!OneWay!Left, Current

\* What an entry is.
LEMMA EntryIs ==
    ASSUME NEW e \in TreeEntry
    PROVE  /\ e.kind \in {"absent", "dir", "file"} /\ e.data \in Nat /\ e.mtime \in Nat
           /\ e.kind \in {"absent", "dir"} => e.data = 0
           /\ e.kind = "file" => e \in [kind : {"file"}, data : Nat, mtime : Nat]
BY DEF TreeEntry, Sync!OneWay!Absent, Sync!OneWay!Dir

LEMMA EntriesAre ==
    /\ Sync!OneWay!Absent \in TreeEntry /\ Sync!OneWay!Dir \in TreeEntry
    /\ \A d, m \in Nat : Sync!OneWay!File(d, m) \in TreeEntry
    /\ Sync!OneWay!Absent.kind = "absent" /\ Sync!OneWay!Dir.kind = "dir"
    /\ \A d, m : /\ Sync!OneWay!File(d, m).kind = "file" /\ Sync!OneWay!File(d, m).data = d
                 /\ Sync!OneWay!File(d, m).mtime = m
BY DEF TreeEntry, Sync!OneWay!Absent, Sync!OneWay!Dir, Sync!OneWay!File

LEMMA VisibleIs ==
    ASSUME NEW tree \in Trees
    PROVE  /\ Sync!OneWay!Visible(tree) \in Trees
           /\ \A p \in SyncPaths :
                 Sync!OneWay!Visible(tree)[p] = IF p \in hidden THEN Sync!OneWay!Absent ELSE tree[p]
<1>1. \A p \in SyncPaths : tree[p] \in TreeEntry BY DEF Trees
<1> QED BY <1>1, EntriesAre DEF Sync!OneWay!Visible, Trees, SyncPaths

LEMMA TreesAre ==
    ASSUME SyncTypes
    PROVE  /\ FromTree \in Trees /\ ToTree \in Trees /\ Listed \in Trees /\ SeenTree \in Trees
           /\ \A p \in SyncPaths : /\ FromTree[p] \in TreeEntry /\ ToTree[p] \in TreeEntry
                                   /\ Listed[p] \in TreeEntry
           /\ \A p \in SyncPaths : SeenTree[p] = IF Unseen(p) THEN Sync!OneWay!Absent ELSE ToTree[p]
<1>1. Sync!OneWay!Visible(local) \in Trees BY VisibleIs DEF SyncTypes
<1>2. FromTree \in Trees /\ ToTree \in Trees /\ Listed \in Trees /\ SeenTree \in Trees
  BY <1>1 DEF SyncTypes, FromTree, ToTree, SeenTree, Listed, Sync!OneWay!Source, Sync!OneWay!Target
<1>3. \A p \in SyncPaths : SeenTree[p] = IF Unseen(p) THEN Sync!OneWay!Absent ELSE ToTree[p]
  BY VisibleIs DEF SyncTypes, SeenTree, ToTree, Unseen, Sync!OneWay!Target
<1> QED BY <1>2, <1>3 DEF Trees

\* What a comparison sees.
LEMMA SizeOf == ASSUME NEW d \in Nat
                PROVE  Sync!OneWay!Size(d) \in Nat /\ (Sync!OneWay!Size(d) = 0 <=> d = 0)
BY DEF Sync!OneWay!Size

LEMMA SeenApart ==
    ASSUME NEW x, NEW y, x.mtime \in Nat, y.mtime \in Nat,
           x.mtime + Sync!OneWay!Later <= y.mtime \/ y.mtime + Sync!OneWay!Later <= x.mtime
    PROVE  Sync!OneWay!Changed(x, y)
<1>1. Sync!OneWay!Abs(x.mtime - y.mtime) > Tolerance BY OneWayBounds DEF Sync!OneWay!Abs
<1> QED BY <1>1 DEF Sync!OneWay!Changed

LEMMA PartSeen ==
    ASSUME NEW x, NEW y, x.data \in Nat \ {0}, y.data = 0
    PROVE  Sync!OneWay!Changed(x, y)
<1>1. Sync!OneWay!Size(x.data) # Sync!OneWay!Size(y.data) BY SizeOf
<1> QED BY <1>1 DEF Sync!OneWay!Changed

LEMMA SameSeen ==
    ASSUME NEW x, NEW y, x.mtime \in Nat, x.mtime = y.mtime, x.data = y.data
    PROVE  ~Sync!OneWay!Changed(x, y)
<1>1. x.mtime - y.mtime = 0 BY DEF SyncTypes
<1>2. ~(Sync!OneWay!Abs(x.mtime - y.mtime) > Tolerance) BY <1>1, OneWayBounds DEF Sync!OneWay!Abs
<1> QED BY <1>2 DEF Sync!OneWay!Changed

\* What a comparison plans.
LEMMA DiffIs ==
    ASSUME NEW from \in Trees, NEW to \in Trees, NEW deletes \in BOOLEAN, NEW made,
           made = Sync!OneWay!DiffOneWay(SyncPaths, from, to, deletes)
    PROVE  /\ made \subseteq Steps /\ IsFiniteSet(made) /\ Cardinality(made) <= 3
           /\ \A a \in made :
                 /\ Fits(a, from[a.path])
                 /\ a.type = "copy" => \/ to[a.path].kind = "absent"
                                       \/ Sync!OneWay!Changed(from[a.path], to[a.path])
                 /\ a.type = "mkdir" => to[a.path].kind = "absent"
                 /\ a.type = "delete" => deletes /\ to[a.path].kind # "absent"
           /\ \A p \in SyncPaths :
                 /\ from[p].kind = "file" /\ (to[p].kind = "absent" \/ Sync!OneWay!Changed(from[p], to[p]))
                       => [type |-> "copy", path |-> p] \in made
                 /\ from[p].kind = "dir" /\ to[p].kind = "absent" => [type |-> "mkdir", path |-> p] \in made
                 /\ from[p].kind = "absent" /\ to[p].kind # "absent" /\ deletes
                       => [type |-> "delete", path |-> p] \in made
<1> DEFINE kind(p) == Sync!OneWay!CopyAction(from[p], to[p])
           copy(p) == [type |-> kind(p), path |-> p]
           delete(p) == [type |-> "delete", path |-> p]
<1>1. \A p \in SyncPaths : from[p].kind \in {"absent", "dir", "file"}
  <2>1. \A p \in SyncPaths : from[p] \in TreeEntry BY DEF Trees
  <2> QED BY <2>1, EntryIs
<1>2. \A p \in SyncPaths :
         /\ from[p].kind = "file" => kind(p) = IF to[p].kind = "absent" \/ Sync!OneWay!Changed(from[p], to[p])
                                               THEN "copy" ELSE "skip"
         /\ from[p].kind = "dir" => kind(p) = IF to[p].kind = "absent" THEN "mkdir" ELSE "none"
         /\ from[p].kind = "absent" => kind(p) = "none"
  BY <1>1 DEF Sync!OneWay!CopyAction
<1>3. /\ \A a \in made : \E p \in SyncPaths :
            \/ a = copy(p) /\ kind(p) # "none"
            \/ a = delete(p) /\ deletes /\ to[p].kind # "absent" /\ from[p].kind = "absent"
      /\ \A p \in SyncPaths : kind(p) # "none" => copy(p) \in made
      /\ \A p \in SyncPaths :
            deletes /\ to[p].kind # "absent" /\ from[p].kind = "absent" => delete(p) \in made
  <2> DEFINE copies == {copy(p) : p \in SyncPaths}
             orphans == {p \in SyncPaths : to[p].kind # "absent" /\ from[p].kind = "absent"}
  <2>1. made = {a \in copies : a.type # "none"}
                  \union (IF deletes THEN {delete(p) : p \in orphans} ELSE {})
    BY DEF Sync!OneWay!DiffOneWay, Sync!OneWay!Action
  <2>2. \A p : copy(p).type = kind(p) OBVIOUS
  <2> HIDE DEF kind
  <2> QED BY <2>1, <2>2
<1> HIDE DEF kind
<1>4. \A a \in made : a \in Steps
  BY <1>1, <1>2, <1>3 DEF Steps
<1>5. \A a \in made :
         /\ Fits(a, from[a.path])
         /\ a.type = "copy" => \/ to[a.path].kind = "absent"
                               \/ Sync!OneWay!Changed(from[a.path], to[a.path])
         /\ a.type = "mkdir" => to[a.path].kind = "absent"
         /\ a.type = "delete" => deletes /\ to[a.path].kind # "absent"
  <2> SUFFICES ASSUME NEW a \in made
               PROVE  /\ Fits(a, from[a.path])
                      /\ a.type = "copy" => \/ to[a.path].kind = "absent"
                                            \/ Sync!OneWay!Changed(from[a.path], to[a.path])
                      /\ a.type = "mkdir" => to[a.path].kind = "absent"
                      /\ a.type = "delete" => deletes /\ to[a.path].kind # "absent"
    OBVIOUS
  <2>1. PICK p \in SyncPaths :
            \/ a = copy(p) /\ kind(p) # "none"
            \/ a = delete(p) /\ deletes /\ to[p].kind # "absent" /\ from[p].kind = "absent"
    BY <1>3
  <2>2. CASE a = copy(p) /\ kind(p) # "none" BY <1>1, <1>2, <2>2 DEF Fits
  <2>3. CASE a = delete(p) /\ deletes /\ to[p].kind # "absent" /\ from[p].kind = "absent"
    BY <2>3 DEF Fits
  <2> QED BY <2>1, <2>2, <2>3
<1> DEFINE one(p) == IF from[p].kind = "absent" THEN delete(p) ELSE copy(p)
           all == {one("a"), one("d"), one("d/x")}
<1>6. made \subseteq all
  <2>1. \A a \in made : \E p \in SyncPaths : a = one(p) BY <1>2, <1>3
  <2> HIDE DEF one
  <2> QED BY <2>1, SyncPathsAre
<1>7. IsFiniteSet(all) /\ Cardinality(all) <= 3
  <2> HIDE DEF one
  <2> QED BY AtMostThree
<1>8. IsFiniteSet(made) /\ Cardinality(made) <= 3
  <2> HIDE DEF all
  <2>1. IsFiniteSet(made) /\ Cardinality(made) <= Cardinality(all) BY <1>6, <1>7, FS_Subset
  <2>2. Cardinality(made) \in Nat /\ Cardinality(all) \in Nat BY <1>7, <2>1, FS_CardinalityType
  <2> QED BY <1>7, <2>1, <2>2
<1>9. \A p \in SyncPaths :
         /\ from[p].kind = "file" /\ (to[p].kind = "absent" \/ Sync!OneWay!Changed(from[p], to[p]))
               => [type |-> "copy", path |-> p] \in made
         /\ from[p].kind = "dir" /\ to[p].kind = "absent" => [type |-> "mkdir", path |-> p] \in made
         /\ from[p].kind = "absent" /\ to[p].kind # "absent" /\ deletes
               => [type |-> "delete", path |-> p] \in made
  BY <1>2, <1>3
<1> QED BY <1>4, <1>5, <1>8, <1>9

\* What is copied is visible.
LEMMA SourceOf ==
    ASSUME SyncTypes, SourceTimes, NEW p \in SyncPaths, Listed[p].kind = "file"
    PROVE  Sync!OneWay!Source(local, remote)[p] = FromTree[p]
<1>1. CASE down BY <1>1 DEF FromTree, Sync!OneWay!Source
<1>2. CASE ~down
  <2>1. p \notin hidden BY <1>2 DEF SourceTimes
  <2> QED BY <1>2, <2>1, VisibleIs DEF SyncTypes, FromTree, Sync!OneWay!Source
<1> QED BY <1>1, <1>2

\* A step changes the target at one path; a download makes the directory of its
\* file, which the source has.
OnlyAt(h) ==
    \A p \in SyncPaths : p # h => \/ ToTree'[p] = ToTree[p]
                                  \/ FromTree[p].kind = "dir" /\ ToTree'[p] = Sync!OneWay!Dir
InTrees == local' \in Trees /\ remote' \in Trees
SourceRests == down' = down /\ hidden' = hidden /\ FromTree' = FromTree /\ InTrees

LEMMA ListsRest ==
    ASSUME down' = down, localList' = localList, remoteList' = remoteList PROVE Listed' = Listed
BY DEF Listed, Sync!OneWay!Source

LEMMA TreesRest ==
    ASSUME SyncTypes, down' = down, hidden' = hidden, local' = local, remote' = remote
    PROVE  SourceRests /\ ToTree' = ToTree /\ \A h : OnlyAt(h)
BY DEF SyncTypes, SourceRests, InTrees, OnlyAt, FromTree, ToTree, Sync!OneWay!Source, Sync!OneWay!Target,
       Sync!OneWay!Visible

LEMMA InTargetIs ==
    ASSUME SyncTypes, down' = down, hidden' = hidden, NEW h \in SyncPaths, NEW e \in TreeEntry, Sync!OneWay!InTarget(h, e)
    PROVE  SourceRests /\ OnlyAt(h) /\ ToTree'[h] = e
<1>1. /\ local \in Trees /\ remote \in Trees /\ down \in BOOLEAN
      /\ \A t \in Trees : /\ [t EXCEPT ![h] = e] \in Trees /\ [t EXCEPT ![h] = e][h] = e
                          /\ \A p \in SyncPaths : p # h => [t EXCEPT ![h] = e][p] = t[p]
  BY DEF SyncTypes, Trees
<1>2. CASE down
  <2>1. local' = [local EXCEPT ![h] = e] /\ remote' = remote BY <1>2 DEF Sync!OneWay!InTarget
  <2>2. FromTree' = FromTree /\ ToTree' = local' /\ ToTree = local
    BY <1>2, <2>1 DEF FromTree, ToTree, Sync!OneWay!Source, Sync!OneWay!Target, Sync!OneWay!Visible
  <2> QED BY <1>1, <2>1, <2>2 DEF SourceRests, InTrees, OnlyAt
<1>3. CASE ~down
  <2>1. remote' = [remote EXCEPT ![h] = e] /\ local' = local BY <1>3 DEF Sync!OneWay!InTarget
  <2>2. FromTree' = FromTree /\ ToTree' = remote' /\ ToTree = remote
    BY <1>3, <2>1 DEF FromTree, ToTree, Sync!OneWay!Source, Sync!OneWay!Target, Sync!OneWay!Visible
  <2> QED BY <1>1, <2>1, <2>2 DEF SourceRests, InTrees, OnlyAt
<1> QED BY <1>1, <1>2, <1>3

LEMMA WrittenIs ==
    ASSUME SyncTypes, down' = down, hidden' = hidden, plan # {}, NEW data \in Nat, Sync!OneWay!Written(data),
           FromTree[Current.path].kind = "file", down => Sync!OneWay!WellFormed(FromTree)
    PROVE  /\ SourceRests /\ OnlyAt(Current.path)
           /\ ToTree'[Current.path] = Sync!OneWay!File(data, now)
<1>1. Current.path \in SyncPaths BY CurrentIs
<1>2. now \in Nat /\ Sync!OneWay!File(data, now) \in TreeEntry BY EntriesAre DEF SyncTypes
<1>3. CASE ~down
  <2>1. Sync!OneWay!InTarget(Current.path, Sync!OneWay!File(data, now))
    BY <1>3 DEF Sync!OneWay!Written, Current
  <2> QED BY <1>1, <1>2, <2>1, InTargetIs
<1>4. CASE down
  <2> DEFINE h == Current.path
  <2>1. local' = [q \in SyncPaths |-> CASE q = h -> Sync!OneWay!File(data, now)
                                        [] q = Sync!OneWay!Parent[h] -> Sync!OneWay!Dir
                                        [] OTHER -> local[q]]
        /\ remote' = remote
    BY <1>4 DEF Sync!OneWay!Written, Current, SyncPaths
  <2> HIDE DEF h
  <2>2. h \in SyncPaths BY <1>1 DEF h
  <2>3. FromTree' = FromTree /\ ToTree' = local' /\ ToTree = local /\ FromTree = remote
    BY <1>4, <2>1 DEF FromTree, ToTree, Sync!OneWay!Source, Sync!OneWay!Target
  <2>4. \A q \in SyncPaths : local[q] \in TreeEntry BY DEF SyncTypes, Trees
  <2>5. \A q \in SyncPaths : local'[q] = IF q = h THEN Sync!OneWay!File(data, now)
                                         ELSE IF q = Sync!OneWay!Parent[h] THEN Sync!OneWay!Dir ELSE local[q]
    <3>1. Sync!OneWay!Parent[h] # h BY <2>2, SyncPathsAre DEF Sync!OneWay!Parent, SyncPaths
    <3> QED BY <2>1, <3>1
  <2>6. local' \in Trees
    <3>1. local' = [q \in SyncPaths |-> local'[q]] BY <2>1
    <3>2. \A q \in SyncPaths : local'[q] \in TreeEntry BY <1>2, <2>4, <2>5, EntriesAre
    <3> QED BY <3>1, <3>2 DEF Trees
  <2>7. \A q \in SyncPaths : q = Sync!OneWay!Parent[h] => FromTree[q].kind = "dir"
    <3>1. FromTree[h].kind # "absent" BY DEF h
    <3>2. Sync!OneWay!HasParent(FromTree, h) BY <1>4, <2>2, <3>1 DEF Sync!OneWay!WellFormed, SyncPaths
    <3> QED BY <3>2 DEF Sync!OneWay!HasParent, SyncPaths
  <2>8. OnlyAt(h) BY <2>3, <2>5, <2>7 DEF OnlyAt
  <2>9. ToTree'[h] = Sync!OneWay!File(data, now) BY <2>2, <2>3, <2>5
  <2> QED BY <1>4, <2>1, <2>3, <2>6, <2>8, <2>9 DEF SourceRests, InTrees, SyncTypes, h
<1> QED BY <1>3, <1>4 DEF SyncTypes

\* The clock goes on, and the source is as it was listed, or as before.
LEMMA TimesHold ==
    ASSUME SyncTypes, SourceTimes, FromTree' = FromTree, down' = down, hidden' = hidden, now <= now', now' \in Nat,
           Listed' \in {Listed, FromTree, Sync!OneWay!Nothing}
    PROVE  SourceTimes'
<1>1. \A p \in SyncPaths : /\ FromTree[p] \in TreeEntry /\ Listed[p] \in TreeEntry
                           /\ FromTree[p].mtime \in Nat /\ Listed[p].mtime \in Nat
  BY TreesAre, EntryIs
<1>2. now \in Nat BY DEF SyncTypes
<1>3. \A t \in Nat : Before(t, now) => Before(t, now') BY <1>2, OneWayBounds DEF Before
<1>4. down' => Sync!OneWay!WellFormed(FromTree)'
  BY DEF SourceTimes, Sync!OneWay!WellFormed, Sync!OneWay!HasParent
<1>5. \A p \in SyncPaths : FromTree'[p].kind = "file" => FromTree'[p].data >= 1 /\ Before(FromTree'[p].mtime, now')
  BY <1>1, <1>3 DEF SourceTimes
<1>6. ASSUME NEW p \in SyncPaths, Listed'[p].kind = "file"
      PROVE  /\ Before(Listed'[p].mtime, now')
             /\ \/ FromTree'[p] = Listed'[p] \/ FromTree'[p].kind = "absent"
                \/ /\ FromTree'[p].kind = "file"
                   /\ Listed'[p].mtime + Sync!OneWay!Later <= FromTree'[p].mtime
  <2>1. CASE Listed' = Listed BY <1>1, <1>3, <1>6, <2>1 DEF SourceTimes
  <2>2. CASE Listed' = FromTree BY <1>1, <1>3, <1>6, <2>2 DEF SourceTimes
  <2>3. Listed' # Sync!OneWay!Nothing
    BY <1>6, EntriesAre DEF Sync!OneWay!Nothing, SyncPaths
  <2> QED BY <2>1, <2>2, <2>3
<1>7. ASSUME ~down, NEW p \in SyncPaths, p \in hidden PROVE Listed'[p].kind = "absent"
  <2>1. Listed[p].kind = "absent" BY <1>7 DEF SourceTimes
  <2>2. FromTree = Sync!OneWay!Visible(local) /\ local \in Trees BY <1>7 DEF FromTree, Sync!OneWay!Source, SyncTypes
  <2>3. FromTree[p] = Sync!OneWay!Absent BY <1>7, <2>2, VisibleIs
  <2>4. Sync!OneWay!Nothing[p] = Sync!OneWay!Absent BY DEF Sync!OneWay!Nothing, SyncPaths
  <2> QED BY <2>1, <2>3, <2>4, EntriesAre
<1> QED BY <1>4, <1>5, <1>6, <1>7 DEF SourceTimes

\* A path of the target at which its contents are told from the source's.
Told(p) ==
    ToTree[p].kind = "file" =>
        /\ ToTree[p].mtime <= now /\ (ToTree[p].data = 0 \/ Before(ToTree[p].mtime, now))
        /\ FromTree[p].kind = "file" /\ ~Sync!OneWay!Changed(FromTree[p], ToTree[p]) =>
              ToTree[p].data = FromTree[p].data

LEMMA ToldAll == SizesTell <=> \A p \in SyncPaths : Told(p)
BY DEF SizesTell, Told

LEMMA SizesHold ==
    ASSUME SyncTypes, SizesTell, FromTree' = FromTree, now <= now', now' \in Nat, NEW h,
           OnlyAt(h), h \in SyncPaths => Told(h)'
    PROVE  SizesTell'
<1> SUFFICES ASSUME NEW p \in SyncPaths, p # h PROVE Told(p)' BY ToldAll DEF SizesTell, Told
<1>1. Told(p) BY ToldAll
<1>2. ToTree[p].mtime \in Nat /\ now \in Nat
  <2>1. ToTree[p] \in TreeEntry BY TreesAre
  <2> QED BY <2>1, EntryIs DEF SyncTypes
<1>3. CASE ToTree'[p] = ToTree[p]
  <2>1. Before(ToTree[p].mtime, now) => Before(ToTree[p].mtime, now') BY <1>2, OneWayBounds DEF Before
  <2> QED BY <1>1, <1>2, <1>3, <2>1 DEF Told
<1>4. CASE ToTree'[p] = Sync!OneWay!Dir BY <1>4, EntriesAre DEF Told
<1> QED BY <1>3, <1>4 DEF OnlyAt

LEMMA SettledElsewhere ==
    ASSUME FromTree' = FromTree, down' = down, hidden' = hidden, deleteOrphans' = deleteOrphans, NEW h, OnlyAt(h),
           NEW p \in SyncPaths, p # h, Settled(p)
    PROVE  Settled(p)'
<1>1. CASE ToTree'[p] = ToTree[p] BY <1>1 DEF Settled, Unseen
<1>2. CASE FromTree[p].kind = "dir" /\ ToTree'[p] = Sync!OneWay!Dir BY <1>2, EntriesAre DEF Settled
<1> QED BY <1>1, <1>2 DEF OnlyAt

\* A step of the plan is carried out, or fails and is counted.
Taken ==
    /\ syncPc \in {"execute", "stamp"} /\ syncPc' = "execute" /\ plan # {}
    /\ plan' = plan \ {Current} /\ failed' \in {failed, failed + 1}
    /\ down' = down /\ deleteOrphans' = deleteOrphans /\ hidden' = hidden /\ localList' = localList /\ remoteList' = remoteList
    /\ dirty' = dirty /\ mirrored' = mirrored /\ exitCode' = exitCode /\ now' = now

LEMMA TakenKeeps ==
    ASSUME OneWayInv, Taken, SourceRests, NEW h \in SyncPaths, h = Current.path, OnlyAt(h), Told(h)',
           ~dirty /\ failed' = 0 => Settled(h)' \/ Pending(h)'
    PROVE  OneWayInv'
<1>1. /\ SyncTypes /\ SourceTimes /\ SizesTell /\ RunKnown /\ FromTree' = FromTree /\ now' = now /\ now \in Nat
      /\ InTrees /\ down' = down /\ hidden' = hidden
  BY DEF OneWayInv, SyncTypes, Taken, SourceRests
<1>2. /\ Current \in plan /\ IsFiniteSet(plan')
      /\ Cardinality(plan') + 1 = Cardinality(plan) /\ Cardinality(plan) \in Nat /\ Cardinality(plan') \in Nat
  BY <1>1, CurrentIs, FS_CardinalityType DEF Taken
<1>3. Listed' = Listed BY ListsRest DEF Taken
<1>4. SyncTypes'
  <2>1. failed' \in Nat /\ Cardinality(plan') + failed' <= 3 BY <1>1, <1>2 DEF SyncTypes, Taken
  <2>2. plan' \subseteq Steps BY <1>1 DEF SyncTypes, Taken
  <2> QED BY <1>1, <1>2, <2>1, <2>2 DEF SyncTypes, Taken, InTrees
<1>5. SourceTimes' BY <1>1, <1>3, TimesHold
<1>6. SizesTell' BY <1>1, SizesHold
<1>7. StampKnown' BY DEF StampKnown, Taken
<1>8. RunKnown'
  <2>1. Running' /\ Running /\ dirty' = dirty /\ syncPc' # "remote" BY DEF Running, Taken
  <2>2. \A a \in plan' : Fits(a, Listed'[a.path]) BY <1>1, <1>3, <2>1 DEF RunKnown, Taken
  <2>3. ~dirty => FromTree' = Listed' BY <1>1, <1>3, <2>1 DEF RunKnown
  <2>4. ASSUME ~dirty, failed' = 0, NEW p \in SyncPaths PROVE Settled(p)' \/ Pending(p)'
    <3>1. CASE p = h BY <2>4, <3>1
    <3>2. CASE p # h
      <4>1. failed = 0 BY <1>1, <2>4 DEF SyncTypes, Taken
      <4>2. Settled(p) \/ Pending(p) BY <1>1, <2>1, <2>4, <4>1 DEF RunKnown
      <4>3. CASE Settled(p) BY <1>1, <3>2, <4>3, SettledElsewhere DEF Taken
      <4>4. CASE Pending(p) BY <3>2, <4>4 DEF Pending, Taken
      <4> QED BY <4>2, <4>3, <4>4
    <3> QED BY <3>1, <3>2
  <2> QED BY <2>1, <2>2, <2>3, <2>4 DEF RunKnown
<1> QED BY <1>4, <1>5, <1>6, <1>7, <1>8 DEF OneWayInv

\* A step of the plan at hand, as its handler knows it.
LEMMA AtHand ==
    ASSUME OneWayInv, Running, plan # {}, NEW h, h = Current.path
    PROVE  /\ SyncTypes /\ Current \in plan /\ h \in SyncPaths
           /\ Sync!OneWay!Next1 = Current /\ Sync!OneWay!Left = plan \ {Current}
           /\ Fits(Current, Listed[h]) /\ Told(h)
           /\ ~dirty => FromTree = Listed
           /\ ToTree[h] \in TreeEntry /\ FromTree[h] \in TreeEntry
           /\ Listed[h] \in TreeEntry
           /\ down => Sync!OneWay!WellFormed(FromTree)
           /\ Listed[h].kind = "file" => Sync!OneWay!Source(local, remote)[h] = FromTree[h]
<1>1. SyncTypes /\ RunKnown /\ SizesTell BY DEF OneWayInv
<1>2. Current \in plan /\ h \in SyncPaths /\ Sync!OneWay!Left = plan \ {Current}
  BY <1>1, CurrentIs
<1>3. Fits(Current, Listed[h]) /\ (~dirty => FromTree = Listed) BY <1>1, <1>2 DEF RunKnown
<1>4. Told(h) BY <1>1, <1>2, ToldAll
<1>5. /\ ToTree[h] \in TreeEntry /\ FromTree[h] \in TreeEntry
      /\ Listed[h] \in TreeEntry
  BY <1>1, <1>2, TreesAre
<1>6. down => Sync!OneWay!WellFormed(FromTree) BY DEF OneWayInv, SourceTimes
<1>7. Listed[h].kind = "file" => Sync!OneWay!Source(local, remote)[h] = FromTree[h]
  BY <1>1, <1>2, SourceOf DEF OneWayInv
<1> QED BY <1>1, <1>2, <1>3, <1>4, <1>5, <1>6, <1>7 DEF Current

LEMMA SkipKeeps == ASSUME OneWayInv, Sync!OneWay!SkipFile PROVE OneWayInv'
<1>1. Running /\ plan # {} /\ Current.type = "skip"
  BY DEF Sync!OneWay!SkipFile, Sync!OneWay!Executes, Running, Current
<1>2. PICK h : h = Current.path OBVIOUS
<1>3. SyncTypes /\ Current \in plan /\ Sync!OneWay!Left = plan \ {Current} /\ Told(h) /\ h \in SyncPaths
      /\ (~dirty => FromTree = Listed)
  BY <1>1, <1>2, AtHand
<1>4. Taken /\ local' = local /\ remote' = remote /\ failed' = failed
  BY <1>1, <1>3 DEF Sync!OneWay!SkipFile, Sync!OneWay!Executes, Taken, Sync!OneWay!options, Sync!OneWay!trees,
                    Sync!OneWay!lists, Sync!OneWay!counts
<1>5. down' = down /\ deleteOrphans' = deleteOrphans /\ hidden' = hidden /\ now' = now BY <1>4 DEF Taken
<1>6. SourceRests /\ ToTree' = ToTree /\ OnlyAt(h) BY <1>3, <1>4, <1>5, TreesRest
<1>7. FromTree' = FromTree BY <1>6 DEF SourceRests
<1>8. Told(h)' BY <1>3, <1>5, <1>6, <1>7 DEF Told, Before
<1>9. ~dirty /\ failed' = 0 => Settled(h)' \/ Pending(h)'
  <2> SUFFICES ASSUME ~dirty, failed' = 0 PROVE Settled(h)' \/ Pending(h)' OBVIOUS
  <2>1. Settled(h) \/ Pending(h) BY <1>1, <1>3, <1>4 DEF OneWayInv, RunKnown
  <2>2. Settled(h) => Settled(h)' BY <1>5, <1>6, <1>7 DEF Settled, Unseen
  <2>3. Pending(h) => Pending(h)' BY <1>1, <1>4 DEF Pending, Taken
  <2> QED BY <2>1, <2>2, <2>3
<1> QED BY <1>2, <1>3, <1>4, <1>6, <1>8, <1>9, TakenKeeps

\* A step that fails is counted, and the target as it was.
LEMMA FailureKeeps ==
    ASSUME OneWayInv, Running, plan # {}, Taken, local' = local, remote' = remote, failed' = failed + 1
    PROVE  OneWayInv'
<1>1. PICK h : h = Current.path OBVIOUS
<1>2. SyncTypes /\ Told(h) /\ h \in SyncPaths BY <1>1, AtHand
<1>3. down' = down /\ deleteOrphans' = deleteOrphans /\ hidden' = hidden /\ now' = now BY DEF Taken
<1>4. SourceRests /\ ToTree' = ToTree /\ OnlyAt(h) BY <1>2, <1>3, TreesRest
<1>5. FromTree' = FromTree BY <1>4 DEF SourceRests
<1>6. Told(h)' BY <1>2, <1>3, <1>4, <1>5 DEF Told, Before
<1>7. failed' # 0 BY <1>2 DEF SyncTypes
<1> QED BY <1>1, <1>2, <1>4, <1>6, <1>7, TakenKeeps

LEMMA CopyImpossibleKeeps == ASSUME OneWayInv, Sync!OneWay!CopyImpossible PROVE OneWayInv'
<1>1. Running /\ plan # {}
  BY DEF Sync!OneWay!CopyImpossible, Sync!OneWay!Executes, Running
<1>2. Sync!OneWay!Left = plan \ {Current} BY <1>1, AtHand
<1>3. Taken /\ local' = local /\ remote' = remote /\ failed' = failed + 1
  BY <1>1, <1>2 DEF Sync!OneWay!CopyImpossible, Sync!OneWay!Executes, Sync!OneWay!Failure, Taken,
                    Sync!OneWay!options, Sync!OneWay!trees, Sync!OneWay!lists, Sync!OneWay!counts
<1> QED BY <1>1, <1>3, FailureKeeps

LEMMA ActionFailsKeeps == ASSUME OneWayInv, Sync!OneWay!ActionFails PROVE OneWayInv'
<1>1. Running /\ plan # {} BY DEF Sync!OneWay!ActionFails, Running
<1>2. Sync!OneWay!Left = plan \ {Current} BY <1>1, AtHand
<1>3. Taken /\ local' = local /\ remote' = remote /\ failed' = failed + 1
  BY <1>1, <1>2 DEF Sync!OneWay!ActionFails, Sync!OneWay!Failure, Taken,
                    Sync!OneWay!options, Sync!OneWay!trees, Sync!OneWay!lists
<1> QED BY <1>1, <1>3, FailureKeeps

\* A transfer that breaks leaves a part, which no comparison takes for the file.
LEMMA CopyBreaksKeeps == ASSUME OneWayInv, Sync!OneWay!CopyBreaks PROVE OneWayInv'
<1>1. Running /\ plan # {}
  BY DEF Sync!OneWay!CopyBreaks, Sync!OneWay!Executes, Running
<1>2. PICK h : h = Current.path OBVIOUS
<1>3. /\ SyncTypes /\ Sync!OneWay!Left = plan \ {Current} /\ h \in SyncPaths
      /\ (down => Sync!OneWay!WellFormed(FromTree)) /\ Sync!OneWay!Next1 = Current /\ Fits(Current, Listed[h])
      /\ Listed[h].kind = "file" => Sync!OneWay!Source(local, remote)[h] = FromTree[h]
  BY <1>1, <1>2, AtHand
<1>4. Taken /\ failed' = failed + 1 /\ Sync!OneWay!Written(0)
  BY <1>1, <1>3 DEF Sync!OneWay!CopyBreaks, Sync!OneWay!Executes, Sync!OneWay!Failure, Taken,
                    Sync!OneWay!options, Sync!OneWay!lists
<1>5. FromTree[h].kind = "file"
  <2>1. Listed[h].kind = "file" BY <1>3 DEF Sync!OneWay!CopyBreaks, Sync!OneWay!Executes, Fits
  <2> QED BY <1>2, <1>3, <2>1 DEF Sync!OneWay!CopyBreaks, Sync!OneWay!CanCopy
<1>6. down' = down /\ hidden' = hidden /\ now' = now /\ now \in Nat BY <1>3, <1>4 DEF Taken, SyncTypes
<1>7. SourceRests /\ OnlyAt(h) /\ ToTree'[h] = Sync!OneWay!File(0, now)
  BY <1>1, <1>2, <1>3, <1>4, <1>5, <1>6, WrittenIs
<1>8. Told(h)'
  <2>1. ToTree'[h].data = 0 /\ ToTree'[h].mtime = now BY <1>7, EntriesAre
  <2>2. FromTree'[h] = FromTree[h] /\ FromTree[h].data \in Nat \ {0}
    <3>1. FromTree[h] \in TreeEntry BY <1>3, TreesAre
    <3>2. FromTree[h].data >= 1 BY <1>3, <1>5 DEF OneWayInv, SourceTimes
    <3> QED BY <1>7, <3>1, <3>2, EntryIs DEF SourceRests
  <2>3. Sync!OneWay!Changed(FromTree'[h], ToTree'[h]) BY <2>1, <2>2, PartSeen
  <2> QED BY <1>6, <2>1, <2>3 DEF Told
<1>9. failed' # 0 BY <1>3, <1>4 DEF SyncTypes
<1> QED BY <1>2, <1>3, <1>4, <1>7, <1>8, <1>9, TakenKeeps

LEMMA MakeDirKeeps == ASSUME OneWayInv, Sync!OneWay!MakeDir PROVE OneWayInv'
<1>1. Running /\ plan # {} /\ Current.type = "mkdir"
  BY DEF Sync!OneWay!MakeDir, Sync!OneWay!Executes, Running, Current
<1>2. PICK h : h = Current.path OBVIOUS
<1>3. /\ SyncTypes /\ Sync!OneWay!Left = plan \ {Current} /\ h \in SyncPaths
      /\ Sync!OneWay!Next1 = Current /\ Fits(Current, Listed[h]) /\ (~dirty => FromTree = Listed)
  BY <1>1, <1>2, AtHand
<1>4. /\ failed' \in {failed, failed + 1} => Taken
      /\ \/ Sync!OneWay!InTarget(h, Sync!OneWay!Dir) /\ failed' = failed
         \/ failed' = failed + 1 /\ local' = local /\ remote' = remote
         \/ failed' = failed /\ local' = local /\ remote' = remote /\ ToTree[h].kind = "dir"
  BY <1>1, <1>2, <1>3 DEF ToTree, Sync!OneWay!MakeDir, Sync!OneWay!Executes, Sync!OneWay!Failure, Taken,
                    Sync!OneWay!options, Sync!OneWay!trees, Sync!OneWay!lists, Sync!OneWay!counts
<1>5. CASE failed' = failed + 1 /\ local' = local /\ remote' = remote
  BY <1>1, <1>4, <1>5, FailureKeeps
<1>6. CASE Sync!OneWay!InTarget(h, Sync!OneWay!Dir) /\ failed' = failed
  <2>1. Taken BY <1>4, <1>6
  <2>2. down' = down /\ deleteOrphans' = deleteOrphans /\ hidden' = hidden BY <2>1 DEF Taken
  <2>3. SourceRests /\ OnlyAt(h) /\ ToTree'[h] = Sync!OneWay!Dir
    BY <1>3, <1>6, <2>2, EntriesAre, InTargetIs
  <2>4. Told(h)' BY <2>3, EntriesAre DEF Told
  <2>5. ~dirty => Settled(h)'
    <3>1. ~dirty => FromTree'[h].kind = "dir" BY <1>1, <1>3, <2>3 DEF Fits, SourceRests
    <3> QED BY <2>3, <3>1, EntriesAre DEF Settled
  <2> QED BY <1>2, <1>3, <2>1, <2>3, <2>4, <2>5, TakenKeeps
<1>7. CASE failed' = failed /\ local' = local /\ remote' = remote /\ ToTree[h].kind = "dir"
  <2>1. Taken BY <1>4, <1>7
  <2>2. down' = down /\ deleteOrphans' = deleteOrphans /\ hidden' = hidden BY <2>1 DEF Taken
  <2>3. SourceRests /\ OnlyAt(h) /\ ToTree' = ToTree BY <1>3, <1>7, <2>2, TreesRest
  <2>4. Told(h)' BY <1>7, <2>3 DEF Told
  <2>5. ~dirty => Settled(h)'
    <3>1. ~dirty => FromTree'[h].kind = "dir" BY <1>1, <1>3, <2>3 DEF Fits, SourceRests
    <3> QED BY <1>7, <2>3, <3>1 DEF Settled
  <2> QED BY <1>2, <1>3, <2>1, <2>3, <2>4, <2>5, TakenKeeps
<1> QED BY <1>4, <1>5, <1>6, <1>7

LEMMA DeleteKeeps == ASSUME OneWayInv, Sync!OneWay!Delete PROVE OneWayInv'
<1>1. Running /\ plan # {} /\ Current.type = "delete"
  BY DEF Sync!OneWay!Delete, Sync!OneWay!Executes, Running, Current
<1>2. PICK h : h = Current.path OBVIOUS
<1>3. /\ SyncTypes /\ Sync!OneWay!Left = plan \ {Current} /\ h \in SyncPaths
      /\ Sync!OneWay!Next1 = Current /\ Fits(Current, Listed[h]) /\ (~dirty => FromTree = Listed)
  BY <1>1, <1>2, AtHand
<1>4. /\ failed' \in {failed, failed + 1} => Taken
      /\ \/ Sync!OneWay!InTarget(h, Sync!OneWay!Absent) /\ failed' = failed
         \/ failed' = failed + 1 /\ local' = local /\ remote' = remote
  BY <1>1, <1>2, <1>3 DEF Sync!OneWay!Delete, Sync!OneWay!Executes, Sync!OneWay!Failure, Taken,
                    Sync!OneWay!options, Sync!OneWay!trees, Sync!OneWay!lists, Sync!OneWay!counts
<1>5. CASE failed' = failed + 1 /\ local' = local /\ remote' = remote
  BY <1>1, <1>4, <1>5, FailureKeeps
<1>6. CASE Sync!OneWay!InTarget(h, Sync!OneWay!Absent) /\ failed' = failed
  <2>1. Taken BY <1>4, <1>6
  <2>2. down' = down /\ deleteOrphans' = deleteOrphans /\ hidden' = hidden BY <2>1 DEF Taken
  <2>3. SourceRests /\ OnlyAt(h) /\ ToTree'[h] = Sync!OneWay!Absent
    BY <1>3, <1>6, <2>2, EntriesAre, InTargetIs
  <2>4. Told(h)' BY <2>3, EntriesAre DEF Told
  <2>5. ~dirty => Settled(h)'
    <3>1. ~dirty => FromTree'[h].kind = "absent" BY <1>1, <1>3, <2>3 DEF Fits, SourceRests
    <3> QED BY <2>3, <3>1, EntriesAre DEF Settled
  <2> QED BY <1>2, <1>3, <2>1, <2>3, <2>4, <2>5, TakenKeeps
<1> QED BY <1>4, <1>5, <1>6

\* The copy of the file gets the time it was listed with: if the source was
\* edited since, it is apart from that.
LEMMA StampKeeps == ASSUME OneWayInv, Sync!OneWay!Stamp PROVE OneWayInv'
<1>1. syncPc = "stamp" /\ Running BY DEF Sync!OneWay!Stamp, Running
<1>2. PICK h : h = Current.path OBVIOUS
<1>3. /\ plan # {} /\ Current.type = "copy" /\ ToTree[h].kind = "file"
      /\ ToTree[h].data = 0 \/ Before(ToTree[h].mtime, now)
      /\ FromTree[h] = Listed[h] => ToTree[h].data = FromTree[h].data
  BY <1>1, <1>2 DEF OneWayInv, StampKnown
<1>4. /\ SyncTypes /\ Sync!OneWay!Left = plan \ {Current} /\ h \in SyncPaths /\ Told(h)
      /\ Sync!OneWay!Next1 = Current /\ Fits(Current, Listed[h]) /\ (~dirty => FromTree = Listed)
      /\ ToTree[h] \in TreeEntry /\ FromTree[h] \in TreeEntry /\ Listed[h] \in TreeEntry
  BY <1>1, <1>2, <1>3, AtHand
<1>5. Taken /\ failed' = failed
  BY <1>1, <1>3, <1>4 DEF Sync!OneWay!Stamp, Taken, Sync!OneWay!options, Sync!OneWay!lists, Sync!OneWay!counts
<1>6. down' = down /\ deleteOrphans' = deleteOrphans /\ hidden' = hidden /\ now' = now /\ now \in Nat
  BY <1>4, <1>5 DEF Taken, SyncTypes
<1>7. Listed[h].kind = "file" BY <1>3, <1>4 DEF Fits
<1>8. /\ Before(Listed[h].mtime, now)
      /\ \/ FromTree[h] = Listed[h] \/ FromTree[h].kind = "absent"
         \/ /\ FromTree[h].kind = "file"
            /\ Listed[h].mtime + Sync!OneWay!Later <= FromTree[h].mtime
  BY <1>4, <1>7 DEF OneWayInv, SourceTimes
<1>9. CASE ~KeepsTimes
  <2>1. local' = local /\ remote' = remote BY <1>9 DEF Sync!OneWay!Stamp, Sync!OneWay!trees
  <2>2. SourceRests /\ ToTree' = ToTree /\ OnlyAt(h) BY <1>4, <1>6, <2>1, TreesRest
  <2>3. FromTree' = FromTree BY <2>2 DEF SourceRests
  <2>4. Told(h)' BY <1>4, <1>6, <2>2, <2>3 DEF Told, Before
  <2>5. ~dirty => Settled(h)' BY <1>3, <1>4, <1>7, <1>9, <2>2, <2>3 DEF Settled
  <2> QED BY <1>2, <1>4, <1>5, <2>2, <2>4, <2>5, TakenKeeps
<1>10. CASE KeepsTimes
  <2> DEFINE e == [ToTree[h] EXCEPT !.mtime = Listed[h].mtime]
  <2>1. Sync!OneWay!InTarget(h, e)
    BY <1>2, <1>4, <1>10 DEF Sync!OneWay!Stamp, Sync!OneWay!StampTime, ToTree, Listed
  <2>2. e \in TreeEntry /\ e.kind = "file" /\ e.data = ToTree[h].data /\ e.mtime = Listed[h].mtime
    <3>1. ToTree[h] \in [kind : {"file"}, data : Nat, mtime : Nat] /\ Listed[h].mtime \in Nat
      BY <1>3, <1>4, EntryIs
    <3> QED BY <3>1 DEF TreeEntry
  <2> HIDE DEF e
  <2>3. SourceRests /\ OnlyAt(h) /\ ToTree'[h] = e BY <1>4, <1>6, <2>1, <2>2, InTargetIs
  <2>4. FromTree' = FromTree BY <2>3 DEF SourceRests
  <2>5. FromTree[h].mtime \in Nat /\ Listed[h].mtime \in Nat BY <1>4, EntryIs
  <2>6. Told(h)'
    <3>0. \A t \in Nat : Before(t, now) => t <= now BY <1>6, OneWayBounds DEF Before
    <3>1. Before(e.mtime, now') /\ e.mtime <= now BY <1>6, <1>8, <2>2, <2>5, <3>0
    <3>2. ASSUME FromTree[h].kind = "file", ~Sync!OneWay!Changed(FromTree[h], e)
          PROVE  e.data = FromTree[h].data
      <4>1. ~(Listed[h].mtime + Sync!OneWay!Later <= FromTree[h].mtime)
        BY <2>2, <2>5, <3>2, SeenApart
      <4> QED BY <1>3, <1>8, <2>2, <3>2, <4>1
    <3> QED BY <1>6, <2>3, <2>4, <3>1, <3>2 DEF Told
  <2>7. ~dirty => Settled(h)'
    <3> SUFFICES ASSUME ~dirty PROVE Settled(h)' OBVIOUS
    <3>1. FromTree[h] = Listed[h] BY <1>4
    <3>2. e.data = FromTree[h].data /\ e.mtime = FromTree[h].mtime BY <1>3, <2>2, <3>1
    <3>3. ~Sync!OneWay!Changed(FromTree[h], e) BY <2>5, <3>2, SameSeen
    <3> QED BY <1>7, <2>2, <2>3, <2>4, <3>1, <3>2, <3>3 DEF Settled
  <2> QED BY <1>2, <1>4, <1>5, <2>3, <2>6, <2>7, TakenKeeps
<1> QED BY <1>9, <1>10

\* A copy brings what the source holds, and its time is later than any edit's.
LEMMA CopyKeeps == ASSUME OneWayInv, Sync!OneWay!Copy PROVE OneWayInv'
<1>1. Running /\ plan # {} /\ Current.type = "copy"
  BY DEF Sync!OneWay!Copy, Sync!OneWay!Executes, Running, Current
<1>2. PICK h : h = Current.path OBVIOUS
<1>3. /\ SyncTypes /\ SourceTimes /\ SizesTell /\ RunKnown /\ h \in SyncPaths /\ Current \in plan
      /\ (down => Sync!OneWay!WellFormed(FromTree)) /\ Sync!OneWay!Next1 = Current /\ FromTree[h] \in TreeEntry
      /\ Fits(Current, Listed[h])
      /\ Listed[h].kind = "file" => Sync!OneWay!Source(local, remote)[h] = FromTree[h]
  BY <1>1, <1>2, AtHand DEF OneWayInv
<1>a. Sync!OneWay!Source(local, remote)[h] = FromTree[h] BY <1>1, <1>3 DEF Fits
<1>4. /\ UNCHANGED <<down, deleteOrphans, hidden, localList, remoteList, plan, failed, exitCode, dirty, mirrored>>
      /\ syncPc' = "stamp" /\ now' = now + Sync!OneWay!Later /\ FromTree[h].kind = "file"
      /\ Sync!OneWay!Written(FromTree[h].data)
  BY <1>2, <1>3, <1>a DEF Sync!OneWay!Copy, Sync!OneWay!CanCopy, Sync!OneWay!options, Sync!OneWay!lists,
                          Sync!OneWay!counts
<1>5. now \in Nat /\ now' \in Nat /\ now <= now' /\ Before(now, now') BY <1>3, <1>4, OneWayBounds DEF SyncTypes, Before
<1>6. FromTree[h].data \in Nat BY <1>3, EntryIs
<1>7. SourceRests /\ OnlyAt(h) /\ ToTree'[h] = Sync!OneWay!File(FromTree[h].data, now)
  BY <1>1, <1>2, <1>3, <1>4, <1>6, WrittenIs
<1>8. FromTree' = FromTree /\ InTrees BY <1>7 DEF SourceRests
<1>9. Listed' = Listed BY <1>4, ListsRest
<1>10. ToTree'[h].kind = "file" /\ ToTree'[h].data = FromTree[h].data /\ ToTree'[h].mtime = now
  BY <1>7, EntriesAre
<1>11. Current' = Current BY <1>4 DEF Current, Sync!OneWay!Next1
<1>12. SyncTypes' BY <1>3, <1>4, <1>5, <1>8 DEF SyncTypes, InTrees
<1>13. SourceTimes' BY <1>3, <1>4, <1>5, <1>8, <1>9, TimesHold
<1>14. SizesTell'
  <2>1. Told(h)' BY <1>5, <1>8, <1>10 DEF Told
  <2> QED BY <1>3, <1>5, <1>7, <1>8, <2>1, SizesHold
<1>15. StampKnown'
  <2>1. Current'.path = h /\ Current'.type = "copy" /\ plan' # {} BY <1>1, <1>2, <1>4, <1>11
  <2> QED BY <1>5, <1>8, <1>10, <2>1 DEF StampKnown
<1>16. RunKnown'
  <2>1. Running' /\ syncPc' # "remote" BY <1>4 DEF Running
  <2>2. \A a \in plan' : Fits(a, Listed'[a.path]) BY <1>1, <1>3, <1>4, <1>9 DEF RunKnown
  <2>3. ~dirty' => FromTree' = Listed' BY <1>1, <1>3, <1>4, <1>8, <1>9 DEF RunKnown
  <2>4. ASSUME ~dirty', failed' = 0, NEW p \in SyncPaths PROVE Settled(p)' \/ Pending(p)'
    <3>1. CASE p = h BY <1>1, <1>2, <1>3, <1>4, <3>1 DEF Pending
    <3>2. CASE p # h
      <4>1. Settled(p) \/ Pending(p) BY <1>1, <1>3, <1>4, <2>4 DEF RunKnown
      <4>2. Settled(p) => Settled(p)' BY <1>4, <1>7, <1>8, <3>2, SettledElsewhere
      <4>3. Pending(p) => Pending(p)' BY <1>4 DEF Pending
      <4> QED BY <4>1, <4>2, <4>3
    <3> QED BY <3>1, <3>2
  <2> QED BY <2>1, <2>2, <2>3, <2>4 DEF RunKnown
<1> QED BY <1>12, <1>13, <1>14, <1>15, <1>16 DEF OneWayInv

LEMMA SettledRests ==
    ASSUME FromTree' = FromTree, ToTree' = ToTree, down' = down, hidden' = hidden, deleteOrphans' = deleteOrphans
    PROVE  (SizesTell /\ now' = now => SizesTell') /\ \A p : Settled(p)' <=> Settled(p)
BY DEF Settled, SizesTell, Unseen

LEMMA ListLocalKeeps == ASSUME OneWayInv, Sync!OneWay!ListLocal PROVE OneWayInv'
<1>1. /\ syncPc = "local" /\ syncPc' = "remote" /\ failed' = 0 /\ localList' = Sync!OneWay!Visible(local)
      /\ dirty' = (IF down THEN dirty ELSE FALSE)
      /\ UNCHANGED <<down, deleteOrphans, hidden, local, remote, remoteList, plan, exitCode, now, mirrored>>
  BY DEF Sync!OneWay!ListLocal, Sync!OneWay!options, Sync!OneWay!trees, Sync!OneWay!counts
<1>2. SyncTypes /\ SourceTimes /\ SizesTell /\ RunKnown /\ now \in Nat BY DEF OneWayInv, SyncTypes
<1>3. FromTree' = FromTree /\ ToTree' = ToTree BY <1>1, <1>2, TreesRest DEF SourceRests
<1>4. Listed' \in {Listed, FromTree, Sync!OneWay!Nothing}
  BY <1>1, <1>2 DEF Listed, FromTree, Sync!OneWay!Source, SyncTypes
<1>5. SyncTypes'
  <2>1. Cardinality(plan) \in Nat /\ Cardinality(plan) + failed <= 3 /\ failed \in Nat
    BY <1>2, FS_CardinalityType DEF SyncTypes
  <2>2. Cardinality(plan') + failed' <= 3 /\ failed' \in Nat BY <1>1, <2>1
  <2>3. localList' \in Trees BY <1>1, <1>2, VisibleIs DEF SyncTypes
  <2> QED BY <1>1, <1>2, <2>2, <2>3 DEF SyncTypes
<1>6. SourceTimes'
  <2>1. now' = now /\ now <= now' BY <1>1, <1>2
  <2> QED BY <1>1, <1>2, <1>3, <1>4, <2>1, TimesHold
<1>7. SizesTell' BY <1>1, <1>2, <1>3, SettledRests
<1>8. StampKnown' BY <1>1 DEF StampKnown
<1>9. RunKnown'
  <2>1. ~Running /\ ~Running' BY <1>1 DEF Running
  <2>2. mirrored => ~dirty /\ \A p \in SyncPaths : Settled(p) BY <1>2, <2>1 DEF RunKnown
  <2>3. mirrored' => ~dirty' /\ \A p \in SyncPaths : Settled(p)'
    BY <1>1, <1>3, <2>2, SettledRests
  <2>4. localList' = Sync!OneWay!Visible(local)' BY <1>1 DEF Sync!OneWay!Visible
  <2> QED BY <1>1, <2>1, <2>3, <2>4 DEF RunKnown
<1> QED BY <1>5, <1>6, <1>7, <1>8, <1>9 DEF OneWayInv

\* The comparison is of the two trees as they are, unless the source was edited
\* after it was listed.
LEMMA ListRemoteKeeps == ASSUME OneWayInv, Sync!OneWay!ListRemote PROVE OneWayInv'
<1>1. /\ syncPc = "remote" /\ syncPc' = "execute" /\ remoteList' = remote
      /\ plan' = Sync!OneWay!Diffed(localList, remote) /\ dirty' = (IF down THEN FALSE ELSE dirty)
      /\ UNCHANGED <<down, deleteOrphans, hidden, local, remote, localList, failed, exitCode, now, mirrored>>
  BY DEF Sync!OneWay!ListRemote, Sync!OneWay!options, Sync!OneWay!trees, Sync!OneWay!counts
<1>2. SyncTypes /\ SourceTimes /\ SizesTell /\ RunKnown /\ now \in Nat BY DEF OneWayInv, SyncTypes
<1>3. FromTree' = FromTree /\ ToTree' = ToTree BY <1>1, <1>2, TreesRest DEF SourceRests
<1>4. failed = 0 /\ (down \/ ~dirty => localList = Sync!OneWay!Visible(local)) BY <1>1, <1>2 DEF RunKnown
<1>5. /\ down => Listed' = FromTree /\ ~dirty' /\ Sync!OneWay!Source(localList, remote) = Listed'
      /\ ~down => Listed' = Listed /\ dirty' = dirty /\ Sync!OneWay!Source(localList, remote) = Listed'
      /\ ~dirty' => Listed' = FromTree
      /\ down => Sync!OneWay!Target(localList, remote) = SeenTree
      /\ ~down => Sync!OneWay!Target(localList, remote) = SeenTree
  BY <1>1, <1>2, <1>4 DEF Listed, FromTree, SeenTree, Sync!OneWay!Source, Sync!OneWay!Target, SyncTypes
<1>6. plan' = Sync!OneWay!DiffOneWay(SyncPaths, Listed', SeenTree, deleteOrphans)
  BY <1>1, <1>2, <1>5 DEF Sync!OneWay!Diffed, SyncPaths, SyncTypes
<1>7. PICK from \in Trees : from = Listed'
  BY <1>2, <1>5, TreesAre DEF SyncTypes
<1>8. PICK to \in Trees : to = SeenTree BY <1>2, TreesAre
<1>a. \A p \in SyncPaths : to[p] = IF Unseen(p) THEN Sync!OneWay!Absent ELSE ToTree[p] BY <1>2, <1>8, TreesAre
<1>9. PICK deletes \in BOOLEAN : deletes = deleteOrphans BY <1>2 DEF SyncTypes
<1>10. PICK made : made = plan' OBVIOUS
<1>11. made = Sync!OneWay!DiffOneWay(SyncPaths, from, to, deletes) BY <1>6, <1>7, <1>8, <1>9, <1>10
<1>12. /\ made \subseteq Steps /\ IsFiniteSet(made) /\ Cardinality(made) <= 3
       /\ \A a \in made : Fits(a, from[a.path])
       /\ \A p \in SyncPaths :
             /\ from[p].kind = "file" /\ (to[p].kind = "absent" \/ Sync!OneWay!Changed(from[p], to[p]))
                   => [type |-> "copy", path |-> p] \in made
             /\ from[p].kind = "dir" /\ to[p].kind = "absent" => [type |-> "mkdir", path |-> p] \in made
             /\ from[p].kind = "absent" /\ to[p].kind # "absent" /\ deletes
                   => [type |-> "delete", path |-> p] \in made
  BY <1>11, DiffIs
<1>13. SyncTypes'
  <2>1. Cardinality(made) \in Nat BY <1>12, FS_CardinalityType
  <2>2. plan' \subseteq Steps /\ IsFiniteSet(plan') /\ Cardinality(plan') + failed' <= 3 /\ failed' = 0
    BY <1>1, <1>4, <1>10, <1>12, <2>1
  <2> QED BY <1>1, <1>2, <2>2 DEF SyncTypes
<1>14. SourceTimes'
  <2>1. now' = now /\ now <= now' BY <1>1, <1>2
  <2>2. Listed' \in {Listed, FromTree, Sync!OneWay!Nothing} BY <1>2, <1>5 DEF SyncTypes
  <2> QED BY <1>1, <1>2, <1>3, <2>1, <2>2, TimesHold
<1>15. SizesTell' BY <1>1, <1>2, <1>3, SettledRests
<1>16. StampKnown' BY <1>1 DEF StampKnown
<1>17. RunKnown'
  <2>1. Running' /\ syncPc' # "remote" BY <1>1 DEF Running
  <2>2. \A a \in plan' : Fits(a, Listed'[a.path]) BY <1>7, <1>10, <1>12
  <2>3. ~dirty' => FromTree' = Listed' BY <1>3, <1>5
  <2>4. ASSUME ~dirty', NEW p \in SyncPaths PROVE Settled(p)' \/ Pending(p)'
    <3>1. from = FromTree /\ from[p].kind \in {"absent", "dir", "file"}
      <4>1. from[p] \in TreeEntry BY <1>7 DEF Trees
      <4> QED BY <1>5, <1>7, <2>4, <4>1, EntryIs
    <3>2. Pending(p)' <=> \E a \in made : a.path = p /\ a.type # "skip" BY <1>10 DEF Pending
    <3>3. Settled(p)' <=> Settled(p) BY <1>1, <1>3, SettledRests
    <3>4. CASE from[p].kind = "file"
      <4>1. [type |-> "copy", path |-> p] \in made => Pending(p)' BY <3>2
      <4>2. to[p].kind # "absent" /\ ~Sync!OneWay!Changed(from[p], to[p]) => Settled(p)
        <5> SUFFICES ASSUME to[p].kind # "absent", ~Sync!OneWay!Changed(from[p], to[p]) PROVE Settled(p)
          OBVIOUS
        <5>0. to[p] = ToTree[p] BY <1>a, EntriesAre
        <5>1. to[p] \in TreeEntry /\ from[p] \in TreeEntry BY <1>7, <1>8 DEF Trees
        <5>2. from[p].data \in Nat \ {0}
          <6>1. from[p].data >= 1 BY <1>2, <3>1, <3>4 DEF SourceTimes
          <6> QED BY <5>1, <6>1, EntryIs
        <5>3. to[p].kind = "file"
          <6>1. to[p].data # 0 BY <5>2, PartSeen
          <6> QED BY <5>1, <6>1, EntryIs
        <5>4. to[p].data = from[p].data BY <1>2, <3>1, <3>4, <5>0, <5>3 DEF SizesTell
        <5> QED BY <3>1, <3>4, <5>0, <5>3, <5>4 DEF Settled
      <4> QED BY <1>12, <3>3, <3>4, <4>1, <4>2
    <3>5. CASE from[p].kind = "dir"
      <4>1. [type |-> "mkdir", path |-> p] \in made => Pending(p)' BY <3>2
      <4>2. to[p].kind # "absent" => Settled(p) BY <1>a, <3>1, <3>5, EntriesAre DEF Settled
      <4> QED BY <1>12, <3>3, <3>5, <4>1, <4>2
    <3>6. CASE from[p].kind = "absent"
      <4>1. [type |-> "delete", path |-> p] \in made => Pending(p)' BY <3>2
      <4>2. to[p].kind = "absent" \/ ~deletes => Settled(p) BY <1>9, <1>a, <3>1, <3>6 DEF Settled
      <4> QED BY <1>12, <3>3, <3>6, <4>1, <4>2
    <3> QED BY <3>1, <3>4, <3>5, <3>6
  <2> QED BY <2>1, <2>2, <2>3, <2>4 DEF RunKnown
<1> QED BY <1>13, <1>14, <1>15, <1>16, <1>17 DEF OneWayInv

LEMMA NothingIs ==
    /\ Sync!OneWay!Nothing \in Trees
    /\ \A p \in SyncPaths : Sync!OneWay!Nothing[p] = Sync!OneWay!Absent
BY EntriesAre DEF Sync!OneWay!Nothing, Trees, SyncPaths

\* Without a listing of the target an upload takes all of it for missing.
LEMMA ListRemoteFailsKeeps == ASSUME OneWayInv, Sync!OneWay!ListRemoteFails PROVE OneWayInv'
<1>1. /\ syncPc = "remote" /\ remoteList' = Sync!OneWay!Nothing /\ dirty' = TRUE
      /\ UNCHANGED <<down, deleteOrphans, hidden, local, remote, localList, failed, now>>
      /\ down => syncPc' = "done" /\ exitCode' = 1 /\ mirrored' = FALSE /\ plan' = plan
      /\ ~down => /\ syncPc' = "execute" /\ exitCode' = exitCode /\ mirrored' = mirrored
                  /\ plan' = Sync!OneWay!Diffed(localList, Sync!OneWay!Nothing)
  BY DEF Sync!OneWay!ListRemoteFails, Sync!OneWay!options, Sync!OneWay!trees
<1>2. SyncTypes /\ SourceTimes /\ SizesTell /\ RunKnown /\ now \in Nat BY DEF OneWayInv, SyncTypes
<1>3. FromTree' = FromTree /\ ToTree' = ToTree BY <1>1, <1>2, TreesRest DEF SourceRests
<1>4. failed = 0 BY <1>1, <1>2 DEF RunKnown
<1>5. /\ down => Listed' = Sync!OneWay!Nothing
      /\ ~down => Listed' = Listed /\ Listed = localList
                  /\ plan' = Sync!OneWay!DiffOneWay(SyncPaths, localList, Sync!OneWay!Nothing, deleteOrphans)
  BY <1>1, <1>2 DEF Listed, Sync!OneWay!Source, Sync!OneWay!Target, SyncTypes, Sync!OneWay!Diffed, SyncPaths
<1>6. ASSUME ~down
      PROVE  /\ plan' \subseteq Steps /\ IsFiniteSet(plan') /\ Cardinality(plan') <= 3
             /\ Cardinality(plan') \in Nat /\ \A a \in plan' : Fits(a, Listed'[a.path])
  <2>1. PICK from \in Trees : from = localList BY <1>2 DEF SyncTypes
  <2>2. PICK to \in Trees : to = Sync!OneWay!Nothing BY NothingIs
  <2>3. PICK deletes \in BOOLEAN : deletes = deleteOrphans BY <1>2 DEF SyncTypes
  <2>4. PICK made : made = plan' OBVIOUS
  <2>5. made = Sync!OneWay!DiffOneWay(SyncPaths, from, to, deletes) BY <1>5, <1>6, <2>1, <2>2, <2>3, <2>4
  <2>6. /\ made \subseteq Steps /\ IsFiniteSet(made) /\ Cardinality(made) <= 3
        /\ \A a \in made : Fits(a, from[a.path])
    BY <2>5, DiffIs
  <2>7. Cardinality(made) \in Nat BY <2>6, FS_CardinalityType
  <2> QED BY <1>5, <1>6, <2>1, <2>4, <2>6, <2>7
<1>7. SyncTypes'
  <2>1. CASE down BY <1>1, <1>2, <2>1, NothingIs DEF SyncTypes
  <2>2. CASE ~down
    <3>1. Cardinality(plan') + failed' <= 3 /\ failed' \in Nat BY <1>1, <1>4, <1>6, <2>2
    <3> QED BY <1>1, <1>2, <1>6, <2>2, <3>1, NothingIs DEF SyncTypes
  <2> QED BY <2>1, <2>2
<1>8. SourceTimes'
  <2>1. now' = now /\ now <= now' /\ Listed' \in {Listed, FromTree, Sync!OneWay!Nothing}
    BY <1>1, <1>2, <1>5 DEF SyncTypes
  <2> QED BY <1>1, <1>2, <1>3, <2>1, TimesHold
<1>9. SizesTell' BY <1>1, <1>2, <1>3, SettledRests
<1>10. StampKnown' BY <1>1 DEF StampKnown
<1>11. RunKnown'
  <2>1. CASE down
    <3>1. ~Running' /\ syncPc' # "remote" /\ ~mirrored' BY <1>1, <2>1 DEF Running
    <3> QED BY <3>1 DEF RunKnown
  <2>2. CASE ~down
    <3>1. Running' /\ syncPc' # "remote" /\ dirty' BY <1>1, <2>2 DEF Running
    <3> QED BY <1>6, <2>2, <3>1 DEF RunKnown
  <2> QED BY <2>1, <2>2
<1> QED BY <1>7, <1>8, <1>9, <1>10, <1>11 DEF OneWayInv

LEMMA FinishKeeps == ASSUME OneWayInv, Sync!OneWay!Finish PROVE OneWayInv'
<1>1. /\ syncPc = "execute" /\ plan = {} /\ syncPc' = "done" /\ exitCode' = (IF failed = 0 THEN 0 ELSE 1)
      /\ mirrored' = (exitCode' = 0 /\ ~dirty)
      /\ UNCHANGED <<down, deleteOrphans, hidden, local, remote, localList, remoteList, plan, failed, now, dirty>>
  BY DEF Sync!OneWay!Finish, Sync!OneWay!ExitCode, Sync!OneWay!options, Sync!OneWay!trees, Sync!OneWay!lists, Sync!OneWay!counts
<1>2. SyncTypes /\ SourceTimes /\ SizesTell /\ RunKnown /\ now \in Nat BY DEF OneWayInv, SyncTypes
<1>3. FromTree' = FromTree /\ ToTree' = ToTree BY <1>1, <1>2, TreesRest DEF SourceRests
<1>4. Listed' = Listed BY <1>1, ListsRest
<1>5. SyncTypes' BY <1>1, <1>2 DEF SyncTypes
<1>6. SourceTimes'
  <2>1. now' = now /\ now <= now' BY <1>1, <1>2
  <2> QED BY <1>1, <1>2, <1>3, <1>4, <2>1, TimesHold
<1>7. SizesTell' BY <1>1, <1>2, <1>3, SettledRests
<1>8. StampKnown' BY <1>1 DEF StampKnown
<1>9. RunKnown'
  <2>1. Running /\ ~Running' /\ syncPc' # "remote" BY <1>1 DEF Running
  <2>2. ASSUME mirrored' PROVE ~dirty' /\ \A p \in SyncPaths : Settled(p)'
    <3>0. exitCode' = 0 /\ ~dirty BY <1>1, <2>2
    <3>1. failed = 0 /\ ~dirty
      <4>1. CASE failed = 0 BY <3>0, <4>1
      <4>2. CASE failed # 0
        <5>1. exitCode' = 1 BY <1>1, <4>2
        <5> QED BY <3>0, <5>1
      <4> QED BY <4>1, <4>2
    <3>2. \A p \in SyncPaths : Settled(p) BY <1>1, <1>2, <2>1, <3>1 DEF RunKnown, Pending
    <3> QED BY <1>1, <1>3, <3>1, <3>2, SettledRests
  <2> QED BY <2>1, <2>2 DEF RunKnown
<1> QED BY <1>5, <1>6, <1>7, <1>8, <1>9 DEF OneWayInv

LEMMA AgainKeeps == ASSUME OneWayInv, Sync!OneWay!Again PROVE OneWayInv'
<1>1. /\ syncPc = "done" /\ syncPc' = "local"
      /\ UNCHANGED <<down, deleteOrphans, hidden, local, remote, localList, remoteList, plan, failed, exitCode, now,
                     dirty, mirrored>>
  BY DEF Sync!OneWay!Again, Sync!OneWay!options, Sync!OneWay!trees, Sync!OneWay!lists
<1>2. SyncTypes /\ SourceTimes /\ SizesTell /\ RunKnown /\ now \in Nat BY DEF OneWayInv, SyncTypes
<1>3. FromTree' = FromTree /\ ToTree' = ToTree BY <1>1, <1>2, TreesRest DEF SourceRests
<1>4. Listed' = Listed BY <1>1, ListsRest
<1>5. SyncTypes' BY <1>1, <1>2 DEF SyncTypes
<1>6. SourceTimes'
  <2>1. now' = now /\ now <= now' BY <1>1, <1>2
  <2> QED BY <1>1, <1>2, <1>3, <1>4, <2>1, TimesHold
<1>7. SizesTell' BY <1>1, <1>2, <1>3, SettledRests
<1>8. StampKnown' BY <1>1 DEF StampKnown
<1>9. RunKnown'
  <2>1. ~Running /\ ~Running' /\ syncPc' # "remote" BY <1>1 DEF Running
  <2>2. mirrored' => ~dirty' /\ \A p \in SyncPaths : Settled(p)'
    BY <1>1, <1>2, <1>3, <2>1, SettledRests DEF RunKnown
  <2> QED BY <2>1, <2>2 DEF RunKnown
<1> QED BY <1>5, <1>6, <1>7, <1>8, <1>9 DEF OneWayInv

\* An edit of the source is later than whatever was listed or copied of it.
LEMMA EditVisibleKeeps ==
    ASSUME OneWayInv, Sync!OneWay!EditSource,
           NEW h \in {"a", "d/x"}, down \/ h \notin hidden, FromTree[h].kind = "file",
           NEW e \in {Sync!OneWay!File(FromTree[h].data + 2, now), Sync!OneWay!Absent},
           IF down THEN remote' = [remote EXCEPT ![h] = e] /\ local' = local
                   ELSE local' = [local EXCEPT ![h] = e] /\ remote' = remote
    PROVE  OneWayInv'
<1>1. SyncTypes /\ SourceTimes /\ SizesTell /\ StampKnown /\ RunKnown /\ now \in Nat
  BY DEF OneWayInv, SyncTypes
<1>4. /\ UNCHANGED <<down, deleteOrphans, hidden, localList, remoteList, plan, failed, syncPc, exitCode>>
      /\ now' = now + Sync!OneWay!Later /\ dirty' /\ dirty' = TRUE /\ ~mirrored' /\ mirrored' = FALSE
  BY DEF Sync!OneWay!EditSource, Sync!OneWay!options, Sync!OneWay!lists
<1>5. now' \in Nat /\ now <= now' /\ Before(now, now') BY <1>1, <1>4, OneWayBounds DEF Before
<1>6. h \in SyncPaths BY SyncPathsAre
<1>7. /\ \A p \in SyncPaths : /\ FromTree[p] \in TreeEntry /\ ToTree[p] \in TreeEntry /\ Listed[p] \in TreeEntry
                              /\ ToTree[p].mtime \in Nat /\ Listed[p].mtime \in Nat /\ FromTree[p].mtime \in Nat
      /\ FromTree[h].data \in Nat /\ FromTree[h].data >= 1
      /\ FromTree \in Trees
  BY <1>1, <1>6, TreesAre, EntryIs DEF SourceTimes
<1>8. e \in TreeEntry
  <2>1. FromTree[h].data + 2 \in Nat BY <1>7
  <2> QED BY <1>1, <2>1, EntriesAre
<1>9. FromTree' = [FromTree EXCEPT ![h] = e] /\ ToTree' = ToTree /\ InTrees
  <2>1. /\ \A t \in Trees : [t EXCEPT ![h] = e] \in Trees
    BY <1>6, <1>8 DEF Trees
  <2>2. CASE down
    BY <1>1, <1>4, <2>1, <2>2
       DEF SyncTypes, InTrees, FromTree, ToTree, Sync!OneWay!Source, Sync!OneWay!Target
  <2>3. CASE ~down
    <3>1. local' = [local EXCEPT ![h] = e] /\ remote' = remote /\ hidden' = hidden /\ ~down' BY <1>4, <2>3
    <3>2. local \in Trees /\ remote \in Trees BY <1>1 DEF SyncTypes
    <3>3. FromTree = Sync!OneWay!Visible(local) /\ FromTree' = Sync!OneWay!Visible(local)'
          /\ ToTree = remote /\ ToTree' = remote'
      BY <2>3, <3>1 DEF FromTree, ToTree, Sync!OneWay!Source, Sync!OneWay!Target
    <3>4. Sync!OneWay!Visible(local)' = [Sync!OneWay!Visible(local) EXCEPT ![h] = e]
      BY <1>6, <2>3, <3>1, <3>2 DEF Sync!OneWay!Visible, Trees, SyncPaths
    <3> QED BY <2>1, <3>1, <3>2, <3>3, <3>4 DEF InTrees
  <2> QED BY <2>2, <2>3
<1>10. FromTree'[h] = e /\ \A p \in SyncPaths : p # h => FromTree'[p] = FromTree[p]
  BY <1>6, <1>7, <1>9 DEF Trees
<1>11. Listed' = Listed BY <1>4, ListsRest
<1>12. \/ e = Sync!OneWay!Absent /\ e.kind = "absent"
       \/ e.kind = "file" /\ e.mtime = now /\ e.data = FromTree[h].data + 2
  BY EntriesAre
<1>13. \A t \in Nat : Before(t, now) => Before(t, now') BY <1>1, <1>5, OneWayBounds DEF Before
<1>14. SyncTypes' BY <1>1, <1>4, <1>5, <1>9 DEF SyncTypes, InTrees
<1>15. SourceTimes'
  <2>1. ASSUME down' PROVE Sync!OneWay!WellFormed(FromTree)'
    <3>1. \A p \in SyncPaths : FromTree'[p].kind # "absent" => FromTree[p].kind # "absent" BY <1>10
    <3>2. \A p \in SyncPaths : FromTree[p].kind = "dir" => FromTree'[p].kind = "dir" BY <1>10
    <3>3. \A p \in SyncPaths : FromTree[p].kind # "absent" => Sync!OneWay!HasParent(FromTree, p)
      BY <1>1, <1>4, <2>1 DEF SourceTimes, Sync!OneWay!WellFormed, SyncPaths
    <3>4. \A p \in SyncPaths : Sync!OneWay!HasParent(FromTree, p) => Sync!OneWay!HasParent(FromTree, p)'
      BY <3>2 DEF Sync!OneWay!HasParent, SyncPaths
    <3> QED BY <3>1, <3>3, <3>4 DEF Sync!OneWay!WellFormed, SyncPaths
  <2>2. ASSUME NEW p \in SyncPaths, FromTree'[p].kind = "file"
        PROVE  FromTree'[p].data >= 1 /\ Before(FromTree'[p].mtime, now')
    <3>1. CASE p = h BY <1>5, <1>7, <1>10, <1>12, <2>2, <3>1
    <3>2. CASE p # h BY <1>1, <1>7, <1>10, <1>13, <2>2, <3>2 DEF SourceTimes
    <3> QED BY <3>1, <3>2
  <2>3. ASSUME NEW p \in SyncPaths, Listed'[p].kind = "file"
        PROVE  /\ Before(Listed'[p].mtime, now')
               /\ \/ FromTree'[p] = Listed'[p] \/ FromTree'[p].kind = "absent"
                  \/ /\ FromTree'[p].kind = "file"
                     /\ Listed'[p].mtime + Sync!OneWay!Later <= FromTree'[p].mtime
    <3>1. Listed[p].kind = "file" /\ Before(Listed[p].mtime, now) /\ Before(Listed'[p].mtime, now')
      BY <1>1, <1>7, <1>11, <1>13, <2>3 DEF SourceTimes
    <3>2. CASE p = h BY <1>10, <1>11, <1>12, <3>1, <3>2 DEF Before
    <3>3. CASE p # h BY <1>1, <1>10, <1>11, <3>1, <3>3 DEF SourceTimes
    <3> QED BY <3>1, <3>2, <3>3
  <2>4. ~down' => \A p \in SyncPaths : p \in hidden' => Listed'[p].kind = "absent"
    BY <1>1, <1>4, <1>11 DEF SourceTimes
  <2> QED BY <2>1, <2>2, <2>3, <2>4 DEF SourceTimes
<1>16. SizesTell'
  <2> SUFFICES ASSUME NEW p \in SyncPaths PROVE Told(p)' BY DEF SizesTell, Told
  <2>1. Told(p) BY <1>1, ToldAll
  <2> SUFFICES ASSUME ToTree[p].kind = "file"
               PROVE  /\ ToTree[p].mtime <= now' /\ (ToTree[p].data = 0 \/ Before(ToTree[p].mtime, now'))
                      /\ FromTree'[p].kind = "file" /\ ~Sync!OneWay!Changed(FromTree'[p], ToTree[p]) =>
                            ToTree[p].data = FromTree'[p].data
    BY <1>9 DEF Told
  <2>2. ToTree[p].mtime <= now /\ (ToTree[p].data = 0 \/ Before(ToTree[p].mtime, now)) BY <2>1 DEF Told
  <2>3. ToTree[p].mtime <= now' /\ (ToTree[p].data = 0 \/ Before(ToTree[p].mtime, now'))
    BY <1>1, <1>5, <1>7, <1>13, <2>2
  <2>4. ASSUME FromTree'[p].kind = "file", ~Sync!OneWay!Changed(FromTree'[p], ToTree[p])
        PROVE  ToTree[p].data = FromTree'[p].data
    <3>1. CASE p # h BY <1>10, <2>1, <2>4, <3>1 DEF Told
    <3>2. CASE p = h
      <4>1. e.kind = "file" /\ e.mtime = now /\ e.data \in Nat \ {0} /\ ~Sync!OneWay!Changed(e, ToTree[p])
        BY <1>7, <1>10, <1>12, <2>4, <3>2
      <4>2. ToTree[p].data # 0 BY <4>1, PartSeen
      <4>3. ToTree[p].mtime + Sync!OneWay!Later <= e.mtime BY <2>2, <4>1, <4>2 DEF Before
      <4>4. Sync!OneWay!Changed(e, ToTree[p])
        BY <1>1, <1>7, <4>1, <4>3, SeenApart
      <4> QED BY <4>1, <4>4
    <3> QED BY <3>1, <3>2
  <2> QED BY <2>3, <2>4
<1>17. StampKnown'
  <2> SUFFICES ASSUME syncPc = "stamp" PROVE StampKnown' BY <1>4 DEF StampKnown
  <2>1. Current' = Current BY <1>4 DEF Current, Sync!OneWay!Next1
  <2>2. PICK q : q = Current.path OBVIOUS
  <2>3. /\ plan # {} /\ Current.type = "copy" /\ ToTree[q].kind = "file"
        /\ ToTree[q].data = 0 \/ Before(ToTree[q].mtime, now)
        /\ FromTree[q] = Listed[q] => ToTree[q].data = FromTree[q].data
    BY <1>1, <2>2 DEF StampKnown
  <2>4. q \in SyncPaths /\ Listed[q].kind = "file"
    <3>1. q \in SyncPaths /\ Current \in plan BY <1>1, <2>2, <2>3, CurrentIs
    <3>2. Fits(Current, Listed[q]) BY <1>1, <2>2, <3>1 DEF RunKnown, Running
    <3> QED BY <2>3, <3>1, <3>2 DEF Fits
  <2>5. Before(Listed[q].mtime, now) BY <1>1, <2>4 DEF SourceTimes
  <2>6. ASSUME FromTree'[q] = Listed[q] PROVE ToTree[q].data = FromTree'[q].data
    <3>1. CASE q # h BY <1>10, <2>3, <2>4, <2>6, <3>1
    <3>2. CASE q = h
      <4>1. e.kind = "file" /\ e.mtime = now BY <1>10, <1>12, <2>4, <2>6, <3>2
      <4>2. Before(now, now) BY <1>10, <2>5, <2>6, <3>2, <4>1
      <4> QED BY <1>1, <4>2, OneWayBounds DEF Before
    <3> QED BY <3>1, <3>2
  <2>7. ToTree[q].data = 0 \/ Before(ToTree[q].mtime, now') BY <1>7, <1>13, <2>3, <2>4
  <2> QED BY <1>4, <1>9, <1>11, <2>1, <2>2, <2>3, <2>6, <2>7 DEF StampKnown
<1>18. RunKnown'
  <2>1. Running' <=> Running BY <1>4 DEF Running
  <2>2. Running => \A a \in plan' : Fits(a, Listed'[a.path]) BY <1>1, <1>4, <1>11 DEF RunKnown
  <2>3. syncPc = "remote" => failed' = 0 /\ (down => localList' = Sync!OneWay!Visible(local)')
    BY <1>1, <1>4 DEF RunKnown, Sync!OneWay!Visible
  <2> QED BY <1>4, <2>1, <2>2, <2>3 DEF RunKnown
<1> QED BY <1>14, <1>15, <1>16, <1>17, <1>18 DEF OneWayInv

\* The runs do not see an edit of a dotfile that they would upload.
LEMMA EditHiddenKeeps ==
    ASSUME OneWayInv, Sync!OneWay!EditSource, ~down, remote' = remote, local' \in Trees,
           Sync!OneWay!Visible(local)' = Sync!OneWay!Visible(local)
    PROVE  OneWayInv'
<1>1. SyncTypes /\ SourceTimes /\ SizesTell /\ StampKnown /\ RunKnown /\ now \in Nat /\ remote \in Trees
  BY DEF OneWayInv, SyncTypes
<1>2. /\ UNCHANGED <<down, deleteOrphans, hidden, localList, remoteList, plan, failed, syncPc, exitCode>>
      /\ now' = now + Sync!OneWay!Later /\ dirty' /\ dirty' = TRUE /\ ~mirrored' /\ mirrored' = FALSE
  BY DEF Sync!OneWay!EditSource, Sync!OneWay!options, Sync!OneWay!lists
<1>3. now' \in Nat /\ now <= now' BY <1>1, <1>2, OneWayBounds
<1>4. FromTree' = FromTree /\ ToTree' = ToTree
  BY <1>2 DEF FromTree, ToTree, Sync!OneWay!Source, Sync!OneWay!Target
<1>5. Listed' = Listed BY <1>2, ListsRest
<1>6. SyncTypes' BY <1>1, <1>2, <1>3 DEF SyncTypes
<1>7. SourceTimes' BY <1>1, <1>2, <1>3, <1>4, <1>5, TimesHold
<1>8. SizesTell'
  <2>1. OnlyAt("none") BY <1>4 DEF OnlyAt
  <2>2. "none" \notin SyncPaths BY SyncPathsAre
  <2> QED BY <1>1, <1>3, <1>4, <2>1, <2>2, SizesHold
<1>9. StampKnown'
  <2> SUFFICES ASSUME syncPc = "stamp" PROVE StampKnown' BY <1>2 DEF StampKnown
  <2>1. Current' = Current BY <1>2 DEF Current, Sync!OneWay!Next1
  <2>2. PICK q : q = Current.path OBVIOUS
  <2>3. /\ plan # {} /\ Current.type = "copy" /\ ToTree[q].kind = "file"
        /\ ToTree[q].data = 0 \/ Before(ToTree[q].mtime, now)
        /\ FromTree[q] = Listed[q] => ToTree[q].data = FromTree[q].data
    BY <1>1, <2>2 DEF StampKnown
  <2>4. q \in SyncPaths BY <1>1, <2>2, <2>3, CurrentIs
  <2>5. ToTree[q].mtime \in Nat BY <1>1, <2>4, TreesAre, EntryIs
  <2>6. ToTree[q].data = 0 \/ Before(ToTree[q].mtime, now')
    BY <1>1, <1>2, <1>3, <2>3, <2>5, OneWayBounds DEF Before
  <2> QED BY <1>2, <1>4, <1>5, <2>1, <2>2, <2>3, <2>6 DEF StampKnown
<1>10. RunKnown'
  <2>1. Running' <=> Running BY <1>2 DEF Running
  <2>2. Running => \A a \in plan' : Fits(a, Listed'[a.path]) BY <1>1, <1>2, <1>5 DEF RunKnown
  <2>3. syncPc = "remote" => failed' = 0 BY <1>1, <1>2 DEF RunKnown
  <2> QED BY <1>2, <2>1, <2>2, <2>3 DEF RunKnown
<1> QED BY <1>6, <1>7, <1>8, <1>9, <1>10 DEF OneWayInv

LEMMA EditSourceKeeps == ASSUME OneWayInv, Sync!OneWay!EditSource PROVE OneWayInv'
<1>1. PICK h \in {"a", "d/x"} :
         /\ Sync!OneWay!Source(local, remote)[h].kind = "file"
         /\ \E e \in {Sync!OneWay!File(Sync!OneWay!Source(local, remote)[h].data + 2, now), Sync!OneWay!Absent} :
               IF down THEN remote' = [remote EXCEPT ![h] = e] /\ UNCHANGED local
                       ELSE local' = [local EXCEPT ![h] = e] /\ UNCHANGED remote
  BY DEF Sync!OneWay!EditSource
<1>2. PICK e \in {Sync!OneWay!File(Sync!OneWay!Source(local, remote)[h].data + 2, now), Sync!OneWay!Absent} :
         IF down THEN remote' = [remote EXCEPT ![h] = e] /\ local' = local
                 ELSE local' = [local EXCEPT ![h] = e] /\ remote' = remote
  BY <1>1
<1>3. h \in SyncPaths /\ SyncTypes /\ local \in Trees /\ down \in BOOLEAN /\ now \in Nat
  BY SyncPathsAre DEF OneWayInv, SyncTypes
<1>4. CASE down \/ h \notin hidden
  <2>1. Sync!OneWay!Source(local, remote)[h] = FromTree[h]
    BY <1>3, <1>4, VisibleIs DEF FromTree, Sync!OneWay!Source
  <2> QED BY <1>1, <1>2, <1>4, <2>1, EditVisibleKeeps
<1>5. CASE ~(down \/ h \notin hidden)
  <2>1. hidden' = hidden /\ local' = [local EXCEPT ![h] = e] /\ remote' = remote
    BY <1>2, <1>5 DEF Sync!OneWay!EditSource, Sync!OneWay!options
  <2>2. e \in TreeEntry
    <3>1. local[h] \in TreeEntry /\ Sync!OneWay!Source(local, remote) = local
      BY <1>3, <1>5 DEF Trees, Sync!OneWay!Source
    <3>2. local[h].data + 2 \in Nat BY <3>1, EntryIs
    <3> QED BY <1>2, <1>3, <3>1, <3>2, EntriesAre
  <2>3. local' \in Trees BY <1>3, <2>1, <2>2 DEF Trees
  <2>4. Sync!OneWay!Visible(local)' = Sync!OneWay!Visible(local)
    BY <1>3, <1>5, <2>1 DEF Sync!OneWay!Visible, Trees, SyncPaths
  <2> QED BY <1>5, <2>1, <2>3, <2>4, EditHiddenKeeps
<1> QED BY <1>4, <1>5

LEMMA OneWayStarts == ASSUME Sync!OneWay!Init PROVE OneWayInv
<1>1. /\ down \in BOOLEAN /\ deleteOrphans \in BOOLEAN /\ hidden \in Hidden /\ plan = {} /\ failed = 0 /\ syncPc = "local"
      /\ exitCode = 0 /\ now = 2 * Sync!OneWay!Later /\ dirty = FALSE /\ mirrored = FALSE
      /\ localList = Sync!OneWay!Nothing /\ remoteList = Sync!OneWay!Nothing
  BY DEF Sync!OneWay!Init
<1>2. PICK s \in Sync!OneWay!SourceTrees, t \in Sync!OneWay!TargetTrees :
         IF down THEN remote = s /\ local = t ELSE local = s /\ remote = t
  BY DEF Sync!OneWay!Init
<1>3. ToTree = t /\ Listed = Sync!OneWay!Nothing /\ Sync!OneWay!Source(local, remote) = s
      /\ (down => FromTree = s) /\ (~down => FromTree = Sync!OneWay!Visible(s))
  BY <1>1, <1>2 DEF FromTree, ToTree, Listed, Sync!OneWay!Source, Sync!OneWay!Target
<1>4. now \in Nat /\ Before(0, now) /\ Before(Tolerance, now)
  BY <1>1, OneWayBounds DEF Before
<1>5. /\ s \in [SyncPaths -> {Sync!OneWay!Absent, Sync!OneWay!Dir, Sync!OneWay!File(1, 0)}]
      /\ t \in [SyncPaths -> {Sync!OneWay!Absent, Sync!OneWay!Dir, Sync!OneWay!File(1, Tolerance),
                              Sync!OneWay!File(2, 0)}]
      /\ Sync!OneWay!WellFormed(s)
  BY DEF Sync!OneWay!SourceTrees, Sync!OneWay!TargetTrees, SyncPaths
<1>6. \A p \in SyncPaths :
         /\ s[p] \in TreeEntry /\ t[p] \in TreeEntry
         /\ s[p].kind = "file" => s[p].data = 1 /\ s[p].mtime = 0
         /\ t[p].kind = "file" => (t[p].data = 1 /\ t[p].mtime = Tolerance) \/ (t[p].data = 2 /\ t[p].mtime = 0)
  <2>1. 1 \in Nat /\ 0 \in Nat /\ 2 \in Nat /\ Tolerance \in Nat BY OneWayBounds
  <2> QED BY <1>5, <2>1, EntriesAre
<1>7. s \in Trees /\ t \in Trees BY <1>5, <1>6 DEF Trees
<1>a. \A p \in SyncPaths : FromTree[p].kind = "file" => FromTree[p] = s[p]
  <2>1. CASE down BY <1>3, <2>1
  <2>2. CASE ~down BY <1>3, <1>7, <2>2, VisibleIs, EntriesAre
  <2> QED BY <2>1, <2>2
<1>8. SyncTypes
  <2>1. IsFiniteSet(plan) /\ Cardinality(plan) = 0 BY <1>1, FS_EmptySet
  <2>2. Cardinality(plan) + failed <= 3 /\ failed \in Nat BY <1>1, <2>1
  <2> QED BY <1>1, <1>2, <1>4, <1>7, <2>1, <2>2, NothingIs DEF SyncTypes
<1>9. SourceTimes
  <2>1. \A p \in SyncPaths : Listed[p].kind # "file" BY <1>3, NothingIs, EntriesAre
  <2>2. \A p \in SyncPaths : Listed[p].kind = "absent" BY <1>3, NothingIs, EntriesAre
  <2> QED BY <1>3, <1>4, <1>5, <1>6, <1>a, <2>1, <2>2 DEF SourceTimes
<1>10. SizesTell
  <2> SUFFICES ASSUME NEW p \in SyncPaths, ToTree[p].kind = "file"
               PROVE  /\ ToTree[p].mtime <= now /\ Before(ToTree[p].mtime, now)
                      /\ FromTree[p].kind = "file" /\ ~Sync!OneWay!Changed(FromTree[p], ToTree[p]) =>
                            ToTree[p].data = FromTree[p].data
    BY DEF SizesTell
  <2>1. \/ ToTree[p].data = 1 /\ ToTree[p].mtime = Tolerance
        \/ ToTree[p].data = 2 /\ ToTree[p].mtime = 0
    BY <1>3, <1>6
  <2>2. ToTree[p].mtime <= now /\ Before(ToTree[p].mtime, now)
    BY <1>4, <2>1, OneWayBounds DEF Before
  <2>3. ASSUME FromTree[p].kind = "file", ~Sync!OneWay!Changed(FromTree[p], ToTree[p])
        PROVE  ToTree[p].data = FromTree[p].data
    <3>1. FromTree[p].data = 1 BY <1>6, <1>a, <2>3
    <3>2. Sync!OneWay!Size(FromTree[p].data) = Sync!OneWay!Size(ToTree[p].data)
      BY <2>3 DEF Sync!OneWay!Changed
    <3> QED BY <2>1, <3>1, <3>2 DEF Sync!OneWay!Size
  <2> QED BY <2>2, <2>3
<1>11. StampKnown /\ RunKnown
  BY <1>1 DEF StampKnown, RunKnown, Running
<1> QED BY <1>8, <1>9, <1>10, <1>11 DEF OneWayInv

LEMMA OneWayStep == ASSUME OneWayInv, Sync!OneWay!Next PROVE OneWayInv'
BY ListLocalKeeps, ListRemoteKeeps, ListRemoteFailsKeeps, SkipKeeps, CopyKeeps, StampKeeps, CopyImpossibleKeeps,
   CopyBreaksKeeps, MakeDirKeeps, DeleteKeeps, ActionFailsKeeps, FinishKeeps, AgainKeeps, EditSourceKeeps
   DEF Sync!OneWay!Next, Sync!OneWay!Run

LEMMA OneWayRests == ASSUME OneWayInv, UNCHANGED Sync!OneWay!vars PROVE OneWayInv'
<1>1. UNCHANGED <<down, deleteOrphans, hidden, local, remote, localList, remoteList, plan, failed, syncPc, exitCode, now,
                  dirty, mirrored>>
  BY DEF Sync!OneWay!vars, Sync!OneWay!options, Sync!OneWay!trees, Sync!OneWay!lists
<1>2. FromTree' = FromTree /\ ToTree' = ToTree /\ Listed' = Listed /\ Current' = Current
  BY <1>1 DEF FromTree, ToTree, Listed, Current, Sync!OneWay!Source, Sync!OneWay!Target, Sync!OneWay!Next1,
              Sync!OneWay!Visible
<1> USE DEF OneWayInv
<1>3. SyncTypes' BY <1>1 DEF SyncTypes
<1>4. SourceTimes' BY <1>1, <1>2 DEF SourceTimes, Sync!OneWay!WellFormed, Sync!OneWay!HasParent
<1>5. SizesTell' BY <1>1, <1>2 DEF SizesTell
<1>6. StampKnown' BY <1>1, <1>2 DEF StampKnown
<1>7. RunKnown' BY <1>1, <1>2 DEF RunKnown, Running, Settled, Unseen, Pending, Sync!OneWay!Visible
<1> QED BY <1>3, <1>4, <1>5, <1>6, <1>7

\* What the invariant says of a run that ended well.
LEMMA OneWayMirrors == ASSUME OneWayInv PROVE Sync!OneWay!TypeOK /\ Sync!OneWay!MirrorComplete
<1>1. SyncTypes /\ SourceTimes /\ RunKnown BY DEF OneWayInv
<1>2. Sync!OneWay!TypeOK
  <2>1. TreeEntry \subseteq [kind : {"absent", "dir", "file"}, data : Nat, mtime : Nat]
    BY DEF TreeEntry, Sync!OneWay!Absent, Sync!OneWay!Dir
  <2>2. failed \in 0 .. 3
    <3>1. Cardinality(plan) \in Nat /\ Cardinality(plan) + failed <= 3 /\ failed \in Nat
      BY <1>1, FS_CardinalityType DEF SyncTypes
    <3> QED BY <3>1
  <2>3. local \in [SyncPaths -> [kind : {"absent", "dir", "file"}, data : Nat, mtime : Nat]]
        /\ remote \in [SyncPaths -> [kind : {"absent", "dir", "file"}, data : Nat, mtime : Nat]]
    BY <1>1, <2>1 DEF SyncTypes, Trees
  <2> QED BY <1>1, <2>2, <2>3 DEF SyncTypes, Sync!OneWay!TypeOK, SyncPaths, Steps
<1>3. ASSUME syncPc = "done", mirrored, ~Sync!OneWay!Clash, NEW p \in SyncPaths
      PROVE  /\ FromTree[p].kind # "absent" => ToTree[p].kind = FromTree[p].kind /\ ToTree[p].data = FromTree[p].data
             /\ FromTree[p].kind = "absent" /\ deleteOrphans => ToTree[p].kind = "absent" \/ (down /\ p \in hidden)
  <2>1. Settled(p) BY <1>1, <1>3 DEF RunKnown, Running
  <2>2. FromTree[p].kind = "dir" => ToTree[p].kind # "file"
    BY <1>3 DEF Sync!OneWay!Clash, SyncPaths, FromTree, ToTree
  <2>3. FromTree[p] \in TreeEntry /\ ToTree[p] \in TreeEntry BY <1>1, TreesAre
  <2>4. FromTree[p].kind = "dir" => ToTree[p].kind = "dir"
    BY <2>1, <2>2, <2>3, EntryIs DEF Settled
  <2>5. FromTree[p].kind = "dir" => ToTree[p].data = FromTree[p].data
    BY <2>3, <2>4, EntryIs
  <2> QED BY <2>1, <2>3, <2>4, <2>5, EntryIs DEF Settled, Unseen
<1>4. Sync!OneWay!MirrorComplete
  BY <1>3 DEF Sync!OneWay!MirrorComplete, SyncPaths, FromTree, ToTree
<1> QED BY <1>2, <1>4

\* The comparison after such a run finds what it left, and nothing to do
\* but for dotfiles to be downloaded.
LEMMA OneWayRepeats ==
    ASSUME KeepsTimes, OneWayInv, Sync!OneWay!Next, syncPc = "remote", syncPc' = "execute", mirrored,
           errors' = errors
    PROVE  \A a \in plan' : a.type = "skip" \/ (down /\ a.path \in hidden)
<1>1. Sync!OneWay!ListRemote
  <2>1. ASSUME Sync!OneWay!ListRemoteFails PROVE FALSE BY <2>1 DEF Sync!OneWay!ListRemoteFails
  <2> QED BY <2>1
     DEF Sync!OneWay!Next, Sync!OneWay!Run, Sync!OneWay!ListLocal, Sync!OneWay!SkipFile, Sync!OneWay!Copy,
         Sync!OneWay!Stamp, Sync!OneWay!CopyImpossible, Sync!OneWay!CopyBreaks, Sync!OneWay!MakeDir,
         Sync!OneWay!Delete, Sync!OneWay!ActionFails, Sync!OneWay!Finish, Sync!OneWay!Again,
         Sync!OneWay!EditSource, Sync!OneWay!Executes
<1>2. SyncTypes /\ RunKnown BY DEF OneWayInv
<1>3. ~dirty /\ (\A p \in SyncPaths : Settled(p)) /\ localList \in Trees
      /\ Sync!OneWay!Source(localList, remote) = FromTree /\ Sync!OneWay!Target(localList, remote) = SeenTree
  <2>1. ~dirty /\ (\A p \in SyncPaths : Settled(p)) /\ localList = Sync!OneWay!Visible(local)
    BY <1>2 DEF RunKnown, Running
  <2> QED BY <1>2, <2>1 DEF FromTree, SeenTree, SyncTypes
<1>4. PICK from \in Trees : from = FromTree BY <1>2, TreesAre
<1>5. PICK to \in Trees : to = SeenTree BY <1>2, TreesAre
<1>6. PICK deletes \in BOOLEAN : deletes = deleteOrphans BY <1>2 DEF SyncTypes
<1>7. PICK made : made = plan' OBVIOUS
<1>8. made = Sync!OneWay!DiffOneWay(SyncPaths, from, to, deletes)
  BY <1>1, <1>3, <1>4, <1>5, <1>6, <1>7 DEF Sync!OneWay!ListRemote, Sync!OneWay!Diffed, SyncPaths
<1>9. /\ made \subseteq Steps
      /\ \A a \in made :
            /\ Fits(a, from[a.path])
            /\ a.type = "copy" => to[a.path].kind = "absent" \/ Sync!OneWay!Changed(from[a.path], to[a.path])
            /\ a.type = "mkdir" => to[a.path].kind = "absent"
            /\ a.type = "delete" => deletes /\ to[a.path].kind # "absent"
  BY <1>8, DiffIs
<1>10. ASSUME NEW a \in made, ~(down /\ a.path \in hidden) PROVE a.type = "skip"
  <2>1. a.path \in SyncPaths /\ a.type \in {"copy", "mkdir", "delete", "skip"} BY <1>9, <1>10 DEF Steps
  <2>2. PICK p \in SyncPaths : p = a.path BY <2>1
  <2>3. Settled(p) BY <1>3
  <2>a. ~Unseen(p) /\ to[p] = ToTree[p] BY <1>2, <1>5, <1>10, <2>2, TreesAre DEF Unseen
  <2>4. /\ from[p].kind = "file" => to[p].kind = "file" /\ ~Sync!OneWay!Changed(from[p], to[p])
        /\ from[p].kind = "dir" => to[p].kind # "absent"
        /\ from[p].kind = "absent" /\ deletes => to[p].kind = "absent"
    BY <1>4, <1>6, <2>3, <2>a DEF Settled
  <2>5. /\ Fits(a, from[p])
        /\ a.type = "copy" => to[p].kind = "absent" \/ Sync!OneWay!Changed(from[p], to[p])
        /\ a.type = "mkdir" => to[p].kind = "absent"
        /\ a.type = "delete" => deletes /\ to[p].kind # "absent"
    BY <1>9, <1>10, <2>2
  <2> QED BY <2>1, <2>4, <2>5 DEF Fits
<1> QED BY <1>7, <1>10

-----------------------------------------------------------------------------
(* The types of the other two machines.                                    *)

LEMMA WindowTyped == ASSUME WindowInv PROVE Sync!Dialog!TypeOK
BY DEF WindowInv, WindowTypes, SideAt, FileEntries, Items, Sync!Dialog!TypeOK

LEMMA ScheduleTyped == ASSUME Sync!Schedule!Init PROVE Sync!Schedule!TypeOK
<1>1. 1 \in 1 .. MaxTime /\ 0 \in 0 .. MaxTime BY BoundsAssumption DEF BoundsAssumption
<1> QED BY <1>1 DEF Sync!Schedule!Init, Sync!Schedule!TypeOK

LEMMA Removed ==
    ASSUME NEW s \in Seq(Sync!Schedule!Jobs), NEW id, NEW t \in Sync!Schedule!Without(s, id)
    PROVE  t \in Seq(Sync!Schedule!Jobs)
<1>1. PICK i \in DOMAIN s : t = SubSeq(s, 1, i - 1) \o SubSeq(s, i + 1, Len(s))
  BY DEF Sync!Schedule!Without, Sync!Schedule!RemoveAt
<1>2. Len(s) \in Nat /\ i \in 1 .. Len(s) OBVIOUS
<1> DEFINE S == Sync!Schedule!Jobs  a == SubSeq(s, 1, i - 1)  b == SubSeq(s, i + 1, Len(s))
<1>3. s \in Seq(S) OBVIOUS
<1> HIDE DEF S
<1>4. a \in Seq(S)
  <2>1. 1 \in Nat \ {0} /\ i - 1 \in Nat /\ i - 1 <= Len(s) BY <1>2
  <2> QED BY <1>3, <2>1, Cut
<1>5. b \in Seq(S)
  <2>1. i + 1 \in Nat \ {0} /\ Len(s) \in Nat /\ Len(s) <= Len(s) BY <1>2
  <2> QED BY <1>3, <2>1, Cut
<1> HIDE DEF a, b
<1>6. a \o b \in Seq(S) BY <1>4, <1>5, Chained
<1> QED BY <1>1, <1>6 DEF S, a, b

LEMMA ScheduleTypesKept ==
    ASSUME Sync!Schedule!TypeOK, Sync!Schedule!Next \/ UNCHANGED Sync!Schedule!vars
    PROVE  Sync!Schedule!TypeOK'
<1> USE DEF Sync!Schedule!bounds
<1> DEFINE S == Sync!Schedule!Jobs
<1>1. /\ file \in Seq(S) /\ jobs \in Seq(S) /\ list \in Seq(S) /\ due \subseteq DOMAIN jobs
      /\ daemon \in {"sleep", "run", "truncated"} /\ command \in {"none", "loaded", "truncated"}
      /\ now \in 1 .. MaxTime /\ lastRan \in [Ids -> 0 .. MaxTime]
  BY DEF Sync!Schedule!TypeOK
<1>2. MaxTime \in Nat /\ 0 \in 0 .. MaxTime /\ now \in 0 .. MaxTime
  BY <1>1, BoundsAssumption DEF BoundsAssumption
<1>3. Sync!Schedule!Forgotten \in [Ids -> 0 .. MaxTime] BY <1>2 DEF Sync!Schedule!Forgotten
<1>4. CASE Sync!Schedule!Load
  <2>1. /\ jobs' = file /\ due' \subseteq DOMAIN file /\ daemon' = "run"
        /\ UNCHANGED <<file, command, list, now, lastRan>>
    BY <1>4 DEF Sync!Schedule!Load
  <2> QED BY <1>1, <2>1 DEF Sync!Schedule!TypeOK
<1>5. CASE Sync!Schedule!RunJob
  <2>1. PICK i \in due :
           /\ due' = due \ {i} /\ jobs' = [jobs EXCEPT ![i] = Sync!Schedule!Marked(@, now)]
           /\ lastRan' = IF Sync!Schedule!Overlap THEN Sync!Schedule!Forgotten
                                                  ELSE [lastRan EXCEPT ![jobs[i].id] = now]
    BY <1>5 DEF Sync!Schedule!RunJob
  <2>2. UNCHANGED <<file, daemon, command, list, now>> BY <1>5 DEF Sync!Schedule!RunJob
  <2>3. i \in DOMAIN jobs /\ jobs[i] \in S BY <1>1
  <2> DEFINE job == Sync!Schedule!Marked(jobs[i], now)
  <2>4. job \in S BY <1>2, <2>3 DEF Sync!Schedule!Marked, Sync!Schedule!Jobs
  <2>5. jobs' = [jobs EXCEPT ![i] = job] BY <2>1
  <2> HIDE DEF job, S
  <2>6. jobs' \in Seq(S) /\ DOMAIN jobs' = DOMAIN jobs BY <1>1, <2>3, <2>4, <2>5
  <2>7. lastRan' \in [Ids -> 0 .. MaxTime]
    <3>1. [lastRan EXCEPT ![jobs[i].id] = now] \in [Ids -> 0 .. MaxTime] BY <1>1, <1>2
    <3> QED BY <1>3, <2>1, <3>1
  <2>8. due' \subseteq DOMAIN jobs' BY <1>1, <2>1, <2>6
  <2> QED BY <1>1, <2>2, <2>6, <2>7, <2>8 DEF Sync!Schedule!TypeOK, S
<1>6. CASE Sync!Schedule!Truncate
  <2>1. /\ file' = << >> /\ daemon' = "truncated" /\ UNCHANGED <<jobs, due, command, list, now, lastRan>>
    BY <1>6 DEF Sync!Schedule!Truncate
  <2> QED BY <1>1, <2>1 DEF Sync!Schedule!TypeOK
<1>7. CASE Sync!Schedule!Write
  <2>1. /\ file' = jobs /\ daemon' = "sleep" /\ UNCHANGED <<jobs, due, command, list, now>>
        /\ lastRan' \in {Sync!Schedule!Forgotten, lastRan}
    BY <1>7 DEF Sync!Schedule!Write
  <2> QED BY <1>1, <1>3, <2>1 DEF Sync!Schedule!TypeOK
<1>8. CASE Sync!Schedule!AddJob
  <2>1. PICK id \in Ids, interval \in Intervals :
           /\ list' = Sync!Schedule!Added(file, Sync!Schedule!Job(id, interval))
           /\ lastRan' = [lastRan EXCEPT ![id] = 0]
    BY <1>8 DEF Sync!Schedule!AddJob
  <2>2. command' = "loaded" /\ UNCHANGED <<file, daemon, jobs, due, now>> BY <1>8 DEF Sync!Schedule!AddJob
  <2> DEFINE job == Sync!Schedule!Job(id, interval)
  <2>3. job \in S BY <1>2 DEF Sync!Schedule!Job, Sync!Schedule!Jobs
  <2> HIDE DEF job, S
  <2>4. list' \in Seq(S)
    <3>1. CASE Sync!Schedule!Has(file, job.id)
      <4>1. list' = [i \in DOMAIN file |-> IF file[i].id = job.id THEN job ELSE file[i]]
        BY <2>1, <3>1 DEF Sync!Schedule!Added, job
      <4>2. \A i \in DOMAIN file : file[i] \in S BY <1>1
      <4>3. DOMAIN file = 1 .. Len(file) /\ Len(file) \in Nat BY <1>1
      <4> QED BY <2>3, <4>1, <4>2, <4>3
    <3>2. CASE ~Sync!Schedule!Has(file, job.id)
      <4>1. list' = Append(file, job) BY <2>1, <3>2 DEF Sync!Schedule!Added, job
      <4> QED BY <1>1, <2>3, <4>1
    <3> QED BY <3>1, <3>2
  <2>5. lastRan' \in [Ids -> 0 .. MaxTime] BY <1>1, <1>2, <2>1
  <2> QED BY <1>1, <2>2, <2>4, <2>5 DEF Sync!Schedule!TypeOK, S
<1>9. CASE Sync!Schedule!RemoveJob
  <2>1. command' = "loaded" /\ UNCHANGED <<file, daemon, jobs, due, now, lastRan>>
    BY <1>9 DEF Sync!Schedule!RemoveJob
  <2>2. PICK id \in Ids : list' \in Sync!Schedule!Without(file, id) BY <1>9 DEF Sync!Schedule!RemoveJob
  <2>3. list' \in Seq(S) BY <1>1, <2>2, Removed
  <2> QED BY <1>1, <2>1, <2>3 DEF Sync!Schedule!TypeOK
<1>10. CASE Sync!Schedule!CommandTruncates
  <2>1. /\ file' = << >> /\ command' = "truncated" /\ UNCHANGED <<daemon, jobs, due, list, now, lastRan>>
    BY <1>10 DEF Sync!Schedule!CommandTruncates
  <2> QED BY <1>1, <2>1 DEF Sync!Schedule!TypeOK
<1>11. CASE Sync!Schedule!CommandWrites
  <2>1. /\ file' = list /\ command' = "none" /\ UNCHANGED <<daemon, jobs, due, list, now>>
        /\ lastRan' \in {Sync!Schedule!Forgotten, lastRan}
    BY <1>11 DEF Sync!Schedule!CommandWrites
  <2> QED BY <1>1, <1>3, <2>1 DEF Sync!Schedule!TypeOK
<1>12. CASE Sync!Schedule!Tick
  <2>1. now < MaxTime /\ now' = now + 1 /\ UNCHANGED <<file, daemon, jobs, due, command, list, lastRan>>
    BY <1>12 DEF Sync!Schedule!Tick
  <2>2. now' \in 1 .. MaxTime BY <1>1, <1>2, <2>1
  <2> QED BY <1>1, <2>1, <2>2 DEF Sync!Schedule!TypeOK
<1>13. CASE Sync!Schedule!Crash
  <2>1. UNCHANGED <<file, jobs, due, list, now>> BY <1>13 DEF Sync!Schedule!Crash
  <2>2. /\ daemon' \in {"sleep", daemon} /\ command' \in {"none", command}
        /\ lastRan' \in {lastRan, [id \in Ids |-> IF Sync!Schedule!Has(jobs, id) THEN 0 ELSE lastRan[id]]}
    BY <1>13 DEF Sync!Schedule!Crash
  <2>3. [id \in Ids |-> IF Sync!Schedule!Has(jobs, id) THEN 0 ELSE lastRan[id]] \in [Ids -> 0 .. MaxTime]
    BY <1>1, <1>2
  <2>4. lastRan' \in [Ids -> 0 .. MaxTime] BY <1>1, <2>2, <2>3
  <2> QED BY <1>1, <2>1, <2>2, <2>4 DEF Sync!Schedule!TypeOK
<1>14. CASE UNCHANGED Sync!Schedule!vars BY <1>1, <1>14 DEF Sync!Schedule!TypeOK, Sync!Schedule!vars
<1> QED BY <1>4, <1>5, <1>6, <1>7, <1>8, <1>9, <1>10, <1>11, <1>12, <1>13, <1>14
    DEF Sync!Schedule!Next, Sync!Schedule!Daemon
-----------------------------------------------------------------------------
(* The behaviours of MCTransfers that synchronize or schedule.              *)

LEMMA OneMachine ==
    ASSUME [MCNext]_mcVars
    PROVE  /\ op' = op
           /\ op = "oneWay" => Sync!OneWay!Next \/ UNCHANGED mcVars
           /\ op = "window" => Sync!Dialog!Next \/ UNCHANGED mcVars
           /\ op = "schedule" => Sync!Schedule!Next \/ UNCHANGED mcVars
<1>1. CASE UNCHANGED mcVars BY <1>1 DEF mcVars
<1>2. CASE Syncs(Sync!Next)
  <2>1. Sync!OneWays(Sync!OneWay!Next) \/ Sync!Windows(Sync!Dialog!Next) \/ Sync!Schedules(Sync!Schedule!Next)
    BY <1>2 DEF Syncs, Sync!Next
  <2> QED BY <2>1 DEF Sync!OneWays, Sync!Windows, Sync!Schedules
<1>3. CASE \/ Downloads(Download!Next) \/ Uploads(Upload!Next)
           \/ LaneDownloads(Next) \/ LaneUploads(LaneUpload!Next) \/ Bundles(Bundle!Next)
  BY <1>3 DEF Downloads, Uploads, LaneDownloads, LaneUploads, Bundles
<1> QED BY <1>1, <1>2, <1>3 DEF MCNext

LEMMA SyncRests ==
    ASSUME UNCHANGED mcVars
    PROVE  /\ UNCHANGED Sync!vars /\ UNCHANGED Sync!OneWay!vars /\ UNCHANGED Sync!Dialog!vars
           /\ UNCHANGED Sync!Schedule!vars
BY DEF mcVars, syncVars, Sync!vars, Sync!treeVars, Sync!oneWayVars, Sync!windowVars, Sync!scheduleVars,
       Sync!OneWay!vars, Sync!OneWay!options, Sync!OneWay!trees, Sync!OneWay!lists, Sync!OneWay!counts,
       Sync!Dialog!vars, Sync!Dialog!sides, Sync!Dialog!counts, Sync!Schedule!vars, Sync!Schedule!bounds

LEMMA OtherMachines ==
    ASSUME MCInit
    PROVE  /\ op = "oneWay" => Sync!OneWay!Init
           /\ op = "window" => Sync!Dialog!Init
           /\ op = "schedule" => Sync!Schedule!Init
<1>1. CASE FileInit \/ op = "bundle"
  BY <1>1 DEF FileInit
<1>2. CASE Sync!Init BY <1>2 DEF Sync!Init
<1> QED BY <1>1, <1>2 DEF MCInit

\* The synchronization of a window removes no file; a mirror replaces a file that is still
\* as it was listed only by one that was listed as not older; and the content of the last
\* edit stays on a side, however many mirrors, listings and copies follow one another or
\* overlap: for any numbers of edits, clicks and failures and any tolerance.
THEOREM ChangesKept == MCSpec => KeepsChanges
<1> DEFINE SInv == op = "window" => WindowInv
<1>1. MCInit => SInv BY OtherMachines, WindowStarts
<1>2. SInv /\ [MCNext]_mcVars => SInv'
  BY OneMachine, SyncRests, WindowStep
<1>3. SInv /\ [MCNext]_mcVars => [op = "window" => Sync!Dialog!KeepsChanges]_(Sync!vars)
  BY OneMachine, SyncRests, WindowStep
<1> HIDE DEF SInv
<1>4. MCSpec => [][op = "window" => Sync!Dialog!KeepsChanges]_(Sync!vars)
  BY <1>1, <1>2, <1>3, PTL DEF MCSpec
<1> QED BY <1>4 DEF KeepsChanges, Sync!KeepsChanges

\* No job runs again before its interval is over, and a one-shot never, for any
\* number of jobs, runs, commands and kills.
THEOREM ScheduleHolds == MCSpec => ScheduleKept
<1> DEFINE SInv == op = "schedule" => ScheduleInv
<1>1. MCInit => SInv BY OtherMachines, ScheduleStarts
<1>2. SInv /\ [MCNext]_mcVars => SInv'
  BY OneMachine, SyncRests, ScheduleStep
<1>3. SInv /\ [MCNext]_mcVars => [op = "schedule" => Sync!Schedule!ScheduleKept]_(Sync!vars)
  BY OneMachine, SyncRests, ScheduleStep
<1> HIDE DEF SInv
<1>4. MCSpec => [][op = "schedule" => Sync!Schedule!ScheduleKept]_(Sync!vars)
  BY <1>1, <1>2, <1>3, PTL DEF MCSpec
<1> QED BY <1>4 DEF ScheduleKept, Sync!ScheduleKept

\* A `sync` that exits with 0 and could list its target has made the target hold
\* what the source held when it was listed and still holds, and with --delete
\* nothing else, but for the dotfiles of the local side, which an upload takes for
\* missing and a download does not delete; whatever runs went before it, failed or were overtaken by edits;
\* for any clock tolerance and any number of runs, edits and failures.
THEOREM MirrorsHold == MCSpec => []MirrorComplete
<1> DEFINE SInv == /\ op = "oneWay" => OneWayInv
                   /\ op = "window" => WindowInv
                   /\ op = "schedule" => Sync!Schedule!TypeOK
<1>1. MCInit => SInv BY OtherMachines, OneWayStarts, WindowStarts, ScheduleTyped
<1>2. SInv /\ [MCNext]_mcVars => SInv'
  <2> SUFFICES ASSUME SInv, [MCNext]_mcVars PROVE SInv' OBVIOUS
  <2>1. op' = op BY OneMachine
  <2>2. CASE op = "oneWay" BY <2>1, <2>2, OneMachine, SyncRests, OneWayStep, OneWayRests
  <2>3. CASE op = "window" BY <2>1, <2>3, OneMachine, SyncRests, WindowStep
  <2>4. CASE op = "schedule" BY <2>1, <2>4, OneMachine, SyncRests, ScheduleTypesKept
  <2> QED BY <2>1, <2>2, <2>3, <2>4
<1>3. SInv => MirrorComplete
  BY OneWayMirrors, WindowTyped DEF MirrorComplete, Sync!MirrorComplete, Sync!TypeOK
<1> HIDE DEF SInv
<1> QED BY <1>1, <1>2, <1>3, PTL DEF MCSpec

\* Where copies keep their times, the run after one that mirrored its source plans to
\* skip every file, but for dotfiles, which a download fetches again.
THEOREM RepeatsRest == KeepsTimes /\ MCSpec => RepeatIsNoOp
<1> DEFINE SInv == KeepsTimes /\ (op = "oneWay" => OneWayInv)
<1>1. KeepsTimes /\ MCInit => SInv BY OtherMachines, OneWayStarts
<1>2. SInv /\ [MCNext]_mcVars => SInv' BY OneMachine, SyncRests, OneWayStep, OneWayRests
<1>3. SInv /\ [MCNext]_mcVars => [op = "oneWay" => Sync!OneWay!RepeatIsNoOp]_(Sync!vars)
  BY OneMachine, SyncRests, OneWayRepeats DEF Sync!OneWay!RepeatIsNoOp
<1> HIDE DEF SInv
<1>4. KeepsTimes /\ MCSpec => [][op = "oneWay" => Sync!OneWay!RepeatIsNoOp]_(Sync!vars)
  BY <1>1, <1>2, <1>3, PTL DEF MCSpec
<1> QED BY <1>4 DEF RepeatIsNoOp, Sync!RepeatIsNoOp
-----------------------------------------------------------------------------
(* A folder as one stream.                                                 *)

Names == Files \union {Bundle!None, Bundle!Prefix}
Unit == [kind : {"zero", "rest"}]
        \union [kind : {"header"}, type : {"0", "L", "x", "5"}, name : Names, size : Nat]
        \union [kind : {"name"}, name : Files]
        \union [kind : {"data"}, file : Files, unit : Nat]

EntryEnd(b) == b + 2 + archive[b + 1].size + Bundle!Padding(archive[b + 1].size)

\* The name under which a reader is to put a file: the one announced by the
\* entry before, if that does, or the one in the header.
Announced(B, b) == b - 4 \in B /\ archive[b - 3].type = "L"
NameOf(B, b) == IF Announced(B, b) THEN archive[b - 1].name ELSE archive[b + 1].name

\* An entry holds what its file is to have at the other end.
HoldsFile(f, b) ==
    /\ f \in DOMAIN source /\ archive[b + 1].size = Len(source[f])
    /\ \A k \in 1 .. Len(source[f]) : archive[b + 2 + k] = source[f][k]

\* An entry of the archive begins at b.
Entry(B, end, b) ==
    /\ archive[b + 1].kind = "header" /\ archive[b + 1].size \in Nat
    /\ archive[b + 1].type \in {"0", "L", "x", "5"}
    /\ EntryEnd(b) \in B /\ \A c \in B : b < c => EntryEnd(b) <= c
    /\ archive[b + 1].type = "5" => archive[b + 1].size = 0
    /\ archive[b + 1].type = "L" =>
          archive[b + 1].size = 1 /\ format = "gnu" /\ archive[b + 3].name \in LongNames /\ b + 4 # end
    /\ archive[b + 1].type = "x" => archive[b + 1].size = 1 /\ format = "pax"
    /\ archive[b + 1].type = "0" =>
          HoldsFile(NameOf(B, b), b) \/ (format = "pax" /\ NameOf(B, b) = Bundle!Prefix)

\* The entries begin at B, one after another, and end at end.
Entries(B, end) ==
    /\ B \subseteq 0 .. end /\ 0 \in B /\ end \in B /\ end <= Len(archive)
    /\ \A b \in B \ {end} : Entry(B, end, b)
    /\ \A f \in Bundle!Named(source) :
          \E b \in B \ {end} : archive[b + 1].type = "0" /\ NameOf(B, b) = f

\* A reader is at the beginning of an entry or has come to the end of a cut
\* stream.  What it has extracted is right, and of a whole stream it has
\* extracted every file it has passed.
Reads(B, end) ==
    /\ temp \in Seq(Unit) /\ Len(temp) <= Len(archive)
    /\ \A k \in 1 .. Len(temp) : temp[k] = archive[k]
    /\ at \in Nat /\ at <= Len(temp) /\ (at \in B \/ at = Len(temp))
    /\ at < Len(temp) => longName = IF Announced(B, at) THEN archive[at - 1].name ELSE Bundle!None
    /\ \A f \in Bundle!Named(out) : f \in DOMAIN source /\ out[f] = source[f]
    /\ ~cut =>
          /\ Len(temp) = Len(archive) /\ at \in B
          /\ \A b \in B \ {end} : b < at /\ archive[b + 1].type = "0" => NameOf(B, b) \in DOMAIN out

StreamKnown(B, end) ==
    /\ Entries(B, end)
    /\ step = "write" => end = Len(archive)
    /\ step \in {"carry", "read"} =>
          Len(archive) = end + 4 /\ \A k \in end + 1 .. end + 4 : archive[k] = Bundle!Zero
    /\ step = "read" => Reads(B, end)

BundleInv ==
    /\ format \in {"gnu", "pax"} /\ step \in {"write", "carry", "read", "done"}
    /\ bundleDown \in BOOLEAN /\ misfit \in BOOLEAN /\ cut \in BOOLEAN
    /\ archive \in Seq(Unit) /\ todo \subseteq Files
    /\ DOMAIN source = Files \ todo /\ \A f \in DOMAIN source : source[f] \in Seq(Unit)
    /\ step \in {"write", "carry"} => at = 0 /\ longName = Bundle!None /\ out = Bundle!NoFiles /\ ~cut
    /\ outcome # Bundle!None => step = "done"
    /\ ~misfit /\ step # "done" => \E B \in SUBSET Nat, end \in Nat : StreamKnown(B, end)
    /\ outcome = "done" /\ ~misfit =>
        /\ bundleDown \/ ~cut =>
              \A f \in Bundle!Named(out) : f \in DOMAIN source /\ out[f] = source[f]
        /\ ~cut => Bundle!Named(source) \subseteq DOMAIN out

LEMMA BundleBounds ==
    /\ LongNames \subseteq Files /\ MaxUnits \in Nat /\ OctalLimit \in Nat \ {0}
    /\ Bundle!None = "none" /\ Bundle!Prefix = "first hundred bytes"
BY BoundsAssumption DEF BoundsAssumption, Bundle!None, Bundle!Prefix

LEMMA BundleStarts == Bundle!Init => BundleInv
<1> SUFFICES ASSUME Bundle!Init PROVE BundleInv OBVIOUS
<1>1. /\ format \in {"gnu", "pax"} /\ todo = Files /\ archive = Bundle!Header("5", Bundle!None, 0)
      /\ source = Bundle!NoFiles /\ at = 0 /\ longName = Bundle!None /\ out = Bundle!NoFiles
      /\ step = "write" /\ outcome = Bundle!None /\ bundleDown \in BOOLEAN
  BY DEF Bundle!Init
<1>2. misfit = FALSE /\ cut = FALSE BY DEF Bundle!Init
<1>3. archive = <<[kind |-> "header", type |-> "5", name |-> Bundle!None, size |-> 0], [kind |-> "rest"]>>
  BY <1>1 DEF Bundle!Header
<1>4. archive \in Seq(Unit) /\ Len(archive) = 2
  <2>1. [kind |-> "header", type |-> "5", name |-> Bundle!None, size |-> 0] \in Unit BY DEF Unit, Names
  <2>2. [kind |-> "rest"] \in Unit BY DEF Unit
  <2> QED BY <1>3, <2>1, <2>2
<1>5. DOMAIN source = {} BY <1>1 DEF Bundle!NoFiles
<1>6. Entries({0, 2}, 2)
  <2>1. archive[1].kind = "header" /\ archive[1].type = "5" /\ archive[1].size = 0 BY <1>3
  <2>2. EntryEnd(0) = 2
    <3>1. archive[0 + 1].size = 0 BY <2>1
    <3>2. Bundle!Padding(0) = 0 BY DEF Bundle!Padding
    <3> QED BY <3>1, <3>2 DEF EntryEnd
  <2>3. Entry({0, 2}, 2, 0) BY <2>1, <2>2 DEF Entry
  <2>4. Bundle!Named(source) = {} BY <1>5 DEF Bundle!Named
  <2> QED BY <1>4, <2>3, <2>4 DEF Entries
<1>7. StreamKnown({0, 2}, 2) BY <1>1, <1>4, <1>6 DEF StreamKnown
<1>8. {0, 2} \in SUBSET Nat /\ 2 \in Nat OBVIOUS
<1>9. outcome # "done" BY <1>1, BundleBounds
<1>10. misfit \in BOOLEAN /\ cut \in BOOLEAN BY <1>2
<1> QED BY <1>1, <1>2, <1>4, <1>5, <1>7, <1>8, <1>9, <1>10 DEF BundleInv

-----------------------------------------------------------------------------
(* Writing it. *)

LEMMA PaddingIs == ASSUME NEW n \in Nat PROVE Bundle!Padding(n) \in 0 .. 1
BY DEF Bundle!Padding

LEMMA EntryBounds ==
    ASSUME NEW B \in SUBSET Nat, NEW end \in Nat, Entries(B, end), archive \in Seq(Unit),
           NEW b \in B \ {end}
    PROVE  /\ b \in Nat /\ archive[b + 1].size \in Nat
           /\ b + 2 + archive[b + 1].size <= EntryEnd(b)
           /\ EntryEnd(b) \in B /\ EntryEnd(b) <= end /\ end <= Len(archive) /\ Len(archive) \in Nat
<1>1. Entry(B, end, b) /\ end <= Len(archive) /\ B \subseteq 0 .. end BY DEF Entries
<1>2. archive[b + 1].size \in Nat /\ EntryEnd(b) \in B BY <1>1 DEF Entry
<1>3. b \in Nat /\ EntryEnd(b) \in 0 .. end BY <1>1, <1>2
<1>a. Len(archive) \in Nat OBVIOUS
<1> DEFINE size == archive[b + 1].size
<1>4. size \in Nat /\ EntryEnd(b) = b + 2 + size + Bundle!Padding(size) BY <1>2 DEF EntryEnd
<1> HIDE DEF size
<1>5. b + 2 + size <= EntryEnd(b) BY <1>3, <1>4, PaddingIs
<1> QED BY <1>1, <1>2, <1>3, <1>a, <1>5 DEF size

\* The archive and the places where its entries begin grow.
Grown(B, end, B1, end1) ==
    /\ B \in SUBSET Nat /\ end \in Nat /\ Entries(B, end)
    /\ archive \in Seq(Unit) /\ archive' \in Seq(Unit) /\ end <= Len(archive')
    /\ \A k \in 1 .. end : archive'[k] = archive[k]
    /\ format' = format
    /\ \A f \in DOMAIN source : f \in DOMAIN source' /\ source'[f] = source[f]
    /\ B1 \in SUBSET Nat /\ end1 \in Nat /\ B \subseteq B1
    /\ end <= end1 /\ \A c \in B1 \ B : c > end

\* An entry stays as the archive grows.
LEMMA EntryStays ==
    ASSUME NEW B, NEW end, NEW B1, NEW end1, Grown(B, end, B1, end1)
    PROVE  \A b \in B \ {end} :
              Entry(B1, end1, b)' /\ NameOf(B1, b)' = NameOf(B, b) /\ archive'[b + 1] = archive[b + 1]
<1> SUFFICES ASSUME NEW b \in B \ {end}
             PROVE  Entry(B1, end1, b)' /\ NameOf(B1, b)' = NameOf(B, b) /\ archive'[b + 1] = archive[b + 1]
  OBVIOUS
<1>0. /\ B \in SUBSET Nat /\ end \in Nat /\ Entries(B, end)
      /\ archive \in Seq(Unit) /\ archive' \in Seq(Unit) /\ end <= Len(archive')
      /\ \A k \in 1 .. end : archive'[k] = archive[k]
      /\ format' = format
      /\ \A f \in DOMAIN source : f \in DOMAIN source' /\ source'[f] = source[f]
      /\ B1 \in SUBSET Nat /\ end1 \in Nat /\ B \subseteq B1
      /\ end <= end1 /\ \A c \in B1 \ B : c > end
  BY DEF Grown
<1>1. Entry(B, end, b) /\ B \subseteq 0 .. end BY <1>0 DEF Entries
<1>2. /\ b \in Nat /\ archive[b + 1].size \in Nat /\ b + 2 + archive[b + 1].size <= EntryEnd(b)
      /\ EntryEnd(b) \in B /\ EntryEnd(b) \in Nat /\ EntryEnd(b) <= end
  BY <1>0, <1>1, EntryBounds DEF Entries
<1>3. archive'[b + 1] = archive[b + 1] BY <1>0, <1>2
<1>4. EntryEnd(b)' = EntryEnd(b) BY <1>0, <1>3 DEF EntryEnd
<1>5. b - 4 \in B1 <=> b - 4 \in B
  <2>1. b - 4 <= end BY <1>2, <1>0
  <2>2. b - 4 \notin B1 \ B BY <1>0, <2>1
  <2> QED BY <1>0, <2>2
<1>6. b - 4 \in B => archive'[b - 3] = archive[b - 3] /\ archive'[b - 1] = archive[b - 1]
  <2> SUFFICES ASSUME b - 4 \in B PROVE b - 3 \in 1 .. end /\ b - 1 \in 1 .. end BY <1>0
  <2>1. b - 4 >= 0 BY <1>0, <1>1
  <2> QED BY <1>0, <1>2, <2>1
<1>7. NameOf(B1, b)' = NameOf(B, b) /\ (Announced(B1, b)' <=> Announced(B, b))
  BY <1>0, <1>3, <1>5, <1>6 DEF NameOf, Announced
<1>8. ASSUME NEW f, HoldsFile(f, b) PROVE HoldsFile(f, b)'
  <2>1. f \in DOMAIN source /\ source'[f] = source[f] /\ f \in DOMAIN source' /\ archive[b + 1].size = Len(source[f])
    BY <1>0, <1>8 DEF HoldsFile
  <2>2. \A k \in 1 .. Len(source[f]) : b + 2 + k \in 1 .. end BY <1>0, <1>2, <2>1
  <2> QED BY <1>0, <1>3, <1>8, <2>1, <2>2 DEF HoldsFile
<1>9. archive[b + 1].type = "L" => archive'[b + 3].name = archive[b + 3].name /\ b + 4 # end1
  <2> SUFFICES ASSUME archive[b + 1].type = "L" PROVE b + 3 \in 1 .. end /\ b + 4 # end1 BY <1>0
  <2>1. archive[b + 1].size = 1 BY <1>0, <1>1 DEF Entry
  <2>2. EntryEnd(b) = b + 4 /\ b + 4 # end BY <1>0, <1>1, <1>2, <2>1 DEF Entry, EntryEnd, Bundle!Padding
  <2> QED BY <1>0, <1>2, <2>2
<1>10. EntryEnd(b) \in B1 /\ \A c \in B1 : b < c => EntryEnd(b) <= c
  <2>1. \A c \in B1 \ B : EntryEnd(b) <= c BY <1>0, <1>2
  <2>2. \A c \in B : b < c => EntryEnd(b) <= c BY <1>0, <1>1 DEF Entry
  <2> QED BY <1>0, <1>2, <2>1, <2>2
<1>11. archive'[b + 1].type = "0" =>
          HoldsFile(NameOf(B1, b), b)' \/ (format' = "pax" /\ NameOf(B1, b)' = Bundle!Prefix)
  <2> SUFFICES ASSUME archive'[b + 1].type = "0"
               PROVE  HoldsFile(NameOf(B1, b), b)' \/ (format' = "pax" /\ NameOf(B1, b)' = Bundle!Prefix)
    OBVIOUS
  <2>1. HoldsFile(NameOf(B, b), b) \/ (format = "pax" /\ NameOf(B, b) = Bundle!Prefix)
    BY <1>0, <1>1, <1>3 DEF Entry
  <2>2. CASE HoldsFile(NameOf(B, b), b)
    <3>1. HoldsFile(NameOf(B, b), b)
          /\ NameOf(B, b) \in DOMAIN source' /\ source'[NameOf(B, b)] = source[NameOf(B, b)]
      BY <1>0, <2>2 DEF HoldsFile
    <3>2. HoldsFile(NameOf(B1, b), b)'
      <4>1. \A k \in 1 .. Len(source[NameOf(B, b)]) : b + 2 + k \in 1 .. end
        BY <1>0, <1>2, <2>2 DEF HoldsFile
      <4> QED BY <1>0, <1>3, <1>7, <3>1, <4>1 DEF HoldsFile
    <3> QED BY <1>0, <3>2
  <2>3. CASE format = "pax" /\ NameOf(B, b) = Bundle!Prefix
    BY <1>0, <1>7, <2>3 DEF Bundle!Prefix
  <2> QED BY <1>0, <2>1, <2>2, <2>3
<1> QED BY <1>0, <1>1, <1>3, <1>4, <1>7, <1>9, <1>10, <1>11 DEF Entry

LEMMA HeaderUnits ==
    ASSUME NEW type \in {"0", "L", "x", "5"}, NEW name \in Names, NEW size \in Nat
    PROVE  /\ Bundle!Header(type, name, size) \in Seq(Unit) /\ Len(Bundle!Header(type, name, size)) = 2
           /\ Bundle!Header(type, name, size)[1] = [kind |-> "header", type |-> type, name |-> name, size |-> size]
<1>1. [kind |-> "header", type |-> type, name |-> name, size |-> size] \in Unit BY DEF Unit
<1>2. [kind |-> "rest"] \in Unit BY DEF Unit
<1> QED BY <1>1, <1>2 DEF Bundle!Header

LEMMA ZeroUnits ==
    ASSUME NEW n \in Nat
    PROVE  /\ Bundle!Zeros(n) \in Seq(Unit) /\ Len(Bundle!Zeros(n)) = n
           /\ \A k \in 1 .. n : Bundle!Zeros(n)[k] = Bundle!Zero
<1>1. Bundle!Zero \in Unit BY DEF Bundle!Zero, Unit
<1> QED BY <1>1 DEF Bundle!Zeros

LEMMA Joined ==
    ASSUME NEW s \in Seq(Unit), NEW t \in Seq(Unit)
    PROVE  /\ s \o t \in Seq(Unit) /\ Len(s \o t) = Len(s) + Len(t)
           /\ \A k \in 1 .. Len(s) : (s \o t)[k] = s[k]
           /\ \A k \in 1 .. Len(t) : (s \o t)[Len(s) + k] = t[k]
BY Chained

\* Where the header of a file is in its entries, and what is in it.
HeaderAt(f) == IF f \in LongNames THEN 4 ELSE 0
HeaderName(f) == IF f \in LongNames THEN Bundle!Prefix ELSE f

LEMMA EntryUnits ==
    ASSUME NEW f \in Files, NEW size \in Nat, format \in {"gnu", "pax"}
    PROVE  LET h == Bundle!EntryHeader(f, size)  m == HeaderAt(f)
           IN  /\ h \in Seq(Unit) /\ Len(h) = m + 2
               /\ h[m + 1] = [kind |-> "header", type |-> "0", name |-> HeaderName(f), size |-> size]
               /\ f \in LongNames =>
                    /\ h[1] = [kind |-> "header", type |-> IF format = "gnu" THEN "L" ELSE "x",
                               name |-> Bundle!None, size |-> 1]
                    /\ h[3].name = f
<1> DEFINE type == IF format = "gnu" THEN "L" ELSE "x"
           h == Bundle!EntryHeader(f, size)
<1>1. CASE f \notin LongNames
  <2>1. h = Bundle!Header("0", f, size) BY <1>1 DEF Bundle!EntryHeader
  <2>2. f \in Names BY DEF Names
  <2> QED BY <1>1, <2>1, <2>2, HeaderUnits DEF HeaderAt, HeaderName
<1>2. CASE f \in LongNames
  <2> DEFINE a == Bundle!Header(type, Bundle!None, 1)
             b == <<[kind |-> "name", name |-> f], Bundle!Zero>>
             c == Bundle!Header("0", Bundle!Prefix, size)
  <2>1. h = (a \o b) \o c BY <1>2 DEF Bundle!EntryHeader, Bundle!NameEntry
  <2>2. /\ a \in Seq(Unit) /\ Len(a) = 2
        /\ a[1] = [kind |-> "header", type |-> type, name |-> Bundle!None, size |-> 1]
    <3>1. type \in {"0", "L", "x", "5"} /\ Bundle!None \in Names BY DEF Names
    <3> HIDE DEF type
    <3> QED BY <3>1, HeaderUnits
  <2>3. b \in Seq(Unit) /\ Len(b) = 2 /\ b[1].name = f
    <3>1. [kind |-> "name", name |-> f] \in Unit BY DEF Unit
    <3>2. Bundle!Zero \in Unit BY DEF Unit, Bundle!Zero
    <3> QED BY <3>1, <3>2
  <2>4. /\ c \in Seq(Unit) /\ Len(c) = 2
        /\ c[1] = [kind |-> "header", type |-> "0", name |-> Bundle!Prefix, size |-> size]
    <3>1. Bundle!Prefix \in Names BY DEF Names
    <3> QED BY <3>1, HeaderUnits
  <2> HIDE DEF a, b, c
  <2>5. /\ a \o b \in Seq(Unit) /\ Len(a \o b) = 4 /\ (a \o b)[1] = a[1] /\ (a \o b)[3] = b[1]
    <3>1. /\ a \o b \in Seq(Unit) /\ Len(a \o b) = Len(a) + Len(b)
          /\ \A k \in 1 .. Len(a) : (a \o b)[k] = a[k]
          /\ \A k \in 1 .. Len(b) : (a \o b)[Len(a) + k] = b[k]
      BY <2>2, <2>3, Joined
    <3>2. 1 \in 1 .. Len(a) /\ 1 \in 1 .. Len(b) /\ Len(a) + 1 = 3 BY <2>2, <2>3
    <3> QED BY <2>2, <2>3, <3>1, <3>2
  <2>6. h \in Seq(Unit) /\ Len(h) = 6 /\ h[1] = a[1] /\ h[3] = b[1] /\ h[5] = c[1]
    <3> DEFINE ab == a \o b
    <3> HIDE DEF ab
    <3>1. ab \in Seq(Unit) /\ Len(ab) = 4 BY <2>5 DEF ab
    <3>2. /\ ab \o c \in Seq(Unit) /\ Len(ab \o c) = Len(ab) + Len(c)
          /\ \A k \in 1 .. Len(ab) : (ab \o c)[k] = ab[k]
          /\ \A k \in 1 .. Len(c) : (ab \o c)[Len(ab) + k] = c[k]
      BY <2>4, <3>1, Joined
    <3>3. 1 \in 1 .. Len(ab) /\ 3 \in 1 .. Len(ab) /\ 1 \in 1 .. Len(c) /\ Len(ab) + 1 = 5 BY <2>4, <3>1
    <3>4. h = ab \o c BY <2>1 DEF ab
    <3> HIDE DEF h
    <3> QED BY <2>4, <2>5, <3>1, <3>2, <3>3, <3>4 DEF ab
  <2> QED BY <1>2, <2>2, <2>3, <2>4, <2>6 DEF HeaderAt, HeaderName
<1> QED BY <1>1, <1>2

\* What an entry that is written adds to the archive.
Adds(f, size, field, data, n, to) ==
    /\ archive \in Seq(Unit) /\ format \in {"gnu", "pax"}
    /\ f \in Files /\ size \in Nat /\ field \in Nat /\ data \in Seq(Unit)
    /\ archive' = archive \o Bundle!EntryHeader(f, field) \o data \o Bundle!Zeros(Bundle!Padding(size))
    /\ n \in Nat /\ n = Len(archive) /\ to \in Nat /\ to = n + HeaderAt(f)

Added(f, size, field, data, n, to) ==
    /\ archive' \in Seq(Unit) /\ Len(archive') = to + 2 + Len(data) + Bundle!Padding(size)
    /\ \A k \in 1 .. n : archive'[k] = archive[k]
    /\ archive'[to + 1] = [kind |-> "header", type |-> "0", name |-> HeaderName(f), size |-> field]
    /\ \A k \in 1 .. Len(data) : archive'[to + 2 + k] = data[k]
    /\ f \in LongNames =>
         /\ archive'[n + 1] = [kind |-> "header", type |-> IF format = "gnu" THEN "L" ELSE "x",
                               name |-> Bundle!None, size |-> 1]
         /\ archive'[n + 3].name = f

LEMMA WriteUnits ==
    ASSUME NEW f, NEW size, NEW field, NEW data, NEW n, NEW to, Adds(f, size, field, data, n, to)
    PROVE  Added(f, size, field, data, n, to)
<1>0. /\ archive \in Seq(Unit) /\ format \in {"gnu", "pax"}
      /\ f \in Files /\ size \in Nat /\ field \in Nat /\ data \in Seq(Unit)
      /\ archive' = archive \o Bundle!EntryHeader(f, field) \o data \o Bundle!Zeros(Bundle!Padding(size))
      /\ n \in Nat /\ n = Len(archive) /\ to \in Nat /\ to = n + HeaderAt(f)
  BY DEF Adds
<1> DEFINE h == Bundle!EntryHeader(f, field)  z == Bundle!Zeros(Bundle!Padding(size))
           m == HeaderAt(f)
<1>1. /\ h \in Seq(Unit) /\ Len(h) = m + 2
      /\ h[m + 1] = [kind |-> "header", type |-> "0", name |-> HeaderName(f), size |-> field]
      /\ f \in LongNames =>
           /\ h[1] = [kind |-> "header", type |-> IF format = "gnu" THEN "L" ELSE "x",
                      name |-> Bundle!None, size |-> 1]
           /\ h[3].name = f
  BY <1>0, EntryUnits
<1>2. m \in {0, 4} /\ (f \in LongNames => m = 4) BY DEF HeaderAt
<1>3. z \in Seq(Unit) /\ Len(z) = Bundle!Padding(size) /\ Bundle!Padding(size) \in Nat
  <2>1. Bundle!Padding(size) \in Nat BY <1>0, PaddingIs
  <2> QED BY <1>0, <2>1, ZeroUnits
<1>4. archive' = ((archive \o h) \o data) \o z BY <1>0
<1> HIDE DEF h, z, m
<1> DEFINE a == archive \o h
<1>5. /\ a \in Seq(Unit) /\ Len(a) = n + m + 2
      /\ \A k \in 1 .. n : a[k] = archive[k]
      /\ \A k \in 1 .. m + 2 : a[n + k] = h[k]
  <2>1. /\ a \in Seq(Unit) /\ Len(a) = n + Len(h)
        /\ \A k \in 1 .. n : a[k] = archive[k]
        /\ \A k \in 1 .. Len(h) : a[n + k] = h[k]
    BY <1>0, <1>1, Joined
  <2> HIDE DEF a
  <2> QED BY <1>0, <1>1, <1>2, <2>1
<1> HIDE DEF a
<1> DEFINE b == a \o data
<1>6. /\ b \in Seq(Unit) /\ Len(b) = Len(a) + Len(data)
      /\ \A k \in 1 .. Len(a) : b[k] = a[k]
      /\ \A k \in 1 .. Len(data) : b[Len(a) + k] = data[k]
  BY <1>0, <1>5, Joined
<1> HIDE DEF b
<1>7. /\ archive' \in Seq(Unit) /\ Len(archive') = Len(b) + Len(z)
      /\ \A k \in 1 .. Len(b) : archive'[k] = b[k]
  <2>1. archive' = b \o z BY <1>0, <1>4 DEF a, b
  <2>2. b \in Seq(Unit) /\ z \in Seq(Unit) BY <1>0, <1>3, <1>6
  <2>3. /\ b \o z \in Seq(Unit) /\ Len(b \o z) = Len(b) + Len(z)
        /\ \A k \in 1 .. Len(b) : (b \o z)[k] = b[k]
    BY <1>0, <2>2, Joined
  <2> QED BY <1>0, <2>1, <2>3
<1>8. n \in Nat /\ Len(data) \in Nat BY <1>0
<1>9. Len(archive') = n + m + 2 + Len(data) + Bundle!Padding(size)
  BY <1>0, <1>2, <1>3, <1>5, <1>6, <1>7, <1>8
<1>10. \A k \in 1 .. n : archive'[k] = archive[k]
  BY <1>0, <1>2, <1>5, <1>6, <1>7, <1>8
<1>11. \A k \in 1 .. m + 2 : archive'[n + k] = h[k]
  <2> SUFFICES ASSUME NEW k \in 1 .. m + 2 PROVE archive'[n + k] = h[k] OBVIOUS
  <2>1. n + k \in 1 .. Len(a) /\ n + k \in 1 .. Len(b) BY <1>0, <1>2, <1>5, <1>6, <1>8
  <2> QED BY <1>0, <1>5, <1>6, <1>7, <2>1
<1>12. \A k \in 1 .. Len(data) : archive'[n + m + 2 + k] = data[k]
  <2> SUFFICES ASSUME NEW k \in 1 .. Len(data) PROVE archive'[n + m + 2 + k] = data[k] OBVIOUS
  <2>1. n + m + 2 + k \in 1 .. Len(b) /\ n + m + 2 + k = Len(a) + k BY <1>0, <1>2, <1>5, <1>6, <1>8
  <2> QED BY <1>0, <1>6, <1>7, <2>1
<1>13. archive'[n + m + 1] = h[m + 1]
  <2>1. m + 1 \in 1 .. m + 2 /\ n + (m + 1) = n + m + 1 BY <1>0, <1>2, <1>8
  <2> QED BY <1>0, <1>11, <2>1
<1>14. f \in LongNames => archive'[n + 1] = h[1] /\ archive'[n + 3] = h[3]
  <2>1. f \in LongNames => 1 \in 1 .. m + 2 /\ 3 \in 1 .. m + 2 BY <1>0, <1>2
  <2> QED BY <1>0, <1>11, <2>1
<1>15. to = n + m BY <1>0 DEF m
<1> QED BY <1>0, <1>1, <1>7, <1>9, <1>10, <1>12, <1>13, <1>14, <1>15 DEF Added

LEMMA BundleWrite ==
    ASSUME BundleInv, step = "write",
           NEW f \in todo, NEW size \in Nat, NEW field \in Nat, NEW data \in Seq(Unit),
           size <= Len(data), field = Len(data) => field = size,
           Bundle!Write(f, size, field, data)
    PROVE  BundleInv'
<1>1. /\ archive' = archive \o Bundle!EntryHeader(f, field) \o data \o Bundle!Zeros(Bundle!Padding(size))
      /\ source' = Bundle!Placed(source, f, SubSeq(data, 1, size))
      /\ misfit' = (misfit \/ field # Len(data)) /\ todo' = todo \ {f}
      /\ UNCHANGED <<bundleDown, format, temp, cut, at, longName, out, step, outcome>>
  BY DEF Bundle!Write, Bundle!readerVars
<1>2. /\ format \in {"gnu", "pax"} /\ archive \in Seq(Unit) /\ f \in Files /\ f \notin DOMAIN source
      /\ DOMAIN source = Files \ todo /\ \A g \in DOMAIN source : source[g] \in Seq(Unit)
      /\ outcome = Bundle!None
  BY DEF BundleInv
<1>a. PICK n \in Nat : n = Len(archive) BY <1>2
<1>b. PICK m \in Nat : m = n + HeaderAt(f) BY DEF HeaderAt
<1>3. /\ archive' \in Seq(Unit) /\ Len(archive') = m + 2 + Len(data) + Bundle!Padding(size)
      /\ \A k \in 1 .. n : archive'[k] = archive[k]
      /\ archive'[m + 1] = [kind |-> "header", type |-> "0", name |-> HeaderName(f), size |-> field]
      /\ \A k \in 1 .. Len(data) : archive'[m + 2 + k] = data[k]
      /\ f \in LongNames =>
           /\ archive'[n + 1] = [kind |-> "header", type |-> IF format = "gnu" THEN "L" ELSE "x",
                                 name |-> Bundle!None, size |-> 1]
           /\ archive'[n + 3].name = f
  <2>1. Adds(f, size, field, data, n, m) BY <1>1, <1>2, <1>a, <1>b DEF Adds
  <2>2. Added(f, size, field, data, n, m) BY <2>1, WriteUnits
  <2> QED BY <2>2 DEF Added
<1>4. /\ DOMAIN source' = Files \ todo' /\ f \in DOMAIN source' /\ source'[f] = SubSeq(data, 1, size)
      /\ \A g \in DOMAIN source : g \in DOMAIN source' /\ source'[g] = source[g]
  BY <1>1, <1>2 DEF Bundle!Placed
<1>5. SubSeq(data, 1, size) \in Seq(Unit) OBVIOUS
<1>6. \A g \in DOMAIN source' : source'[g] \in Seq(Unit)
  BY <1>1, <1>2, <1>4, <1>5 DEF Bundle!Placed
<1>7. misfit' \in BOOLEAN BY <1>1
<1>8. ASSUME ~misfit' PROVE \E B \in SUBSET Nat, end \in Nat : StreamKnown(B, end)'
  <2>1. ~misfit /\ Len(data) = size /\ field = size BY <1>1, <1>8
  <2>2. source'[f] = data BY <1>4, <2>1
  <2>3. PICK B \in SUBSET Nat, end \in Nat : StreamKnown(B, end) BY <2>1 DEF BundleInv
  <2>4. Entries(B, end) /\ end = n /\ n \in B BY <1>a, <2>3 DEF StreamKnown, Entries
  <2>a. PICK e \in Nat : e = m + 2 + size + Bundle!Padding(size) BY PaddingIs
  <2>b. PICK B1 \in SUBSET Nat : B1 = B \union {m, e} OBVIOUS
  <2>5. (m = n \/ m = n + 4) /\ (m = n <=> f \notin LongNames) BY <1>b DEF HeaderAt
  <2>6. e > m /\ e > n /\ \A c \in B1 \ B : c > n
    <3>1. e > m /\ e > n BY <2>a, <2>5, PaddingIs
    <3> QED BY <2>4, <2>5, <2>b, <3>1
  <2>7. Len(archive') = e BY <1>3, <2>1, <2>a
  <2>8. \A b \in B \ {end} :
           Entry(B1, e, b)' /\ NameOf(B1, b)' = NameOf(B, b) /\ archive'[b + 1] = archive[b + 1]
    <3>1. /\ end \in Nat /\ end = n /\ Entries(B, end) /\ B \in SUBSET Nat /\ B1 \in SUBSET Nat
          /\ e \in Nat /\ B \subseteq B1 /\ e > end /\ \A c \in B1 \ B : c > end
      BY <2>4, <2>6, <2>b
    <3>2. end <= Len(archive') BY <2>6, <2>7, <3>1
    <3>3. /\ archive \in Seq(Unit) /\ archive' \in Seq(Unit) /\ format' = format
          /\ \A k \in 1 .. end : archive'[k] = archive[k]
      BY <1>1, <1>2, <1>3, <3>1
    <3>4. \A g \in DOMAIN source : g \in DOMAIN source' /\ source'[g] = source[g] BY <1>4
    <3>5. Grown(B, end, B1, e) BY <3>1, <3>2, <3>3, <3>4 DEF Grown
    <3> QED BY <3>5, EntryStays
  <2>9. B1 = B \union {m, e} /\ B \subseteq 0 .. n /\ n \in B /\ 0 \in B
    BY <2>4, <2>b DEF Entries
  <2>10. /\ archive'[m + 1].kind = "header" /\ archive'[m + 1].type = "0"
         /\ archive'[m + 1].size = size /\ archive'[m + 1].name = HeaderName(f)
    BY <1>3, <2>1
  <2>11. EntryEnd(m)' = e BY <2>a, <2>10 DEF EntryEnd
  <2>12. f \in LongNames =>
           /\ archive'[n + 1].kind = "header" /\ archive'[n + 1].size = 1
           /\ archive'[n + 1].type = IF format = "gnu" THEN "L" ELSE "x"
           /\ archive'[n + 3].name = f
    BY <1>3
  <2>13. NameOf(B1, m)' = IF f \in LongNames /\ format = "pax" THEN Bundle!Prefix ELSE f
    <3>1. CASE f \in LongNames
      <4>1. m - 4 = n /\ m - 3 = n + 1 /\ m - 1 = n + 3 BY <2>5, <3>1
      <4>2. (m - 4 \in B1 /\ archive'[m - 3].type = "L") <=> format = "gnu"
        BY <1>2, <2>9, <2>12, <3>1, <4>1
      <4> QED BY <1>1, <1>2, <2>10, <2>12, <3>1, <4>1, <4>2 DEF NameOf, Announced, HeaderName
    <3>2. CASE f \notin LongNames
      <4>1. m = n BY <2>5, <3>2
      <4>2. ASSUME n - 4 \in B1, archive'[n - 3].type = "L" PROVE FALSE
        <5>1. n - 4 \in B \ {end} BY <2>4, <2>5, <2>6, <2>9, <4>1, <4>2
        <5>2. n - 3 \in 1 .. n BY <2>5, <2>9, <5>1
        <5>3. archive[n - 4 + 1].type = "L"
          <6>1. archive[n - 3].type = "L" /\ n - 4 + 1 = n - 3 BY <1>3, <4>2, <5>2
          <6> QED BY <6>1
        <5>4. n - 4 + 4 # end BY <2>4, <5>1, <5>3 DEF Entries, Entry
        <5> QED BY <2>4, <2>5, <5>4
      <4> QED BY <2>10, <3>2, <4>1, <4>2 DEF NameOf, Announced, HeaderName
    <3> QED BY <3>1, <3>2
  <2>14. Entry(B1, e, m)'
    <3>1. HoldsFile(f, m)'
      <4>1. \A k \in 1 .. Len(data) : archive'[m + 2 + k] = data[k] BY <1>3
      <4> QED BY <1>4, <2>1, <2>2, <2>10, <4>1 DEF HoldsFile
    <3>2. HoldsFile(NameOf(B1, m), m)' \/ (format' = "pax" /\ NameOf(B1, m)' = Bundle!Prefix)
      <4>1. CASE f \in LongNames /\ format = "pax" BY <1>1, <2>13, <4>1
      <4>2. CASE ~(f \in LongNames /\ format = "pax")
        <5>1. NameOf(B1, m)' = f BY <2>13, <4>2
        <5> QED BY <3>1, <5>1 DEF HoldsFile
      <4> QED BY <4>1, <4>2
    <3>3. \A c \in B1 : m < c => e <= c BY <2>5, <2>9
    <3>4. e \in B1 BY <2>9
    <3> QED BY <2>10, <2>11, <3>2, <3>3, <3>4 DEF Entry
  <2>15. f \in LongNames => Entry(B1, e, n)'
    <3> SUFFICES ASSUME f \in LongNames PROVE Entry(B1, e, n)' OBVIOUS
    <3>1. m = n + 4 BY <2>5
    <3>2. EntryEnd(n)' = m BY <2>5, <2>12, <3>1 DEF EntryEnd, Bundle!Padding
    <3>3. \A c \in B1 : n < c => m <= c BY <2>5, <2>6, <2>9, <3>1
    <3>4. m \in B1 /\ n + 4 # e BY <2>5, <2>6, <2>9, <3>1
    <3>5. archive'[n + 1].type \in {"0", "L", "x", "5"} /\ format' = format /\ archive'[n + 3].name \in LongNames
      BY <1>1, <2>12
    <3>6. /\ archive'[n + 1].type = "L" => format = "gnu"
          /\ archive'[n + 1].type = "x" => format = "pax"
          /\ archive'[n + 1].type # "0" /\ archive'[n + 1].type # "5"
      BY <1>2, <2>12
    <3> QED BY <2>12, <3>2, <3>3, <3>4, <3>5, <3>6 DEF Entry
  <2>16. \A b \in B1 \ {e} : Entry(B1, e, b)'
    BY <2>4, <2>5, <2>8, <2>9, <2>14, <2>15
  <2>17. \A g \in Bundle!Named(source') :
            \E b \in B1 \ {e} : archive'[b + 1].type = "0" /\ NameOf(B1, b)' = g
    <3> SUFFICES ASSUME NEW g \in Bundle!Named(source')
                 PROVE  \E b \in B1 \ {e} : archive'[b + 1].type = "0" /\ NameOf(B1, b)' = g
      OBVIOUS
    <3>1. CASE g = f
      <4>1. ~(f \in LongNames /\ format = "pax") BY <3>1 DEF Bundle!Named
      <4>2. m \in B1 \ {e} BY <2>5, <2>6, <2>9
      <4> QED BY <2>10, <2>13, <3>1, <4>1, <4>2
    <3>2. CASE g # f
      <4>1. g \in Bundle!Named(source) BY <1>1, <1>2, <1>4, <3>2 DEF Bundle!Named
      <4>2. PICK b \in B \ {end} : archive[b + 1].type = "0" /\ NameOf(B, b) = g
        BY <2>4, <4>1 DEF Entries
      <4>3. b \in B1 \ {e} BY <2>4, <2>6, <2>9, <4>2
      <4> QED BY <2>8, <4>2, <4>3
    <3> QED BY <3>1, <3>2
  <2>18. B1 \subseteq 0 .. e BY <2>5, <2>6, <2>9
  <2>19. Bundle!Named(source)' = Bundle!Named(source') BY <1>1 DEF Bundle!Named
  <2>c. 0 \in B1 /\ e \in B1 /\ e <= Len(archive') BY <2>7, <2>9
  <2>20. Entries(B1, e)' BY <2>c, <2>16, <2>17, <2>18, <2>19 DEF Entries
  <2>21. StreamKnown(B1, e)' BY <1>1, <2>7, <2>20 DEF StreamKnown
  <2> QED BY <2>6, <2>21
<1>9. outcome' # "done" BY <1>1, <1>2, BundleBounds
<1> QED BY <1>1, <1>2, <1>3, <1>4, <1>6, <1>7, <1>8, <1>9 DEF BundleInv

LEMMA ContentUnits ==
    ASSUME NEW f \in Files, NEW n \in Nat, NEW read \in Bundle!Contents(f, n)
    PROVE  read \in Seq(Unit) /\ Len(read) = n
<1>1. CASE read = Bundle!Zeros(n) BY <1>1, ZeroUnits
<1>2. CASE read = [i \in 1 .. n |-> [kind |-> "data", file |-> f, unit |-> i]]
  <2> DEFINE d(i) == [kind |-> "data", file |-> f, unit |-> i]
  <2>1. \A i \in 1 .. n : d(i) \in Unit BY DEF Unit
  <2>2. read = [i \in 1 .. n |-> d(i)] BY <1>2
  <2> HIDE DEF d
  <2> QED BY <2>1, <2>2
<1> QED BY <1>1, <1>2 DEF Bundle!Contents

LEMMA DataUnits ==
    ASSUME NEW read \in Seq(Unit), NEW size \in Nat
    PROVE  /\ Bundle!FileData(read, size) \in Seq(Unit) /\ size <= Len(Bundle!FileData(read, size))
           /\ size = 0 => Len(Bundle!FileData(read, size)) = 0
<1>1. CASE size = 0
  <2> DEFINE d == Bundle!FileData(read, size)
  <2>1. d = << >> BY <1>1 DEF Bundle!FileData
  <2> HIDE DEF d
  <2>2. d \in Seq(Unit) /\ Len(d) = 0 BY <2>1
  <2> QED BY <1>1, <2>2 DEF d
<1>2. CASE size # 0
  <2>1. PICK n \in Nat : n = IF Len(read) < size THEN size - Len(read) ELSE 0 OBVIOUS
  <2>2. Bundle!FileData(read, size) = read \o Bundle!Zeros(n) BY <1>2, <2>1 DEF Bundle!FileData
  <2>3. Bundle!Zeros(n) \in Seq(Unit) /\ Len(Bundle!Zeros(n)) = n BY ZeroUnits
  <2>4. /\ read \o Bundle!Zeros(n) \in Seq(Unit)
        /\ Len(read \o Bundle!Zeros(n)) = Len(read) + Len(Bundle!Zeros(n))
    BY <2>3, Joined
  <2> QED BY <1>2, <2>1, <2>2, <2>3, <2>4
<1> QED BY <1>1, <1>2

\* A size that the header's field cuts is not that of the data.
LEMMA OctalIs ==
    ASSUME NEW size \in Nat, NEW n \in Nat, size <= n, size = 0 => n = 0
    PROVE  Bundle!Octal(size) \in Nat /\ (Bundle!Octal(size) = n => Bundle!Octal(size) = size)
<1>1. OctalLimit \in Nat \ {0} BY BundleBounds
<1>2. size \div 8 \in Nat /\ 8 * (size \div 8) <= size BY QuotientIs
<1>3. size > 0 => size \div 8 < size BY <1>2
<1> QED BY <1>1, <1>2, <1>3 DEF Bundle!Octal

LEMMA BundleAdds ==
    ASSUME BundleInv, Bundle!AddFile \/ Bundle!ServerAddsFile
    PROVE  BundleInv'
<1>1. todo \subseteq Files /\ step = "write" BY DEF BundleInv, Bundle!AddFile, Bundle!ServerAddsFile
<1>2. MaxUnits \in Nat BY BundleBounds
<1>3. CASE Bundle!AddFile
  <2>1. PICK f \in todo, size \in 0 .. MaxUnits, has \in 0 .. MaxUnits :
           \E read \in Bundle!Contents(f, has) :
              Bundle!Write(f, size, Bundle!Octal(size), Bundle!FileData(read, size))
    BY <1>3 DEF Bundle!AddFile
  <2>2. PICK read \in Bundle!Contents(f, has) :
           Bundle!Write(f, size, Bundle!Octal(size), Bundle!FileData(read, size))
    BY <2>1
  <2>3. size \in Nat /\ has \in Nat /\ f \in Files BY <1>1, <1>2
  <2>4. read \in Seq(Unit) BY <2>3, ContentUnits
  <2>5. PICK data : data = Bundle!FileData(read, size) OBVIOUS
  <2>6. data \in Seq(Unit) /\ size <= Len(data) /\ (size = 0 => Len(data) = 0)
    BY <2>3, <2>4, <2>5, DataUnits
  <2>7. PICK field : field = Bundle!Octal(size) OBVIOUS
  <2>8. field \in Nat /\ (field = Len(data) => field = size)
    <3>1. Len(data) \in Nat BY <2>6
    <3> QED BY <2>3, <2>6, <2>7, <3>1, OctalIs
  <2>9. Bundle!Write(f, size, field, data) BY <2>2, <2>5, <2>7
  <2> QED BY <1>1, <2>3, <2>6, <2>8, <2>9, BundleWrite
<1>4. CASE Bundle!ServerAddsFile
  <2>1. PICK f \in todo, size \in 0 .. MaxUnits :
           \E data \in Bundle!Contents(f, size) : Bundle!Write(f, size, size, data)
    BY <1>4 DEF Bundle!ServerAddsFile
  <2>2. PICK data \in Bundle!Contents(f, size) : Bundle!Write(f, size, size, data) BY <2>1
  <2>3. size \in Nat /\ f \in Files BY <1>1, <1>2
  <2>4. data \in Seq(Unit) /\ Len(data) = size BY <2>3, ContentUnits
  <2> QED BY <1>1, <2>2, <2>3, <2>4, BundleWrite
<1> QED BY <1>3, <1>4

LEMMA BundleCloses == ASSUME BundleInv, Bundle!CloseArchive PROVE BundleInv'
<1>1. /\ step = "write" /\ archive' = archive \o Bundle!Zeros(4) /\ step' = "carry"
      /\ UNCHANGED <<bundleDown, format, todo, source, misfit, temp, cut, at, longName, out, outcome>>
  BY DEF Bundle!CloseArchive, Bundle!readerVars
<1>2. /\ format \in {"gnu", "pax"} /\ archive \in Seq(Unit) /\ outcome # "done"
      /\ at = 0 /\ longName = Bundle!None /\ out = Bundle!NoFiles /\ ~cut
  <2>1. outcome # "done" BY <1>1 DEF BundleInv, Bundle!None
  <2> QED BY <1>1, <2>1 DEF BundleInv
<1>3. PICK n \in Nat : n = Len(archive) BY <1>2
<1>4. /\ archive' \in Seq(Unit) /\ Len(archive') = n + 4
      /\ \A k \in 1 .. n : archive'[k] = archive[k]
      /\ \A k \in n + 1 .. n + 4 : archive'[k] = Bundle!Zero
  <2> DEFINE z == Bundle!Zeros(4)
  <2>1. z \in Seq(Unit) /\ Len(z) = 4 /\ \A k \in 1 .. 4 : z[k] = Bundle!Zero BY ZeroUnits
  <2>2. archive' = archive \o z BY <1>1
  <2> HIDE DEF z
  <2>3. /\ archive \o z \in Seq(Unit) /\ Len(archive \o z) = Len(archive) + Len(z)
        /\ \A k \in 1 .. Len(archive) : (archive \o z)[k] = archive[k]
        /\ \A k \in 1 .. Len(z) : (archive \o z)[Len(archive) + k] = z[k]
    BY <1>2, <2>1, Joined
  <2>4. /\ archive' \in Seq(Unit) /\ Len(archive') = n + 4
        /\ \A k \in 1 .. n : archive'[k] = archive[k]
        /\ \A k \in 1 .. 4 : archive'[n + k] = Bundle!Zero
    BY <1>3, <2>1, <2>2, <2>3
  <2>5. ASSUME NEW k \in n + 1 .. n + 4 PROVE archive'[k] = Bundle!Zero
    <3>1. PICK i \in 1 .. 4 : k = n + i
      <4>1. k - n \in 1 .. 4 /\ k = n + (k - n) OBVIOUS
      <4> QED BY <4>1
    <3> QED BY <2>4, <3>1
  <2> QED BY <2>4, <2>5
<1>5. ASSUME ~misfit' PROVE \E B \in SUBSET Nat, end \in Nat : StreamKnown(B, end)'
  <2>1. PICK B \in SUBSET Nat, end \in Nat : StreamKnown(B, end) BY <1>1, <1>5 DEF BundleInv
  <2>2. Entries(B, end) /\ end = n BY <1>1, <1>3, <2>1 DEF StreamKnown
  <2>3. Grown(B, end, B, end)
    <3>1. end <= Len(archive') /\ end <= end BY <1>4, <2>2
    <3> QED BY <1>1, <1>2, <1>4, <2>2, <3>1 DEF Grown
  <2>4. \A b \in B \ {end} :
           Entry(B, end, b)' /\ NameOf(B, b)' = NameOf(B, b) /\ archive'[b + 1] = archive[b + 1]
    BY <2>3, EntryStays
  <2>5. Bundle!Named(source)' = Bundle!Named(source) BY <1>1 DEF Bundle!Named
  <2>6. Entries(B, end)'
    <3>1. end <= Len(archive') BY <1>4, <2>2
    <3>2. B \subseteq 0 .. end /\ 0 \in B /\ end \in B BY <2>2 DEF Entries
    <3>3. \A f \in Bundle!Named(source) :
             \E b \in B \ {end} : archive[b + 1].type = "0" /\ NameOf(B, b) = f
      BY <2>2 DEF Entries
    <3> QED BY <2>4, <2>5, <3>1, <3>2, <3>3 DEF Entries
  <2>7. StreamKnown(B, end)' BY <1>1, <1>4, <2>2, <2>6 DEF StreamKnown
  <2> QED BY <2>7
<1>6. DOMAIN source = Files \ todo /\ \A f \in DOMAIN source : source[f] \in Seq(Unit) BY DEF BundleInv
<1>7. step' = "carry" /\ outcome' = Bundle!None /\ outcome' # "done"
  BY <1>1, <1>2, BundleBounds DEF BundleInv
<1>8. /\ bundleDown' \in BOOLEAN /\ misfit' \in BOOLEAN /\ cut' \in BOOLEAN /\ todo' \subseteq Files
      /\ format' \in {"gnu", "pax"}
  BY <1>1 DEF BundleInv
<1> QED BY <1>1, <1>2, <1>4, <1>5, <1>6, <1>7, <1>8 DEF BundleInv

-----------------------------------------------------------------------------
(* Carrying it. *)

LEMMA BundleCarries ==
    ASSUME BundleInv, step = "carry", NEW units \in 0 .. Len(archive), NEW broken \in BOOLEAN,
           ~broken => units = Len(archive), Bundle!Carries(units, broken)
    PROVE  BundleInv'
<1>1. /\ temp' = SubSeq(archive, 1, units) /\ cut' = broken /\ step' = "read"
      /\ UNCHANGED <<bundleDown, format, todo, archive, source, misfit, at, longName, out, outcome>>
  BY DEF Bundle!Carries, Bundle!writerVars, Bundle!readerVars
<1>2. /\ archive \in Seq(Unit) /\ at = 0 /\ longName = Bundle!None /\ out = Bundle!NoFiles
      /\ outcome # "done" /\ outcome = Bundle!None
  BY BundleBounds DEF BundleInv
<1>3. /\ temp' \in Seq(Unit) /\ Len(temp') = units /\ Len(temp') <= Len(archive)
      /\ \A k \in 1 .. Len(temp') : temp'[k] = archive[k]
  BY <1>1, <1>2
<1>4. ASSUME ~misfit' PROVE \E B \in SUBSET Nat, end \in Nat : StreamKnown(B, end)'
  <2>1. PICK B \in SUBSET Nat, end \in Nat : StreamKnown(B, end) BY <1>1, <1>4 DEF BundleInv
  <2>2. /\ Entries(B, end) /\ Len(archive) = end + 4
        /\ \A k \in end + 1 .. end + 4 : archive[k] = Bundle!Zero
    BY <2>1 DEF StreamKnown
  <2>3. Entries(B, end)'
    <3>1. \A b : Entry(B, end, b)' = Entry(B, end, b) /\ NameOf(B, b)' = NameOf(B, b)
      BY <1>1 DEF Entry, EntryEnd, NameOf, Announced, HoldsFile
    <3>2. Bundle!Named(source)' = Bundle!Named(source) BY <1>1 DEF Bundle!Named
    <3> QED BY <1>1, <2>2, <3>1, <3>2 DEF Entries
  <2>4. ~Announced(B, 0)' BY DEF Announced
  <2>5. 0 \in B /\ B \subseteq Nat BY <2>2 DEF Entries
  <2>6. Bundle!Named(out)' = {} BY <1>1, <1>2 DEF Bundle!Named, Bundle!NoFiles
  <2>7. at' = 0 /\ longName' = Bundle!None /\ 0 <= Len(temp') BY <1>1, <1>2, <1>3
  <2>8. ~cut' => Len(temp') = Len(archive') BY <1>1, <1>3
  <2>9. Reads(B, end)' BY <1>1, <1>3, <2>4, <2>5, <2>6, <2>7, <2>8 DEF Reads
  <2>10. StreamKnown(B, end)' BY <1>1, <2>2, <2>3, <2>9 DEF StreamKnown
  <2> QED BY <2>10
<1>5. outcome' = Bundle!None /\ outcome' # "done" BY <1>1, <1>2
<1>6. /\ bundleDown' \in BOOLEAN /\ misfit' \in BOOLEAN /\ todo' \subseteq Files
      /\ format' \in {"gnu", "pax"} /\ archive' \in Seq(Unit)
      /\ DOMAIN source' = Files \ todo' /\ \A f \in DOMAIN source' : source'[f] \in Seq(Unit)
  BY <1>1 DEF BundleInv
<1>7. cut' \in BOOLEAN BY <1>1
<1> QED BY <1>1, <1>4, <1>5, <1>6, <1>7 DEF BundleInv

-----------------------------------------------------------------------------
(* Reading it. *)

LEMMA BundleEnds ==
    ASSUME BundleInv, step' = "done",
           UNCHANGED <<bundleDown, format, todo, archive, source, misfit, temp, cut, at, longName>>,
           outcome' = "done" /\ ~misfit =>
              /\ bundleDown \/ ~cut =>
                    \A f \in Bundle!Named(out)' : f \in DOMAIN source /\ out'[f] = source[f]
              /\ ~cut => Bundle!Named(source) \subseteq DOMAIN out'
    PROVE  BundleInv'
<1>1. /\ bundleDown' \in BOOLEAN /\ misfit' \in BOOLEAN /\ cut' \in BOOLEAN /\ todo' \subseteq Files
      /\ format' \in {"gnu", "pax"} /\ archive' \in Seq(Unit)
      /\ DOMAIN source' = Files \ todo' /\ \A f \in DOMAIN source' : source'[f] \in Seq(Unit)
  BY DEF BundleInv
<1>2. Bundle!Named(source)' = Bundle!Named(source) BY DEF Bundle!Named
<1> QED BY <1>1, <1>2 DEF BundleInv

LEMMA BundleFails ==
    ASSUME BundleInv, Bundle!CreateFails \/ Bundle!CarryFails \/ Bundle!Cancel
    PROVE  BundleInv'
<1>1. /\ step' = "done" /\ outcome' = "failed"
      /\ UNCHANGED <<bundleDown, format, todo, archive, source, misfit, temp, cut, at, longName>>
  BY DEF Bundle!CreateFails, Bundle!CarryFails, Bundle!Cancel, Bundle!Stops, Bundle!Ends,
         Bundle!writerVars, Bundle!readerVars
<1> QED BY <1>1, BundleEnds

\* A reader with a unit pair before it is at an entry or at the end of the archive.
LEMMA ReaderAt ==
    ASSUME NEW B \in SUBSET Nat, NEW end \in Nat, StreamKnown(B, end), step = "read",
           archive \in Seq(Unit), at < Len(temp)
    PROVE  /\ at \in B /\ at \in Nat /\ at <= end /\ Len(temp) \in Nat /\ temp[at + 1] = archive[at + 1]
           /\ at = end => \A k \in 1 .. Len(temp) - at : temp[at + k] = Bundle!Zero
           /\ at # end => Entry(B, end, at)
           /\ Len(archive) = end + 4
<1>1. Entries(B, end) /\ Reads(B, end) BY DEF StreamKnown
<1>2. /\ temp \in Seq(Unit) /\ Len(temp) <= Len(archive) /\ \A k \in 1 .. Len(temp) : temp[k] = archive[k]
      /\ at \in Nat /\ (at \in B \/ at = Len(temp))
  BY <1>1 DEF Reads
<1>3. Len(archive) = end + 4 /\ \A k \in end + 1 .. end + 4 : archive[k] = Bundle!Zero BY DEF StreamKnown
<1>4. Len(temp) \in Nat BY <1>2
<1>5. at \in B /\ at + 1 \in 1 .. Len(temp) BY <1>2, <1>4
<1>6. at <= end /\ (at # end => Entry(B, end, at))
  <2>1. at \in 0 .. end BY <1>1, <1>5 DEF Entries
  <2> QED BY <1>1, <1>5, <2>1 DEF Entries
<1>7. ASSUME at = end, NEW k \in 1 .. Len(temp) - at PROVE temp[at + k] = Bundle!Zero
  <2>1. at + k \in 1 .. Len(temp) /\ at + k \in end + 1 .. end + 4 BY <1>2, <1>3, <1>4, <1>7
  <2> QED BY <1>2, <1>3, <2>1
<1> QED BY <1>2, <1>3, <1>4, <1>5, <1>6, <1>7

LEMMA HeaderIs ==
    ASSUME NEW B \in SUBSET Nat, NEW end \in Nat, StreamKnown(B, end),
           archive \in Seq(Unit), NEW types, Bundle!AtHeader(types)
    PROVE  /\ at \in B \ {end} /\ at \in Nat /\ at + 1 < Len(temp) /\ Len(temp) \in Nat
           /\ Entry(B, end, at) /\ temp[at + 1] = archive[at + 1] /\ archive[at + 1].type \in types
<1>1. /\ step = "read" /\ Len(temp) - at > 1 /\ temp[at + 1].kind = "header" /\ temp[at + 1].type \in types
  BY DEF Bundle!AtHeader, Bundle!Left
<1>2. Reads(B, end) BY <1>1 DEF StreamKnown
<1>3. at \in Nat /\ Len(temp) \in Nat
  <2>1. temp \in Seq(Unit) BY <1>2 DEF Reads
  <2> QED BY <1>2, <2>1 DEF Reads
<1>4. at + 1 < Len(temp) /\ at < Len(temp) BY <1>1, <1>3
<1>5. at # end
  <2> SUFFICES ASSUME at = end PROVE FALSE OBVIOUS
  <2>1. 1 \in 1 .. Len(temp) - at BY <1>1, <1>3
  <2>2. temp[at + 1] = Bundle!Zero BY <1>1, <1>4, <2>1, ReaderAt
  <2> QED BY <1>1, <2>2 DEF Bundle!Zero
<1> QED BY <1>1, <1>3, <1>4, <1>5, ReaderAt

LEMMA BundleRead ==
    ASSUME BundleInv, Bundle!EndOfArchive \/ Bundle!ReadFails
    PROVE  BundleInv'
<1>1. CASE Bundle!EndOfArchive
  <2>1. /\ step = "read" /\ step' = "done" /\ out' = out
        /\ UNCHANGED <<bundleDown, format, todo, archive, source, misfit, temp, cut, at, longName>>
        /\ \/ Len(temp) - at = 0
           \/ Len(temp) - at > 1 /\ temp[at + 1] = Bundle!Zero
    BY <1>1 DEF Bundle!EndOfArchive, Bundle!ReadOk, Bundle!Stops, Bundle!Ends, Bundle!writerVars, Bundle!Left
  <2>2. ASSUME ~misfit
        PROVE  /\ \A f \in Bundle!Named(out) : f \in DOMAIN source /\ out[f] = source[f]
               /\ ~cut => Bundle!Named(source) \subseteq DOMAIN out
    <3>1. PICK B \in SUBSET Nat, end \in Nat : StreamKnown(B, end) BY <2>1, <2>2 DEF BundleInv
    <3>2. Reads(B, end) /\ Entries(B, end) /\ Len(archive) = end + 4 BY <2>1, <3>1 DEF StreamKnown
    <3>3. \A f \in Bundle!Named(out) : f \in DOMAIN source /\ out[f] = source[f] BY <3>2 DEF Reads
    <3>4. ASSUME ~cut PROVE Bundle!Named(source) \subseteq DOMAIN out
      <4>1. /\ Len(temp) = Len(archive) /\ at \in B /\ at \in Nat
            /\ \A b \in B \ {end} : b < at /\ archive[b + 1].type = "0" => NameOf(B, b) \in DOMAIN out
        BY <3>2, <3>4 DEF Reads
      <4>2. B \subseteq 0 .. end BY <3>2 DEF Entries
      <4>3. at <= end /\ at < Len(temp) /\ Len(temp) - at # 0 BY <3>2, <4>1, <4>2
      <4>4. at = end
        <5> SUFFICES ASSUME at # end PROVE FALSE OBVIOUS
        <5>1. archive \in Seq(Unit) BY DEF BundleInv
        <5>2. Entry(B, end, at) /\ temp[at + 1] = archive[at + 1] BY <2>1, <3>1, <4>3, <5>1, ReaderAt
        <5>3. temp[at + 1] = Bundle!Zero BY <2>1, <4>3
        <5> QED BY <5>2, <5>3 DEF Entry, Bundle!Zero
      <4> SUFFICES ASSUME NEW f \in Bundle!Named(source) PROVE f \in DOMAIN out OBVIOUS
      <4>5. PICK b \in B \ {end} : archive[b + 1].type = "0" /\ NameOf(B, b) = f BY <3>2 DEF Entries
      <4>6. b < at BY <4>2, <4>4, <4>5
      <4> QED BY <4>1, <4>5, <4>6
    <3> QED BY <3>3, <3>4
  <2>3. Bundle!Named(out)' = Bundle!Named(out) BY <2>1 DEF Bundle!Named
  <2> QED BY <2>1, <2>2, <2>3, BundleEnds
<1>2. CASE Bundle!ReadFails
  <2>1. /\ step' = "done" /\ outcome' = IF ~bundleDown /\ cut THEN "done" ELSE "failed"
        /\ UNCHANGED <<bundleDown, format, todo, archive, source, misfit, temp, cut, at, longName>>
    BY <1>2 DEF Bundle!ReadFails, Bundle!ReadOk, Bundle!Stops, Bundle!Ends, Bundle!writerVars
  <2>2. outcome' = "done" => ~bundleDown /\ cut BY <2>1
  <2> QED BY <2>1, <2>2, BundleEnds
<1> QED BY <1>1, <1>2

\* The entry after the one that a reader is at.
LEMMA NextEntry ==
    ASSUME NEW B \in SUBSET Nat, NEW end \in Nat, Entries(B, end), archive \in Seq(Unit),
           NEW b \in B \ {end}
    PROVE  /\ EntryEnd(b) \in B /\ b < EntryEnd(b) /\ EntryEnd(b) <= end
           /\ archive[b + 1].type = "L" => Announced(B, EntryEnd(b)) /\ EntryEnd(b) = b + 4
           /\ archive[b + 1].type # "L" => ~Announced(B, EntryEnd(b))
           /\ \A c \in B : c < EntryEnd(b) => c = b \/ c < b
<1>1. Entry(B, end, b) /\ B \subseteq 0 .. end BY DEF Entries
<1>2. /\ b \in Nat /\ archive[b + 1].size \in Nat /\ b + 2 + archive[b + 1].size <= EntryEnd(b)
      /\ EntryEnd(b) \in B /\ EntryEnd(b) <= end
  BY EntryBounds
<1>3. PICK next \in Nat : next = EntryEnd(b) BY <1>2
<1>4. b < next /\ next \in B /\ next <= end BY <1>2, <1>3
<1>5. ASSUME NEW c \in B, c < next PROVE c = b \/ c < b
  <2>1. b < c => next <= c BY <1>1, <1>3 DEF Entry
  <2>2. c \in Nat OBVIOUS
  <2> QED BY <1>2, <1>5, <2>1, <2>2
<1>6. archive[b + 1].type = "L" => next = b + 4
  BY <1>1, <1>2, <1>3 DEF Entry, EntryEnd, Bundle!Padding
<1>7. archive[b + 1].type = "L" => Announced(B, next)
  <2> SUFFICES ASSUME archive[b + 1].type = "L" PROVE Announced(B, next) OBVIOUS
  <2>1. next - 4 = b /\ next - 3 = b + 1 BY <1>2, <1>6
  <2> QED BY <2>1 DEF Announced
<1>8. ASSUME archive[b + 1].type # "L", Announced(B, next) PROVE FALSE
  <2>1. PICK c \in B : c = next - 4 BY <1>8 DEF Announced
  <2>2. c \in Nat /\ c < next /\ c # end BY <1>4, <2>1
  <2>3. archive[c + 1].type = "L"
    <3>1. c + 1 = next - 3 BY <2>1, <2>2
    <3> QED BY <1>8, <3>1 DEF Announced
  <2>4. Entry(B, end, c) BY <2>2 DEF Entries
  <2>5. EntryEnd(c) = next
    <3>1. archive[c + 1].size = 1 BY <2>3, <2>4 DEF Entry
    <3>2. EntryEnd(c) = c + 4 BY <2>2, <3>1 DEF EntryEnd, Bundle!Padding
    <3> QED BY <2>1, <2>2, <3>2
  <2>6. c < b BY <1>5, <1>8, <2>2, <2>3
  <2>7. next <= b BY <2>4, <2>5, <2>6 DEF Entry
  <2> QED BY <1>2, <1>4, <2>7
<1> QED BY <1>3, <1>4, <1>5, <1>6, <1>7, <1>8

\* Where a reader is that has passed the entry it was at, and what it knows then.
Passes(B, end) ==
    /\ BundleInv /\ B \in SUBSET Nat /\ end \in Nat /\ StreamKnown(B, end)
    /\ step = "read" /\ at \in B \ {end} /\ at < Len(temp)
    /\ at' = IF EntryEnd(at) < Len(temp) THEN EntryEnd(at) ELSE Len(temp)
    /\ UNCHANGED <<bundleDown, format, todo, archive, source, misfit, temp, cut, step, outcome>>
    /\ archive[at + 1].type = "L" /\ at + 4 < Len(temp) => longName' = archive[at + 3].name
    /\ archive[at + 1].type # "L" => longName' = Bundle!None
    /\ \A f \in Bundle!Named(out)' : f \in DOMAIN source /\ out'[f] = source[f]
    /\ DOMAIN out \subseteq DOMAIN out'
    /\ ~cut /\ archive[at + 1].type = "0" => NameOf(B, at) \in DOMAIN out'

LEMMA ReaderPasses == ASSUME NEW B, NEW end, Passes(B, end) PROVE StreamKnown(B, end)'
<1>1. /\ B \in SUBSET Nat /\ end \in Nat /\ StreamKnown(B, end) /\ Entries(B, end) /\ Reads(B, end)
      /\ step = "read" /\ at \in B \ {end} /\ at < Len(temp) /\ archive \in Seq(Unit)
      /\ UNCHANGED <<bundleDown, format, todo, archive, source, misfit, temp, cut, step, outcome>>
  BY DEF Passes, StreamKnown, BundleInv
<1>2. PICK next : next = EntryEnd(at) OBVIOUS
<1>3. /\ next \in B /\ at < next /\ next <= end
      /\ archive[at + 1].type = "L" => Announced(B, next) /\ next = at + 4
      /\ archive[at + 1].type # "L" => ~Announced(B, next)
      /\ \A c \in B : c < next => c = at \/ c < at
  BY <1>1, <1>2, NextEntry
<1>4. at' = IF next < Len(temp) THEN next ELSE Len(temp) BY <1>2 DEF Passes
<1>5. /\ temp \in Seq(Unit) /\ Len(temp) <= Len(archive)
      /\ \A k \in 1 .. Len(temp) : temp[k] = archive[k] /\ at \in Nat
      /\ ~cut => Len(temp) = Len(archive)
      /\ ~cut => \A b \in B \ {end} : b < at /\ archive[b + 1].type = "0" => NameOf(B, b) \in DOMAIN out
  BY <1>1 DEF Reads
<1>6. Len(temp) \in Nat /\ Len(archive) = end + 4 /\ next \in Nat BY <1>1, <1>3, <1>5 DEF StreamKnown
<1>7. at' \in Nat /\ at' <= Len(temp) /\ (at' \in B \/ at' = Len(temp)) /\ (at' < Len(temp) => at' = next)
  BY <1>3, <1>4, <1>6
<1>8. ~cut => at' = next
  <2>1. next < end + 4 BY <1>1, <1>3, <1>6
  <2> QED BY <1>4, <1>5, <1>6, <2>1
<1>9. \A b : Announced(B, b)' = Announced(B, b) /\ NameOf(B, b)' = NameOf(B, b)
  BY <1>1 DEF NameOf, Announced
<1>10. at' < Len(temp) =>
          longName' = IF Announced(B, next) THEN archive[next - 1].name ELSE Bundle!None
  <2> SUFFICES ASSUME at' < Len(temp)
               PROVE  longName' = IF Announced(B, next) THEN archive[next - 1].name ELSE Bundle!None
    OBVIOUS
  <2>1. CASE archive[at + 1].type = "L"
    <3>1. next = at + 4 /\ next - 1 = at + 3 /\ next < Len(temp) /\ Announced(B, next)
      BY <1>1, <1>3, <1>5, <1>7, <2>1
    <3>2. longName' = archive[at + 3].name BY <2>1, <3>1 DEF Passes
    <3> QED BY <3>1, <3>2
  <2>2. CASE archive[at + 1].type # "L"
    <3>1. longName' = Bundle!None BY <2>2 DEF Passes
    <3> QED BY <1>3, <2>2, <3>1
  <2> QED BY <2>1, <2>2
<1>11. ~cut => \A b \in B \ {end} : b < at' /\ archive[b + 1].type = "0" => NameOf(B, b) \in DOMAIN out'
  <2> SUFFICES ASSUME ~cut, NEW b \in B \ {end}, b < at', archive[b + 1].type = "0"
               PROVE  NameOf(B, b) \in DOMAIN out'
    OBVIOUS
  <2>1. b = at \/ b < at BY <1>3, <1>8
  <2>2. DOMAIN out \subseteq DOMAIN out' /\ (archive[at + 1].type = "0" => NameOf(B, at) \in DOMAIN out')
    BY DEF Passes
  <2> QED BY <1>5, <2>1, <2>2
<1>12. \A f \in Bundle!Named(out)' : f \in DOMAIN source' /\ out'[f] = source'[f] BY <1>1 DEF Passes
<1>13. Reads(B, end)'
  <2>1. at' < Len(temp') =>
           longName' = IF Announced(B, at)' THEN archive'[at' - 1].name ELSE Bundle!None
    BY <1>1, <1>7, <1>9, <1>10 DEF Announced
  <2>2. ~cut' =>
          /\ Len(temp') = Len(archive') /\ at' \in B
          /\ \A b \in B \ {end} : b < at' /\ archive'[b + 1].type = "0" => NameOf(B, b)' \in DOMAIN out'
    BY <1>1, <1>3, <1>5, <1>8, <1>9, <1>11
  <2>3. /\ temp' \in Seq(Unit) /\ Len(temp') <= Len(archive')
        /\ \A k \in 1 .. Len(temp') : temp'[k] = archive'[k]
        /\ at' \in Nat /\ at' <= Len(temp') /\ (at' \in B \/ at' = Len(temp'))
    BY <1>1, <1>5, <1>7
  <2> QED BY <1>12, <2>1, <2>2, <2>3 DEF Reads
<1>14. Entries(B, end)'
  <2>1. \A b : Entry(B, end, b)' = Entry(B, end, b)
    BY <1>1 DEF Entry, EntryEnd, NameOf, Announced, HoldsFile
  <2>2. Bundle!Named(source)' = Bundle!Named(source) BY <1>1 DEF Bundle!Named
  <2> QED BY <1>1, <1>9, <2>1, <2>2 DEF Entries
<1> QED BY <1>1, <1>13, <1>14 DEF StreamKnown

\* What a reader takes for the name of the file it is at.
LEMMA NameKnown ==
    ASSUME BundleInv, NEW B \in SUBSET Nat, NEW end \in Nat, StreamKnown(B, end),
           step = "read", at \in B \ {end}, at < Len(temp)
    PROVE  /\ Announced(B, at) => longName # Bundle!None /\ longName = archive[at - 1].name /\ format = "gnu"
           /\ ~Announced(B, at) => longName = Bundle!None
<1>1. Reads(B, end) /\ Entries(B, end) BY DEF StreamKnown
<1>2. longName = IF Announced(B, at) THEN archive[at - 1].name ELSE Bundle!None BY <1>1 DEF Reads
<1>3. ASSUME Announced(B, at) PROVE archive[at - 1].name \in LongNames /\ format = "gnu"
  <2>1. PICK c \in B : c = at - 4 BY <1>3 DEF Announced
  <2>2. c \in Nat /\ at \in Nat /\ at \in 0 .. end BY <1>1 DEF Entries
  <2>3. c # end BY <2>1, <2>2
  <2>4. c + 1 = at - 3 /\ c + 3 = at - 1 BY <2>1, <2>2
  <2>5. archive[c + 1].type = "L" BY <1>3, <2>4 DEF Announced
  <2>6. Entry(B, end, c) BY <1>1, <2>3 DEF Entries
  <2> QED BY <2>4, <2>5, <2>6 DEF Entry
<1>4. Bundle!None \notin LongNames BY BundleBounds, NamesAssumption DEF NamesAssumption
<1> QED BY <1>2, <1>3, <1>4

\* What a reader extracts from an entry that is whole.
LEMMA FileKnown ==
    ASSUME BundleInv, NEW B \in SUBSET Nat, NEW end \in Nat, StreamKnown(B, end),
           step = "read", at \in B \ {end}, archive[at + 1].type = "0",
           temp[at + 1] = archive[at + 1], at + 2 + archive[at + 1].size <= Len(temp),
           out' = Bundle!Extracted(archive[at + 1].size), format' = format
    PROVE  /\ \A f \in Bundle!Named(out)' : f \in DOMAIN source /\ out'[f] = source[f]
           /\ DOMAIN out \subseteq DOMAIN out' /\ NameOf(B, at) \in DOMAIN out'
<1> DEFINE name == NameOf(B, at)
           size == archive[at + 1].size
           data == SubSeq(temp, at + 3, at + 2 + size)
<1>1. Reads(B, end) /\ Entries(B, end) /\ Entry(B, end, at) BY DEF StreamKnown, Entries
<1>2. /\ temp \in Seq(Unit) /\ \A k \in 1 .. Len(temp) : temp[k] = archive[k]
      /\ \A f \in Bundle!Named(out) : f \in DOMAIN source /\ out[f] = source[f]
      /\ at \in Nat /\ Len(temp) \in Nat /\ size \in Nat
  BY <1>1 DEF Reads, Entry
<1>3. at < Len(temp) BY <1>2
<1>4. (IF longName # Bundle!None THEN longName ELSE temp[at + 1].name) = name
  <2>1. /\ Announced(B, at) => longName # Bundle!None /\ longName = archive[at - 1].name
        /\ ~Announced(B, at) => longName = Bundle!None
    BY <1>3, NameKnown
  <2> QED BY <2>1 DEF NameOf
<1>5. out' = Bundle!Placed(out, name, data) BY <1>4 DEF Bundle!Extracted
<1>6. HoldsFile(name, at) \/ (format = "pax" /\ name = Bundle!Prefix) BY <1>1 DEF Entry
<1>7. HoldsFile(name, at) => name \in DOMAIN source /\ data = source[name]
  <2> SUFFICES ASSUME HoldsFile(name, at) PROVE name \in DOMAIN source /\ data = source[name] OBVIOUS
  <2>1. /\ name \in DOMAIN source /\ Len(source[name]) = size
        /\ \A k \in 1 .. Len(source[name]) : archive[at + 2 + k] = source[name][k]
    BY DEF HoldsFile
  <2>2. PICK s : s = source[name] OBVIOUS
  <2>3. s \in Seq(Unit) BY <2>1, <2>2 DEF BundleInv
  <2>a. PICK n \in Nat : n = size BY <1>2
  <2>b. PICK a \in Nat : a = at + 2 BY <1>2
  <2>4. a = at + 2 /\ n = size BY <2>a, <2>b
  <2>5. a + n <= Len(temp) BY <1>2, <2>4
  <2>6. data = SubSeq(temp, a + 1, a + n)
    <3>1. at + 3 = a + 1 /\ at + 2 + size = a + n BY <1>2, <2>4
    <3> QED BY <3>1
  <2> HIDE DEF data, size, name
  <2>7. data \in Seq(Unit) /\ Len(data) = n /\ \A k \in 1 .. n : data[k] = temp[a + k]
    <3>1. PICK i \in Nat \ {0}, j \in Nat : i = a + 1 /\ j = a + n OBVIOUS
    <3>2. temp \in Seq(Unit) /\ j <= Len(temp) BY <1>2, <2>5, <3>1
    <3>3. /\ SubSeq(temp, i, j) \in Seq(Unit)
          /\ Len(SubSeq(temp, i, j)) = IF i <= j THEN j - i + 1 ELSE 0
          /\ \A k \in 1 .. Len(SubSeq(temp, i, j)) : SubSeq(temp, i, j)[k] = temp[i + k - 1]
      BY <3>2, Cut
    <3>4. data = SubSeq(temp, i, j) BY <2>6, <3>1
    <3>5. (IF i <= j THEN j - i + 1 ELSE 0) = n BY <3>1
    <3>6. data \in Seq(Unit) /\ Len(data) = n /\ \A k \in 1 .. n : data[k] = temp[i + k - 1]
      BY <3>3, <3>4, <3>5
    <3>7. \A k \in 1 .. n : i + k - 1 = a + k BY <3>1
    <3> QED BY <3>6, <3>7
  <2>8. \A k \in 1 .. n : a + k \in 1 .. Len(temp) /\ temp[a + k] = s[k]
    <3> SUFFICES ASSUME NEW k \in 1 .. n PROVE a + k \in 1 .. Len(temp) /\ temp[a + k] = s[k] OBVIOUS
    <3>1. a + k \in 1 .. Len(temp) BY <1>2, <2>4, <2>5
    <3>2. archive[at + 2 + k] = s[k] BY <2>1, <2>2, <2>4
    <3> QED BY <1>2, <2>4, <3>1, <3>2
  <2>9. Len(s) = n BY <2>1, <2>2, <2>4
  <2>10. data = s BY <2>3, <2>7, <2>8, <2>9
  <2> QED BY <2>1, <2>2, <2>10
<1> HIDE DEF name, data, size
<1>8. /\ DOMAIN out' = DOMAIN out \union {name} /\ out'[name] = data
      /\ \A g \in DOMAIN out : g # name => out'[g] = out[g]
  <2>1. out' = [g \in DOMAIN out \union {name} |-> IF g = name THEN data ELSE out[g]]
    BY <1>5 DEF Bundle!Placed
  <2> QED BY <2>1
<1>9. ASSUME NEW f \in Bundle!Named(out)' PROVE f \in DOMAIN source /\ out'[f] = source[f]
  <2>1. f \in DOMAIN out' /\ ~(format = "pax" /\ f = Bundle!Prefix)
        /\ (f \in DOMAIN out => f \in Bundle!Named(out))
    BY <1>9 DEF Bundle!Named
  <2>2. CASE f = name BY <1>6, <1>7, <1>8, <2>1, <2>2
  <2>3. CASE f # name BY <1>2, <1>8, <2>1, <2>3
  <2> QED BY <2>2, <2>3
<1> QED BY <1>8, <1>9 DEF name

LEMMA BundleReads ==
    ASSUME BundleInv, Bundle!ReadLongName \/ Bundle!Skip \/ Bundle!ReadFile
    PROVE  BundleInv'
<1>1. /\ step = "read" /\ step' = "read" /\ ~Bundle!Broken
      /\ UNCHANGED <<bundleDown, format, todo, archive, source, misfit, temp, cut, outcome>>
  BY DEF Bundle!ReadLongName, Bundle!Skip, Bundle!ReadFile, Bundle!AtHeader, Bundle!writerVars
<1>2. ASSUME NEW B \in SUBSET Nat, NEW end \in Nat, StreamKnown(B, end)
      PROVE  Passes(B, end)
  <2>1. archive \in Seq(Unit) /\ Reads(B, end) /\ Entries(B, end) BY <1>1, <1>2 DEF BundleInv, StreamKnown
  <2>2. \A f \in Bundle!Named(out) : f \in DOMAIN source /\ out[f] = source[f] BY <2>1 DEF Reads
  <2>3. temp \in Seq(Unit) /\ \A k \in 1 .. Len(temp) : temp[k] = archive[k] BY <2>1 DEF Reads
  <2>4. \A n \in Nat : Bundle!Padding(n) \in 0 .. 1 BY PaddingIs
  <2>5. CASE Bundle!ReadLongName
    <3>1. /\ Bundle!AtHeader({"L"}) /\ longName' = temp[at + 3].name /\ out' = out
          /\ at' = IF at + 4 < Len(temp) THEN at + 4 ELSE Len(temp)
      BY <2>5 DEF Bundle!ReadLongName, Bundle!Forward
    <3>2. /\ at \in B \ {end} /\ at \in Nat /\ at + 1 < Len(temp) /\ Len(temp) \in Nat
          /\ Entry(B, end, at) /\ archive[at + 1].type = "L"
      <4>1. PICK types : types = {"L"} OBVIOUS
      <4>2. Bundle!AtHeader(types) BY <3>1, <4>1
      <4>3. archive[at + 1].type \in types /\ Entry(B, end, at) BY <1>2, <2>1, <4>2, HeaderIs
      <4> QED BY <1>2, <2>1, <4>1, <4>2, <4>3, HeaderIs
    <3>3. EntryEnd(at) = at + 4
      <4>1. archive[at + 1].size = 1 BY <3>2 DEF Entry
      <4> QED BY <3>2, <4>1 DEF EntryEnd, Bundle!Padding
    <3>4. at + 4 < Len(temp) => longName' = archive[at + 3].name
      <4>1. at + 4 < Len(temp) => at + 3 \in 1 .. Len(temp) BY <3>2
      <4> QED BY <2>3, <3>1, <4>1
    <3>5. at < Len(temp) BY <3>2
    <3>6. Bundle!Named(out)' = Bundle!Named(out) BY <1>1, <3>1 DEF Bundle!Named
    <3> QED BY <1>1, <1>2, <2>2, <3>1, <3>2, <3>3, <3>4, <3>5, <3>6 DEF Passes
  <2>6. CASE Bundle!Skip
    <3>1. /\ Bundle!AtHeader({"x", "5"}) /\ out' = out
          /\ longName' = IF temp[at + 1].type = "5" THEN Bundle!None ELSE longName
      BY <2>6 DEF Bundle!Skip, Bundle!AfterName
    <3>2. /\ at \in B \ {end} /\ at \in Nat /\ at + 1 < Len(temp) /\ Len(temp) \in Nat
          /\ Entry(B, end, at) /\ archive[at + 1].type \in {"x", "5"} /\ temp[at + 1] = archive[at + 1]
      BY <1>2, <2>1, <3>1, HeaderIs
    <3>3. at' = IF EntryEnd(at) < Len(temp) THEN EntryEnd(at) ELSE Len(temp)
      <4> DEFINE size == temp[at + 1].size
      <4>1. /\ at' = IF at + (2 + size + Bundle!Padding(size)) < Len(temp)
                     THEN at + (2 + size + Bundle!Padding(size)) ELSE Len(temp)
        BY <2>6 DEF Bundle!Skip, Bundle!Forward
      <4>2. size = archive[at + 1].size /\ size \in Nat BY <3>2 DEF Entry
      <4>3. EntryEnd(at) = at + 2 + size + Bundle!Padding(size) BY <4>2 DEF EntryEnd
      <4> HIDE DEF size
      <4>4. PICK p \in 0 .. 1 : p = Bundle!Padding(size) BY <2>4, <4>2
      <4> QED BY <3>2, <4>1, <4>2, <4>3, <4>4
    <3>4. at < Len(temp) BY <3>2
    <3>5. longName' = Bundle!None
      <4>1. CASE archive[at + 1].type = "5" BY <3>1, <3>2, <4>1
      <4>2. CASE archive[at + 1].type = "x"
        <5>1. format = "pax" BY <3>2, <4>2 DEF Entry
        <5>2. longName = Bundle!None BY <1>1, <1>2, <3>2, <3>4, <5>1, NameKnown
        <5> QED BY <3>1, <3>2, <4>2, <5>2
      <4> QED BY <3>2, <4>1, <4>2
    <3>6. Bundle!Named(out)' = Bundle!Named(out) BY <1>1, <3>1 DEF Bundle!Named
    <3> QED BY <1>1, <1>2, <2>2, <3>1, <3>2, <3>3, <3>4, <3>5, <3>6 DEF Passes
  <2>7. CASE Bundle!ReadFile
    <3>1. Bundle!AtHeader({"0"}) /\ longName' = Bundle!None BY <2>7 DEF Bundle!ReadFile, Bundle!AfterName
    <3>2. /\ at \in B \ {end} /\ at \in Nat /\ at + 1 < Len(temp) /\ Len(temp) \in Nat
          /\ Entry(B, end, at) /\ archive[at + 1].type = "0" /\ temp[at + 1] = archive[at + 1]
      <4>1. PICK types : types = {"0"} OBVIOUS
      <4>2. Bundle!AtHeader(types) BY <3>1, <4>1
      <4>3. archive[at + 1].type \in types /\ Entry(B, end, at) BY <1>2, <2>1, <4>2, HeaderIs
      <4> QED BY <1>2, <2>1, <4>1, <4>2, <4>3, HeaderIs
    <3>3. /\ out' = Bundle!Extracted(archive[at + 1].size) /\ archive[at + 1].size \in Nat
          /\ at' = IF EntryEnd(at) < Len(temp) THEN EntryEnd(at) ELSE Len(temp)
      <4> DEFINE size == temp[at + 1].size
      <4>1. /\ out' = Bundle!Extracted(size)
            /\ at' = IF at + (2 + size + Bundle!Padding(size)) < Len(temp)
                     THEN at + (2 + size + Bundle!Padding(size)) ELSE Len(temp)
        BY <2>7 DEF Bundle!ReadFile, Bundle!Forward
      <4>2. size = archive[at + 1].size /\ size \in Nat BY <3>2 DEF Entry
      <4>3. EntryEnd(at) = at + 2 + size + Bundle!Padding(size) BY <4>2 DEF EntryEnd
      <4> HIDE DEF size
      <4>4. PICK p \in 0 .. 1 : p = Bundle!Padding(size) BY <2>4, <4>2
      <4>5. out' = Bundle!Extracted(archive[at + 1].size) BY <4>1, <4>2
      <4>6. at' = IF EntryEnd(at) < Len(temp) THEN EntryEnd(at) ELSE Len(temp)
        <5>1. at' = IF at + (2 + size + Bundle!Padding(size)) < Len(temp)
                   THEN at + (2 + size + Bundle!Padding(size)) ELSE Len(temp)
          BY <4>1
        <5>2. at + (2 + size + Bundle!Padding(size)) = EntryEnd(at) BY <3>2, <4>2, <4>3, <4>4
        <5> QED BY <5>1, <5>2
      <4> QED BY <4>2, <4>5, <4>6
    <3>4. at + 2 + archive[at + 1].size <= Len(temp)
      <4>1. Bundle!Needed(temp[at + 1]) = archive[at + 1].size + 0 BY <3>2 DEF Bundle!Needed
      <4>2. ~(Len(temp) - at < 2 + Bundle!Needed(temp[at + 1]))
        <5>1. Len(temp) - at > 1 /\ temp[at + 1].kind = "header" BY <3>1 DEF Bundle!AtHeader, Bundle!Left
        <5> QED BY <1>1, <5>1 DEF Bundle!Broken, Bundle!Left
      <4> QED BY <3>2, <3>3, <4>1, <4>2
    <3>5. at < Len(temp) BY <3>2
    <3>6. /\ \A f \in Bundle!Named(out)' : f \in DOMAIN source /\ out'[f] = source[f]
          /\ DOMAIN out \subseteq DOMAIN out' /\ NameOf(B, at) \in DOMAIN out'
      BY <1>1, <1>2, <3>2, <3>3, <3>4, FileKnown
    <3> QED BY <1>1, <1>2, <3>1, <3>2, <3>3, <3>5, <3>6 DEF Passes
  <2> QED BY <2>5, <2>6, <2>7
<1>3. ASSUME ~misfit' PROVE \E B \in SUBSET Nat, end \in Nat : StreamKnown(B, end)'
  <2>1. PICK B \in SUBSET Nat, end \in Nat : StreamKnown(B, end) BY <1>1, <1>3 DEF BundleInv
  <2>2. StreamKnown(B, end)' BY <1>2, <2>1, ReaderPasses
  <2> QED BY <2>2
<1>4. /\ bundleDown' \in BOOLEAN /\ misfit' \in BOOLEAN /\ cut' \in BOOLEAN /\ todo' \subseteq Files
      /\ format' \in {"gnu", "pax"} /\ archive' \in Seq(Unit)
      /\ DOMAIN source' = Files \ todo' /\ \A f \in DOMAIN source' : source'[f] \in Seq(Unit)
  BY <1>1 DEF BundleInv
<1>5. outcome' = Bundle!None /\ outcome' # "done" BY <1>1, BundleBounds DEF BundleInv
<1> QED BY <1>1, <1>3, <1>4, <1>5 DEF BundleInv

\* The invariant says what BundleKept does.
LEMMA BundleHolds == ASSUME BundleInv PROVE Bundle!BundleKept
<1>1. ASSUME step = "read", ~cut, ~misfit, Bundle!Broken PROVE FALSE
  <2>1. PICK B \in SUBSET Nat, end \in Nat : StreamKnown(B, end) BY <1>1 DEF BundleInv
  <2>2. archive \in Seq(Unit) BY DEF BundleInv
  <2>3. Reads(B, end) /\ Entries(B, end) /\ Len(archive) = end + 4 BY <1>1, <2>1 DEF StreamKnown
  <2>4. Len(temp) = end + 4 /\ at \in B /\ at \in Nat BY <1>1, <2>3 DEF Reads
  <2>5. at \in 0 .. end BY <2>3, <2>4 DEF Entries
  <2>6. at < Len(temp) /\ Len(temp) - at >= 4 BY <2>4, <2>5
  <2>7. /\ temp[at + 1] = archive[at + 1]
        /\ at = end => \A k \in 1 .. Len(temp) - at : temp[at + k] = Bundle!Zero
        /\ at # end => Entry(B, end, at)
    BY <1>1, <2>1, <2>2, <2>6, ReaderAt
  <2>8. CASE at = end
    <3>1. temp[at + 1] = Bundle!Zero /\ temp[at + 2] = Bundle!Zero
      <4>1. 1 \in 1 .. Len(temp) - at /\ 2 \in 1 .. Len(temp) - at BY <2>4, <2>6
      <4> QED BY <2>7, <2>8, <4>1
    <3>2. Bundle!Zeros(2) = <<Bundle!Zero, Bundle!Zero>> BY DEF Bundle!Zeros
    <3>3. temp[at + 1].kind = "zero" BY <3>1 DEF Bundle!Zero
    <3> QED BY <1>1, <2>4, <2>6, <3>1, <3>2, <3>3 DEF Bundle!Broken, Bundle!Left
  <2>9. CASE at # end
    <3>1. Entry(B, end, at) BY <2>7, <2>9
    <3>2. /\ at + 2 + archive[at + 1].size <= EntryEnd(at) /\ EntryEnd(at) <= end
          /\ archive[at + 1].size \in Nat
      BY <2>2, <2>3, <2>4, <2>9, EntryBounds
    <3>3. PICK size \in Nat : size = archive[at + 1].size BY <3>2
    <3>4. PICK p \in 0 .. 1 : p = Bundle!Padding(size) BY <3>3, PaddingIs
    <3>5. EntryEnd(at) = at + 2 + size + p BY <3>3, <3>4 DEF EntryEnd
    <3>6. Bundle!Needed(temp[at + 1]) \in {size, size + p}
      BY <2>7, <3>3, <3>4 DEF Bundle!Needed
    <3>7. ~(Len(temp) - at < 2 + Bundle!Needed(temp[at + 1]))
      <4>1. PICK n : n = Bundle!Needed(temp[at + 1]) OBVIOUS
      <4>2. n \in Nat /\ n <= size + p BY <3>3, <3>4, <3>6, <4>1
      <4>3. at + 2 + size + p <= end BY <3>2, <3>5
      <4>4. ~(end + 4 - at < 2 + n) BY <2>4, <3>3, <3>4, <4>2, <4>3
      <4> QED BY <2>4, <4>1, <4>4
    <3>8. temp[at + 1].kind = "header" BY <2>7, <3>1 DEF Entry
    <3> QED BY <1>1, <2>4, <2>6, <3>7, <3>8 DEF Bundle!Broken, Bundle!Left
  <2> QED BY <2>8, <2>9
<1>2. outcome = "done" /\ ~misfit =>
        /\ bundleDown \/ ~cut => \A f \in Bundle!Named(out) : f \in DOMAIN source /\ out[f] = source[f]
        /\ ~cut => Bundle!Named(source) \subseteq DOMAIN out
  BY DEF BundleInv
<1> QED BY <1>1, <1>2 DEF Bundle!BundleKept

LEMMA BundleStep == ASSUME BundleInv, [Bundle!Next]_(Bundle!bundleVars) PROVE BundleInv'
<1>1. CASE Bundle!AddFile \/ Bundle!ServerAddsFile BY <1>1, BundleAdds
<1>2. CASE Bundle!CreateFails \/ Bundle!CarryFails \/ Bundle!Cancel BY <1>2, BundleFails
<1>3. CASE Bundle!CloseArchive BY <1>3, BundleCloses
<1>4. CASE Bundle!Carry \/ Bundle!ConnectionBreaks
  <2>1. archive \in Seq(Unit) /\ Len(archive) \in Nat BY DEF BundleInv
  <2>2. CASE Bundle!Carry
    <3>1. step = "carry" /\ Bundle!Carries(Len(archive), FALSE) BY <2>2 DEF Bundle!Carry
    <3>2. Len(archive) \in 0 .. Len(archive) BY <2>1
    <3> QED BY <3>1, <3>2, BundleCarries
  <2>3. CASE Bundle!ConnectionBreaks
    <3>1. step = "carry" BY <2>3 DEF Bundle!ConnectionBreaks
    <3>2. PICK units \in 0 .. Len(archive) - 1 : Bundle!Carries(units, TRUE)
      BY <2>3 DEF Bundle!ConnectionBreaks
    <3>3. units \in 0 .. Len(archive) BY <2>1
    <3> QED BY <3>1, <3>2, <3>3, BundleCarries
  <2> QED BY <1>4, <2>2, <2>3
<1>5. CASE Bundle!EndOfArchive \/ Bundle!ReadFails BY <1>5, BundleRead
<1>6. CASE Bundle!ReadLongName \/ Bundle!Skip \/ Bundle!ReadFile BY <1>6, BundleReads
<1>7. CASE UNCHANGED Bundle!bundleVars
  <2>1. UNCHANGED <<bundleDown, format, todo, archive, source, misfit, temp, cut, at, longName, out, step, outcome>>
    BY <1>7 DEF Bundle!bundleVars, Bundle!writerVars, Bundle!readerVars
  <2>2. \A B, end : StreamKnown(B, end)' = StreamKnown(B, end)
    BY <2>1 DEF StreamKnown, Entries, Reads, Entry, EntryEnd, NameOf, Announced, HoldsFile, Bundle!Named
  <2>3. Bundle!Named(source)' = Bundle!Named(source) /\ Bundle!Named(out)' = Bundle!Named(out)
    BY <2>1 DEF Bundle!Named
  <2> QED BY <2>1, <2>2, <2>3 DEF BundleInv
<1> QED BY <1>1, <1>2, <1>3, <1>4, <1>5, <1>6, <1>7 DEF Bundle!Next

LEMMA BundleOnly ==
    ASSUME [MCNext]_mcVars
    PROVE  op' = op /\ (op = "bundle" => [Bundle!Next]_(Bundle!bundleVars))
<1>1. CASE UNCHANGED mcVars
  BY <1>1 DEF mcVars, bundleVars, Bundle!bundleVars, Bundle!writerVars, Bundle!readerVars
<1>2. CASE Bundles(Bundle!Next) BY <1>2 DEF Bundles
<1>3. CASE Syncs(Sync!Next)
  BY <1>3, OthersKeepOp DEF Syncs, Sync!Next, Sync!OneWays, Sync!Windows, Sync!Schedules
<1>4. CASE \/ Downloads(Download!Next) \/ Uploads(Upload!Next)
           \/ LaneDownloads(Next) \/ LaneUploads(LaneUpload!Next)
  BY <1>4 DEF Downloads, Uploads, LaneDownloads, LaneUploads
<1> QED BY <1>1, <1>2, <1>3, <1>4 DEF MCNext

\* A transfer that reports success has left the source file at its destination,
\* for files of any size, any number of attempts, lanes and drops, and folders of
\* any files: where what a retry finds there is of the file it copies.
THEOREM TransfersCorrect == ~StaleRetries /\ MCSpec => []CorrectTransfers
<1> DEFINE CInv == ~StaleRetries /\ FilesInv /\ (op = "bundle" => BundleInv)
<1>1. ~StaleRetries /\ MCInit => CInv
  <2> SUFFICES ASSUME ~StaleRetries, MCInit PROVE CInv OBVIOUS
  <2>1. op = "bundle" => Bundle!Init BY DEF MCInit, FileInit, Sync!Init
  <2> QED BY <2>1, FilesStart, BundleStarts
<1>2. CInv /\ [MCNext]_mcVars => CInv'
  <2> SUFFICES ASSUME CInv, [MCNext]_mcVars PROVE CInv' OBVIOUS
  <2>1. op' = op /\ (op = "bundle" => [Bundle!Next]_(Bundle!bundleVars)) BY BundleOnly
  <2>2. op = "bundle" => BundleInv' BY <2>1, BundleStep
  <2>3. FilesInv' BY FilesStep
  <2> QED BY <2>1, <2>2, <2>3
<1>3. CInv => CorrectTransfers
  <2> SUFFICES ASSUME CInv PROVE CorrectTransfers OBVIOUS
  <2>1. op = "download" => Download!TypeOK /\ Download!CorrectCopy BY DownloadCopied DEF FilesInv
  <2>2. op = "upload" => Upload!TypeOK /\ Upload!CorrectCopy BY UploadCopied DEF FilesInv
  <2>3. op = "laneDownload" => TypeOK /\ CorrectCopy BY DEF FilesInv, Inv
  <2>4. op = "laneUpload" => LaneUpload!TypeOK /\ LaneUpload!CorrectCopy BY DEF FilesInv, LaneUploadInv
  <2>5. op = "bundle" => Bundle!BundleKept BY BundleHolds
  <2> QED BY <2>1, <2>2, <2>3, <2>4, <2>5 DEF CorrectTransfers, TransferTypeOK
<1> HIDE DEF CInv
<1> QED BY <1>1, <1>2, <1>3, PTL DEF MCSpec
=============================================================================
