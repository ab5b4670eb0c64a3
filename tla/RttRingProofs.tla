--------------------------- MODULE RttRingProofs ----------------------------
(***************************************************************************)
(* Proofs about the RTT ring buffers, for every size of the ring: the      *)
(* types, the account of every published byte, that both directions        *)
(* implement a channel, and that aDownWrite leaves nothing out of a ring   *)
(* with room.                                                              *)
(*                                                                         *)
(* The argument: the reader's copy of its own offset is exact, its copy of *)
(* the writer's is at most too old, so what it takes is a prefix of what   *)
(* is unread; the writer's copy of the reader's offset is at most too old, *)
(* so what it fills was free and still is.                                 *)
(***************************************************************************)
EXTENDS RttRing, SequenceLemmas

-----------------------------------------------------------------------------
(* Offsets and distances around the ring.                                  *)

\* How many slots lie from offset a on before offset b.
Dist(a, b) == IF a <= b THEN b - a ELSE b - a + SizeOfBuffer

Ring == [pBuffer : [Offsets -> 0..MaxBytes], WrOff : Offsets, RdOff : Offsets]
Copy == [WrOff : Offsets, RdOff : Offsets]

\* Remainders, for the numbers the offsets give rise to.
LEMMA Remainder ==
  ASSUME NEW x \in Int
  PROVE  /\ 0 <= x /\ x < SizeOfBuffer => x % SizeOfBuffer = x
         /\ SizeOfBuffer <= x /\ x < SizeOfBuffer + SizeOfBuffer
              => x % SizeOfBuffer = x - SizeOfBuffer
         /\ 0 - SizeOfBuffer <= x /\ x < 0
              => x % SizeOfBuffer = x + SizeOfBuffer
<1>1. 0 <= x /\ x < SizeOfBuffer => x % SizeOfBuffer = x
  BY RttAssumption DEF RttAssumption
<1>2. SizeOfBuffer <= x /\ x < SizeOfBuffer + SizeOfBuffer
        => x % SizeOfBuffer = x - SizeOfBuffer
  BY RttAssumption DEF RttAssumption
<1>3. 0 - SizeOfBuffer <= x /\ x < 0 => x % SizeOfBuffer = x + SizeOfBuffer
  BY RttAssumption DEF RttAssumption
<1> QED BY <1>1, <1>2, <1>3

\* The two directions between offsets and distances.
LEMMA DistIs ==
  ASSUME NEW a \in Offsets, NEW b \in Offsets
  PROVE  Dist(a, b) \in Offsets /\ (b - a) % SizeOfBuffer = Dist(a, b)
<1>1. a \in Nat /\ b \in Nat /\ a < SizeOfBuffer /\ b < SizeOfBuffer
  BY RttAssumption DEF Offsets, RttAssumption
<1>2. CASE a <= b
  <2>1. (b - a) % SizeOfBuffer = b - a
    BY <1>1, <1>2, Remainder, RttAssumption DEF RttAssumption
  <2> QED BY <1>1, <1>2, <2>1, RttAssumption DEF Dist, Offsets, RttAssumption
<1>3. CASE ~(a <= b)
  <2>1. (b - a) % SizeOfBuffer = b - a + SizeOfBuffer
    BY <1>1, <1>3, Remainder, RttAssumption DEF RttAssumption
  <2> QED BY <1>1, <1>3, <2>1, RttAssumption DEF Dist, Offsets, RttAssumption
<1> QED BY <1>2, <1>3

LEMMA StepIs ==
  ASSUME NEW a \in Offsets, NEW k \in Offsets
  PROVE  /\ (a + k) % SizeOfBuffer \in Offsets
         /\ Dist(a, (a + k) % SizeOfBuffer) = k
         /\ (a + k) % SizeOfBuffer =
              IF a + k < SizeOfBuffer THEN a + k ELSE a + k - SizeOfBuffer
<1>1. a \in Nat /\ k \in Nat /\ a < SizeOfBuffer /\ k < SizeOfBuffer
  BY RttAssumption DEF Offsets, RttAssumption
<1>2. (a + k) % SizeOfBuffer =
        IF a + k < SizeOfBuffer THEN a + k ELSE a + k - SizeOfBuffer
  BY <1>1, Remainder, RttAssumption DEF RttAssumption
<1> QED BY <1>1, <1>2, RttAssumption DEF Dist, Offsets, RttAssumption

\* Going k slots on adds k to the distance, short of a full turn.
LEMMA DistAdds ==
  ASSUME NEW a \in Offsets, NEW b \in Offsets, NEW k \in Offsets,
         Dist(a, b) + k < SizeOfBuffer
  PROVE  Dist(a, (b + k) % SizeOfBuffer) = Dist(a, b) + k
<1>1. (b + k) % SizeOfBuffer =
        IF b + k < SizeOfBuffer THEN b + k ELSE b + k - SizeOfBuffer
  BY StepIs
<1> QED BY <1>1, RttAssumption DEF Dist, Offsets, RttAssumption

\* Distances add up, short of a full turn.
LEMMA DistChain ==
  ASSUME NEW a \in Offsets, NEW b \in Offsets, NEW c \in Offsets,
         Dist(a, b) + Dist(b, c) < SizeOfBuffer
  PROVE  Dist(a, c) = Dist(a, b) + Dist(b, c)
BY RttAssumption DEF Dist, Offsets, RttAssumption

\* Offsets and their distances are natural numbers below the size.
LEMMA Bounds ==
  ASSUME NEW a \in Offsets, NEW b \in Offsets
  PROVE  /\ a \in Nat /\ a < SizeOfBuffer
         /\ Dist(a, b) \in Offsets /\ Dist(a, b) \in Nat /\ Dist(a, b) < SizeOfBuffer
         /\ \A k \in 0..Dist(a, b) : k \in Offsets /\ k \in Nat /\ k <= Dist(a, b)
<1>1. Dist(a, b) \in Offsets
  BY DistIs
<1> QED BY <1>1, RttAssumption DEF Offsets, RttAssumption

\* A ring whose offsets differ holds something.
LEMMA Apart ==
  ASSUME NEW a \in Offsets, NEW b \in Offsets, a # b
  PROVE  1 <= Dist(a, b)
<1>1. a \in Int /\ b \in Int /\ a < SizeOfBuffer /\ 0 <= b /\ SizeOfBuffer \in Int
  BY RttAssumption DEF Offsets, RttAssumption
<1> QED BY <1>1 DEF Dist

\* What a write takes of n bytes stays within the buffer and behind the reader:
\* up to the end of the buffer, and from its start on.
LEMMA FirstFits ==
  ASSUME NEW r \in Offsets, NEW w \in Offsets, r <= w, NEW n \in Nat, NEW count,
         count = AtMost(n, IF r # 0 THEN SizeOfBuffer - w ELSE SizeOfBuffer - 1 - w)
  PROVE  /\ count \in 0..n /\ w + count <= SizeOfBuffer /\ Dist(r, w) + count < SizeOfBuffer
         /\ \/ count = n
            \/ IF r # 0 THEN w + count = SizeOfBuffer ELSE w + count = SizeOfBuffer - 1
<1>1. /\ r \in Int /\ w \in Int /\ w < SizeOfBuffer /\ 0 <= r /\ SizeOfBuffer \in Int
      /\ Dist(r, w) = w - r
  BY RttAssumption DEF Offsets, RttAssumption, Dist
<1>2. CASE r # 0
  BY <1>1, <1>2 DEF AtMost
<1>3. CASE r = 0
  BY <1>1, <1>3 DEF AtMost
<1> QED BY <1>2, <1>3

LEMMA SecondFits ==
  ASSUME NEW r \in Offsets, NEW w \in Offsets, w < r, NEW n \in Nat, NEW count,
         count = AtMost(n, r - 1 - w)
  PROVE  /\ count \in 0..n /\ w + count < r /\ w + count <= SizeOfBuffer
         /\ Dist(r, w) + count < SizeOfBuffer
         /\ count = n \/ w + count = r - 1
<1>1. /\ r \in Int /\ w \in Int /\ r < SizeOfBuffer /\ 0 <= w /\ SizeOfBuffer \in Int
      /\ Dist(r, w) = w - r + SizeOfBuffer
  BY RttAssumption DEF Offsets, RttAssumption, Dist
<1> QED BY <1>1 DEF AtMost

\* Unread is a sequence of that many bytes, each in its place.
LEMMA UnreadIs ==
  ASSUME NEW r \in Ring
  PROVE  /\ Unread(r) \in Seq(0..MaxBytes)
         /\ Len(Unread(r)) = Dist(r.RdOff, r.WrOff)
         /\ \A i \in 1..Dist(r.RdOff, r.WrOff) :
              Unread(r)[i] = r.pBuffer[(r.RdOff + (i - 1)) % SizeOfBuffer]
<1> DEFINE n == Dist(r.RdOff, r.WrOff)
<1>1. r.RdOff \in Offsets /\ r.WrOff \in Offsets /\ r.pBuffer \in [Offsets -> 0..MaxBytes]
  BY DEF Ring
<1>2. n \in Offsets /\ (r.WrOff - r.RdOff) % SizeOfBuffer = n
  BY <1>1, DistIs
<1>3. n \in Nat /\ n < SizeOfBuffer /\ r.RdOff \in Int
  BY <1>1, <1>2, RttAssumption DEF Offsets, RttAssumption
<1> HIDE DEF n
<1>4. \A i \in 1..n : r.RdOff + i - 1 = r.RdOff + (i - 1) /\ i - 1 \in Offsets
  BY <1>3, RttAssumption DEF Offsets, RttAssumption
<1>5. Unread(r) = [i \in 1..n |-> r.pBuffer[(r.RdOff + (i - 1)) % SizeOfBuffer]]
  BY <1>2, <1>4 DEF Unread
<1>6. Unread(r) \in [1..n -> 0..MaxBytes]
  BY <1>1, <1>4, <1>5, StepIs
<1>7. Unread(r) \in Seq(0..MaxBytes) /\ Len(Unread(r)) = n
  <2>1. Unread(r) \in Seq(0..MaxBytes)
    BY <1>3, <1>6, SeqDef
  <2>2. DOMAIN Unread(r) = 1..n
    BY <1>6
  <2> QED BY <1>3, <2>1, <2>2
<1> QED BY <1>5, <1>7 DEF n

\* The i-th unread byte lies i - 1 slots behind RdOff.
LEMMA SlotIs ==
  ASSUME NEW r \in Ring, NEW i \in 1..Dist(r.RdOff, r.WrOff)
  PROVE  /\ (r.RdOff + (i - 1)) % SizeOfBuffer \in Offsets
         /\ Dist(r.RdOff, (r.RdOff + (i - 1)) % SizeOfBuffer) = i - 1
<1>1. r.RdOff \in Offsets /\ Dist(r.RdOff, r.WrOff) \in Offsets
  BY DistIs DEF Ring
<1>2. i - 1 \in Offsets
  BY <1>1, RttAssumption DEF Offsets, RttAssumption
<1> QED BY <1>1, <1>2, StepIs

\* A writer that changes no unread slot and moves WrOff no nearer to RdOff
\* leaves what was unread in place.
LEMMA WriterKeeps ==
  ASSUME NEW r \in Ring, NEW t \in Ring, t.RdOff = r.RdOff,
         Dist(r.RdOff, r.WrOff) <= Dist(r.RdOff, t.WrOff),
         \A j \in Offsets : Dist(r.RdOff, j) < Dist(r.RdOff, r.WrOff)
                              => t.pBuffer[j] = r.pBuffer[j]
  PROVE  /\ Unread(r) = SubSeq(Unread(t), 1, Len(Unread(r)))
         /\ \A i \in 1..Dist(r.RdOff, r.WrOff) : Unread(t)[i] = Unread(r)[i]
         /\ t.WrOff = r.WrOff => Unread(t) = Unread(r)
<1> DEFINE m == Dist(r.RdOff, r.WrOff)
           n == Dist(r.RdOff, t.WrOff)
<1>1. m \in Nat /\ n \in Nat /\ m <= n
  BY DistIs, RttAssumption DEF Ring, Offsets, RttAssumption
<1>2. /\ Unread(r) \in Seq(0..MaxBytes) /\ Len(Unread(r)) = m
      /\ Unread(t) \in Seq(0..MaxBytes) /\ Len(Unread(t)) = n
  BY UnreadIs
<1>3. ASSUME NEW i \in 1..m
      PROVE  Unread(t)[i] = Unread(r)[i]
  <2>1. i \in 1..n
    BY <1>1
  <2>2. /\ Unread(r)[i] = r.pBuffer[(r.RdOff + (i - 1)) % SizeOfBuffer]
        /\ Unread(t)[i] = t.pBuffer[(r.RdOff + (i - 1)) % SizeOfBuffer]
    BY <2>1, UnreadIs
  <2>3. /\ (r.RdOff + (i - 1)) % SizeOfBuffer \in Offsets
        /\ Dist(r.RdOff, (r.RdOff + (i - 1)) % SizeOfBuffer) = i - 1
    BY SlotIs
  <2>4. i - 1 < m
    BY <1>1
  <2> QED BY <2>2, <2>3, <2>4
<1> HIDE DEF m, n
<1>4. Unread(r) = SubSeq(Unread(t), 1, Len(Unread(r)))
  BY <1>1, <1>2, <1>3
<1>5. ASSUME t.WrOff = r.WrOff
      PROVE  Unread(t) = Unread(r)
  <2>1. n = m
    BY <1>5 DEF n, m
  <2> QED BY <2>1, <1>2, <1>3, SeqEqual
<1> QED BY <1>3, <1>4, <1>5 DEF m

\* A reader that moves RdOff by k takes the first k unread bytes.
LEMMA ReaderTakes ==
  ASSUME NEW r \in Ring, NEW t \in Ring, NEW k \in 0..Dist(r.RdOff, r.WrOff),
         t.pBuffer = r.pBuffer, t.WrOff = r.WrOff,
         t.RdOff = (r.RdOff + k) % SizeOfBuffer
  PROVE  /\ Unread(t) = SubSeq(Unread(r), k + 1, Len(Unread(r)))
         /\ Dist(t.RdOff, t.WrOff) = Dist(r.RdOff, r.WrOff) - k
         /\ \A i \in 1..Dist(t.RdOff, t.WrOff) : Unread(t)[i] = Unread(r)[k + i]
<1> DEFINE m == Dist(r.RdOff, r.WrOff)
           n == Dist(t.RdOff, t.WrOff)
<1>1. /\ r.RdOff \in Offsets /\ r.WrOff \in Offsets /\ m \in Offsets
      /\ m \in Nat /\ k \in Offsets /\ k \in Nat /\ k <= m
  <2>1. r.RdOff \in Offsets /\ r.WrOff \in Offsets
    BY DEF Ring
  <2> QED BY <2>1, Bounds
<1>2. n = m - k
  <2>1. t.RdOff = IF r.RdOff + k < SizeOfBuffer THEN r.RdOff + k
                  ELSE r.RdOff + k - SizeOfBuffer
    BY <1>1, StepIs
  <2> QED BY <1>1, <2>1, RttAssumption DEF Dist, Offsets, RttAssumption
<1>3. /\ Unread(r) \in Seq(0..MaxBytes) /\ Len(Unread(r)) = m
      /\ Unread(t) \in Seq(0..MaxBytes) /\ Len(Unread(t)) = n
  BY UnreadIs
<1>4. ASSUME NEW i \in 1..n
      PROVE  Unread(t)[i] = Unread(r)[k + i]
  <2>1. /\ i \in Nat /\ i - 1 \in Offsets /\ (k + i) - 1 \in Offsets
        /\ k + i \in 1..m
    BY <1>1, <1>2, RttAssumption DEF Offsets, RttAssumption
  <2>2. (t.RdOff + (i - 1)) % SizeOfBuffer = (r.RdOff + ((k + i) - 1)) % SizeOfBuffer
    <3>1. t.RdOff \in Offsets
      BY DEF Ring
    <3>2. /\ (t.RdOff + (i - 1)) % SizeOfBuffer =
               IF t.RdOff + (i - 1) < SizeOfBuffer THEN t.RdOff + (i - 1)
               ELSE t.RdOff + (i - 1) - SizeOfBuffer
          /\ (r.RdOff + ((k + i) - 1)) % SizeOfBuffer =
               IF r.RdOff + ((k + i) - 1) < SizeOfBuffer THEN r.RdOff + ((k + i) - 1)
               ELSE r.RdOff + ((k + i) - 1) - SizeOfBuffer
          /\ t.RdOff = IF r.RdOff + k < SizeOfBuffer THEN r.RdOff + k
                       ELSE r.RdOff + k - SizeOfBuffer
      BY <1>1, <2>1, <3>1, StepIs
    <3> HIDE DEF m, n
    <3> QED BY <1>1, <2>1, <3>1, <3>2, RttAssumption DEF Offsets, RttAssumption
  <2> QED BY <2>1, <2>2, UnreadIs
<1> HIDE DEF m, n
<1>5. Unread(t) = SubSeq(Unread(r), k + 1, Len(Unread(r)))
  <2> DEFINE u == SubSeq(Unread(r), k + 1, m)
  <2>1. k \in 0..Len(Unread(r))
    BY <1>1, <1>3
  <2>2. u \in Seq(0..MaxBytes) /\ Len(u) = n /\ \A i \in 1..n : u[i] = Unread(r)[k + i]
    BY <1>2, <1>3, <2>1, DropFirst
  <2> HIDE DEF u
  <2>3. Unread(t) = u
    BY <1>3, <1>4, <2>2, SeqEqual
  <2> QED BY <2>3, <1>3 DEF u
<1> QED BY <1>2, <1>4, <1>5 DEF m, n

-----------------------------------------------------------------------------
(* The inductive invariant.                                                *)

Types ==
  /\ up \in Ring /\ down \in Ring
  /\ sent \in 0..MaxBytes /\ offered \in 0..MaxBytes
  /\ received \in Seq(1..MaxBytes) /\ taken \in Seq(1..MaxBytes)
  /\ accepted \in Seq(1..MaxBytes) /\ lost \subseteq 1..MaxBytes
  /\ open \in BOOLEAN /\ isShared \in BOOLEAN
  /\ tmrRTT_Cnt \in 0..Ticks - 1
  /\ pc \in {"idle", "upDesc", "upData", "upRdOff",
             "downDesc", "downFirst", "downSecond", "downWrOff"}
  /\ aUp \in Copy /\ aDown \in Copy
  /\ data \in Seq(1..MaxBytes)
  /\ failures \in 0..MaxFailures

UpLen == Dist(up.RdOff, up.WrOff)
DownLen == Dist(down.RdOff, down.WrOff)

\* The unread part of the up ring holds the last bytes that were published.
UpHoldsLast ==
  /\ UpLen <= sent
  /\ \A i \in 1..UpLen : Unread(up)[i] = sent - UpLen + i

\* During a read nobody but the reader moves RdOff, and WrOff only advances.
UpCopyIsOld ==
  /\ pc \in {"upData", "upRdOff"} =>
       /\ aUp.RdOff = up.RdOff /\ aUp.WrOff # aUp.RdOff
       /\ Dist(aUp.RdOff, aUp.WrOff) <= UpLen
  /\ pc = "upRdOff" => data = SubSeq(Unread(up), 1, UpCount)

\* What left the ring was shown or lost.
UpGone ==
  Range(received) \cup lost = 1..sent - UpLen

UpInv == UpHoldsLast /\ UpCopyIsOld /\ UpGone

\* The unread part of the down ring holds bytes that were sent.
DownHoldsBytes == \A i \in 1..DownLen : Unread(down)[i] \in 1..MaxBytes

Writing == {"downFirst", "downSecond", "downWrOff"}

\* The firmware may have read on since the descriptor was read.
DownCopyIsOld ==
  pc \in Writing =>
    Dist(aDown.RdOff, down.RdOff) + DownLen = Dist(aDown.RdOff, down.WrOff)

\* The new offset never reaches the old copy of RdOff, and the bytes up to it
\* have been written.
DownNewOffset ==
  pc \in Writing =>
    /\ Dist(aDown.RdOff, down.WrOff) + Dist(down.WrOff, aDown.WrOff)
         = Dist(aDown.RdOff, aDown.WrOff)
    /\ \A i \in Offsets :
         Dist(down.WrOff, i) < Dist(down.WrOff, aDown.WrOff)
           => down.pBuffer[i] \in 1..MaxBytes

\* Where the next part goes and how much of it there can be.
DownPlace ==
  /\ pc = "downFirst" => aDown.WrOff = down.WrOff /\ aDown.RdOff <= aDown.WrOff
  /\ pc = "downSecond" => aDown.WrOff < aDown.RdOff
  /\ pc = "downWrOff" /\ data # << >> => Dist(aDown.WrOff, aDown.RdOff) = 1

DownInv == DownHoldsBytes /\ DownCopyIsOld /\ DownNewOffset /\ DownPlace

IInv == Types /\ UpInv /\ DownInv

LEMMA InitInv == Init => IInv
<1> SUFFICES ASSUME Init PROVE IInv
  OBVIOUS
<1>1. Types
  <2>1. 0 \in Offsets /\ 0 \in 0..MaxBytes /\ 0 \in 0..MaxFailures
    BY RttAssumption DEF RttAssumption, Offsets
  <2>2. EmptyRing \in Ring
    BY <2>1 DEF EmptyRing, Ring
  <2>3. 0 \in 0..Ticks - 1
    BY RttAssumption DEF RttAssumption, Ticks
  <2> QED BY <2>1, <2>2, <2>3 DEF Init, Types, Copy
<1>2. UpLen = 0 /\ DownLen = 0
  BY DEF Init, UpLen, DownLen, EmptyRing, Dist
<1>3. UpInv
  <2>1. Range(received) = {} /\ 1..0 = {}
    BY DEF Init, Range
  <2> QED BY <1>2, <2>1 DEF Init, UpInv, UpHoldsLast, UpCopyIsOld, UpGone
<1>4. DownInv
  BY <1>2 DEF Init, DownInv, DownHoldsBytes, DownCopyIsOld, DownNewOffset, DownPlace, Writing
<1> QED BY <1>1, <1>3, <1>4 DEF IInv

-----------------------------------------------------------------------------
(* What the parts of the invariant say of the numbers in them.             *)

LEMMA UpFacts ==
  ASSUME Types
  PROVE  /\ up.WrOff \in Offsets /\ up.RdOff \in Offsets
         /\ up.pBuffer \in [Offsets -> 0..MaxBytes]
         /\ UpLen \in Offsets /\ UpLen \in Nat /\ UpLen < SizeOfBuffer
         /\ Unread(up) \in Seq(0..MaxBytes) /\ Len(Unread(up)) = UpLen
         /\ sent \in Nat
<1>1. /\ up \in Ring /\ up.WrOff \in Offsets /\ up.RdOff \in Offsets
      /\ up.pBuffer \in [Offsets -> 0..MaxBytes]
  BY DEF Types, Ring
<1> QED BY <1>1, Bounds, UnreadIs DEF UpLen, Types

LEMMA DownFacts ==
  ASSUME Types
  PROVE  /\ down.WrOff \in Offsets /\ down.RdOff \in Offsets
         /\ down.pBuffer \in [Offsets -> 0..MaxBytes]
         /\ DownLen \in Offsets /\ DownLen \in Nat /\ DownLen < SizeOfBuffer
         /\ Unread(down) \in Seq(0..MaxBytes) /\ Len(Unread(down)) = DownLen
<1>1. /\ down \in Ring /\ down.WrOff \in Offsets /\ down.RdOff \in Offsets
      /\ down.pBuffer \in [Offsets -> 0..MaxBytes]
  BY DEF Types, Ring
<1> QED BY <1>1, Bounds, UnreadIs DEF DownLen

\* A read takes at least one byte, no more than there are, and does not wrap.
LEMMA UpCountIs ==
  ASSUME Types, UpCopyIsOld, pc \in {"upData", "upRdOff"}
  PROVE  /\ UpCount \in Nat /\ 1 <= UpCount /\ UpCount <= UpLen
         /\ up.RdOff + UpCount <= SizeOfBuffer
         /\ aUp.RdOff = up.RdOff
<1>1. aUp.RdOff = up.RdOff /\ aUp.WrOff # aUp.RdOff /\ Dist(aUp.RdOff, aUp.WrOff) <= UpLen
  BY DEF UpCopyIsOld
<1>2. aUp.RdOff \in Offsets /\ aUp.WrOff \in Offsets /\ UpLen \in Nat
  BY UpFacts DEF Types, Copy
<1> QED BY <1>1, <1>2, RttAssumption DEF UpCount, Dist, Offsets, RttAssumption

\* Steps that leave one of the rings and its host alone.
LEMMA UpFrame ==
  ASSUME UpInv, UNCHANGED upVars,
         UNCHANGED hostVars \/ pc' \notin {"upData", "upRdOff"}
  PROVE  UpInv'
BY DEF UpInv, UpHoldsLast, UpCopyIsOld, UpGone, UpLen, upVars, hostVars, UpCount

LEMMA DownFrame ==
  ASSUME DownInv, UNCHANGED down, UNCHANGED hostVars \/ pc' \notin Writing
  PROVE  DownInv'
BY DEF DownInv, DownHoldsBytes, DownCopyIsOld, DownNewOffset, DownPlace, DownLen,
       hostVars, Writing

-----------------------------------------------------------------------------
(* The steps of the up ring.                                               *)

LEMMA TargetStoresStep ==
  ASSUME IInv, TargetStores
  PROVE  IInv' /\ Unread(up') = Unread(up)
<1> USE DEF IInv
<1>1. /\ up' \in Ring /\ up'.WrOff = up.WrOff /\ up'.RdOff = up.RdOff
      /\ up'.pBuffer = [up.pBuffer EXCEPT ![up.WrOff] = sent + 1]
  <2>1. /\ up \in Ring /\ up.WrOff \in Offsets /\ up.pBuffer \in [Offsets -> 0..MaxBytes]
        /\ sent \in Nat /\ sent < MaxBytes
    BY UpFacts DEF TargetStores, Types
  <2>4. sent + 1 \in 0..MaxBytes
    BY <2>1, RttAssumption DEF RttAssumption
  <2>2. [up.pBuffer EXCEPT ![up.WrOff] = sent + 1] \in [Offsets -> 0..MaxBytes]
    BY <2>1, <2>4
  <2>3. up' = [up EXCEPT !.pBuffer = [up.pBuffer EXCEPT ![up.WrOff] = sent + 1]]
    BY DEF TargetStores
  <2> QED BY <2>1, <2>2, <2>3 DEF Ring
<1>2. UpLen' = UpLen
  BY <1>1 DEF UpLen
<1>3. Dist(up.RdOff, up.WrOff) \in Int
  BY UpFacts DEF UpLen
<1>4. \A j \in Offsets : Dist(up.RdOff, j) < Dist(up.RdOff, up.WrOff)
                            => up'.pBuffer[j] = up.pBuffer[j]
  <2> SUFFICES ASSUME NEW j \in Offsets, Dist(up.RdOff, j) < Dist(up.RdOff, up.WrOff)
               PROVE  up'.pBuffer[j] = up.pBuffer[j]
    OBVIOUS
  <2>1. j # up.WrOff
    BY <1>3
  <2> QED BY <1>1, <2>1, UpFacts
<1>5. Unread(up') = Unread(up)
  <2>1. up \in Ring /\ Dist(up.RdOff, up.WrOff) <= Dist(up.RdOff, up'.WrOff)
    BY <1>1, <1>3 DEF Types
  <2> QED BY <1>1, <1>4, <2>1, WriterKeeps
<1>6. Types'
  BY <1>1 DEF Types, TargetStores, hostVars, downVars, guiVars
<1>7. UpInv'
  BY <1>1, <1>2, <1>5 DEF UpInv, UpHoldsLast, UpCopyIsOld, UpGone, TargetStores, hostVars, UpCount
<1>8. DownInv'
  BY DownFrame DEF TargetStores, downVars
<1> QED BY <1>5, <1>6, <1>7, <1>8

LEMMA TargetPublishesStep ==
  ASSUME IInv, TargetPublishes
  PROVE  /\ IInv'
         /\ Unread(up) = SubSeq(Unread(up'), 1, Len(Unread(up')) - 1)
         /\ Len(Unread(up')) = UpLen + 1
<1> USE DEF IInv
<1>1. /\ up.WrOff \in Offsets /\ up.RdOff \in Offsets /\ UpLen \in Nat
      /\ up.pBuffer[up.WrOff] = sent + 1 /\ sent \in Nat /\ sent + 1 <= MaxBytes
  <2>1. up.pBuffer[up.WrOff] \in 0..MaxBytes
    BY UpFacts
  <2> QED BY <2>1, UpFacts, RttAssumption DEF TargetPublishes, RttAssumption
<1>2. (up.WrOff + 1) % SizeOfBuffer \in Offsets /\ 1 \in Offsets
      /\ (up.WrOff + 1) % SizeOfBuffer =
           IF up.WrOff + 1 < SizeOfBuffer THEN up.WrOff + 1 ELSE up.WrOff + 1 - SizeOfBuffer
  <2>1. 1 \in Offsets
    BY RttAssumption DEF Offsets, RttAssumption
  <2> QED BY <1>1, <2>1, StepIs
<1>3. /\ up' \in Ring /\ up'.RdOff = up.RdOff /\ up'.pBuffer = up.pBuffer
      /\ up'.WrOff = (up.WrOff + 1) % SizeOfBuffer
  BY <1>2 DEF TargetPublishes, Types, Ring
<1>4. UpLen' = UpLen + 1
  BY <1>1, <1>2, <1>3, RttAssumption DEF UpLen, Dist, Offsets, RttAssumption, TargetPublishes
<1>5. /\ Unread(up) = SubSeq(Unread(up'), 1, UpLen)
      /\ \A i \in 1..UpLen : Unread(up')[i] = Unread(up)[i]
      /\ Len(Unread(up')) = UpLen + 1
  <2>1. Dist(up.RdOff, up.WrOff) <= Dist(up.RdOff, up'.WrOff)
    BY <1>1, <1>3, <1>4 DEF UpLen
  <2>2. /\ Unread(up) = SubSeq(Unread(up'), 1, Len(Unread(up)))
        /\ \A i \in 1..UpLen : Unread(up')[i] = Unread(up)[i]
    BY <1>3, <2>1, WriterKeeps DEF Types, UpLen
  <2> QED BY <1>3, <1>4, <2>2, UpFacts, UnreadIs DEF UpLen
<1>6. Unread(up')[UpLen + 1] = sent + 1
  <2>1. Unread(up')[UpLen + 1] = up.pBuffer[(up.RdOff + ((UpLen + 1) - 1)) % SizeOfBuffer]
    <3>1. UpLen + 1 \in 1..Dist(up'.RdOff, up'.WrOff)
      BY <1>1, <1>4 DEF UpLen
    <3> QED BY <1>3, <3>1, UnreadIs
  <2>2. (up.RdOff + UpLen) % SizeOfBuffer = up.WrOff
    <3>1. (up.RdOff + UpLen) % SizeOfBuffer =
            IF up.RdOff + UpLen < SizeOfBuffer THEN up.RdOff + UpLen
            ELSE up.RdOff + UpLen - SizeOfBuffer
      BY UpFacts, StepIs
    <3> QED BY <1>1, <3>1, RttAssumption DEF UpLen, Dist, Offsets, RttAssumption
  <2>3. (UpLen + 1) - 1 = UpLen
    BY <1>1
  <2> QED BY <1>1, <2>1, <2>2, <2>3
<1>7. Types'
  <2>1. sent + 1 \in 0..MaxBytes
    BY <1>1, RttAssumption DEF RttAssumption
  <2>2. sent' = sent + 1 /\ UNCHANGED <<hostVars, received, lost, downVars, guiVars, failures>>
    BY Zenon DEF TargetPublishes
  <2> QED BY <1>3, <2>1, <2>2 DEF Types, hostVars, downVars, guiVars
<1>8. UpInv'
  <2>1. UpHoldsLast'
    <3>1. sent' = sent + 1 /\ sent' - UpLen' = sent - UpLen
      BY <1>1, <1>4 DEF TargetPublishes
    <3>2. ASSUME NEW i \in 1..UpLen'
          PROVE  Unread(up')[i] = sent - UpLen + i
      BY <1>1, <1>4, <1>5, <1>6 DEF UpInv, UpHoldsLast
    <3> QED BY <1>1, <1>4, <3>1, <3>2 DEF UpInv, UpHoldsLast
  <2>2. UpCopyIsOld'
    <3>1. pc' = pc /\ aUp' = aUp /\ data' = data
      BY DEF TargetPublishes, hostVars
    <3>2. Dist(aUp.RdOff, aUp.WrOff) <= UpLen /\ pc \in {"upData", "upRdOff"}
            => Dist(aUp.RdOff, aUp.WrOff) <= UpLen'
      BY <1>1, <1>4, Bounds DEF Types, Copy
    <3>3. ASSUME pc = "upRdOff"
          PROVE  SubSeq(Unread(up'), 1, UpCount) = SubSeq(Unread(up), 1, UpCount)
      <4>1. UpCount \in 0..UpLen
        BY <1>1, <3>3, UpCountIs DEF UpInv
      <4>2. /\ Unread(up') \in Seq(0..MaxBytes) /\ UpCount \in 0..Len(Unread(up'))
            /\ UpCount \in 0..Len(Unread(up)) /\ Unread(up) \in Seq(0..MaxBytes)
        BY <1>1, <1>3, <1>5, <4>1, UnreadIs, UpFacts
      <4>3. \A i \in 1..UpCount : Unread(up')[i] = Unread(up)[i]
        BY <1>1, <1>5, <4>1
      <4>4. /\ SubSeq(Unread(up'), 1, UpCount) \in Seq(0..MaxBytes)
            /\ Len(SubSeq(Unread(up'), 1, UpCount)) = UpCount
            /\ \A i \in 1..UpCount : SubSeq(Unread(up'), 1, UpCount)[i] = Unread(up')[i]
            /\ SubSeq(Unread(up), 1, UpCount) \in Seq(0..MaxBytes)
            /\ Len(SubSeq(Unread(up), 1, UpCount)) = UpCount
            /\ \A i \in 1..UpCount : SubSeq(Unread(up), 1, UpCount)[i] = Unread(up)[i]
        BY <4>2, TakeFirst
      <4> QED BY <4>3, <4>4, SeqEqual
    <3> QED BY <1>3, <3>1, <3>2, <3>3 DEF UpInv, UpCopyIsOld, UpCount
  <2>3. UpGone'
    <3>1. sent' - UpLen' = sent - UpLen
      BY <1>1, <1>4 DEF TargetPublishes
    <3> QED BY <3>1 DEF UpInv, UpGone, TargetPublishes
  <2> QED BY <2>1, <2>2, <2>3 DEF UpInv
<1>9. DownInv'
  BY DownFrame DEF TargetPublishes, downVars
<1>10. Len(Unread(up')) - 1 = UpLen
  BY <1>1, <1>5
<1> QED BY <1>5, <1>7, <1>8, <1>9, <1>10

LEMMA TickStep ==
  ASSUME IInv, Tick
  PROVE  IInv' /\ (RawTCPLinkDefined => open' = open)
<1> USE DEF IInv
<1>1. tmrRTT_Cnt' \in 0..Ticks - 1
  <2>1. Ticks \in Nat /\ Ticks > 0 /\ tmrRTT_Cnt + 1 \in Nat
    BY RttAssumption DEF RttAssumption, Ticks, Types
  <2> HIDE DEF Ticks
  <2>2. (tmrRTT_Cnt + 1) % Ticks \in 0..Ticks - 1
    BY <2>1
  <2> QED BY <2>2 DEF Tick, NextTick
<1>2. /\ pc' \in {"idle", "upDesc"} /\ data' \in Seq(1..MaxBytes)
      /\ open' \in BOOLEAN
  <2>1. << >> \in Seq(1..MaxBytes)
    BY EmptySeq
  <2> QED BY <2>1 DEF Tick, TickFails, Types
<1>3. Types'
  BY <1>1, <1>2 DEF Types, Tick, upVars, downVars
<1>4. UpInv' /\ DownInv'
  BY <1>2, UpFrame, DownFrame DEF Tick, downVars, Writing
<1>5. RawTCPLinkDefined => open' = open
  BY DEF Tick
<1> QED BY <1>3, <1>4, <1>5

LEMMA UpReadDescStep ==
  ASSUME IInv, UpReadDesc
  PROVE  IInv'
<1> USE DEF IInv
<1>1. /\ aUp' \in Copy /\ up.RdOff \in Offsets /\ UpLen \in Nat
      /\ pc' \in {"idle", "upData"}
      /\ pc' = "upData" => up.WrOff # up.RdOff
  BY UpFacts DEF UpReadDesc, Copy
<1>2. Types'
  BY <1>1 DEF Types, UpReadDesc, upVars, downVars, guiVars
<1>3. UpInv'
  BY <1>1 DEF UpInv, UpHoldsLast, UpCopyIsOld, UpGone, UpLen, UpReadDesc, upVars
<1>4. DownInv'
  BY <1>1, DownFrame DEF UpReadDesc, downVars, Writing
<1> QED BY <1>2, <1>3, <1>4

LEMMA UpReadDataStep ==
  ASSUME IInv, UpReadData
  PROVE  IInv'
<1> USE DEF IInv
<1>1. /\ UpCount \in Nat /\ 1 <= UpCount /\ UpCount <= UpLen
      /\ up.RdOff + UpCount <= SizeOfBuffer /\ aUp.RdOff = up.RdOff
  BY UpCountIs DEF UpReadData, UpInv
<1>2. UpCount \in 0..Len(Unread(up)) /\ Unread(up) \in Seq(0..MaxBytes)
  BY <1>1, UpFacts
<1> DEFINE read == SubSeq(Unread(up), 1, UpCount)
<1>3. /\ read \in Seq(0..MaxBytes) /\ Len(read) = UpCount
      /\ \A i \in 1..UpCount : read[i] = Unread(up)[i]
  BY <1>2, TakeFirst
<1>4. ASSUME NEW i \in 1..UpCount
      PROVE  /\ up.pBuffer[aUp.RdOff + i - 1] = read[i]
             /\ read[i] \in 1..MaxBytes
  <2>0. UpLen \in Nat /\ UpLen < SizeOfBuffer /\ up.RdOff \in Offsets /\ up.RdOff \in Nat
    BY UpFacts, Bounds
  <2>1. i \in 1..UpLen /\ i - 1 \in Offsets /\ up.RdOff + (i - 1) < SizeOfBuffer
        /\ up.RdOff + (i - 1) = aUp.RdOff + i - 1
    BY <1>1, <2>0, RttAssumption DEF Offsets, RttAssumption
  <2>2. (up.RdOff + (i - 1)) % SizeOfBuffer = aUp.RdOff + i - 1
    BY <2>0, <2>1, StepIs
  <2>3. Unread(up)[i] = up.pBuffer[aUp.RdOff + i - 1]
    BY <2>1, <2>2, UnreadIs DEF Types, UpLen
  <2>4. Unread(up)[i] = sent - UpLen + i /\ UpLen <= sent
    BY <2>1 DEF UpInv, UpHoldsLast
  <2>5. sent - UpLen + i \in 1..MaxBytes
    <3>1. sent \in Nat /\ sent <= MaxBytes /\ MaxBytes \in Nat
      BY RttAssumption DEF RttAssumption, Types
    <3> QED BY <2>0, <2>1, <2>4, <3>1
  <2> QED BY <1>3, <2>3, <2>4, <2>5
<1> HIDE DEF read
<1>5. /\ data' \in Seq(1..MaxBytes) /\ data' = read
  <2>1. data' = [i \in 1..UpCount |-> up.pBuffer[aUp.RdOff + i - 1]]
    BY DEF UpReadData
  <2>2. data' \in [1..UpCount -> 1..MaxBytes]
    BY <1>4, <2>1
  <2>3. data' \in Seq(1..MaxBytes)
    BY <1>1, <2>2, SeqDef
  <2>4. DOMAIN data' = 1..UpCount /\ Len(data') = UpCount
    BY <1>1, <2>2, <2>3
  <2>5. data' \in Seq(0..MaxBytes)
    <3>1. 1..MaxBytes \subseteq 0..MaxBytes
      OBVIOUS
    <3> QED BY <2>3, <3>1, SeqMonotonic
  <2> QED BY <1>3, <1>4, <2>1, <2>3, <2>4, <2>5, SeqEqual
<1>6. Types'
  BY <1>5 DEF Types, UpReadData, upVars, downVars, guiVars
<1>7. UpInv'
  BY <1>5 DEF UpInv, UpHoldsLast, UpCopyIsOld, UpGone, UpLen, UpReadData, upVars, UpCount, read
<1>8. DownInv'
  BY DownFrame DEF UpReadData, downVars, Writing
<1> QED BY <1>6, <1>7, <1>8

\* When RdOff is written, exactly the bytes read leave the ring.
LEMMA ReleaseIs ==
  ASSUME Types, UpInv, pc = "upRdOff", up' = [up EXCEPT !.RdOff = NewRdOff]
  PROVE  /\ up' \in Ring
         /\ UpCount \in 1..Len(Unread(up)) /\ UpLen' = UpLen - UpCount
         /\ Unread(up') = SubSeq(Unread(up), UpCount + 1, Len(Unread(up)))
         /\ data = SubSeq(Unread(up), 1, UpCount)
         /\ Range(data) = sent - UpLen + 1 .. sent - UpLen'
         /\ sent' = sent => UpHoldsLast'
<1>1. /\ UpCount \in Nat /\ 1 <= UpCount /\ UpCount <= UpLen
      /\ aUp.RdOff = up.RdOff /\ UpLen \in Nat /\ UpLen <= sent /\ sent \in Nat
      /\ Len(Unread(up)) = UpLen /\ Unread(up) \in Seq(0..MaxBytes)
      /\ data = SubSeq(Unread(up), 1, UpCount)
      /\ \A i \in 1..UpLen : Unread(up)[i] = sent - UpLen + i
  BY UpCountIs, UpFacts DEF UpInv, UpCopyIsOld, UpHoldsLast
<1>2. up.RdOff \in Offsets /\ up.WrOff \in Offsets /\ UpCount \in Offsets
      /\ NewRdOff \in Offsets /\ NewRdOff = (up.RdOff + UpCount) % SizeOfBuffer
  <2>1. UpCount \in Offsets
    BY <1>1, UpFacts, RttAssumption DEF Offsets, RttAssumption
  <2> QED BY <1>1, <2>1, UpFacts, StepIs DEF NewRdOff
<1>3. /\ up' \in Ring /\ up'.pBuffer = up.pBuffer /\ up'.WrOff = up.WrOff
      /\ up'.RdOff = (up.RdOff + UpCount) % SizeOfBuffer
  BY <1>2 DEF Types, Ring
<1>4. /\ Unread(up') = SubSeq(Unread(up), UpCount + 1, Len(Unread(up)))
      /\ UpLen' = UpLen - UpCount
      /\ \A i \in 1..UpLen' : Unread(up')[i] = Unread(up)[UpCount + i]
  <2>1. UpCount \in 0..Dist(up.RdOff, up.WrOff)
    BY <1>1 DEF UpLen
  <2> QED BY <1>3, <2>1, ReaderTakes DEF UpLen, Types
<1>5. Range(data) = sent - UpLen + 1 .. sent - UpLen'
  <2>1. /\ DOMAIN data = 1..UpCount
        /\ \A i \in 1..UpCount : data[i] = sent - UpLen + i
    <3>1. UpCount \in 0..Len(Unread(up))
      BY <1>1
    <3>2. /\ data \in Seq(0..MaxBytes) /\ Len(data) = UpCount
          /\ \A i \in 1..UpCount : data[i] = Unread(up)[i]
      BY <1>1, <3>1, TakeFirst
    <3> QED BY <1>1, <3>2
  <2>s. PICK s \in Int, n \in Nat : /\ s = sent - UpLen /\ n = UpCount
                                    /\ sent - UpLen' = s + n /\ sent - UpLen + 1 = s + 1
    <3>1. UpLen' = UpLen - UpCount
      BY <1>4, Zenon
    <3>2. sent - UpLen' = (sent - UpLen) + UpCount
      BY <1>1, <3>1
    <3> QED BY <1>1, <3>2
  <2>0. \A i \in 1..n : data[i] = s + i
    BY <2>1, <2>s, Zenon
  <2>2. ASSUME NEW b \in s + 1 .. s + n
        PROVE  b - s \in 1..n /\ data[b - s] = b
    BY <2>0
  <2>3. \A i \in 1..n : data[i] \in s + 1 .. s + n
    BY <2>0
  <2>4. DOMAIN data = 1..n
    BY <2>1, <2>s, Zenon
  <2>5. Range(data) = s + 1 .. s + n
    BY <2>2, <2>3, <2>4 DEF Range
  <2> QED BY <2>s, <2>5, Zenon
<1>6. ASSUME sent' = sent PROVE UpHoldsLast'
  <2>1. UpLen' \in Nat /\ UpLen' <= sent
    BY <1>1, <1>4
  <2>2. ASSUME NEW i \in 1..UpLen'
        PROVE  Unread(up')[i] = sent - UpLen' + i
    <3>1. UpCount + i \in 1..UpLen
      BY <1>1, <1>4
    <3>2. Unread(up')[i] = sent - UpLen + (UpCount + i)
      BY <1>1, <1>4, <3>1
    <3> QED BY <1>1, <1>4, <3>2
  <2> QED BY <1>6, <2>1, <2>2 DEF UpHoldsLast
<1>7. UpCount \in 1..Len(Unread(up))
  BY <1>1
<1> QED BY <1>1, <1>3, <1>4, <1>5, <1>6, <1>7

\* The bytes that leave the ring are those that are shown, or lost.
LEMMA GoneIs ==
  ASSUME Types, UpInv, pc = "upRdOff", up' = [up EXCEPT !.RdOff = NewRdOff],
         sent' = sent,
         Range(received') \cup lost' =
           (Range(received) \cup lost) \cup Range(data)
  PROVE  UpGone'
<1>1. /\ Range(data) = sent - UpLen + 1 .. sent - UpLen'
      /\ UpLen' = UpLen - UpCount /\ UpCount \in 1..UpLen
  BY ReleaseIs, UpFacts
<1>2. sent \in Nat /\ UpLen \in Nat /\ UpLen <= sent
  BY UpFacts DEF UpInv, UpHoldsLast
<1>3. (1..sent - UpLen) \cup (sent - UpLen + 1 .. sent - UpLen') = 1..sent - UpLen'
  BY <1>1, <1>2
<1> QED BY <1>1, <1>3 DEF UpInv, UpGone

LEMMA UpWriteRdOffStep ==
  ASSUME IInv, UpWriteRdOff
  PROVE  IInv'
<1> USE DEF IInv
<1>1. /\ up' \in Ring /\ UpHoldsLast'
  BY ReleaseIs DEF UpWriteRdOff
<1>2. received' \in Seq(1..MaxBytes) /\ << >> \in Seq(1..MaxBytes)
  BY ConcatProperties, EmptySeq DEF UpWriteRdOff, Types
<1>3. Types'
  BY <1>1, <1>2 DEF Types, UpWriteRdOff, downVars, guiVars
<1>4. UpGone'
  <2>1. Range(received') = Range(received) \cup Range(data)
    <3>1. received \in Seq(1..MaxBytes) /\ data \in Seq(1..MaxBytes)
      BY DEF Types
    <3>2. received' = received \o data
      BY DEF UpWriteRdOff
    <3> QED BY <3>1, <3>2, RangeOfConcat
  <2> QED BY <2>1, GoneIs DEF UpWriteRdOff
<1>5. UpCopyIsOld'
  BY DEF UpWriteRdOff, UpCopyIsOld
<1>6. DownInv'
  BY DownFrame DEF UpWriteRdOff, downVars, Writing
<1> QED BY <1>1, <1>3, <1>4, <1>5, <1>6 DEF UpInv

LEMMA UpFailsStep ==
  ASSUME IInv, UpFails
  PROVE  IInv' /\ failures' > 0
<1> USE DEF IInv
<1>1. /\ failures' \in 0..MaxFailures /\ failures' > 0 /\ << >> \in Seq(1..MaxBytes)
      /\ open' \in BOOLEAN /\ pc' = "idle" /\ data' = << >>
  BY EmptySeq, RttAssumption DEF UpFails, TickFails, Types, RttAssumption
<1>2. DownInv'
  BY <1>1, DownFrame DEF UpFails, downVars, Writing
<1>3. CASE UNCHANGED <<up, lost>>
  <2>1. Types'
    BY <1>1, <1>3 DEF Types, UpFails, downVars
  <2>2. UpInv'
    BY <1>1, <1>3, UpFrame DEF UpFails, upVars
  <2> QED BY <1>1, <1>2, <2>1, <2>2
<1>4. CASE /\ pc = "upRdOff" /\ up' = [up EXCEPT !.RdOff = NewRdOff]
           /\ lost' = lost \cup Range(data)
  <2>1. up' \in Ring /\ UpHoldsLast'
    BY <1>4, ReleaseIs DEF UpFails
  <2>2. lost' \subseteq 1..MaxBytes
    <3>1. \A i \in DOMAIN data : data[i] \in 1..MaxBytes
      <4>1. data \in Seq(1..MaxBytes)
        BY DEF Types
      <4>2. data \in [1..Len(data) -> 1..MaxBytes]
        BY <4>1, LenProperties
      <4> QED BY <4>2
    <3> QED BY <1>4, <3>1 DEF Types, Range
  <2>3. Types'
    BY <1>1, <2>1, <2>2 DEF Types, UpFails, downVars
  <2>4. UpGone'
    <3>1. received' = received /\ sent' = sent
      BY DEF UpFails
    <3>2. Range(received') \cup lost' =
            (Range(received) \cup lost) \cup Range(data)
      BY <1>4, <3>1
    <3> QED BY <1>4, <3>1, <3>2, GoneIs
  <2>5. UpCopyIsOld'
    BY <1>1 DEF UpCopyIsOld
  <2> QED BY <1>1, <1>2, <2>1, <2>3, <2>4, <2>5 DEF UpInv
<1> QED BY <1>3, <1>4 DEF UpFails, Range

-----------------------------------------------------------------------------
(* The steps of the down ring.                                             *)

LEMMA TargetReadsStep ==
  ASSUME IInv, TargetReads
  PROVE  /\ IInv'
         /\ Len(Unread(down)) \in Nat \ {0}
         /\ taken' = taken \o SubSeq(Unread(down), 1, 1)
         /\ Unread(down') = SubSeq(Unread(down), 2, Len(Unread(down)))
<1> USE DEF IInv
<1>1. /\ down.RdOff \in Offsets /\ down.WrOff \in Offsets /\ DownLen \in Nat
      /\ Len(Unread(down)) = DownLen /\ Unread(down) \in Seq(0..MaxBytes)
      /\ 1 \in Offsets
  BY DownFacts, RttAssumption DEF Offsets, RttAssumption
<1>2. 1 <= DownLen
  BY <1>1, Apart DEF DownLen, TargetReads
<1>3. /\ down' \in Ring /\ down'.pBuffer = down.pBuffer /\ down'.WrOff = down.WrOff
      /\ down'.RdOff = (down.RdOff + 1) % SizeOfBuffer
      /\ (down.RdOff + 1) % SizeOfBuffer =
           IF down.RdOff + 1 < SizeOfBuffer THEN down.RdOff + 1
           ELSE down.RdOff + 1 - SizeOfBuffer
  BY <1>1, StepIs DEF TargetReads, Types, Ring
<1>4. /\ Unread(down') = SubSeq(Unread(down), 1 + 1, Len(Unread(down)))
      /\ DownLen' = DownLen - 1
      /\ \A i \in 1..DownLen' : Unread(down')[i] = Unread(down)[1 + i]
  <2>1. 1 \in 0..Dist(down.RdOff, down.WrOff)
    BY <1>1, <1>2 DEF DownLen
  <2> QED BY <1>3, <2>1, ReaderTakes DEF DownLen, Types
<1>5. Unread(down)[1] = down.pBuffer[down.RdOff] /\ Unread(down)[1] \in 1..MaxBytes
  <2>1. 1 \in 1..DownLen /\ down.RdOff + (1 - 1) = down.RdOff /\ 0 \in Offsets
    <3>1. down.RdOff \in Nat
      BY <1>1, Bounds
    <3> QED BY <1>1, <1>2, <3>1, RttAssumption DEF Offsets, RttAssumption
  <2>2. down.RdOff % SizeOfBuffer = down.RdOff
    <3>1. down.RdOff \in Nat /\ down.RdOff < SizeOfBuffer
      BY <1>1, Bounds
    <3> QED BY <3>1, Remainder
  <2>3. Unread(down)[1] = down.pBuffer[down.RdOff]
    BY <2>1, <2>2, UnreadIs DEF Types, DownLen
  <2> QED BY <2>1, <2>3 DEF DownInv, DownHoldsBytes
<1>6. taken' \in Seq(1..MaxBytes) /\ taken' = taken \o SubSeq(Unread(down), 1, 1)
  <2>1. taken' = Append(taken, Unread(down)[1])
    BY <1>5 DEF TargetReads
  <2>2. taken' \in Seq(1..MaxBytes)
    BY <1>5, <2>1, AppendProperties DEF Types
  <2>3. SubSeq(Unread(down), 1, 1) = <<Unread(down)[1]>>
    <3>1. Unread(down) # << >>
      BY <1>1, <1>2, EmptySeq
    <3> QED BY <1>1, <3>1, FirstAlone
  <2>4. Append(taken, Unread(down)[1]) = taken \o <<Unread(down)[1]>>
    BY <1>5, AppendIsConcat DEF Types
  <2> QED BY <2>1, <2>2, <2>3, <2>4
<1>7. Types'
  BY <1>3, <1>6 DEF Types, TargetReads, hostVars, upVars, guiVars
<1>8. UpInv'
  BY UpFrame DEF TargetReads
<1>9. DownInv'
  <2>1. DownHoldsBytes'
    <3> SUFFICES ASSUME NEW i \in 1..DownLen' PROVE Unread(down')[i] \in 1..MaxBytes
      BY <1>4 DEF DownHoldsBytes
    <3>1. 1 + i \in 1..DownLen
      BY <1>1, <1>4
    <3> QED BY <1>4, <3>1 DEF DownInv, DownHoldsBytes
  <2>2. DownCopyIsOld'
    <3> SUFFICES ASSUME pc \in Writing
                 PROVE  Dist(aDown.RdOff, down'.RdOff) + DownLen' =
                          Dist(aDown.RdOff, down.WrOff)
      BY <1>3 DEF DownCopyIsOld, TargetReads, hostVars
    <3>1. Dist(aDown.RdOff, down.RdOff) + DownLen = Dist(aDown.RdOff, down.WrOff)
      BY DEF DownInv, DownCopyIsOld
    <3>2. Dist(aDown.RdOff, down'.RdOff) = Dist(aDown.RdOff, down.RdOff) + 1
      <4>1. aDown.RdOff \in Offsets /\ Dist(aDown.RdOff, down.WrOff) < SizeOfBuffer
        BY <1>1, Bounds DEF Types, Copy
      <4> HIDE DEF IInv
      <4>2. Dist(aDown.RdOff, down.RdOff) \in Nat
        BY <1>1, <4>1, Bounds
      <4>3. Dist(aDown.RdOff, down.RdOff) + 1 < SizeOfBuffer
        BY <1>1, <1>2, <3>1, <4>1, <4>2, RttAssumption DEF RttAssumption
      <4> QED BY <1>1, <1>3, <4>1, <4>3, DistAdds
    <3>3. Dist(aDown.RdOff, down.RdOff) \in Nat
      BY <1>1, Bounds DEF Types, Copy
    <3> QED BY <1>1, <1>4, <3>1, <3>2, <3>3
  <2>3. DownNewOffset' /\ DownPlace'
    BY <1>3 DEF DownInv, DownNewOffset, DownPlace, TargetReads, hostVars
  <2> QED BY <2>1, <2>2, <2>3 DEF DownInv
<1>10. Len(Unread(down)) \in Nat \ {0}
  BY <1>1, <1>2
<1> QED BY <1>4, <1>6, <1>7, <1>8, <1>9, <1>10

LEMMA SendStep ==
  ASSUME IInv, NEW count \in 1..MaxBytes, Send(count)
  PROVE  IInv'
<1> USE DEF IInv
<1>1. /\ offered \in Nat /\ offered' \in 0..MaxBytes /\ offered + count <= MaxBytes
      /\ count \in Nat /\ MaxBytes \in Nat
  BY RttAssumption DEF Send, Types, RttAssumption
<1>2. data' \in Seq(1..MaxBytes)
  <2>1. data' = [i \in 1..count |-> offered + i]
    BY DEF Send
  <2>2. \A i \in 1..count : offered + i \in 1..MaxBytes
    BY <1>1
  <2>3. data' \in [1..count -> 1..MaxBytes]
    BY <2>1, <2>2
  <2> QED BY <1>1, <2>3, SeqDef
<1>3. Types'
  BY <1>1, <1>2 DEF Types, Send, upVars, guiVars
<1>4. UpInv' /\ DownInv'
  BY UpFrame, DownFrame DEF Send, Writing
<1> QED BY <1>3, <1>4

LEMMA DownReadDescStep ==
  ASSUME IInv, DownReadDesc
  PROVE  IInv'
<1> USE DEF IInv
<1>1. /\ down.RdOff \in Offsets /\ down.WrOff \in Offsets
      /\ aDown' \in Copy /\ aDown'.WrOff = down.WrOff /\ aDown'.RdOff = down.RdOff
      /\ pc' \in Writing /\ UNCHANGED <<data, upVars, downVars>> /\ down' = down
  BY DownFacts DEF DownReadDesc, Copy, Writing, downVars
<1>2. /\ Dist(down.RdOff, down.RdOff) = 0 /\ Dist(down.WrOff, down.WrOff) = 0
      /\ Dist(down.RdOff, down.WrOff) \in Nat
      /\ \A i \in Offsets : ~(Dist(down.WrOff, i) < 0)
  <2>1. \A i \in Offsets : Dist(down.WrOff, i) \in Nat
    BY <1>1, Bounds
  <2> QED BY <1>1, <2>1, Bounds DEF Dist
<1>3. Types'
  BY <1>1 DEF Types, DownReadDesc, upVars, downVars, guiVars, Writing
<1>4. UpInv'
  BY UpFrame DEF DownReadDesc
<1>5. DownInv'
  <2>1. DownHoldsBytes'
    BY <1>1 DEF DownInv, DownHoldsBytes, DownLen
  <2>2. DownCopyIsOld' /\ DownNewOffset'
    BY <1>1, <1>2 DEF DownCopyIsOld, DownNewOffset, DownLen
  <2>3. DownPlace'
    BY <1>1, Bounds, RttAssumption
      DEF DownPlace, DownReadDesc, SecondPart, Dist, Offsets, RttAssumption
  <2> QED BY <2>1, <2>2, <2>3 DEF DownInv
<1> QED BY <1>3, <1>4, <1>5

\* The numbers behind the free part of the ring while bytes are written.
LEMMA DownBounds ==
  ASSUME Types, DownInv, pc \in Writing
  PROVE  /\ aDown.RdOff \in Offsets /\ aDown.WrOff \in Offsets
         /\ down.RdOff \in Offsets /\ down.WrOff \in Offsets
         /\ Dist(aDown.RdOff, down.RdOff) + Dist(down.RdOff, down.WrOff) =
              Dist(aDown.RdOff, down.WrOff)
         /\ Dist(aDown.RdOff, down.WrOff) + Dist(down.WrOff, aDown.WrOff) =
              Dist(aDown.RdOff, aDown.WrOff)
BY DownFacts DEF DownInv, DownCopyIsOld, DownNewOffset, DownLen, Types, Copy

\* Where the offsets lie that a part is written to.
LEMMA PartIs ==
  ASSUME NEW a \in Offsets, NEW rd \in Offsets, NEW w \in Offsets, NEW c \in Offsets,
         NEW k \in Nat, c + k <= SizeOfBuffer, Dist(a, c) + k < SizeOfBuffer,
         Dist(a, rd) + Dist(rd, w) = Dist(a, w),
         Dist(a, w) + Dist(w, c) = Dist(a, c)
  PROVE  /\ (c + k) % SizeOfBuffer \in Offsets
         /\ Dist(a, w) + Dist(w, (c + k) % SizeOfBuffer) = Dist(a, (c + k) % SizeOfBuffer)
         /\ \A j \in Offsets : Dist(rd, j) < Dist(rd, w) => j \notin c .. c + k - 1
         /\ \A j \in Offsets : Dist(w, j) < Dist(w, (c + k) % SizeOfBuffer)
              => Dist(w, j) < Dist(w, c) \/ j \in c .. c + k - 1
<1>1. /\ Dist(a, c) \in Nat /\ Dist(a, w) \in Nat /\ Dist(w, c) \in Nat
      /\ Dist(a, rd) \in Nat /\ Dist(rd, w) \in Nat
  BY Bounds
<1>2. k \in Offsets
  BY <1>1, RttAssumption DEF Offsets, RttAssumption
<1>3. /\ Dist(a, (c + k) % SizeOfBuffer) = Dist(a, c) + k
      /\ Dist(w, (c + k) % SizeOfBuffer) = Dist(w, c) + k
  <2>1. Dist(w, c) + k < SizeOfBuffer
    BY <1>1, RttAssumption DEF RttAssumption
  <2> QED BY <1>2, <2>1, DistAdds
<1>4. ASSUME NEW j \in Offsets, Dist(rd, j) < Dist(rd, w)
      PROVE  j \notin c .. c + k - 1
  <2> SUFFICES ASSUME j \in c .. c + k - 1 PROVE FALSE
    OBVIOUS
  <2>1. Dist(c, j) = j - c /\ Dist(c, j) \in Nat /\ Dist(rd, j) \in Nat
    BY Bounds, RttAssumption DEF Dist, Offsets, RttAssumption
  <2>2. Dist(a, j) = Dist(a, c) + Dist(c, j)
    <3>1. Dist(c, j) < k
      BY <2>1, RttAssumption DEF Offsets, RttAssumption
    <3>2. Dist(a, c) + Dist(c, j) < SizeOfBuffer
      BY <1>1, <2>1, <3>1, RttAssumption DEF RttAssumption
    <3> QED BY <3>2, DistChain
  <2>3. Dist(a, j) = Dist(a, rd) + Dist(rd, j)
    <3>1. Dist(a, w) < SizeOfBuffer
      BY Bounds
    <3>2. Dist(a, rd) + Dist(rd, j) < SizeOfBuffer
      BY <1>1, <1>4, <2>1, <3>1, RttAssumption DEF RttAssumption
    <3> QED BY <3>2, DistChain
  <2> QED BY <1>1, <1>4, <2>1, <2>2, <2>3
<1>5. ASSUME NEW j \in Offsets, Dist(w, j) < Dist(w, c) + k, ~(Dist(w, j) < Dist(w, c))
      PROVE  j \in c .. c + k - 1
  BY <1>5, RttAssumption DEF Dist, Offsets, RttAssumption
<1>6. (c + k) % SizeOfBuffer \in Offsets
  BY <1>2, StepIs
<1> QED BY <1>1, <1>3, <1>4, <1>5, <1>6

\* A part is written into free slots only, and reaches up to the new offset.
LEMMA WriteMemIs ==
  ASSUME Types, DownInv, pc \in {"downFirst", "downSecond"}, NEW count \in 0..Len(data),
         aDown.WrOff + count <= SizeOfBuffer,
         Dist(aDown.RdOff, aDown.WrOff) + count < SizeOfBuffer,
         WriteMem(count), aDown'.RdOff = aDown.RdOff,
         aDown'.WrOff = (aDown.WrOff + count) % SizeOfBuffer,
         pc' \in Writing
  PROVE  /\ down' \in Ring /\ aDown'.WrOff \in Offsets
         /\ Unread(down') = Unread(down)
         /\ data' \in Seq(1..MaxBytes) /\ Len(data') = Len(data) - count
         /\ DownHoldsBytes' /\ DownCopyIsOld' /\ DownNewOffset'
<1> DEFINE a == aDown.RdOff
           c == aDown.WrOff
           n == (c + count) % SizeOfBuffer
<1>1. /\ a \in Offsets /\ c \in Offsets
      /\ down.RdOff \in Offsets /\ down.WrOff \in Offsets
      /\ Dist(a, down.RdOff) + Dist(down.RdOff, down.WrOff) = Dist(a, down.WrOff)
      /\ Dist(a, down.WrOff) + Dist(down.WrOff, c) = Dist(a, c)
      /\ pc \in Writing
  BY DownBounds DEF Writing
<1>2. count \in Nat /\ count <= Len(data) /\ data \in Seq(1..MaxBytes)
  BY DEF Types
<1>3. /\ n \in Offsets
      /\ Dist(a, down.WrOff) + Dist(down.WrOff, n) = Dist(a, n)
      /\ \A i \in Offsets : Dist(down.RdOff, i) < Dist(down.RdOff, down.WrOff)
                              => i \notin c .. c + count - 1
      /\ \A i \in Offsets : Dist(down.WrOff, i) < Dist(down.WrOff, n)
              => Dist(down.WrOff, i) < Dist(down.WrOff, c) \/ i \in c .. c + count - 1
  BY <1>1, <1>2, PartIs
<1>4. ASSUME NEW i \in c .. c + count - 1
      PROVE  data[i - c + 1] \in 1..MaxBytes
  <2>1. c \in Nat
    BY <1>1, Bounds
  <2>2. i - c + 1 \in 1..Len(data)
    BY <1>2, <2>1
  <2> QED BY <1>2, <2>2, ElementOfSeq
<1> DEFINE buffer == [i \in Offsets |-> IF i \in c .. c + count - 1
                                          THEN data[i - c + 1] ELSE down.pBuffer[i]]
<1>5. /\ buffer \in [Offsets -> 0..MaxBytes]
      /\ \A i \in Offsets : i \in c .. c + count - 1 => buffer[i] \in 1..MaxBytes
      /\ \A i \in Offsets : i \notin c .. c + count - 1 => buffer[i] = down.pBuffer[i]
  <2>1. down.pBuffer \in [Offsets -> 0..MaxBytes]
    BY DownFacts
  <2>2. 1..MaxBytes \subseteq 0..MaxBytes
    OBVIOUS
  <2> HIDE DEF c
  <2> QED BY <1>4, <2>1, <2>2
<1> HIDE DEF buffer, n, a, c
<1>6. /\ down' \in Ring /\ down'.pBuffer = buffer
      /\ down'.RdOff = down.RdOff /\ down'.WrOff = down.WrOff
  <2>1. down \in Ring
    BY DEF Types
  <2>2. down' = [down EXCEPT !.pBuffer = buffer]
    BY <2>1 DEF WriteMem, Ring, buffer, c
  <2> QED BY <1>5, <2>1, <2>2 DEF Ring
<1>7. Unread(down') = Unread(down) /\ DownLen' = DownLen
  <2>1. \A i \in Offsets : Dist(down.RdOff, i) < Dist(down.RdOff, down.WrOff)
                              => down'.pBuffer[i] = down.pBuffer[i]
    BY <1>3, <1>5, <1>6
  <2>2. Dist(down.RdOff, down.WrOff) <= Dist(down.RdOff, down'.WrOff)
    BY <1>1, <1>6, Bounds
  <2>3. down \in Ring
    BY DEF Types
  <2> QED BY <1>6, <2>1, <2>2, <2>3, WriterKeeps DEF DownLen
<1>8. data' \in Seq(1..MaxBytes) /\ Len(data') = Len(data) - count
  BY <1>2, DropFirst DEF WriteMem
<1>9. DownHoldsBytes'
  BY <1>7 DEF DownInv, DownHoldsBytes
<1>10. DownCopyIsOld'
  <2>1. Dist(a, down.RdOff) + DownLen = Dist(a, down.WrOff)
    BY <1>1 DEF DownLen
  <2> QED BY <1>6, <1>7, <2>1 DEF DownCopyIsOld, a
<1>11. DownNewOffset'
  <2>1. \A i \in Offsets : Dist(down.WrOff, i) < Dist(down.WrOff, c)
                              => down.pBuffer[i] \in 1..MaxBytes
    BY <1>1 DEF DownInv, DownNewOffset, c
  <2>2. \A i \in Offsets : Dist(down.WrOff, i) < Dist(down.WrOff, n)
                              => buffer[i] \in 1..MaxBytes
    BY <1>3, <1>5, <2>1
  <2> QED BY <1>3, <1>6, <2>2 DEF DownNewOffset, a, c, n
<1> QED BY <1>3, <1>6, <1>7, <1>8, <1>9, <1>10, <1>11 DEF n, c

LEMMA DownWriteFirstStep ==
  ASSUME IInv, DownWriteFirst
  PROVE  IInv' /\ Unread(down') = Unread(down)
<1> USE DEF IInv
<1>1. /\ pc = "downFirst" /\ pc \in Writing
      /\ aDown.WrOff = down.WrOff /\ aDown.RdOff <= aDown.WrOff
      /\ aDown \in Copy /\ aDown.RdOff \in Offsets /\ aDown.WrOff \in Offsets
  BY DEF DownWriteFirst, DownInv, DownPlace, Types, Copy, Writing
<1>2. aDown.RdOff \in Nat /\ aDown.WrOff \in Nat /\ aDown.WrOff < SizeOfBuffer
      /\ Len(data) \in Nat /\ data \in Seq(1..MaxBytes)
  <2>1. data \in Seq(1..MaxBytes)
    BY DEF Types
  <2>2. /\ aDown.RdOff \in Nat /\ aDown.RdOff < SizeOfBuffer
        /\ aDown.WrOff \in Nat /\ aDown.WrOff < SizeOfBuffer
    BY <1>1, Bounds
  <2> QED BY <2>1, <2>2
<1>3. /\ FirstCount \in 0..Len(data)
      /\ aDown.WrOff + FirstCount <= SizeOfBuffer
      /\ Dist(aDown.RdOff, aDown.WrOff) + FirstCount < SizeOfBuffer
      /\ FirstCount = Len(data)
           \/ IF aDown.RdOff # 0 THEN aDown.WrOff + FirstCount = SizeOfBuffer
                                 ELSE aDown.WrOff + FirstCount = SizeOfBuffer - 1
  <2>1. PICK n \in Nat, r \in Offsets, w \in Offsets :
          n = Len(data) /\ r = aDown.RdOff /\ w = aDown.WrOff
    BY <1>1, <1>2, Zenon
  <2>2. PICK c : c = FirstCount
    OBVIOUS
  <2>3. c = AtMost(n, IF r # 0 THEN SizeOfBuffer - w ELSE SizeOfBuffer - 1 - w)
    BY <2>1, <2>2, Zenon DEF FirstCount
  <2>4. r <= w
    BY <1>1, <2>1, Zenon
  <2>5. /\ c \in 0..n /\ w + c <= SizeOfBuffer /\ Dist(r, w) + c < SizeOfBuffer
        /\ c = n \/ IF r # 0 THEN w + c = SizeOfBuffer ELSE w + c = SizeOfBuffer - 1
    BY <2>3, <2>4, FirstFits
  <2> QED BY <2>1, <2>2, <2>5, Zenon
<1>4. /\ aDown'.RdOff = aDown.RdOff
      /\ aDown'.WrOff = (aDown.WrOff + FirstCount) % SizeOfBuffer
      /\ aDown'.WrOff \in Offsets => aDown' \in Copy
      /\ pc' \in {"downSecond", "downWrOff"} /\ pc' \in Writing
      /\ WriteMem(FirstCount)
  BY <1>1 DEF DownWriteFirst, Copy, Writing
<1>5. /\ down' \in Ring /\ aDown'.WrOff \in Offsets
      /\ Unread(down') = Unread(down)
      /\ data' \in Seq(1..MaxBytes) /\ Len(data') = Len(data) - FirstCount
      /\ DownHoldsBytes' /\ DownCopyIsOld' /\ DownNewOffset'
  BY <1>1, <1>3, <1>4, WriteMemIs
<1>6. Types'
  BY <1>4, <1>5 DEF Types, DownWriteFirst, upVars, guiVars
<1>7. UpInv'
  BY <1>4, UpFrame DEF DownWriteFirst
<1>8. DownPlace'
  <2>1. data' # << >> => Len(data') # 0 /\ FirstCount # Len(data)
    BY <1>2, <1>3, <1>5, EmptySeq
  <2>2. ASSUME data' # << >>
        PROVE  /\ aDown.RdOff # 0 => aDown'.WrOff = 0
               /\ aDown.RdOff = 0 => aDown'.WrOff = SizeOfBuffer - 1
    <3>1. IF aDown.RdOff # 0 THEN aDown.WrOff + FirstCount = SizeOfBuffer
                             ELSE aDown.WrOff + FirstCount = SizeOfBuffer - 1
      BY <1>3, <2>1, <2>2
    <3> QED BY <1>4, <3>1, Remainder, RttAssumption DEF RttAssumption
  <2>3. pc' = "downSecond" => data' # << >> /\ aDown.RdOff # 0
    BY DEF DownWriteFirst, SecondPart
  <2>4. pc' = "downWrOff" /\ data' # << >> => aDown.RdOff = 0 \/ aDown.RdOff = 1
    BY DEF DownWriteFirst, SecondPart
  <2>5. ASSUME pc' = "downWrOff", data' # << >>
        PROVE  Dist(aDown'.WrOff, aDown'.RdOff) = 1
    BY <1>4, <2>2, <2>4, <2>5, RttAssumption DEF Dist, RttAssumption
  <2>6. ASSUME pc' = "downSecond"
        PROVE  aDown'.WrOff < aDown'.RdOff
    BY <1>2, <1>4, <2>2, <2>3, <2>6
  <2> QED BY <1>4, <2>5, <2>6 DEF DownPlace
<1> QED BY <1>5, <1>6, <1>7, <1>8 DEF DownInv

LEMMA DownWriteSecondStep ==
  ASSUME IInv, DownWriteSecond
  PROVE  IInv' /\ Unread(down') = Unread(down)
<1> USE DEF IInv
<1>1. /\ pc = "downSecond" /\ pc \in Writing /\ aDown.WrOff < aDown.RdOff
      /\ aDown \in Copy /\ aDown.RdOff \in Offsets /\ aDown.WrOff \in Offsets
  BY DEF DownWriteSecond, DownInv, DownPlace, Types, Copy, Writing
<1>2. /\ aDown.RdOff \in Nat /\ aDown.WrOff \in Nat /\ aDown.RdOff < SizeOfBuffer
      /\ Len(data) \in Nat /\ data \in Seq(1..MaxBytes)
  <2>1. data \in Seq(1..MaxBytes)
    BY DEF Types
  <2>2. /\ aDown.RdOff \in Nat /\ aDown.RdOff < SizeOfBuffer
        /\ aDown.WrOff \in Nat /\ aDown.WrOff < SizeOfBuffer
    BY <1>1, Bounds
  <2> QED BY <2>1, <2>2
<1>3. /\ SecondCount \in 0..Len(data)
      /\ aDown.WrOff + SecondCount < aDown.RdOff
      /\ aDown.WrOff + SecondCount <= SizeOfBuffer
      /\ Dist(aDown.RdOff, aDown.WrOff) + SecondCount < SizeOfBuffer
      /\ SecondCount = Len(data) \/ aDown.WrOff + SecondCount = aDown.RdOff - 1
  <2>1. PICK n \in Nat, r \in Offsets, w \in Offsets :
          n = Len(data) /\ r = aDown.RdOff /\ w = aDown.WrOff
    BY <1>1, <1>2, Zenon
  <2>2. PICK c : c = SecondCount
    OBVIOUS
  <2>3. c = AtMost(n, r - 1 - w)
    BY <2>1, <2>2, Zenon DEF SecondCount
  <2>4. w < r
    BY <1>1, <2>1, Zenon
  <2>5. /\ c \in 0..n /\ w + c < r /\ w + c <= SizeOfBuffer /\ Dist(r, w) + c < SizeOfBuffer
        /\ c = n \/ w + c = r - 1
    BY <2>3, <2>4, SecondFits, Zenon
  <2> QED BY <2>1, <2>2, <2>5, Zenon
<1>4. /\ aDown'.RdOff = aDown.RdOff
      /\ aDown'.WrOff = aDown.WrOff + SecondCount
      /\ aDown'.WrOff \in Offsets => aDown' \in Copy
      /\ pc' = "downWrOff" /\ pc' \in Writing
      /\ WriteMem(SecondCount)
  BY <1>1 DEF DownWriteSecond, Copy, Writing
<1>5. aDown'.WrOff = (aDown.WrOff + SecondCount) % SizeOfBuffer
  <2>1. 0 <= aDown.WrOff + SecondCount /\ aDown.WrOff + SecondCount < SizeOfBuffer
        /\ aDown.WrOff + SecondCount \in Int
    BY <1>2, <1>3, RttAssumption DEF RttAssumption
  <2> QED BY <1>4, <2>1, Remainder
<1>6. /\ down' \in Ring /\ aDown'.WrOff \in Offsets
      /\ Unread(down') = Unread(down)
      /\ data' \in Seq(1..MaxBytes) /\ Len(data') = Len(data) - SecondCount
      /\ DownHoldsBytes' /\ DownCopyIsOld' /\ DownNewOffset'
  BY <1>1, <1>3, <1>4, <1>5, WriteMemIs
<1>7. Types'
  BY <1>4, <1>6 DEF Types, DownWriteSecond, upVars, guiVars
<1>8. UpInv'
  BY <1>4, UpFrame DEF DownWriteSecond
<1>9. DownPlace'
  <2>1. data' # << >> => SecondCount # Len(data)
    BY <1>2, <1>3, <1>6, EmptySeq
  <2>2. ASSUME data' # << >>
        PROVE  Dist(aDown'.WrOff, aDown'.RdOff) = 1
    BY <1>2, <1>3, <1>4, <2>1, <2>2 DEF Dist
  <2> QED BY <1>4, <2>2 DEF DownPlace
<1> QED BY <1>6, <1>7, <1>8, <1>9 DEF DownInv

\* What publishing does to the down ring: nothing that was unread is touched,
\* and what is new is bytes that were sent.
LEMMA PublishIs ==
  ASSUME Types, DownInv, pc = "downWrOff", Publish
  PROVE  /\ down' \in Ring /\ DownHoldsBytes' /\ accepted' \in Seq(1..MaxBytes)
         /\ Unread(down) = SubSeq(Unread(down'), 1, Len(Unread(down)))
         /\ Len(Unread(down')) \in Nat /\ Len(Unread(down)) <= Len(Unread(down'))
         /\ Unread(down') \in Seq(0..MaxBytes) /\ Unread(down) \in Seq(0..MaxBytes)
<1>1. /\ aDown.RdOff \in Offsets /\ aDown.WrOff \in Offsets
      /\ down.RdOff \in Offsets /\ down.WrOff \in Offsets
      /\ Dist(aDown.RdOff, down.RdOff) + Dist(down.RdOff, down.WrOff) =
           Dist(aDown.RdOff, down.WrOff)
      /\ Dist(aDown.RdOff, down.WrOff) + Dist(down.WrOff, aDown.WrOff) =
           Dist(aDown.RdOff, aDown.WrOff)
      /\ pc \in Writing
  BY DownBounds DEF Writing
<1>2. /\ down' \in Ring /\ down \in Ring /\ down'.RdOff = down.RdOff
      /\ down'.pBuffer = down.pBuffer /\ down'.WrOff = aDown.WrOff
  BY <1>1 DEF Publish, Types, Ring
<1> DEFINE more == Dist(down.WrOff, aDown.WrOff)
<1>3. DownLen \in Nat /\ more \in Nat /\ DownLen' \in Nat /\ DownLen' = DownLen + more
  <2>1. /\ DownLen \in Nat /\ more \in Nat /\ Dist(aDown.RdOff, down.RdOff) \in Nat
        /\ Dist(aDown.RdOff, aDown.WrOff) < SizeOfBuffer
    BY <1>1, Bounds DEF DownLen
  <2>2. Dist(down.RdOff, down.WrOff) + more < SizeOfBuffer
    BY <1>1, <2>1, RttAssumption DEF DownLen, RttAssumption
  <2>3. DownLen' = DownLen + more
    BY <1>1, <1>2, <2>2, DistChain DEF DownLen
  <2> QED BY <2>1, <2>3
<1>4. /\ Unread(down') \in Seq(0..MaxBytes) /\ Len(Unread(down')) = DownLen'
      /\ Unread(down) \in Seq(0..MaxBytes) /\ Len(Unread(down)) = DownLen
  BY <1>2, UnreadIs DEF DownLen
<1>5. /\ Unread(down) = SubSeq(Unread(down'), 1, Len(Unread(down)))
      /\ \A i \in 1..DownLen : Unread(down')[i] = Unread(down)[i]
  <2>1. Dist(down.RdOff, down.WrOff) <= Dist(down.RdOff, down'.WrOff)
    BY <1>2, <1>3 DEF DownLen
  <2> QED BY <1>2, <2>1, WriterKeeps DEF DownLen
<1> HIDE DEF more
<1>6. DownHoldsBytes'
  <2> SUFFICES ASSUME NEW i \in 1..DownLen' PROVE Unread(down')[i] \in 1..MaxBytes
    BY DEF DownHoldsBytes
  <2>1. CASE i <= DownLen
    <3>1. i \in 1..DownLen
      BY <1>3, <2>1
    <3> QED BY <1>5, <3>1 DEF DownInv, DownHoldsBytes
  <2>2. CASE DownLen < i
    <3> DEFINE j == (down.RdOff + (i - 1)) % SizeOfBuffer
    <3>1. /\ j \in Offsets /\ Dist(down.RdOff, j) = i - 1
          /\ Unread(down')[i] = down.pBuffer[j]
      <4>1. i \in 1..Dist(down'.RdOff, down'.WrOff)
        BY DEF DownLen
      <4> QED BY <1>2, <4>1, SlotIs, UnreadIs
    <3> HIDE DEF j
    <3>2. Dist(down.WrOff, j) < more
      <4>1. Dist(down.RdOff, j) = i - 1 /\ DownLen <= i - 1 /\ i - 1 < DownLen + more
        BY <1>3, <2>2, <3>1
      <4> QED BY <1>1, <1>3, <3>1, <4>1, RttAssumption
            DEF DownLen, Dist, Offsets, RttAssumption
    <3> QED BY <1>1, <3>1, <3>2 DEF DownInv, DownNewOffset, more
  <2> QED BY <1>3, <2>1, <2>2
<1>7. accepted' \in Seq(1..MaxBytes)
  <2>1. Unread(down') \in Seq(1..MaxBytes)
    <3>1. Unread(down') \in [1..DownLen' -> 0..MaxBytes]
      BY <1>4, LenProperties
    <3>2. Unread(down') \in [1..DownLen' -> 1..MaxBytes]
      BY <1>6, <3>1 DEF DownHoldsBytes
    <3> QED BY <1>3, <3>2, SeqDef
  <2>2. Len(Unread(down)) \in 0..Len(Unread(down'))
    BY <1>3, <1>4
  <2>3. SubSeq(Unread(down'), Len(Unread(down)) + 1, Len(Unread(down'))) \in Seq(1..MaxBytes)
    BY <2>1, <2>2, DropFirst
  <2> QED BY <2>3, ConcatProperties DEF Publish, Types
<1> QED BY <1>2, <1>3, <1>4, <1>5, <1>6, <1>7

LEMMA DownWriteWrOffStep ==
  ASSUME IInv, DownWriteWrOff
  PROVE  IInv'
<1> USE DEF IInv
<1>1. down' \in Ring /\ DownHoldsBytes' /\ accepted' \in Seq(1..MaxBytes)
  BY PublishIs DEF DownWriteWrOff
<1>2. << >> \in Seq(1..MaxBytes)
  BY EmptySeq
<1>3. Types'
  BY <1>1, <1>2 DEF Types, DownWriteWrOff, upVars, guiVars
<1>4. UpInv'
  BY UpFrame DEF DownWriteWrOff
<1>5. DownInv'
  BY <1>1 DEF DownInv, DownCopyIsOld, DownNewOffset, DownPlace, DownWriteWrOff, Writing
<1> QED BY <1>3, <1>4, <1>5

LEMMA DownFailsStep ==
  ASSUME IInv, DownFails
  PROVE  IInv' /\ failures' > 0
<1> USE DEF IInv
<1>1. /\ failures' \in 0..MaxFailures /\ failures' > 0 /\ << >> \in Seq(1..MaxBytes)
      /\ pc' = "idle" /\ data' = << >>
  BY EmptySeq, RttAssumption DEF DownFails, Types, RttAssumption
<1>2. down' \in Ring /\ DownHoldsBytes' /\ accepted' \in Seq(1..MaxBytes)
  <2>1. CASE UNCHANGED <<down, accepted>>
    BY <2>1 DEF Types, DownInv, DownHoldsBytes, DownLen
  <2>2. CASE pc = "downWrOff" /\ Publish
    BY <2>2, PublishIs
  <2> QED BY <2>1, <2>2 DEF DownFails
<1>3. Types'
  BY <1>1, <1>2 DEF Types, DownFails, upVars, guiVars
<1>4. UpInv'
  BY <1>1, UpFrame DEF DownFails
<1>5. DownInv'
  BY <1>1, <1>2 DEF DownInv, DownCopyIsOld, DownNewOffset, DownPlace, Writing
<1> QED BY <1>1, <1>3, <1>4, <1>5

-----------------------------------------------------------------------------
(* The theorems.                                                           *)

\* The invariant holds in every reachable state.
LEMMA NextInv == IInv /\ [Next]_vars => IInv'
<1> SUFFICES ASSUME IInv, [Next]_vars PROVE IInv'
  OBVIOUS
<1>1. CASE Target
  BY <1>1, TargetStoresStep, TargetPublishesStep, TargetReadsStep DEF Target
<1>2. CASE UpRead
  BY <1>2, TickStep, UpReadDescStep, UpReadDataStep, UpWriteRdOffStep, UpFailsStep DEF UpRead
<1>3. CASE DownAccess
  BY <1>3, DownReadDescStep, DownWriteFirstStep, DownWriteSecondStep, DownWriteWrOffStep,
     DownFailsStep DEF DownAccess
<1>4. CASE \E count \in 1..MaxBytes : Send(count)
  BY <1>4, SendStep
<1>5. CASE UNCHANGED vars
  <2>1. Types'
    BY <1>5 DEF IInv, Types, vars, hostVars, upVars, downVars, guiVars
  <2>2. UpInv' /\ DownInv'
    BY <1>5, UpFrame, DownFrame DEF IInv, vars, downVars
  <2> QED BY <2>1, <2>2 DEF IInv
<1> QED BY <1>1, <1>2, <1>3, <1>4, <1>5 DEF Next

LEMMA Invariance == Spec => []IInv
BY InitInv, NextInv, PTL DEF Spec

\* Offsets stay in the ring, and neither the window nor the firmware is ever
\* given anything but a byte that was offered (RTTView.py, aUpRead and
\* aDownWrite).
THEOREM RttTypeCorrect == Spec => []TypeOK
<1>1. IInv => TypeOK
  BY DEF IInv, Types, TypeOK, Ring, Copy
<1> QED BY <1>1, Invariance, PTL

\* Polling loses no byte the firmware published, except those whose RdOff
\* update raised after it was performed (RTTView.py, aUpRead).
THEOREM UpAccountedFor == Spec => []UpAccounted
<1>1. IInv => UpAccounted
  <2> SUFFICES ASSUME IInv PROVE UpAccounted
    OBVIOUS
  <2>1. /\ UpLen \in Nat /\ sent \in Nat /\ UpLen <= sent
        /\ DOMAIN Unread(up) = 1..UpLen
    BY UpFacts, LenProperties DEF IInv, UpInv, UpHoldsLast
  <2>2. Range(Unread(up)) = sent - UpLen + 1 .. sent
    <3>1. \A i \in 1..UpLen : Unread(up)[i] = sent - UpLen + i
      BY DEF IInv, UpInv, UpHoldsLast
    <3>2. ASSUME NEW b \in sent - UpLen + 1 .. sent
          PROVE  b - (sent - UpLen) \in 1..UpLen /\ Unread(up)[b - (sent - UpLen)] = b
      BY <2>1, <3>1
    <3>3. \A i \in 1..UpLen : Unread(up)[i] \in sent - UpLen + 1 .. sent
      BY <2>1, <3>1
    <3> QED BY <2>1, <3>2, <3>3 DEF Range
  <2>3. Range(received) \cup lost = 1..sent - UpLen
    BY DEF IInv, UpInv, UpGone
  <2>4. /\ (1..sent - UpLen) \cup (sent - UpLen + 1 .. sent) = 1..sent
        /\ (1..sent - UpLen) \cap (sent - UpLen + 1 .. sent) = {}
    BY <2>1
  <2> QED BY <2>2, <2>3, <2>4 DEF UpAccounted, Range
<1> QED BY <1>1, Invariance, PTL

\* aDownWrite leaves bytes out only when it filled the ring of the descriptor
\* it had read, up to the slot that tells full from empty.
THEOREM DownFillsTheRing == Spec => DownFillsRing
<1>1. IInv /\ [Next]_vars =>
        [pc = "downWrOff" /\ pc' = "idle" /\ data # << >>
           => (aDown.WrOff + 1) % SizeOfBuffer = aDown.RdOff]_vars
  <2> SUFFICES ASSUME IInv, pc = "downWrOff", data # << >>
               PROVE  (aDown.WrOff + 1) % SizeOfBuffer = aDown.RdOff
    OBVIOUS
  <2>1. /\ aDown.WrOff \in Offsets /\ aDown.RdOff \in Offsets
        /\ Dist(aDown.WrOff, aDown.RdOff) = 1
    BY DEF IInv, Types, Copy, DownInv, DownPlace
  <2>2. 1 \in Offsets
    BY RttAssumption DEF Offsets, RttAssumption
  <2>3. (aDown.WrOff + 1) % SizeOfBuffer =
          IF aDown.WrOff + 1 < SizeOfBuffer THEN aDown.WrOff + 1
          ELSE aDown.WrOff + 1 - SizeOfBuffer
    BY <2>1, <2>2, StepIs
  <2> QED BY <2>1, <2>3, RttAssumption DEF Dist, Offsets, RttAssumption
<1> QED BY <1>1, Invariance, PTL DEF Spec, DownFillsRing

\* A ring that starts empty is an empty queue.
LEMMA EmptyIsEmpty == Unread(EmptyRing) = << >>
<1>1. /\ EmptyRing.WrOff - EmptyRing.RdOff = 0
      /\ 0 % SizeOfBuffer = 0
  BY Remainder, RttAssumption DEF EmptyRing, RttAssumption
<1>2. Unread(EmptyRing) = [i \in 1..0 |-> EmptyRing.pBuffer[(EmptyRing.RdOff + i - 1) % SizeOfBuffer]]
  BY <1>1 DEF Unread
<1>3. 1..0 = {}
  OBVIOUS
<1> QED BY <1>2, <1>3

\* The up ring is a channel to the receive window: what the window is shown is
\* what the firmware published, in its order, once; only whole batches are
\* lost, and only where a write can be performed and still raise.
THEOREM UpIsChannel == Spec => UpImplementsChannel
<1>1. Init => UpChannel!Init
  BY EmptyIsEmpty DEF Init, UpChannel!Init
<1>2. IInv /\ [Next]_vars => [UpChannel!Next]_<<Unread(up), received>>
  <2> SUFFICES ASSUME IInv, [Next]_vars
               PROVE  UpChannel!Next \/ (Unread(up') = Unread(up) /\ received' = received)
    OBVIOUS
  <2>1. CASE TargetStores
    BY <2>1, TargetStoresStep DEF TargetStores
  <2>2. CASE TargetPublishes
    <3>1. /\ Unread(up) = SubSeq(Unread(up'), 1, Len(Unread(up')) - 1)
          /\ Len(Unread(up')) = UpLen + 1 /\ UpLen \in Nat
      BY <2>2, TargetPublishesStep, UpFacts DEF IInv
    <3>2. 1 \in 1..Len(Unread(up'))
      BY <3>1
    <3>3. received' = received
      BY <2>2 DEF TargetPublishes
    <3>4. UpChannel!Send
      BY <3>1, <3>2, <3>3 DEF UpChannel!Send
    <3> QED BY <3>4 DEF UpChannel!Next
  <2>3. CASE UpWriteRdOff
    <3>1. /\ UpCount \in 1..Len(Unread(up))
          /\ Unread(up') = SubSeq(Unread(up), UpCount + 1, Len(Unread(up)))
          /\ data = SubSeq(Unread(up), 1, UpCount)
          /\ received' = received \o data
      BY <2>3, ReleaseIs DEF UpWriteRdOff, IInv
    <3>2. UpChannel!Receive
      BY <3>1 DEF UpChannel!Receive, UpChannel!Take
    <3> QED BY <3>2 DEF UpChannel!Next
  <2>4. CASE UpFails
    <3>1. CASE UNCHANGED up
      BY <2>4, <3>1 DEF UpFails
    <3>2. CASE pc = "upRdOff" /\ AckMayBeLost /\ up' = [up EXCEPT !.RdOff = NewRdOff]
      <4>1. /\ UpCount \in 1..Len(Unread(up))
            /\ Unread(up') = SubSeq(Unread(up), UpCount + 1, Len(Unread(up)))
        BY <3>2, ReleaseIs DEF IInv
      <4>2. received' = received
        BY <2>4 DEF UpFails
      <4>3. UpChannel!Lose
        BY <3>2, <4>1, <4>2 DEF UpChannel!Lose, UpChannel!Take
      <4> QED BY <4>3 DEF UpChannel!Next
    <3> QED BY <2>4, <3>1, <3>2 DEF UpFails
  <2>5. CASE ~TargetStores /\ ~TargetPublishes /\ ~UpWriteRdOff /\ ~UpFails
    BY <2>5 DEF Next, Target, UpRead, DownAccess, TargetReads, Tick,
       UpReadDesc, UpReadData, DownReadDesc, DownWriteFirst, DownWriteSecond,
       DownWriteWrOff, DownFails, Send, vars, upVars
  <2> QED BY <2>1, <2>2, <2>3, <2>4, <2>5
<1> QED BY <1>1, <1>2, Invariance, PTL DEF Spec, UpImplementsChannel, UpChannel!Spec

\* The down ring is a channel to the firmware that loses nothing: writing into
\* the ring touches no byte the firmware has not read, whatever it reads
\* between the two parts.
THEOREM DownIsChannel == Spec => DownImplementsChannel
<1>1. Init => DownChannel!Init
  BY EmptyIsEmpty DEF Init, DownChannel!Init
<1>2. IInv /\ [Next]_vars => [DownChannel!Next]_<<Unread(down), taken>>
  <2> SUFFICES ASSUME IInv, [Next]_vars
               PROVE  DownChannel!Next \/ (Unread(down') = Unread(down) /\ taken' = taken)
    OBVIOUS
  <2>1. CASE TargetReads
    <3>1. /\ 1 \in 1..Len(Unread(down))
          /\ taken' = taken \o SubSeq(Unread(down), 1, 1)
          /\ Unread(down') = SubSeq(Unread(down), 1 + 1, Len(Unread(down)))
      BY <2>1, TargetReadsStep
    <3>2. DownChannel!Receive
      BY <3>1 DEF DownChannel!Receive, DownChannel!Take
    <3> QED BY <3>2 DEF DownChannel!Next
  <2>2. CASE pc = "downWrOff" /\ Publish /\ taken' = taken
    <3>1. /\ Unread(down) = SubSeq(Unread(down'), 1, Len(Unread(down)))
          /\ Len(Unread(down')) \in Nat /\ Len(Unread(down)) <= Len(Unread(down'))
          /\ Unread(down') \in Seq(0..MaxBytes) /\ Unread(down) \in Seq(0..MaxBytes)
      BY <2>2, PublishIs DEF IInv
    <3>2. CASE Len(Unread(down)) = Len(Unread(down'))
      BY <2>2, <3>1, <3>2, SubSeqFull
    <3>3. CASE Len(Unread(down)) # Len(Unread(down'))
      <4> DEFINE more == Len(Unread(down')) - Len(Unread(down))
      <4>1. more \in 1..Len(Unread(down')) /\ Len(Unread(down')) - more = Len(Unread(down))
        BY <3>1, <3>3, LenProperties
      <4>2. DownChannel!Send
        BY <2>2, <3>1, <4>1 DEF DownChannel!Send
      <4> QED BY <4>2 DEF DownChannel!Next
    <3> QED BY <3>2, <3>3
  <2>3. CASE DownWriteFirst
    BY <2>3, DownWriteFirstStep DEF DownWriteFirst
  <2>4. CASE DownWriteSecond
    BY <2>4, DownWriteSecondStep DEF DownWriteSecond
  <2>5. CASE DownWriteWrOff \/ DownFails
    BY <2>2, <2>5 DEF DownWriteWrOff, DownFails
  <2>6. CASE /\ ~TargetReads /\ ~DownWriteFirst /\ ~DownWriteSecond
             /\ ~DownWriteWrOff /\ ~DownFails
    BY <2>6 DEF Next, Target, UpRead, DownAccess, TargetStores, TargetPublishes, Tick,
       UpReadDesc, UpReadData, UpWriteRdOff, UpFails, DownReadDesc, Send, vars, downVars
  <2> QED BY <2>1, <2>3, <2>4, <2>5, <2>6
<1> QED BY <1>1, <1>2, Invariance, PTL DEF Spec, DownImplementsChannel, DownChannel!Spec
=============================================================================
