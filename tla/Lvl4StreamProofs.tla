--------------------------- MODULE Lvl4StreamProofs ---------------------------
(***************************************************************************)
(* Proofs about Lvl4Stream: bytes are neither lost nor reordered, what a   *)
(* callback is given does not depend on how the stream was cut, and the    *)
(* pass over the dirty connections finds nothing to do.                    *)
(***************************************************************************)
EXTENDS Lvl4Stream, TLAPS, SequenceTheorems, WellFoundedInduction

\* The position is that of new bytes only while they are being looked at.
PositionInv == pc # "data" => prev_pos = 0

\* A connection starts with an empty buffer, and nothing was given before.
FreshInv == ~connected => buf = <<>> /\ last.data = <<>>

\* Outside the loop over new data the trigger finds nothing in the buffer, or
\* there is nothing to look at: what the callback of a SizeDataTrigger of size
\* 0, the only one that fires on an empty buffer, installs there is satisfied
\* by no byte.
SettledInv ==
    pc \in {"idle", "dirty"} => Cuts(trigger, buf, prev_pos) = {} \/ buf = <<>>

\* Before the position to scan from there is no delimiter.
ScannedInv ==
    trigger.kind = "char" => \A j \in 1 .. prev_pos : buf[j] # trigger.c

\* The inductive invariant.
StreamInv ==
    /\ TypeOK /\ PositionInv /\ FreshInv /\ SettledInv /\ ScannedInv
    /\ Lossless /\ SegmentsExact

---------------------------------------------------------------------------
(* Sequences and triggers.                                                *)

\* A set of naturals that is not empty has a least element.
LEMMA LeastNatural ==
    ASSUME NEW T \in SUBSET Nat, T # {}
    PROVE  \E n \in T : \A m \in T : n <= m
PROOF
  <1> DEFINE R == OpToRel(<, Nat)
  <1>1. IsWellFoundedOn(R, Nat)
    BY NatLessThanWellFounded
  <1>2. R = {ss \in Nat \X Nat : ss[1] < ss[2]}
    BY DEF OpToRel
  <1> HIDE DEF R
  <1>3. PICK x \in T : \A y \in T : ~(<<y, x>> \in R)
    BY <1>1, WFMin
  <1>4. \A a, b \in Nat : <<b, a>> \in R <=> b < a
    BY <1>2
  <1>5. \A y \in T : x <= y
    <2> TAKE y \in T
    <2>1. ~(<<y, x>> \in R) /\ x \in Nat /\ y \in Nat
      BY <1>3
    <2>2. ~(y < x)
      BY <1>4, <2>1
    <2> QED
      BY <2>1, <2>2
  <1> QED
    BY <1>5

LEMMA ChunkType ==
    ASSUME TypeOK, NEW chunk \in Chunks
    PROVE  /\ chunk \in Seq(Bytes)
           /\ Len(chunk) \in 1 .. MaxStream - Len(received)
PROOF
  <1>1. Len(received) \in Nat /\ MaxStream \in Nat
    BY LenProperties, StreamAssumption DEF TypeOK
  <1>2. PICK n \in 1 .. (MaxStream - Len(received)) : chunk \in [1 .. n -> Bytes]
    BY DEF Chunks
  <1>3. n \in Nat
    BY <1>1
  <1>4. chunk \in Seq(Bytes)
    BY <1>2, <1>3, SeqDef
  <1>5. DOMAIN chunk = 1 .. Len(chunk) /\ Len(chunk) \in Nat
    BY <1>4, LenProperties
  <1>6. DOMAIN chunk = 1 .. n
    BY <1>2
  <1>7. Len(chunk) = n
    <2>1. n \in 1 .. Len(chunk)
      BY <1>2, <1>3, <1>5, <1>6
    <2>2. Len(chunk) \in 1 .. n
      BY <1>5, <1>6, <2>1
    <2> QED
      BY <1>3, <2>1, <2>2
  <1> QED
    BY <1>4, <1>7

\* The prefix of a concatenation.
LEMMA PrefixOfConcat ==
    ASSUME NEW s \in Seq(Bytes), NEW t \in Seq(Bytes)
    PROVE  SubSeq(s \o t, 1, Len(s)) = s
PROOF
  <1>1. Len(s) \in Nat /\ Len(t) \in Nat
    BY LenProperties
  <1>2. CASE Len(s) = 0
    <2>1. s = <<>>
      BY <1>2, EmptySeq
    <2>2. SubSeq(s \o t, 1, Len(s)) = <<>>
      BY <1>2, SubSeqEmpty
    <2> QED
      BY <2>1, <2>2
  <1>3. CASE Len(s) > 0
    <2>1. 1 \in 1 .. Len(s) /\ Len(s) \in 1 .. Len(s)
      BY <1>1, <1>3
    <2> QED
      BY <2>1, SubSeqOfConcat1, SubSeqFull
  <1> QED
    BY <1>1, <1>2, <1>3

\* The positions at which each kind of trigger cuts.
LEMMA CutsOf ==
    ASSUME NEW t \in DataTriggers, NEW b \in Seq(Bytes), NEW from \in Nat
    PROVE  /\ t.kind \in {"none", "char", "size"}
           /\ t.kind = "none" => Cuts(t, b, from) = {}
           /\ t.kind = "size" =>
                /\ t.size \in Nat /\ t = [kind |-> "size", size |-> t.size]
                /\ Cuts(t, b, from) = IF t.size <= Len(b) THEN {t.size} ELSE {}
           /\ t.kind = "char" =>
                Cuts(t, b, from) = {i \in Delimiters(t, b, from) :
                                      \A j \in Delimiters(t, b, from) : i <= j}
PROOF
  <1>1. CASE t = NoTrigger
    BY <1>1 DEF NoTrigger, Cuts
  <1>2. CASE t \in CharDataTrigger
    BY <1>2 DEF CharDataTrigger, Cuts
  <1>3. CASE t \in SizeDataTrigger
    <2>1. t.kind = "size" /\ t.size \in Sizes /\ t = [kind |-> "size", size |-> t.size]
      BY <1>3 DEF SizeDataTrigger
    <2>2. t.size \in Nat
      BY <2>1, StreamAssumption
    <2>3. Cuts(t, b, from) = {n \in {t.size} : n <= Len(b)}
      BY <2>1 DEF Cuts
    <2> QED
      BY <2>1, <2>2, <2>3
  <1> QED
    BY <1>1, <1>2, <1>3 DEF DataTriggers

LEMMA DelimitersRange ==
    ASSUME NEW t, NEW b \in Seq(Bytes), NEW from \in Nat
    PROVE  /\ Delimiters(t, b, from) \subseteq 1 .. Len(b)
           /\ \A i \in 1 .. Len(b) :
                i \in Delimiters(t, b, from) <=> i > from /\ b[i] = t.c
  BY LenProperties DEF Delimiters

LEMMA CutsRange ==
    ASSUME NEW t \in DataTriggers, NEW b \in Seq(Bytes), NEW from \in Nat,
           NEW n \in Cuts(t, b, from)
    PROVE  n \in 0 .. Len(b) /\ (t.kind = "char" => n \in 1 .. Len(b))
PROOF
  <1>1. Len(b) \in Nat
    BY LenProperties
  <1> QED
    BY <1>1, CutsOf, DelimitersRange

\* A CharDataTrigger that finds no cut finds no delimiter.
LEMMA NoCutNoDelimiter ==
    ASSUME NEW t \in DataTriggers, NEW b \in Seq(Bytes), NEW from \in Nat,
           t.kind = "char", Cuts(t, b, from) = {}
    PROVE  Delimiters(t, b, from) = {}
PROOF
  <1>1. Delimiters(t, b, from) \subseteq Nat
    BY DelimitersRange, LenProperties
  <1>2. ASSUME Delimiters(t, b, from) # {}
        PROVE  FALSE
    <2>1. PICK n \in Delimiters(t, b, from) :
             \A m \in Delimiters(t, b, from) : n <= m
      BY <1>1, <1>2, LeastNatural
    <2>2. n \in Cuts(t, b, from)
      BY <2>1, CutsOf
    <2> QED
      BY <2>2
  <1> QED
    BY <1>2

\* Nothing but an empty request is satisfied by an empty buffer.
LEMMA CutsOfEmpty ==
    ASSUME NEW t \in DataTriggers, NEW b \in Seq(Bytes), Len(b) = 0,
           NEW from \in Nat, NEW n \in Cuts(t, b, from)
    PROVE  n = 0 /\ t = ZeroTrigger
PROOF
  <1>1. n \in 0 .. Len(b) /\ (t.kind = "char" => n \in 1 .. Len(b))
    BY CutsRange
  <1>2. n = 0 /\ t.kind # "char"
    BY <1>1
  <1>3. t.kind = "size"
    BY <1>2, CutsOf
  <1>4. /\ t = [kind |-> "size", size |-> t.size]
        /\ Cuts(t, b, from) = IF t.size <= Len(b) THEN {t.size} ELSE {}
    BY <1>3, CutsOf
  <1>5. t.size = 0
    BY <1>2, <1>4
  <1> QED
    BY <1>2, <1>4, <1>5 DEF ZeroTrigger

\* Popping bytes moves them from the buffer to what was consumed.
LEMMA PopMoves ==
    ASSUME NEW b \in Seq(Bytes), NEW c \in Seq(Bytes), NEW n \in 0 .. Len(b)
    PROVE  /\ pop_by(b, n) \in Seq(Bytes)
           /\ Len(pop_by(b, n)) = Len(b) - n
           /\ SubSeq(b, 1, n) \in Seq(Bytes) /\ Len(SubSeq(b, 1, n)) = n
           /\ \A i \in 1 .. n : SubSeq(b, 1, n)[i] = b[i]
           /\ SubSeq(b, 1, n) \o pop_by(b, n) = b
           /\ (c \o SubSeq(b, 1, n)) \o pop_by(b, n) = c \o b
PROOF
  <1>1. Len(b) \in Nat /\ n \in Nat /\ n <= Len(b)
    BY LenProperties
  <1>2. \A i \in 1 .. n : b[i] \in Bytes
    BY <1>1, ElementOfSeq
  <1>3. \A i \in n + 1 .. Len(b) : b[i] \in Bytes
    BY <1>1, ElementOfSeq
  <1>4. /\ SubSeq(b, 1, n) \in Seq(Bytes)
        /\ Len(SubSeq(b, 1, n)) = IF 1 <= n THEN n - 1 + 1 ELSE 0
        /\ \A i \in 1 .. n - 1 + 1 : SubSeq(b, 1, n)[i] = b[1 + i - 1]
    BY <1>1, <1>2, SubSeqProperties
  <1>5. /\ pop_by(b, n) \in Seq(Bytes)
        /\ Len(pop_by(b, n)) = IF n + 1 <= Len(b) THEN Len(b) - (n + 1) + 1 ELSE 0
    BY <1>1, <1>3, SubSeqProperties DEF pop_by
  <1>6. SubSeq(b, 1, n) \o pop_by(b, n) = b
    <2>1. /\ 1 \in 1 .. Len(b) + 1 /\ n \in 1 - 1 .. Len(b)
          /\ Len(b) \in n .. Len(b)
      BY <1>1
    <2>2. SubSeq(b, 1, n) \o SubSeq(b, n + 1, Len(b)) = SubSeq(b, 1, Len(b))
      BY <2>1, ConcatAdjacentSubSeq
    <2>3. SubSeq(b, 1, Len(b)) = b
      BY SubSeqFull
    <2> QED
      BY <2>2, <2>3 DEF pop_by
  <1>7. (c \o SubSeq(b, 1, n)) \o pop_by(b, n) = c \o b
    <2>1. SubSeq(b, 1, n) \in Seq(Bytes) /\ pop_by(b, n) \in Seq(Bytes)
      BY <1>4, <1>5
    <2>2. ASSUME NEW p \in Seq(Bytes), NEW q \in Seq(Bytes), p \o q = b
          PROVE  (c \o p) \o q = c \o b
      <3> SUFFICES (c \o p) \o q = c \o (p \o q)
        BY <2>2
      <3> QED
        BY ONLY ConcatAssociative, c \in Seq(Bytes), p \in Seq(Bytes), q \in Seq(Bytes),
                SMTT(30)
    <2> QED
      BY ONLY <1>6, <2>1, <2>2, Zenon
  <1>8. Len(SubSeq(b, 1, n)) = n /\ Len(pop_by(b, n)) = Len(b) - n
    BY <1>1, <1>4, <1>5
  <1>9. \A i \in 1 .. n : SubSeq(b, 1, n)[i] = b[i]
    BY <1>1, <1>4
  <1> QED
    BY <1>4, <1>5, <1>6, <1>7, <1>8, <1>9

---------------------------------------------------------------------------
(* The parts of the inductive step.                                       *)

Memory == [alloc : Nat, bytes : Nat \cup {-1}]

LEMMA ModWord ==
    ASSUME NEW a \in Nat
    PROVE  a % Word \in Nat /\ a % Word < Word /\ (a < Word => a % Word = a)
  BY StreamAssumption

LEMMA AllocateType ==
    ASSUME NEW m \in Memory, NEW size \in Nat, NEW n \in Nat
    PROVE  allocate(m, size, n) \in Memory
PROOF
  <1>1. size + n \in Nat /\ (size + n) * 4 \in Nat
    OBVIOUS
  <1>2. (size + n) % Word \in Nat /\ size_buf(size + n) \in Nat
    BY <1>1, ModWord DEF size_buf
  <1> QED
    BY <1>2 DEF allocate, Memory

LEMMA CallbackType ==
    ASSUME TypeOK, callback
    PROVE  trigger' \in DataTriggers /\ reprocess' \in BOOLEAN
  BY DEF TypeOK, callback, DataTriggers

\* Lossless says that what was received was consumed or is in the buffer.
LEMMA LosslessEq ==
    ASSUME NEW r \in Seq(Bytes), NEW c \in Seq(Bytes), NEW b \in Seq(Bytes)
    PROVE  /\ r = SubSeq(c \o b, 1, Len(r)) /\ Len(r) = Len(c \o b)
                => r = c \o b
           /\ r = c \o b
                => r = SubSeq(c \o b, 1, Len(r)) /\ Len(r) = Len(c \o b)
PROOF
  <1>1. c \o b \in Seq(Bytes)
    BY ConcatProperties
  <1>2. SubSeq(c \o b, 1, Len(c \o b)) = c \o b
    BY <1>1, SubSeqFull
  <1> QED
    BY <1>2

LEMMA LosslessKept ==
    ASSUME TypeOK', received' = consumed' \o Unwritten', Unwritten' \in Seq(Bytes),
           Len(Unwritten') = Len(buf')
    PROVE  Lossless'
PROOF
  <1>1. received' \in Seq(Bytes) /\ consumed' \in Seq(Bytes) /\ buf' \in Seq(Bytes)
    BY DEF TypeOK
  <1>2. PICK u \in Seq(Bytes) : u = Unwritten'
    OBVIOUS
  <1>3. /\ received' = SubSeq(consumed' \o u, 1, Len(received'))
        /\ Len(received') = Len(consumed' \o u)
    BY ONLY <1>1, <1>2, LosslessEq, received' = consumed' \o Unwritten'
  <1>4. /\ Len(consumed' \o u) = Len(consumed') + Len(u)
        /\ Len(consumed' \o buf') = Len(consumed') + Len(buf')
    BY ONLY <1>1, <1>2, ConcatProperties
  <1>5. Len(received') = Len(consumed' \o buf')
    BY <1>2, <1>3, <1>4
  <1> QED
    BY <1>2, <1>3, <1>5 DEF Lossless

\* While the connection goes on, the buffer is as it was received.
LEMMA LosslessOn ==
    ASSUME TypeOK', received' = consumed' \o buf', pc' # "end"
    PROVE  Lossless'
PROOF
  <1>1. Unwritten' = buf' /\ buf' \in Seq(Bytes)
    BY DEF Unwritten, TypeOK
  <1> QED
    BY <1>1, LosslessKept

LEMMA ReceivedIs ==
    ASSUME StreamInv, pc \notin {"failed", "end"}
    PROVE  received = consumed \o buf
PROOF
  <1>1. Unwritten = buf
    BY DEF Unwritten
  <1>2. /\ received \in Seq(Bytes) /\ consumed \in Seq(Bytes) /\ buf \in Seq(Bytes)
        /\ received = SubSeq(consumed \o buf, 1, Len(received))
        /\ Len(received) = Len(consumed \o buf)
    BY <1>1 DEF StreamInv, TypeOK, Lossless
  <1> QED
    <2>1. \A r, c, b \in Seq(Bytes) :
             r = SubSeq(c \o b, 1, Len(r)) /\ Len(r) = Len(c \o b) => r = c \o b
      BY ONLY LosslessEq, Zenon
    <2> QED
      BY ONLY <1>2, <2>1, Zenon

\* Whatever a callback writes over the k bytes it was given, these bytes and
\* what is behind them are the buffer it was called with.
LEMMA OverwrittenKept ==
    ASSUME NEW b \in Seq(Bytes), NEW k \in 0 .. Len(b), NEW w \in Overwritten(b, k)
    PROVE  /\ w \in Seq(Bytes) /\ Len(w) = Len(b)
           /\ \A i \in 1 .. Len(b) : i > k => w[i] = b[i]
           /\ SubSeq(b, 1, k) \o pop_by(w, k) = b
PROOF
  <1>1. Len(b) \in Nat /\ DOMAIN b = 1 .. Len(b) /\ k \in Nat /\ k <= Len(b)
    BY LenProperties
  <1>2. w \in [1 .. Len(b) -> Bytes] /\ \A i \in 1 .. Len(b) : i > k => w[i] = b[i]
    BY <1>1 DEF Overwritten
  <1>3. w \in Seq(Bytes) /\ Len(w) = Len(b)
    <2>1. PICK n \in Nat : n = Len(b)
      BY <1>1
    <2>2. w \in [1 .. n -> Bytes]
      BY <1>2, <2>1
    <2>3. w \in Seq(Bytes)
      BY ONLY <2>2, n \in Nat, SeqDef
    <2>4. DOMAIN w = 1 .. n
      BY <2>2
    <2>5. PICK l \in Nat : l = Len(w) /\ 1 .. l = 1 .. n
      BY <2>3, <2>4, LenProperties
    <2>6. l = n
      <3>1. n \in 1 .. l \/ n = 0
        <4>1. n \in 1 .. n \/ n = 0
          OBVIOUS
        <4> QED
          BY ONLY <2>5, <4>1
      <3>2. l \in 1 .. n \/ l = 0
        <4>1. l \in 1 .. l \/ l = 0
          OBVIOUS
        <4> QED
          BY ONLY <2>5, <4>1
      <3> QED
        BY ONLY <3>1, <3>2, n \in Nat, l \in Nat
    <2> QED
      BY <2>1, <2>3, <2>5, <2>6
  <1>4. pop_by(w, k) = pop_by(b, k)
    <2>1. /\ pop_by(w, k) \in Seq(Bytes) /\ Len(pop_by(w, k)) = Len(b) - k
          /\ pop_by(b, k) \in Seq(Bytes) /\ Len(pop_by(b, k)) = Len(b) - k
      <3>1. k \in 0 .. Len(w)
        BY <1>3
      <3>2. pop_by(w, k) \in Seq(Bytes) /\ Len(pop_by(w, k)) = Len(w) - k
        BY ONLY <1>3, <3>1, PopMoves
      <3>3. pop_by(b, k) \in Seq(Bytes) /\ Len(pop_by(b, k)) = Len(b) - k
        BY PopMoves
      <3> QED
        BY <1>3, <3>2, <3>3
    <2>2. \A i \in k + 1 .. Len(b) : w[i] \in Bytes /\ b[i] \in Bytes
      <3>1. k + 1 .. Len(b) \subseteq 1 .. Len(b)
        BY <1>1
      <3> QED
        BY <1>2, <3>1, ElementOfSeq
    <2>3. ASSUME NEW i \in 1 .. Len(b) - k
          PROVE  pop_by(w, k)[i] = pop_by(b, k)[i]
      <3>1. pop_by(w, k)[i] = w[k + i] /\ pop_by(b, k)[i] = b[k + i]
        BY <1>1, <1>3, <2>2, SubSeqProperties DEF pop_by
      <3>2. k + i \in 1 .. Len(b) /\ k + i > k
        BY <1>1
      <3> QED
        BY <1>2, <3>1, <3>2
    <2> QED
      BY ONLY <2>1, <2>3, SeqEqual
  <1>5. SubSeq(b, 1, k) \o pop_by(b, k) = b
    BY PopMoves
  <1> QED
    BY <1>2, <1>3, <1>4, <1>5

\* What the callback is given is the beginning of the buffer.
LEMMA SegmentIs ==
    ASSUME TypeOK, NEW n \in Cuts(trigger, buf, prev_pos)
    PROVE  \E k \in 0 .. Len(buf) :
              /\ Segment(trigger, buf, n) = SubSeq(buf, 1, k)
              /\ Len(Segment(trigger, buf, n)) = k
PROOF
  <1>1. /\ trigger \in DataTriggers /\ buf \in Seq(Bytes) /\ prev_pos \in Nat
        /\ Len(buf) \in Nat
    BY LenProperties DEF TypeOK
  <1>2. n \in 0 .. Len(buf) /\ (trigger.kind = "char" => n \in 1 .. Len(buf))
    BY <1>1, CutsRange
  <1>3. PICK k \in 0 .. Len(buf) : Segment(trigger, buf, n) = SubSeq(buf, 1, k)
    BY <1>1, <1>2 DEF Segment
  <1>4. Len(SubSeq(buf, 1, k)) = k
    BY <1>1, PopMoves
  <1> QED
    BY <1>3, <1>4

LEMMA GivenEmpty ==
    ASSUME TypeOK, NEW n \in Cuts(trigger, buf, prev_pos), buf = <<>>
    PROVE  Segment(trigger, buf, n) = <<>>
PROOF
  <1>1. <<>> \in Seq(Bytes) /\ Len(buf) = 0 /\ buf \in Seq(Bytes)
    BY EmptySeq
  <1>2. PICK k \in 0 .. Len(buf) : Segment(trigger, buf, n) = SubSeq(buf, 1, k)
    BY SegmentIs
  <1>3. SubSeq(buf, 1, k) \in Seq(Bytes) /\ Len(SubSeq(buf, 1, k)) = k /\ k = 0
    BY <1>1, PopMoves
  <1> QED
    BY <1>2, <1>3, EmptySeq

\* What the callback is given at a cut: the bytes before the delimiter, none
\* of which is one, or as many as the trigger asked for.
LEMMA SegmentExact ==
    ASSUME TypeOK, ScannedInv, NEW n \in Cuts(trigger, buf, prev_pos),
           last' = [by |-> trigger, data |-> Segment(trigger, buf, n)]
    PROVE  SegmentsExact' /\ last' \in [by : DataTriggers, data : Seq(Bytes)]
PROOF
  <1>1. /\ trigger \in DataTriggers /\ buf \in Seq(Bytes) /\ prev_pos \in Nat
        /\ consumed \in Seq(Bytes) /\ Len(buf) \in Nat
    BY LenProperties DEF TypeOK
  <1>2. n \in 0 .. Len(buf) /\ (trigger.kind = "char" => n \in 1 .. Len(buf))
    BY <1>1, CutsRange
  <1>3. last'.by = trigger /\ last'.data = Segment(trigger, buf, n)
    OBVIOUS
  <1>4. CASE trigger.kind = "char"
    <2> DEFINE k == n - 1
    <2>1. k \in 0 .. Len(buf) /\ n = k + 1 /\ k \in Nat
      BY <1>1, <1>2, <1>4
    <2>2. Segment(trigger, buf, n) = SubSeq(buf, 1, k)
      BY <1>4 DEF Segment
    <2> HIDE DEF k
    <2>3. /\ SubSeq(buf, 1, k) \in Seq(Bytes) /\ Len(SubSeq(buf, 1, k)) = k
          /\ \A i \in 1 .. k : SubSeq(buf, 1, k)[i] = buf[i]
      BY <1>1, <2>1, PopMoves
    <2>4. DOMAIN SubSeq(buf, 1, k) = 1 .. k
      BY <2>3, LenProperties
    <2>5. n \in Delimiters(trigger, buf, prev_pos)
          /\ \A j \in Delimiters(trigger, buf, prev_pos) : n <= j
      BY <1>1, <1>4, CutsOf
    <2>6. ASSUME NEW j \in 1 .. k
          PROVE  buf[j] # trigger.c
      <3>1. CASE j <= prev_pos
        <4>1. j \in 1 .. prev_pos
          BY <1>1, <2>1, <3>1
        <4> QED
          BY <1>4, <4>1 DEF ScannedInv
      <3>2. CASE j > prev_pos
        <4>1. j \in 1 .. Len(buf) /\ ~(n <= j)
          BY <1>1, <2>1
        <4>2. j \notin Delimiters(trigger, buf, prev_pos)
          BY <2>5, <4>1
        <4> QED
          BY <1>1, <3>2, <4>1, <4>2, DelimitersRange
      <3> QED
        BY <1>1, <2>1, <3>1, <3>2
    <2>7. \A j \in DOMAIN last'.data : last'.data[j] # last'.by.c
      BY <1>3, <2>2, <2>3, <2>4, <2>6
    <2>8. last' \in [by : DataTriggers, data : Seq(Bytes)]
      BY <1>1, <2>2, <2>3
    <2> QED
      BY <1>3, <1>4, <2>7, <2>8 DEF SegmentsExact
  <1>5. CASE trigger.kind = "size"
    <2>1. Segment(trigger, buf, n) = SubSeq(buf, 1, n)
      BY <1>5 DEF Segment
    <2>2. SubSeq(buf, 1, n) \in Seq(Bytes) /\ Len(SubSeq(buf, 1, n)) = n
      BY <1>1, <1>2, PopMoves
    <2>3. n = trigger.size
      BY <1>1, <1>5, CutsOf
    <2>4. last' \in [by : DataTriggers, data : Seq(Bytes)]
      BY <1>1, <2>1, <2>2
    <2> QED
      BY <1>3, <1>5, <2>1, <2>2, <2>3, <2>4 DEF SegmentsExact
  <1> QED
    BY <1>1, <1>4, <1>5, CutsOf

\* When the trigger found nothing from its position on, there is nothing to be
\* found from anywhere.
LEMMA NothingLeft ==
    ASSUME TypeOK, ScannedInv, Cuts(trigger, buf, prev_pos) = {},
           NEW from \in Nat
    PROVE  Cuts(trigger, buf, from) = {}
PROOF
  <1>1. /\ trigger \in DataTriggers /\ buf \in Seq(Bytes) /\ prev_pos \in Nat
        /\ Len(buf) \in Nat
    BY LenProperties DEF TypeOK
  <1>2. CASE trigger.kind = "char"
    <2>1. Delimiters(trigger, buf, prev_pos) = {}
      BY <1>1, <1>2, NoCutNoDelimiter
    <2>2. ASSUME NEW j \in 1 .. Len(buf)
          PROVE  buf[j] # trigger.c
      <3>1. CASE j <= prev_pos
        BY <1>1, <1>2, <3>1 DEF ScannedInv
      <3>2. CASE j > prev_pos
        BY <1>1, <2>1, <3>2, DelimitersRange
      <3> QED
        BY <1>1, <3>1, <3>2
    <2>3. Delimiters(trigger, buf, from) = {}
      BY <1>1, <2>2, DelimitersRange
    <2> QED
      BY <1>1, <1>2, <2>3, CutsOf
  <1>3. CASE trigger.kind # "char"
    BY <1>1, <1>3, CutsOf
  <1> QED
    BY <1>2, <1>3

\* The same seen from between two calls: no byte of the buffer is a delimiter.
LEMMA NoDelimiter ==
    ASSUME TypeOK, PositionInv, SettledInv, pc = "idle", trigger.kind = "char",
           NEW j \in 1 .. Len(buf)
    PROVE  buf[j] # trigger.c
PROOF
  <1>1. /\ trigger \in DataTriggers /\ buf \in Seq(Bytes) /\ prev_pos \in Nat
        /\ Len(buf) \in Nat /\ prev_pos = 0
    BY LenProperties DEF TypeOK, PositionInv
  <1>2. buf # <<>>
    BY <1>1, EmptySeq
  <1>3. Delimiters(trigger, buf, prev_pos) = {}
    BY <1>1, <1>2, NoCutNoDelimiter DEF SettledInv
  <1>4. j > prev_pos
    BY <1>1
  <1> QED
    BY <1>1, <1>3, <1>4, DelimitersRange

---------------------------------------------------------------------------
(* The inductive step, one lemma per action.                              *)

LEMMA StreamInit == Init => StreamInv
PROOF
  <1> SUFFICES ASSUME Init
               PROVE  StreamInv
    OBVIOUS
  <1>1. <<>> \in Seq(Bytes) /\ Len(<<>>) = 0
    BY EmptySeq
  <1>2. NoMem \in Memory
    BY DEF NoMem, Memory
  <1>3. mem \in Memory
    BY <1>2, AllocateType DEF Init
  <1>4. NoTrigger \in DataTriggers /\ NoTrigger.kind = "none"
    BY DEF DataTriggers, NoTrigger
  <1>5. last \in [by : DataTriggers, data : Seq(Bytes)] /\ last.by.kind = "none"
    BY <1>1, <1>4 DEF Init, NoCall
  <1>6. TypeOK
    <2>1. /\ buf \in Seq(Bytes) /\ received \in Seq(Bytes)
          /\ consumed \in Seq(Bytes) /\ Len(buf) = 0
      BY <1>1 DEF Init
    <2>2. prev_pos \in 0 .. Len(buf) /\ conns \in 1 .. MaxConns
      BY <2>1, StreamAssumption DEF Init
    <2>3. /\ trigger \in DataTriggers /\ reprocess \in BOOLEAN
          /\ pc \in {"idle", "data", "dirty", "end", "failed"}
          /\ connected \in BOOLEAN
      BY <1>4 DEF Init
    <2> QED
      BY <1>3, <1>5, <2>1, <2>2, <2>3 DEF TypeOK, Memory
  <1>7. PositionInv /\ FreshInv /\ SettledInv /\ ScannedInv /\ SegmentsExact
    BY <1>4, <1>5 DEF Init, PositionInv, FreshInv, SettledInv, ScannedInv,
                      SegmentsExact, NoCall
  <1>8. received = consumed \o buf
    <2>1. <<>> \o <<>> = <<>>
      BY <1>1, ConcatEmptySeq
    <2> QED
      BY <2>1 DEF Init
  <1>9. Lossless
    BY <1>6, <1>8, LosslessEq DEF Init, TypeOK, Lossless, Unwritten
  <1> QED
    BY <1>6, <1>7, <1>9 DEF StreamInv

LEMMA StreamOnConnect == ASSUME StreamInv, on_connect PROVE StreamInv'
PROOF
  <1> USE DEF StreamInv
  <1>1. /\ UNCHANGED <<buf, mem, prev_pos, conns, received, consumed, last>>
        /\ pc = "idle" /\ pc' \in {"idle", "end"} /\ buf = <<>>
        /\ last.data = <<>> /\ connected' = TRUE /\ prev_pos = 0
    BY DEF on_connect, hist, FreshInv, PositionInv
  <1>2. trigger' \in DataTriggers /\ reprocess' \in BOOLEAN
    BY CallbackType DEF on_connect
  <1>3. TypeOK'
    BY <1>1, <1>2 DEF TypeOK
  <1>4. PositionInv' /\ FreshInv' /\ SettledInv'
    BY <1>1 DEF PositionInv, FreshInv, SettledInv
  <1>5. ScannedInv'
    BY <1>1 DEF ScannedInv
  <1>6. Lossless'
    <2>1. <<>> \in Seq(Bytes) /\ Len(<<>>) = 0
      BY EmptySeq
    <2>2. <<>> \o pop_by(<<>>, Len(<<>>)) = <<>>
      <3>1. Len(<<>>) \in 0 .. Len(<<>>)
        BY <2>1
      <3>2. /\ pop_by(<<>>, Len(<<>>)) \in Seq(Bytes)
            /\ Len(pop_by(<<>>, Len(<<>>))) = Len(<<>>) - Len(<<>>)
        BY <2>1, <3>1, PopMoves
      <3>3. pop_by(<<>>, Len(<<>>)) = <<>>
        BY <2>1, <3>2, EmptySeq
      <3> QED
        BY <2>1, <3>3, ConcatEmptySeq
    <2>3. Unwritten' = buf'
      BY <1>1, <2>2 DEF Unwritten
    <2>4. received' = consumed' \o buf' /\ buf' \in Seq(Bytes)
      BY <1>1, <2>1, ReceivedIs
    <2> QED
      BY <1>3, <2>3, <2>4, LosslessKept
  <1>7. SegmentsExact'
    BY <1>1 DEF SegmentsExact
  <1> QED
    BY <1>3, <1>4, <1>5, <1>6, <1>7

LEMMA StreamReconnect == ASSUME StreamInv, reconnect PROVE StreamInv'
PROOF
  <1> USE DEF StreamInv
  <1>1. /\ pc = "idle" /\ conns < MaxConns /\ conns' = conns + 1
        /\ connected' = FALSE /\ buf' = <<>> /\ mem' = NoMem
        /\ received' = <<>> /\ consumed' = <<>> /\ last' = NoCall
        /\ UNCHANGED <<trigger, reprocess, prev_pos, pc>>
    BY DEF reconnect
  <1>2. prev_pos = 0
    BY <1>1 DEF PositionInv
  <1>3. <<>> \in Seq(Bytes) /\ Len(<<>>) = 0
    BY EmptySeq
  <1>4. conns' \in 1 .. MaxConns
    BY <1>1, StreamAssumption DEF TypeOK
  <1>5. mem' \in [alloc : Nat, bytes : Nat \cup {-1}]
    BY <1>1 DEF NoMem
  <1>6. TypeOK'
    <2>1. /\ buf' \in Seq(Bytes) /\ received' \in Seq(Bytes)
          /\ consumed' \in Seq(Bytes) /\ Len(buf') = 0
      BY <1>1, <1>3
    <2>2. prev_pos' \in 0 .. Len(buf')
      BY <1>1, <1>2, <2>1
    <2>3. /\ trigger' \in DataTriggers /\ reprocess' \in BOOLEAN
          /\ pc' \in {"idle", "data", "dirty", "end", "failed"}
          /\ connected' \in BOOLEAN
          /\ last' \in [by : DataTriggers, data : Seq(Bytes)]
      BY <1>1, <1>3 DEF TypeOK, NoCall, NoTrigger, DataTriggers
    <2> QED
      BY <1>4, <1>5, <2>1, <2>2, <2>3 DEF TypeOK
  <1>7. PositionInv' /\ FreshInv' /\ SettledInv' /\ SegmentsExact'
    BY <1>1, <1>2 DEF PositionInv, FreshInv, SettledInv, SegmentsExact, NoCall,
                      NoTrigger
  <1>8. ScannedInv'
    BY <1>1, <1>2 DEF ScannedInv
  <1>9. received' = consumed' \o buf'
    <2>1. <<>> \o <<>> = <<>>
      BY <1>3, ConcatEmptySeq
    <2> QED
      BY <1>1, <2>1
  <1>10. Lossless'
    BY <1>1, <1>6, <1>9, LosslessOn
  <1> QED
    BY <1>6, <1>7, <1>8, <1>10

\* The buffer after grow_by and read().
LEMMA Grown ==
    ASSUME StreamInv, pc = "idle", NEW chunk \in Chunks
    PROVE  /\ grow_by(buf, chunk) \in Seq(Bytes)
           /\ Len(grow_by(buf, chunk)) = Len(buf) + Len(chunk)
           /\ \A j \in 1 .. Len(buf) : grow_by(buf, chunk)[j] = buf[j]
           /\ Len(buf) \in Nat /\ Len(chunk) \in Nat
           /\ received \o chunk \in Seq(Bytes)
           /\ received \o chunk = consumed \o grow_by(buf, chunk)
           /\ allocate(mem, Len(buf), Len(chunk)) \in Memory
PROOF
  <1> USE DEF StreamInv
  <1>1. /\ buf \in Seq(Bytes) /\ consumed \in Seq(Bytes)
        /\ received \in Seq(Bytes) /\ mem \in Memory
    BY DEF TypeOK, Memory
  <1>2. chunk \in Seq(Bytes)
    BY ChunkType
  <1>3. Len(buf) \in Nat /\ Len(chunk) \in Nat
    BY <1>1, <1>2, LenProperties
  <1>4. /\ buf \o chunk \in Seq(Bytes)
        /\ Len(buf \o chunk) = Len(buf) + Len(chunk)
        /\ \A i \in 1 .. Len(buf) + Len(chunk) :
              (buf \o chunk)[i] =
                 IF i <= Len(buf) THEN buf[i] ELSE chunk[i - Len(buf)]
    BY <1>1, <1>2, ConcatProperties
  <1>5. \A j \in 1 .. Len(buf) : (buf \o chunk)[j] = buf[j]
    BY <1>3, <1>4
  <1>6. received \o chunk \in Seq(Bytes)
    BY <1>1, <1>2, ConcatProperties
  <1>7. received \o chunk = consumed \o (buf \o chunk)
    <2>1. received = consumed \o buf
      BY ReceivedIs
    <2> SUFFICES (consumed \o buf) \o chunk = consumed \o (buf \o chunk)
      BY <2>1
    <2> QED
      BY ONLY <1>1, <1>2, ConcatAssociative
  <1>8. allocate(mem, Len(buf), Len(chunk)) \in Memory
    BY <1>1, <1>3, AllocateType
  <1> QED
    BY <1>3, <1>4, <1>5, <1>6, <1>7, <1>8 DEF grow_by

LEMMA StreamData ==
    ASSUME StreamInv, NEW chunk \in Chunks, process_lvl4_data(chunk)
    PROVE  StreamInv'
PROOF
  <1> USE DEF StreamInv
  <1>1. /\ pc = "idle" /\ connected /\ prev_pos' = Len(buf)
        /\ buf' = grow_by(buf, chunk)
        /\ mem' = allocate(mem, Len(buf), Len(chunk))
        /\ received' = received \o chunk /\ pc' = "data"
        /\ UNCHANGED <<trigger, reprocess, connected, conns, consumed, last>>
    BY DEF process_lvl4_data, conn
  <1>2. /\ buf' \in Seq(Bytes) /\ Len(buf') = Len(buf) + Len(chunk)
        /\ \A j \in 1 .. Len(buf) : buf'[j] = buf[j]
        /\ Len(buf) \in Nat /\ Len(chunk) \in Nat
        /\ received' \in Seq(Bytes) /\ mem' \in Memory
        /\ received' = consumed \o buf'
    BY <1>1, Grown
  <1>3. prev_pos' \in 0 .. Len(buf')
    BY <1>1, <1>2
  <1>4. TypeOK'
    BY <1>1, <1>2, <1>3 DEF TypeOK, Memory
  <1>5. PositionInv' /\ FreshInv' /\ SettledInv' /\ SegmentsExact'
    BY <1>1 DEF PositionInv, FreshInv, SettledInv, SegmentsExact
  <1>6. ScannedInv'
    BY <1>1, <1>2, NoDelimiter DEF ScannedInv
  <1>7. received' = consumed' \o buf'
    BY <1>1, <1>2
  <1>8. Lossless'
    BY <1>1, <1>4, <1>7, LosslessOn
  <1> QED
    BY <1>4, <1>5, <1>6, <1>8

LEMMA StreamReadFailed ==
    ASSUME StreamInv, NEW chunk \in Chunks, read_failed(chunk)
    PROVE  StreamInv'
PROOF
  <1> USE DEF StreamInv
  <1>1. /\ pc = "idle" /\ connected /\ prev_pos = 0
        /\ buf' = grow_by(buf, chunk)
        /\ mem' = allocate(mem, Len(buf), Len(chunk)) /\ pc' = "failed"
        /\ UNCHANGED <<trigger, reprocess, connected, conns, prev_pos, received,
                       consumed, last>>
    BY DEF read_failed, conn, hist, PositionInv
  <1>2. /\ buf' \in Seq(Bytes) /\ Len(buf') = Len(buf) + Len(chunk)
        /\ Len(buf) \in Nat /\ Len(chunk) \in Nat /\ mem' \in Memory
        /\ received \o chunk = consumed \o buf'
    BY <1>1, Grown
  <1>3. TypeOK'
    BY <1>1, <1>2 DEF TypeOK, Memory
  <1>4. PositionInv' /\ FreshInv' /\ SettledInv' /\ SegmentsExact'
    BY <1>1 DEF PositionInv, FreshInv, SettledInv, SegmentsExact
  <1>5. ScannedInv'
    BY <1>1 DEF ScannedInv
  <1>6. Lossless'
    <2>1. chunk \in Seq(Bytes) /\ received \in Seq(Bytes)
      BY ChunkType DEF TypeOK
    <2>2. SubSeq(received \o chunk, 1, Len(received)) = received
      BY <2>1, PrefixOfConcat
    <2>3. SubSeq(consumed' \o buf', 1, Len(received')) = received'
      BY <1>1, <1>2, <2>2
    <2> QED
      BY <1>1, <2>3 DEF Lossless, Unwritten
  <1> QED
    BY <1>3, <1>4, <1>5, <1>6

LEMMA StreamProcessBuffer == ASSUME StreamInv, process_buffer PROVE StreamInv'
PROOF
  <1> USE DEF StreamInv
  <1>1. /\ pc = "idle" /\ pc' = "dirty" /\ prev_pos = 0 /\ prev_pos' = prev_pos
        /\ reprocess' = FALSE
        /\ UNCHANGED <<buf, mem, trigger, connected, conns, received, consumed,
                       last>>
    BY DEF process_buffer, conn, hist, PositionInv
  <1>2. TypeOK'
    BY <1>1 DEF TypeOK
  <1>3. PositionInv' /\ FreshInv' /\ SettledInv' /\ SegmentsExact' /\ Lossless'
    BY <1>1 DEF PositionInv, FreshInv, SettledInv, SegmentsExact, Lossless, Unwritten
  <1>4. ScannedInv'
    BY <1>1 DEF ScannedInv
  <1> QED
    BY <1>2, <1>3, <1>4

LEMMA StreamNoMore == ASSUME StreamInv, NoMoreToProcess PROVE StreamInv'
PROOF
  <1> USE DEF StreamInv
  <1>1. /\ pc \in {"data", "dirty"} /\ pc' = "idle" /\ prev_pos' = 0
        /\ Cuts(trigger, buf, prev_pos) = {}
        /\ UNCHANGED <<buf, mem, trigger, reprocess, connected, conns, received,
                       consumed, last>>
    BY DEF NoMoreToProcess, conn, hist
  <1>2. TypeOK'
    BY <1>1, LenProperties DEF TypeOK
  <1>3. PositionInv' /\ FreshInv' /\ SegmentsExact' /\ Lossless'
    BY <1>1 DEF PositionInv, FreshInv, SegmentsExact, Lossless, Unwritten
  <1>4. ScannedInv'
    BY <1>1 DEF ScannedInv
  <1>5. SettledInv'
    <2>1. prev_pos' \in Nat
      BY <1>1
    <2>2. Cuts(trigger, buf, prev_pos') = {}
      BY <1>1, <2>1, NothingLeft
    <2> QED
      BY <1>1, <2>2 DEF SettledInv
  <1> QED
    BY <1>2, <1>3, <1>4, <1>5

LEMMA StreamAgain == ASSUME StreamInv, CanProcessAgain PROVE StreamInv'
PROOF
  <1> USE DEF StreamInv
  <1>1. /\ pc \in {"data", "dirty"} /\ prev_pos' = 0
        /\ UNCHANGED <<mem, pc, connected, conns, received>>
    BY DEF CanProcessAgain, conn
  <1>2. PICK n \in Cuts(trigger, buf, prev_pos) :
          /\ last' = [by |-> trigger, data |-> Segment(trigger, buf, n)]
          /\ consumed' = consumed \o SubSeq(buf, 1, n)
          /\ buf' = pop_by(buf, n)
    BY DEF CanProcessAgain
  <1>3. trigger' \in DataTriggers /\ reprocess' \in BOOLEAN
    BY CallbackType DEF CanProcessAgain
  <1>4. /\ trigger \in DataTriggers /\ buf \in Seq(Bytes) /\ prev_pos \in Nat
        /\ consumed \in Seq(Bytes) /\ Len(buf) \in Nat
    BY LenProperties DEF TypeOK
  <1>5. n \in 0 .. Len(buf)
    BY <1>4, CutsRange
  <1>6. /\ buf' \in Seq(Bytes) /\ Len(buf') = Len(buf) - n
        /\ SubSeq(buf, 1, n) \in Seq(Bytes)
        /\ consumed' \o buf' = consumed \o buf
    BY <1>2, <1>4, <1>5, PopMoves
  <1>7. consumed' \in Seq(Bytes)
    BY <1>2, <1>4, <1>6, ConcatProperties
  <1>8. SegmentsExact' /\ last' \in [by : DataTriggers, data : Seq(Bytes)]
    BY <1>2, SegmentExact
  <1>9. TypeOK'
    BY <1>1, <1>3, <1>4, <1>5, <1>6, <1>7, <1>8 DEF TypeOK
  <1>10. buf = <<>> => buf' = <<>>
    BY <1>4, <1>5, <1>6, EmptySeq
  <1>11. PositionInv' /\ FreshInv'
    <2>1. buf = <<>> => last'.data = <<>>
      BY <1>2, GivenEmpty
    <2> QED
      BY <1>1, <1>10, <2>1 DEF PositionInv, FreshInv
  <1>12. SettledInv'
    BY <1>1, <1>2, <1>10 DEF SettledInv
  <1>13. ScannedInv'
    BY <1>1 DEF ScannedInv
  <1>14. received' = consumed' \o buf'
    BY <1>1, <1>6, ReceivedIs
  <1>15. Lossless'
    BY <1>1, <1>9, <1>14, LosslessOn
  <1> QED
    BY <1>8, <1>9, <1>11, <1>12, <1>13, <1>15

LEMMA StreamEnd == ASSUME StreamInv, ConnectionEnd PROVE StreamInv'
PROOF
  <1> USE DEF StreamInv
  <1>1. /\ pc' = "end" /\ prev_pos' = 0 /\ pc \notin {"failed", "end"}
        /\ UNCHANGED <<mem, connected, conns, received, consumed>>
    BY DEF ConnectionEnd, conn
  <1>2. PICK n \in Cuts(trigger, buf, prev_pos) :
          /\ last' = [by |-> trigger, data |-> Segment(trigger, buf, n)]
          /\ buf' \in Overwritten(buf, Len(Segment(trigger, buf, n)))
    BY DEF ConnectionEnd
  <1>3. trigger' \in DataTriggers /\ reprocess' \in BOOLEAN
    BY CallbackType DEF ConnectionEnd
  <1>4. SegmentsExact' /\ last' \in [by : DataTriggers, data : Seq(Bytes)]
    BY <1>2, SegmentExact
  <1>5. PICK k \in 0 .. Len(buf) : last'.data = SubSeq(buf, 1, k) /\ Len(last'.data) = k
                                 /\ buf' \in Overwritten(buf, k)
    BY <1>2, SegmentIs
  <1>6. buf \in Seq(Bytes) /\ Len(buf) \in Nat
    BY LenProperties DEF TypeOK
  <1>7. /\ buf' \in Seq(Bytes) /\ Len(buf') = Len(buf)
        /\ SubSeq(buf, 1, k) \o pop_by(buf', k) = buf
    BY <1>5, <1>6, OverwrittenKept
  <1>8. TypeOK'
    BY <1>1, <1>3, <1>4, <1>6, <1>7 DEF TypeOK
  <1>9. Unwritten' = buf
    BY <1>1, <1>5, <1>7 DEF Unwritten
  <1>10. received' = consumed' \o Unwritten'
    BY <1>1, <1>9, ReceivedIs
  <1>11. Lossless'
    BY <1>6, <1>7, <1>8, <1>9, <1>10, LosslessKept
  <1>12. buf = <<>> => buf' = <<>> /\ last'.data = <<>>
    BY <1>2, <1>6, <1>7, EmptySeq, GivenEmpty
  <1>13. PositionInv' /\ FreshInv' /\ SettledInv'
    BY <1>1, <1>12 DEF PositionInv, FreshInv, SettledInv
  <1>14. ScannedInv'
    BY <1>1 DEF ScannedInv
  <1> QED
    BY <1>4, <1>8, <1>11, <1>13, <1>14

LEMMA StreamStep == StreamInv /\ [Next]_vars => StreamInv'
PROOF
  <1> SUFFICES ASSUME StreamInv, [Next]_vars
               PROVE  StreamInv'
    OBVIOUS
  <1>1. CASE UNCHANGED vars
    BY <1>1 DEF vars, conn, hist, StreamInv, TypeOK, PositionInv, FreshInv,
                SettledInv, ScannedInv, Lossless, Unwritten, SegmentsExact
  <1>2. CASE Rest
    BY <1>1, <1>2 DEF Rest
  <1>3. ASSUME NEW chunk \in Chunks, process_lvl4_data(chunk) \/ read_failed(chunk)
        PROVE  StreamInv'
    BY <1>3, StreamData, StreamReadFailed
  <1> QED
    BY <1>1, <1>2, <1>3, StreamOnConnect, StreamReconnect, StreamProcessBuffer,
       StreamNoMore, StreamAgain, StreamEnd DEF Next, Loop

---------------------------------------------------------------------------
(* The theorems.                                                          *)

\* The invariant of the connection's data path: whatever the peer sends, however
\* it is cut, and whatever the callbacks of process_lvl4_data install.
THEOREM StreamSafety == Spec => []StreamInv
PROOF
  <1>1. Init => StreamInv
    BY StreamInit
  <1>2. StreamInv /\ [Next]_vars => StreamInv'
    BY StreamStep
  <1> QED
    BY <1>1, <1>2, PTL DEF Spec

\* In particular the position process_buffer is called with is always inside of
\* the buffer, which pops and reconnections make shorter.
THEOREM StreamTypeCorrect == Spec => []TypeOK
PROOF
  <1>1. StreamInv => TypeOK
    BY DEF StreamInv
  <1> QED
    BY <1>1, StreamSafety, PTL

\* However the stream is cut into chunks and whatever the callbacks install,
\* the bytes consumed and those in the buffer are the bytes received, but for
\* what the callback that ended the connection wrote over those it was given.
THEOREM NoByteLost == Spec => []Lossless
PROOF
  <1>1. StreamInv => Lossless
    BY DEF StreamInv
  <1> QED
    BY <1>1, StreamSafety, PTL

\* A callback is given the bytes up to the first delimiter, or exactly as many
\* as it asked for.
THEOREM SegmentsAlwaysExact == Spec => []SegmentsExact
PROOF
  <1>1. StreamInv => SegmentsExact
    BY DEF StreamInv
  <1> QED
    BY <1>1, StreamSafety, PTL

\* No segment waits in the buffer between two calls of process_lvl4_data.
THEOREM AlwaysPrompt == Spec => []Prompt
PROOF
  <1>1. StreamInv => Prompt
    <2> SUFFICES ASSUME StreamInv, pc = "idle"
                 PROVE  Cuts(trigger, buf, 0) \ {0} = {}
      BY DEF Prompt
    <2>1. /\ trigger \in DataTriggers /\ buf \in Seq(Bytes) /\ prev_pos \in Nat
          /\ prev_pos = 0
      BY LenProperties DEF StreamInv, TypeOK, PositionInv
    <2>2. CASE Cuts(trigger, buf, prev_pos) = {}
      BY <2>1, <2>2, Zenon
    <2>3. CASE buf = <<>>
      <3>1. Len(buf) = 0
        BY <2>3, EmptySeq
      <3>2. \A n \in Cuts(trigger, buf, prev_pos) : n = 0
        BY <2>1, <3>1, CutsOfEmpty
      <3>3. Cuts(trigger, buf, prev_pos) \ {prev_pos} = {}
        BY <2>1, <3>2
      <3> QED
        BY <2>1, <3>3, Zenon
    <2> QED
      BY <2>2, <2>3 DEF StreamInv, SettledInv
  <1> QED
    BY <1>1, StreamSafety, PTL

\* process_buffer in the dirty pass calls no callback: the loop that installed
\* the trigger left it nothing to do.
THEOREM DirtyAlwaysNoOp == Spec => DirtyIsNoOp
PROOF
  <1>1. StreamInv /\ [Next]_vars
          => [pc = "dirty" /\ trigger # ZeroTrigger => NoMoreToProcess]_vars
    <2> SUFFICES ASSUME StreamInv, [Next]_vars, pc = "dirty",
                        trigger # ZeroTrigger, ~(UNCHANGED vars)
                 PROVE  NoMoreToProcess
      OBVIOUS
    <2>1. /\ trigger \in DataTriggers /\ buf \in Seq(Bytes) /\ prev_pos \in Nat
          /\ prev_pos = 0
      BY LenProperties DEF StreamInv, TypeOK, PositionInv
    <2>2. Cuts(trigger, buf, prev_pos) = {}
      <3>1. CASE buf = <<>>
        <4>1. Len(buf) = 0
          BY <3>1, EmptySeq
        <4> QED
          BY <2>1, <4>1, CutsOfEmpty
      <3> QED
        BY <3>1 DEF StreamInv, SettledInv
    <2>3. ~CanProcessAgain /\ ~ConnectionEnd
      BY <2>2 DEF CanProcessAgain, ConnectionEnd
    <2>4. ~Rest /\ ~process_buffer /\ ~on_connect /\ ~reconnect
          /\ \A chunk \in Chunks : ~process_lvl4_data(chunk) /\ ~read_failed(chunk)
      BY DEF Rest, process_buffer, on_connect, reconnect, process_lvl4_data,
             read_failed
    <2> QED
      BY <2>3, <2>4 DEF Next, Loop
  <1> QED
    BY <1>1, StreamSafety, PTL DEF Spec, DirtyIsNoOp

---------------------------------------------------------------------------
(* The memory of the buffer.                                              *)

\* Less than 4 GiB arrive on one connection: the sizes of Buffer do not wrap
\* around. Beyond that a buffer may be given less memory than it needs.
ShortStream == MaxStream < Word

\* A buffer that has no memory is empty; else what was allocated is what
\* size_buf says of _buf_size, and _buf_size is no less than the buffer.
MemInv ==
    IF mem = NoMem THEN buf = <<>>
    ELSE Len(buf) <= mem.alloc /\ mem.bytes = size_buf(mem.alloc)

LEMMA AllocateBacks ==
    ASSUME ShortStream, StreamInv, MemInv, pc = "idle", NEW chunk \in Chunks,
           buf' = grow_by(buf, chunk),
           mem' = allocate(mem, Len(buf), Len(chunk))
    PROVE  MemInv'
PROOF
  <1>1. /\ buf \in Seq(Bytes) /\ consumed \in Seq(Bytes)
        /\ received \in Seq(Bytes) /\ mem \in Memory
    BY DEF StreamInv, TypeOK, Memory
  <1>2. /\ Len(buf) \in Nat /\ Len(consumed) \in Nat /\ Len(received) \in Nat
        /\ MaxStream \in Nat /\ Word \in Nat
    BY <1>1, LenProperties, StreamAssumption
  <1>3. Len(received) = Len(consumed) + Len(buf)
    BY <1>1, ReceivedIs, ConcatProperties
  <1>4. Len(chunk) \in 1 .. MaxStream - Len(received)
    BY ChunkType DEF StreamInv
  <1> DEFINE n == Len(buf) + Len(chunk)
  <1>5. n \in Nat /\ n # 0 /\ n < Word
    BY <1>2, <1>3, <1>4 DEF ShortStream
  <1>6. Len(buf') = n
    BY Grown
  <1>7. n % Word = n
    BY <1>5, ModWord
  <1> HIDE DEF n
  <1>8. mem' = IF mem # NoMem /\ mem.alloc >= n THEN mem
               ELSE [alloc |-> n, bytes |-> size_buf(n)]
    BY <1>7 DEF allocate, n
  <1>9. CASE mem # NoMem /\ mem.alloc >= n
    BY <1>1, <1>5, <1>6, <1>8, <1>9 DEF MemInv, Memory
  <1>10. CASE ~(mem # NoMem /\ mem.alloc >= n)
    <2>1. mem'.alloc = n /\ mem'.bytes = size_buf(n)
      BY <1>8, <1>10
    <2>2. mem' # NoMem
      BY <1>5, <2>1 DEF NoMem
    <2> QED
      BY <1>5, <1>6, <2>1, <2>2 DEF MemInv
  <1> QED
    BY <1>9, <1>10

LEMMA MemInit == Init => MemInv
PROOF
  <1> SUFFICES ASSUME Init
               PROVE  MemInv
    OBVIOUS
  <1>1. buf = <<>> /\ Len(buf) = 0
    BY EmptySeq DEF Init
  <1>2. 0 % Word = 0
    BY StreamAssumption
  <1>3. mem = [alloc |-> 0, bytes |-> size_buf(0)]
    BY <1>2 DEF Init, allocate
  <1> QED
    BY <1>1, <1>3 DEF MemInv

LEMMA MemStep ==
    ASSUME ShortStream, StreamInv, MemInv, [Next]_vars
    PROVE  MemInv'
PROOF
  <1>1. CASE UNCHANGED <<buf, mem>>
    BY <1>1 DEF MemInv
  <1>2. ASSUME NEW chunk \in Chunks, process_lvl4_data(chunk) \/ read_failed(chunk)
        PROVE  MemInv'
    BY <1>2, AllocateBacks DEF process_lvl4_data, read_failed
  <1>3. CASE reconnect
    BY <1>3 DEF reconnect, MemInv
  <1>4. CASE CanProcessAgain
    <2>1. PICK n \in Cuts(trigger, buf, prev_pos) : buf' = pop_by(buf, n)
      BY <1>4 DEF CanProcessAgain
    <2>2. /\ trigger \in DataTriggers /\ buf \in Seq(Bytes) /\ prev_pos \in Nat
          /\ Len(buf) \in Nat /\ consumed \in Seq(Bytes) /\ mem \in Memory
      BY LenProperties DEF StreamInv, TypeOK, Memory
    <2>3. n \in 0 .. Len(buf)
      BY <2>2, CutsRange
    <2>4. buf' \in Seq(Bytes) /\ Len(buf') = Len(buf) - n
      BY <2>1, <2>2, <2>3, PopMoves
    <2>5. buf = <<>> => buf' = <<>>
      BY <2>2, <2>3, <2>4, EmptySeq
    <2>6. mem' = mem
      BY <1>4 DEF CanProcessAgain
    <2>7. mem.alloc \in Nat
      BY <2>2 DEF Memory
    <2> QED
      BY <2>2, <2>3, <2>4, <2>5, <2>6, <2>7 DEF MemInv
  <1>5. CASE ConnectionEnd
    <2>1. PICK n \in Cuts(trigger, buf, prev_pos) :
             buf' \in Overwritten(buf, Len(Segment(trigger, buf, n)))
      BY <1>5 DEF ConnectionEnd
    <2>2. PICK k \in 0 .. Len(buf) : buf' \in Overwritten(buf, k)
      BY <2>1, SegmentIs DEF StreamInv
    <2>3. buf \in Seq(Bytes) /\ buf' \in Seq(Bytes) /\ Len(buf') = Len(buf)
      BY <2>2, OverwrittenKept DEF StreamInv, TypeOK
    <2>4. buf = <<>> => buf' = <<>>
      BY <2>3, EmptySeq
    <2>5. mem' = mem
      BY <1>5 DEF ConnectionEnd
    <2> QED
      BY <2>3, <2>4, <2>5 DEF MemInv
  <1>6. CASE UNCHANGED vars \/ Rest \/ on_connect \/ process_buffer
             \/ NoMoreToProcess
    BY <1>1, <1>6 DEF vars, Rest, on_connect, process_buffer, NoMoreToProcess
  <1> QED
    BY <1>2, <1>3, <1>4, <1>5, <1>6 DEF Next, Loop

\* The memory allocate() gives is enough for the bytes of the buffer, after any
\* sequence of grow_by, pop_by and free_buffer, unless the buffer has ever held
\* a quarter of the 32-bit range, where size_buf wraps around.
THEOREM BufferBacked ==
    ASSUME ShortStream
    PROVE  Spec => []Backed
PROOF
  <1>1. StreamInv /\ MemInv => Backed
    <2> SUFFICES ASSUME StreamInv, MemInv, buf # <<>>, ~(mem.alloc >= Word \div 4)
                 PROVE  Len(buf) <= mem.bytes
      BY DEF Backed
    <2>1. /\ Len(buf) \in Nat /\ mem.alloc \in Nat /\ Word \in Nat
          /\ Word \div 4 \in Nat /\ Word = 4 * (Word \div 4)
      BY LenProperties, StreamAssumption DEF StreamInv, TypeOK
    <2>2. mem # NoMem
      BY DEF MemInv
    <2>3. Len(buf) <= mem.alloc /\ mem.bytes = size_buf(mem.alloc)
      BY <2>2 DEF MemInv
    <2>4. mem.alloc * 4 \in Nat /\ mem.alloc * 4 < Word
      BY <2>1
    <2>5. size_buf(mem.alloc) = mem.alloc * 4
      BY <2>4, ModWord DEF size_buf
    <2> QED
      BY <2>1, <2>3, <2>5
  <1>2. Init => MemInv
    BY MemInit
  <1>3. StreamInv /\ MemInv /\ [Next]_vars => MemInv'
    BY MemStep
  <1> QED
    BY <1>1, <1>2, <1>3, StreamSafety, PTL DEF Spec
=============================================================================
