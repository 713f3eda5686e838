--------------------------- MODULE TargetFileProofs ---------------------------
(***************************************************************************)
(* Proofs about TargetFile: for an input of any length, written and read   *)
(* in pieces of any size, next_target returns the valid lines and does not *)
(* say end before the last one.                                            *)
(***************************************************************************)
EXTENDS TargetFile, TLAPS, SequenceTheorems, WellFoundedInduction

\* The bytes of a sequence after the first p, up to the q-th.
Slice(s, p, q) == SubSeq(s, p + 1, q)

\* A line of the text begins after its p-th byte.
LineStart(text, p) == p = 0 \/ text[p] = "n"

\* The buffer is what was read after the last line popped, whole lines being
\* popped at a time.
BufferInv ==
    failed # "read" =>
        LET p == nread - Len(buf) IN
        p \in Nat /\ buf = Slice(input, p, nread) /\ LineStart(input, p)

\* The writer closes the descriptor after the last byte. When end was said,
\* everything was read, and a line that is left in the buffer has been taken
\* for the end because it follows an invalid one.
EndInv ==
    /\ closed => written = Len(input)
    /\ result = "end" /\ failed = "no" =>
         /\ closed /\ nread = written
         /\ (\A n \in Newlines(input) : ValidLine(LineBefore(input, n)))
                => Newlines(buf) = {}

\* The inductive invariant.
FileInv == TypeOK /\ BufferInv /\ LinesExact /\ EndInv

---------------------------------------------------------------------------
(* Pieces of a text and its lines.                                        *)

\* A set of naturals that is not empty has a least element.
LEMMA LeastNatural ==
    ASSUME NEW T \in SUBSET Nat, T # {}
    PROVE  \E n \in T : \A m \in T : n <= m
PROOF
  <1> DEFINE R == OpToRel(<, Nat)
  <1>1. IsWellFoundedOn(R, Nat)
    BY NatLessThanWellFounded
  <1>2. R = {ss \in Nat \X Nat : ss[1] < ss[2]}
    BY DEF OpToRel
  <1> HIDE DEF R
  <1>3. PICK x \in T : \A y \in T : ~(<<y, x>> \in R)
    BY <1>1, WFMin
  <1>4. \A a, b \in Nat : <<b, a>> \in R <=> b < a
    BY <1>2
  <1>5. \A y \in T : x <= y
    <2> TAKE y \in T
    <2>1. ~(<<y, x>> \in R) /\ x \in Nat /\ y \in Nat
      BY <1>3
    <2>2. ~(y < x)
      BY <1>4, <2>1
    <2> QED
      BY <2>1, <2>2
  <1> QED
    BY <1>5

LEMMA SliceProperties ==
    ASSUME NEW S, NEW s \in Seq(S), NEW q \in 0 .. Len(s), NEW p \in 0 .. q
    PROVE  /\ Slice(s, p, q) \in Seq(S) /\ Len(Slice(s, p, q)) = q - p
           /\ \A i \in 1 .. q - p : Slice(s, p, q)[i] = s[p + i]
PROOF
  <1>1. Len(s) \in Nat /\ p \in Nat /\ q \in Nat /\ p <= q /\ q <= Len(s)
    BY LenProperties
  <1>2. \A i \in p + 1 .. q : s[i] \in S
    BY <1>1, ElementOfSeq
  <1>3. /\ SubSeq(s, p + 1, q) \in Seq(S)
        /\ Len(SubSeq(s, p + 1, q)) = IF p + 1 <= q THEN q - (p + 1) + 1 ELSE 0
        /\ \A i \in 1 .. q - (p + 1) + 1 :
              SubSeq(s, p + 1, q)[i] = s[(p + 1) + i - 1]
    BY <1>1, <1>2, SubSeqProperties
  <1>4. Len(SubSeq(s, p + 1, q)) = q - p
    BY <1>1, <1>3
  <1>5. \A i \in 1 .. q - p : SubSeq(s, p + 1, q)[i] = s[p + i]
    BY <1>1, <1>3
  <1> QED
    BY <1>3, <1>4, <1>5 DEF Slice

\* A piece of a piece is a piece.
LEMMA SliceOfSlice ==
    ASSUME NEW S, NEW s \in Seq(S), NEW q \in 0 .. Len(s), NEW p \in 0 .. q,
           NEW n \in 0 .. q - p, NEW m \in 0 .. n
    PROVE  Slice(Slice(s, p, q), m, n) = Slice(s, p + m, p + n)
PROOF
  <1>1. Len(s) \in Nat /\ p \in Nat /\ q \in Nat /\ m \in Nat /\ n \in Nat
    BY LenProperties
  <1> DEFINE t == Slice(s, p, q)
  <1>2. /\ t \in Seq(S) /\ Len(t) = q - p
        /\ \A i \in 1 .. q - p : t[i] = s[p + i]
    BY SliceProperties
  <1> HIDE DEF t
  <1>3. /\ Slice(t, m, n) \in Seq(S) /\ Len(Slice(t, m, n)) = n - m
        /\ \A i \in 1 .. n - m : Slice(t, m, n)[i] = t[m + i]
    <2>1. n \in 0 .. Len(t) /\ m \in 0 .. n
      BY <1>2
    <2> QED
      BY <1>2, <2>1, SliceProperties, ZenonT(60)
  <1>4. p + n \in 0 .. Len(s) /\ p + m \in 0 .. p + n
    BY <1>1
  <1>5. /\ Slice(s, p + m, p + n) \in Seq(S)
        /\ Len(Slice(s, p + m, p + n)) = (p + n) - (p + m)
        /\ \A i \in 1 .. (p + n) - (p + m) :
              Slice(s, p + m, p + n)[i] = s[(p + m) + i]
    BY <1>4, SliceProperties
  <1>6. (p + n) - (p + m) = n - m
    BY <1>1
  <1>7. \A i \in 1 .. n - m : Slice(t, m, n)[i] = Slice(s, p + m, p + n)[i]
    <2> TAKE i \in 1 .. n - m
    <2>1. m + i \in 1 .. q - p /\ p + (m + i) = (p + m) + i
      BY <1>1
    <2> QED
      BY <1>2, <1>3, <1>5, <1>6, <2>1
  <1>8. Slice(t, m, n) = Slice(s, p + m, p + n)
    BY <1>3, <1>5, <1>6, <1>7, SeqEqual
  <1> QED
    BY <1>8 DEF t

\* memchr finds the first newline of a buffer that has one.
FirstNewline(b) == CHOOSE i \in Newlines(b) : IsFirstNewline(i, b)

LEMMA NewlinesOf ==
    ASSUME NEW S, NEW b \in Seq(S)
    PROVE  /\ Newlines(b) \subseteq 1 .. Len(b)
           /\ \A i \in 1 .. Len(b) : i \in Newlines(b) <=> b[i] = "n"
  BY LenProperties DEF Newlines

LEMMA FirstNewlineIs ==
    ASSUME NEW S, NEW b \in Seq(S), Newlines(b) # {}
    PROVE  /\ FirstNewline(b) \in 1 .. Len(b) /\ b[FirstNewline(b)] = "n"
           /\ \A i \in Newlines(b) : FirstNewline(b) <= i
PROOF
  <1>1. Newlines(b) \subseteq Nat
    BY NewlinesOf, LenProperties
  <1>2. \E n \in Newlines(b) : IsFirstNewline(n, b)
    BY <1>1, LeastNatural DEF IsFirstNewline
  <1>3. IsFirstNewline(FirstNewline(b), b)
    BY <1>2 DEF FirstNewline
  <1> QED
    BY <1>3, NewlinesOf DEF IsFirstNewline

\* The line that ends at the first newline after the start of a line.
LEMMA LineBeforeIs ==
    ASSUME NEW text \in Seq(Byte), NEW q \in 1 .. Len(text), NEW p \in 0 .. q - 1,
           LineStart(text, p), \A i \in Newlines(text) : i <= p \/ i >= q
    PROVE  LineBefore(text, q) = Slice(text, p, q - 1)
PROOF
  <1> DEFINE from == {i \in Newlines(text) : i < q} \cup {0}
  <1>1. Len(text) \in Nat /\ p \in Nat /\ q \in Nat /\ p < q
    BY LenProperties
  <1>2. Newlines(text) \subseteq 1 .. Len(text)
        /\ \A i \in 1 .. Len(text) : i \in Newlines(text) <=> text[i] = "n"
    BY NewlinesOf
  <1>3. p \in from
    BY <1>1, <1>2 DEF LineStart
  <1>4. \A j \in from : j <= p /\ j \in Nat
    BY <1>1, <1>2
  <1> HIDE DEF from
  <1>5. (CHOOSE i \in from : \A j \in from : j <= i) = p
    <2> DEFINE c == CHOOSE i \in from : \A j \in from : j <= i
    <2>1. c \in from /\ \A j \in from : j <= c
      BY <1>3, <1>4
    <2> HIDE DEF c
    <2>2. c = p
      BY <1>1, <1>3, <1>4, <2>1
    <2> QED
      BY <2>2 DEF c
  <1> QED
    BY <1>5 DEF LineBefore, Slice, from
\* The position of a line does not depend on how the text was cut: the first
\* newline of a buffer that begins with a line.
LEMMA LineInBuffer ==
    ASSUME NEW text \in Seq(Byte), NEW hi \in 0 .. Len(text), NEW p \in 0 .. hi,
           LineStart(text, p), NEW n \in 1 .. hi - p,
           Slice(text, p, hi)[n] = "n",
           \A i \in Newlines(Slice(text, p, hi)) : n <= i
    PROVE  /\ p + n \in Newlines(text)
           /\ \A i \in Newlines(text) : i <= p \/ i >= p + n
           /\ LineBefore(text, p + n) = Slice(Slice(text, p, hi), 0, n - 1)
           /\ Slice(Slice(text, p, hi), n, hi - p) = Slice(text, p + n, hi)
PROOF
  <1>1. Len(text) \in Nat /\ p \in Nat /\ hi \in Nat /\ n \in Nat
        /\ p <= hi /\ hi <= Len(text) /\ n <= hi - p /\ 1 <= n
    BY LenProperties
  <1> DEFINE b == Slice(text, p, hi)
  <1>2. /\ b \in Seq(Byte) /\ Len(b) = hi - p
        /\ \A i \in 1 .. hi - p : b[i] = text[p + i]
    BY SliceProperties
  <1>3. b[n] = "n" /\ \A i \in Newlines(b) : n <= i
    OBVIOUS
  <1> HIDE DEF b
  <1>4. /\ Newlines(text) \subseteq 1 .. Len(text)
        /\ \A i \in 1 .. Len(text) : i \in Newlines(text) <=> text[i] = "n"
    BY NewlinesOf
  <1>5. /\ Newlines(b) \subseteq 1 .. Len(b)
        /\ \A i \in 1 .. Len(b) : i \in Newlines(b) <=> b[i] = "n"
    BY <1>2, NewlinesOf
  <1>6. p + n \in Newlines(text)
    BY <1>1, <1>2, <1>3, <1>4
  <1>7. ASSUME NEW i \in Newlines(text), ~(i <= p), ~(i >= p + n)
        PROVE  FALSE
    <2>1. i \in 1 .. Len(text) /\ text[i] = "n"
      BY <1>4
    <2>2. i - p \in 1 .. hi - p /\ p + (i - p) = i
      BY <1>1, <1>7, <2>1
    <2>3. b[i - p] = "n"
      BY <1>2, <2>1, <2>2
    <2>4. n <= i - p
      BY <1>2, <1>3, <1>5, <2>2, <2>3
    <2> QED
      BY <1>1, <1>7, <2>1, <2>4
  <1>8. \A i \in Newlines(text) : i <= p \/ i >= p + n
    BY <1>7
  <1>9. p + n \in 1 .. Len(text) /\ p \in 0 .. (p + n) - 1
    BY <1>1
  <1>10. LineBefore(text, p + n) = Slice(text, p, (p + n) - 1)
    BY <1>8, <1>9, LineBeforeIs
  <1>11. Slice(b, 0, n - 1) = Slice(text, p + 0, p + (n - 1))
    <2>1. n - 1 \in 0 .. hi - p /\ 0 \in 0 .. n - 1
      BY <1>1
    <2> QED
      BY <2>1, SliceOfSlice DEF b
  <1>12. p + 0 = p /\ p + (n - 1) = (p + n) - 1
    BY <1>1
  <1>13. Slice(b, n, hi - p) = Slice(text, p + n, p + (hi - p))
    <2>1. hi - p \in 0 .. hi - p /\ n \in 0 .. hi - p
      BY <1>1
    <2> QED
      BY <2>1, SliceOfSlice DEF b
  <1>14. p + (hi - p) = hi
    BY <1>1
  <1> QED
    BY <1>6, <1>8, <1>10, <1>11, <1>12, <1>13, <1>14 DEF b

\* The valid lines of a text grow by at most the line that ends next.
LEMMA EndsGrow ==
    ASSUME NEW text \in Seq(Byte), NEW p \in Nat, NEW q \in Nat, p < q,
           \A i \in Newlines(text) : i <= p \/ i >= q
    PROVE  /\ ValidEnds(text, p) \subseteq Nat /\ \A i \in ValidEnds(text, p) : i <= p
           /\ q \in Newlines(text) /\ ValidLine(LineBefore(text, q))
                => ValidEnds(text, q) = ValidEnds(text, p) \cup {q}
           /\ ~(q \in Newlines(text) /\ ValidLine(LineBefore(text, q)))
                => ValidEnds(text, q) = ValidEnds(text, p)
PROOF
  <1>1. Newlines(text) \subseteq Nat
    BY NewlinesOf, LenProperties
  <1>2. \A i \in Newlines(text) : i <= q <=> i <= p \/ i = q
    BY <1>1
  <1> QED
    BY <1>1, <1>2 DEF ValidEnds

LEMMA AppendLine ==
    ASSUME NEW text, NEW lines \in Seq(Seq(Byte)), NEW p \in Nat, NEW q \in Nat,
           p < q, AreValidLines(lines, text, p),
           ValidEnds(text, p) \subseteq Nat, \A i \in ValidEnds(text, p) : i <= p,
           ValidEnds(text, q) = ValidEnds(text, p) \cup {q},
           LineBefore(text, q) \in Seq(Byte)
    PROVE  AreValidLines(Append(lines, LineBefore(text, q)), text, q)
PROOF
  <1> DEFINE n == Len(lines)
             more == Append(lines, LineBefore(text, q))
  <1>1. n \in Nat /\ DOMAIN lines = 1 .. n
    BY LenProperties
  <1>2. /\ more \in Seq(Seq(Byte)) /\ Len(more) = n + 1
        /\ \A i \in 1 .. n : more[i] = lines[i]
        /\ more[n + 1] = LineBefore(text, q)
    BY AppendProperties
  <1>3. DOMAIN more = 1 .. n + 1
    BY <1>2, LenProperties
  <1>4. PICK end \in [1 .. n -> ValidEnds(text, p)] :
          /\ \A e \in ValidEnds(text, p) : \E k \in 1 .. n : end[k] = e
          /\ \A j, k \in 1 .. n : j < k => end[j] < end[k]
          /\ \A k \in 1 .. n : lines[k] = LineBefore(text, end[k])
    BY <1>1 DEF AreValidLines
  <1> HIDE DEF n, more
  <1> DEFINE to == [k \in 1 .. n + 1 |-> IF k = n + 1 THEN q ELSE end[k]]
  <1>5. \A k \in 1 .. n + 1 : k = n + 1 \/ k \in 1 .. n
    BY <1>1
  <1>6. n + 1 \in 1 .. n + 1 /\ \A k \in 1 .. n : k # n + 1 /\ k \in 1 .. n + 1
    BY <1>1
  <1>7. to[n + 1] = q /\ \A k \in 1 .. n : to[k] = end[k]
    BY <1>6
  <1>8. to \in [1 .. n + 1 -> ValidEnds(text, q)]
    BY <1>4, <1>5
  <1> HIDE DEF to
  <1>9. \A e \in ValidEnds(text, q) : \E k \in 1 .. n + 1 : to[k] = e
    BY <1>4, <1>6, <1>7
  <1>10. ASSUME NEW j \in 1 .. n + 1, NEW k \in 1 .. n + 1, j < k
         PROVE  to[j] < to[k]
    <2>1. j \in 1 .. n
      BY <1>1, <1>10
    <2>2. end[j] \in ValidEnds(text, p) /\ to[j] = end[j]
      BY <1>4, <1>7, <2>1
    <2>3. CASE k = n + 1
      BY <1>7, <2>2, <2>3
    <2>4. CASE k \in 1 .. n
      BY <1>4, <1>7, <1>10, <2>1, <2>4
    <2> QED
      BY <1>5, <2>3, <2>4
  <1>11. \A k \in 1 .. n + 1 : more[k] = LineBefore(text, to[k])
    BY <1>2, <1>4, <1>5, <1>7
  <1>12. AreValidLines(more, text, q)
    BY <1>3, <1>8, <1>9, <1>10, <1>11 DEF AreValidLines
  <1> QED
    BY <1>12 DEF more

\* next_target_in_buf on a buffer that begins with a line: it pops a whole line
\* if there is one, and returns it if it is valid.
LEMMA NextLine ==
    ASSUME NEW text \in Seq(Byte), NEW hi \in 0 .. Len(text), NEW p \in 0 .. hi,
           LineStart(text, p), NEW b, b = Slice(text, p, hi),
           NEW lines \in Seq(Seq(Byte)), AreValidLines(lines, text, p),
           NEW r, r = next_target_in_buf(b)
    PROVE  \E q \in p .. hi :
             /\ LineStart(text, q) /\ r.rest = Slice(text, q, hi)
             /\ r.line \in Seq(Byte)
             /\ r.line # <<>> => AreValidLines(Append(lines, r.line), text, q)
             /\ r.line = <<>> => AreValidLines(lines, text, q)
             /\ r.line = <<>>
                /\ (\A i \in Newlines(text) : ValidLine(LineBefore(text, i)))
                  => r.rest = b /\ Newlines(b) = {}
PROOF
  <1>1. Len(text) \in Nat /\ p \in Nat /\ hi \in Nat /\ p <= hi /\ hi <= Len(text)
    BY LenProperties
  <1>2. b \in Seq(Byte) /\ Len(b) = hi - p
    BY SliceProperties
  <1>3. CASE Newlines(b) = {}
    <2>1. r = [line |-> <<>>, rest |-> b]
      BY <1>3 DEF next_target_in_buf
    <2>2. r.line = <<>> /\ r.rest = b /\ p \in p .. hi
      BY <1>1, <2>1
    <2>3. <<>> \in Seq(Byte)
      BY EmptySeq
    <2> QED
      BY <1>3, <2>2, <2>3
  <1>4. CASE Newlines(b) # {}
    <2> DEFINE n == FirstNewline(b)
               l == Slice(b, 0, n - 1)
    <2>1. n \in 1 .. Len(b) /\ b[n] = "n" /\ \A i \in Newlines(b) : n <= i
      BY <1>2, <1>4, FirstNewlineIs
    <2>2. r = [line |-> IF ValidLine(l) THEN l ELSE <<>>,
               rest |-> Slice(b, n, Len(b))]
      BY <1>4 DEF next_target_in_buf, FirstNewline, Slice
    <2> HIDE DEF n
    <2>3. n \in 1 .. hi - p
      BY <1>2, <2>1
    <2> DEFINE q == p + n
    <2>4. /\ q \in Newlines(text)
          /\ \A i \in Newlines(text) : i <= p \/ i >= q
          /\ LineBefore(text, q) = l
          /\ Slice(b, n, hi - p) = Slice(text, q, hi)
      BY <2>1, <2>3, LineInBuffer
    <2>5. q \in Nat /\ p < q /\ q \in p .. hi
      BY <1>1, <2>3
    <2>6. l \in Seq(Byte)
      <3>1. n - 1 \in 0 .. Len(b) /\ 0 \in 0 .. n - 1
        BY <1>1, <1>2, <2>3
      <3> QED
        BY <1>2, <3>1, SliceProperties
    <2> HIDE DEF l, q
    <2>7. /\ r.line = IF ValidLine(l) THEN l ELSE <<>>
          /\ r.rest = Slice(text, q, hi)
      BY <1>2, <2>2, <2>4
    <2>8. LineStart(text, q)
      BY <2>4 DEF LineStart, Newlines
    <2>9. /\ ValidEnds(text, p) \subseteq Nat
          /\ \A i \in ValidEnds(text, p) : i <= p
          /\ ValidLine(l) => ValidEnds(text, q) = ValidEnds(text, p) \cup {q}
          /\ ~ValidLine(l) => ValidEnds(text, q) = ValidEnds(text, p)
      BY <1>1, <2>4, <2>5, EndsGrow, ZenonT(60)
    <2>10. CASE ValidLine(l)
      <3>1. r.line = l /\ l # <<>>
        BY <2>7, <2>10 DEF ValidLine
      <3>2. AreValidLines(Append(lines, l), text, q)
        BY <1>1, <2>4, <2>5, <2>6, <2>9, <2>10, AppendLine
      <3> QED
        BY <2>5, <2>6, <2>7, <2>8, <3>1, <3>2
    <2>11. CASE ~ValidLine(l)
      <3>1. r.line = <<>> /\ <<>> \in Seq(Byte)
        BY <2>7, <2>11, EmptySeq
      <3>2. AreValidLines(lines, text, q)
        BY <2>9, <2>11 DEF AreValidLines
      <3>3. ~ (\A i \in Newlines(text) : ValidLine(LineBefore(text, i)))
        BY <2>4, <2>11
      <3> QED
        BY <2>5, <2>7, <2>8, <3>1, <3>2, <3>3
    <2> QED
      BY <2>10, <2>11
  <1> QED
    BY <1>3, <1>4

---------------------------------------------------------------------------
(* The inductive step.                                                    *)

LEMMA InputType == ASSUME NEW t \in Inputs PROVE t \in Seq(Byte)
PROOF
  <1>1. PICK n \in 0 .. MaxInput : t \in [1 .. n -> Byte]
    BY DEF Inputs
  <1>2. n \in Nat
    BY FileAssumption
  <1> QED
    BY <1>1, <1>2, SeqDef

\* What the invariant says of the state in which next_target is called.
LEMMA CallState ==
    ASSUME FileInv, failed # "read"
    PROVE  /\ input \in Seq(Byte) /\ Len(input) \in Nat
           /\ written \in 0 .. Len(input) /\ nread \in 0 .. written
           /\ nread \in 0 .. Len(input) /\ nread - Len(buf) \in 0 .. nread
           /\ buf \in Seq(Byte) /\ Len(buf) \in Nat
           /\ buf = Slice(input, nread - Len(buf), nread)
           /\ LineStart(input, nread - Len(buf))
           /\ returned \in Seq(Seq(Byte))
           /\ AreValidLines(returned, input, nread - Len(buf))
PROOF
  <1>1. /\ input \in Seq(Byte) /\ Len(input) \in Nat
        /\ written \in 0 .. Len(input) /\ nread \in 0 .. written
        /\ returned \in Seq(Seq(Byte)) /\ Len(buf) \in Nat
    BY LenProperties DEF FileInv, TypeOK
  <1>2. nread \in 0 .. Len(input)
    BY <1>1
  <1>3. /\ nread - Len(buf) \in Nat /\ buf = Slice(input, nread - Len(buf), nread)
        /\ LineStart(input, nread - Len(buf))
    BY DEF FileInv, BufferInv
  <1>4. nread - Len(buf) \in 0 .. nread
    BY <1>1, <1>3
  <1>5. buf \in Seq(Byte)
    BY <1>1, <1>2, <1>3, <1>4, SliceProperties
  <1> QED
    BY <1>1, <1>2, <1>3, <1>4, <1>5 DEF FileInv, LinesExact

\* The invariant of the state next_target leaves, from where the buffer begins
\* in the input.
LEMMA CallResult ==
    ASSUME FileInv, failed # "read", UNCHANGED <<input, written, closed>>,
           nread' \in 0 .. written, failed' \in {"no", "call"},
           result' \in {"none", "target", "end", "block"},
           returned' \in Seq(Seq(Byte)),
           NEW q \in 0 .. nread', LineStart(input, q),
           buf' = Slice(input, q, nread'), AreValidLines(returned', input, q),
           result' = "end" /\ failed' = "no" =>
             /\ closed /\ nread' = written
             /\ (\A n \in Newlines(input) : ValidLine(LineBefore(input, n)))
                    => Newlines(buf') = {}
    PROVE  FileInv'
PROOF
  <1>1. /\ input \in Seq(Byte) /\ Len(input) \in Nat
        /\ written \in 0 .. Len(input)
    BY CallState
  <1>2. nread' \in 0 .. Len(input) /\ nread' \in Nat /\ q \in Nat
    BY <1>1
  <1>3. buf' \in Seq(Byte) /\ Len(buf') = nread' - q
    BY <1>1, <1>2, SliceProperties, ZenonT(60)
  <1>4. nread' - Len(buf') = q
    <2>1. \A a, b \in Nat : a - (a - b) = b
      OBVIOUS
    <2> QED
      BY ONLY <1>2, <1>3, <2>1
  <1>5. buf' \in Seq(Byte \cup {Unset})
    BY <1>3, SeqMonotonic
  <1>6. TypeOK'
    BY <1>5 DEF FileInv, TypeOK
  <1>7. BufferInv'
    BY <1>2, <1>4 DEF BufferInv
  <1>8. LinesExact'
    BY <1>4 DEF LinesExact
  <1>9. EndInv'
    BY DEF FileInv, EndInv
  <1> QED
    BY <1>6, <1>7, <1>8, <1>9 DEF FileInv

\* The buffer after its first half found no address in it.
LEMMA NoAddress ==
    ASSUME FileInv, failed # "read", no_address_buffered
    PROVE  \E q \in 0 .. nread :
             /\ LineStart(input, q) /\ emptied = Slice(input, q, nread)
             /\ AreValidLines(returned, input, q)
             /\ (\A n \in Newlines(input) : ValidLine(LineBefore(input, n)))
                    => Newlines(emptied) = {}
PROOF
  <1> DEFINE p == nread - Len(buf)
             r == next_target_in_buf(buf)
  <1>1. /\ input \in Seq(Byte) /\ nread \in 0 .. Len(input) /\ p \in 0 .. nread
        /\ buf = Slice(input, p, nread) /\ LineStart(input, p)
        /\ returned \in Seq(Seq(Byte)) /\ AreValidLines(returned, input, p)
    BY CallState
  <1>2. r.line = <<>> /\ emptied = r.rest
    BY DEF no_address_buffered, emptied
  <1> HIDE DEF p, r
  <1>3. PICK q \in p .. nread :
          /\ LineStart(input, q) /\ r.rest = Slice(input, q, nread)
          /\ r.line = <<>> => AreValidLines(returned, input, q)
          /\ r.line = <<>>
             /\ (\A i \in Newlines(input) : ValidLine(LineBefore(input, i)))
               => r.rest = buf /\ Newlines(buf) = {}
    BY <1>1, NextLine DEF r
  <1>4. q \in 0 .. nread
    BY <1>1
  <1> QED
    BY <1>2, <1>3, <1>4

LEMMA FileBuffered ==
    ASSUME FileInv, failed # "read", next_target_buffered
    PROVE  FileInv'
PROOF
  <1> DEFINE p == nread - Len(buf)
             r == next_target_in_buf(buf)
  <1>1. /\ input \in Seq(Byte) /\ nread \in 0 .. Len(input) /\ p \in 0 .. nread
        /\ buf = Slice(input, p, nread) /\ LineStart(input, p)
        /\ returned \in Seq(Seq(Byte)) /\ AreValidLines(returned, input, p)
        /\ nread \in 0 .. written
    BY CallState
  <1>2. /\ r.line # <<>> /\ buf' = r.rest /\ returned' = Append(returned, r.line)
        /\ result' = "target" /\ UNCHANGED <<input, written, closed, nread, failed>>
    BY DEF next_target_buffered, Writer
  <1> HIDE DEF p, r
  <1>3. PICK q \in p .. nread :
          /\ LineStart(input, q) /\ r.rest = Slice(input, q, nread)
          /\ r.line \in Seq(Byte)
          /\ r.line # <<>> => AreValidLines(Append(returned, r.line), input, q)
    BY ONLY <1>1, NextLine DEF r
  <1>4. returned' \in Seq(Seq(Byte))
    BY <1>1, <1>2, <1>3, AppendProperties
  <1>5. q \in 0 .. nread' /\ nread' \in 0 .. written
    BY <1>1, <1>2
  <1>6. failed' \in {"no", "call"}
    BY <1>2 DEF FileInv, TypeOK
  <1>7. /\ buf' = Slice(input, q, nread') /\ AreValidLines(returned', input, q)
        /\ UNCHANGED <<input, written, closed>> /\ result' # "end"
        /\ result' \in {"none", "target", "end", "block"}
    BY <1>2, <1>3
  <1> QED
    BY <1>3, <1>4, <1>5, <1>6, <1>7, CallResult

LEMMA FileNothingRead ==
    ASSUME FileInv, failed # "read",
           next_target_would_block \/ next_target_end \/ next_target_error
    PROVE  FileInv'
PROOF
  <1>1. /\ no_address_buffered /\ buf' = emptied
        /\ UNCHANGED <<input, written, closed, nread, returned>>
    BY DEF next_target_would_block, next_target_end, next_target_error, Writer
  <1>2. PICK q \in 0 .. nread :
          /\ LineStart(input, q) /\ emptied = Slice(input, q, nread)
          /\ AreValidLines(returned, input, q)
          /\ (\A n \in Newlines(input) : ValidLine(LineBefore(input, n)))
                 => Newlines(emptied) = {}
    BY <1>1, NoAddress
  <1>3. nread \in 0 .. written /\ returned \in Seq(Seq(Byte))
    BY CallState
  <1>4. failed' \in {"no", "call"} /\ result' \in {"none", "target", "end", "block"}
    BY DEF next_target_would_block, next_target_end, next_target_error, FileInv,
           TypeOK
  <1>5. result' = "end" /\ failed' = "no" => closed /\ nread = written
    BY DEF next_target_would_block, next_target_end, next_target_error
  <1>6. /\ q \in 0 .. nread' /\ nread' \in 0 .. written
        /\ buf' = Slice(input, q, nread') /\ AreValidLines(returned', input, q)
        /\ returned' \in Seq(Seq(Byte)) /\ UNCHANGED <<input, written, closed>>
    BY <1>1, <1>2, <1>3
  <1>7. result' = "end" /\ failed' = "no" =>
          /\ closed /\ nread' = written
          /\ (\A n \in Newlines(input) : ValidLine(LineBefore(input, n)))
                 => Newlines(buf') = {}
    BY <1>1, <1>2, <1>5
  <1> QED
    BY <1>2, <1>4, <1>6, <1>7, CallResult

LEMMA FileRead ==
    ASSUME FileInv, failed # "read", next_target_read
    PROVE  FileInv'
PROOF
  <1> DEFINE b == emptied \o SubSeq(input, nread + 1, written)
             r == next_target_in_buf(b)
  <1>1. /\ no_address_buffered /\ written > nread /\ nread' = written
        /\ buf' = r.rest
        /\ r.line # <<>> => returned' = Append(returned, r.line) /\ result' = "target"
        /\ r.line = <<>> => returned' = returned /\ result' = "block"
        /\ UNCHANGED <<input, written, closed, failed>>
    BY DEF next_target_read, Writer
  <1>2. PICK p \in 0 .. nread :
          /\ LineStart(input, p) /\ emptied = Slice(input, p, nread)
          /\ AreValidLines(returned, input, p)
    BY <1>1, NoAddress
  <1>3. /\ input \in Seq(Byte) /\ Len(input) \in Nat
        /\ written \in 0 .. Len(input) /\ nread \in 0 .. written
        /\ returned \in Seq(Seq(Byte))
    BY CallState
  <1>4. p \in 0 .. written
    BY <1>3
  <1>5. b = Slice(input, p, written)
    <2>1. /\ p + 1 \in 1 .. Len(input) + 1 /\ nread \in (p + 1) - 1 .. Len(input)
          /\ written \in nread .. Len(input)
      BY <1>3
    <2>2. SubSeq(input, p + 1, nread) \o SubSeq(input, nread + 1, written)
            = SubSeq(input, p + 1, written)
      BY <1>3, <2>1, ConcatAdjacentSubSeq
    <2> QED
      BY <1>2, <2>2 DEF Slice
  <1> HIDE DEF b, r
  <1>6. PICK q \in p .. written :
          /\ LineStart(input, q) /\ r.rest = Slice(input, q, written)
          /\ r.line \in Seq(Byte)
          /\ r.line # <<>> => AreValidLines(Append(returned, r.line), input, q)
          /\ r.line = <<>> => AreValidLines(returned, input, q)
    BY <1>2, <1>3, <1>4, <1>5, NextLine DEF r
  <1>7. returned' \in Seq(Seq(Byte))
    <2>1. Append(returned, r.line) \in Seq(Seq(Byte))
      BY <1>3, <1>6, AppendProperties
    <2> QED
      BY <1>1, <1>3, <2>1
  <1>8. q \in 0 .. nread' /\ nread' \in 0 .. written
    BY <1>1, <1>2, <1>3
  <1>9. failed' \in {"no", "call"}
    BY <1>1 DEF FileInv, TypeOK
  <1>10. /\ buf' = Slice(input, q, nread') /\ AreValidLines(returned', input, q)
         /\ UNCHANGED <<input, written, closed>> /\ result' # "end"
         /\ result' \in {"none", "target", "end", "block"}
    BY <1>1, <1>6
  <1> QED
    BY <1>6, <1>7, <1>8, <1>9, <1>10, CallResult

LEMMA FileReadError ==
    ASSUME FileInv, failed # "read", next_target_read_error
    PROVE  FileInv'
PROOF
  <1> DEFINE unset == [i \in 1 .. written - nread |-> Unset]
  <1>1. /\ no_address_buffered /\ written > nread /\ buf' = emptied \o unset
        /\ result' = "end" /\ failed' = "read"
        /\ UNCHANGED <<input, written, closed, nread, returned>>
    BY DEF next_target_read_error, Writer
  <1>2. PICK p \in 0 .. nread : emptied = Slice(input, p, nread)
    BY <1>1, NoAddress
  <1>3. /\ input \in Seq(Byte) /\ nread \in 0 .. Len(input)
        /\ written \in 0 .. Len(input) /\ Len(input) \in Nat
    BY CallState
  <1>4. emptied \in Seq(Byte \cup {Unset})
    <2>1. emptied \in Seq(Byte)
      BY <1>2, <1>3, SliceProperties
    <2> QED
      BY <2>1, SeqMonotonic
  <1>5. unset \in Seq(Byte \cup {Unset})
    <2>1. written - nread \in Nat
      BY <1>1, <1>3
    <2>2. \A i \in 1 .. written - nread : Unset \in Byte \cup {Unset}
      OBVIOUS
    <2> QED
      BY <2>1, <2>2, IsASeq
  <1> HIDE DEF unset
  <1>6. buf' \in Seq(Byte \cup {Unset})
    BY <1>1, <1>4, <1>5, ConcatProperties
  <1>7. TypeOK'
    BY <1>1, <1>6 DEF FileInv, TypeOK
  <1>8. BufferInv' /\ LinesExact' /\ EndInv'
    BY <1>1 DEF FileInv, BufferInv, LinesExact, EndInv
  <1> QED
    BY <1>7, <1>8 DEF FileInv

LEMMA FileWriter ==
    ASSUME FileInv, Write \/ Close
    PROVE  FileInv'
PROOF
  <1>1. UNCHANGED <<input, nread, buf, result, returned, failed>>
    BY DEF Write, Close
  <1>2. BufferInv' /\ LinesExact'
    BY <1>1 DEF FileInv, BufferInv, LinesExact
  <1>3. Len(input) \in Nat /\ written \in 0 .. Len(input) /\ nread \in 0 .. written
    BY LenProperties DEF FileInv, TypeOK
  <1>4. CASE Write
    <2>1. PICK k \in 1 .. Len(input) - written : written' = written + k
      BY <1>4 DEF Write
    <2>2. written' \in 0 .. Len(input) /\ nread \in 0 .. written' /\ written # Len(input)
      BY <1>3, <2>1
    <2>3. closed' = closed
      BY <1>4 DEF Write
    <2>4. TypeOK'
      BY <1>1, <2>2, <2>3 DEF FileInv, TypeOK
    <2>5. EndInv'
      BY <1>1, <2>2, <2>3 DEF FileInv, EndInv
    <2> QED
      BY <1>2, <2>4, <2>5 DEF FileInv
  <1>5. CASE Close
    <2>1. written = Len(input) /\ written' = written /\ closed' = TRUE
      BY <1>5 DEF Close
    <2>2. TypeOK'
      BY <1>1, <2>1 DEF FileInv, TypeOK
    <2>3. EndInv'
      BY <1>1, <2>1 DEF FileInv, EndInv
    <2> QED
      BY <1>2, <2>2, <2>3 DEF FileInv
  <1> QED
    BY <1>4, <1>5

LEMMA FileInit == Init => FileInv
PROOF
  <1> SUFFICES ASSUME Init
               PROVE  FileInv
    OBVIOUS
  <1>1. input \in Seq(Byte) /\ Len(input) \in Nat
    BY InputType, LenProperties DEF Init
  <1>2. /\ buf = <<>> /\ returned = <<>> /\ nread = 0 /\ written = 0
        /\ closed = FALSE /\ result = "none" /\ failed = "no" /\ Len(buf) = 0
    BY EmptySeq DEF Init
  <1>3. TypeOK
    <2>1. buf \in Seq(Byte \cup {Unset}) /\ returned \in Seq(Seq(Byte))
      <3>1. \A S : <<>> \in Seq(S)
        BY EmptySeq
      <3> QED
        BY <1>2, <3>1, Zenon
    <2>2. written \in 0 .. Len(input) /\ nread \in 0 .. written
      BY <1>1, <1>2
    <2> QED
      BY <1>1, <1>2, <2>1, <2>2, Zenon DEF TypeOK
  <1>4. nread - Len(buf) = nread
    <2>1. \A a, b : a = 0 /\ b = 0 => a - b = a
      OBVIOUS
    <2> QED
      BY ONLY <1>2, <2>1
  <1>5. BufferInv
    <2>1. Slice(input, nread, nread) = <<>>
      BY <1>2, SubSeqEmpty DEF Slice
    <2> QED
      BY <1>2, <1>4, <2>1 DEF BufferInv, LineStart
  <1>6. LinesExact
    <2>1. ValidEnds(input, nread) = {}
      BY <1>1, <1>2, NewlinesOf DEF ValidEnds
    <2>2. DOMAIN returned = {}
      BY <1>2
    <2>3. AreValidLines(returned, input, nread)
      <3>1. [k \in {} |-> 0] \in [{} -> {}]
        OBVIOUS
      <3> QED
        BY <2>1, <2>2, <3>1 DEF AreValidLines
    <2> QED
      BY <1>4, <2>3 DEF LinesExact
  <1>7. EndInv
    BY <1>2 DEF EndInv
  <1> QED
    BY <1>3, <1>5, <1>6, <1>7 DEF FileInv

LEMMA FileStep == FileInv /\ [Next]_vars => FileInv'
PROOF
  <1> SUFFICES ASSUME FileInv, [Next]_vars
               PROVE  FileInv'
    OBVIOUS
  <1>1. CASE UNCHANGED vars
    BY <1>1 DEF vars, FileInv, TypeOK, BufferInv, LinesExact, EndInv
  <1> QED
    BY <1>1, FileWriter, FileBuffered, FileNothingRead, FileRead, FileReadError
       DEF Next, next_target, next_target_fails

---------------------------------------------------------------------------
(* The theorems.                                                          *)

\* The invariant of TargetAsyncFile::next_target, whatever the writer's and the
\* reader's steps and the calls that fail.
THEOREM FileSafety == Spec => []FileInv
PROOF
  <1>1. Init => FileInv
    BY FileInit
  <1>2. FileInv /\ [Next]_vars => FileInv'
    BY FileStep
  <1> QED
    BY <1>1, <1>2, PTL DEF Spec

\* next_target never takes more bytes from the descriptor than were written,
\* and only lines of bytes that were are returned.
THEOREM FileTypeCorrect == Spec => []TypeOK
PROOF
  <1>1. FileInv => TypeOK
    BY DEF FileInv
  <1> QED
    BY <1>1, FileSafety, PTL

\* Wherever the reads cut the input, next_target returns exactly its valid
\* lines, in order.
THEOREM LinesAlwaysExact == Spec => []LinesExact
PROOF
  <1>1. FileInv => LinesExact
    BY DEF FileInv
  <1> QED
    BY <1>1, FileSafety, PTL

\* Target::end() is not returned before the last line, unless a line is
\* invalid or a system call fails.
THEOREM EndAlwaysSound == Spec => []EndSound
PROOF
  <1>1. FileInv => EndSound
    <2> SUFFICES ASSUME FileInv, result = "end", failed = "no",
                        \A n \in Newlines(input) : ValidLine(LineBefore(input, n))
                 PROVE  closed /\ AreValidLines(returned, input, Len(input))
      BY DEF EndSound
    <2> DEFINE p == nread - Len(buf)
    <2>1. /\ closed /\ nread = written /\ written = Len(input)
          /\ Newlines(buf) = {}
      BY DEF FileInv, EndInv
    <2>2. /\ input \in Seq(Byte) /\ Len(input) \in Nat /\ p \in 0 .. nread
          /\ nread \in 0 .. Len(input)
          /\ buf = Slice(input, p, nread) /\ AreValidLines(returned, input, p)
      BY CallState
    <2> HIDE DEF p
    <2>3. /\ buf \in Seq(Byte) /\ Len(buf) = nread - p
          /\ \A i \in 1 .. nread - p : buf[i] = input[p + i]
      BY <2>2, SliceProperties
    <2>4. ASSUME NEW n \in Newlines(input)
          PROVE  n <= p
      <3>1. n \in 1 .. Len(input) /\ input[n] = "n"
        BY <2>2, NewlinesOf
      <3>2. CASE n > p
        <4>1. n - p \in 1 .. nread - p /\ p + (n - p) = n
          BY <2>1, <2>2, <3>1, <3>2
        <4>2. buf[n - p] = "n"
          BY <2>3, <3>1, <4>1
        <4>3. n - p \in Newlines(buf)
          BY <2>3, <4>1, <4>2, NewlinesOf
        <4> QED
          BY <2>1, <4>3
      <3> QED
        BY <2>2, <3>1, <3>2
    <2>5. ValidEnds(input, p) = ValidEnds(input, Len(input))
      BY <2>2, <2>4, NewlinesOf DEF ValidEnds
    <2> QED
      BY <2>1, <2>2, <2>5 DEF AreValidLines
  <1> QED
    BY <1>1, FileSafety, PTL
=============================================================================
